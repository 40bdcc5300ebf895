----------------------------- MODULE MCGuiEngine -----------------------------
(* Small instances of GuiEngine for TLC. *)
EXTENDS GuiEngine
=============================================================================
