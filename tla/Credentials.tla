----------------------------- MODULE Credentials -----------------------------
(***************************************************************************)
(* What a virtual user identifies itself with (internal/auth): the token   *)
(* of the provider, the one header that AuthenticateRequest sets, and the  *)
(* cookie jar of the user.  A header is [header, scheme, token]; schemes   *)
(* are "Bearer", "Basic" and "" for a bare token.                          *)
(***************************************************************************)
EXTENDS Integers, Sequences

NoCredential == [header |-> "", scheme |-> "", token |-> ""]

\* The dispatcher's id is negative; Go's remainder then is too, and is negated.
TokenPoolProvider_GetToken(tokens, worker) ==
    tokens[((IF worker < 0 THEN -worker ELSE worker) % Len(tokens)) + 1]

\* TokenProvider.GetToken of the provider that NewTokenProvider chooses
GetToken(auth, worker) ==
    CASE auth.type = "token_pool" -> TokenPoolProvider_GetToken(auth.tokens, worker)
      [] auth.type \in {"bearer", "custom_header"} -> auth.token
      [] OTHER -> ""

HeaderName(auth) == IF auth.headerName = "" THEN "Authorization" ELSE auth.headerName

AuthenticateRequest(auth, worker) ==
    LET token == GetToken(auth, worker)
        bearer == [header |-> "Authorization", scheme |-> "Bearer", token |-> token]
        bare == [header |-> HeaderName(auth), scheme |-> "", token |-> token]
    IN  IF auth.type = "basic" THEN [header |-> "Authorization", scheme |-> "Basic", token |-> auth.username]
        ELSE IF token = "" THEN NoCredential
        ELSE CASE auth.type = "bearer" -> bearer
               [] auth.type = "custom_header" -> bare
               [] auth.type = "token_pool" -> IF HeaderName(auth) = "Authorization" THEN bearer ELSE bare

\* The index of a user's jar, NoJar where the manager returns nil
NoJar == -1
GetJar_Shared(enabled, users, id) == IF ~enabled \/ id < 0 \/ id >= users THEN NoJar ELSE 0
GetJar(enabled, users, id) == IF ~enabled \/ id < 0 \/ id >= users THEN NoJar ELSE id
=============================================================================
