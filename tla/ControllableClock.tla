-------------------------- MODULE ControllableClock --------------------------
(***************************************************************************)
(* The virtual clock the schedulers are tested with                        *)
(* (internal/clock/mock.go), behind the interface of internal/clock/       *)
(* clock.go.  Every method runs under the clock's mutex; Advance, which    *)
(* loops over the due entries, is one step per entry with the mutex held   *)
(* throughout.  The heap is the set of queued entries, ordered by trigger  *)
(* time and then by id.  Reading a timer's channel needs no lock.          *)
(***************************************************************************)
EXTENDS Integers, Sequences, FiniteSets

CONSTANTS
    Callers,     \* goroutines that call BlockUntilTimers
    Durations,   \* the durations callers use
    MaxEntries,  \* bound on the timers and tickers created
    MaxTime      \* bound on virtual time

ASSUME ClockAssumption ==
    /\ IsFiniteSet(Callers) /\ Durations \subseteq Nat
    /\ MaxEntries \in Nat \ {0} /\ MaxTime \in Nat

VARIABLES
    now,      \* c.now, counted from the initial time
    entries,  \* every mockEntry made so far, indexed by id
    target,   \* Advance in progress: its targetTime, else -1
    waits,    \* per caller: the count it waits for, 0 when not waiting
    jumped,   \* history: Set was called
    rearmed   \* history: Reset put an entry back into the heap, and none was made since

clockVars == <<now, entries, target, waits, jumped, rearmed>>

Ids == DOMAIN entries

\* base and fires are histories: when the entry was armed, how often it has fired since.
NewEntry(kind, d) ==
    [kind |-> kind, at |-> now + d, period |-> d, stopped |-> FALSE, queued |-> TRUE,
     full |-> FALSE, base |-> now, fires |-> 0]

Unlocked == target = -1

\* activeTimersCountLocked
Active(es) == Cardinality({i \in DOMAIN es : es[i].queued /\ ~es[i].stopped})

\* The entries Advance still has to fire, and the one at the top of the heap
Due == {i \in Ids : entries[i].queued /\ entries[i].at <= target}

Earliest_LatestFirst(S) ==
    CHOOSE i \in S : \A j \in S : entries[j].at < entries[i].at \/ (entries[j].at = entries[i].at /\ i <= j)
Earliest(S) ==
    CHOOSE i \in S : \A j \in S : entries[i].at < entries[j].at \/ (entries[i].at = entries[j].at /\ i <= j)

\* notifyWaitersLocked: whoever waits for no more than what is active goes on.
Notified_Exact(es) == [g \in Callers |-> IF waits[g] < Active(es) THEN 0 ELSE waits[g]]
Notified(es) == [g \in Callers |-> IF waits[g] <= Active(es) THEN 0 ELSE waits[g]]

ClockInit ==
    /\ now = 0 /\ entries = <<>> /\ target = -1
    /\ waits = [g \in Callers |-> 0]
    /\ jumped = FALSE /\ rearmed = FALSE

-----------------------------------------------------------------------------
\* NewTimer and NewTicker
New(kind, d) ==
    /\ Unlocked /\ Len(entries) < MaxEntries
    /\ entries' = Append(entries, NewEntry(kind, d))
    /\ waits' = Notified(entries')
    /\ rearmed' = FALSE
    /\ UNCHANGED <<now, target, jumped>>

BeginAdvance(d) ==
    /\ Unlocked /\ now + d <= MaxTime
    /\ target' = now + d
    /\ UNCHANGED <<now, entries, waits, jumped, rearmed>>

\* What becomes of an entry popped by Advance: its channel holds one value, a
\* further one is discarded, and only a ticker with a period is queued again.
Fired(e) ==
    IF e.stopped THEN [e EXCEPT !.queued = FALSE]
    ELSE LET again == e.kind = "ticker" /\ e.period > 0
         IN  [e EXCEPT !.full = TRUE, !.fires = @ + 1, !.queued = again,
                       !.at = IF again THEN @ + e.period ELSE @]

Fire ==
    /\ ~Unlocked /\ Due # {}
    /\ LET i == Earliest(Due)
       IN  /\ now' = entries[i].at
           /\ entries' = [entries EXCEPT ![i] = Fired(@)]
    /\ UNCHANGED <<target, waits, jumped, rearmed>>

EndAdvance ==
    /\ ~Unlocked /\ Due = {}
    /\ now' = target
    /\ target' = -1
    /\ UNCHANGED <<entries, waits, jumped, rearmed>>

Set(t) ==
    /\ Unlocked
    /\ now' = t /\ jumped' = TRUE
    /\ UNCHANGED <<entries, target, waits, rearmed>>

\* What Stop and Reset of a timer return, by the entry they find: whether it
\* has not been stopped, even if it has fired.
WasActive(e) == ~e.stopped

\* What Stop makes of an entry: it leaves the heap, if it is still there.
Stopped(e) == [e EXCEPT !.stopped = TRUE, !.queued = FALSE]

TimerStop(i) ==
    /\ Unlocked /\ entries[i].kind = "timer"
    /\ entries' = [entries EXCEPT ![i] = Stopped(@)]
    /\ UNCHANGED <<now, target, waits, jumped, rearmed>>

TickerStop(i) ==
    /\ Unlocked /\ entries[i].kind = "ticker"
    /\ entries' = [entries EXCEPT ![i] = Stopped(@)]
    /\ UNCHANGED <<now, target, waits, jumped, rearmed>>

\* Reset of a timer or a ticker: armed again from now; nobody is notified.
Rearmed(e, d) ==
    [e EXCEPT !.stopped = FALSE, !.at = now + d, !.period = d, !.queued = TRUE,
              !.base = now, !.fires = 0]

Reset(i, d) ==
    /\ Unlocked
    /\ entries' = [entries EXCEPT ![i] = Rearmed(@, d)]
    /\ rearmed' = (rearmed \/ ~entries[i].queued)
    /\ UNCHANGED <<now, target, waits, jumped>>

\* The owner takes the value from the channel.
Receive(i) ==
    /\ entries[i].full
    /\ entries' = [entries EXCEPT ![i].full = FALSE]
    /\ UNCHANGED <<now, target, waits, jumped, rearmed>>

\* BlockUntilTimers returns at once when enough are active, else it waits.
BlockUntilTimers(g, n) ==
    /\ Unlocked /\ waits[g] = 0 /\ Active(entries) < n
    /\ waits' = [waits EXCEPT ![g] = n]
    /\ UNCHANGED <<now, entries, target, jumped, rearmed>>

-----------------------------------------------------------------------------
TimerKinds == {"timer", "ticker"}

ClockNext ==
    \/ \E kind \in TimerKinds, d \in Durations : New(kind, d)
    \/ \E d \in Durations : BeginAdvance(d)
    \/ Fire \/ EndAdvance
    \/ \E t \in 0..MaxTime : Set(t)
    \/ \E i \in Ids : TimerStop(i) \/ TickerStop(i) \/ Receive(i) \/ \E d \in Durations : Reset(i, d)
    \/ \E g \in Callers, n \in 1..MaxEntries : BlockUntilTimers(g, n)

ClockSpec == ClockInit /\ [][ClockNext]_clockVars

-----------------------------------------------------------------------------
(* Properties                                                               *)

\* However Advance, Stop and Reset alternate, a timer fires at most once after
\* it was armed, and a ticker's next tick is due a whole number of periods after
\* it was armed, even if one Advance passed several of them.  Unless Set is
\* used, none is ever overdue, also between the entries that one Advance fires.
\* Stop and Reset return true of a timer that has not fired exactly if it would
\* still fire.  (Of one that has fired they return true as well, until it is
\* stopped, where clock.go:31 and 36 say false.)
FiresOnSchedule ==
    \A i \in Ids :
        LET e == entries[i]
        IN  /\ e.kind = "timer" => e.fires <= 1 /\ (e.queued => e.fires = 0)
            /\ e.kind = "timer" /\ e.fires = 0 => (WasActive(e) <=> e.queued)
            /\ e.queued => e.at = e.base + (e.fires + 1) * e.period /\ (~jumped => e.at >= now)

\* No caller of BlockUntilTimers is left waiting when enough timers are
\* registered, except between a Reset that puts a fired or stopped entry back
\* into the heap, which notifies nobody (mock.go:272), and the next timer or
\* ticker that is made, which wakes those whom the Reset forgot as well.
NoForgottenWaiter ==
    \A g \in Callers : waits[g] > 0 /\ ~rearmed => Active(entries) < waits[g]

=============================================================================
