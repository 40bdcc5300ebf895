-------------------------- MODULE Components_proofs --------------------------
(***************************************************************************)
(* Machine-checked proofs about three components that share no state with  *)
(* each other: the virtual clock, the studio's engine and the health       *)
(* sampler, each for all values of its constants.                          *)
(***************************************************************************)
EXTENDS ControllableClock, GuiEngine, HealthSampler, Sums_proofs

-----------------------------------------------------------------------------
(* The virtual clock                                                        *)

Entries ==
    [kind : {"timer", "ticker"}, at : Nat, period : Nat, stopped : BOOLEAN, queued : BOOLEAN,
     full : BOOLEAN, base : Nat, fires : Nat]

ClockType ==
    /\ now \in Nat /\ target \in Nat \cup {-1} /\ entries \in Seq(Entries)
    /\ waits \in [Callers -> Nat] /\ jumped \in BOOLEAN /\ rearmed \in BOOLEAN

\* What FiresOnSchedule says of one entry
OnSchedule(e) ==
    /\ e.kind = "timer" => e.fires <= 1 /\ (e.queued => e.fires = 0)
    /\ e.kind = "timer" /\ e.fires = 0 => (WasActive(e) <=> e.queued)
    /\ e.queued => e.at = e.base + (e.fires + 1) * e.period

\* Time never passes the target of an Advance, nor what is still queued
\* unless Set moves it.
TimeInv ==
    /\ target # -1 => now <= target
    /\ ~jumped => \A i \in DOMAIN entries : entries[i].queued => entries[i].at >= now

\* Stop takes an entry out of the heap: what is queued is active.
HeapInv == \A i \in DOMAIN entries : entries[i].queued => ~entries[i].stopped

ScheduleInv == \A i \in DOMAIN entries : OnSchedule(entries[i])

ClockInv == ClockType /\ TimeInv /\ HeapInv /\ ScheduleInv /\ NoForgottenWaiter

\* The active entries of a heap
ActiveIn(es) == {i \in DOMAIN es : es[i].queued /\ ~es[i].stopped}

\* mock.go:214: the count of active entries is a number, and no more are
\* active where only some of the same entries are.
LEMMA ActiveFacts ==
  ASSUME NEW es \in Seq(Entries), NEW fs \in Seq(Entries), ActiveIn(fs) \subseteq ActiveIn(es)
  PROVE  Active(es) \in Nat /\ Active(fs) \in Nat /\ Active(fs) <= Active(es)
<1>1. Active(es) = Cardinality(ActiveIn(es)) /\ Active(fs) = Cardinality(ActiveIn(fs))
  BY DEF Active, ActiveIn
<1>2. IsFiniteSet(ActiveIn(es))
  <2>1. DOMAIN es = 1..Len(es) /\ Len(es) \in Nat
    OBVIOUS
  <2>2. IsFiniteSet(1..Len(es))
    BY <2>1, FS_Interval
  <2>3. ActiveIn(es) \subseteq 1..Len(es)
    BY <2>1 DEF ActiveIn
  <2> QED BY <2>2, <2>3, FS_Subset
<1> QED BY <1>1, <1>2, FS_Subset, FS_CardinalityType

\* The fields of an entry
LEMMA FieldTypes ==
  ASSUME NEW e \in Entries
  PROVE  /\ e.kind \in {"timer", "ticker"} /\ e.at \in Nat /\ e.period \in Nat /\ e.base \in Nat /\ e.fires \in Nat
         /\ e.stopped \in BOOLEAN /\ e.queued \in BOOLEAN /\ e.full \in BOOLEAN
         /\ e = [kind |-> e.kind, at |-> e.at, period |-> e.period, stopped |-> e.stopped, queued |-> e.queued,
                 full |-> e.full, base |-> e.base, fires |-> e.fires]
BY DEF Entries

\* The entries of the clock
LEMMA EntryTypes ==
  ASSUME entries \in Seq(Entries)
  PROVE  \A i \in DOMAIN entries : i \in Nat /\ entries[i] \in Entries /\ entries[i].at \in Nat
<1> SUFFICES ASSUME NEW i \in DOMAIN entries PROVE i \in Nat /\ entries[i] \in Entries /\ entries[i].at \in Nat
  OBVIOUS
<1>1. i \in Nat /\ entries[i] \in Entries
  OBVIOUS
<1> QED BY <1>1, FieldTypes

\* A set of numbers has a least one.
LEMMA LeastOf ==
  ASSUME NEW T, T \subseteq Nat, T # {}
  PROVE  \E k \in T : \A j \in T : k <= j
<1>1. PICK m \in T : TRUE
  OBVIOUS
<1>2. m \in Nat
  OBVIOUS
<1> DEFINE U == T \cap (0..m)
<1>3. U \subseteq 0..m /\ U # {}
  BY <1>1, <1>2
<1>4. PICK k \in U : \A j \in U : k <= j
  <2> HIDE DEF U
  <2> QED BY <1>2, <1>3, LeastNumber
<1>5. \A j \in T : k <= j
  <2> SUFFICES ASSUME NEW j \in T PROVE k <= j
    OBVIOUS
  <2>1. CASE j <= m
    <3>1. j \in U
      BY <2>1, <1>2
    <3> QED BY <1>4, <3>1
  <2>2. CASE ~(j <= m)
    BY <1>2, <1>4, <2>2
  <2> QED BY <2>1, <2>2
<1> QED BY <1>4, <1>5

\* mock.go:20: the order of the heap has a first entry, and it is not later
\* than any other.
LEMMA EarliestFacts ==
  ASSUME entries \in Seq(Entries), NEW S, S \subseteq DOMAIN entries, S # {}
  PROVE  Earliest(S) \in S /\ \A j \in S : entries[Earliest(S)].at <= entries[j].at
<1> DEFINE Before(i, j) == entries[i].at < entries[j].at \/ (entries[i].at = entries[j].at /\ i <= j)
           Times == {entries[j].at : j \in S}
<1>1. \A j \in S : j \in Nat /\ entries[j].at \in Nat
  BY EntryTypes
<1>2. PICK a \in Times : \A b \in Times : a <= b
  <2>1. Times \subseteq Nat /\ Times # {}
    BY <1>1
  <2> HIDE DEF Times
  <2> QED BY <2>1, LeastOf
<1> DEFINE First == {j \in S : entries[j].at = a}
<1>3. PICK i \in First : \A j \in First : i <= j
  <2>1. First \subseteq Nat /\ First # {}
    BY <1>1, <1>2
  <2> HIDE DEF First
  <2> QED BY <2>1, LeastOf
<1>4. i \in S /\ \A j \in S : Before(i, j)
  <2> SUFFICES ASSUME NEW j \in S PROVE Before(i, j)
    BY <1>3
  <2>1. entries[i].at = a /\ a <= entries[j].at /\ a \in Nat /\ entries[j].at \in Nat
    BY <1>1, <1>2, <1>3
  <2>2. entries[j].at = a => i <= j
    BY <1>3
  <2> QED BY <2>1, <2>2
<1>5. Earliest(S) = CHOOSE k \in S : \A j \in S : Before(k, j)
  BY DEF Earliest
<1> HIDE DEF Before
<1>6. Earliest(S) \in S /\ \A j \in S : Before(Earliest(S), j)
  BY <1>4, <1>5
<1> QED BY <1>1, <1>6 DEF Before

\* An action on one entry
LEMMA OneEntry ==
  ASSUME entries \in Seq(Entries), NEW i \in DOMAIN entries, NEW e \in Entries
  PROVE  LET es == [entries EXCEPT ![i] = e]
         IN  /\ es \in Seq(Entries) /\ DOMAIN es = DOMAIN entries /\ es[i] = e
             /\ \A j \in DOMAIN entries : j # i => es[j] = entries[j]
OBVIOUS

\* A timer or a ticker is made, and whoever waits is told.
LEMMA NewKeeps ==
  ASSUME ClockInv,
         NEW kind \in {"timer", "ticker"}, NEW d \in Durations, New(kind, d)
  PROVE  ClockInv'
<1> DEFINE e == NewEntry(kind, d)
           n == Len(entries)
<1>1. /\ ClockType /\ TimeInv /\ HeapInv /\ ScheduleInv /\ d \in Nat /\ n \in Nat
      /\ DOMAIN entries = 1..n
      /\ entries' = Append(entries, e) /\ waits' = Notified(entries')
      /\ now' = now /\ target' = target /\ jumped' = jumped /\ rearmed' = FALSE
  BY ClockAssumption DEF ClockInv, ClockType, New
<1>2. e = [kind |-> kind, at |-> now + d, period |-> d, stopped |-> FALSE, queued |-> TRUE,
           full |-> FALSE, base |-> now, fires |-> 0]
  BY DEF NewEntry
<1>3. e \in Entries
  BY <1>1, <1>2 DEF ClockType, Entries
<1>4. OnSchedule(e) /\ e.at >= now /\ ~e.stopped
  BY <1>1, <1>2 DEF OnSchedule, WasActive, ClockType
<1> HIDE DEF e
<1>5. /\ entries' \in Seq(Entries) /\ DOMAIN entries' = 1..(n + 1) /\ entries'[n + 1] = e
      /\ \A i \in 1..n : entries'[i] = entries[i]
  BY <1>1, <1>3 DEF ClockType
<1>6. Active(entries') \in Nat
  BY <1>5, ActiveFacts
<1>7. /\ waits' \in [Callers -> Nat]
      /\ \A g \in Callers : waits'[g] > 0 => Active(entries') < waits'[g]
  BY <1>1, <1>6 DEF Notified, ClockType
<1>8. ClockType'
  BY <1>1, <1>5, <1>7 DEF ClockType
<1>9. TimeInv' /\ HeapInv'
  BY <1>1, <1>4, <1>5 DEF TimeInv, HeapInv
<1>10. ScheduleInv'
  BY <1>1, <1>4, <1>5 DEF ScheduleInv
<1>11. NoForgottenWaiter'
  BY <1>7 DEF NoForgottenWaiter
<1> QED BY <1>8, <1>9, <1>10, <1>11 DEF ClockInv

\* An action that changes one entry, makes none active and leaves time and
\* the waiters alone
LEMMA OneEntryKeeps ==
  ASSUME ClockInv, NEW i \in DOMAIN entries, NEW e \in Entries, entries' = [entries EXCEPT ![i] = e],
         waits' = waits, rearmed' \in BOOLEAN, ~rearmed' => ~rearmed /\ (e.queued => entries[i].queued),
         OnSchedule(e), e.queued => ~e.stopped
  PROVE  /\ entries' \in Seq(Entries) /\ HeapInv' /\ ScheduleInv' /\ NoForgottenWaiter'
         /\ DOMAIN entries' = DOMAIN entries /\ entries'[i] = e
         /\ \A j \in DOMAIN entries : j # i => entries'[j] = entries[j]
<1>1. /\ entries' \in Seq(Entries) /\ DOMAIN entries' = DOMAIN entries /\ entries'[i] = e
      /\ \A j \in DOMAIN entries : j # i => entries'[j] = entries[j]
  BY OneEntry DEF ClockInv, ClockType
<1>2. HeapInv'
  BY <1>1 DEF ClockInv, HeapInv
<1>3. ScheduleInv'
  BY <1>1 DEF ClockInv, ScheduleInv
<1>4. ASSUME ~rearmed' PROVE ActiveIn(entries') \subseteq ActiveIn(entries)
  BY <1>1, <1>4 DEF ClockInv, HeapInv, ActiveIn
<1>5. ASSUME NEW g \in Callers, waits'[g] > 0, ~rearmed' PROVE Active(entries') < waits'[g]
  <2>1. Active(entries) < waits[g]
    BY <1>5 DEF ClockInv, NoForgottenWaiter
  <2>2. /\ Active(entries) \in Nat /\ Active(entries') \in Nat
        /\ Active(entries') <= Active(entries)
    BY <1>1, <1>4, <1>5, ActiveFacts DEF ClockInv, ClockType
  <2>3. waits[g] \in Nat
    BY DEF ClockInv, ClockType
  <2> QED BY <2>1, <2>2, <2>3
<1> QED BY <1>1, <1>2, <1>3, <1>5 DEF NoForgottenWaiter

\* One more period
LEMMA OnePeriod ==
  ASSUME NEW b \in Nat, NEW f \in Nat, NEW p \in Nat
  PROVE  (b + (f + 1) * p) + p = b + ((f + 1) + 1) * p /\ b + (0 + 1) * p = b + p
OBVIOUS

\* Advance fires the first entry that is due.
LEMMA FireKeeps ==
  ASSUME ClockInv, Fire
  PROVE  ClockInv'
<1> DEFINE i == Earliest(Due)
           e == entries[i]
           f == Fired(e)
<1>1. /\ ClockType /\ TimeInv /\ target # -1 /\ target \in Nat /\ Due # {}
      /\ now' = e.at /\ entries' = [entries EXCEPT ![i] = f]
      /\ target' = target /\ waits' = waits /\ jumped' = jumped /\ rearmed' = rearmed
  BY DEF ClockInv, ClockType, Fire, Unlocked
<1>2. Due = {j \in DOMAIN entries : entries[j].queued /\ entries[j].at <= target}
  BY DEF Due, Ids
<1>3. i \in Due /\ \A j \in Due : entries[i].at <= entries[j].at
  BY <1>1, <1>2, EarliestFacts DEF ClockType
<1> HIDE DEF i
<1>4. /\ i \in DOMAIN entries /\ e \in Entries /\ e.queued /\ ~e.stopped /\ e.at <= target /\ OnSchedule(e)
  BY <1>1, <1>2, <1>3 DEF ClockInv, ClockType, HeapInv, ScheduleInv
<1> DEFINE again == e.kind = "ticker" /\ e.period > 0
<1>5. f = [e EXCEPT !.full = TRUE, !.fires = @ + 1, !.queued = again, !.at = IF again THEN @ + e.period ELSE @]
  BY <1>4 DEF Fired
<1> HIDE DEF e, f
<1>6. /\ e.at \in Nat /\ e.period \in Nat /\ e.fires \in Nat /\ e.base \in Nat /\ e.kind \in {"timer", "ticker"}
      /\ e.stopped \in BOOLEAN
      /\ e = [kind |-> e.kind, at |-> e.at, period |-> e.period, stopped |-> e.stopped, queued |-> e.queued,
              full |-> e.full, base |-> e.base, fires |-> e.fires]
  BY <1>4, FieldTypes
<1>7. /\ f \in Entries /\ f.queued = again /\ f.fires = e.fires + 1 /\ f.kind = e.kind /\ f.base = e.base
      /\ f.period = e.period /\ f.stopped = e.stopped /\ f.at = IF again THEN e.at + e.period ELSE e.at
  <2> DEFINE at == IF again THEN e.at + e.period ELSE e.at
  <2>1. again \in BOOLEAN /\ at \in Nat /\ e.fires + 1 \in Nat
    BY <1>6
  <2>2. f = [kind |-> e.kind, at |-> at, period |-> e.period, stopped |-> e.stopped, queued |-> again,
             full |-> TRUE, base |-> e.base, fires |-> e.fires + 1]
    <3> HIDE DEF again
    <3> QED BY <1>5, <1>6
  <2> HIDE DEF again, at
  <2>3. f \in Entries
    BY <1>6, <2>1, <2>2 DEF Entries
  <2> QED BY <2>2, <2>3 DEF at
<1>8. OnSchedule(f)
  <2>1. f.kind = "timer" => f.fires <= 1 /\ ~f.queued
    <3> SUFFICES ASSUME f.kind = "timer" PROVE f.fires <= 1 /\ ~f.queued
      OBVIOUS
    <3>1. ~again /\ e.fires = 0
      BY <1>4, <1>7 DEF OnSchedule
    <3> HIDE DEF again
    <3> QED BY <1>7, <3>1
  <2>2. ASSUME f.queued PROVE f.at = f.base + (f.fires + 1) * f.period
    <3>1. again
      BY <1>7, <2>2
    <3>2. f.at = e.at + e.period /\ e.at = e.base + (e.fires + 1) * e.period
      BY <1>4, <1>7, <3>1 DEF OnSchedule
    <3> QED BY <1>6, <1>7, <3>2, OnePeriod
  <2>3. f.fires # 0
    BY <1>6, <1>7
  <2> QED BY <2>1, <2>2, <2>3 DEF OnSchedule
<1>9. /\ entries' \in Seq(Entries) /\ HeapInv' /\ ScheduleInv' /\ NoForgottenWaiter'
      /\ DOMAIN entries' = DOMAIN entries /\ entries'[i] = f
      /\ \A j \in DOMAIN entries : j # i => entries'[j] = entries[j]
  <2>1. rearmed \in BOOLEAN /\ entries[i].queued /\ ~f.stopped
    BY <1>1, <1>4, <1>7 DEF ClockType, e
  <2> HIDE DEF again
  <2> QED BY <1>1, <1>4, <1>7, <1>8, <2>1, OneEntryKeeps
<1>10. ClockType'
  BY <1>1, <1>6, <1>9 DEF ClockType
<1>11. TimeInv'
  <2>1. ASSUME NEW j \in DOMAIN entries, entries'[j].queued PROVE entries'[j].at >= e.at
    <3>1. CASE j = i
      BY <1>6, <1>7, <1>9, <3>1
    <3>2. CASE j # i
      <4>1. entries'[j] = entries[j] /\ entries[j].queued /\ entries[j].at \in Nat
        BY <1>1, <1>9, <2>1, <3>2, EntryTypes DEF ClockType
      <4>2. CASE j \in Due
        BY <1>3, <1>6, <4>1, <4>2 DEF e
      <4>3. CASE j \notin Due
        BY <1>1, <1>2, <1>4, <1>6, <4>1, <4>3
      <4> QED BY <4>2, <4>3
    <3> QED BY <3>1, <3>2
  <2> QED BY <1>1, <1>4, <1>9, <2>1 DEF TimeInv
<1> QED BY <1>9, <1>10, <1>11 DEF ClockInv

\* Stop, Reset and the receipt of a tick
LEMMA EntryStepKeeps ==
  ASSUME ClockInv, NEW i \in DOMAIN entries,
         \/ TimerStop(i) \/ TickerStop(i) \/ Receive(i)
         \/ \E d \in Durations : Reset(i, d)
  PROVE  ClockInv'
<1> DEFINE e == entries[i]
<1>1. /\ ClockType /\ TimeInv /\ e \in Entries /\ OnSchedule(e) /\ (e.queued => ~e.stopped)
      /\ now \in Nat
  BY DEF ClockInv, ClockType, HeapInv, ScheduleInv
<1> SUFFICES ASSUME NEW f \in Entries, entries' = [entries EXCEPT ![i] = f],
                    now' = now /\ target' = target /\ waits' = waits /\ jumped' = jumped,
                    rearmed' \in BOOLEAN, ~rearmed' => ~rearmed /\ (f.queued => e.queued),
                    OnSchedule(f), f.queued => ~f.stopped /\ ((f.at = e.at /\ e.queued) \/ f.at >= now)
             PROVE  ClockInv'
  <2>1. CASE TimerStop(i) \/ TickerStop(i)
    <3> DEFINE f == Stopped(e)
    <3>1. f = [e EXCEPT !.stopped = TRUE, !.queued = FALSE]
      BY DEF Stopped
    <3>2. f \in Entries /\ ~f.queued /\ f.kind = e.kind /\ f.fires = e.fires /\ f.stopped
      BY <1>1, <3>1 DEF Entries
    <3>3. OnSchedule(f)
      BY <1>1, <3>2 DEF OnSchedule, WasActive
    <3>4. /\ entries' = [entries EXCEPT ![i] = f] /\ rearmed' = rearmed /\ rearmed \in BOOLEAN
          /\ now' = now /\ target' = target /\ waits' = waits /\ jumped' = jumped
      BY <1>1, <2>1 DEF TimerStop, TickerStop, ClockType
    <3> HIDE DEF e, f
    <3> QED BY <3>2, <3>3, <3>4
  <2>2. CASE Receive(i)
    <3> DEFINE f == [e EXCEPT !.full = FALSE]
    <3>1. /\ f \in Entries /\ f.queued = e.queued /\ f.kind = e.kind /\ f.fires = e.fires /\ f.at = e.at
          /\ f.base = e.base /\ f.period = e.period /\ f.stopped = e.stopped
      BY <1>1 DEF Entries
    <3>2. OnSchedule(f)
      BY <1>1, <3>1 DEF OnSchedule, WasActive
    <3>3. /\ entries' = [entries EXCEPT ![i] = f] /\ rearmed' = rearmed /\ rearmed \in BOOLEAN
          /\ now' = now /\ target' = target /\ waits' = waits /\ jumped' = jumped
      BY <1>1, <2>2 DEF Receive, ClockType
    <3> HIDE DEF e, f
    <3> QED BY <1>1, <3>1, <3>2, <3>3
  <2>3. ASSUME NEW d \in Durations, Reset(i, d) PROVE ClockInv'
    <3> DEFINE f == Rearmed(e, d)
    <3>1. d \in Nat
      BY ClockAssumption
    <3>2. f = [e EXCEPT !.stopped = FALSE, !.at = now + d, !.period = d, !.queued = TRUE,
                        !.base = now, !.fires = 0]
      BY DEF Rearmed
    <3>3. /\ f \in Entries /\ f.queued /\ f.fires = 0 /\ f.at = now + d /\ f.base = now /\ f.period = d
          /\ ~f.stopped
      <4>1. f = [kind |-> e.kind, at |-> now + d, period |-> d, stopped |-> FALSE, queued |-> TRUE,
                 full |-> e.full, base |-> now, fires |-> 0]
        <5>1. e = [kind |-> e.kind, at |-> e.at, period |-> e.period, stopped |-> e.stopped, queued |-> e.queued,
                   full |-> e.full, base |-> e.base, fires |-> e.fires]
          BY <1>1, FieldTypes
        <5> HIDE DEF e
        <5> QED BY <3>2, <5>1
      <4>2. e.kind \in {"timer", "ticker"} /\ e.full \in BOOLEAN /\ now + d \in Nat
        BY <1>1, <3>1, FieldTypes
      <4> HIDE DEF e, f
      <4>3. f \in Entries
        BY <1>1, <3>1, <4>1, <4>2 DEF Entries
      <4> QED BY <4>1, <4>3
    <3>4. OnSchedule(f) /\ f.at >= now
      BY <1>1, <3>1, <3>3, OnePeriod DEF OnSchedule, WasActive
    <3>5. /\ entries' = [entries EXCEPT ![i] = f] /\ rearmed' = (rearmed \/ ~e.queued)
          /\ now' = now /\ target' = target /\ waits' = waits /\ jumped' = jumped
      BY <2>3 DEF Reset
    <3>6. rearmed' \in BOOLEAN /\ (~rearmed' => ~rearmed /\ e.queued)
      <4>1. rearmed \in BOOLEAN /\ e.queued \in BOOLEAN
        BY <1>1 DEF ClockType, Entries
      <4> HIDE DEF e
      <4> QED BY <3>5, <4>1
    <3> HIDE DEF e, f
    <3> QED BY <3>3, <3>4, <3>5, <3>6
  <2> QED BY <2>1, <2>2, <2>3
<1>2. /\ entries' \in Seq(Entries) /\ HeapInv' /\ ScheduleInv' /\ NoForgottenWaiter'
      /\ DOMAIN entries' = DOMAIN entries /\ entries'[i] = f
      /\ \A j \in DOMAIN entries : j # i => entries'[j] = entries[j]
  BY OneEntryKeeps
<1>3. ClockType'
  BY <1>1, <1>2 DEF ClockType
<1>4. TimeInv'
  BY <1>1, <1>2 DEF TimeInv
<1> QED BY <1>2, <1>3, <1>4 DEF ClockInv

\* Every step keeps the schedule, the heap and the waiters.
LEMMA NextClockInv ==
  ASSUME ClockInv, [ClockNext]_clockVars
  PROVE  ClockInv'
<1>1. ASSUME NEW kind \in {"timer", "ticker"}, NEW d \in Durations, New(kind, d) PROVE ClockInv'
  BY <1>1, NewKeeps
<1>2. ASSUME NEW d \in Durations, BeginAdvance(d) PROVE ClockInv'
  <2>1. d \in Nat /\ ClockType
    BY ClockAssumption DEF ClockInv
  <2>2. /\ target' = now + d /\ now' = now /\ entries' = entries /\ waits' = waits
        /\ jumped' = jumped /\ rearmed' = rearmed
    BY <1>2 DEF BeginAdvance
  <2>3. ClockType' /\ TimeInv'
    BY <2>1, <2>2 DEF ClockType, TimeInv, ClockInv
  <2> QED BY <2>2, <2>3 DEF ClockInv, HeapInv, ScheduleInv, NoForgottenWaiter
<1>3. CASE Fire
  BY <1>3, FireKeeps
<1>4. CASE EndAdvance
  <2>1. /\ ClockType /\ target \in Nat
        /\ \A i \in DOMAIN entries : entries[i].queued => entries[i].at > target
    <3>1. ClockType /\ target \in Nat /\ Due = {}
      BY <1>4 DEF ClockInv, ClockType, EndAdvance, Unlocked
    <3>2. \A i \in DOMAIN entries : entries[i].at \in Nat
      BY <3>1, EntryTypes DEF ClockType
    <3>3. \A i \in DOMAIN entries : ~(entries[i].queued /\ entries[i].at <= target)
      BY <3>1 DEF Due, Ids
    <3> QED BY <3>1, <3>2, <3>3
  <2>2. /\ now' = target /\ target' = -1 /\ entries' = entries /\ waits' = waits
        /\ jumped' = jumped /\ rearmed' = rearmed
    BY <1>4 DEF EndAdvance
  <2>3. ClockType'
    BY <2>1, <2>2 DEF ClockType
  <2>4. \A i \in DOMAIN entries : entries[i].queued => entries[i].at >= target
    BY <2>1, EntryTypes DEF ClockType
  <2>5. TimeInv'
    BY <2>2, <2>4 DEF TimeInv
  <2> QED BY <2>2, <2>3, <2>5 DEF ClockInv, HeapInv, ScheduleInv, NoForgottenWaiter
<1>5. ASSUME NEW t \in 0..MaxTime, Set(t) PROVE ClockInv'
  <2>1. /\ t \in Nat /\ now' = t /\ jumped' = TRUE /\ target' = -1 /\ target = -1
        /\ entries' = entries /\ waits' = waits /\ rearmed' = rearmed
    BY <1>5, ClockAssumption DEF Set, Unlocked
  <2>2. ClockType' /\ TimeInv'
    BY <2>1 DEF ClockType, TimeInv, ClockInv
  <2> QED BY <2>1, <2>2 DEF ClockInv, HeapInv, ScheduleInv, NoForgottenWaiter
<1>6. ASSUME NEW i \in DOMAIN entries,
             \/ TimerStop(i) \/ TickerStop(i) \/ Receive(i)
             \/ \E d \in Durations : Reset(i, d)
      PROVE  ClockInv'
  BY <1>6, EntryStepKeeps
<1>7. ASSUME NEW g \in Callers, NEW n \in 1..MaxEntries, BlockUntilTimers(g, n) PROVE ClockInv'
  <2>1. /\ waits' = [waits EXCEPT ![g] = n] /\ Active(entries) < n /\ n \in Nat
        /\ now' = now /\ target' = target /\ entries' = entries /\ jumped' = jumped /\ rearmed' = rearmed
    BY <1>7, ClockAssumption DEF BlockUntilTimers
  <2>2. ClockType'
    BY <2>1 DEF ClockType, ClockInv
  <2>3. NoForgottenWaiter'
    BY <2>1 DEF NoForgottenWaiter, ClockInv, ClockType
  <2> QED BY <2>1, <2>2, <2>3 DEF ClockInv, TimeInv, HeapInv, ScheduleInv
<1>8. CASE UNCHANGED clockVars
  BY <1>8 DEF clockVars, ClockInv, ClockType, TimeInv, HeapInv, ScheduleInv, NoForgottenWaiter
<1> QED BY <1>1, <1>2, <1>3, <1>4, <1>5, <1>6, <1>7, <1>8 DEF ClockNext, Ids, TimerKinds

\* A clock without entries and without waiters
LEMMA InitClockInv == ASSUME ClockInit PROVE ClockInv
<1>1. ClockType
  <2>1. jumped \in BOOLEAN /\ rearmed \in BOOLEAN
    BY Zenon DEF ClockInit
  <2> QED BY <2>1 DEF ClockInit, ClockType
<1>2. DOMAIN entries = {} /\ \A g \in Callers : waits[g] = 0
  BY DEF ClockInit
<1>3. TimeInv
  BY <1>2 DEF ClockInit, TimeInv
<1>4. NoForgottenWaiter
  BY <1>2 DEF NoForgottenWaiter
<1> QED BY <1>1, <1>2, <1>3, <1>4 DEF ClockInv, HeapInv, ScheduleInv

\* For all callers, durations and bounds, the clock keeps time and heap in order.
THEOREM ClockIsKept == ClockSpec => []ClockInv
<1>1. ClockInit => ClockInv
  BY InitClockInv
<1>2. ClockInv /\ [ClockNext]_clockVars => ClockInv'
  BY NextClockInv
<1> QED BY <1>1, <1>2, PTL DEF ClockSpec

\* However Advance, Stop, Reset and Set alternate, timers fire once, tickers a
\* whole number of periods after they were armed, and nothing is overdue that
\* Set has not made so (mock.go:144); of a timer that has not fired Stop and
\* Reset return whether it still would.
THEOREM TimersFireOnSchedule == ClockSpec => []FiresOnSchedule
<1>1. ClockSpec => []ClockInv
  BY ClockIsKept
<1>2. ClockInv => FiresOnSchedule
  BY DEF ClockInv, TimeInv, ScheduleInv, OnSchedule, FiresOnSchedule, Ids
<1> QED BY <1>1, <1>2, PTL

\* Except between a Reset that puts an entry back and the next timer that is
\* made, no caller of BlockUntilTimers is left waiting for timers that are
\* there (mock.go:224).
THEOREM WaitersAreNotified == ClockSpec => []NoForgottenWaiter
<1>1. ClockSpec => []ClockInv
  BY ClockIsKept
<1>2. ClockInv => NoForgottenWaiter
  BY DEF ClockInv
<1> QED BY <1>1, <1>2, PTL

-----------------------------------------------------------------------------
(* The studio's engine                                                      *)

Positions == {"none", "build", "run", "awaitPoller", "publish", "done"}

EngineType ==
    /\ runs \in 0..MaxRuns /\ aborted \in BOOLEAN /\ epc \in [1..MaxRuns -> Positions]

\* Until something is aborted, an engine under way is the one that CancelFn
\* cancels, and the state says that a test is live.
OneEngine ==
    ~aborted => \A e \in ActiveEngines : e = cancelFn /\ runState \in Live

\* The plan under a PASS is that of the form.
PassInv == status = "PASS" => compiled = builder /\ builder \in Valid

EngineInv == EngineType /\ OneEngine /\ PassInv

\* state.go:207: what a validation leaves
LEMMA ValidationFacts ==
  ASSUME NEW form, NEW passes \in BOOLEAN, ValidateCurrentPlan(form, passes)
  PROVE  PassInv' /\ (passes => compiled' = builder' /\ builder' \in Valid)
BY DEF ValidateCurrentPlan, PassInv

\* A start, refused or not
LEMMA StartKeeps ==
  ASSUME EngineInv, NEW form, StartExecution(form)
  PROVE  EngineInv' /\ (runs' # runs => compiled' = builder' /\ builder' \in Valid)
<1>1. PICK passes \in BOOLEAN :
          /\ ValidateCurrentPlan(form, passes)
          /\ IF passes /\ runState \notin Live /\ compiled' # NoPlan
             THEN runs < MaxRuns /\ Launched
             ELSE UNCHANGED <<stateVars, engineVars, userVars>>
  BY DEF StartExecution
<1>2. PassInv' /\ (passes => compiled' = builder' /\ builder' \in Valid)
  BY <1>1, ValidationFacts
<1>3. CASE passes /\ runState \notin Live /\ compiled' # NoPlan
  <2>1. /\ runs < MaxRuns /\ runs' = runs + 1 /\ runState' = "running" /\ cancelFn' = runs + 1
        /\ aborted' = aborted
        /\ epc' = [epc EXCEPT ![runs + 1] = "build"]
    BY <1>1, <1>3 DEF Launched
  <2>2. EngineType /\ runs \in Nat /\ MaxRuns \in Nat /\ runs + 1 \in 1..MaxRuns
    BY <2>1, BoundsAssumption DEF EngineInv, EngineType
  <2>3. EngineType'
    BY <2>1, <2>2 DEF EngineType, Positions
  <2>4. ASSUME ~aborted PROVE ActiveEngines' \subseteq {runs + 1}
    <3>1. ActiveEngines = {}
      BY <1>3, <2>4 DEF EngineInv, OneEngine
    <3>2. \A e \in 1..MaxRuns : epc[e] \in {"none", "done"}
      BY <3>1 DEF ActiveEngines, Engines
    <3> QED BY <2>1, <2>2, <3>2 DEF ActiveEngines, Engines, EngineType
  <2>5. OneEngine'
    BY <2>1, <2>4 DEF OneEngine, Live
  <2> QED BY <1>2, <1>3, <2>3, <2>5 DEF EngineInv
<1>4. CASE ~(passes /\ runState \notin Live /\ compiled' # NoPlan)
  <2>1. runs' = runs /\ aborted' = aborted /\ epc' = epc /\ runState' = runState /\ cancelFn' = cancelFn
    BY <1>1, <1>4 DEF stateVars, engineVars, userVars
  <2>2. EngineType' /\ OneEngine'
    BY <2>1 DEF EngineInv, EngineType, OneEngine, ActiveEngines, Live
  <2> QED BY <1>2, <2>1, <2>2 DEF EngineInv
<1> QED BY <1>3, <1>4

\* An engine, a poller or the user goes on, and the form stays as it is.
LEMMA OtherKeeps ==
  ASSUME EngineInv, UNCHANGED <<runs, cancelFn, builder, compiled, status>>, aborted' \in BOOLEAN, aborted => aborted',
         epc' \in [1..MaxRuns -> Positions],
         ~aborted' => ActiveEngines' \subseteq ActiveEngines,
         ~aborted' => runState' \in Live \/ ActiveEngines' = {} \/ runState' = runState
  PROVE  EngineInv'
<1>1. EngineType' /\ PassInv'
  BY DEF EngineInv, EngineType, PassInv
<1>2. OneEngine'
  BY DEF EngineInv, OneEngine, Live
<1> QED BY <1>1, <1>2 DEF EngineInv

\* A step of one engine
LEMMA EngineKeeps ==
  ASSUME EngineInv, NEW e \in 1..MaxRuns, EngineStep(e)
  PROVE  EngineInv' /\ runs' = runs /\ UNCHANGED <<builder, compiled, status>>
<1>1. /\ epc \in [1..MaxRuns -> Positions] /\ aborted \in BOOLEAN
      /\ aborted' = aborted /\ runs' = runs /\ cancelFn' = cancelFn /\ UNCHANGED <<builder, compiled, status>>
  BY DEF EngineInv, EngineType, stateVars, EngineStep, BuildFails, Launch, RunReturned,
         AwaitPoller, Publish, formVars, userVars
<1>2. e \in ActiveEngines
  BY DEF EngineStep, BuildFails, Launch, RunReturned,
         AwaitPoller, Publish, ActiveEngines, Engines
<1>3. CASE BuildFails(e) \/ Publish(e)
  <2>1. epc' = [epc EXCEPT ![e] = "done"]
    BY <1>3 DEF BuildFails, Publish
  <2>2. epc' \in [1..MaxRuns -> Positions] /\ ActiveEngines' = ActiveEngines \ {e}
    BY <1>1, <2>1 DEF ActiveEngines, Engines, Positions
  <2>3. ~aborted => ActiveEngines' = {}
    BY <1>2, <2>2 DEF EngineInv, OneEngine
  <2> QED BY <1>1, <2>2, <2>3, OtherKeeps
<1>4. CASE Launch(e) \/ RunReturned(e) \/ AwaitPoller(e)
  <2>1. PICK p \in {"run", "awaitPoller", "publish"} : epc' = [epc EXCEPT ![e] = p]
    BY <1>4 DEF Launch, RunReturned, AwaitPoller
  <2>2. runState' = runState
    BY <1>4 DEF Launch, RunReturned, AwaitPoller, stateVars
  <2>3. epc' \in [1..MaxRuns -> Positions] /\ ActiveEngines' \subseteq ActiveEngines
    BY <1>1, <1>2, <2>1 DEF ActiveEngines, Engines, Positions
  <2> QED BY <1>1, <2>2, <2>3, OtherKeeps
<1> QED BY <1>3, <1>4 DEF EngineStep

\* Every step keeps the engines apart, and the plan that of the form.
LEMMA NextEngineInv ==
  ASSUME EngineInv, [StudioNext]_studioVars
  PROVE  /\ EngineInv'
         /\ runs' # runs \/ status' = "PASS" => compiled' = builder' /\ builder' \in Valid
<1> DEFINE Goal == /\ EngineInv'
                   /\ runs' # runs \/ status' = "PASS" => compiled' = builder' /\ builder' \in Valid
<1>0. /\ epc \in [1..MaxRuns -> Positions] /\ aborted \in BOOLEAN
      /\ EngineInv' => (status' = "PASS" => compiled' = builder' /\ builder' \in Valid)
  BY DEF EngineInv, EngineType, PassInv
<1>1. ASSUME NEW form, StartExecution(form) PROVE Goal
  BY <1>0, <1>1, StartKeeps
<1>2. CASE Validate
  <2>1. PICK passes \in BOOLEAN : ValidateCurrentPlan(editors, passes)
    BY <1>2 DEF Validate
  <2>2. runs' = runs /\ aborted' = aborted /\ epc' = epc /\ runState' = runState /\ cancelFn' = cancelFn
    BY <1>2 DEF Validate, stateVars, engineVars, userVars
  <2>3. EngineType' /\ OneEngine' /\ PassInv'
    BY <2>1, <2>2, ValidationFacts DEF EngineInv, EngineType, OneEngine, ActiveEngines, Live
  <2> QED BY <1>0, <2>2, <2>3 DEF EngineInv
<1>3. ASSUME epc' = epc, runs' = runs, cancelFn' = cancelFn, UNCHANGED <<builder, compiled, status>>,
             \/ aborted' = aborted /\ (runState' = runState \/ runState' = "draining")
             \/ aborted' = TRUE
      PROVE  Goal
  <2>1. ActiveEngines' = ActiveEngines
    BY <1>3 DEF ActiveEngines
  <2>2. runState' = "draining" => runState' \in Live
    BY DEF Live
  <2> QED BY <1>0, <1>3, <2>1, <2>2, OtherKeeps
<1>4. CASE Frame \/ Edit \/ StopGracefully \/ AbortExecution
  BY <1>3, <1>4 DEF Frame, Edit, StopGracefully, AbortExecution,
                    stateVars, formVars, engineVars, userVars
<1>5. ASSUME NEW e \in 1..MaxRuns, EngineStep(e) PROVE Goal
  BY <1>0, <1>5, EngineKeeps
<1>6. ASSUME NEW e \in 1..MaxRuns, PollerStep(e) PROVE Goal
  BY <1>3, <1>6 DEF PollerStep, TickArrives, HandleTick, PollerLeaves,
                    stateVars, formVars, userVars
<1>7. CASE UNCHANGED studioVars
  BY <1>3, <1>7 DEF studioVars, stateVars, formVars, engineVars, userVars
<1> QED
  BY <1>1, <1>2, <1>4, <1>5, <1>6, <1>7
  DEF StudioNext, User, StartClicked, RetryClicked, Engines

\* No engine yet
LEMMA InitEngineInv == ASSUME StudioInit PROVE EngineInv
<1>1. EngineType
  <2>1. aborted \in BOOLEAN
    BY Zenon DEF StudioInit
  <2>2. runs = 0 /\ MaxRuns \in Nat
    BY BoundsAssumption DEF StudioInit
  <2>3. epc = [e \in 1..MaxRuns |-> "none"]
    BY DEF StudioInit, Engines
  <2> QED BY <2>1, <2>2, <2>3 DEF EngineType, Positions
<1>2. ActiveEngines = {}
  BY DEF StudioInit, ActiveEngines
<1> QED BY <1>1, <1>2 DEF StudioInit, EngineInv, OneEngine, PassInv

\* For every number of runs and all forms, the engines are kept apart until an
\* abort, and the plan is that of the form.
THEOREM EnginesAreKept == StudioSpec => []EngineInv
<1>1. StudioInit => EngineInv
  BY InitEngineInv
<1>2. EngineInv /\ [StudioNext]_studioVars => EngineInv'
  BY NextEngineInv
<1> QED BY <1>1, <1>2, PTL DEF StudioSpec

\* As long as nothing is aborted, the guard of StartExecution keeps a second
\* engine from starting (state.go:296), whatever frame the user clicked in.
THEOREM OneEngineAtATime == StudioSpec => []OneEngineUntilAbort
<1>1. StudioSpec => []EngineInv
  BY EnginesAreKept
<1>2. EngineInv => OneEngineUntilAbort
  <2> SUFFICES ASSUME EngineInv, ~aborted
               PROVE  Cardinality(ActiveEngines) <= 1 /\ (ActiveEngines # {} => runState \in Live)
    BY DEF OneEngineUntilAbort
  <2>1. \A e \in ActiveEngines : e = cancelFn /\ runState \in Live
    BY DEF EngineInv, OneEngine
  <2>2. CASE ActiveEngines = {}
    BY <2>2, FS_EmptySet
  <2>3. ASSUME NEW e \in ActiveEngines PROVE Cardinality(ActiveEngines) <= 1 /\ runState \in Live
    <3>1. ActiveEngines = {e}
      BY <2>1, <2>3
    <3>2. Cardinality(ActiveEngines) = 1
      BY <3>1, FS_Singleton
    <3> QED BY <2>1, <2>3, <3>2
  <2> QED BY <2>2, <2>3
<1> QED BY <1>1, <1>2, PTL

\* However forms are edited, refused and started, a refused form never starts
\* the plan of an earlier one (state.go:285, 296).
THEOREM PlanIsOfTheForm == StudioSpec => PlanIsTheForm
<1>1. StudioSpec => []EngineInv
  BY EnginesAreKept
<1>2. EngineInv /\ [StudioNext]_studioVars
        => [runs' # runs \/ status' = "PASS" => compiled' = builder' /\ builder' \in Valid]_studioVars
  BY NextEngineInv
<1> QED BY <1>1, <1>2, PTL DEF StudioSpec, PlanIsTheForm

\* What state.go:335 says of AbortExecution holds until the first one: the
\* engine that runs a load is the one whose context it cancels.
THEOREM FirstAbortReaches ==
  StudioSpec => [](aborted \/ RunningEngineIsAbortable)
<1>1. StudioSpec => []EngineInv
  BY EnginesAreKept
<1>2. EngineInv => aborted \/ RunningEngineIsAbortable
  BY DEF EngineInv, OneEngine, RunningEngineIsAbortable, ActiveEngines
<1> QED BY <1>1, <1>2, PTL

\* The poller of an engine is off until the engine is built, and the engine
\* passes <-tickerDone only behind a poller that was canceled.
PollerInv ==
    /\ epc \in [1..MaxRuns -> Positions] /\ tpc \in [1..MaxRuns -> {"off", "wait", "tick", "done"}]
    /\ canceled \in [1..MaxRuns -> BOOLEAN] /\ runs \in 0..MaxRuns
    /\ \A e \in 1..MaxRuns :
          /\ e > runs => epc[e] = "none"
          /\ epc[e] \in {"none", "build"} => tpc[e] = "off"
          /\ tpc[e] = "done" => canceled[e]
          /\ epc[e] \in {"publish", "done"} => tpc[e] \in {"off", "done"}

\* Every step keeps the pollers so.
LEMMA NextPollerInv ==
  ASSUME PollerInv, [StudioNext]_studioVars
  PROVE  PollerInv'
<1>0. MaxRuns \in Nat
  BY BoundsAssumption
<1>1. ASSUME UNCHANGED <<epc, tpc, runs>>, canceled' \in [1..MaxRuns -> BOOLEAN],
             \A e \in 1..MaxRuns : canceled[e] => canceled'[e]
      PROVE  PollerInv'
  BY <1>1 DEF PollerInv
<1>2. ASSUME NEW form, StartExecution(form) PROVE PollerInv'
  <2>1. \/ UNCHANGED <<epc, tpc, runs, canceled>>
        \/ /\ runs < MaxRuns /\ runs' = runs + 1 /\ UNCHANGED <<tpc, canceled>>
           /\ epc' = [epc EXCEPT ![runs + 1] = "build"]
    BY <1>2 DEF StartExecution, Launched, engineVars, userVars
  <2>2. CASE UNCHANGED <<epc, tpc, runs, canceled>>
    BY <1>1, <2>2 DEF PollerInv
  <2>3. CASE /\ runs < MaxRuns /\ runs' = runs + 1 /\ UNCHANGED <<tpc, canceled>>
             /\ epc' = [epc EXCEPT ![runs + 1] = "build"]
    BY <1>0, <2>3 DEF PollerInv, Positions
  <2> QED BY <2>1, <2>2, <2>3
<1>3. CASE Frame \/ Edit \/ Validate \/ StopGracefully
  BY <1>1, <1>3 DEF Frame, Edit, Validate, StopGracefully, engineVars, userVars, PollerInv
<1>4. CASE AbortExecution
  <2>1. UNCHANGED <<epc, tpc, runs>> /\ canceled' = [e \in 1..MaxRuns |-> canceled[e] \/ e = cancelFn]
    BY <1>4 DEF AbortExecution, Engines
  <2> QED BY <1>1, <2>1 DEF PollerInv
<1>5. ASSUME NEW e \in 1..MaxRuns, EngineStep(e) PROVE PollerInv'
  <2>1. canceled' = canceled /\ runs' = runs
    BY <1>5 DEF EngineStep, BuildFails, Launch, RunReturned, AwaitPoller, Publish, userVars
  <2>2. CASE BuildFails(e) \/ AwaitPoller(e) \/ Publish(e)
    BY <2>1, <2>2 DEF BuildFails, AwaitPoller, Publish, PollerInv, Positions
  <2>3. CASE Launch(e) \/ RunReturned(e)
    BY <2>1, <2>3 DEF Launch, RunReturned, PollerInv, Positions
  <2> QED BY <1>5, <2>2, <2>3 DEF EngineStep
<1>6. ASSUME NEW e \in 1..MaxRuns, PollerStep(e) PROVE PollerInv'
  <2>1. UNCHANGED <<epc, canceled, runs>>
    BY <1>6 DEF PollerStep, TickArrives, HandleTick, PollerLeaves, userVars
  <2> QED BY <1>6, <2>1 DEF PollerStep, TickArrives, HandleTick, PollerLeaves, PollerInv
<1>7. CASE UNCHANGED studioVars
  BY <1>1, <1>7 DEF studioVars, engineVars, userVars, PollerInv
<1> QED
  BY <1>2, <1>3, <1>4, <1>5, <1>6, <1>7 DEF StudioNext, User, StartClicked, RetryClicked, Engines

\* For every number of runs: an engine that launched its poller gets past
\* state.go:437 only when its context was canceled.
THEOREM OnlyCanceledEnginesEnd == StudioSpec => []EndsOnlyWhenCanceled
<1>1. StudioInit => PollerInv
  <2> SUFFICES ASSUME StudioInit PROVE PollerInv
    OBVIOUS
  <2>1. /\ epc = [e \in 1..MaxRuns |-> "none"] /\ tpc = [e \in 1..MaxRuns |-> "off"]
        /\ canceled = [e \in 1..MaxRuns |-> FALSE] /\ runs = 0 /\ MaxRuns \in Nat
    BY BoundsAssumption DEF StudioInit, Engines
  <2> QED BY <2>1 DEF PollerInv, Positions
<1>2. PollerInv /\ [StudioNext]_studioVars => PollerInv'
  BY NextPollerInv
<1>3. PollerInv => EndsOnlyWhenCanceled
  BY DEF PollerInv, EndsOnlyWhenCanceled, Engines
<1> QED BY <1>1, <1>2, <1>3, PTL DEF StudioSpec

-----------------------------------------------------------------------------
(* The health sampler: the goroutine and its signals                        *)

Starting == {"load", "collect", "deferred"}

\* What Run has done, the two channels and the goroutine agree.
JoinInv ==
    /\ run \in {"new", "join", "returned"} \cup Starting
    /\ pc \in {"none", "read", "store", "wait", "read last", "store last", "done"}
    /\ running \in BOOLEAN /\ stopChan \in BOOLEAN /\ doneChan \in BOOLEAN
    /\ run = "new" => pc = "none" /\ ~stopChan
    /\ run \in Starting => running /\ ~stopChan /\ pc \in {"read", "store", "wait"}
    /\ run \in {"join", "returned"} => ~running /\ stopChan /\ pc # "none"
    /\ run = "returned" => doneChan
    /\ doneChan <=> pc = "done"

\* Before Run there is no goroutine and no signal.
LEMMA InitJoinInv == SamplerInit => JoinInv
BY DEF SamplerInit, JoinInv, Starting

\* No step of Run or of the goroutine breaks the agreement.
LEMMA NextJoinInv == JoinInv /\ [SamplerNext]_healthVars => JoinInv'
<1> SUFFICES ASSUME JoinInv, [SamplerNext]_healthVars PROVE JoinInv'
  OBVIOUS
<1> USE DEF JoinInv, Starting
<1>1. CASE Start
  BY <1>1 DEF Start, samplerVars
<1>2. ASSUME NEW lag \in Lags, NEW d \in BOOLEAN, Slot(lag, d) PROVE JoinInv'
  BY <1>2 DEF Slot, samplerVars
<1>3. CASE Drained \/ Fail \/ Collect
  <2>1. run \in {"load", "collect"} /\ run' \in {"collect", "deferred"}
    BY <1>3 DEF Drained, Fail, Collect
  <2>2. pc' = pc /\ running' = running /\ stopChan' = stopChan /\ doneChan' = doneChan
    BY <1>3 DEF Drained, Fail, Collect, samplerVars
  <2>3. QED
    BY <2>1, <2>2
<1>4. CASE Stop
  BY <1>4 DEF Stop, samplerVars
<1>5. CASE Join
  BY <1>5 DEF Join, samplerVars
<1>6. ASSUME NEW n \in Counts, Read(n) PROVE JoinInv'
  BY <1>6 DEF Read, runVars
<1>7. CASE Store
  BY <1>7 DEF Store, runVars
<1>8. CASE TickCase
  BY <1>8 DEF TickCase, runVars
<1>9. CASE StopCase
  BY <1>9 DEF StopCase, runVars
<1>10. CASE UNCHANGED healthVars
  BY <1>10 DEF healthVars, runVars, samplerVars
<1>11. QED
  BY <1>1, <1>2, <1>3, <1>4, <1>5, <1>6, <1>7, <1>8, <1>9, <1>10 DEF SamplerNext, RunStep, SampleStep

\* No interleaving of Run and the goroutine lets Run return before the
\* goroutine has ended, or the goroutine end before it is stopped
\* (health.go:110).
THEOREM SamplerJoinedHolds == SamplerSpec => []SamplerJoined
<1>1. JoinInv => SamplerJoined
  BY DEF JoinInv, SamplerJoined, Starting
<1>2. QED
  BY <1>1, InitJoinInv, NextJoinInv, PTL DEF SamplerSpec

-----------------------------------------------------------------------------
(* The health sampler: facts about its operators                            *)

\* health.go: a warning that is there is not added again, one that is not is.
LEMMA Appended ==
    ASSUME NEW s \in Seq(Warnings), Distinct(s), NEW w \in Warnings
    PROVE  /\ AppendIfMissing(s, w) \in Seq(Warnings)
           /\ Distinct(AppendIfMissing(s, w))
           /\ \A v \in Warnings : Has(AppendIfMissing(s, w), v) <=> v = w \/ Has(s, v)
<1>1. CASE Contains(s, w)
  <2>1. AppendIfMissing(s, w) = s
    BY <1>1 DEF AppendIfMissing
  <2>2. Has(s, w)
    BY <1>1 DEF Contains, Has
  <2>3. QED
    BY <2>1, <2>2
<1>2. CASE ~Contains(s, w)
  <2>1. AppendIfMissing(s, w) = Append(s, w)
    BY <1>2 DEF AppendIfMissing
  <2>2. /\ Append(s, w) \in Seq(Warnings) /\ Len(Append(s, w)) = Len(s) + 1 /\ Len(s) \in Nat
        /\ Append(s, w)[Len(s) + 1] = w /\ \A i \in 1..Len(s) : Append(s, w)[i] = s[i]
        /\ DOMAIN Append(s, w) = 1..(Len(s) + 1) /\ DOMAIN s = 1..Len(s)
    OBVIOUS
  <2>3. \A i \in 1..Len(s) : s[i] # w
    BY <1>2, <2>2 DEF Contains
  <2>4. Distinct(Append(s, w))
    BY <2>2, <2>3 DEF Distinct
  <2>5. \A v \in Warnings : Has(Append(s, w), v) <=> v = w \/ Has(s, v)
    BY <2>2 DEF Has
  <2>6. QED
    BY <2>1, <2>2, <2>4, <2>5
<1>3. QED
  BY <1>1, <1>2

\* The larger of the maximum and a new value is the maximum of both.
LEMMA LargerIsLargest ==
    ASSUME NEW V, V \subseteq Nat, NEW m \in Nat, NEW n \in Nat, IsLargest(m, V)
    PROVE  /\ IsLargest(Larger(m, n), V \cup {n})
           /\ Larger(m, n) \in Nat
           /\ Larger(m, 0) = m
BY DEF IsLargest, Larger

\* What was above the limit is above it as long as it is the maximum.
LEMMA LargestDecides ==
    ASSUME NEW V, V \subseteq Nat, NEW m \in Nat, NEW limit \in Nat, IsLargest(m, V)
    PROVE  m > limit <=> \E v \in V : v > limit
BY DEF IsLargest

\* health.go: a lag is cut to whole microseconds.
LEMMA MicrosType ==
    ASSUME NEW L, L \subseteq Nat, NEW l \in Nat
    PROVE  /\ Micros(L) \subseteq Nat /\ l \div Micro \in Nat
           /\ Micros(L \cup {l}) = Micros(L) \cup {l \div Micro}
           /\ 0 \div Micro = 0
<1>1. \A x \in Nat : x \div Micro \in Nat
  BY HealthAssumption
<1>2. 0 \div Micro = 0
  BY HealthAssumption
<1>3. QED
  BY <1>1, <1>2 DEF Micros

-----------------------------------------------------------------------------
(* The health sampler: the record                                           *)

\* Until Collect the sampler's fields are exact; "target degradation" is added
\* when the load is over.
FieldsExact ==
    /\ IsLargest(schedulerLagMax, Micros(lags))
    /\ IsLargest(goroutinesPeak, stored)
    /\ Has(warnings, "max in flight") <=> dropped
    /\ Has(warnings, "target degradation") <=> (dropped /\ run = "collect")
    /\ ~Has(warnings, "goroutines") /\ ~Has(warnings, "lag")

RecordType ==
    /\ run \in {"new", "load", "collect", "deferred", "join", "returned"}
    /\ warnings \in Seq(Warnings) /\ Distinct(warnings)
    /\ goroutinesPeak \in Nat /\ schedulerLagMax \in Nat /\ current \in Nat
    /\ lags \subseteq Nat /\ stored \subseteq Nat /\ dropped \in BOOLEAN

BeforeCollect == run \in {"new", "load", "collect"}

RecordInv ==
    /\ RecordType
    /\ BeforeCollect => health = <<>> /\ FieldsExact
    /\ HealthIsExact

\* A new sampler has nothing to report.
LEMMA InitRecordInv == SamplerInit => RecordInv
<1> SUFFICES ASSUME SamplerInit PROVE RecordInv
  OBVIOUS
<1>1. Micros({}) = {} /\ IsLargest(0, {})
  BY DEF Micros, IsLargest
<1>2. Distinct(<<>>) /\ \A w \in Warnings : ~Has(<<>>, w)
  BY DEF Distinct, Has
<1>3. RecordType
  <2>1. warnings \in Seq(Warnings) /\ Distinct(warnings)
    BY <1>2 DEF SamplerInit
  <2>2. dropped \in BOOLEAN
    BY Zenon DEF SamplerInit
  <2>3. QED
    BY <2>1, <2>2 DEF SamplerInit, RecordType
<1>4. FieldsExact
  BY <1>1, <1>2 DEF SamplerInit, FieldsExact, Warnings
<1>5. QED
  BY <1>3, <1>4 DEF SamplerInit, RecordInv, HealthIsExact

\* A lag or a drop is reported.
LEMMA SlotKeeps ==
    ASSUME RecordInv, NEW lag \in Lags, NEW d \in BOOLEAN, Slot(lag, d)
    PROVE  RecordInv'
<1> DEFINE m == lag \div Micro
<1>1. /\ RecordType /\ FieldsExact /\ health = <<>> /\ run = "load" /\ lag \in Nat
      /\ run' = run /\ health' = <<>> /\ lags' = lags \cup {lag}
      /\ goroutinesPeak' = goroutinesPeak /\ stored' = stored /\ current' = current
  BY HealthAssumption DEF RecordInv, BeforeCollect, Slot, samplerVars
<1>2. /\ Micros(lags) \subseteq Nat /\ m \in Nat /\ Micros(lags') = Micros(lags) \cup {m}
      /\ 0 \div Micro = 0
  BY <1>1, MicrosType DEF RecordType
<1>3. schedulerLagMax' = Larger(schedulerLagMax, m)
  <2>1. CASE lag > 0
    BY <2>1 DEF Slot
  <2>2. CASE ~(lag > 0)
    <3>1. lag = 0 /\ m = 0
      BY <2>2, <1>1, <1>2
    <3>2. Larger(schedulerLagMax, 0) = schedulerLagMax
      BY <1>1 DEF RecordType, Larger
    <3>3. QED
      BY <2>2, <3>1, <3>2 DEF Slot
  <2>3. QED
    BY <2>1, <2>2
<1>4. schedulerLagMax' \in Nat /\ IsLargest(schedulerLagMax', Micros(lags'))
  <2>1. IsLargest(Larger(schedulerLagMax, m), Micros(lags) \cup {m}) /\ Larger(schedulerLagMax, m) \in Nat
    <3> HIDE DEF m
    <3> QED
      BY <1>1, <1>2, LargerIsLargest DEF RecordType, FieldsExact
  <2>2. QED
    BY <1>2, <1>3, <2>1
<1>5. /\ warnings' \in Seq(Warnings) /\ Distinct(warnings') /\ dropped' \in BOOLEAN
      /\ Has(warnings', "max in flight") <=> dropped'
      /\ ~Has(warnings', "target degradation")
      /\ ~Has(warnings', "goroutines") /\ ~Has(warnings', "lag")
  <2>1. CASE d
    <3>1. warnings' = AppendIfMissing(warnings, "max in flight") /\ dropped' = TRUE
      BY <2>1 DEF Slot
    <3>2. /\ AppendIfMissing(warnings, "max in flight") \in Seq(Warnings)
          /\ Distinct(AppendIfMissing(warnings, "max in flight"))
          /\ \A v \in Warnings : Has(AppendIfMissing(warnings, "max in flight"), v)
                                      <=> v = "max in flight" \/ Has(warnings, v)
      BY <1>1, Appended DEF RecordType, Warnings
    <3>3. QED
      BY <1>1, <3>1, <3>2 DEF FieldsExact, Warnings
  <2>2. CASE ~d
    <3>1. warnings' = warnings /\ dropped' = dropped
      BY <2>2, <1>1 DEF Slot, RecordType
    <3>2. QED
      BY <3>1, <1>1 DEF RecordType, FieldsExact
  <2>3. QED
    BY <2>1, <2>2
<1>6. RecordType'
  BY <1>1, <1>4, <1>5 DEF RecordType
<1>7. FieldsExact'
  BY <1>1, <1>4, <1>5 DEF FieldsExact
<1>8. QED
  BY <1>1, <1>6, <1>7 DEF RecordInv, HealthIsExact

\* The load is over.
LEMMA DrainedKeeps ==
    ASSUME RecordInv, Drained
    PROVE  RecordInv'
<1> DEFINE s == AppendIfMissing(warnings, "target degradation")
<1>1. /\ RecordType /\ FieldsExact /\ run = "load" /\ run' = "collect"
      /\ health = <<>> /\ health' = <<>> /\ lags' = lags /\ dropped' = dropped
      /\ goroutinesPeak' = goroutinesPeak /\ stored' = stored /\ current' = current
      /\ schedulerLagMax' = schedulerLagMax
      /\ warnings' = IF dropped THEN s ELSE warnings
  BY DEF RecordInv, BeforeCollect, Drained, samplerVars
<1>2. /\ s \in Seq(Warnings) /\ Distinct(s)
      /\ \A v \in Warnings : Has(s, v) <=> v = "target degradation" \/ Has(warnings, v)
  BY <1>1, Appended DEF RecordType, Warnings
<1>3. RecordType'
  BY <1>1, <1>2 DEF RecordType
<1>4. FieldsExact'
  <2>1. CASE dropped
    BY <2>1, <1>1, <1>2 DEF FieldsExact, Warnings
  <2>2. CASE ~dropped
    BY <2>2, <1>1 DEF FieldsExact
  <2>3. QED
    BY <2>1, <2>2
<1>5. QED
  BY <1>1, <1>3, <1>4 DEF RecordInv, HealthIsExact

\* The record is made.
LEMMA CollectKeeps ==
    ASSUME RecordInv, Collect
    PROVE  RecordInv'
<1> DEFINE a == IF goroutinesPeak > GoroutineLimit THEN AppendIfMissing(warnings, "goroutines") ELSE warnings
           b == IF schedulerLagMax > LagLimit THEN AppendIfMissing(a, "lag") ELSE a
<1>1. /\ RecordType /\ FieldsExact /\ run = "collect" /\ run' = "deferred"
      /\ health' = <<[peak |-> goroutinesPeak, lagMax |-> schedulerLagMax, warnings |-> b]>>
      /\ lags' = lags /\ dropped' = dropped /\ stored' = stored
  BY DEF RecordInv, BeforeCollect, Collect, WithLimits, samplerVars
<1>2. /\ a \in Seq(Warnings) /\ Distinct(a)
      /\ \A v \in Warnings : Has(a, v) <=> (v = "goroutines" /\ goroutinesPeak > GoroutineLimit) \/ Has(warnings, v)
  BY <1>1, Appended DEF RecordType, Warnings
<1>3. /\ b \in Seq(Warnings) /\ Distinct(b)
      /\ \A v \in Warnings : Has(b, v) <=> (v = "lag" /\ schedulerLagMax > LagLimit) \/ Has(a, v)
  <2> HIDE DEF a
  <2>1. /\ AppendIfMissing(a, "lag") \in Seq(Warnings) /\ Distinct(AppendIfMissing(a, "lag"))
        /\ \A v \in Warnings : Has(AppendIfMissing(a, "lag"), v) <=> v = "lag" \/ Has(a, v)
    BY <1>2, Appended DEF Warnings
  <2>2. CASE schedulerLagMax > LagLimit
    BY <2>1, <2>2
  <2>3. CASE ~(schedulerLagMax > LagLimit)
    BY <1>2, <2>3
  <2>4. QED
    BY <2>2, <2>3
<1> HIDE DEF a, b
<1>4. goroutinesPeak > GoroutineLimit <=> \E n \in stored : n > GoroutineLimit
  BY <1>1, LargestDecides, HealthAssumption DEF RecordType, FieldsExact
<1>5. schedulerLagMax > LagLimit <=> \E n \in Micros(lags) : n > LagLimit
  <2>1. Micros(lags) \subseteq Nat
    BY <1>1, MicrosType DEF RecordType
  <2>2. schedulerLagMax \in Nat /\ LagLimit \in Nat /\ IsLargest(schedulerLagMax, Micros(lags))
    BY <1>1, HealthAssumption DEF RecordType, FieldsExact
  <2>3. QED
    BY <2>1, <2>2, LargestDecides
<1>6. /\ Has(b, "goroutines") <=> \E n \in stored : n > GoroutineLimit
      /\ Has(b, "lag") <=> \E n \in Micros(lags) : n > LagLimit
      /\ Has(b, "max in flight") <=> dropped
      /\ Has(b, "target degradation") <=> dropped
  BY <1>1, <1>2, <1>3, <1>4, <1>5, Zenon DEF FieldsExact, Warnings
<1>7. HealthIsExact'
  <2>1. DOMAIN health' = {1} /\ health'[1].peak = goroutinesPeak
        /\ health'[1].lagMax = schedulerLagMax /\ health'[1].warnings = b
    BY <1>1
  <2>2. QED
    BY <2>1, <1>1, <1>3, <1>6 DEF HealthIsExact, FieldsExact
<1>8. RecordType'
  BY <1>1 DEF RecordType, Collect, samplerVars
<1>9. QED
  BY <1>1, <1>7, <1>8 DEF RecordInv, BeforeCollect

\* A sample is stored, before or after Collect.
LEMMA StoreKeeps ==
    ASSUME RecordInv, Store
    PROVE  RecordInv'
<1>1. /\ RecordType /\ run' = run /\ health' = health /\ lags' = lags /\ dropped' = dropped
      /\ warnings' = warnings /\ schedulerLagMax' = schedulerLagMax /\ current' = 0
      /\ goroutinesPeak' = Larger(goroutinesPeak, current)
      /\ stored' = IF health = <<>> THEN stored \cup {current} ELSE stored
  BY DEF RecordInv, Store, runVars
<1>2. goroutinesPeak' \in Nat
  BY <1>1 DEF RecordType, Larger
<1>3. RecordType'
  BY <1>1, <1>2 DEF RecordType
<1>4. BeforeCollect => health = <<>> /\ FieldsExact'
  BY <1>1, LargerIsLargest DEF RecordInv, RecordType, FieldsExact
<1>5. HealthIsExact'
  <2>1. CASE health = <<>>
    <3>1. DOMAIN health' = {}
      BY <2>1, <1>1
    <3>2. QED
      BY <3>1 DEF HealthIsExact
  <2>2. CASE health # <<>>
    BY <2>2, <1>1 DEF HealthIsExact, RecordInv
  <2>3. QED
    BY <2>1, <2>2
<1>6. QED
  BY <1>1, <1>3, <1>4, <1>5 DEF RecordInv, BeforeCollect

\* The other steps leave the fields and the record alone.
LEMMA OthersKeep ==
    ASSUME RecordInv, current' \in Nat,
           UNCHANGED <<goroutinesPeak, stored, lags, dropped, schedulerLagMax, warnings, health>>,
           run' = run \/ (run = "new" /\ run' = "load") \/ run' \in {"deferred", "join", "returned"}
    PROVE  RecordInv'
<1>1. RecordType'
  BY DEF RecordInv, RecordType
<1>2. HealthIsExact'
  BY DEF RecordInv, HealthIsExact
<1>3. BeforeCollect' => health' = <<>> /\ FieldsExact'
  BY DEF RecordInv, BeforeCollect, FieldsExact
<1>4. QED
  BY <1>1, <1>2, <1>3 DEF RecordInv

\* Every step keeps the fields exact up to Collect, and the record after it.
LEMMA NextRecordInv ==
    ASSUME RecordInv, [SamplerNext]_healthVars
    PROVE  RecordInv'
<1>0. current \in Nat
  BY DEF RecordInv, RecordType
<1>1. CASE Start
  BY <1>0, <1>1, OthersKeep DEF Start
<1>2. ASSUME NEW lag \in Lags, NEW d \in BOOLEAN, Slot(lag, d) PROVE RecordInv'
  BY <1>2, SlotKeeps
<1>3. CASE Drained
  BY <1>3, DrainedKeeps
<1>4. CASE Fail \/ Stop \/ Join
  BY <1>0, <1>4, OthersKeep DEF Fail, Stop, Join, samplerVars
<1>5. CASE Collect
  BY <1>5, CollectKeeps
<1>6. ASSUME NEW n \in Counts, Read(n) PROVE RecordInv'
  BY <1>6, OthersKeep, HealthAssumption DEF Read, runVars
<1>7. CASE Store
  BY <1>7, StoreKeeps
<1>8. CASE TickCase \/ StopCase
  BY <1>0, <1>8, OthersKeep DEF TickCase, StopCase, runVars
<1>9. CASE UNCHANGED healthVars
  BY <1>0, <1>9, OthersKeep DEF healthVars, runVars, samplerVars
<1>10. QED
  BY <1>1, <1>2, <1>3, <1>4, <1>5, <1>6, <1>7, <1>8, <1>9 DEF SamplerNext, RunStep, SampleStep

\* However the samples interleave with Run, the record that Run returns is
\* exact (health.go:164): maxima of what was reported before Collect, every
\* warning due and none twice.
THEOREM HealthIsExactHolds == SamplerSpec => []HealthIsExact
<1>1. RecordInv => HealthIsExact
  BY DEF RecordInv
<1>2. RecordInv /\ [SamplerNext]_healthVars => RecordInv'
  BY NextRecordInv
<1>3. QED
  BY <1>1, <1>2, InitRecordInv, PTL DEF SamplerSpec
=============================================================================
