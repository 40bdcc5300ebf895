------------------------- MODULE TargetSession_proofs -------------------------
(***************************************************************************)
(* The rate limiter of TargetSession keeps its promise for every limit,    *)
(* window and set-up, and whatever the requests of the virtual users do;   *)
(* its headers tell the client what it decided, in every style; and every  *)
(* user brings its own session and its own credential.                     *)
(***************************************************************************)
EXTENDS TargetSession, TLAPS

-----------------------------------------------------------------------------
(* WindowNeverOversold is not inductive: the limiter knows only how many    *)
(* requests the current window has admitted.  The invariant says where the  *)
(* admissions of the current window, of the one before it and of the older  *)
(* ones lie relative to resetAt.                                            *)

LimiterTypeOK ==
    /\ now \in Nat /\ resetAt \in Nat /\ count \in Nat
    /\ admits \in Seq(Nat)

LimiterInv ==
    /\ LimiterTypeOK
    /\ count <= Limit /\ count <= Len(admits)
    /\ resetAt <= now + Window
    /\ \A i \in 1..Len(admits) :
          /\ admits[i] <= now /\ admits[i] < resetAt
          /\ i > Len(admits) - count => admits[i] + Window >= resetAt
          /\ i <= Len(admits) - count => admits[i] + Window < resetAt
          /\ i <= Len(admits) - count - Limit => admits[i] + 2 * Window < resetAt
    /\ WindowNeverOversold

\* A window is open when the limiter is made.
LEMMA InitLimiterInv == Init => LimiterInv
BY TargetAssumption DEF Init, LimiterInv, LimiterTypeOK, WindowNeverOversold

\* An admission into the current window, which has room.
LEMMA AdmitCurrent ==
    ASSUME LimiterInv, ~Expired, count < Limit,
           count' = count + 1, resetAt' = resetAt, now' = now, admits' = Append(admits, now)
    PROVE  LimiterInv'
<1> DEFINE n == Len(admits)
<1>0. /\ LimiterTypeOK /\ n \in Nat /\ Limit \in Nat /\ Window \in Nat /\ Limit > 0 /\ Window > 0
      /\ now < resetAt
  BY TargetAssumption DEF LimiterInv, LimiterTypeOK, Expired
<1>1. /\ admits' \in Seq(Nat) /\ Len(admits') = n + 1 /\ admits'[n + 1] = now
      /\ \A i \in 1..n : admits'[i] = admits[i]
  BY <1>0 DEF LimiterTypeOK
<1>2. LimiterTypeOK'
  BY <1>0, <1>1 DEF LimiterTypeOK
<1>3. /\ count' <= Limit /\ count' <= Len(admits') /\ resetAt' <= now' + Window
  BY <1>0, <1>1 DEF LimiterInv, LimiterTypeOK
<1>4. ASSUME NEW i \in 1..(n + 1)
      PROVE  /\ admits'[i] <= now' /\ admits'[i] < resetAt'
             /\ i > Len(admits') - count' => admits'[i] + Window >= resetAt'
             /\ i <= Len(admits') - count' => admits'[i] + Window < resetAt'
             /\ i <= Len(admits') - count' - Limit => admits'[i] + 2 * Window < resetAt'
  <2>1. CASE i \in 1..n
    BY <2>1, <1>0, <1>1 DEF LimiterInv, LimiterTypeOK
  <2>2. CASE i = n + 1
    BY <2>2, <1>0, <1>1 DEF LimiterInv, LimiterTypeOK
  <2>3. QED
    BY <2>1, <2>2, <1>0
<1>5. ASSUME NEW i \in 1..(n + 1), NEW j \in 1..(n + 1)
      PROVE  /\ j - i >= 2 * Limit => admits'[j] - admits'[i] > Window
             /\ j - i >= Limit => admits'[j] > admits'[i]
  <2>1. CASE i \in 1..n /\ j \in 1..n
    BY <2>1, <1>0, <1>1 DEF LimiterInv, LimiterTypeOK, WindowNeverOversold
  <2>2. CASE i \in 1..n /\ j = n + 1
    <3>1. admits'[i] = admits[i] /\ admits'[j] = now /\ admits[i] \in Nat
      BY <2>2, <1>0, <1>1 DEF LimiterTypeOK
    <3>2. ASSUME j - i >= 2 * Limit PROVE now - admits[i] > Window
      <4>1. i <= n - count - Limit
        BY <2>2, <3>2, <1>0 DEF LimiterTypeOK
      <4>2. QED
        BY <4>1, <3>1, <2>2, <1>0 DEF LimiterInv, LimiterTypeOK
    <3>3. ASSUME j - i >= Limit PROVE now > admits[i]
      <4>1. i <= n - count
        BY <2>2, <3>3, <1>0 DEF LimiterTypeOK
      <4>2. QED
        BY <4>1, <3>1, <2>2, <1>0 DEF LimiterInv, LimiterTypeOK
    <3>4. QED
      BY <3>1, <3>2, <3>3
  <2>3. CASE i = n + 1
    BY <2>3, <1>0
  <2>4. QED
    BY <2>1, <2>2, <2>3, <1>0
<1>6. DOMAIN admits' = 1..(n + 1)
  BY <1>1, <1>0
<1>7. QED
  BY <1>1, <1>2, <1>3, <1>4, <1>5, <1>6 DEF LimiterInv, WindowNeverOversold

\* The first admission of a new window.
LEMMA AdmitFirst ==
    ASSUME LimiterInv, Expired,
           count' = 1, resetAt' = now + Window, now' = now, admits' = Append(admits, now)
    PROVE  LimiterInv'
<1> DEFINE n == Len(admits)
<1>0. /\ LimiterTypeOK /\ n \in Nat /\ Limit \in Nat /\ Window \in Nat /\ Limit > 0 /\ Window > 0
      /\ now >= resetAt
  BY TargetAssumption DEF LimiterInv, LimiterTypeOK, Expired
<1>1. /\ admits' \in Seq(Nat) /\ Len(admits') = n + 1 /\ admits'[n + 1] = now
      /\ \A i \in 1..n : admits'[i] = admits[i]
  BY <1>0 DEF LimiterTypeOK
<1>2. LimiterTypeOK'
  BY <1>0, <1>1 DEF LimiterTypeOK
<1>3. /\ count' <= Limit /\ count' <= Len(admits') /\ resetAt' <= now' + Window
  BY <1>0, <1>1 DEF LimiterTypeOK
<1>4. ASSUME NEW i \in 1..(n + 1)
      PROVE  /\ admits'[i] <= now' /\ admits'[i] < resetAt'
             /\ i > Len(admits') - count' => admits'[i] + Window >= resetAt'
             /\ i <= Len(admits') - count' => admits'[i] + Window < resetAt'
             /\ i <= Len(admits') - count' - Limit => admits'[i] + 2 * Window < resetAt'
  <2>1. CASE i \in 1..n
    <3>1. admits'[i] = admits[i] /\ admits[i] \in Nat /\ admits[i] < now
      BY <2>1, <1>0, <1>1 DEF LimiterInv, LimiterTypeOK
    <3>2. ASSUME i <= n - Limit PROVE admits[i] + Window < now
      <4>1. i <= n - count
        BY <2>1, <1>0, <3>2 DEF LimiterInv, LimiterTypeOK
      <4>2. admits[i] + Window < resetAt
        BY <2>1, <4>1 DEF LimiterInv
      <4>3. QED
        BY <4>2, <3>1, <1>0 DEF LimiterTypeOK
    <3>3. QED
      BY <2>1, <1>0, <1>1, <3>1, <3>2 DEF LimiterTypeOK
  <2>2. CASE i = n + 1
    BY <2>2, <1>0, <1>1 DEF LimiterInv, LimiterTypeOK
  <2>3. QED
    BY <2>1, <2>2, <1>0
<1>5. ASSUME NEW i \in 1..(n + 1), NEW j \in 1..(n + 1)
      PROVE  /\ j - i >= 2 * Limit => admits'[j] - admits'[i] > Window
             /\ j - i >= Limit => admits'[j] > admits'[i]
  <2>1. CASE i \in 1..n /\ j \in 1..n
    BY <2>1, <1>0, <1>1 DEF LimiterInv, LimiterTypeOK, WindowNeverOversold
  <2>2. CASE i \in 1..n /\ j = n + 1
    <3>1. admits'[i] = admits[i] /\ admits'[j] = now /\ admits[i] \in Nat /\ admits[i] < now
      BY <2>2, <1>0, <1>1 DEF LimiterInv, LimiterTypeOK
    <3>2. ASSUME j - i >= 2 * Limit PROVE now - admits[i] > Window
      <4>1. i <= n - count
        BY <2>2, <3>2, <1>0 DEF LimiterInv, LimiterTypeOK
      <4>2. QED
        BY <4>1, <3>1, <2>2, <1>0 DEF LimiterInv, LimiterTypeOK
    <3>3. QED
      BY <3>1, <3>2
  <2>3. CASE i = n + 1
    BY <2>3, <1>0
  <2>4. QED
    BY <2>1, <2>2, <2>3, <1>0
<1>6. DOMAIN admits' = 1..(n + 1)
  BY <1>1, <1>0
<1>7. QED
  BY <1>1, <1>2, <1>3, <1>4, <1>5, <1>6 DEF LimiterInv, WindowNeverOversold

\* Every other step leaves the limiter alone or lets time pass.
LEMMA OthersKeepLimiterInv ==
    ASSUME LimiterInv, count' = count, resetAt' = resetAt, admits' = admits,
           now' = now \/ now' = now + 1
    PROVE  LimiterInv'
<1>1. now' \in Nat /\ now <= now'
  BY DEF LimiterInv, LimiterTypeOK
<1>2. \A i \in 1..Len(admits) : admits[i] \in Nat
  BY DEF LimiterInv, LimiterTypeOK
<1>3. WindowNeverOversold'
  BY DEF LimiterInv, WindowNeverOversold
<1>4. LimiterTypeOK' /\ resetAt' <= now' + Window
  <2>1. LimiterTypeOK'
    BY <1>1 DEF LimiterInv, LimiterTypeOK
  <2>2. now \in Nat /\ resetAt \in Nat /\ Window \in Nat /\ resetAt <= now + Window
    BY TargetAssumption DEF LimiterInv, LimiterTypeOK
  <2>3. resetAt' <= now' + Window
    <3>1. CASE now' = now
      BY <3>1, <2>2
    <3>2. CASE now' = now + 1
      <4>1. resetAt <= (now + 1) + Window
        BY <2>2
      <4>2. QED
        BY <3>2, <4>1
    <3>3. QED
      BY <3>1, <3>2
  <2>4. QED
    BY <2>1, <2>3
<1>5. \A i \in 1..Len(admits) : admits[i] <= now'
  BY <1>1, <1>2 DEF LimiterInv, LimiterTypeOK
<1>6. QED
  BY <1>3, <1>4, <1>5 DEF LimiterInv

\* ratelimit.go: Check starts a window, admits into the current one or refuses.
LEMMA CheckKeepsLimiterInv ==
    ASSUME LimiterInv, NEW i \in DOMAIN requests, Check(i)
    PROVE  LimiterInv'
<1>1. now' = now
  BY DEF Check
<1>2. CASE Expired
  <2>1. HasRoom(0)
    BY TargetAssumption DEF HasRoom
  <2>2. count' = 1 /\ resetAt' = now + Window /\ admits' = Append(admits, now)
    BY <1>2, <2>1 DEF Check
  <2>3. QED
    BY <1>1, <1>2, <2>2, AdmitFirst
<1>3. CASE ~Expired /\ HasRoom(count)
  <2>1. count' = count + 1 /\ resetAt' = resetAt /\ admits' = Append(admits, now)
    BY <1>3 DEF Check
  <2>2. QED
    BY <1>1, <1>3, <2>1, AdmitCurrent DEF HasRoom
<1>4. CASE ~Expired /\ ~HasRoom(count)
  <2>1. count' = count /\ resetAt' = resetAt /\ admits' = admits
    BY <1>4 DEF Check
  <2>2. QED
    BY <1>1, <2>1, OthersKeepLimiterInv
<1>5. QED
  BY <1>2, <1>3, <1>4

\* Only Check and the clock move the limiter.
LEMMA NextLimiterInv == LimiterInv /\ [Next]_vars => LimiterInv'
<1> SUFFICES ASSUME LimiterInv, [Next]_vars PROVE LimiterInv'
  OBVIOUS
<1>1. ASSUME NEW u \in UserIds, ExecuteRequest(u) PROVE LimiterInv'
  BY <1>1, OthersKeepLimiterInv DEF ExecuteRequest, limiterVars
<1>2. ASSUME NEW i \in DOMAIN requests, GiveUp(i) \/ Receive(i) PROVE LimiterInv'
  BY <1>2, OthersKeepLimiterInv DEF GiveUp, Receive, limiterVars
<1>3. ASSUME NEW i \in DOMAIN requests, TargetStep(i) PROVE LimiterInv'
  <2>1. CASE Check(i)
    BY <2>1, CheckKeepsLimiterInv
  <2>2. CASE Record(i) \/ Handle(i) \/ HangEnds(i) \/ Wake(i) \/ Discard(i)
    BY <2>2, OthersKeepLimiterInv DEF Record, Handle, HangEnds, Wake, Discard, limiterVars
  <2>3. QED
    BY <1>3, <2>1, <2>2 DEF TargetStep
<1>4. CASE Tick
  BY <1>4, OthersKeepLimiterInv DEF Tick
<1>5. CASE UNCHANGED vars
  BY <1>5, OthersKeepLimiterInv DEF vars, limiterVars
<1>6. QED
  BY <1>1, <1>2, <1>3, <1>4, <1>5 DEF Next

\* For every limit, window and number of requests, and however their steps and
\* the clock interleave, the limiter (ratelimit.go:70) never admits more than
\* Limit requests into a window, nor more than twice Limit within any span of
\* a window's length.
THEOREM WindowNeverOversoldHolds == Spec => []WindowNeverOversold
<1>1. LimiterInv => WindowNeverOversold
  BY DEF LimiterInv
<1>2. QED
  BY <1>1, InitLimiterInv, NextLimiterInv, PTL DEF Spec

-----------------------------------------------------------------------------
(* Seconds                                                                  *)

LEMMA Division ==
  ASSUME NEW d \in Nat, NEW n \in Nat \ {0}
  PROVE  d \div n \in Nat /\ d % n \in 0..(n - 1) /\ d = n * (d \div n) + (d % n)
OBVIOUS

LEMMA ProductMonotonic ==
  ASSUME NEW n \in Nat \ {0}, NEW a \in Int, NEW b \in Int, a < b
  PROVE  n * a + n <= n * b
<1>1. n * (b - a) >= n
  <2> DEFINE m == b - a
  <2>1. m \in Nat /\ m >= 1
    OBVIOUS
  <2> HIDE DEF m
  <2>2. n * m = n + n * (m - 1) /\ m - 1 \in Nat
    BY <2>1
  <2>3. n * (m - 1) \in Nat
    BY <2>2
  <2>4. n * m >= n
    BY <2>2, <2>3
  <2> QED
    BY <2>4 DEF m
<1>2. n * (b - a) = n * b - n * a
  OBVIOUS
<1>3. n * a \in Int /\ n * b \in Int
  OBVIOUS
<1> QED
  BY <1>1, <1>2, <1>3

LEMMA DivisionMonotonic ==
  ASSUME NEW n \in Nat \ {0}, NEW a \in Nat, NEW b \in Nat, a <= b
  PROVE  a \div n <= b \div n
<1> DEFINE p == a \div n
           q == b \div n
           i == n * p
           j == n * q
<1>1. p \in Nat /\ (a % n) \in 0..(n - 1) /\ a = i + (a % n)
  BY Division
<1>2. q \in Nat /\ (b % n) \in 0..(n - 1) /\ b = j + (b % n)
  BY Division
<1>3. SUFFICES ASSUME q < p PROVE FALSE
  BY <1>1, <1>2
<1>4. j + n <= i
  BY <1>1, <1>2, <1>3, ProductMonotonic
<1>5. i \in Nat /\ j \in Nat
  BY <1>1, <1>2
<1> HIDE DEF p, q, i, j
<1> QED
  BY <1>1, <1>2, <1>4, <1>5

\* A number of seconds that covers d, and less than a second more
LEMMA ResetSecondsFacts ==
  ASSUME NEW d \in Nat, d > 0
  PROVE  /\ ResetSeconds(d) \in Nat /\ ResetSeconds(d) >= 1
         /\ ResetSeconds(d) * Second >= d /\ ResetSeconds(d) * Second < d + Second
<1>0. Second \in Nat \ {0}
  BY RateLimitHeadersAssumption
<1>1. CASE d < Second
  BY <1>0, <1>1 DEF ResetSeconds
<1>2. CASE ~(d < Second)
  <2> DEFINE e == d + Second - 1
             q == e \div Second
             x == Second * q
  <2>1. e \in Nat /\ e >= Second
    BY <1>0, <1>2
  <2>2. ResetSeconds(d) = q
    BY <1>2 DEF ResetSeconds
  <2>3. q \in Nat /\ e % Second \in 0..(Second - 1) /\ e = x + (e % Second)
    <3> HIDE DEF e
    <3> QED
      BY <1>0, <2>1, Division
  <2>4. x \in Nat /\ x = q * Second
    BY <1>0, <2>3
  <2>5. x >= d /\ x < d + Second
    <3> DEFINE r == e % Second
    <3>1. r \in 0..(Second - 1) /\ d + Second - 1 = x + r
      BY <2>3
    <3> HIDE DEF x, r
    <3> QED
      BY <1>0, <2>4, <3>1
  <2>6. q >= 1
    <3>1. CASE q = 0
      <4>1. x = 0
        BY <1>0, <3>1
      <4> HIDE DEF x
      <4> QED
        BY <1>0, <2>5, <4>1
    <3> QED
      BY <2>3, <3>1
  <2> HIDE DEF q, x
  <2> QED
    BY <2>2, <2>3, <2>4, <2>5, <2>6
<1> QED
  BY <1>1, <1>2

LEMMA ResetSecondsMonotonic ==
  ASSUME NEW d \in Nat, NEW w \in Nat, 0 < d, d <= w
  PROVE  ResetSeconds(d) <= ResetSeconds(w)
<1>0. Second \in Nat \ {0}
  BY RateLimitHeadersAssumption
<1>1. CASE d < Second
  <2>1. ResetSeconds(d) = 1
    BY <1>1 DEF ResetSeconds
  <2>2. ResetSeconds(w) \in Nat /\ ResetSeconds(w) >= 1
    BY ResetSecondsFacts
  <2> QED
    BY <2>1, <2>2
<1>2. CASE ~(d < Second)
  <2>1. ~(w < Second)
    BY <1>0, <1>2
  <2> DEFINE a == d + Second - 1
             b == w + Second - 1
  <2>2. a \in Nat /\ b \in Nat /\ a <= b
    BY <1>0
  <2>3. ResetSeconds(d) = a \div Second /\ ResetSeconds(w) = b \div Second
    BY <1>2, <2>1 DEF ResetSeconds
  <2> HIDE DEF a, b
  <2> QED
    BY <1>0, <2>2, <2>3, DivisionMonotonic
<1> QED
  BY <1>1, <1>2

\* The second that t is in
LEMMA UnixFacts ==
  ASSUME NEW t \in Nat
  PROVE  Unix(t) \in Nat /\ Unix(t) * Second <= t /\ t < (Unix(t) + 1) * Second
<1>0. Second \in Nat \ {0}
  BY RateLimitHeadersAssumption
<1> DEFINE q == t \div Second
           r == t % Second
           x == Second * q
<1>1. q \in Nat /\ r \in 0..(Second - 1) /\ t = x + r
  BY <1>0, Division
<1>2. x \in Nat /\ x = q * Second /\ (q + 1) * Second = x + Second
  BY <1>0, <1>1
<1>3. Unix(t) = q
  BY DEF Unix
<1>4. x <= t /\ t < x + Second
  <2> HIDE DEF x, r, q
  <2> QED
    BY <1>0, <1>1, <1>2
<1> HIDE DEF q, x
<1> QED
  BY <1>1, <1>2, <1>3, <1>4

-----------------------------------------------------------------------------
(* What the executor reads from the headers of a verdict                    *)

\* A field that is not nil is the value of a header that was parsed.
LEMMA FieldIsRead ==
  ASSUME NEW V, Field(V) # Nil
  PROVE  \E v \in V : Field(V) = v.value
<1>1. V # {}
  BY DEF Field
<1>2. (CHOOSE v \in V : TRUE) \in V
  BY <1>1
<1> QED
  BY <1>1, <1>2 DEF Field

\* What is preferred is the value of one of the two headers.
LEMMA PreferredIsSet ==
  ASSUME NEW h, NEW s, NEW l, NEW v \in Preferred(h, s, l)
  PROVE  \/ s \in DOMAIN h /\ v = h[s]
         \/ s \notin DOMAIN h /\ l \in DOMAIN h /\ v = h[l]
BY DEF Preferred

LEMMA Kinds ==
  /\ \A n : Number(n).value = n /\ HttpDate(n).value = n
  /\ \A n : ~IsDate(Number(n)) /\ IsDate(HttpDate(n)) /\ ~IsNumber(HttpDate(n))
  /\ \A n : n >= 0 => IsNumber(Number(n))
  /\ \A n : IsEpoch(Number(n)) <=> n > EpochThreshold
  /\ \A n : IsEpoch(HttpDate(n))
<1>1. \A n : Number(n).kind = "number" /\ Number(n).value = n /\ HttpDate(n).kind = "date" /\ HttpDate(n).value = n
  BY DEF Number, HttpDate
<1>2. "number" # "date"
  OBVIOUS
<1>3. \A n : ~IsDate(Number(n)) /\ IsDate(HttpDate(n)) /\ ~IsNumber(HttpDate(n))
  BY <1>1, <1>2, Zenon DEF IsDate, IsNumber
<1>4. \A n : n >= 0 => IsNumber(Number(n))
  BY <1>1, Zenon DEF IsNumber
<1>5. \A n : IsEpoch(Number(n)) <=> n > EpochThreshold
  BY <1>1, <1>3, Zenon DEF IsEpoch
<1>6. \A n : IsEpoch(HttpDate(n))
  BY <1>3, Zenon DEF IsEpoch
<1> QED
  BY <1>1, <1>3, <1>4, <1>5, <1>6, Zenon

\* The value of each header
LEMMA HeaderValues ==
  ASSUME NEW style, NEW limit, NEW remaining, NEW resetSeconds, NEW ends,
         NEW h, h = populateHeaders(style, limit, remaining, resetSeconds, ends)
  PROVE  /\ \A n \in DOMAIN h : n \in {"RateLimit-Limit", "X-RateLimit-Limit"} => h[n] = Number(limit)
         /\ \A n \in DOMAIN h : n \in {"RateLimit-Remaining", "X-RateLimit-Remaining"} => h[n] = Number(remaining)
         /\ \A n \in DOMAIN h : n = "RateLimit-Reset" => h[n] = Number(resetSeconds)
         /\ \A n \in DOMAIN h : n = "X-RateLimit-Reset" => h[n] = Number(Unix(ends))
         /\ \A n \in DOMAIN h : n = "Retry-After" => h[n] = IF style = "date" THEN HttpDate(Unix(ends)) ELSE Number(resetSeconds)
         /\ DOMAIN h = HeaderNames(style, remaining)
<1> DEFINE value(n) ==
        CASE n \in {"RateLimit-Limit", "X-RateLimit-Limit"} -> Number(limit)
          [] n \in {"RateLimit-Remaining", "X-RateLimit-Remaining"} -> Number(remaining)
          [] n = "RateLimit-Reset" -> Number(resetSeconds)
          [] n = "X-RateLimit-Reset" -> Number(Unix(ends))
          [] n = "RateLimit-Policy" -> Text
          [] n = "Retry-After" -> IF style = "date" THEN HttpDate(Unix(ends)) ELSE Number(resetSeconds)
<1>1. DOMAIN h = HeaderNames(style, remaining) /\ \A n \in DOMAIN h : h[n] = value(n)
  BY DEF populateHeaders
<1>2. \A n : /\ n \in {"RateLimit-Limit", "X-RateLimit-Limit"} => value(n) = Number(limit)
             /\ n \in {"RateLimit-Remaining", "X-RateLimit-Remaining"} => value(n) = Number(remaining)
             /\ n = "RateLimit-Reset" => value(n) = Number(resetSeconds)
             /\ n = "X-RateLimit-Reset" => value(n) = Number(Unix(ends))
             /\ n = "Retry-After" => value(n) = IF style = "date" THEN HttpDate(Unix(ends)) ELSE Number(resetSeconds)
  OBVIOUS
<1> HIDE DEF value
<1> QED
  BY <1>1, <1>2, Zenon

Covers(at, reset, s) == at + s * Second >= reset /\ at + s * Second < reset + Second
EndsIn(reset, s) == s * Second <= reset /\ reset < (s + 1) * Second

Reads(info, at, reset, used) ==
    /\ info.limit # Nil => info.limit = Limit
    /\ info.remaining # Nil => info.remaining = Limit - used
    /\ info.retrySeconds # Nil => Covers(at, reset, info.retrySeconds)
    /\ info.resetSeconds # Nil => Covers(at, reset, info.resetSeconds)
    /\ info.retryDate # Nil => EndsIn(reset, info.retryDate)
    /\ info.resetDate # Nil => EndsIn(reset, info.resetDate)
    /\ used = Limit => {info.retrySeconds, info.retryDate} # {Nil}

LEMMA ReadsVerdict ==
  ASSUME NEW style \in Styles, NEW at \in Nat, NEW reset \in Nat, NEW used \in 0..Limit,
         at < reset, reset <= at + Window, Origin <= reset,
         NEW h, h = populateHeaders(style, Limit, Limit - used, ResetSeconds(reset - at), reset)
  PROVE  Reads(ExtractRateLimitInfo(h), at, reset, used)
<1> DEFINE seconds == ResetSeconds(reset - at)
           date == Unix(reset)
           remaining == Limit - used
           info == ExtractRateLimitInfo(h)
           Retry == Preferred(h, "Retry-After", "Retry-After")
           Limits == Preferred(h, "RateLimit-Limit", "X-RateLimit-Limit")
           Remaining == Preferred(h, "RateLimit-Remaining", "X-RateLimit-Remaining")
           Reset == Preferred(h, "RateLimit-Reset", "X-RateLimit-Reset")
<1>1. /\ seconds \in Nat /\ seconds >= 1 /\ Covers(at, reset, seconds) /\ ~(seconds > EpochThreshold)
  <2> DEFINE d == reset - at
  <2>1. d \in Nat /\ 0 < d /\ d <= Window /\ Window \in Nat
    BY TargetAssumption
  <2>2. /\ ResetSeconds(d) \in Nat /\ ResetSeconds(d) >= 1
        /\ ResetSeconds(d) * Second >= d /\ ResetSeconds(d) * Second < d + Second
    <3> HIDE DEF d
    <3> QED
      BY <2>1, ResetSecondsFacts
  <2>3. ResetSeconds(d) <= ResetSeconds(Window)
    <3> HIDE DEF d
    <3> QED
      BY <2>1, ResetSecondsMonotonic
  <2>4. ResetSeconds(Window) \in Nat /\ ResetSeconds(Window) <= EpochThreshold /\ EpochThreshold \in Nat
    <3>1. Window > 0
      BY <2>1
    <3> QED
      BY <2>1, <3>1, ResetSecondsFacts, ClockAssumption, RateLimitHeadersAssumption
  <2> DEFINE s == ResetSeconds(d)
             x == s * Second
  <2>5. x \in Nat /\ x >= reset - at /\ x < (reset - at) + Second
    BY <2>2, RateLimitHeadersAssumption
  <2>6. at + x >= reset /\ at + x < reset + Second
    <3> HIDE DEF x
    <3> QED
      BY <2>5, RateLimitHeadersAssumption
  <2>7. Covers(at, reset, s)
    BY <2>6 DEF Covers
  <2>8. ~(s > EpochThreshold)
    <3> HIDE DEF s
    <3>1. s \in Nat /\ s <= ResetSeconds(Window)
      BY <2>2, <2>3 DEF s
    <3> QED
      BY <2>4, <3>1
  <2> QED
    BY <2>2, <2>7, <2>8
<1>2. date \in Nat /\ EndsIn(reset, date) /\ date > EpochThreshold
  <2>1. Unix(Origin) <= date
    BY TargetAssumption, RateLimitHeadersAssumption, DivisionMonotonic DEF Unix
  <2>2. date \in Nat /\ EndsIn(reset, date)
    BY UnixFacts DEF EndsIn
  <2>3. Unix(Origin) \in Nat /\ Unix(Origin) > EpochThreshold /\ EpochThreshold \in Nat
    BY TargetAssumption, UnixFacts, ClockAssumption, RateLimitHeadersAssumption
  <2> HIDE DEF date
  <2> QED
    BY <2>1, <2>2, <2>3
<1> HIDE DEF seconds, date, remaining
<1>3. /\ \A n \in DOMAIN h : n \in {"RateLimit-Limit", "X-RateLimit-Limit"} => h[n] = Number(Limit)
      /\ \A n \in DOMAIN h : n \in {"RateLimit-Remaining", "X-RateLimit-Remaining"} => h[n] = Number(remaining)
      /\ \A n \in DOMAIN h : n = "RateLimit-Reset" => h[n] = Number(seconds)
      /\ \A n \in DOMAIN h : n = "X-RateLimit-Reset" => h[n] = Number(date)
      /\ \A n \in DOMAIN h : n = "Retry-After" => h[n] = IF style = "date" THEN HttpDate(date) ELSE Number(seconds)
      /\ DOMAIN h = HeaderNames(style, remaining)
  BY HeaderValues DEF seconds, date, remaining
<1>4. /\ info.retrySeconds = Field({v \in Retry : IsNumber(v)})
      /\ info.retryDate = Field({v \in Retry : IsDate(v)})
      /\ info.limit = Field({v \in Limits : IsNumber(v)})
      /\ info.remaining = Field({v \in Remaining : IsNumber(v)})
      /\ info.resetSeconds = Field({v \in Reset : IsNumber(v) /\ ~IsEpoch(v)})
      /\ info.resetDate = Field({v \in Reset : IsEpoch(v)})
  BY DEF ExtractRateLimitInfo
<1>5. \A v \in Retry : v = HttpDate(date) \/ v = Number(seconds)
  BY <1>3, PreferredIsSet
<1>6. \A v \in Limits : v = Number(Limit)
  BY <1>3, PreferredIsSet
<1>7. \A v \in Remaining : v = Number(remaining)
  BY <1>3, PreferredIsSet
<1>8. \A v \in Reset : v = Number(date) \/ v = Number(seconds)
  BY <1>3, PreferredIsSet
<1>9. used = Limit => h["Retry-After"] \in Retry
  <2>1. used = Limit => remaining = 0
    BY TargetAssumption DEF remaining
  <2>2. remaining = 0 => "Retry-After" \in HeaderNames(style, remaining)
    BY DEF HeaderNames
  <2> QED
    BY <1>3, <2>1, <2>2, Zenon DEF Preferred
<1> HIDE DEF info, Retry, Limits, Remaining, Reset
<1>10. info.limit # Nil => info.limit = Limit
  BY <1>4, <1>6, FieldIsRead, Kinds, Zenon
<1>11. info.remaining # Nil => info.remaining = remaining
  BY <1>4, <1>7, FieldIsRead, Kinds, Zenon
<1>12. ASSUME info.retrySeconds # Nil PROVE Covers(at, reset, info.retrySeconds)
  <2>1. PICK v \in {w \in Retry : IsNumber(w)} : info.retrySeconds = v.value
    BY <1>4, <1>12, FieldIsRead, Zenon
  <2>2. v \in Retry /\ IsNumber(v)
    BY <2>1
  <2>3. v = Number(seconds)
    BY <1>5, <2>2, Kinds, Zenon
  <2>4. info.retrySeconds = seconds
    BY <2>1, <2>3, Kinds, Zenon
  <2> QED
    BY <1>1, <2>4, Zenon
<1>13. info.retryDate # Nil => EndsIn(reset, info.retryDate)
  BY <1>2, <1>4, <1>5, FieldIsRead, Kinds, Zenon
<1>14. ASSUME info.resetSeconds # Nil PROVE Covers(at, reset, info.resetSeconds)
  <2>1. PICK v \in {w \in Reset : IsNumber(w) /\ ~IsEpoch(w)} : info.resetSeconds = v.value
    BY <1>4, <1>14, FieldIsRead, Zenon
  <2>2. v \in Reset /\ IsNumber(v) /\ ~IsEpoch(v)
    BY <2>1
  <2>3. v = Number(seconds)
    BY <1>2, <1>8, <2>2, Kinds, Zenon
  <2>4. info.resetSeconds = seconds
    BY <2>1, <2>3, Kinds, Zenon
  <2> QED
    BY <1>1, <2>4, Zenon
<1>15. ASSUME info.resetDate # Nil PROVE EndsIn(reset, info.resetDate)
  <2>1. PICK v \in {w \in Reset : IsEpoch(w)} : info.resetDate = v.value
    BY <1>4, <1>15, FieldIsRead, Zenon
  <2>2. v \in Reset /\ IsEpoch(v)
    BY <2>1
  <2>3. v = Number(date)
    BY <1>1, <1>8, <2>2, Kinds, Zenon
  <2>4. info.resetDate = date
    BY <2>1, <2>3, Kinds, Zenon
  <2> QED
    BY <1>2, <2>4, Zenon
<1>16. ASSUME used = Limit PROVE {info.retrySeconds, info.retryDate} # {Nil}
  <2>1. PICK v \in Retry : v = HttpDate(date) \/ v = Number(seconds)
    BY <1>5, <1>9, <1>16
  <2>2. seconds # Nil /\ date # Nil /\ seconds >= 0
    BY <1>1, <1>2 DEF Nil
  <2>3. CASE v = HttpDate(date)
    <3> DEFINE V == {w \in Retry : IsDate(w)}
    <3>1. v \in V /\ \A w \in V : w = HttpDate(date)
      BY <1>5, <2>3, Kinds, Zenon
    <3>2. Field(V) = date
      <4>1. V # {} /\ (CHOOSE w \in V : TRUE) \in V
        BY <3>1, Zenon
      <4> HIDE DEF V
      <4> QED
        BY <3>1, <4>1, Kinds, Zenon DEF Field
    <3> QED
      BY <1>4, <2>2, <3>2, Zenon
  <2>4. CASE v = Number(seconds)
    <3> DEFINE V == {w \in Retry : IsNumber(w)}
    <3>1. v \in V /\ \A w \in V : w = Number(seconds)
      BY <1>5, <2>2, <2>4, Kinds, Zenon
    <3>2. Field(V) = seconds
      <4>1. V # {} /\ (CHOOSE w \in V : TRUE) \in V
        BY <3>1, Zenon
      <4> HIDE DEF V
      <4> QED
        BY <3>1, <4>1, Kinds, Zenon DEF Field
    <3> QED
      BY <1>4, <2>2, <3>2, Zenon
  <2> QED
    BY <2>1, <2>3, <2>4
<1>17. Reads(info, at, reset, used)
  BY <1>10, <1>11, <1>12, <1>13, <1>14, <1>15, <1>16, Zenon DEF remaining, Reads
<1> QED
  BY <1>17 DEF info

-----------------------------------------------------------------------------
(* What is known of each request: the identity and the cookies that it      *)
(* carries are its user's own, and its headers are those of its verdict     *)

CallFields == {"user", "path", "hops", "credential", "cookies", "phase", "gone", "wake",
               "answer", "headers", "verdict", "own"}
AnswerFields == {"status", "set", "clear", "auth", "cookies", "identity"}

IsAnswer(a, credential) == DOMAIN a = AnswerFields /\ a.identity \in {NoCredential, credential}

Told(r, s) ==
    r.verdict # NoVerdict =>
        LET v == r.verdict
        IN  /\ s.style \in Styles
            /\ v.at \in Nat /\ v.reset \in Nat /\ v.used \in 0..Limit
            /\ v.at < v.reset /\ v.reset <= v.at + Window /\ Origin <= v.reset
            /\ r.headers = populateHeaders(s.style, Limit, Limit - v.used, ResetSeconds(v.reset - v.at), v.reset)
            /\ Refused(r) => v.used = Limit

CallOK(r, s) ==
    /\ DOMAIN r = CallFields /\ IsAnswer(r.answer, r.credential)
    /\ r.user \in 0..(s.users - 1) /\ r.credential = AuthenticateRequest(s.auth, r.user)
    /\ r.cookies = r.own
    /\ r.phase = "recorded" => s.style \in Styles
    /\ Told(r, s)

\* Steps that change neither the identity nor the verdict
LEMMA NoAnswerFacts == DOMAIN NoAnswer = AnswerFields /\ NoAnswer.identity = NoCredential
BY DEF NoAnswer, AnswerFields

LEMMA SameKeeps ==
  ASSUME NEW r, NEW s, CallOK(r, s), NEW q,
         /\ DOMAIN q = CallFields /\ q.answer = r.answer /\ q.credential = r.credential /\ q.user = r.user
         /\ q.cookies = r.cookies /\ q.own = r.own /\ q.verdict = r.verdict /\ q.headers = r.headers,
         q.phase = "recorded" => s.style \in Styles
  PROVE  CallOK(q, s)
<1>1. Told(q, s)
  BY Zenon DEF Told, Refused, CallOK
<1> QED
  BY <1>1, Zenon DEF CallOK

LEMMA PhaseKeeps ==
  ASSUME NEW r, NEW s, CallOK(r, s), NEW p, p = "recorded" => s.style \in Styles
  PROVE  CallOK([r EXCEPT !.phase = p], s)
<1> DEFINE q == [r EXCEPT !.phase = p]
<1>1. DOMAIN r = CallFields /\ (r.phase = "recorded" => s.style \in Styles)
  BY DEF CallOK
<1>2. /\ DOMAIN q = CallFields /\ q.answer = r.answer /\ q.credential = r.credential /\ q.user = r.user
      /\ q.cookies = r.cookies /\ q.own = r.own /\ q.verdict = r.verdict /\ q.headers = r.headers /\ q.phase = p
  BY <1>1 DEF CallFields
<1> HIDE DEF q
<1>3. CallOK(q, s)
  BY <1>1, <1>2, SameKeeps, Zenon
<1> QED
  BY <1>3 DEF q

LEMMA GoneKeeps ==
  ASSUME NEW r, NEW s, CallOK(r, s), NEW g
  PROVE  CallOK([r EXCEPT !.gone = g], s)
<1> DEFINE q == [r EXCEPT !.gone = g]
<1>1. DOMAIN r = CallFields /\ (r.phase = "recorded" => s.style \in Styles)
  BY DEF CallOK
<1>2. /\ DOMAIN q = CallFields /\ q.answer = r.answer /\ q.credential = r.credential /\ q.user = r.user
      /\ q.cookies = r.cookies /\ q.own = r.own /\ q.verdict = r.verdict /\ q.headers = r.headers /\ q.phase = r.phase
  BY <1>1 DEF CallFields
<1> HIDE DEF q
<1>3. CallOK(q, s)
  BY <1>1, <1>2, SameKeeps, Zenon
<1> QED
  BY <1>3 DEF q

LEMMA WakeKeeps ==
  ASSUME NEW r, NEW s, CallOK(r, s), NEW w
  PROVE  CallOK([r EXCEPT !.wake = w], s)
<1> DEFINE q == [r EXCEPT !.wake = w]
<1>1. DOMAIN r = CallFields /\ (r.phase = "recorded" => s.style \in Styles)
  BY DEF CallOK
<1>2. /\ DOMAIN q = CallFields /\ q.answer = r.answer /\ q.credential = r.credential /\ q.user = r.user
      /\ q.cookies = r.cookies /\ q.own = r.own /\ q.verdict = r.verdict /\ q.headers = r.headers /\ q.phase = r.phase
  BY <1>1 DEF CallFields
<1> HIDE DEF q
<1>3. CallOK(q, s)
  BY <1>1, <1>2, SameKeeps, Zenon
<1> QED
  BY <1>3 DEF q

\* Of a call that is over the identity stays.
LEMMA OverKeeps ==
  ASSUME NEW r, NEW s, CallOK(r, s)
  PROVE  CallOK(Over(r), s)
<1> DEFINE zero == 0
           done == "done"
           a == [NoAnswer EXCEPT !.identity = r.answer.identity]
           q == [r EXCEPT !.phase = done, !.gone = FALSE, !.wake = zero, !.headers = NoHeaders, !.verdict = NoVerdict,
                          !.cookies = {}, !.own = {}, !.answer = a]
<1>0. Over(r) = q
  BY DEF Over
<1>1. DOMAIN r = CallFields
  BY DEF CallOK
<1>2. DOMAIN a = AnswerFields /\ a.identity = r.answer.identity
  BY NoAnswerFacts DEF AnswerFields
<1>3. done # "recorded"
  OBVIOUS
<1> HIDE DEF zero, done, a
<1>4. /\ DOMAIN q = CallFields /\ q.answer = a /\ q.credential = r.credential /\ q.user = r.user
      /\ q.cookies = {} /\ q.own = {} /\ q.verdict = NoVerdict /\ q.phase = done
  BY <1>1 DEF CallFields
<1> HIDE DEF q
<1>5. IsAnswer(q.answer, q.credential)
  BY <1>2, <1>4, Zenon DEF IsAnswer, CallOK
<1>6. Told(q, s)
  BY <1>4, Zenon DEF Told
<1>7. CallOK(q, s)
  BY <1>3, <1>4, <1>5, <1>6, Zenon DEF CallOK
<1> QED
  BY <1>0, <1>7

\* A verdict is one about the current window, and a refusal has spent it.
LEMMA JudgedKeeps ==
  ASSUME NEW r, CallOK(r, setup), setup.style \in Styles, NEW allowed \in BOOLEAN, NEW used \in 0..Limit, NEW reset \in Nat,
         now \in Nat, now < reset, reset <= now + Window, Origin <= reset, ~allowed => used = Limit
  PROVE  CallOK(Judged(r, allowed, used, reset), setup)
<1> DEFINE status == IF allowed THEN 0 ELSE 429
           phase == IF allowed THEN "admitted" ELSE "answered"
           v == [at |-> now, reset |-> reset, used |-> used]
           h == populateHeaders(setup.style, Limit, Limit - used, ResetSeconds(reset - now), reset)
           q == [r EXCEPT !.phase = phase, !.answer.status = status, !.headers = h, !.verdict = v]
<1>0. Judged(r, allowed, used, reset) = q
  BY DEF Judged
<1>1. DOMAIN r = CallFields /\ DOMAIN r.answer = AnswerFields
  BY DEF CallOK, IsAnswer
<1>2. phase # "recorded"
  OBVIOUS
<1>3. status = 429 => ~allowed
  OBVIOUS
<1>4. v.at = now /\ v.reset = reset /\ v.used = used
  OBVIOUS
<1>5. h = populateHeaders(setup.style, Limit, Limit - v.used, ResetSeconds(v.reset - v.at), v.reset)
  BY <1>4
<1> HIDE DEF status, phase, v, h
<1>6. /\ DOMAIN q = CallFields /\ q.credential = r.credential /\ q.user = r.user
      /\ q.cookies = r.cookies /\ q.own = r.own /\ q.verdict = v /\ q.headers = h /\ q.phase = phase
      /\ q.answer = [r.answer EXCEPT !.status = status]
  BY <1>1 DEF CallFields
<1>7. /\ DOMAIN [r.answer EXCEPT !.status = status] = AnswerFields
      /\ [r.answer EXCEPT !.status = status].identity = r.answer.identity
      /\ [r.answer EXCEPT !.status = status].status = status
  BY <1>1 DEF AnswerFields
<1> HIDE DEF q
<1>8. IsAnswer(q.answer, q.credential)
  BY <1>6, <1>7, Zenon DEF IsAnswer, CallOK
<1>9. Told(q, setup)
  <2>1. Refused(q) => used = Limit
    BY <1>3, <1>6, <1>7, Zenon DEF Refused
  <2> QED
    BY <1>4, <1>5, <1>6, <2>1, Zenon DEF Told
<1>10. CallOK(q, setup)
  BY <1>2, <1>6, <1>8, <1>9, Zenon DEF CallOK
<1> QED
  BY <1>0, <1>10

\* No endpoint answers as the limiter does, and the only identity that one
\* echoes is the caller's.
LEMMA AnswerFacts ==
  ASSUME NEW r
  PROVE  IsAnswer(AnswerTo(r), r.credential) /\ AnswerTo(r).status # 429
<1> DEFINE c == r.credential
           Good(a) == DOMAIN a = AnswerFields /\ a.identity \in {NoCredential, c} /\ a.status # 429
<1>1. ASSUME NEW n, n # 429 PROVE Good(Status(n))
  <2>1. /\ DOMAIN Status(n) = AnswerFields /\ Status(n).identity = NoCredential /\ Status(n).status = n
    BY NoAnswerFacts DEF Status, AnswerFields
  <2> QED
    BY <1>1, <2>1
<1>2. Good(Status(200)) /\ Good(Status(401)) /\ Good(Status(405)) /\ Good(Status(500)) /\ Good(Status(302))
  <2>1. 200 # 429 /\ 401 # 429 /\ 405 # 429 /\ 500 # 429 /\ 302 # 429
    OBVIOUS
  <2> HIDE DEF Good
  <2> QED
    BY <1>1, <2>1
<1>3. ASSUME NEW a, Good(a), NEW x
      PROVE  /\ Good([a EXCEPT !.set = x]) /\ Good([a EXCEPT !.clear = x]) /\ Good([a EXCEPT !.auth = x])
             /\ Good([a EXCEPT !.cookies = x]) /\ Good([a EXCEPT !.identity = c])
  BY <1>3 DEF AnswerFields
<1>4. \A b : Good(Verified(b))
  BY <1>2 DEF Verified
<1> HIDE DEF Good
<1> DEFINE Paths == {"login", "login-get", "logout", "items", "cookies-set", "cookies", "bearer", "header", "basic", "token-pool", "fail-step", "redirect"}
<1>5. Good(AnswerTo(r))
  <2>1. CASE r.path = "login"
    BY <1>2, <1>3, <1>4, <2>1 DEF AnswerTo
  <2>2. CASE r.path = "login-get"
    BY <1>2, <1>3, <1>4, <2>2 DEF AnswerTo
  <2>3. CASE r.path = "logout"
    BY <1>2, <1>3, <1>4, <2>3 DEF AnswerTo
  <2>4. CASE r.path = "items"
    BY <1>2, <1>3, <1>4, <2>4 DEF AnswerTo
  <2>5. CASE r.path = "cookies-set"
    BY <1>2, <1>3, <1>4, <2>5 DEF AnswerTo
  <2>6. CASE r.path = "cookies"
    BY <1>2, <1>3, <1>4, <2>6 DEF AnswerTo
  <2>7. CASE r.path = "bearer"
    BY <1>2, <1>3, <1>4, <2>7 DEF AnswerTo
  <2>8. CASE r.path = "header"
    BY <1>2, <1>3, <1>4, <2>8 DEF AnswerTo
  <2>9. CASE r.path = "basic"
    BY <1>2, <1>3, <1>4, <2>9 DEF AnswerTo
  <2>10. CASE r.path = "token-pool"
    BY <1>2, <1>3, <1>4, <2>10 DEF AnswerTo
  <2>11. CASE r.path = "fail-step"
    BY <1>2, <1>3, <1>4, <2>11 DEF AnswerTo
  <2>12. CASE r.path = "redirect"
    BY <1>2, <1>3, <1>4, <2>12 DEF AnswerTo
  <2>13. CASE r.path \notin Paths
    BY <1>2, <2>13 DEF AnswerTo
  <2> QED
    BY <2>1, <2>2, <2>3, <2>4, <2>5, <2>6, <2>7, <2>8, <2>9, <2>10, <2>11, <2>12, <2>13
<1> QED
  BY <1>5 DEF Good, IsAnswer

LEMMA AnsweredKeeps ==
  ASSUME NEW r, NEW s, CallOK(r, s)
  PROVE  CallOK(Answered(r), s)
<1> DEFINE a == AnswerTo(r)
           answered == "answered"
           q == [r EXCEPT !.phase = answered, !.answer = a]
<1>0. Answered(r) = q
  BY DEF Answered
<1>1. DOMAIN r = CallFields
  BY DEF CallOK
<1>2. answered # "recorded"
  OBVIOUS
<1>3. IsAnswer(a, r.credential) /\ a.status # 429
  BY AnswerFacts
<1> HIDE DEF a, answered
<1>4. /\ DOMAIN q = CallFields /\ q.answer = a /\ q.credential = r.credential /\ q.user = r.user
      /\ q.cookies = r.cookies /\ q.own = r.own /\ q.verdict = r.verdict /\ q.headers = r.headers /\ q.phase = answered
  BY <1>1 DEF CallFields
<1> HIDE DEF q
<1>5. ~Refused(q)
  BY <1>3, <1>4, Zenon DEF Refused
<1>6. Told(q, s)
  BY <1>4, <1>5, Zenon DEF Told, CallOK
<1>7. CallOK(q, s)
  BY <1>2, <1>3, <1>4, <1>6, Zenon DEF CallOK
<1> QED
  BY <1>0, <1>7

\* The jar of a user holds what its own answers left it.
SessionsOK ==
    /\ setup.users \in Nat /\ setup.jars \in BOOLEAN
    /\ jars = [u \in UserIds |-> jars[u]] /\ sessions = [u \in UserIds |-> sessions[u]]
    /\ \A u \in UserIds : setup.jars => jars[u] = sessions[u]
    /\ \A u \in UserIds : ~setup.jars => sessions[u] = {}

LEMMA JarFacts ==
  ASSUME NEW u \in UserIds, setup.users \in Nat
  PROVE  (setup.jars => JarOf(u) = u) /\ (~setup.jars => JarOf(u) = NoJar) /\ u # NoJar /\ NoJar \notin UserIds
BY DEF JarOf, GetJar, NoJar, UserIds

LEMMA OwnCookies ==
  ASSUME SessionsOK, NEW u \in UserIds
  PROVE  CookiesOf(u) = sessions[u]
<1>1. setup.users \in Nat /\ setup.jars \in BOOLEAN
  BY DEF SessionsOK
<1>2. CASE setup.jars
  BY <1>1, <1>2, JarFacts DEF SessionsOK, CookiesOf
<1>3. CASE ~setup.jars
  BY <1>1, <1>3, JarFacts DEF SessionsOK, CookiesOf
<1> QED
  BY <1>2, <1>3

\* A new request carries the cookies of its user, those given or those now.
LEMMA NewRequestFacts ==
  ASSUME NEW u \in UserIds, NEW path
  PROVE  LET q == NewRequest(u, path)
         IN  /\ DOMAIN q = CallFields /\ q.user = u /\ q.credential = AuthenticateRequest(setup.auth, u)
             /\ q.answer = NoAnswer /\ q.verdict = NoVerdict /\ q.phase = "sent"
             /\ q.cookies = CookiesOf(u) /\ q.own = sessions[u]
<1> DEFINE hops == IF path = "redirect" THEN Hops ELSE 0
           zero == 0
           sent == "sent"
           q == [user |-> u, path |-> path, hops |-> hops, credential |-> AuthenticateRequest(setup.auth, u),
                 cookies |-> CookiesOf(u), phase |-> sent, gone |-> FALSE, wake |-> zero,
                 answer |-> NoAnswer, headers |-> NoHeaders, verdict |-> NoVerdict, own |-> sessions[u]]
<1>1. NewRequest(u, path) = q
  BY DEF NewRequest
<1> HIDE DEF hops, zero, sent
<1>2. /\ DOMAIN q = CallFields /\ q.user = u /\ q.credential = AuthenticateRequest(setup.auth, u)
      /\ q.answer = NoAnswer /\ q.verdict = NoVerdict /\ q.phase = sent
      /\ q.cookies = CookiesOf(u) /\ q.own = sessions[u]
  BY DEF CallFields
<1> HIDE DEF q
<1> QED
  BY <1>1, <1>2, Zenon DEF sent

\* A request with no verdict yet
LEMMA FreshOK ==
  ASSUME NEW q, NEW s, NEW u \in 0..(s.users - 1), DOMAIN q = CallFields, q.user = u,
         q.credential = AuthenticateRequest(s.auth, u), q.answer = NoAnswer, q.verdict = NoVerdict, q.phase = "sent",
         q.cookies = q.own
  PROVE  CallOK(q, s)
<1>1. IsAnswer(q.answer, q.credential)
  BY NoAnswerFacts, Zenon DEF IsAnswer
<1>2. "sent" # "recorded"
  OBVIOUS
<1>3. Told(q, s)
  BY Zenon DEF Told
<1> QED
  BY <1>1, <1>2, <1>3, Zenon DEF CallOK

IsSeq(s) == \E S : s \in Seq(S)

LEMMA AppendFacts ==
  ASSUME NEW s, IsSeq(s), NEW e
  PROVE  /\ IsSeq(Append(s, e))
         /\ \A i \in DOMAIN Append(s, e) : Append(s, e)[i] = e \/ (i \in DOMAIN s /\ Append(s, e)[i] = s[i])
<1>1. PICK S : s \in Seq(S)
  BY DEF IsSeq
<1> DEFINE T == S \cup {e}
<1>2. s \in Seq(T) /\ e \in T
  BY <1>1
<1> HIDE DEF T
<1>3. Append(s, e) \in Seq(T)
  BY <1>2
<1>4. \A i \in DOMAIN Append(s, e) : Append(s, e)[i] = e \/ (i \in DOMAIN s /\ Append(s, e)[i] = s[i])
  BY <1>2
<1> QED
  BY <1>3, <1>4 DEF IsSeq

LEMMA ReplaceFacts ==
  ASSUME NEW s, IsSeq(s), NEW i \in DOMAIN s, NEW e
  PROVE  /\ IsSeq([s EXCEPT ![i] = e])
         /\ DOMAIN [s EXCEPT ![i] = e] = DOMAIN s
         /\ \A j \in DOMAIN s : [s EXCEPT ![i] = e][j] = IF j = i THEN e ELSE s[j]
<1>1. PICK S : s \in Seq(S)
  BY DEF IsSeq
<1> DEFINE T == S \cup {e}
<1>2. s \in Seq(T) /\ e \in T
  BY <1>1
<1> HIDE DEF T
<1>3. [s EXCEPT ![i] = e] \in Seq(T)
  BY <1>2
<1>4. DOMAIN [s EXCEPT ![i] = e] = DOMAIN s
  OBVIOUS
<1>5. \A j \in DOMAIN s : [s EXCEPT ![i] = e][j] = IF j = i THEN e ELSE s[j]
  OBVIOUS
<1> QED
  BY <1>3, <1>4, <1>5 DEF IsSeq

CallsOK == IsSeq(requests) /\ \A i \in DOMAIN requests : CallOK(requests[i], setup)

TargetInv ==
    /\ setup \in Setups /\ Origin <= now /\ Origin <= resetAt
    /\ CallsOK /\ SessionsOK

LEMMA InitTargetInv == Init => TargetInv
<1> SUFFICES ASSUME Init PROVE TargetInv
  OBVIOUS
<1>1. setup \in Setups /\ Origin <= now /\ Origin <= resetAt
  BY TargetAssumption DEF Init
<1>2. CallsOK
  <2>1. requests \in Seq({}) /\ DOMAIN requests = {}
    BY DEF Init
  <2> QED
    BY <2>1 DEF CallsOK, IsSeq
<1>3. SessionsOK
  BY <1>1, SetupsAssumption DEF Init, SessionsOK
<1> QED
  BY <1>1, <1>2, <1>3 DEF TargetInv

\* A step that replaces one request by a sound one
LEMMA ReplaceKeeps ==
  ASSUME CallsOK, setup' = setup, NEW i \in DOMAIN requests, NEW e, CallOK(e, setup),
         requests' = [requests EXCEPT ![i] = e]
  PROVE  CallsOK'
<1>1. IsSeq(requests)
  BY DEF CallsOK
<1>2. /\ IsSeq(requests') /\ DOMAIN requests' = DOMAIN requests
      /\ \A j \in DOMAIN requests : requests'[j] = IF j = i THEN e ELSE requests[j]
  BY <1>1, ReplaceFacts
<1>3. \A j \in DOMAIN requests : CallOK(requests[j], setup)
  BY DEF CallsOK
<1>4. ASSUME NEW j \in DOMAIN requests' PROVE CallOK(requests'[j], setup)
  BY <1>2, <1>3
<1> QED
  BY <1>2, <1>4 DEF CallsOK

LEMMA SessionsUnchanged ==
  ASSUME SessionsOK, setup' = setup, jars' = jars, sessions' = sessions
  PROVE  SessionsOK'
BY DEF SessionsOK, UserIds

\* The jar and the history take the same cookies.
LEMMA ReceiveSessions ==
  ASSUME SessionsOK, setup' = setup, NEW u \in UserIds, NEW a,
         jars' = [j \in UserIds |-> IF j = JarOf(u) THEN Kept(jars[j], a) ELSE jars[j]],
         sessions' = [sessions EXCEPT ![u] = IF setup.jars THEN Kept(@, a) ELSE {}]
  PROVE  SessionsOK' /\ (setup.jars => jars'[u] = sessions'[u]) /\ (~setup.jars => sessions'[u] = {})
<1>1. setup.users \in Nat /\ setup.jars \in BOOLEAN /\ sessions = [v \in UserIds |-> sessions[v]]
  BY DEF SessionsOK
<1>2. DOMAIN sessions = UserIds
  BY <1>1
<1>3. \A v \in UserIds : /\ setup.jars => jars[v] = sessions[v]
                         /\ ~setup.jars => sessions[v] = {}
  BY DEF SessionsOK
<1>4. \A v \in UserIds : sessions'[v] = IF v = u THEN IF setup.jars THEN Kept(sessions[v], a) ELSE {} ELSE sessions[v]
  BY <1>2
<1>5. \A v \in UserIds : jars'[v] = IF v = JarOf(u) THEN Kept(jars[v], a) ELSE jars[v]
  OBVIOUS
<1>6. \A v \in UserIds : /\ setup.jars => jars'[v] = sessions'[v]
                         /\ ~setup.jars => sessions'[v] = {}
  <2>1. (setup.jars => JarOf(u) = u)
    BY <1>1, JarFacts
  <2> QED
    BY <1>3, <1>4, <1>5, <2>1
<1>7. jars' = [v \in UserIds |-> jars'[v]] /\ sessions' = [v \in UserIds |-> sessions'[v]]
  <2>1. DOMAIN jars' = UserIds /\ DOMAIN sessions' = UserIds
    BY <1>2
  <2>2. jars' = [v \in DOMAIN jars' |-> jars'[v]]
    OBVIOUS
  <2>3. sessions' = [v \in DOMAIN sessions' |-> sessions'[v]]
    OBVIOUS
  <2> QED
    BY <2>1, <2>2, <2>3, Zenon
<1>8. UserIds' = UserIds
  BY DEF UserIds
<1>9. SessionsOK'
  BY <1>1, <1>6, <1>7, <1>8, Zenon DEF SessionsOK
<1> QED
  BY <1>6, <1>9

LEMMA ReceiveKeeps ==
  ASSUME TargetInv, NEW i \in DOMAIN requests, Receive(i)
  PROVE  TargetInv'
<1> DEFINE r == requests[i]
           u == r.user
           path == IF r.hops > 1 THEN "redirect" ELSE "plain"
           n == NewRequest(u, path)
           hops == r.hops - 1
           cookies == IF JarOf(u) = NoJar THEN {} ELSE jars'[JarOf(u)]
           q == [n EXCEPT !.hops = hops, !.cookies = cookies, !.own = sessions'[u]]
<1>1. /\ jars' = [j \in UserIds |-> IF j = JarOf(u) THEN Kept(jars[j], r.answer) ELSE jars[j]]
      /\ sessions' = [sessions EXCEPT ![u] = IF setup.jars THEN Kept(@, r.answer) ELSE {}]
      /\ requests' = [requests EXCEPT ![i] = IF r.answer.status = 302 THEN q ELSE Over(r)]
      /\ setup' = setup /\ now' = now /\ resetAt' = resetAt
  BY DEF Receive, limiterVars
<1>2. SessionsOK /\ CallsOK /\ CallOK(r, setup) /\ setup.users \in Nat /\ setup.jars \in BOOLEAN
  BY DEF TargetInv, CallsOK, SessionsOK
<1>3. u \in UserIds
  BY <1>2 DEF CallOK, UserIds
<1> HIDE DEF u, r
<1>4. SessionsOK' /\ (setup.jars => jars'[u] = sessions'[u]) /\ (~setup.jars => sessions'[u] = {})
  BY <1>1, <1>2, <1>3, ReceiveSessions, Zenon
<1>5. cookies = sessions'[u]
  BY <1>2, <1>3, <1>4, JarFacts
<1>6. CallOK(q, setup)
  <2>1. /\ DOMAIN n = CallFields /\ n.user = u /\ n.credential = AuthenticateRequest(setup.auth, u)
        /\ n.answer = NoAnswer /\ n.verdict = NoVerdict /\ n.phase = "sent"
    <3> HIDE DEF path
    <3> QED
      BY <1>3, NewRequestFacts
  <2> HIDE DEF n, hops, cookies
  <2>2. /\ DOMAIN q = CallFields /\ q.user = n.user /\ q.credential = n.credential
        /\ q.answer = n.answer /\ q.verdict = n.verdict /\ q.phase = n.phase
        /\ q.cookies = cookies /\ q.own = sessions'[u]
    BY <2>1 DEF CallFields
  <2>3. u \in 0..(setup.users - 1)
    BY <1>3 DEF UserIds
  <2> HIDE DEF q
  <2> QED
    BY <1>5, <2>1, <2>2, <2>3, FreshOK, Zenon
<1>7. CallOK(Over(r), setup)
  BY <1>2, OverKeeps
<1> DEFINE e == IF r.answer.status = 302 THEN q ELSE Over(r)
<1>8. CallOK(e, setup)
  <2> HIDE DEF q
  <2> QED
    BY <1>6, <1>7, Zenon
<1>9. CallsOK'
  <2>1. requests' = [requests EXCEPT ![i] = e]
    BY <1>1
  <2> HIDE DEF e
  <2> QED
    BY <1>1, <1>2, <1>8, <2>1, ReplaceKeeps, Zenon
<1> QED
  BY <1>1, <1>4, <1>9 DEF TargetInv

LEMMA CheckKeeps ==
  ASSUME LimiterInv, TargetInv, NEW i \in DOMAIN requests, Check(i)
  PROVE  TargetInv'
<1> DEFINE used == IF Expired THEN 0 ELSE count
           reset == IF Expired THEN now + Window ELSE resetAt
           allowed == HasRoom(used)
           after == IF allowed THEN used + 1 ELSE used
           e == Judged(requests[i], allowed, after, reset)
<1>1. /\ requests[i].phase = "recorded" /\ resetAt' = reset /\ now' = now
      /\ requests' = [requests EXCEPT ![i] = e]
      /\ setup' = setup /\ jars' = jars /\ sessions' = sessions
  BY DEF Check
<1>2. /\ now \in Nat /\ resetAt \in Nat /\ count \in 0..Limit /\ Window \in Nat \ {0} /\ Limit \in Nat \ {0}
      /\ Origin \in Nat /\ Origin <= now /\ Origin <= resetAt /\ resetAt <= now + Window
  BY TargetAssumption DEF LimiterInv, LimiterTypeOK, TargetInv
<1>3. CallsOK /\ CallOK(requests[i], setup) /\ setup.style \in Styles
  BY <1>1 DEF TargetInv, CallsOK, CallOK
<1>4. /\ reset \in Nat /\ now < reset /\ reset <= now + Window /\ Origin <= reset
      /\ allowed \in BOOLEAN /\ after \in 0..Limit /\ (~allowed => after = Limit)
  BY <1>2 DEF Expired, HasRoom
<1> HIDE DEF used, reset, allowed, after
<1>5. CallOK(e, setup)
  BY <1>2, <1>3, <1>4, JudgedKeeps, Zenon
<1> HIDE DEF e
<1>6. CallsOK'
  BY <1>1, <1>3, <1>5, ReplaceKeeps, Zenon
<1>7. SessionsOK'
  BY <1>1, SessionsUnchanged DEF TargetInv
<1> QED
  BY <1>1, <1>2, <1>4, <1>6, <1>7 DEF TargetInv

LEMMA NextTargetInv == LimiterInv /\ TargetInv /\ [Next]_vars => TargetInv'
<1> SUFFICES ASSUME LimiterInv, TargetInv, [Next]_vars PROVE TargetInv'
  OBVIOUS
<1>0. /\ CallsOK /\ SessionsOK /\ IsSeq(requests) /\ setup \in Setups /\ Origin <= now /\ Origin <= resetAt
      /\ \A i \in DOMAIN requests : CallOK(requests[i], setup)
  BY DEF TargetInv, CallsOK
<1>1. ASSUME NEW u \in UserIds, ExecuteRequest(u) PROVE TargetInv'
  <2>1. PICK path \in setup.menu : requests' = Append(requests, NewRequest(u, path))
    BY <1>1 DEF ExecuteRequest
  <2>2. setup' = setup /\ jars' = jars /\ sessions' = sessions /\ now' = now /\ resetAt' = resetAt
    BY <1>1 DEF ExecuteRequest, limiterVars
  <2> DEFINE q == NewRequest(u, path)
  <2>3. /\ DOMAIN q = CallFields /\ q.user = u /\ q.credential = AuthenticateRequest(setup.auth, u)
        /\ q.answer = NoAnswer /\ q.verdict = NoVerdict /\ q.phase = "sent"
        /\ q.cookies = CookiesOf(u) /\ q.own = sessions[u]
    BY NewRequestFacts
  <2>4. u \in 0..(setup.users - 1)
    BY DEF UserIds
  <2> HIDE DEF q
  <2>5. CallOK(q, setup)
    BY <1>0, <2>3, <2>4, OwnCookies, FreshOK, Zenon
  <2>6. /\ IsSeq(requests')
        /\ \A i \in DOMAIN requests' : requests'[i] = q \/ (i \in DOMAIN requests /\ requests'[i] = requests[i])
    BY <1>0, <2>1, AppendFacts, Zenon DEF q
  <2>7. CallsOK'
    <3>1. \A i \in DOMAIN requests' : CallOK(requests'[i], setup)
      BY <1>0, <2>5, <2>6, Zenon
    <3> QED
      BY <2>2, <2>6, <3>1 DEF CallsOK
  <2>8. SessionsOK'
    BY <1>0, <2>2, SessionsUnchanged
  <2> QED
    BY <1>0, <2>2, <2>7, <2>8 DEF TargetInv
<1>2. ASSUME NEW i \in DOMAIN requests, NEW e, CallOK(e, setup), requests' = [requests EXCEPT ![i] = e],
             setup' = setup, jars' = jars, sessions' = sessions, now' = now, resetAt' = resetAt
      PROVE  TargetInv'
  <2>1. CallsOK'
    BY <1>0, <1>2, ReplaceKeeps, Zenon
  <2>2. SessionsOK'
    BY <1>0, <1>2, SessionsUnchanged
  <2> QED
    BY <1>0, <1>2, <2>1, <2>2 DEF TargetInv
<1>3. ASSUME NEW i \in DOMAIN requests, GiveUp(i) PROVE TargetInv'
  <2> DEFINE e == [requests[i] EXCEPT !.gone = TRUE]
  <2>1. CallOK(e, setup)
    BY <1>0, GoneKeeps
  <2>2. requests' = [requests EXCEPT ![i] = e]
    BY <1>3 DEF GiveUp
  <2>3. setup' = setup /\ jars' = jars /\ sessions' = sessions /\ now' = now /\ resetAt' = resetAt
    BY <1>3 DEF GiveUp, limiterVars
  <2> HIDE DEF e
  <2> QED
    BY <1>2, <2>1, <2>2, <2>3
<1>4. ASSUME NEW i \in DOMAIN requests, Record(i) PROVE TargetInv'
  <2> DEFINE p == IF setup.style = "off" THEN "admitted" ELSE "recorded"
             e == [requests[i] EXCEPT !.phase = p]
  <2>1. p = "recorded" => setup.style \in Styles
    BY <1>0, SetupsAssumption
  <2>2. requests' = [requests EXCEPT ![i] = e]
    BY <1>4 DEF Record
  <2>3. CallOK(e, setup)
    <3> HIDE DEF p
    <3> QED
      BY <1>0, <2>1, PhaseKeeps
  <2>4. setup' = setup /\ jars' = jars /\ sessions' = sessions /\ now' = now /\ resetAt' = resetAt
    BY <1>4 DEF Record, limiterVars
  <2> HIDE DEF e
  <2> QED
    BY <1>2, <2>2, <2>3, <2>4
<1>5. ASSUME NEW i \in DOMAIN requests, Handle(i) PROVE TargetInv'
  <2> DEFINE r == requests[i]
             hanging == "hanging"
             sleeping == "sleeping"
             wake == now + Delay
             h == [r EXCEPT !.phase = hanging]
             w == [[r EXCEPT !.phase = sleeping] EXCEPT !.wake = wake]
             e == CASE r.path = "hang"  -> h
                    [] r.path = "drop"  -> Over(r)
                    [] r.path = "delay" -> w
                    [] OTHER -> Answered(r)
  <2>1. CallOK(r, setup) /\ hanging # "recorded" /\ sleeping # "recorded"
    BY <1>0
  <2>2. requests' = [requests EXCEPT ![i] = e]
    <3>1. w = [r EXCEPT !.phase = "sleeping", !.wake = now + Delay]
      OBVIOUS
    <3>2. requests' = [requests EXCEPT ![i] =
               CASE r.path = "hang"  -> [r EXCEPT !.phase = "hanging"]
                 [] r.path = "drop"  -> Over(r)
                 [] r.path = "delay" -> [r EXCEPT !.phase = "sleeping", !.wake = now + Delay]
                 [] OTHER -> Answered(r)]
      BY <1>5 DEF Handle
    <3> QED
      BY <3>1, <3>2, Zenon
  <2>3. setup' = setup /\ jars' = jars /\ sessions' = sessions /\ now' = now /\ resetAt' = resetAt
    BY <1>5 DEF Handle, limiterVars
  <2> HIDE DEF r, hanging, sleeping, wake
  <2>4. CallOK(h, setup) /\ CallOK([r EXCEPT !.phase = sleeping], setup)
    BY <2>1, PhaseKeeps, Zenon
  <2>5. CallOK(w, setup)
    BY <2>4, WakeKeeps, Zenon
  <2>6. CallOK(Over(r), setup) /\ CallOK(Answered(r), setup)
    BY <2>1, OverKeeps, AnsweredKeeps, Zenon
  <2> HIDE DEF h, w
  <2>7. CallOK(e, setup)
    BY <2>4, <2>5, <2>6
  <2> HIDE DEF e
  <2> QED
    BY <1>2, <2>2, <2>3, <2>7
<1>6. ASSUME NEW i \in DOMAIN requests, HangEnds(i) \/ Discard(i) PROVE TargetInv'
  <2> DEFINE e == Over(requests[i])
  <2>1. CallOK(e, setup)
    BY <1>0, OverKeeps
  <2>2. requests' = [requests EXCEPT ![i] = e]
    BY <1>6 DEF HangEnds, Discard
  <2>3. setup' = setup /\ jars' = jars /\ sessions' = sessions /\ now' = now /\ resetAt' = resetAt
    BY <1>6 DEF HangEnds, Discard, limiterVars
  <2> HIDE DEF e
  <2> QED
    BY <1>2, <2>1, <2>2, <2>3
<1>7. ASSUME NEW i \in DOMAIN requests, Wake(i) PROVE TargetInv'
  <2> DEFINE e == Answered(requests[i])
  <2>1. CallOK(e, setup)
    BY <1>0, AnsweredKeeps
  <2>2. requests' = [requests EXCEPT ![i] = e]
    BY <1>7 DEF Wake
  <2>3. setup' = setup /\ jars' = jars /\ sessions' = sessions /\ now' = now /\ resetAt' = resetAt
    BY <1>7 DEF Wake, limiterVars
  <2> HIDE DEF e
  <2> QED
    BY <1>2, <2>1, <2>2, <2>3
<1>8. CASE Tick \/ UNCHANGED vars
  <2>1. setup' = setup /\ jars' = jars /\ sessions' = sessions /\ requests' = requests /\ resetAt' = resetAt
    BY <1>8 DEF Tick, vars, limiterVars
  <2>2. Origin <= now'
    BY <1>0, <1>8, TargetAssumption DEF Tick, vars, limiterVars, LimiterInv, LimiterTypeOK
  <2>3. CallsOK' /\ SessionsOK'
    BY <1>0, <2>1, SessionsUnchanged DEF CallsOK
  <2> QED
    BY <1>0, <2>1, <2>2, <2>3 DEF TargetInv
<1> QED
  BY <1>1, <1>3, <1>4, <1>5, <1>6, <1>7, <1>8, ReceiveKeeps, CheckKeeps DEF Next, TargetStep

LEMMA TargetInvariant == Spec => [](LimiterInv /\ TargetInv)
BY InitLimiterInv, NextLimiterInv, InitTargetInv, NextTargetInv, PTL DEF Spec

\* What the executor reads from the headers of an answer is what the limiter
\* decided about this very request, in every style: see HeadersTellTheVerdict
\* (testtarget/ratelimit.go:103, executor/ratelimit.go:37).
THEOREM HeadersAreTruthful == Spec => []HeadersTellTheVerdict
<1>1. ASSUME TargetInv PROVE HeadersTellTheVerdict
  <2> SUFFICES ASSUME NEW i \in DOMAIN requests, Seen(requests[i])
               PROVE  LET r == requests[i]
                          info == ExtractRateLimitInfo(r.headers)
                          Covered(s) == /\ r.verdict.at + s * Second >= r.verdict.reset
                                        /\ r.verdict.at + s * Second < r.verdict.reset + Second
                          Ends(s) == s * Second <= r.verdict.reset /\ r.verdict.reset < (s + 1) * Second
                      IN  /\ info.limit # Nil => info.limit = Limit
                          /\ info.remaining # Nil => info.remaining = Limit - r.verdict.used
                          /\ \A s \in {info.retrySeconds, info.resetSeconds} \ {Nil} : Covered(s)
                          /\ \A s \in {info.retryDate, info.resetDate} \ {Nil} : Ends(s)
                          /\ Refused(r) => /\ r.verdict.used = Limit
                                           /\ {info.retrySeconds, info.retryDate} # {Nil}
    BY DEF HeadersTellTheVerdict
  <2> DEFINE r == requests[i]
             at == r.verdict.at
             reset == r.verdict.reset
             used == r.verdict.used
             h == r.headers
             style == setup.style
             info == ExtractRateLimitInfo(h)
  <2>1. Told(r, setup) /\ r.verdict # NoVerdict
    BY <1>1 DEF TargetInv, CallsOK, CallOK, Seen
  <2>2. /\ style \in Styles /\ at \in Nat /\ reset \in Nat /\ used \in 0..Limit
        /\ at < reset /\ reset <= at + Window /\ Origin <= reset
        /\ h = populateHeaders(style, Limit, Limit - used, ResetSeconds(reset - at), reset)
        /\ Refused(r) => used = Limit
    BY <2>1, Zenon DEF Told
  <2> HIDE DEF r, at, reset, used, h, style
  <2>3. Reads(info, at, reset, used)
    BY <2>2, ReadsVerdict, Zenon
  <2> HIDE DEF info
  <2>4. \A s \in {info.retrySeconds, info.resetSeconds} \ {Nil} : Covers(at, reset, s)
    BY <2>3 DEF Reads
  <2>5. \A s \in {info.retryDate, info.resetDate} \ {Nil} : EndsIn(reset, s)
    BY <2>3 DEF Reads
  <2> QED
    BY <2>2, <2>3, <2>4, <2>5, Zenon DEF Reads, Covers, EndsIn, r, at, reset, used, h, info
<1> QED
  BY <1>1, TargetInvariant, PTL

-----------------------------------------------------------------------------
(* Tokens                                                                   *)

\* Two users take the same place in a pool of n exactly if they are a multiple
\* of n apart.
LEMMA SamePlace ==
  ASSUME NEW m \in Nat, NEW x \in 0..(m - 1), NEW y \in 0..(m - 1), NEW n \in Nat \ {0}
  PROVE  x % n = y % n <=> \E k \in -m..m : x - y = k * n
<1> DEFINE p == x \div n
           q == y \div n
           i == n * p
           j == n * q
           a == x % n
           b == y % n
<1>0. x \in Nat /\ y \in Nat
  OBVIOUS
<1>1. p \in Nat /\ a \in 0..(n - 1) /\ x = i + a
  BY <1>0, Division
<1>2. q \in Nat /\ b \in 0..(n - 1) /\ y = j + b
  BY <1>0, Division
<1>3. i \in Nat /\ j \in Nat /\ (p - q) * n = i - j
  BY <1>1, <1>2
<1>4. p <= m /\ q <= m
  <2>1. p <= i /\ q <= j
    BY <1>1, <1>2
  <2> HIDE DEF p, q, i, j, a, b
  <2> QED
    BY <1>1, <1>2, <1>3, <2>1
<1>5. ASSUME a = b PROVE \E k \in -m..m : x - y = k * n
  <2> DEFINE k == p - q
  <2>1. k \in -m..m
    <3> HIDE DEF p, q
    <3> QED
      BY <1>1, <1>2, <1>4
  <2>2. x - y = k * n
    <3>1. k * n = i - j
      BY <1>3
    <3> HIDE DEF k, p, q, i, j, a, b
    <3> QED
      BY <1>1, <1>2, <1>3, <1>5, <3>1
  <2> QED
    BY <2>1, <2>2
<1>6. ASSUME NEW k \in -m..m, x - y = k * n PROVE a = b
  <2> DEFINE l == q + k
             z == n * l
  <2>1. l \in Int /\ z \in Int /\ z = j + k * n /\ k * n \in Int
    BY <1>2
  <2>2. i + a = z + b
    <3> DEFINE kn == k * n
    <3>1. x - y = kn /\ kn \in Int /\ z = j + kn
      BY <1>6, <2>1
    <3> HIDE DEF kn, z, i, j, a, b
    <3> QED
      BY <1>1, <1>2, <1>3, <2>1, <3>1
  <2>3. ~(p < l)
    <3> SUFFICES ASSUME p < l PROVE FALSE
      OBVIOUS
    <3>1. i + n <= z
      BY <1>1, <2>1, ProductMonotonic
    <3> HIDE DEF p, l, z, i, j, a, b
    <3> QED
      BY <1>1, <1>2, <1>3, <2>1, <2>2, <3>1
  <2>4. ~(l < p)
    <3> SUFFICES ASSUME l < p PROVE FALSE
      OBVIOUS
    <3>1. z + n <= i
      BY <1>1, <2>1, ProductMonotonic
    <3> HIDE DEF p, l, z, i, j, a, b
    <3> QED
      BY <1>1, <1>2, <1>3, <2>1, <2>2, <3>1
  <2>5. p = l
    <3> HIDE DEF p, l
    <3> QED
      BY <1>1, <2>1, <2>3, <2>4
  <2>6. i = z
    BY <2>5
  <2> HIDE DEF z, i, j, a, b
  <2> QED
    BY <1>1, <1>2, <1>3, <2>1, <2>2, <2>6
<1> QED
  BY <1>5, <1>6

\* The identity of a user of a pool is the pool's token in its place.
LEMMA PoolIdentity ==
  ASSUME NEW auth, auth.type = "token_pool", NEW u \in Nat, NEW v \in Nat, Len(auth.tokens) \in Nat \ {0},
         AuthenticateRequest(auth, u) # NoCredential, AuthenticateRequest(auth, v) # NoCredential
  PROVE  AuthenticateRequest(auth, u) = AuthenticateRequest(auth, v) <=>
             auth.tokens[(u % Len(auth.tokens)) + 1] = auth.tokens[(v % Len(auth.tokens)) + 1]
<1> DEFINE t(w) == auth.tokens[(w % Len(auth.tokens)) + 1]
           bearer(x) == [header |-> "Authorization", scheme |-> "Bearer", token |-> x]
           bare(x) == [header |-> HeaderName(auth), scheme |-> "", token |-> x]
           mine(x) == IF HeaderName(auth) = "Authorization" THEN bearer(x) ELSE bare(x)
<1>1. \A w \in Nat : GetToken(auth, w) = t(w)
  <2>1. \A w \in Nat : TokenPoolProvider_GetToken(auth.tokens, w) = t(w)
    BY DEF TokenPoolProvider_GetToken
  <2> HIDE DEF t
  <2> QED
    BY <2>1 DEF GetToken
<1> HIDE DEF t
<1>2. ASSUME NEW w \in Nat PROVE AuthenticateRequest(auth, w) = IF t(w) = "" THEN NoCredential ELSE mine(t(w))
  <2>1. GetToken(auth, w) = t(w)
    BY <1>1
  <2>2. CASE t(w) = ""
    BY <2>1, <2>2 DEF AuthenticateRequest
  <2>3. CASE t(w) # ""
    BY <2>1, <2>3 DEF AuthenticateRequest
  <2> QED
    BY <2>2, <2>3
<1>3. \A x, y : mine(x) = mine(y) => x = y
  <2>1. \A x : mine(x).token = x
    OBVIOUS
  <2> HIDE DEF mine
  <2> QED
    BY <2>1
<1> HIDE DEF mine
<1>4. AuthenticateRequest(auth, u) = mine(t(u)) /\ AuthenticateRequest(auth, v) = mine(t(v))
  BY <1>2
<1>5. AuthenticateRequest(auth, u) = AuthenticateRequest(auth, v) <=> t(u) = t(v)
  BY <1>3, <1>4, Zenon
<1> QED
  BY <1>5 DEF t

\* No virtual user speaks with the session or the token of another: see
\* IdentityIsOwn (jar.go:53, provider.go:57).
THEOREM IdentitiesAreOwn == Spec => []IdentityIsOwn
<1>1. ASSUME TargetInv PROVE IdentityIsOwn
  <2>0. /\ setup \in Setups /\ setup.users \in Nat
        /\ \A i \in DOMAIN requests : CallOK(requests[i], setup)
    BY <1>1 DEF TargetInv, CallsOK, SessionsOK
  <2>1. \A i \in DOMAIN requests : requests[i].cookies = requests[i].own
    BY <2>0 DEF CallOK
  <2>2. ASSUME NEW i \in DOMAIN requests, NEW j \in DOMAIN requests,
               requests[i].answer.identity # NoCredential, requests[j].answer.identity # NoCredential,
               setup.auth.type = "token_pool"
        PROVE  LET apart == \E k \in -setup.users..setup.users :
                                requests[i].user - requests[j].user = k * Len(setup.auth.tokens)
                   a == requests[i].answer.identity
                   b == requests[j].answer.identity
               IN  (apart => a = b) /\ (a = b /\ IsInjective(setup.auth.tokens) => apart)
    <3> DEFINE auth == setup.auth
               tokens == auth.tokens
               n == Len(tokens)
               m == setup.users
               u == requests[i].user
               v == requests[j].user
               apart == \E k \in -m..m : u - v = k * n
    <3>1. n \in Nat \ {0} /\ m \in Nat
      BY <2>0, <2>2, SetupsAssumption
    <3>2. /\ u \in 0..(m - 1) /\ requests[i].answer.identity = AuthenticateRequest(auth, u)
          /\ v \in 0..(m - 1) /\ requests[j].answer.identity = AuthenticateRequest(auth, v)
      BY <2>0, <2>2, Zenon DEF CallOK, IsAnswer
    <3>3. u \in Nat /\ v \in Nat
      BY <3>1, <3>2
    <3> HIDE DEF u, v, m
    <3>4. u % n = v % n <=> apart
      <4> HIDE DEF n
      <4> QED
        BY <3>1, <3>2, SamePlace
    <3>5. AuthenticateRequest(auth, u) = AuthenticateRequest(auth, v) <=> tokens[(u % n) + 1] = tokens[(v % n) + 1]
      <4> HIDE DEF auth
      <4>1. auth.type = "token_pool"
        BY <2>2 DEF auth
      <4> QED
        BY <2>2, <3>1, <3>2, <3>3, <4>1, PoolIdentity, Zenon
    <3>6. (u % n) + 1 \in 1..n /\ (v % n) + 1 \in 1..n
      <4> HIDE DEF n
      <4> QED
        BY <3>1, <3>3
    <3>7. IsInjective(tokens) /\ tokens[(u % n) + 1] = tokens[(v % n) + 1] => u % n = v % n
      <4>1. DOMAIN tokens = 1..n
        <5>1. tokens \in Seq(STRING)
          BY <2>0, <2>2, SetupsAssumption
        <5> QED
          BY <5>1
      <4> DEFINE x == u % n
                 y == v % n
      <4>2. x \in Int /\ y \in Int /\ x + 1 \in 1..n /\ y + 1 \in 1..n
        <5> HIDE DEF n
        <5> QED
          BY <3>1, <3>3, <3>6
      <4> HIDE DEF x, y, n, tokens
      <4>3. IsInjective(tokens) /\ tokens[x + 1] = tokens[y + 1] => x + 1 = y + 1
        BY <4>1, <4>2 DEF IsInjective
      <4> QED
        BY <4>2, <4>3 DEF x, y
    <3> HIDE DEF apart
    <3>8. (apart => AuthenticateRequest(auth, u) = AuthenticateRequest(auth, v))
          /\ (AuthenticateRequest(auth, u) = AuthenticateRequest(auth, v) /\ IsInjective(tokens) => apart)
      BY <3>4, <3>5, <3>7, Zenon
    <3> QED
      BY <3>2, <3>8, Zenon DEF apart, u, v, m
  <2> QED
    BY <2>1, <2>2, Zenon DEF IdentityIsOwn
<1> QED
  BY <1>1, TargetInvariant, PTL
=============================================================================
