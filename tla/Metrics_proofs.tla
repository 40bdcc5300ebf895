---------------------------- MODULE Metrics_proofs ----------------------------
(***************************************************************************)
(* What the aggregates of a run say, for every number of workers and       *)
(* segments and every result.  Recording and merging are followed with one *)
(* relation, Represents: the metrics m are those of the results that       *)
(* `counts` counts.  Each result that is recorded and each merge keeps it. *)
(***************************************************************************)
EXTENDS Metrics, Sums_proofs, SequenceTheorems, TLAPS

-----------------------------------------------------------------------------
(* Types                                                                    *)

Keys == {ErrorKey(r) : r \in Results}
HeaderValues == {r.header : r \in Results}
Samples == [key : Keys, count : Nat]
Headers == [observed : Nat, parseErrors : Nat, agree : BOOLEAN, samples : Seq(HeaderValues)]
Recordings ==
    [outcomes : [Outcomes -> Nat], codes : [Statuses -> Nat], all : Nat, success : Nat, throttled : Nat,
     errors : Seq(Samples), headers : Headers]
Counts == [Results -> Nat]

LEMMA NewIsTyped == NewWorkerMetrics \in Recordings
BY DEF NewWorkerMetrics, NoHeaders, Recordings, Headers

LEMMA AddDistinctFacts ==
  ASSUME NEW samples \in Seq(HeaderValues), NEW v \in HeaderValues
  PROVE  /\ AddDistinct(samples, v) \in Seq(HeaderValues)
         /\ Range(AddDistinct(samples, v)) \subseteq Range(samples) \cup {v}
         /\ AddDistinct(samples, v) # <<>>
         /\ AddDistinct(samples, v)[1] = IF samples = <<>> THEN v ELSE samples[1]
<1>1. MaxSamples \in Nat /\ MaxSamples > 0
  BY MetricsAssumption
<1>2. CASE v \in Range(samples) \/ Len(samples) >= MaxSamples
  <2>1. AddDistinct(samples, v) = samples
    BY <1>2 DEF AddDistinct
  <2>2. samples # <<>>
    BY <1>1, <1>2 DEF Range
  <2> QED
    BY <2>1, <2>2
<1>3. CASE ~(v \in Range(samples) \/ Len(samples) >= MaxSamples)
  <2>1. AddDistinct(samples, v) = Append(samples, v)
    BY <1>3 DEF AddDistinct
  <2>2. /\ Append(samples, v) \in Seq(HeaderValues) /\ Len(Append(samples, v)) = Len(samples) + 1
        /\ \A i \in 1..(Len(samples) + 1) :
              Append(samples, v)[i] = IF i = Len(samples) + 1 THEN v ELSE samples[i]
    OBVIOUS
  <2> DEFINE a == Append(samples, v)
  <2> HIDE DEF a
  <2>3. DOMAIN a = 1..(Len(samples) + 1) /\ DOMAIN samples = 1..Len(samples) /\ Len(samples) \in Nat
    BY <2>2 DEF a
  <2>4. Range(a) \subseteq Range(samples) \cup {v}
    BY <2>2, <2>3 DEF a, Range
  <2>5. a # <<>>
    BY <2>2 DEF a
  <2>6. a[1] = IF samples = <<>> THEN v ELSE samples[1]
    <3>1. CASE samples = <<>>
      BY <2>2, <3>1 DEF a
    <3>2. CASE samples # <<>>
      <4>1. Len(samples) # 0
        BY <3>2
      <4> QED
        BY <2>2, <2>3, <4>1, <3>2 DEF a
    <3> QED BY <3>1, <3>2
  <2> QED
    BY <2>1, <2>2, <2>4, <2>5, <2>6 DEF a
<1> QED
  BY <1>2, <1>3

LEMMA recordHeaderTyped ==
  ASSUME NEW h \in Headers, NEW v \in HeaderValues
  PROVE  recordHeader(h, v) \in Headers
<1>1. AddDistinct(h.samples, v) \in Seq(HeaderValues)
  BY AddDistinctFacts DEF Headers
<1>2. h \in [observed : Nat, parseErrors : Nat, agree : BOOLEAN, samples : Seq(HeaderValues)]
  BY DEF Headers
<1>3. CASE v = Absent
  BY <1>3 DEF recordHeader
<1> DEFINE o == h.observed + 1
           e == h.parseErrors + 1
           s == AddDistinct(h.samples, v)
<1>4. CASE v # Absent /\ v = Invalid
  <2>1. recordHeader(h, v) = [h EXCEPT !.observed = o, !.parseErrors = e]
    BY <1>4 DEF recordHeader
  <2>2. o \in Nat /\ e \in Nat
    BY <1>2
  <2> HIDE DEF o, e
  <2> QED
    BY <1>2, <2>1, <2>2 DEF Headers
<1>5. CASE v # Absent /\ v # Invalid
  <2> DEFINE b == (h.observed = 0 \/ h.agree) /\ (h.samples = <<>> \/ h.samples[1] = v)
  <2>1. recordHeader(h, v) = [h EXCEPT !.observed = o, !.agree = b, !.samples = s]
    BY <1>5 DEF recordHeader
  <2>2. b \in BOOLEAN /\ o \in Nat /\ s \in Seq(HeaderValues)
    BY <1>1, <1>2
  <2> HIDE DEF b, o, s
  <2> QED
    BY <1>2, <2>1, <2>2 DEF Headers
<1> QED
  BY <1>3, <1>4, <1>5

LEMMA MergeSampleFacts ==
  ASSUME NEW h \in Headers, NEW v \in HeaderValues, NEW k, k = MergeSample(h, v)
  PROVE  /\ k \in Headers
         /\ k.observed = h.observed /\ k.parseErrors = h.parseErrors
         /\ k.samples = AddDistinct(h.samples, v)
         /\ k.agree <=> h.agree /\ (h.samples = <<>> \/ h.samples[1] = v)
<1>1. AddDistinct(h.samples, v) \in Seq(HeaderValues)
  BY AddDistinctFacts DEF Headers
<1> DEFINE b == h.agree /\ (h.samples = <<>> \/ h.samples[1] = v)
           s == AddDistinct(h.samples, v)
<1>2. h \in [observed : Nat, parseErrors : Nat, agree : BOOLEAN, samples : Seq(HeaderValues)]
  BY DEF Headers
<1>3. k = [h EXCEPT !.agree = b, !.samples = s]
  BY DEF MergeSample
<1>4. b \in BOOLEAN
  OBVIOUS
<1> HIDE DEF b, s
<1>5. /\ k \in [observed : Nat, parseErrors : Nat, agree : BOOLEAN, samples : Seq(HeaderValues)]
      /\ k.observed = h.observed /\ k.parseErrors = h.parseErrors /\ k.samples = s /\ k.agree = b
  BY <1>1, <1>2, <1>3, <1>4 DEF s
<1> QED
  BY <1>5 DEF b, s, Headers

-----------------------------------------------------------------------------
(* The consistency of a header                                              *)

\* h is about a header of which the values V were parsed.  That the list of
\* samples is not empty is what makes comparing with its first entry enough.
Tells(h, V) ==
    /\ h.agree <=> \A a, b \in V : a = b
    /\ Range(h.samples) \subseteq V /\ (V # {} => h.samples # <<>>)
    /\ h.observed = 0 => V = {}

LEMMA FirstInRange ==
  ASSUME NEW s \in Seq(HeaderValues), s # <<>>
  PROVE  s[1] \in Range(s)
<1>1. DOMAIN s = 1..Len(s) /\ Len(s) \in Nat /\ Len(s) # 0
  OBVIOUS
<1>2. 1 \in DOMAIN s
  BY <1>1
<1> QED BY <1>2 DEF Range

LEMMA recordHeaderTells ==
  ASSUME NEW h \in Headers, NEW v \in HeaderValues, NEW V, Tells(h, V), NEW k, k = recordHeader(h, v)
  PROVE  /\ Tells(k, V \cup ({v} \ {Absent, Invalid}))
         /\ k.observed = h.observed + (IF v # Absent THEN 1 ELSE 0)
         /\ k.parseErrors = h.parseErrors + (IF v = Invalid THEN 1 ELSE 0)
<1> DEFINE W == V \cup ({v} \ {Absent, Invalid})
           o == h.observed + 1
           e == h.parseErrors + 1
           s == AddDistinct(h.samples, v)
<1>0. Absent # Invalid
  BY DEF Absent, Invalid
<1>1. h \in [observed : Nat, parseErrors : Nat, agree : BOOLEAN, samples : Seq(HeaderValues)]
  BY DEF Headers
<1>3. CASE v = Absent
  <2>1. k = h /\ W = V
    BY <1>3 DEF recordHeader
  <2>2. Tells(k, W)
    BY <2>1
  <2>3. k.observed = h.observed + 0 /\ k.parseErrors = h.parseErrors + 0
    BY <1>1, <2>1
  <2> HIDE DEF W
  <2> QED BY <1>0, <1>3, <2>2, <2>3 DEF W
<1>4. CASE v = Invalid
  <2>1. k = [h EXCEPT !.observed = o, !.parseErrors = e]
    BY <1>0, <1>4 DEF recordHeader
  <2>2. o \in Nat /\ e \in Nat /\ o # 0 /\ W = V
    BY <1>1, <1>4
  <2>3. k.observed = o /\ k.parseErrors = e /\ k.agree = h.agree /\ k.samples = h.samples
    <3> HIDE DEF o, e
    <3> QED BY <1>1, <2>1, <2>2
  <2>4. Tells(k, W)
    BY <2>2, <2>3 DEF Tells
  <2> QED BY <1>0, <1>4, <2>3, <2>4
<1>5. CASE v # Absent /\ v # Invalid
  <2> DEFINE b == (h.observed = 0 \/ h.agree) /\ (h.samples = <<>> \/ h.samples[1] = v)
  <2>1. k = [h EXCEPT !.observed = o, !.agree = b, !.samples = s]
    BY <1>5 DEF recordHeader
  <2>2. b \in BOOLEAN /\ o \in Nat /\ o # 0 /\ W = V \cup {v} /\ h.samples \in Seq(HeaderValues)
    BY <1>1, <1>5
  <2>3. /\ Range(s) \subseteq Range(h.samples) \cup {v} /\ s # <<>> /\ s \in Seq(HeaderValues)
        /\ s[1] = IF h.samples = <<>> THEN v ELSE h.samples[1]
    BY <2>2, AddDistinctFacts
  <2>4. k.observed = o /\ k.parseErrors = h.parseErrors /\ k.agree = b /\ k.samples = s
    <3> HIDE DEF o, s, b
    <3> QED BY <1>1, <2>1, <2>2, <2>3
  <2>5. b <=> \A x, y \in V \cup {v} : x = y
    <3>1. h.observed = 0 \/ h.agree <=> \A x, y \in V : x = y
      BY DEF Tells
    <3>2. h.samples = <<>> => V = {}
      BY DEF Tells
    <3>3. h.samples # <<>> => h.samples[1] \in V
      BY <2>2, FirstInRange DEF Tells
    <3> QED BY <3>1, <3>2, <3>3
  <2>6. Tells(k, V \cup {v})
    <3> HIDE DEF o, s, b
    <3>1. Range(s) \subseteq V \cup {v}
      BY <2>3 DEF Tells
    <3>2. k.agree <=> \A x, y \in V \cup {v} : x = y
      BY <2>4, <2>5, Zenon
    <3>3. k.samples # <<>> /\ Range(k.samples) \subseteq V \cup {v} /\ k.observed # 0
      BY <2>2, <2>3, <2>4, <3>1
    <3>4. /\ Range(k.samples) \subseteq V \cup {v} /\ (V \cup {v} # {} => k.samples # <<>>)
          /\ k.observed = 0 => V \cup {v} = {}
      BY <3>3
    <3> QED BY <3>2, <3>4 DEF Tells
  <2>7. k.parseErrors = h.parseErrors + 0
    BY <1>1, <2>4
  <2>8. Tells(k, W)
    BY <2>2, <2>6
  <2> HIDE DEF W
  <2> QED BY <1>5, <2>4, <2>7, <2>8 DEF W
<1> QED
  BY <1>3, <1>4, <1>5

\* The loop over samples, step by step
LEMMA MergeSamplesTrace ==
  ASSUME NEW h \in Headers, NEW samples \in Seq(HeaderValues)
  PROVE  \E f \in [0..Len(samples) -> Headers] :
            /\ f[0] = h /\ MergeSamples(h, samples) = f[Len(samples)]
            /\ \A i \in 1..Len(samples) : f[i] = MergeSample(f[i - 1], samples[i])
<1> DEFINE n == Len(samples)
           g == [p \in (1..n) \X Headers |-> MergeSample(p[2], samples[p[1]])]
           Is(f) == f = [i \in 0..n |-> IF i = 0 THEN h ELSE MergeSample(f[i - 1], samples[i])]
           upTo == CHOOSE f : Is(f)
<1>1. n \in Nat /\ \A i \in 1..n : samples[i] \in HeaderValues
  OBVIOUS
<1>2. \A i \in 1..n : \A v \in Headers : g[<<i, v>>] = MergeSample(v, samples[i]) /\ g[<<i, v>>] \in Headers
  BY <1>1, MergeSampleFacts
<1>3. PICK f \in [0..n -> Headers] : IsRecursive(f, n, h, g)
  <2> HIDE DEF g, n
  <2> QED BY <1>1, <1>2, RecursionExists
<1>4. Is(f)
  <2> HIDE DEF g
  <2>1. f = [i \in 0..n |-> IF i = 0 THEN h ELSE g[<<i, f[i - 1]>>]]
    BY <1>3 DEF IsRecursive
  <2>2. ASSUME NEW i \in 0..n
        PROVE  (IF i = 0 THEN h ELSE g[<<i, f[i - 1]>>]) = IF i = 0 THEN h ELSE MergeSample(f[i - 1], samples[i])
    <3>1. i # 0 => i \in 1..n /\ f[i - 1] \in Headers
      BY <1>1
    <3> QED BY <1>2, <3>1
  <2> QED BY <2>1, <2>2
<1>5. Is(upTo)
  <2> HIDE DEF Is
  <2> QED BY <1>4
<1>6. MergeSamples(h, samples) = upTo[n]
  BY DEF MergeSamples
<1>7. /\ upTo[0] = h /\ DOMAIN upTo = 0..n
      /\ \A i \in 1..n : upTo[i] = MergeSample(upTo[i - 1], samples[i])
  <2> HIDE DEF upTo
  <2>1. \A i \in 0..n : upTo[i] = IF i = 0 THEN h ELSE MergeSample(upTo[i - 1], samples[i])
    BY <1>5
  <2>2. DOMAIN upTo = 0..n
    BY <1>5
  <2> HIDE DEF Is, n
  <2> QED BY <1>1, <2>1, <2>2
<1>8. upTo \in [0..n -> Headers]
  <2> DEFINE P == {i \in 0..n : upTo[i] \in Headers}
  <2>1. 0 \in P
    BY <1>1, <1>7
  <2>2. ASSUME NEW i \in 0..(n - 1), i \in P PROVE i + 1 \in P
    <3>1. i + 1 \in 1..n /\ (i + 1) - 1 = i /\ upTo[i] \in Headers
      BY <1>1, <2>2
    <3> HIDE DEF n, upTo
    <3>2. upTo[i + 1] = MergeSample(upTo[i], samples[i + 1])
      BY <1>7, <3>1
    <3>3. upTo[i + 1] \in Headers
      BY <1>1, <3>1, <3>2, MergeSampleFacts
    <3> QED BY <3>1, <3>3
  <2>3. 0..n \subseteq P
    <3> HIDE DEF P, n
    <3> QED BY <1>1, <2>1, <2>2, IntervalInduction
  <2>4. upTo = [i \in 0..n |-> upTo[i]]
    <3> HIDE DEF upTo
    <3> QED BY <1>5
  <2> HIDE DEF upTo, n
  <2> QED BY <2>3, <2>4
<1> QED
  <2> HIDE DEF upTo
  <2> QED BY <1>6, <1>7, <1>8

\* What the loop over samples leaves: the values are compared with the first one.
LEMMA MergeSamplesFacts ==
  ASSUME NEW h \in Headers, NEW samples \in Seq(HeaderValues), NEW k, k = MergeSamples(h, samples)
  PROVE  /\ k \in Headers
         /\ k.observed = h.observed /\ k.parseErrors = h.parseErrors
         /\ Range(k.samples) \subseteq Range(h.samples) \cup Range(samples)
         /\ h.samples # <<>> \/ samples # <<>> => k.samples # <<>>
         /\ k.agree <=> h.agree /\ \A i \in 1..Len(samples) :
                            samples[i] = IF h.samples = <<>> THEN samples[1] ELSE h.samples[1]
<1> DEFINE n == Len(samples)
           first == IF h.samples = <<>> THEN samples[1] ELSE h.samples[1]
<1>1. /\ n \in Nat /\ (samples # <<>> => n > 0) /\ h.samples \in Seq(HeaderValues)
      /\ \A i \in 1..n : samples[i] \in HeaderValues /\ samples[i] \in Range(samples)
  BY DEF Headers, Range
<1>2. PICK f \in [0..n -> Headers] :
         /\ f[0] = h /\ k = f[n]
         /\ \A i \in 1..n : f[i] = MergeSample(f[i - 1], samples[i])
  BY MergeSamplesTrace
<1> DEFINE Same(i) == f[i].observed = h.observed /\ f[i].parseErrors = h.parseErrors
           Within(i) == Range(f[i].samples) \subseteq Range(h.samples) \cup Range(samples)
           First(i) == /\ h.samples # <<>> \/ i > 0 => f[i].samples # <<>> /\ f[i].samples[1] = first
                       /\ h.samples = <<>> /\ i = 0 => f[i].samples = <<>>
           Agree(i) == f[i].agree <=> h.agree /\ \A j \in 1..i : samples[j] = first
           P == {i \in 0..n : Same(i) /\ Within(i) /\ First(i) /\ Agree(i)}
<1>3. 0 \in P
  BY <1>1, <1>2
<1>4. ASSUME NEW i \in 0..(n - 1), i \in P PROVE i + 1 \in P
  <2> DEFINE g == f[i]
             e == f[i + 1]
             v == samples[i + 1]
  <2>1. /\ i + 1 \in 1..n /\ i + 1 \in 0..n /\ i \in 0..n /\ (i + 1) - 1 = i /\ i + 1 > 0
        /\ Same(i) /\ Within(i) /\ First(i) /\ Agree(i)
    BY <1>1, <1>4
  <2>2. g \in Headers /\ v \in HeaderValues /\ v \in Range(samples)
    BY <1>1, <1>2, <2>1
  <2>3. e = MergeSample(g, v)
    BY <1>2, <2>1
  <2>4. /\ e.observed = g.observed /\ e.parseErrors = g.parseErrors
        /\ e.samples = AddDistinct(g.samples, v)
        /\ e.agree <=> g.agree /\ (g.samples = <<>> \/ g.samples[1] = v)
    <3> HIDE DEF g, e, v
    <3> QED BY <2>2, <2>3, MergeSampleFacts, SMTT(60)
  <2>5. /\ Range(e.samples) \subseteq Range(g.samples) \cup {v} /\ e.samples # <<>>
        /\ e.samples[1] = IF g.samples = <<>> THEN v ELSE g.samples[1]
    <3> HIDE DEF g, e, v
    <3>1. g.samples \in Seq(HeaderValues)
      BY <2>2 DEF Headers
    <3>2. e.samples = AddDistinct(g.samples, v)
      BY <2>4
    <3> DEFINE c == g.samples
               a == AddDistinct(c, v)
    <3> HIDE DEF c
    <3>3. Range(a) \subseteq Range(c) \cup {v} /\ a # <<>> /\ a[1] = IF c = <<>> THEN v ELSE c[1]
      BY <2>2, <3>1, AddDistinctFacts DEF c
    <3> HIDE DEF a
    <3> QED BY <3>2, <3>3 DEF a, c
  <2>6. g.samples = <<>> => i = 0 /\ h.samples = <<>> /\ v = first
    BY <1>1, <2>1
  <2>7. e.samples[1] = first
    <3>1. g.samples # <<>> => g.samples[1] = first
      BY <1>1, <2>1
    <3> HIDE DEF g, e, v, first
    <3> QED BY <2>5, <2>6, <3>1
  <2>8. e.agree <=> g.agree /\ v = first
    <3>1. g.samples # <<>> => g.samples[1] = first
      BY <1>1, <2>1
    <3> HIDE DEF g, e, v, first
    <3> QED BY <2>4, <2>6, <3>1, Zenon
  <2>9. (\A j \in 1..(i + 1) : samples[j] = first) <=> v = first /\ \A j \in 1..i : samples[j] = first
    <3>1. \A j \in 1..(i + 1) : j = i + 1 \/ j \in 1..i
      BY <1>1
    <3>2. i + 1 \in 1..(i + 1) /\ 1..i \subseteq 1..(i + 1)
      BY <1>1
    <3> HIDE DEF first
    <3> QED BY <3>1, <3>2
  <2>10. Agree(i + 1)
    <3>1. g.agree <=> h.agree /\ \A j \in 1..i : samples[j] = first
      BY <2>1
    <3> HIDE DEF g, v, first
    <3> QED BY <2>8, <2>9, <3>1, Zenon
  <2>11. Same(i + 1) /\ Within(i + 1) /\ First(i + 1)
    <3>1. i + 1 # 0
      BY <2>1
    <3> HIDE DEF first
    <3> QED BY <2>1, <2>2, <2>4, <2>5, <2>7, <3>1
  <2> HIDE DEF Same, Within, First, Agree
  <2> QED BY <2>1, <2>10, <2>11
<1>5. n \in P
  <2>1. 0..n \subseteq P
    <3> HIDE DEF P, n
    <3> QED BY <1>1, <1>3, <1>4, IntervalInduction
  <2> QED BY <1>1, <2>1
<1>6. k \in Headers
  BY <1>1, <1>2
<1>7. Same(n) /\ Within(n) /\ First(n) /\ Agree(n) /\ k = f[n]
  BY <1>2, <1>5
<1>8. h.samples # <<>> \/ samples # <<>> => k.samples # <<>>
  BY <1>1, <1>7
<1>9. k.agree <=> h.agree /\ \A j \in 1..n : samples[j] = first
  BY <1>7
<1> QED BY <1>6, <1>7, <1>8, <1>9

LEMMA mergeHeaderTyped ==
  ASSUME NEW d \in Headers, NEW s \in Headers
  PROVE  mergeHeaderConsistency(d, s) \in Headers
<1> DEFINE o == d.observed + s.observed
           p == d.parseErrors + s.parseErrors
           b == (d.observed = 0 \/ d.agree) /\ s.agree
           h == [d EXCEPT !.observed = o, !.parseErrors = p, !.agree = b]
<1>1. /\ d \in [observed : Nat, parseErrors : Nat, agree : BOOLEAN, samples : Seq(HeaderValues)]
      /\ s \in [observed : Nat, parseErrors : Nat, agree : BOOLEAN, samples : Seq(HeaderValues)]
  BY DEF Headers
<1>2. o \in Nat /\ p \in Nat /\ b \in BOOLEAN /\ s.samples \in Seq(HeaderValues)
  BY <1>1
<1>3. mergeHeaderConsistency(d, s) = MergeSamples(h, s.samples)
  BY DEF mergeHeaderConsistency
<1>4. h \in Headers
  <2> HIDE DEF o, p, b
  <2> QED BY <1>1, <1>2 DEF Headers
<1> HIDE DEF h
<1> QED BY <1>2, <1>3, <1>4, MergeSamplesFacts

\* A merge of two headers tells of the values of both.
LEMMA mergeHeaderTells ==
  ASSUME NEW d \in Headers, NEW s \in Headers, NEW V, NEW W, Tells(d, V), Tells(s, W),
         NEW k, k = mergeHeaderConsistency(d, s)
  PROVE  /\ k \in Headers /\ Tells(k, V \cup W)
         /\ k.observed = d.observed + s.observed /\ k.parseErrors = d.parseErrors + s.parseErrors
<1> DEFINE o == d.observed + s.observed
           p == d.parseErrors + s.parseErrors
           b == (d.observed = 0 \/ d.agree) /\ s.agree
           h == [d EXCEPT !.observed = o, !.parseErrors = p, !.agree = b]
           first == IF d.samples = <<>> THEN s.samples[1] ELSE d.samples[1]
<1>1. /\ d \in [observed : Nat, parseErrors : Nat, agree : BOOLEAN, samples : Seq(HeaderValues)]
      /\ s \in [observed : Nat, parseErrors : Nat, agree : BOOLEAN, samples : Seq(HeaderValues)]
  BY DEF Headers
<1>2. o \in Nat /\ p \in Nat /\ b \in BOOLEAN /\ s.samples \in Seq(HeaderValues) /\ d.samples \in Seq(HeaderValues)
  BY <1>1
<1>3. k = MergeSamples(h, s.samples)
  BY DEF mergeHeaderConsistency
<1>4. h \in Headers /\ h.observed = o /\ h.parseErrors = p /\ h.agree = b /\ h.samples = d.samples
  <2> HIDE DEF o, p, b
  <2> QED BY <1>1, <1>2 DEF Headers
<1>5. /\ k \in Headers /\ k.observed = o /\ k.parseErrors = p
      /\ Range(k.samples) \subseteq Range(d.samples) \cup Range(s.samples)
      /\ d.samples # <<>> \/ s.samples # <<>> => k.samples # <<>>
      /\ k.agree <=> h.agree /\ \A i \in 1..Len(s.samples) : s.samples[i] = first
  <2> HIDE DEF h, o, p, b
  <2>1. /\ k \in Headers /\ k.observed = h.observed /\ k.parseErrors = h.parseErrors
        /\ Range(k.samples) \subseteq Range(h.samples) \cup Range(s.samples)
        /\ h.samples # <<>> \/ s.samples # <<>> => k.samples # <<>>
        /\ k.agree <=> h.agree /\ \A i \in 1..Len(s.samples) :
                            s.samples[i] = IF h.samples = <<>> THEN s.samples[1] ELSE h.samples[1]
    BY <1>2, <1>3, <1>4, MergeSamplesFacts
  <2> QED BY <1>4, <2>1
<1>6. k.agree <=> b /\ \A i \in 1..Len(s.samples) : s.samples[i] = first
  <2> HIDE DEF h, b, first
  <2> QED BY <1>4, <1>5, Zenon
<1>7. /\ b <=> (\A x, y \in V : x = y) /\ \A x, y \in W : x = y
      /\ V = {} => d.samples = <<>>
      /\ W = {} => s.samples = <<>>
  <2>1. d.observed = 0 \/ d.agree <=> \A x, y \in V : x = y
    BY DEF Tells
  <2>2. s.agree <=> \A x, y \in W : x = y
    BY DEF Tells
  <2>3. V = {} => d.samples = <<>>
    BY <1>2, FirstInRange DEF Tells
  <2>4. W = {} => s.samples = <<>>
    BY <1>2, FirstInRange DEF Tells
  <2> QED BY <2>1, <2>2, <2>3, <2>4
<1>8. /\ V # {} => d.samples # <<>> /\ d.samples[1] \in V
      /\ W # {} => s.samples # <<>> /\ s.samples[1] \in W
      /\ \A i \in 1..Len(s.samples) : s.samples[i] \in W
      /\ s.samples # <<>> => 1 \in 1..Len(s.samples)
  <2>1. V # {} => d.samples # <<>> /\ d.samples[1] \in V
    BY <1>2, FirstInRange DEF Tells
  <2>2. W # {} => s.samples # <<>> /\ s.samples[1] \in W
    BY <1>2, FirstInRange DEF Tells
  <2>3. \A i \in 1..Len(s.samples) : s.samples[i] \in Range(s.samples)
    BY <1>2 DEF Range
  <2>4. s.samples # <<>> => 1 \in 1..Len(s.samples)
    BY <1>2
  <2> QED BY <2>1, <2>2, <2>3, <2>4 DEF Tells
<1>9. b /\ (\A i \in 1..Len(s.samples) : s.samples[i] = first) <=> \A x, y \in V \cup W : x = y
  <2> HIDE DEF b
  <2>1. ASSUME b, \A i \in 1..Len(s.samples) : s.samples[i] = first
        PROVE  \A x, y \in V \cup W : x = y
    <3>1. (\A x, y \in V : x = y) /\ \A x, y \in W : x = y
      BY <1>7, <2>1
    <3>2. V # {} /\ W # {} => s.samples[1] = d.samples[1]
      BY <1>8, <2>1
    <3> QED BY <1>8, <3>1, <3>2
  <2>2. ASSUME \A x, y \in V \cup W : x = y
        PROVE  b /\ \A i \in 1..Len(s.samples) : s.samples[i] = first
    <3>1. b
      BY <1>7, <2>2
    <3>2. ASSUME NEW i \in 1..Len(s.samples) PROVE s.samples[i] = first
      <4>1. s.samples[i] \in W
        BY <1>8
      <4>2. W # {} => s.samples[1] \in W
        BY <1>8
      <4>3. d.samples # <<>> => d.samples[1] \in V
        BY <1>7, <1>8
      <4>4. first \in V \cup W
        BY <4>1, <4>2, <4>3
      <4> QED BY <2>2, <4>1, <4>4
    <3> QED BY <3>1, <3>2
  <2> QED BY <2>1, <2>2
<1>10. k.agree <=> \A x, y \in V \cup W : x = y
  <2> HIDE DEF b, first
  <2> QED BY <1>6, <1>9, Zenon
<1>11. /\ Range(k.samples) \subseteq V \cup W /\ (V \cup W # {} => k.samples # <<>>)
       /\ k.observed = 0 => V \cup W = {}
  <2>1. Range(k.samples) \subseteq V \cup W
    BY <1>5 DEF Tells
  <2>2. V \cup W # {} => k.samples # <<>>
    BY <1>5, <1>8
  <2>3. k.observed = 0 => d.observed = 0 /\ s.observed = 0
    BY <1>1, <1>5
  <2> QED BY <2>1, <2>2, <2>3 DEF Tells
<1> QED BY <1>5, <1>10, <1>11 DEF Tells

-----------------------------------------------------------------------------
(* Counting results                                                         *)

\* One more result, and the results of two counts
Bump(c, r) == [c EXCEPT ![r] = @ + 1]
Plus(c, d) == [r \in Results |-> c[r] + d[r]]
Nothing == [r \in Results |-> 0]

LEMMA CountIsNat ==
  ASSUME NEW c \in Counts, NEW R, R \subseteq Results
  PROVE  /\ IsFiniteSet(R) /\ CountOf(c, R) \in Nat
         /\ CountOf(c, R) > 0 <=> \E r \in R : c[r] > 0
<1>1. IsFiniteSet(R) /\ \A r \in R : c[r] \in Nat
  BY MetricsAssumption, FS_Subset DEF Counts
<1>2. CountOf(c, R) \in Nat /\ (CountOf(c, R) > 0 <=> \E r \in R : c[r] > 0)
  BY <1>1, SumNat DEF CountOf
<1> QED BY <1>1, <1>2

LEMMA CountOfNothing ==
  ASSUME NEW R, R \subseteq Results
  PROVE  Nothing \in Counts /\ CountOf(Nothing, R) = 0
<1>1. IsFiniteSet(R) /\ \A r \in R : Nothing[r] = 0
  BY MetricsAssumption, FS_Subset DEF Nothing
<1>2. CountOf(Nothing, R) = 0
  BY <1>1, SumZero DEF CountOf
<1> QED BY <1>2 DEF Nothing, Counts

LEMMA CountBump ==
  ASSUME NEW c \in Counts, NEW r \in Results
  PROVE  /\ Bump(c, r) \in Counts
         /\ \A R \in SUBSET Results : CountOf(Bump(c, r), R) = CountOf(c, R) + (IF r \in R THEN 1 ELSE 0)
<1> DEFINE d == Bump(c, r)
<1>1. d \in Counts /\ d[r] = c[r] + 1 /\ \A x \in Results \ {r} : d[x] = c[x]
  BY DEF Bump, Counts
<1>2. \A x \in Results : c[x] \in Int
  BY DEF Counts
<1> HIDE DEF d
<1>3. ASSUME NEW R \in SUBSET Results PROVE CountOf(d, R) = CountOf(c, R) + (IF r \in R THEN 1 ELSE 0)
  <2>1. IsFiniteSet(R) /\ CountOf(c, R) \in Nat
    BY CountIsNat
  <2>2. CASE r \in R
    <3>1. SumFunctionOnSet(d, R) = SumFunctionOnSet(c, R) + 1
      <4>1. (\A x \in R : c[x] \in Int) /\ (\A x \in R \ {r} : d[x] = c[x]) /\ d[r] = c[r] + 1 /\ 1 \in Int
        BY <1>1, <1>2
      <4> QED BY <2>1, <2>2, <4>1, SumChange
    <3> QED BY <2>2, <3>1 DEF CountOf
  <2>3. CASE r \notin R
    <3>1. SumFunctionOnSet(d, R) = SumFunctionOnSet(c, R)
      <4>1. \A x \in R : c[x] \in Int /\ d[x] = c[x]
        BY <1>1, <1>2, <2>3
      <4> QED BY <2>1, <4>1, SumSame
    <3>2. CountOf(d, R) = CountOf(c, R) + 0
      BY <2>1, <3>1 DEF CountOf
    <3> QED BY <2>3, <3>2
  <2> QED BY <2>2, <2>3
<1> QED BY <1>1, <1>3 DEF d

LEMMA CountPlus ==
  ASSUME NEW c \in Counts, NEW d \in Counts
  PROVE  /\ Plus(c, d) \in Counts
         /\ \A R \in SUBSET Results : CountOf(Plus(c, d), R) = CountOf(c, R) + CountOf(d, R)
<1> DEFINE e == Plus(c, d)
<1>1. e \in Counts /\ \A x \in Results : c[x] \in Int /\ d[x] \in Int /\ e[x] = c[x] + d[x]
  BY DEF Plus, Counts
<1> HIDE DEF e
<1>2. ASSUME NEW R \in SUBSET Results PROVE CountOf(e, R) = CountOf(c, R) + CountOf(d, R)
  <2>1. IsFiniteSet(R)
    BY CountIsNat
  <2>2. \A x \in R : c[x] \in Int /\ d[x] \in Int /\ e[x] = c[x] + d[x]
    BY <1>1
  <2>3. SumFunctionOnSet(e, R) = SumFunctionOnSet(c, R) + SumFunctionOnSet(d, R)
    BY <2>1, <2>2, SumAdd
  <2> QED BY <2>3 DEF CountOf
<1> QED BY <1>1, <1>2 DEF e

LEMMA ValuesBump ==
  ASSUME NEW c \in Counts, NEW r \in Results
  PROVE  Values(Bump(c, r)) = Values(c) \cup ({r.header} \ {Absent, Invalid})
<1>1. \A x \in Results : Bump(c, r)[x] > 0 <=> c[x] > 0 \/ x = r
  BY DEF Bump, Counts
<1> QED BY <1>1 DEF Values

LEMMA ValuesPlus ==
  ASSUME NEW c \in Counts, NEW d \in Counts
  PROVE  Values(Plus(c, d)) = Values(c) \cup Values(d)
<1>1. \A x \in Results : Plus(c, d)[x] > 0 <=> c[x] > 0 \/ d[x] > 0
  BY DEF Plus, Counts
<1> QED BY <1>1 DEF Values

-----------------------------------------------------------------------------
(* Metrics that are those of the results counts counts                      *)

Represents(m, counts) == Counted(m, counts) /\ Tells(m.headers, Values(counts))

LEMMA NewRepresents == Represents(NewWorkerMetrics, Nothing)
<1> DEFINE m == NewWorkerMetrics
<1>1. \A R \in SUBSET Results : CountOf(Nothing, R) = 0
  BY CountOfNothing
<1>2. /\ \A o \in Outcomes : m.outcomes[o] = 0
      /\ \A c \in Statuses : m.codes[c] = 0
      /\ m.all = 0 /\ m.success = 0 /\ m.throttled = 0
      /\ m.headers.observed = 0 /\ m.headers.parseErrors = 0
  BY DEF NewWorkerMetrics, NoHeaders
<1>3. m.headers.agree /\ m.headers.samples = <<>>
  BY DEF NewWorkerMetrics, NoHeaders
<1> HIDE DEF m
<1>4. Counted(m, Nothing)
  <2>1. /\ \A o \in Outcomes : CountOf(Nothing, {r \in Results : r.outcome = o}) = 0
        /\ \A c \in Statuses : CountOf(Nothing, {r \in Results : r.status = c}) = 0
        /\ CountOf(Nothing, Results) = 0
        /\ CountOf(Nothing, {r \in Results : r.outcome = "success"}) = 0
        /\ CountOf(Nothing, {r \in Results : r.status = 429 \/ r.outcome = "rate_limited"}) = 0
        /\ CountOf(Nothing, {r \in Results : r.header # Absent}) = 0
        /\ CountOf(Nothing, {r \in Results : r.header = Invalid}) = 0
    BY <1>1
  <2> QED BY <1>2, <2>1 DEF Counted
<1>5. Values(Nothing) = {}
  BY DEF Values, Nothing
<1>6. Tells(m.headers, {})
  <2>1. Range(<<>>) = {}
    BY DEF Range
  <2> QED BY <1>3, <2>1 DEF Tells
<1> QED BY <1>4, <1>5, <1>6 DEF Represents, m

\* k is m with one more result, field by field.
Recorded(m, r, k) ==
    /\ k.outcomes = [m.outcomes EXCEPT ![r.outcome] = @ + 1]
    /\ k.codes = [c \in Statuses |-> m.codes[c] + (IF c = r.status THEN 1 ELSE 0)]
    /\ k.all = m.all + 1
    /\ k.success = m.success + (IF r.outcome = "success" THEN 1 ELSE 0)
    /\ k.throttled = m.throttled + (IF IsThrottled(r) THEN 1 ELSE 0)
    /\ Sampled(r) => k.errors = recordErrorSample(m.errors, ErrorKey(r))
    /\ ~Sampled(r) => k.errors = m.errors
    /\ k.headers = recordHeader(m.headers, r.header)
    /\ k = [outcomes |-> k.outcomes, codes |-> k.codes, all |-> k.all, success |-> k.success,
            throttled |-> k.throttled, errors |-> k.errors, headers |-> k.headers]

LEMMA RecordFields ==
  ASSUME NEW m \in Recordings, NEW r \in Results, NEW k, k = RecordResult(m, r)
  PROVE  Recorded(m, r, k)
<1> DEFINE oo == [m.outcomes EXCEPT ![r.outcome] = @ + 1]
           cc == [c \in Statuses |-> m.codes[c] + (IF c = r.status THEN 1 ELSE 0)]
           aa == m.all + 1
           ss == m.success + (IF r.outcome = "success" THEN 1 ELSE 0)
           tt == m.throttled + (IF IsThrottled(r) THEN 1 ELSE 0)
           ee == IF Sampled(r) THEN recordErrorSample(m.errors, ErrorKey(r)) ELSE m.errors
           hh == recordHeader(m.headers, r.header)
<1>1. k = [m EXCEPT !.outcomes = oo, !.codes = cc, !.all = aa, !.success = ss, !.throttled = tt,
                    !.errors = ee, !.headers = hh]
  BY DEF RecordResult
<1> HIDE DEF oo, cc, aa, ss, tt, ee, hh
<1>3. m = [outcomes |-> m.outcomes, codes |-> m.codes, all |-> m.all, success |-> m.success,
           throttled |-> m.throttled, errors |-> m.errors, headers |-> m.headers]
  BY DEF Recordings
<1>4. k = [outcomes |-> oo, codes |-> cc, all |-> aa, success |-> ss,
           throttled |-> tt, errors |-> ee, headers |-> hh]
  BY <1>1, <1>3
<1>5. /\ k.outcomes = oo /\ k.codes = cc /\ k.all = aa /\ k.success = ss /\ k.throttled = tt
      /\ k.errors = ee /\ k.headers = hh
  BY <1>4
<1> QED BY <1>4, <1>5 DEF Recorded, oo, cc, aa, ss, tt, ee, hh

\* A merge with the error samples e
CombineWith(m, n, e) == [Combine(m, n) EXCEPT !.errors = e]

\* What a merge does to the fields
LEMMA CombineFields ==
  ASSUME NEW m \in Recordings, NEW n \in Recordings, NEW e, NEW k, k = CombineWith(m, n, e)
  PROVE  /\ k.outcomes = AddPointwise(m.outcomes, n.outcomes)
         /\ k.codes = AddPointwise(m.codes, n.codes)
         /\ k.all = m.all + n.all
         /\ k.success = m.success + n.success
         /\ k.throttled = m.throttled + n.throttled
         /\ k.errors = e
         /\ k.headers = mergeHeaderConsistency(m.headers, n.headers)
         /\ k = [outcomes |-> k.outcomes, codes |-> k.codes, all |-> k.all, success |-> k.success,
                 throttled |-> k.throttled, errors |-> k.errors, headers |-> k.headers]
<1> DEFINE oo == AddPointwise(m.outcomes, n.outcomes)
           cc == AddPointwise(m.codes, n.codes)
           aa == m.all + n.all
           ss == m.success + n.success
           tt == m.throttled + n.throttled
           hh == mergeHeaderConsistency(m.headers, n.headers)
<1>1. k = [[m EXCEPT !.outcomes = oo, !.codes = cc, !.all = aa, !.success = ss, !.throttled = tt,
                     !.headers = hh] EXCEPT !.errors = e]
  BY DEF Combine, CombineWith
<1> HIDE DEF oo, cc, aa, ss, tt, hh
<1>2. m = [outcomes |-> m.outcomes, codes |-> m.codes, all |-> m.all, success |-> m.success,
           throttled |-> m.throttled, errors |-> m.errors, headers |-> m.headers]
  BY DEF Recordings
<1>3. k = [outcomes |-> oo, codes |-> cc, all |-> aa, success |-> ss,
           throttled |-> tt, errors |-> e, headers |-> hh]
  BY <1>1, <1>2
<1>4. /\ k.outcomes = oo /\ k.codes = cc /\ k.all = aa /\ k.success = ss /\ k.throttled = tt
      /\ k.errors = e /\ k.headers = hh
  BY <1>3
<1> QED BY <1>3, <1>4 DEF oo, cc, aa, ss, tt, hh

\* Recording a result keeps the relation.
LEMMA RecordRepresents ==
  ASSUME NEW m \in Recordings, NEW c \in Counts, NEW r \in Results, Represents(m, c),
         NEW k, k = RecordResult(m, r), k.errors \in Seq(Samples)
  PROVE  k \in Recordings /\ Represents(k, Bump(c, r))
<1> DEFINE d == Bump(c, r)
           N(R) == CountOf(c, R)
           One(p) == IF p THEN 1 ELSE 0
<1>1. /\ m.outcomes \in [Outcomes -> Nat] /\ m.codes \in [Statuses -> Nat]
      /\ m.all \in Nat /\ m.success \in Nat /\ m.throttled \in Nat /\ m.headers \in Headers
  BY DEF Recordings
<1>2. r.outcome \in Outcomes /\ r.header \in HeaderValues
  BY DEF Outcomes, HeaderValues
<1>3. d \in Counts /\ \A R \in SUBSET Results : CountOf(d, R) = CountOf(c, R) + (IF r \in R THEN 1 ELSE 0)
  BY CountBump
<1> HIDE DEF d
<1>4. /\ k.outcomes = [m.outcomes EXCEPT ![r.outcome] = @ + 1]
      /\ k.codes = [x \in Statuses |-> m.codes[x] + (IF x = r.status THEN 1 ELSE 0)]
      /\ k.all = m.all + 1
      /\ k.success = m.success + (IF r.outcome = "success" THEN 1 ELSE 0)
      /\ k.throttled = m.throttled + (IF IsThrottled(r) THEN 1 ELSE 0)
      /\ k.headers = recordHeader(m.headers, r.header)
      /\ k = [outcomes |-> k.outcomes, codes |-> k.codes, all |-> k.all, success |-> k.success,
              throttled |-> k.throttled, errors |-> k.errors, headers |-> k.headers]
  BY RecordFields DEF Recorded
<1>5. /\ k.outcomes \in [Outcomes -> Nat]
      /\ \A o \in Outcomes : k.outcomes[o] = m.outcomes[o] + (IF r.outcome = o THEN 1 ELSE 0)
  <2> DEFINE f == m.outcomes
             a == r.outcome
  <2>1. f \in [Outcomes -> Nat] /\ a \in Outcomes /\ k.outcomes = [f EXCEPT ![a] = @ + 1]
    BY <1>1, <1>2, <1>4
  <2> HIDE DEF f, a
  <2>2. /\ k.outcomes \in [Outcomes -> Nat]
        /\ \A o \in Outcomes : k.outcomes[o] = f[o] + (IF a = o THEN 1 ELSE 0)
    BY <2>1
  <2> QED BY <2>2 DEF f, a
<1>6. /\ k.codes \in [Statuses -> Nat]
      /\ \A x \in Statuses : k.codes[x] = m.codes[x] + (IF r.status = x THEN 1 ELSE 0)
  BY <1>1, <1>4
<1>7. k.all \in Nat /\ k.success \in Nat /\ k.throttled \in Nat
  BY <1>1, <1>4
<1>8. k.headers \in Headers
  BY <1>1, <1>2, <1>4, recordHeaderTyped
<1>9. k \in Recordings
  BY <1>4, <1>5, <1>6, <1>7, <1>8 DEF Recordings
<1>10. /\ Tells(k.headers, Values(d))
       /\ k.headers.observed = m.headers.observed + (IF r.header # Absent THEN 1 ELSE 0)
       /\ k.headers.parseErrors = m.headers.parseErrors + (IF r.header = Invalid THEN 1 ELSE 0)
  <2>1. Tells(m.headers, Values(c)) /\ Values(d) = Values(c) \cup ({r.header} \ {Absent, Invalid})
    BY ValuesBump DEF Represents, d
  <2> DEFINE h == m.headers
             v == r.header
             W == Values(c) \cup ({v} \ {Absent, Invalid})
             e == k.headers
  <2>2. h \in Headers /\ v \in HeaderValues /\ Tells(h, Values(c)) /\ e = recordHeader(h, v)
    BY <1>1, <1>2, <1>4, <2>1
  <2> HIDE DEF h, v, e
  <2>3. /\ Tells(e, W)
        /\ e.observed = h.observed + (IF v # Absent THEN 1 ELSE 0)
        /\ e.parseErrors = h.parseErrors + (IF v = Invalid THEN 1 ELSE 0)
    BY <2>2, recordHeaderTells
  <2> QED BY <2>1, <2>3 DEF h, v, e
<1>11. Counted(k, d)
  <2> DEFINE ByOutcome(o) == {x \in Results : x.outcome = o}
             ByStatus(s) == {x \in Results : x.status = s}
             Throttled == {x \in Results : x.status = 429 \/ x.outcome = "rate_limited"}
             Sent == {x \in Results : x.header # Absent}
             Bad == {x \in Results : x.header = Invalid}
  <2>1. /\ \A o \in Outcomes : m.outcomes[o] = CountOf(c, ByOutcome(o))
        /\ \A s \in Statuses : m.codes[s] = CountOf(c, ByStatus(s))
        /\ m.all = CountOf(c, Results) /\ m.success = CountOf(c, ByOutcome("success"))
        /\ m.throttled = CountOf(c, Throttled)
        /\ m.headers.observed = CountOf(c, Sent) /\ m.headers.parseErrors = CountOf(c, Bad)
    BY DEF Represents, Counted
  <2>2. ASSUME NEW o PROVE CountOf(d, ByOutcome(o)) = CountOf(c, ByOutcome(o)) + (IF r.outcome = o THEN 1 ELSE 0)
    <3>1. ByOutcome(o) \in SUBSET Results /\ (r \in ByOutcome(o) <=> r.outcome = o)
      OBVIOUS
    <3> HIDE DEF ByOutcome
    <3> QED BY <1>3, <3>1
  <2>3. ASSUME NEW s PROVE CountOf(d, ByStatus(s)) = CountOf(c, ByStatus(s)) + (IF r.status = s THEN 1 ELSE 0)
    <3>1. ByStatus(s) \in SUBSET Results /\ (r \in ByStatus(s) <=> r.status = s)
      OBVIOUS
    <3> HIDE DEF ByStatus
    <3> QED BY <1>3, <3>1
  <2>4. CountOf(d, Throttled) = CountOf(c, Throttled) + (IF IsThrottled(r) THEN 1 ELSE 0)
    <3>1. Throttled \in SUBSET Results /\ (r \in Throttled <=> IsThrottled(r))
      BY DEF IsThrottled
    <3> HIDE DEF Throttled
    <3> QED BY <1>3, <3>1
  <2>5. CountOf(d, Sent) = CountOf(c, Sent) + (IF r.header # Absent THEN 1 ELSE 0)
    <3>1. Sent \in SUBSET Results /\ (r \in Sent <=> r.header # Absent)
      OBVIOUS
    <3> HIDE DEF Sent
    <3> QED BY <1>3, <3>1
  <2>6. CountOf(d, Bad) = CountOf(c, Bad) + (IF r.header = Invalid THEN 1 ELSE 0)
    <3>1. Bad \in SUBSET Results /\ (r \in Bad <=> r.header = Invalid)
      OBVIOUS
    <3> HIDE DEF Bad
    <3> QED BY <1>3, <3>1
  <2>7. CountOf(d, Results) = CountOf(c, Results) + 1
    BY <1>3
  <2>8. /\ \A o \in Outcomes : k.outcomes[o] = CountOf(d, ByOutcome(o))
        /\ \A s \in Statuses : k.codes[s] = CountOf(d, ByStatus(s))
        /\ k.all = CountOf(d, Results) /\ k.success = CountOf(d, ByOutcome("success"))
        /\ k.throttled = CountOf(d, Throttled)
        /\ k.headers.observed = CountOf(d, Sent) /\ k.headers.parseErrors = CountOf(d, Bad)
    <3> HIDE DEF ByOutcome, ByStatus, Throttled, Sent, Bad
    <3>1. \A o \in Outcomes : k.outcomes[o] = CountOf(d, ByOutcome(o))
      BY <1>5, <2>1, <2>2
    <3>2. \A s \in Statuses : k.codes[s] = CountOf(d, ByStatus(s))
      BY <1>6, <2>1, <2>3
    <3>3. k.success = CountOf(d, ByOutcome("success"))
      BY <1>4, <2>1, <2>2
    <3> QED BY <1>4, <1>10, <2>1, <2>4, <2>5, <2>6, <2>7, <3>1, <3>2, <3>3
  <2> QED BY <2>8 DEF Counted
<1> QED BY <1>9, <1>10, <1>11 DEF Represents, d

\* A merge represents the results of both.
LEMMA CombineRepresents ==
  ASSUME NEW m \in Recordings, NEW n \in Recordings, NEW c \in Counts, NEW d \in Counts,
         Represents(m, c), Represents(n, d), NEW e \in Seq(Samples), NEW k, k = CombineWith(m, n, e)
  PROVE  k \in Recordings /\ Represents(k, Plus(c, d)) /\ k.errors = e
<1> DEFINE t == Plus(c, d)
<1>1. /\ m.outcomes \in [Outcomes -> Nat] /\ m.codes \in [Statuses -> Nat]
      /\ m.all \in Nat /\ m.success \in Nat /\ m.throttled \in Nat /\ m.headers \in Headers
      /\ n.outcomes \in [Outcomes -> Nat] /\ n.codes \in [Statuses -> Nat]
      /\ n.all \in Nat /\ n.success \in Nat /\ n.throttled \in Nat /\ n.headers \in Headers
  BY DEF Recordings
<1>2. t \in Counts /\ \A R \in SUBSET Results : CountOf(t, R) = CountOf(c, R) + CountOf(d, R)
  BY CountPlus
<1> HIDE DEF t
<1>3. /\ k.outcomes = AddPointwise(m.outcomes, n.outcomes)
      /\ k.codes = AddPointwise(m.codes, n.codes)
      /\ k.all = m.all + n.all
      /\ k.success = m.success + n.success
      /\ k.throttled = m.throttled + n.throttled
      /\ k.errors = e
      /\ k.headers = mergeHeaderConsistency(m.headers, n.headers)
      /\ k = [outcomes |-> k.outcomes, codes |-> k.codes, all |-> k.all, success |-> k.success,
              throttled |-> k.throttled, errors |-> k.errors, headers |-> k.headers]
  BY CombineFields
<1>4. /\ k.outcomes \in [Outcomes -> Nat]
      /\ \A o \in Outcomes : k.outcomes[o] = m.outcomes[o] + n.outcomes[o]
  BY <1>1, <1>3, SMTT(60) DEF AddPointwise
<1>5. /\ k.codes \in [Statuses -> Nat]
      /\ \A s \in Statuses : k.codes[s] = m.codes[s] + n.codes[s]
  BY <1>1, <1>3 DEF AddPointwise
<1>6. k.all \in Nat /\ k.success \in Nat /\ k.throttled \in Nat
  BY <1>1, <1>3, SMTT(60)
<1>7. /\ k.headers \in Headers /\ Tells(k.headers, Values(t))
      /\ k.headers.observed = m.headers.observed + n.headers.observed
      /\ k.headers.parseErrors = m.headers.parseErrors + n.headers.parseErrors
  <2> DEFINE h == m.headers
             g == n.headers
             x == k.headers
  <2>1. h \in Headers /\ g \in Headers /\ Tells(h, Values(c)) /\ Tells(g, Values(d)) /\ x = mergeHeaderConsistency(h, g)
    BY <1>1, <1>3 DEF Represents
  <2> DEFINE V == Values(c)
             W == Values(d)
  <2>2. Values(t) = V \cup W
    BY ValuesPlus DEF t
  <2> HIDE DEF h, g, x, V, W
  <2>3. Tells(h, V) /\ Tells(g, W)
    BY <2>1 DEF V, W
  <2>4. /\ x \in Headers /\ Tells(x, V \cup W)
        /\ x.observed = h.observed + g.observed /\ x.parseErrors = h.parseErrors + g.parseErrors
    BY <2>1, <2>3, mergeHeaderTells
  <2> QED BY <2>2, <2>4 DEF h, g, x
<1>8. k \in Recordings
  BY <1>3, <1>4, <1>5, <1>6, <1>7 DEF Recordings
<1>9. Counted(k, t)
  <2> DEFINE ByOutcome(o) == {x \in Results : x.outcome = o}
             ByStatus(s) == {x \in Results : x.status = s}
             Throttled == {x \in Results : x.status = 429 \/ x.outcome = "rate_limited"}
             Sent == {x \in Results : x.header # Absent}
             Bad == {x \in Results : x.header = Invalid}
  <2>1. /\ \A o \in Outcomes : m.outcomes[o] = CountOf(c, ByOutcome(o))
        /\ \A s \in Statuses : m.codes[s] = CountOf(c, ByStatus(s))
        /\ m.all = CountOf(c, Results) /\ m.success = CountOf(c, ByOutcome("success"))
        /\ m.throttled = CountOf(c, Throttled)
        /\ m.headers.observed = CountOf(c, Sent) /\ m.headers.parseErrors = CountOf(c, Bad)
    BY DEF Represents, Counted
  <2>2. /\ \A o \in Outcomes : n.outcomes[o] = CountOf(d, ByOutcome(o))
        /\ \A s \in Statuses : n.codes[s] = CountOf(d, ByStatus(s))
        /\ n.all = CountOf(d, Results) /\ n.success = CountOf(d, ByOutcome("success"))
        /\ n.throttled = CountOf(d, Throttled)
        /\ n.headers.observed = CountOf(d, Sent) /\ n.headers.parseErrors = CountOf(d, Bad)
    BY DEF Represents, Counted
  <2>3. /\ \A o : ByOutcome(o) \in SUBSET Results
        /\ \A s : ByStatus(s) \in SUBSET Results
        /\ Throttled \in SUBSET Results /\ Sent \in SUBSET Results /\ Bad \in SUBSET Results
        /\ Results \in SUBSET Results
    OBVIOUS
  <2>4. /\ \A o \in Outcomes : k.outcomes[o] = CountOf(t, ByOutcome(o))
        /\ \A s \in Statuses : k.codes[s] = CountOf(t, ByStatus(s))
        /\ k.all = CountOf(t, Results) /\ k.success = CountOf(t, ByOutcome("success"))
        /\ k.throttled = CountOf(t, Throttled)
        /\ k.headers.observed = CountOf(t, Sent) /\ k.headers.parseErrors = CountOf(t, Bad)
    <3> HIDE DEF ByOutcome, ByStatus, Throttled, Sent, Bad
    <3>1. \A o \in Outcomes : k.outcomes[o] = CountOf(t, ByOutcome(o))
      BY <1>2, <1>4, <2>1, <2>2, <2>3
    <3>2. \A s \in Statuses : k.codes[s] = CountOf(t, ByStatus(s))
      BY <1>2, <1>5, <2>1, <2>2, <2>3
    <3>3. k.all = CountOf(t, Results) /\ k.success = CountOf(t, ByOutcome("success"))
      BY <1>2, <1>3, <2>1, <2>2, <2>3
    <3> QED BY <1>2, <1>3, <1>7, <2>1, <2>2, <2>3, <3>1, <3>2, <3>3
  <2> QED BY <2>4 DEF Counted
<1> QED BY <1>3, <1>7, <1>8, <1>9 DEF Represents, t

-----------------------------------------------------------------------------
(* Error samples                                                            *)

LEMMA FunctionIsSeq ==
  ASSUME NEW S, NEW n \in Nat, NEW f \in [1..n -> S]
  PROVE  f \in Seq(S) /\ Len(f) = n /\ DOMAIN f = 1..n
OBVIOUS

\* The three things AddErrors does
LEMMA AddErrorsFacts ==
  ASSUME NEW errors \in Seq(Samples), NEW key \in Keys, NEW n \in Nat, NEW e, e = AddErrors(errors, key, n)
  PROVE  /\ e \in Seq(Samples)
         /\ \/ /\ \E i \in 1..Len(errors) : errors[i].key = key
               /\ Len(e) = Len(errors)
               /\ \A i \in 1..Len(errors) :
                     /\ e[i].key = errors[i].key
                     /\ e[i].count = errors[i].count + (IF errors[i].key = key THEN n ELSE 0)
            \/ /\ \A i \in 1..Len(errors) : errors[i].key # key
               /\ Len(errors) < MaxErrorSamples /\ Len(e) = Len(errors) + 1
               /\ e[Len(errors) + 1].key = key /\ e[Len(errors) + 1].count = n
               /\ \A i \in 1..Len(errors) : e[i] = errors[i]
            \/ /\ \A i \in 1..Len(errors) : errors[i].key # key
               /\ Len(errors) >= MaxErrorSamples /\ e = errors
<1>1. /\ MaxErrorSamples \in Nat /\ Len(errors) \in Nat /\ DOMAIN errors = 1..Len(errors)
      /\ \A i \in 1..Len(errors) : errors[i] \in [key : Keys, count : Nat]
  <2>1. MaxErrorSamples \in Nat
    BY MetricsAssumption
  <2>2. /\ Len(errors) \in Nat /\ DOMAIN errors = 1..Len(errors)
        /\ \A i \in 1..Len(errors) : errors[i] \in Samples
    OBVIOUS
  <2> QED BY <2>1, <2>2 DEF Samples
<1>2. CASE \E i \in DOMAIN errors : errors[i].key = key
  <2> DEFINE b(i) == IF errors[i].key = key THEN [errors[i] EXCEPT !.count = @ + n] ELSE errors[i]
             m == Len(errors)
  <2>1. e = [i \in 1..m |-> b(i)]
    BY <1>1, <1>2 DEF AddErrors
  <2>2. ASSUME NEW i \in 1..m
        PROVE  /\ b(i) \in [key : Keys, count : Nat] /\ b(i).key = errors[i].key
               /\ b(i).count = errors[i].count + (IF errors[i].key = key THEN n ELSE 0)
    <3> DEFINE x == errors[i]
    <3>1. x \in [key : Keys, count : Nat]
      BY <1>1
    <3> HIDE DEF x
    <3>2. /\ x.key = key => /\ [x EXCEPT !.count = @ + n] \in [key : Keys, count : Nat]
                            /\ [x EXCEPT !.count = @ + n].key = x.key
                            /\ [x EXCEPT !.count = @ + n].count = x.count + n
          /\ x.count = x.count + 0
      BY <3>1
    <3> QED BY <3>1, <3>2 DEF x
  <2> HIDE DEF b
  <2>3. e \in [1..m -> Samples]
    BY <2>1, <2>2 DEF Samples
  <2>4. e \in Seq(Samples) /\ Len(e) = m
    <3> HIDE DEF m
    <3>1. m \in Nat
      BY <1>1 DEF m
    <3> QED BY <2>3, <3>1, FunctionIsSeq
  <2>5. \A i \in 1..m : e[i] = b(i)
    BY <2>1
  <2>6. \A i \in 1..m : e[i].key = errors[i].key /\ e[i].count = errors[i].count + (IF errors[i].key = key THEN n ELSE 0)
    BY <2>2, <2>5, SMTT(60)
  <2> QED BY <1>1, <1>2, <2>4, <2>6
<1>3. CASE ~(\E i \in DOMAIN errors : errors[i].key = key) /\ Len(errors) < MaxErrorSamples
  <2> DEFINE x == [key |-> key, count |-> n]
  <2>1. e = Append(errors, x)
    BY <1>3 DEF AddErrors
  <2>2. x \in Samples /\ x.key = key /\ x.count = n
    BY DEF Samples
  <2> HIDE DEF x
  <2>3. /\ e \in Seq(Samples) /\ Len(e) = Len(errors) + 1 /\ e[Len(errors) + 1] = x
        /\ \A i \in 1..Len(errors) : e[i] = errors[i]
    BY <2>1, <2>2, AppendProperties
  <2> QED BY <1>1, <1>3, <2>2, <2>3
<1>4. CASE ~(\E i \in DOMAIN errors : errors[i].key = key) /\ ~(Len(errors) < MaxErrorSamples)
  <2>1. e = errors
    BY <1>4 DEF AddErrors
  <2>2. Len(errors) >= MaxErrorSamples /\ \A i \in 1..Len(errors) : errors[i].key # key
    BY <1>1, <1>4
  <2> QED BY <2>1, <2>2
<1> QED BY <1>2, <1>3, <1>4

\* The samples tell of occ[k] occurrences of every k.  The counts are positive:
\* it is what makes a full list evidence of that many kinds of errors.
KindsOf(occ) == {k \in Keys : occ[k] > 0}
Tallies(errors, occ) ==
    /\ Len(errors) <= MaxErrorSamples
    /\ \A i, j \in 1..Len(errors) : errors[i].key = errors[j].key => i = j
    /\ \A i \in 1..Len(errors) : errors[i].count > 0 /\ errors[i].count <= occ[errors[i].key]
    /\ Cardinality(KindsOf(occ)) <= MaxErrorSamples =>
           \A k \in KindsOf(occ) : \E i \in 1..Len(errors) : errors[i].key = k /\ errors[i].count = occ[k]

LEMMA KindsFinite ==
  ASSUME NEW occ
  PROVE  IsFiniteSet(KindsOf(occ)) /\ Cardinality(KindsOf(occ)) \in Nat /\ IsFiniteSet(Keys)
<1>1. IsFiniteSet(Keys)
  <2> DEFINE f == [r \in Results |-> ErrorKey(r)]
  <2>1. f \in Surjection(Results, Keys)
    BY DEF Surjection, Keys
  <2> HIDE DEF f
  <2> QED BY <2>1, MetricsAssumption, FS_Surjection
<1>2. KindsOf(occ) \in SUBSET Keys
  BY DEF KindsOf
<1>3. IsFiniteSet(KindsOf(occ))
  BY <1>1, <1>2, FS_Subset
<1> QED BY <1>1, <1>3, FS_CardinalityType

\* Another occurrence of an error: the list tells of it, or it is full.
LEMMA AddErrorsTallies ==
  ASSUME NEW errors \in Seq(Samples), NEW occ \in [Keys -> Nat], Tallies(errors, occ),
         NEW key \in Keys, NEW n \in Nat, n > 0, NEW e, e = AddErrors(errors, key, n)
  PROVE  e \in Seq(Samples) /\ Tallies(e, [occ EXCEPT ![key] = @ + n])
<1> DEFINE now == [occ EXCEPT ![key] = @ + n]
           m == Len(errors)
<1>1. /\ now \in [Keys -> Nat] /\ now[key] = occ[key] + n /\ \A k \in Keys : k # key => now[k] = occ[k]
      /\ MaxErrorSamples \in Nat /\ m \in Nat
  BY MetricsAssumption
<1>2. \A i \in 1..m : errors[i].key \in Keys /\ errors[i].count \in Nat
  <2>1. \A i \in 1..m : errors[i] \in [key : Keys, count : Nat]
    BY ElementOfSeq DEF Samples
  <2> QED BY <2>1
<1> HIDE DEF now, m
<1>3. /\ m <= MaxErrorSamples
      /\ \A i, j \in 1..m : errors[i].key = errors[j].key => i = j
      /\ \A i \in 1..m : errors[i].count > 0 /\ errors[i].count <= occ[errors[i].key]
      /\ Cardinality(KindsOf(occ)) <= MaxErrorSamples =>
           \A k \in KindsOf(occ) : \E i \in 1..m : errors[i].key = k /\ errors[i].count = occ[k]
  BY DEF Tallies, m
<1>4. KindsOf(now) = KindsOf(occ) \cup {key}
  BY <1>1 DEF KindsOf
<1>5. IsFiniteSet(KindsOf(occ)) /\ IsFiniteSet(KindsOf(now)) /\ Cardinality(KindsOf(occ)) \in Nat /\ Cardinality(KindsOf(now)) \in Nat
  BY KindsFinite
<1>6. Cardinality(KindsOf(now)) <= MaxErrorSamples => Cardinality(KindsOf(occ)) <= MaxErrorSamples
  <2>1. KindsOf(occ) \in SUBSET KindsOf(now)
    BY <1>4
  <2>2. Cardinality(KindsOf(occ)) <= Cardinality(KindsOf(now))
    BY <1>5, <2>1, FS_Subset
  <2> QED BY <1>1, <1>5, <2>2
<1>7. e \in Seq(Samples)
  BY AddErrorsFacts
<1>8. CASE /\ \E i \in 1..m : errors[i].key = key
           /\ Len(e) = m
           /\ \A i \in 1..m :
                 /\ e[i].key = errors[i].key
                 /\ e[i].count = errors[i].count + (IF errors[i].key = key THEN n ELSE 0)
  <2>1. ASSUME NEW i \in 1..m PROVE e[i].count > 0 /\ e[i].count <= now[e[i].key]
    <3> DEFINE a == errors[i].count
               k == errors[i].key
    <3>1. k \in Keys /\ a \in Nat /\ a > 0 /\ a <= occ[k]
      BY <1>2, <1>3
    <3>2. e[i].key = k /\ e[i].count = a + (IF k = key THEN n ELSE 0)
      BY <1>8
    <3> HIDE DEF a, k
    <3>3. occ[k] \in Nat /\ now[k] = occ[k] + (IF k = key THEN n ELSE 0)
      BY <1>1, <3>1
    <3> QED BY <3>1, <3>2, <3>3
  <2>2. \A i, j \in 1..m : e[i].key = e[j].key => i = j
    BY <1>3, <1>8
  <2>3. ASSUME Cardinality(KindsOf(now)) <= MaxErrorSamples, NEW k \in KindsOf(now)
        PROVE  \E i \in 1..m : e[i].key = k /\ e[i].count = now[k]
    <3>1. k \in KindsOf(occ)
      <4>1. key \in KindsOf(occ)
        BY <1>1, <1>2, <1>3, <1>8, SMTT(60) DEF KindsOf
      <4> QED BY <1>4, <2>3, <4>1
    <3>2. PICK i \in 1..m : errors[i].key = k /\ errors[i].count = occ[k]
      BY <1>3, <1>6, <2>3, <3>1
    <3>3. e[i].key = k /\ e[i].count = now[k]
      <4>1. k \in Keys /\ occ[k] \in Nat
        BY <3>1 DEF KindsOf
      <4> QED BY <1>1, <1>2, <1>8, <3>2, <4>1, SMTT(60)
    <3> QED BY <3>3
  <2> QED BY <1>3, <1>7, <1>8, <2>1, <2>2, <2>3 DEF Tallies, now
<1>9. CASE /\ \A i \in 1..m : errors[i].key # key
           /\ m < MaxErrorSamples /\ Len(e) = m + 1
           /\ e[m + 1].key = key /\ e[m + 1].count = n
           /\ \A i \in 1..m : e[i] = errors[i]
  <2>0. \A i \in 1..(m + 1) : i = m + 1 \/ i \in 1..m
    BY <1>1
  <2>1. ASSUME NEW i \in 1..(m + 1) PROVE e[i].count > 0 /\ e[i].count <= now[e[i].key]
    <3>1. CASE i = m + 1
      BY <1>1, <1>9, <3>1
    <3>2. CASE i \in 1..m
      BY <1>1, <1>2, <1>3, <1>9, <3>2
    <3> QED BY <2>0, <3>1, <3>2
  <2>2. ASSUME NEW i \in 1..(m + 1), NEW j \in 1..(m + 1), e[i].key = e[j].key PROVE i = j
    BY <1>3, <1>9, <2>0, <2>2
  <2>3. ASSUME Cardinality(KindsOf(now)) <= MaxErrorSamples, NEW k \in KindsOf(now)
        PROVE  \E i \in 1..(m + 1) : e[i].key = k /\ e[i].count = now[k]
    <3>1. key \notin KindsOf(occ)
      BY <1>3, <1>6, <1>9, <2>3
    <3>2. now[key] = n
      BY <1>1, <3>1 DEF KindsOf
    <3>3. CASE k = key
      <4>1. m + 1 \in 1..(m + 1)
        BY <1>1
      <4> QED BY <1>9, <3>2, <3>3, <4>1
    <3>4. CASE k # key
      <4>1. k \in KindsOf(occ)
        BY <1>4, <2>3, <3>4
      <4>2. PICK i \in 1..m : errors[i].key = k /\ errors[i].count = occ[k]
        BY <1>3, <1>6, <2>3, <4>1
      <4>3. i \in 1..(m + 1) /\ e[i] = errors[i] /\ now[k] = occ[k]
        <5>1. k \in Keys
          BY <4>1 DEF KindsOf
        <5> QED BY <1>1, <1>9, <3>4, <5>1
      <4> QED BY <4>2, <4>3
    <3> QED BY <3>3, <3>4
  <2>4. m + 1 <= MaxErrorSamples
    BY <1>1, <1>9
  <2> QED BY <1>7, <1>9, <2>1, <2>2, <2>3, <2>4 DEF Tallies, now
<1>10. CASE (\A i \in 1..m : errors[i].key # key) /\ m >= MaxErrorSamples /\ e = errors
  <2>1. \A i \in 1..m : errors[i].key \in KindsOf(now) /\ errors[i].count <= now[errors[i].key]
    BY <1>1, <1>2, <1>3, <1>10 DEF KindsOf
  <2>2. Cardinality(KindsOf(now)) > MaxErrorSamples
    <3> DEFINE f == [i \in 1..(m + 1) |-> IF i = m + 1 THEN key ELSE errors[i].key]
    <3>0. \A i \in 1..(m + 1) : i = m + 1 \/ i \in 1..m
      BY <1>1
    <3>1. f \in [1..(m + 1) -> KindsOf(now)]
      BY <1>4, <2>1, <3>0
    <3>2. ASSUME NEW i \in 1..(m + 1), NEW j \in 1..(m + 1), f[i] = f[j] PROVE i = j
      BY <1>3, <1>10, <3>0, <3>2
    <3>3. f \in Injection(1..(m + 1), KindsOf(now))
      <4> HIDE DEF f
      <4> QED BY <3>1, <3>2 DEF Injection, IsInjective
    <3> HIDE DEF f
    <3>4. Cardinality(1..(m + 1)) <= Cardinality(KindsOf(now))
      BY <1>5, <3>3, FS_Injection
    <3>5. Cardinality(1..(m + 1)) = m + 1
      <4>1. 1 \in Int /\ m + 1 \in Int /\ ~(1 > m + 1) /\ (m + 1) - 1 + 1 = m + 1
        BY <1>1
      <4>2. Cardinality(1..(m + 1)) = IF 1 > m + 1 THEN 0 ELSE (m + 1) - 1 + 1
        BY <4>1, FS_Interval
      <4> QED BY <4>1, <4>2
    <3> QED BY <1>1, <1>5, <1>10, <3>4, <3>5
  <2>3. ~(Cardinality(KindsOf(now)) <= MaxErrorSamples)
    BY <1>1, <1>5, <2>2
  <2> QED BY <1>3, <1>7, <1>10, <2>1, <2>3 DEF Tallies, now, m
<1>11. QED
  <2>1. \/ /\ \E i \in 1..m : errors[i].key = key
           /\ Len(e) = m
           /\ \A i \in 1..m :
                 /\ e[i].key = errors[i].key
                 /\ e[i].count = errors[i].count + (IF errors[i].key = key THEN n ELSE 0)
        \/ /\ \A i \in 1..m : errors[i].key # key
           /\ m < MaxErrorSamples /\ Len(e) = m + 1
           /\ e[m + 1].key = key /\ e[m + 1].count = n
           /\ \A i \in 1..m : e[i] = errors[i]
        \/ /\ \A i \in 1..m : errors[i].key # key
           /\ m >= MaxErrorSamples /\ e = errors
    BY AddErrorsFacts, SMTT(60) DEF m
  <2> QED BY <2>1, <1>8, <1>9, <1>10

\* The loop over error samples, step by step
LEMMA AddSamplesTrace ==
  ASSUME NEW errors \in Seq(Samples), NEW samples \in Seq(Samples)
  PROVE  \E f \in [0..Len(samples) -> Seq(Samples)] :
            /\ f[0] = errors /\ AddSamples(errors, samples) = f[Len(samples)]
            /\ \A i \in 1..Len(samples) : f[i] = AddErrors(f[i - 1], samples[i].key, samples[i].count)
<1> DEFINE n == Len(samples)
           S == Seq(Samples)
           Step(v, i) == AddErrors(v, samples[i].key, samples[i].count)
           g == [p \in (1..n) \X S |-> Step(p[2], p[1])]
           Is(f) == f = [i \in 0..n |-> IF i = 0 THEN errors ELSE Step(f[i - 1], i)]
           upTo == CHOOSE f : Is(f)
<1>1. n \in Nat /\ \A i \in 1..n : samples[i].key \in Keys /\ samples[i].count \in Nat
  <2>1. n \in Nat /\ \A i \in 1..n : samples[i] \in Samples
    OBVIOUS
  <2> QED BY <2>1 DEF Samples
<1>2. \A i \in 1..n : \A v \in S : Step(v, i) \in S
  BY <1>1, AddErrorsFacts
<1> HIDE DEF Step, S
<1>3. \A i \in 1..n : \A v \in S : g[<<i, v>>] = Step(v, i) /\ g[<<i, v>>] \in S
  BY <1>1, <1>2
<1>4. PICK f \in [0..n -> S] : IsRecursive(f, n, errors, g)
  <2> HIDE DEF g, n
  <2>1. errors \in S
    BY DEF S
  <2> QED BY <1>1, <1>3, <2>1, RecursionExists
<1>5. Is(f)
  <2> HIDE DEF g
  <2>1. f = [i \in 0..n |-> IF i = 0 THEN errors ELSE g[<<i, f[i - 1]>>]]
    BY <1>4 DEF IsRecursive
  <2>2. ASSUME NEW i \in 0..n
        PROVE  (IF i = 0 THEN errors ELSE g[<<i, f[i - 1]>>]) = IF i = 0 THEN errors ELSE Step(f[i - 1], i)
    <3>1. i # 0 => i \in 1..n /\ f[i - 1] \in S
      BY <1>1
    <3> QED BY <1>3, <3>1
  <2> QED BY <2>1, <2>2
<1>6. Is(upTo)
  <2> HIDE DEF Is
  <2> QED BY <1>5
<1>7. AddSamples(errors, samples) = upTo[n]
  BY DEF AddSamples, Step
<1>8. /\ upTo[0] = errors /\ DOMAIN upTo = 0..n
      /\ \A i \in 1..n : upTo[i] = Step(upTo[i - 1], i)
  <2> HIDE DEF upTo
  <2>1. \A i \in 0..n : upTo[i] = IF i = 0 THEN errors ELSE Step(upTo[i - 1], i)
    BY <1>6
  <2>2. DOMAIN upTo = 0..n
    BY <1>6
  <2> HIDE DEF Is, n
  <2> QED BY <1>1, <2>1, <2>2
<1>9. upTo \in [0..n -> S]
  <2> DEFINE P == {i \in 0..n : upTo[i] \in S}
  <2>1. 0 \in P
    BY <1>1, <1>8 DEF S
  <2>2. ASSUME NEW i \in 0..(n - 1), i \in P PROVE i + 1 \in P
    <3>1. i + 1 \in 1..n /\ (i + 1) - 1 = i /\ upTo[i] \in S
      BY <1>1, <2>2
    <3> HIDE DEF n, upTo
    <3>2. upTo[i + 1] = Step(upTo[i], i + 1)
      BY <1>8, <3>1
    <3>3. upTo[i + 1] \in S
      BY <1>2, <3>1, <3>2
    <3> QED BY <3>1, <3>3
  <2>3. 0..n \subseteq P
    <3> HIDE DEF P, n
    <3> QED BY <1>1, <2>1, <2>2, IntervalInduction
  <2>4. upTo = [i \in 0..n |-> upTo[i]]
    <3> HIDE DEF upTo
    <3> QED BY <1>6
  <2> HIDE DEF upTo, n
  <2> QED BY <2>3, <2>4
<1> QED
  <2> HIDE DEF upTo
  <2> QED BY <1>7, <1>8, <1>9 DEF Step, S

LEMMA AddSamplesTyped ==
  ASSUME NEW errors \in Seq(Samples), NEW samples \in Seq(Samples)
  PROVE  AddSamples(errors, samples) \in Seq(Samples)
<1>1. Len(samples) \in Nat /\ Len(samples) \in 0..Len(samples)
  OBVIOUS
<1>2. PICK f \in [0..Len(samples) -> Seq(Samples)] : AddSamples(errors, samples) = f[Len(samples)]
  BY AddSamplesTrace
<1> QED BY <1>1, <1>2

\* Merging two lists of samples: the result tells of the occurrences of both.
LEMMA AddSamplesTallies ==
  ASSUME NEW errors \in Seq(Samples), NEW samples \in Seq(Samples),
         NEW occ \in [Keys -> Nat], NEW other \in [Keys -> Nat], Tallies(errors, occ), Tallies(samples, other)
  PROVE  Tallies(AddSamples(errors, samples), [k \in Keys |-> occ[k] + other[k]])
<1> DEFINE n == Len(samples)
           sum == [k \in Keys |-> occ[k] + other[k]]
           \* the occurrences that the first i samples add
           Added(o, i) == /\ \A j \in 1..i : o[samples[j].key] = occ[samples[j].key] + samples[j].count
                          /\ \A k \in Keys : (\A j \in 1..i : samples[j].key # k) => o[k] = occ[k]
<1>1. n \in Nat /\ \A i \in 1..n : samples[i].key \in Keys /\ samples[i].count \in Nat
  <2>1. n \in Nat /\ \A i \in 1..n : samples[i] \in Samples
    OBVIOUS
  <2> QED BY <2>1 DEF Samples
<1>2. PICK f \in [0..n -> Seq(Samples)] :
         /\ f[0] = errors /\ AddSamples(errors, samples) = f[n]
         /\ \A i \in 1..n : f[i] = AddErrors(f[i - 1], samples[i].key, samples[i].count)
  BY AddSamplesTrace
<1> HIDE DEF n
<1>3. /\ \A i, j \in 1..n : samples[i].key = samples[j].key => i = j
      /\ \A i \in 1..n : samples[i].count > 0 /\ samples[i].count <= other[samples[i].key]
      /\ Cardinality(KindsOf(other)) <= MaxErrorSamples =>
           \A k \in KindsOf(other) : \E i \in 1..n : samples[i].key = k /\ samples[i].count = other[k]
  BY DEF Tallies, n
<1> DEFINE P == {i \in 0..n : \E o \in [Keys -> Nat] : Tallies(f[i], o) /\ Added(o, i)}
<1>4. 0 \in P
  <2>1. Tallies(f[0], occ) /\ Added(occ, 0)
    BY <1>2
  <2> HIDE DEF Added
  <2> QED BY <1>1, <2>1
<1>5. ASSUME NEW i \in 0..(n - 1), i \in P PROVE i + 1 \in P
  <2> DEFINE key == samples[i + 1].key
             count == samples[i + 1].count
  <2>1. i + 1 \in 1..n /\ i + 1 \in 0..n /\ i \in 0..n /\ (i + 1) - 1 = i
    BY <1>1
  <2>2. key \in Keys /\ count \in Nat /\ count > 0 /\ f[i] \in Seq(Samples) /\ f[i + 1] = AddErrors(f[i], key, count)
    BY <1>1, <1>2, <1>3, <2>1
  <2>3. PICK o \in [Keys -> Nat] : Tallies(f[i], o) /\ Added(o, i)
    BY <1>5
  <2> DEFINE q == [o EXCEPT ![key] = @ + count]
  <2>4. q \in [Keys -> Nat] /\ q[key] = o[key] + count /\ \A k \in Keys : k # key => q[k] = o[k]
    BY <2>2, <2>3, SMTT(60)
  <2>5. Tallies(f[i + 1], q)
    <3> HIDE DEF key, count, Added
    <3> QED BY <2>2, <2>3, AddErrorsTallies
  <2> HIDE DEF q
  <2>6. \A j \in 1..(i + 1) : j = i + 1 \/ j \in 1..i
    BY <1>1
  <2>7. \A j \in 1..i : samples[j].key # key /\ samples[j].key \in Keys /\ j \in 1..(i + 1)
    BY <1>1, <1>3, <2>1
  <2>8. o[key] = occ[key]
    BY <2>2, <2>3, <2>7
  <2>9. Added(q, i + 1)
    <3>1. ASSUME NEW j \in 1..(i + 1) PROVE q[samples[j].key] = occ[samples[j].key] + samples[j].count
      <4>1. CASE j = i + 1
        BY <2>4, <2>8, <4>1
      <4>2. CASE j \in 1..i
        <5>1. q[samples[j].key] = o[samples[j].key]
          BY <2>4, <2>7, <4>2
        <5>2. o[samples[j].key] = occ[samples[j].key] + samples[j].count
          BY <2>3, <4>2
        <5> QED BY <5>1, <5>2
      <4> QED BY <2>6, <4>1, <4>2
    <3>2. ASSUME NEW k \in Keys, \A j \in 1..(i + 1) : samples[j].key # k PROVE q[k] = occ[k]
      <4>1. k # key /\ \A j \in 1..i : samples[j].key # k
        BY <1>1, <2>1, <2>7, <3>2, SMTT(60)
      <4> QED BY <2>3, <2>4, <4>1
    <3> QED BY <3>1, <3>2
  <2> HIDE DEF Added
  <2> QED BY <2>1, <2>4, <2>5, <2>9
<1>6. n \in P
  <2>1. 0..n \subseteq P
    <3> HIDE DEF P
    <3> QED BY <1>1, <1>4, <1>5, IntervalInduction
  <2>2. n \in 0..n
    BY <1>1
  <2> HIDE DEF P
  <2> QED BY <2>1, <2>2
<1>7. PICK o \in [Keys -> Nat] : Tallies(f[n], o) /\ Added(o, n)
  BY <1>6
<1> DEFINE e == f[n]
<1>8. MaxErrorSamples \in Nat /\ e \in Seq(Samples) /\ Len(e) \in Nat /\ e = AddSamples(errors, samples)
  BY <1>1, <1>2, MetricsAssumption
<1>9. sum \in [Keys -> Nat] /\ \A k \in Keys : sum[k] = occ[k] + other[k]
  OBVIOUS
<1> HIDE DEF e, sum
<1>10. \A k \in Keys : o[k] <= sum[k]
  <2>1. ASSUME NEW k \in Keys PROVE o[k] <= sum[k]
    <3>1. occ[k] \in Nat /\ other[k] \in Nat /\ o[k] \in Nat
      BY <1>7
    <3>2. CASE \E j \in 1..n : samples[j].key = k
      <4>1. PICK j \in 1..n : samples[j].key = k
        BY <3>2
      <4>2. o[k] = occ[k] + samples[j].count /\ samples[j].count \in Nat /\ samples[j].count <= other[k]
        BY <1>1, <1>3, <1>7, <4>1
      <4> QED BY <1>9, <3>1, <4>2
    <3>3. CASE \A j \in 1..n : samples[j].key # k
      <4>1. o[k] = occ[k]
        BY <1>7, <3>3
      <4> QED BY <1>9, <3>1, <4>1
    <3> QED BY <3>2, <3>3
  <2> QED BY <2>1
<1>11. Cardinality(KindsOf(sum)) <= MaxErrorSamples => o = sum
  <2> SUFFICES ASSUME Cardinality(KindsOf(sum)) <= MaxErrorSamples, NEW k \in Keys PROVE o[k] = sum[k]
    BY <1>7, <1>9
  <2>1. KindsOf(other) \in SUBSET KindsOf(sum)
    BY <1>9 DEF KindsOf
  <2>2. /\ IsFiniteSet(KindsOf(sum)) /\ Cardinality(KindsOf(sum)) \in Nat /\ Cardinality(KindsOf(other)) \in Nat
    BY KindsFinite
  <2>3. Cardinality(KindsOf(other)) <= Cardinality(KindsOf(sum))
    BY <2>1, <2>2, FS_Subset
  <2>4. Cardinality(KindsOf(other)) <= MaxErrorSamples
    BY <1>8, <2>2, <2>3
  <2>5. CASE \E j \in 1..n : samples[j].key = k
    <3>1. PICK j \in 1..n : samples[j].key = k
      BY <2>5
    <3>2. samples[j].count > 0 /\ samples[j].count <= other[k] /\ samples[j].count \in Nat /\ other[k] \in Nat
      BY <1>1, <1>3, <3>1
    <3>3. k \in KindsOf(other)
      BY <3>2 DEF KindsOf
    <3>4. PICK i \in 1..n : samples[i].key = k /\ samples[i].count = other[k]
      BY <1>3, <2>4, <3>3
    <3>5. o[k] = occ[k] + samples[i].count
      BY <1>7, <3>4
    <3> QED BY <1>9, <3>4, <3>5
  <2>6. CASE \A j \in 1..n : samples[j].key # k
    <3>1. o[k] = occ[k] /\ occ[k] \in Nat /\ other[k] \in Nat
      BY <1>7, <2>6
    <3>2. k \notin KindsOf(other)
      BY <1>3, <2>4, <2>6
    <3>3. other[k] = 0
      BY <3>1, <3>2 DEF KindsOf
    <3> QED BY <1>9, <3>1, <3>3
  <2> QED BY <2>5, <2>6
<1>12. Tallies(e, sum)
  <2>1. /\ Len(e) <= MaxErrorSamples
        /\ \A i, j \in 1..Len(e) : e[i].key = e[j].key => i = j
        /\ \A i \in 1..Len(e) : e[i].count > 0 /\ e[i].count <= o[e[i].key]
        /\ Cardinality(KindsOf(o)) <= MaxErrorSamples =>
               \A k \in KindsOf(o) : \E i \in 1..Len(e) : e[i].key = k /\ e[i].count = o[k]
    BY <1>7 DEF Tallies, e
  <2>2. ASSUME NEW i \in 1..Len(e) PROVE e[i].count <= sum[e[i].key]
    <3>1. e[i] \in Samples
      BY <1>8
    <3>2. e[i].key \in Keys /\ e[i].count \in Nat
      BY <3>1 DEF Samples
    <3>3. o[e[i].key] \in Nat /\ sum[e[i].key] \in Nat /\ o[e[i].key] <= sum[e[i].key] /\ e[i].count <= o[e[i].key]
      BY <1>7, <1>9, <1>10, <2>1, <3>2
    <3> QED BY <3>2, <3>3
  <2>3. ASSUME Cardinality(KindsOf(sum)) <= MaxErrorSamples
        PROVE  \A k \in KindsOf(sum) : \E i \in 1..Len(e) : e[i].key = k /\ e[i].count = sum[k]
    BY <1>11, <2>1, <2>3
  <2> QED BY <2>1, <2>2, <2>3 DEF Tallies
<1> QED BY <1>8, <1>12 DEF sum

\* How often each kind of error is among the results
Occurrences(c) == [k \in Keys |-> CountOf(c, SampledAs(k))]

LEMMA OccurrencesFacts ==
  ASSUME NEW c \in Counts
  PROVE  Occurrences(c) \in [Keys -> Nat] /\ KindsOf(Occurrences(c)) = Kinds(c)
<1>1. \A k : SampledAs(k) \subseteq Results
  BY DEF SampledAs
<1>2. \A k : CountOf(c, SampledAs(k)) \in Nat /\ (CountOf(c, SampledAs(k)) > 0 <=> \E r \in SampledAs(k) : c[r] > 0)
  BY <1>1, CountIsNat
<1>3. Occurrences(c) \in [Keys -> Nat]
  BY <1>2 DEF Occurrences
<1>4. KindsOf(Occurrences(c)) = {k \in Keys : \E r \in SampledAs(k) : c[r] > 0}
  BY <1>2 DEF KindsOf, Occurrences
<1>5. {k \in Keys : \E r \in SampledAs(k) : c[r] > 0} = Kinds(c)
  BY DEF Keys, SampledAs, Kinds
<1> QED BY <1>3, <1>4, <1>5

LEMMA OccurrencesBump ==
  ASSUME NEW c \in Counts, NEW r \in Results
  PROVE  /\ Sampled(r) => Occurrences(Bump(c, r)) = [Occurrences(c) EXCEPT ![ErrorKey(r)] = @ + 1]
         /\ ~Sampled(r) => Occurrences(Bump(c, r)) = Occurrences(c)
<1> DEFINE o == Occurrences(c)
           q == Occurrences(Bump(c, r))
           key == ErrorKey(r)
<1>1. ASSUME NEW k \in Keys PROVE q[k] = o[k] + (IF Sampled(r) /\ key = k THEN 1 ELSE 0) /\ o[k] \in Nat
  <2> DEFINE R == SampledAs(k)
  <2>1. R \in SUBSET Results /\ (r \in R <=> Sampled(r) /\ key = k)
    BY DEF SampledAs
  <2> HIDE DEF R
  <2>2. CountOf(Bump(c, r), R) = CountOf(c, R) + (IF r \in R THEN 1 ELSE 0) /\ CountOf(c, R) \in Nat
    BY <2>1, CountBump, CountIsNat
  <2>3. q[k] = CountOf(Bump(c, r), R) /\ o[k] = CountOf(c, R)
    BY DEF Occurrences, R
  <2> QED BY <2>1, <2>2, <2>3
<1>2. key \in Keys /\ q = [k \in Keys |-> q[k]] /\ o = [k \in Keys |-> o[k]]
  BY DEF Keys, Occurrences
<1> HIDE DEF o, q, key
<1>3. ~Sampled(r) => q = o
  BY <1>1, <1>2
<1>4. Sampled(r) => q = [o EXCEPT ![key] = @ + 1]
  BY <1>1, <1>2
<1> QED BY <1>3, <1>4 DEF o, q, key

LEMMA OccurrencesPlus ==
  ASSUME NEW c \in Counts, NEW d \in Counts
  PROVE  Occurrences(Plus(c, d)) = [k \in Keys |-> Occurrences(c)[k] + Occurrences(d)[k]]
<1>1. ASSUME NEW k \in Keys PROVE Occurrences(Plus(c, d))[k] = Occurrences(c)[k] + Occurrences(d)[k]
  <2>1. SampledAs(k) \in SUBSET Results
    BY DEF SampledAs
  <2>2. CountOf(Plus(c, d), SampledAs(k)) = CountOf(c, SampledAs(k)) + CountOf(d, SampledAs(k))
    BY <2>1, CountPlus
  <2> QED BY <2>2 DEF Occurrences
<1>2. Occurrences(Plus(c, d)) = [k \in Keys |-> Occurrences(Plus(c, d))[k]]
  BY DEF Occurrences
<1> QED BY <1>1, <1>2

-----------------------------------------------------------------------------
(* Recording and merging keep metrics true to their results                 *)

\* m is about the results that c counts; if `full`, so are its error samples.
Keeps(full, m, c) ==
    /\ m \in Recordings /\ c \in Counts /\ Represents(m, c)
    /\ full => Tallies(m.errors, Occurrences(c))

LEMMA NewKeeps == \A full \in BOOLEAN : Keeps(full, NewWorkerMetrics, Nothing)
<1>1. NewWorkerMetrics \in Recordings /\ Nothing \in Counts /\ Represents(NewWorkerMetrics, Nothing)
  BY NewIsTyped, NewRepresents, CountOfNothing
<1>2. NewWorkerMetrics.errors = <<>> /\ Len(<<>>) = 0 /\ 1..0 = {} /\ MaxErrorSamples \in Nat
  BY MetricsAssumption DEF NewWorkerMetrics
<1>3. KindsOf(Occurrences(Nothing)) = {}
  <2>1. Kinds(Nothing) = {}
    BY DEF Kinds, Nothing
  <2> QED BY <1>1, <2>1, OccurrencesFacts
<1>4. Tallies(<<>>, Occurrences(Nothing))
  BY <1>2, <1>3 DEF Tallies
<1> QED BY <1>1, <1>2, <1>4 DEF Keeps

LEMMA RecordKeeps ==
  ASSUME NEW full \in BOOLEAN, NEW m, NEW c, Keeps(full, m, c), NEW r \in Results
  PROVE  Keeps(full, RecordResult(m, r), Bump(c, r))
<1> DEFINE k == RecordResult(m, r)
           e == k.errors
           key == ErrorKey(r)
<1>1. m \in Recordings /\ c \in Counts /\ Represents(m, c)
  BY DEF Keeps
<1>2. m.errors \in Seq(Samples) /\ key \in Keys /\ 1 \in Nat /\ 1 > 0
  BY <1>1 DEF Recordings, Keys
<1>3. /\ Sampled(r) => e = AddErrors(m.errors, key, 1)
      /\ ~Sampled(r) => e = m.errors
  <2>1. k = RecordResult(m, r)
    OBVIOUS
  <2> HIDE DEF k
  <2>2. Recorded(m, r, k)
    BY <1>1, <2>1, RecordFields
  <2> QED BY <2>2 DEF Recorded, recordErrorSample
<1> HIDE DEF key, e
<1>4. e \in Seq(Samples)
  BY <1>2, <1>3, AddErrorsFacts
<1>5. k \in Recordings /\ Represents(k, Bump(c, r))
  <2> HIDE DEF k
  <2>1. k = RecordResult(m, r) /\ k.errors \in Seq(Samples)
    BY <1>4 DEF k, e
  <2> QED BY <1>1, <2>1, RecordRepresents
<1>6. Bump(c, r) \in Counts
  BY <1>1, CountBump
<1>7. ASSUME full PROVE Tallies(e, Occurrences(Bump(c, r)))
  <2> DEFINE o == Occurrences(c)
             b == m.errors
  <2>1. Tallies(b, o) /\ b \in Seq(Samples) /\ o \in [Keys -> Nat]
    BY <1>1, <1>2, <1>7, OccurrencesFacts DEF Keeps
  <2> HIDE DEF o, b
  <2>2. CASE Sampled(r)
    <3>1. e = AddErrors(b, key, 1)
      BY <1>3, <2>2 DEF b
    <3>2. Tallies(e, [o EXCEPT ![key] = @ + 1])
      BY <1>2, <2>1, <3>1, AddErrorsTallies
    <3>3. Occurrences(Bump(c, r)) = [o EXCEPT ![key] = @ + 1]
      BY <1>1, <2>2, OccurrencesBump DEF o, key
    <3> QED BY <3>2, <3>3
  <2>3. CASE ~Sampled(r)
    <3>1. e = b /\ Occurrences(Bump(c, r)) = o
      BY <1>1, <1>3, <2>3, OccurrencesBump DEF b, o
    <3> QED BY <2>1, <3>1
  <2> QED BY <2>2, <2>3
<1> QED BY <1>5, <1>6, <1>7 DEF Keeps, e

LEMMA MergeWorkerKeeps ==
  ASSUME NEW full \in BOOLEAN, NEW m, NEW c, Keeps(full, m, c), NEW n, NEW d, Keeps(full, n, d)
  PROVE  Keeps(full, MergeWorker(m, n), Plus(c, d))
<1> DEFINE e == AddSamples(m.errors, n.errors)
           k == CombineWith(m, n, e)
<1>1. /\ m \in Recordings /\ c \in Counts /\ Represents(m, c)
      /\ n \in Recordings /\ d \in Counts /\ Represents(n, d)
  BY DEF Keeps
<1>2. m.errors \in Seq(Samples) /\ n.errors \in Seq(Samples)
  BY <1>1 DEF Recordings
<1>3. e \in Seq(Samples)
  BY <1>2, AddSamplesTyped
<1>4. MergeWorker(m, n) = k
  BY DEF MergeWorker, CombineWith
<1>5. k \in Recordings /\ Represents(k, Plus(c, d)) /\ k.errors = e
  <2> HIDE DEF e
  <2> QED BY <1>1, <1>3, CombineRepresents
<1>6. Plus(c, d) \in Counts
  BY <1>1, CountPlus
<1>7. ASSUME full PROVE Tallies(e, Occurrences(Plus(c, d)))
  <2> DEFINE a == m.errors
             b == n.errors
             o == Occurrences(c)
             q == Occurrences(d)
  <2>1. Tallies(a, o) /\ Tallies(b, q) /\ a \in Seq(Samples) /\ b \in Seq(Samples) /\ o \in [Keys -> Nat] /\ q \in [Keys -> Nat]
    BY <1>1, <1>2, <1>7, OccurrencesFacts DEF Keeps
  <2>2. e = AddSamples(a, b)
    OBVIOUS
  <2>3. Occurrences(Plus(c, d)) = [x \in Keys |-> o[x] + q[x]]
    BY <1>1, OccurrencesPlus
  <2> HIDE DEF a, b, o, q, e
  <2>4. Tallies(AddSamples(a, b), [x \in Keys |-> o[x] + q[x]])
    BY <2>1, AddSamplesTallies
  <2> QED BY <2>2, <2>3, <2>4
<1> HIDE DEF e, k
<1> QED BY <1>4, <1>5, <1>6, <1>7 DEF Keeps

\* The collector's merge, which says nothing about the counts of the samples
LEMMA mergeWorkerMetricsKeeps ==
  ASSUME NEW m, NEW c, Keeps(FALSE, m, c), NEW n, NEW d, Keeps(FALSE, n, d)
  PROVE  Keeps(FALSE, mergeWorkerMetrics(m, n), Plus(c, d))
<1> DEFINE ones == [i \in DOMAIN n.errors |-> [n.errors[i] EXCEPT !.count = 1]]
           e == AddSamples(m.errors, ones)
           k == CombineWith(m, n, e)
<1>1. /\ m \in Recordings /\ c \in Counts /\ Represents(m, c)
      /\ n \in Recordings /\ d \in Counts /\ Represents(n, d)
  BY DEF Keeps
<1>2. m.errors \in Seq(Samples) /\ n.errors \in Seq(Samples)
  BY <1>1 DEF Recordings
<1>3. ones \in Seq(Samples)
  <2> DEFINE b == n.errors
             size == Len(b)
  <2>1. size \in Nat /\ DOMAIN b = 1..size /\ \A i \in 1..size : b[i] \in Samples
    BY <1>2
  <2>2. \A i \in 1..size : [b[i] EXCEPT !.count = 1] \in Samples
    BY <2>1 DEF Samples
  <2>3. ones \in [1..size -> Samples]
    <3> HIDE DEF b, size
    <3>1. ones = [i \in DOMAIN b |-> [b[i] EXCEPT !.count = 1]]
      BY DEF b
    <3> QED BY <2>1, <2>2, <3>1
  <2> HIDE DEF size, ones
  <2> QED BY <2>1, <2>3, FunctionIsSeq
<1>4. mergeWorkerMetrics(m, n) = k
  BY DEF mergeWorkerMetrics, CombineWith
<1> HIDE DEF ones
<1>5. e \in Seq(Samples)
  BY <1>2, <1>3, AddSamplesTyped
<1>6. k \in Recordings /\ Represents(k, Plus(c, d))
  <2> HIDE DEF e
  <2> QED BY <1>1, <1>5, CombineRepresents
<1>7. Plus(c, d) \in Counts
  BY <1>1, CountPlus
<1> HIDE DEF e, k
<1> QED BY <1>4, <1>6, <1>7 DEF Keeps

LEMMA MergeWorkerTyped ==
  ASSUME NEW m \in Recordings, NEW n \in Recordings
  PROVE  MergeWorker(m, n) \in Recordings
<1> DEFINE e == AddSamples(m.errors, n.errors)
           k == CombineWith(m, n, e)
<1>1. /\ m.outcomes \in [Outcomes -> Nat] /\ m.codes \in [Statuses -> Nat]
      /\ m.all \in Nat /\ m.success \in Nat /\ m.throttled \in Nat /\ m.headers \in Headers /\ m.errors \in Seq(Samples)
      /\ n.outcomes \in [Outcomes -> Nat] /\ n.codes \in [Statuses -> Nat]
      /\ n.all \in Nat /\ n.success \in Nat /\ n.throttled \in Nat /\ n.headers \in Headers /\ n.errors \in Seq(Samples)
  BY DEF Recordings
<1>2. MergeWorker(m, n) = k
  BY DEF MergeWorker, CombineWith
<1>3. e \in Seq(Samples)
  BY <1>1, AddSamplesTyped
<1> HIDE DEF e
<1>4. /\ k.outcomes = AddPointwise(m.outcomes, n.outcomes)
      /\ k.codes = AddPointwise(m.codes, n.codes)
      /\ k.all = m.all + n.all
      /\ k.success = m.success + n.success
      /\ k.throttled = m.throttled + n.throttled
      /\ k.errors = e
      /\ k.headers = mergeHeaderConsistency(m.headers, n.headers)
      /\ k = [outcomes |-> k.outcomes, codes |-> k.codes, all |-> k.all, success |-> k.success,
              throttled |-> k.throttled, errors |-> k.errors, headers |-> k.headers]
  BY CombineFields
<1> HIDE DEF k
<1>5. k.outcomes \in [Outcomes -> Nat] /\ k.codes \in [Statuses -> Nat]
  BY <1>1, <1>4, SMTT(60) DEF AddPointwise
<1>6. k.all \in Nat /\ k.success \in Nat /\ k.throttled \in Nat
  BY <1>1, <1>4, SMTT(60)
<1>7. k.headers \in Headers
  BY <1>1, <1>4, mergeHeaderTyped
<1> QED BY <1>2, <1>3, <1>4, <1>5, <1>6, <1>7 DEF Recordings

\* The loop over the workers, step by step
MergesUpTo(f, workers, chosen) ==
    /\ f[0] = NewWorkerMetrics
    /\ \A i \in 1..Len(workers) :
          f[i] = IF i \in chosen THEN MergeWorker(f[i - 1], workers[i]) ELSE f[i - 1]

LEMMA MergeWorkersTrace ==
  ASSUME NEW workers \in Seq(Recordings), NEW chosen
  PROVE  \E f \in [0..Len(workers) -> Recordings] :
            MergesUpTo(f, workers, chosen) /\ MergeWorkers(workers, chosen) = f[Len(workers)]
<1> DEFINE n == Len(workers)
           S == Recordings
           a == NewWorkerMetrics
           Step(v, i) == IF i \in chosen THEN MergeWorker(v, workers[i]) ELSE v
           g == [p \in (1..n) \X S |-> Step(p[2], p[1])]
           Is(f) == f = [i \in 0..n |-> IF i = 0 THEN a ELSE Step(f[i - 1], i)]
           upTo == CHOOSE f : Is(f)
<1>1. n \in Nat /\ \A i \in 1..n : workers[i] \in S
  OBVIOUS
<1>2. \A i \in 1..n : \A v \in S : Step(v, i) \in S
  BY <1>1, MergeWorkerTyped
<1>3. MergeWorkers(workers, chosen) = upTo[n]
  <2> DEFINE Js(f) == f = [i \in 0..n |-> IF i = 0 THEN a ELSE IF i \in chosen THEN MergeWorker(f[i - 1], workers[i]) ELSE f[i - 1]]
  <2>1. MergeWorkers(workers, chosen) = (CHOOSE f : Js(f))[n]
    BY DEF MergeWorkers
  <2> QED BY <2>1
<1> HIDE DEF Step, a
<1>4. \A i \in 1..n : \A v \in S : g[<<i, v>>] = Step(v, i) /\ g[<<i, v>>] \in S
  BY <1>1, <1>2
<1>5. a \in S
  BY NewIsTyped DEF a
<1> HIDE DEF S
<1>6. PICK f \in [0..n -> S] : IsRecursive(f, n, a, g)
  <2> HIDE DEF g, n
  <2> QED BY <1>1, <1>4, <1>5, RecursionExists
<1>7. Is(f)
  <2> HIDE DEF g
  <2>1. f = [i \in 0..n |-> IF i = 0 THEN a ELSE g[<<i, f[i - 1]>>]]
    BY <1>6 DEF IsRecursive
  <2>2. ASSUME NEW i \in 0..n
        PROVE  (IF i = 0 THEN a ELSE g[<<i, f[i - 1]>>]) = IF i = 0 THEN a ELSE Step(f[i - 1], i)
    <3>1. i # 0 => i \in 1..n /\ f[i - 1] \in S
      BY <1>1
    <3> QED BY <1>4, <3>1
  <2> QED BY <2>1, <2>2
<1>8. Is(upTo)
  <2> HIDE DEF Is
  <2> QED BY <1>7
<1>9. /\ upTo[0] = a /\ DOMAIN upTo = 0..n
      /\ \A i \in 1..n : upTo[i] = Step(upTo[i - 1], i)
  <2> HIDE DEF upTo
  <2>1. \A i \in 0..n : upTo[i] = IF i = 0 THEN a ELSE Step(upTo[i - 1], i)
    BY <1>8
  <2>2. DOMAIN upTo = 0..n
    BY <1>8
  <2> HIDE DEF Is, n
  <2> QED BY <1>1, <2>1, <2>2
<1>10. upTo \in [0..n -> S]
  <2> DEFINE P == {i \in 0..n : upTo[i] \in S}
  <2>1. 0 \in P
    BY <1>1, <1>5, <1>9
  <2>2. ASSUME NEW i \in 0..(n - 1), i \in P PROVE i + 1 \in P
    <3>1. i + 1 \in 1..n /\ (i + 1) - 1 = i /\ upTo[i] \in S
      BY <1>1, <2>2
    <3> HIDE DEF n, upTo
    <3>2. upTo[i + 1] = Step(upTo[i], i + 1)
      BY <1>9, <3>1
    <3>3. upTo[i + 1] \in S
      BY <1>2, <3>1, <3>2 DEF S
    <3> QED BY <3>1, <3>3
  <2>3. 0..n \subseteq P
    <3> HIDE DEF P, n
    <3> QED BY <1>1, <2>1, <2>2, IntervalInduction
  <2>4. upTo = [i \in 0..n |-> upTo[i]]
    <3> HIDE DEF upTo
    <3> QED BY <1>8
  <2> HIDE DEF upTo, n
  <2> QED BY <2>3, <2>4
<1> QED
  <2> HIDE DEF upTo
  <2>1. MergesUpTo(upTo, workers, chosen)
    BY <1>9 DEF Step, a, MergesUpTo
  <2> QED BY <1>3, <1>10, <2>1 DEF S

\* MergeWorkers is about the results of the chosen workers; t[i] counts those
\* of the first i.
LEMMA MergeWorkersKeeps ==
  ASSUME NEW full \in BOOLEAN, NEW workers \in Seq(Recordings), NEW chosen, NEW d, NEW t,
         t[0] = Nothing,
         \A i \in 1..Len(workers) : t[i] = IF i \in chosen THEN Plus(t[i - 1], d[i]) ELSE t[i - 1],
         \A i \in 1..Len(workers) : i \in chosen => Keeps(full, workers[i], d[i])
  PROVE  Keeps(full, MergeWorkers(workers, chosen), t[Len(workers)])
<1> DEFINE n == Len(workers)
<1>1. n \in Nat
  OBVIOUS
<1>2. PICK f \in [0..n -> Recordings] : MergesUpTo(f, workers, chosen) /\ MergeWorkers(workers, chosen) = f[n]
  BY MergeWorkersTrace
<1> DEFINE P == {i \in 0..n : Keeps(full, f[i], t[i])}
<1>3. 0 \in P
  BY <1>1, <1>2, NewKeeps DEF MergesUpTo
<1>4. ASSUME NEW i \in 0..(n - 1), i \in P PROVE i + 1 \in P
  <2>1. i + 1 \in 1..n /\ i + 1 \in 0..n /\ (i + 1) - 1 = i /\ Keeps(full, f[i], t[i])
    BY <1>1, <1>4
  <2>2. CASE i + 1 \in chosen
    <3>1. f[i + 1] = MergeWorker(f[i], workers[i + 1]) /\ t[i + 1] = Plus(t[i], d[i + 1])
      BY <1>2, <2>1, <2>2 DEF MergesUpTo
    <3>2. Keeps(full, workers[i + 1], d[i + 1])
      BY <2>1, <2>2
    <3>3. Keeps(full, MergeWorker(f[i], workers[i + 1]), Plus(t[i], d[i + 1]))
      BY <2>1, <3>2, MergeWorkerKeeps
    <3> QED BY <2>1, <3>1, <3>3
  <2>3. CASE i + 1 \notin chosen
    <3>1. f[i + 1] = f[i] /\ t[i + 1] = t[i]
      BY <1>2, <2>1, <2>3 DEF MergesUpTo
    <3> QED BY <2>1, <3>1
  <2> QED BY <2>2, <2>3
<1>5. n \in P
  <2>1. 0..n \subseteq P
    <3> HIDE DEF P, n
    <3> QED BY <1>1, <1>3, <1>4, IntervalInduction
  <2> QED BY <1>1, <2>1
<1> QED BY <1>2, <1>5

-----------------------------------------------------------------------------
(* Totals                                                                   *)

\* The results of all of S, where d[x] counts those of x
Total(d, S) == [r \in Results |-> SumFunctionOnSet([x \in S |-> d[x][r]], S)]

LEMMA TotalIsCounts ==
  ASSUME NEW S, IsFiniteSet(S), NEW d, \A x \in S : d[x] \in Counts
  PROVE  Total(d, S) \in Counts
<1>1. ASSUME NEW r \in Results PROVE SumFunctionOnSet([x \in S |-> d[x][r]], S) \in Nat
  <2> DEFINE f == [x \in S |-> d[x][r]]
  <2>1. \A x \in S : f[x] \in Nat
    BY DEF Counts
  <2> HIDE DEF f
  <2>2. SumFunctionOnSet(f, S) \in Nat
    BY <2>1, SumNat
  <2> QED BY <2>2 DEF f
<1> QED BY <1>1 DEF Total, Counts

LEMMA TotalOfNone ==
  ASSUME NEW d
  PROVE  Total(d, {}) = Nothing
BY SumEmpty DEF Total, Nothing

LEMMA TotalSame ==
  ASSUME NEW S, NEW d, NEW e, \A x \in S : d[x] = e[x]
  PROVE  Total(d, S) = Total(e, S)
<1>1. ASSUME NEW r \in Results PROVE [x \in S |-> d[x][r]] = [x \in S |-> e[x][r]]
  OBVIOUS
<1> QED BY <1>1 DEF Total

LEMMA TotalOfOne ==
  ASSUME NEW d, NEW x, d[x] \in Counts
  PROVE  Total(d, {x}) = d[x]
<1>1. ASSUME NEW r \in Results PROVE SumFunctionOnSet([y \in {x} |-> d[y][r]], {x}) = d[x][r]
  <2> DEFINE f == [y \in {x} |-> d[y][r]]
  <2>1. f[x] = d[x][r] /\ f[x] \in Int
    BY DEF Counts
  <2> HIDE DEF f
  <2>2. SumFunctionOnSet(f, {x}) = f[x]
    BY <2>1, SumOne
  <2> QED BY <2>1, <2>2 DEF f
<1>2. d[x] = [r \in Results |-> d[x][r]]
  BY DEF Counts
<1>3. Total(d, {x}) = [r \in Results |-> d[x][r]]
  BY <1>1 DEF Total
<1> QED BY <1>2, <1>3

LEMMA TotalInsert ==
  ASSUME NEW S, IsFiniteSet(S), NEW y, y \notin S, NEW d, \A x \in S \cup {y} : d[x] \in Counts
  PROVE  Total(d, S \cup {y}) = Plus(Total(d, S), d[y])
<1>1. ASSUME NEW r \in Results
      PROVE  SumFunctionOnSet([x \in S \cup {y} |-> d[x][r]], S \cup {y}) =
                 SumFunctionOnSet([x \in S |-> d[x][r]], S) + d[y][r]
  <2> DEFINE f == [x \in S \cup {y} |-> d[x][r]]
             g == [x \in S |-> d[x][r]]
  <2>1. (\A x \in S \cup {y} : f[x] \in Int) /\ f[y] = d[y][r]
    BY DEF Counts
  <2>2. \A x \in S : f[x] \in Int /\ g[x] = f[x]
    BY DEF Counts
  <2> HIDE DEF f, g
  <2>3. SumFunctionOnSet(f, S \cup {y}) = SumFunctionOnSet(f, S) + f[y]
    BY <2>1, SumInsert
  <2>4. SumFunctionOnSet(g, S) = SumFunctionOnSet(f, S)
    BY <2>2, SumSame
  <2> QED BY <2>1, <2>3, <2>4 DEF f, g
<1>2. \A r \in Results : Total(d, S)[r] = SumFunctionOnSet([x \in S |-> d[x][r]], S)
  BY DEF Total
<1> QED BY <1>1, <1>2 DEF Total, Plus

LEMMA TotalChange ==
  ASSUME NEW S, IsFiniteSet(S), NEW y \in S, NEW d, NEW e, NEW c \in Counts, \A x \in S : d[x] \in Counts,
         \A x \in S : x # y => e[x] = d[x], e[y] = Plus(d[y], c)
  PROVE  Total(e, S) = Plus(Total(d, S), c)
<1>1. ASSUME NEW r \in Results
      PROVE  SumFunctionOnSet([x \in S |-> e[x][r]], S) = SumFunctionOnSet([x \in S |-> d[x][r]], S) + c[r]
  <2> DEFINE f == [x \in S |-> d[x][r]]
             g == [x \in S |-> e[x][r]]
  <2>1. /\ \A x \in S : f[x] \in Int
        /\ \A x \in S \ {y} : g[x] = f[x]
        /\ c[r] \in Int
    BY DEF Counts
  <2>2. g[y] = f[y] + c[r]
    BY DEF Plus
  <2> HIDE DEF f, g
  <2>3. SumFunctionOnSet(g, S) = SumFunctionOnSet(f, S) + c[r]
    BY <2>1, <2>2, SumChange
  <2> QED BY <2>3 DEF f, g
<1>2. \A r \in Results : Total(d, S)[r] = SumFunctionOnSet([x \in S |-> d[x][r]], S)
  BY DEF Total
<1> QED BY <1>1, <1>2 DEF Total, Plus

\* A table of results may be totalled either way.
LEMMA TotalSwap ==
  ASSUME NEW A, NEW B, IsFiniteSet(A), IsFiniteSet(B), NEW d, \A a \in A : \A b \in B : d[a][b] \in Counts
  PROVE  Total([a \in A |-> Total(d[a], B)], A) = Total([b \in B |-> Total([a \in A |-> d[a][b]], A)], B)
<1> DEFINE left == [a \in A |-> Total(d[a], B)]
           column(b) == [a \in A |-> d[a][b]]
           right == [b \in B |-> Total(column(b), A)]
<1>1. ASSUME NEW r \in Results
      PROVE  SumFunctionOnSet([a \in A |-> left[a][r]], A) = SumFunctionOnSet([b \in B |-> right[b][r]], B)
  <2> DEFINE f == [a \in A |-> [b \in B |-> d[a][b][r]]]
  <2>1. \A a \in A : \A b \in B : f[a][b] = d[a][b][r] /\ f[a][b] \in Int
    BY DEF Counts
  <2>2. [a \in A |-> left[a][r]] = Rows(f, A, B)
    <3>1. ASSUME NEW a \in A PROVE left[a][r] = SumFunctionOnSet([b \in B |-> f[a][b]], B)
      <4>1. [b \in B |-> f[a][b]] = [b \in B |-> d[a][b][r]]
        BY <2>1
      <4>2. left[a][r] = SumFunctionOnSet([b \in B |-> d[a][b][r]], B)
        BY DEF Total
      <4> QED BY <4>1, <4>2
    <3> HIDE DEF left, f
    <3> QED BY <3>1 DEF Rows
  <2>3. [b \in B |-> right[b][r]] = Columns(f, A, B)
    <3>1. ASSUME NEW b \in B PROVE right[b][r] = SumFunctionOnSet([a \in A |-> f[a][b]], A)
      <4>1. [a \in A |-> f[a][b]] = [a \in A |-> column(b)[a][r]]
        BY <2>1
      <4>2. right[b] = Total(column(b), A)
        OBVIOUS
      <4>3. Total(column(b), A)[r] = SumFunctionOnSet([a \in A |-> column(b)[a][r]], A)
        BY DEF Total
      <4> QED BY <4>1, <4>2, <4>3
    <3> HIDE DEF right, f
    <3> QED BY <3>1 DEF Columns
  <2> HIDE DEF f, left, right
  <2>4. SumFunctionOnSet(Rows(f, A, B), A) = SumFunctionOnSet(Columns(f, A, B), B)
    BY <2>1, SumSwap
  <2> QED BY <2>2, <2>3, <2>4
<1> HIDE DEF left, right
<1>2. Total(left, A) = Total(right, B)
  BY <1>1 DEF Total
<1> QED BY <1>2 DEF left, right

\* One more result, as a sum
Single(r) == [x \in Results |-> IF x = r THEN 1 ELSE 0]

LEMMA BumpIsPlus ==
  ASSUME NEW c \in Counts, NEW r \in Results
  PROVE  Single(r) \in Counts /\ Bump(c, r) = Plus(c, Single(r))
<1>1. Single(r) \in Counts
  BY DEF Single, Counts
<1>2. c = [x \in Results |-> c[x]] /\ \A x \in Results : c[x] \in Nat
  BY DEF Counts
<1>3. Bump(c, r) = [x \in Results |-> c[x] + (IF x = r THEN 1 ELSE 0)]
  BY <1>2 DEF Bump
<1>4. Plus(c, Single(r)) = [x \in Results |-> c[x] + (IF x = r THEN 1 ELSE 0)]
  BY DEF Plus, Single
<1> QED BY <1>1, <1>3, <1>4

LEMMA PlusNothing ==
  ASSUME NEW c \in Counts
  PROVE  Plus(c, Nothing) = c /\ Plus(Nothing, c) = c
BY DEF Plus, Nothing, Counts

LEMMA TotalOfNothing ==
  ASSUME NEW S, IsFiniteSet(S), NEW d, \A x \in S : d[x] = Nothing
  PROVE  Total(d, S) = Nothing
<1>1. ASSUME NEW r \in Results PROVE SumFunctionOnSet([x \in S |-> d[x][r]], S) = 0
  <2> DEFINE f == [x \in S |-> d[x][r]]
  <2>1. \A x \in S : f[x] = 0
    BY DEF Nothing
  <2> HIDE DEF f
  <2>2. SumFunctionOnSet(f, S) = 0
    BY <2>1, SumZero
  <2> QED BY <2>2 DEF f
<1> QED BY <1>1 DEF Total, Nothing

\* What Run merges: the dispatcher's empty metrics and those of all workers
LEMMA DispatcherKeeps ==
  ASSUME NEW full \in BOOLEAN, NEW ws \in Seq(Recordings), NEW d,
         \A i \in 1..Len(ws) : Keeps(full, ws[i], d[i])
  PROVE  Keeps(full, MergeWorkers(WithDispatcher(ws), 1..(Len(ws) + 1)), Total(d, 1..Len(ws)))
<1> DEFINE n == Len(ws)
           all == WithDispatcher(ws)
           c == [i \in 1..(n + 1) |-> IF i = 1 THEN Nothing ELSE d[i - 1]]
           t == [i \in 0..(n + 1) |-> IF i = 0 THEN Nothing ELSE Total(d, 1..(i - 1))]
<1>1. n \in Nat /\ \A i \in 1..n : d[i] \in Counts
  BY DEF Keeps
<1>2. /\ all \in Seq(Recordings) /\ Len(all) = n + 1 /\ all[1] = NewWorkerMetrics
      /\ \A i \in 2..(n + 1) : all[i] = ws[i - 1]
  <2> DEFINE u == <<NewWorkerMetrics>>
  <2>1. u \in Seq(Recordings) /\ Len(u) = 1 /\ u[1] = NewWorkerMetrics
    BY NewIsTyped
  <2>2. all = u \o ws
    BY DEF WithDispatcher
  <2> HIDE DEF u, all
  <2>3. /\ all \in Seq(Recordings) /\ Len(all) = 1 + n
        /\ \A i \in 1..(1 + n) : all[i] = IF i <= 1 THEN u[i] ELSE ws[i - 1]
    BY <2>1, <2>2, ConcatProperties, SMTT(60)
  <2> QED BY <1>1, <2>1, <2>3
<1>3. \A i \in 1..(n + 1) : Keeps(full, all[i], c[i])
  <2> SUFFICES ASSUME NEW i \in 1..(n + 1) PROVE Keeps(full, all[i], c[i])
    OBVIOUS
  <2> HIDE DEF all, n
  <2>1. CASE i = 1
    <3>1. c[i] = Nothing /\ all[i] = NewWorkerMetrics
      BY <1>2, <2>1
    <3> QED BY <3>1, NewKeeps
  <2>2. CASE i # 1
    <3>1. i - 1 \in 1..n /\ i \in 2..(n + 1) /\ c[i] = d[i - 1]
      BY <1>1, <2>2
    <3>2. all[i] = ws[i - 1]
      BY <1>2, <3>1
    <3> QED BY <3>1, <3>2 DEF n
  <2> QED BY <2>1, <2>2
<1>4. t[0] = Nothing /\ t[n + 1] = Total(d, 1..n)
  BY <1>1
<1>5. ASSUME NEW i \in 1..(n + 1) PROVE t[i] = Plus(t[i - 1], c[i])
  <2> HIDE DEF n
  <2>1. CASE i = 1
    <3>1. 1..(i - 1) = {} /\ i \in 0..(n + 1) /\ i # 0 /\ i - 1 = 0 /\ 0 \in 0..(n + 1)
      BY <1>1, <2>1
    <3>2. t[i] = Nothing
      BY <3>1, TotalOfNone
    <3>3. t[i - 1] = Nothing /\ c[i] = Nothing
      BY <2>1, <3>1
    <3> QED BY <3>2, <3>3, PlusNothing, CountOfNothing
  <2>2. CASE i # 1
    <3> DEFINE S == 1..(i - 2)
               y == i - 1
    <3>1. /\ i \in 0..(n + 1) /\ i # 0 /\ y \in 0..(n + 1) /\ y # 0 /\ (i - 1) - 1 = i - 2
          /\ 1..(i - 1) = S \cup {y} /\ y \notin S /\ y \in 1..n /\ S \subseteq 1..n
      BY <1>1, <2>2
    <3>2. IsFiniteSet(S)
      <4>1. 1 \in Int /\ i - 2 \in Int
        BY <1>1
      <4> QED BY <4>1, FS_Interval
    <3>3. t[i] = Total(d, S \cup {y}) /\ t[i - 1] = Total(d, S) /\ c[i] = d[y]
      BY <2>2, <3>1
    <3> HIDE DEF S, y
    <3>4. Total(d, S \cup {y}) = Plus(Total(d, S), d[y])
      BY <1>1, <3>1, <3>2, TotalInsert
    <3> QED BY <3>3, <3>4
  <2> QED BY <2>1, <2>2
<1>6. Keeps(full, MergeWorkers(all, 1..(n + 1)), t[n + 1])
  <2> DEFINE chosen == 1..(n + 1)
  <2>1. \A i \in 1..Len(all) : i \in chosen
    BY <1>2
  <2>2. \A i \in 1..Len(all) : t[i] = IF i \in chosen THEN Plus(t[i - 1], c[i]) ELSE t[i - 1]
    <3> HIDE DEF t, c, chosen
    <3> QED BY <1>2, <1>5, <2>1
  <2>3. \A i \in 1..Len(all) : i \in chosen => Keeps(full, all[i], c[i])
    <3> HIDE DEF c, chosen, all
    <3> QED BY <1>2, <1>3
  <2> HIDE DEF t, c, chosen, all
  <2>4. Keeps(full, MergeWorkers(all, chosen), t[Len(all)])
    BY <1>2, <1>4, <2>2, <2>3, MergeWorkersKeeps
  <2> QED BY <1>2, <2>4 DEF chosen
<1> QED BY <1>4, <1>6

\* MergeAggregates is about the results of the chosen inputs.
LEMMA MergeAggregatesKeeps ==
  ASSUME NEW full \in BOOLEAN, NEW inputs \in Seq(Recordings), NEW chosen, chosen \subseteq 1..Len(inputs), NEW d,
         \A i \in 1..Len(inputs) : Keeps(full, inputs[i], d[i])
  PROVE  Keeps(full, MergeAggregates(inputs, chosen), Total(d, chosen))
<1> DEFINE n == Len(inputs)
           t == [i \in 0..n |-> Total(d, chosen \cap 1..i)]
<1>1. n \in Nat /\ \A i \in 1..n : d[i] \in Counts
  BY DEF Keeps
<1>2. t[0] = Nothing /\ t[n] = Total(d, chosen)
  <2>1. chosen \subseteq 1..n
    OBVIOUS
  <2> HIDE DEF n
  <2>2. chosen \cap 1..n = chosen
    BY <2>1
  <2>3. chosen \cap 1..0 = {}
    OBVIOUS
  <2>4. 0 \in 0..n /\ n \in 0..n
    BY <1>1
  <2> QED BY <2>2, <2>3, <2>4, TotalOfNone
<1>3. ASSUME NEW i \in 1..n PROVE t[i] = IF i \in chosen THEN Plus(t[i - 1], d[i]) ELSE t[i - 1]
  <2> DEFINE S == chosen \cap 1..(i - 1)
  <2>1. t[i] = Total(d, chosen \cap 1..i) /\ t[i - 1] = Total(d, S)
    BY <1>1
  <2>2. CASE i \in chosen
    <3>1. chosen \cap 1..i = S \cup {i} /\ i \notin S /\ S \cup {i} \subseteq 1..n
      BY <1>1, <2>2
    <3>2. IsFiniteSet(S)
      <4>1. IsFiniteSet(1..(i - 1)) /\ S \in SUBSET (1..(i - 1))
        <5>1. 1 \in Int /\ i - 1 \in Int
          BY <1>1
        <5> QED BY <5>1, FS_Interval
      <4> QED BY <4>1, FS_Subset
    <3>3. \A x \in S \cup {i} : d[x] \in Counts
      BY <1>1, <3>1
    <3> HIDE DEF S, t, n
    <3>4. Total(d, S \cup {i}) = Plus(Total(d, S), d[i])
      BY <3>1, <3>2, <3>3, TotalInsert
    <3> QED BY <2>1, <2>2, <3>1, <3>4
  <2>3. CASE i \notin chosen
    <3>1. chosen \cap 1..i = S
      BY <1>1, <2>3
    <3> HIDE DEF S, t, n
    <3> QED BY <2>1, <2>3, <3>1
  <2> QED BY <2>2, <2>3
<1> HIDE DEF t
<1>4. Keeps(full, MergeWorkers(inputs, chosen), t[n])
  BY <1>2, <1>3, MergeWorkersKeeps
<1> QED BY <1>2, <1>4 DEF MergeAggregates

-----------------------------------------------------------------------------
(* The invariant                                                            *)

AtSegment(sn, s) == [w \in Workers |-> sn[w][s]]
PerSegment(sn) == [s \in Segments |-> Total(AtSegment(sn, s), Workers)]
PerWorker(sn) == [w \in Workers |-> Total(sn[w], Segments)]

\* The results that w has flushed into the collector of segment s
Part(sn, sg, en, s) ==
    [w \in Workers |-> IF sg[w] > s \/ (sg[w] = s /\ en[w]) THEN sn[w][s] ELSE Nothing]

TypeInv ==
    /\ overall \in [Workers -> Recordings] /\ current \in [Workers -> Recordings]
    /\ segment \in [Workers -> 0..SegmentCount] /\ ended \in [Workers -> BOOLEAN]
    /\ collected \in [Segments -> Recordings]
    /\ seen \in [Workers -> [Segments -> Counts]]

\* A worker's run-wide metrics are those of all its results, and those of its
\* segment are those of its results there until it ends.
OverallInv == \A w \in Workers : Keeps(TRUE, overall[w], Total(seen[w], Segments))
CurrentInv == \A w \in Workers : segment[w] # 0 /\ ~ended[w] => Keeps(FALSE, current[w], seen[w][segment[w]])

\* No worker has results of a segment it has not entered.
LaterInv == \A w \in Workers : \A s \in Segments : s > segment[w] => seen[w][s] = Nothing

\* A collector holds what was flushed into it.
CollectedInv == \A s \in Segments : Keeps(FALSE, collected[s], Total(Part(seen, segment, ended, s), Workers))

MergedInv ==
    merged # <<>> =>
        /\ \A w \in Workers : ended[w]
        /\ Keeps(TRUE, merged.overall, InAll)
        /\ Keeps(FALSE, merged.measured, SeenIn(Measured))
        /\ \A s \in Segments : Keeps(FALSE, merged.segments[s], SeenIn({s}))

MetricsInv == TypeInv /\ OverallInv /\ CurrentInv /\ LaterInv /\ CollectedInv /\ MergedInv

LEMMA FiniteIndices ==
  /\ IsFiniteSet(Workers) /\ IsFiniteSet(Segments) /\ PoolSize \in Nat /\ SegmentCount \in Nat
  /\ Measured \subseteq Segments
<1>1. PoolSize \in Nat /\ SegmentCount \in Nat /\ Measured \subseteq Segments
  BY MetricsAssumption
<1>2. 1 \in Int /\ PoolSize \in Int /\ SegmentCount \in Int
  BY <1>1
<1> QED BY <1>1, <1>2, FS_Interval DEF Workers, Segments

LEMMA InitMetricsInv == Init => MetricsInv
<1> SUFFICES ASSUME Init PROVE MetricsInv
  OBVIOUS
<1>1. /\ \A w \in Workers : overall[w] = NewWorkerMetrics /\ segment[w] = 0 /\ ended[w] = FALSE
      /\ \A s \in Segments : collected[s] = NewWorkerMetrics
      /\ \A w \in Workers : \A s \in Segments : seen[w][s] = Nothing
      /\ merged = <<>>
  BY DEF Init, Nothing
<1>2. TypeInv
  <2>1. NewWorkerMetrics \in Recordings /\ [r \in Results |-> 0] \in Counts
    BY NewIsTyped DEF Counts
  <2>2. overall \in [Workers -> Recordings] /\ current \in [Workers -> Recordings] /\ collected \in [Segments -> Recordings]
    BY <2>1 DEF Init
  <2>3. seen \in [Workers -> [Segments -> Counts]]
    BY <2>1 DEF Init
  <2>4. segment \in [Workers -> 0..SegmentCount] /\ ended \in [Workers -> BOOLEAN]
    BY FiniteIndices DEF Init
  <2> QED BY <2>2, <2>3, <2>4 DEF TypeInv
<1>3. OverallInv
  <2> SUFFICES ASSUME NEW w \in Workers PROVE Keeps(TRUE, overall[w], Total(seen[w], Segments))
    BY DEF OverallInv
  <2>1. Total(seen[w], Segments) = Nothing
    BY <1>1, FiniteIndices, TotalOfNothing
  <2> QED BY <1>1, <2>1, NewKeeps
<1>4. CurrentInv
  BY <1>1 DEF CurrentInv
<1>5. LaterInv
  BY <1>1 DEF LaterInv
<1>6. CollectedInv
  <2> SUFFICES ASSUME NEW s \in Segments
               PROVE  Keeps(FALSE, collected[s], Total(Part(seen, segment, ended, s), Workers))
    BY DEF CollectedInv
  <2> DEFINE p == Part(seen, segment, ended, s)
  <2>1. \A w \in Workers : p[w] = Nothing
    BY <1>1 DEF Part
  <2> HIDE DEF p
  <2>2. Total(p, Workers) = Nothing
    BY <2>1, FiniteIndices, TotalOfNothing
  <2> QED BY <1>1, <2>2, NewKeeps DEF p
<1>7. MergedInv
  BY <1>1 DEF MergedInv
<1> QED BY <1>2, <1>3, <1>4, <1>5, <1>6, <1>7 DEF MetricsInv

LEMMA RecordStep ==
  ASSUME MetricsInv, NEW w \in Workers, NEW r \in Results, Record(w, r)
  PROVE  MetricsInv'
<1> DEFINE s == segment[w]
           was == seen[w][s]
<1>1. /\ segment[w] \in 0..SegmentCount /\ segment[w] # 0 /\ SegmentCount \in Nat /\ ~ended[w]
  BY FiniteIndices DEF MetricsInv, TypeInv, Record
<1>2. s \in Segments /\ s # 0
  BY <1>1 DEF Segments
<1>3. seen \in [Workers -> [Segments -> Counts]]
  BY DEF MetricsInv, TypeInv
<1>4. was \in Counts /\ Bump(was, r) \in Counts
  BY <1>2, <1>3, CountBump
<1>5. /\ seen' \in [Workers -> [Segments -> Counts]]
      /\ seen'[w][s] = Bump(was, r)
      /\ \A t \in Segments : t # s => seen'[w][t] = seen[w][t]
      /\ \A v \in Workers : v # w => seen'[v] = seen[v]
  <2> DEFINE row == [seen[w] EXCEPT ![s] = Bump(was, r)]
  <2>1. seen' = [seen EXCEPT ![w] = row]
    BY <1>3 DEF Record, Bump
  <2>2. row \in [Segments -> Counts] /\ row[s] = Bump(was, r) /\ \A t \in Segments : t # s => row[t] = seen[w][t]
    <3> HIDE DEF was, s
    <3> QED BY <1>2, <1>3, <1>4
  <2> HIDE DEF row, was, s
  <2> QED BY <1>3, <2>1, <2>2
<1>6. /\ overall' = [overall EXCEPT ![w] = RecordResult(overall[w], r)]
      /\ current' = [current EXCEPT ![w] = RecordResult(current[w], r)]
      /\ segment' = segment /\ ended' = ended /\ collected' = collected /\ merged' = merged
      /\ overall \in [Workers -> Recordings] /\ current \in [Workers -> Recordings]
  BY DEF Record, MetricsInv, TypeInv
<1> HIDE DEF was, s
<1>7. Keeps(TRUE, overall'[w], Total(seen'[w], Segments))
  <2> DEFINE c == Total(seen[w], Segments)
  <2>1. Keeps(TRUE, overall[w], c)
    BY DEF MetricsInv, OverallInv
  <2>2. Single(r) \in Counts /\ Bump(was, r) = Plus(was, Single(r)) /\ c \in Counts
    BY <1>4, <2>1, BumpIsPlus DEF Keeps
  <2>3. Bump(c, r) = Plus(c, Single(r))
    BY <2>2, BumpIsPlus
  <2>4. Total(seen'[w], Segments) = Plus(c, Single(r))
    <3> DEFINE d == seen[w]
               e == seen'[w]
    <3>1. /\ \A t \in Segments : d[t] \in Counts
          /\ \A t \in Segments : t # s => e[t] = d[t]
          /\ e[s] = Plus(d[s], Single(r))
      BY <1>2, <1>3, <1>5, <2>2 DEF was
    <3> HIDE DEF d, e
    <3>2. Total(e, Segments) = Plus(Total(d, Segments), Single(r))
      BY <1>2, <2>2, <3>1, FiniteIndices, TotalChange
    <3> QED BY <3>2 DEF d, e
  <2> HIDE DEF c
  <2>5. Keeps(TRUE, RecordResult(overall[w], r), Bump(c, r))
    BY <2>1, RecordKeeps
  <2>6. overall'[w] = RecordResult(overall[w], r)
    BY <1>6
  <2> QED BY <2>3, <2>4, <2>5, <2>6
<1>8. Keeps(FALSE, current'[w], seen'[w][s])
  <2>1. Keeps(FALSE, current[w], was)
    BY <1>1 DEF MetricsInv, CurrentInv, was, s
  <2>2. Keeps(FALSE, RecordResult(current[w], r), Bump(was, r))
    BY <2>1, RecordKeeps
  <2>3. current'[w] = RecordResult(current[w], r)
    BY <1>6
  <2> QED BY <1>5, <2>2, <2>3
<1>9. OverallInv'
  <2>1. \A v \in Workers : v # w => overall'[v] = overall[v]
    BY <1>6
  <2>2. \A v \in Workers : v # w => Keeps(TRUE, overall'[v], Total(seen'[v], Segments))
    BY <1>5, <2>1 DEF MetricsInv, OverallInv
  <2> QED BY <1>7, <2>2 DEF OverallInv
<1>10. CurrentInv'
  <2>1. \A v \in Workers : v # w => current'[v] = current[v]
    BY <1>6
  <2>2. \A v \in Workers : v # w /\ segment[v] # 0 /\ ~ended[v] => Keeps(FALSE, current'[v], seen'[v][segment[v]])
    BY <1>5, <2>1 DEF MetricsInv, CurrentInv
  <2>3. Keeps(FALSE, current'[w], seen'[w][segment[w]])
    BY <1>8 DEF s
  <2> QED BY <1>6, <2>2, <2>3 DEF CurrentInv
<1>11. TypeInv'
  <2>1. overall'[w] \in Recordings /\ current'[w] \in Recordings
    BY <1>7, <1>8 DEF Keeps
  <2>2. overall' \in [Workers -> Recordings] /\ current' \in [Workers -> Recordings]
    BY <1>6, <2>1
  <2> QED BY <1>5, <1>6, <2>2 DEF MetricsInv, TypeInv
<1>12. LaterInv'
  <2>1. ASSUME NEW v \in Workers, NEW t \in Segments, t > segment[v] PROVE seen'[v][t] = Nothing
    <3>1. seen[v][t] = Nothing
      BY <2>1 DEF MetricsInv, LaterInv
    <3>2. v = w => t # s
      BY <1>1, <2>1 DEF s, Segments
    <3> QED BY <1>5, <3>1, <3>2
  <2> QED BY <1>6, <2>1 DEF LaterInv
<1>13. CollectedInv'
  <2>1. ASSUME NEW t \in Segments PROVE Part(seen', segment, ended, t) = Part(seen, segment, ended, t)
    <3>1. ASSUME NEW v \in Workers, segment[v] > t \/ (segment[v] = t /\ ended[v]) PROVE seen'[v][t] = seen[v][t]
      <4>1. v = w => t # s
        BY <1>1, <3>1 DEF s, Segments
      <4> QED BY <1>5, <4>1
    <3> QED BY <3>1 DEF Part
  <2> QED BY <1>6, <2>1 DEF MetricsInv, CollectedInv
<1>14. MergedInv'
  <2>1. merged = <<>>
    BY <1>1 DEF MetricsInv, MergedInv
  <2> QED BY <1>6, <2>1 DEF MergedInv
<1> QED BY <1>9, <1>10, <1>11, <1>12, <1>13, <1>14 DEF MetricsInv

\* With sg and en, what w has flushed is what it had and its results of its segment.
Flushes(w, sg, en) ==
    \A t \in Segments : \A v \in Workers :
        Part(seen, sg, en, t)[v] = IF v = w /\ t = segment[w] THEN seen[w][t] ELSE Part(seen, segment, ended, t)[v]

\* Flush adds the worker's results to the collector of its segment.
LEMMA FlushCollects ==
  ASSUME MetricsInv, NEW w \in Workers, ~ended[w], Flush(w), NEW sg, NEW en, Flushes(w, sg, en)
  PROVE  /\ collected' \in [Segments -> Recordings]
         /\ \A t \in Segments : Keeps(FALSE, collected'[t], Total(Part(seen, sg, en, t), Workers))
<1> DEFINE s == segment[w]
           Before(t) == Part(seen, segment, ended, t)
           After(t) == Part(seen, sg, en, t)
<1>1. /\ s \in 0..SegmentCount /\ collected \in [Segments -> Recordings] /\ SegmentCount \in Nat
      /\ seen \in [Workers -> [Segments -> Counts]] /\ IsFiniteSet(Workers)
  BY FiniteIndices DEF MetricsInv, TypeInv
<1>2. \A t \in Segments : Keeps(FALSE, collected[t], Total(Before(t), Workers))
  BY DEF MetricsInv, CollectedInv
<1>3. ASSUME NEW t \in Segments, t # s PROVE Total(After(t), Workers) = Total(Before(t), Workers)
  <2> HIDE DEF After, Before
  <2>1. \A v \in Workers : After(t)[v] = Before(t)[v]
    BY <1>3 DEF After, Before, Flushes
  <2> QED BY <2>1, TotalSame
<1>4. CASE s = 0
  <2>1. collected' = collected
    BY <1>4 DEF Flush
  <2>2. \A t \in Segments : t # s
    BY <1>4 DEF Segments
  <2> HIDE DEF s, After, Before
  <2>3. \A t \in Segments : Keeps(FALSE, collected'[t], Total(After(t), Workers))
    BY <1>2, <1>3, <2>1, <2>2
  <2> QED BY <1>1, <2>1, <2>3 DEF After
<1>5. CASE s # 0
  <2> DEFINE c == seen[w][s]
             b == Before(s)
             a == After(s)
             m == mergeWorkerMetrics(collected[s], current[w])
  <2>1. s \in Segments
    BY <1>1, <1>5 DEF Segments
  <2>2. collected' = [collected EXCEPT ![s] = m]
    BY <1>5 DEF Flush
  <2>3. Keeps(FALSE, current[w], c)
    BY <1>5 DEF MetricsInv, CurrentInv
  <2>4. c \in Counts /\ Nothing \in Counts
    BY <1>1, <2>1, CountOfNothing
  <2>5. b[w] = Nothing /\ a[w] = c /\ \A v \in Workers : v # w => a[v] = b[v]
    <3>1. b[w] = Nothing
      <4>1. ~(s > s)
        BY <1>1
      <4> QED BY <4>1 DEF Part
    <3>2. a[w] = c /\ \A v \in Workers : v # w => a[v] = b[v]
      BY <2>1 DEF Flushes
    <3> QED BY <3>1, <3>2
  <2>6. \A v \in Workers : b[v] \in Counts
    BY <1>1, <2>1, <2>4 DEF Part
  <2>7. Keeps(FALSE, collected[s], Total(b, Workers))
    BY <1>2, <2>1
  <2> HIDE DEF a, b, c
  <2>8. a[w] = Plus(b[w], c)
    BY <2>4, <2>5, PlusNothing
  <2>9. Total(a, Workers) = Plus(Total(b, Workers), c)
    BY <1>1, <2>4, <2>5, <2>6, <2>8, TotalChange
  <2>10. Keeps(FALSE, m, Total(a, Workers))
    <3> DEFINE x == collected[s]
               y == current[w]
               d == Total(b, Workers)
    <3>1. Keeps(FALSE, x, d) /\ Keeps(FALSE, y, c)
      BY <2>3, <2>7
    <3> HIDE DEF x, y, d
    <3>2. Keeps(FALSE, mergeWorkerMetrics(x, y), Plus(d, c))
      BY <3>1, mergeWorkerMetricsKeeps, Zenon
    <3> QED BY <2>9, <3>2 DEF x, y, d
  <2> HIDE DEF m
  <2>11. m \in Recordings
    BY <2>10 DEF Keeps
  <2> HIDE DEF s, After, Before
  <2>12. ASSUME NEW t \in Segments PROVE Keeps(FALSE, collected'[t], Total(After(t), Workers))
    <3>1. CASE t = s
      BY <1>1, <2>1, <2>2, <2>10, <3>1 DEF a
    <3>2. CASE t # s
      <4>1. collected'[t] = collected[t]
        BY <1>1, <2>2, <3>2
      <4> QED BY <1>2, <1>3, <3>2, <4>1
    <3> QED BY <3>1, <3>2
  <2>13. collected' \in [Segments -> Recordings]
    BY <1>1, <2>2, <2>11
  <2> QED BY <2>12, <2>13 DEF After
<1> QED BY <1>4, <1>5

LEMMA EnterSegmentStep ==
  ASSUME MetricsInv, NEW w \in Workers, NEW s \in Segments, EnterSegment(w, s)
  PROVE  MetricsInv'
<1>1. /\ segment \in [Workers -> 0..SegmentCount] /\ ended \in [Workers -> BOOLEAN] /\ SegmentCount \in Nat
      /\ current \in [Workers -> Recordings] /\ s \in Int /\ s \in 0..SegmentCount /\ s # 0
  BY FiniteIndices DEF MetricsInv, TypeInv, Segments
<1>2. /\ ~ended[w] /\ s > segment[w] /\ Flush(w)
      /\ current' = [current EXCEPT ![w] = NewWorkerMetrics]
      /\ segment' = [segment EXCEPT ![w] = s]
      /\ overall' = overall /\ ended' = ended /\ merged' = merged /\ seen' = seen
  BY DEF EnterSegment
<1>3. \A v \in Workers : \A t \in Segments : t > segment[v] => seen[v][t] = Nothing
  BY DEF MetricsInv, LaterInv
<1>4. segment'[w] = s /\ \A v \in Workers : v # w => segment'[v] = segment[v] /\ current'[v] = current[v]
  BY <1>1, <1>2
<1>5. ASSUME NEW t \in Segments, NEW v \in Workers
      PROVE  Part(seen, segment', ended', t)[v] =
                 IF v = w /\ t = segment[w] THEN seen[w][t] ELSE Part(seen, segment, ended, t)[v]
  <2>1. t \in Int /\ segment[v] \in Int /\ segment[w] \in Int
    BY <1>1 DEF Segments
  <2>2. /\ Part(seen, segment', ended', t)[v] =
               IF segment'[v] > t \/ (segment'[v] = t /\ ended'[v]) THEN seen[v][t] ELSE Nothing
        /\ Part(seen, segment, ended, t)[v] =
               IF segment[v] > t \/ (segment[v] = t /\ ended[v]) THEN seen[v][t] ELSE Nothing
    BY DEF Part
  <2>3. CASE v # w
    BY <1>2, <1>4, <2>2, <2>3
  <2>4. CASE v = w /\ t = segment[w]
    BY <1>1, <1>2, <1>4, <2>1, <2>2, <2>4
  <2>5. CASE v = w /\ t < segment[w]
    BY <1>1, <1>2, <1>4, <2>1, <2>2, <2>5
  <2>6. CASE v = w /\ t > segment[w]
    <3>1. seen[v][t] = Nothing
      BY <1>3, <2>6
    <3>2. ~(t = segment[w])
      BY <2>1, <2>6
    <3> QED BY <2>2, <2>6, <3>1, <3>2
  <2> QED BY <2>1, <2>3, <2>4, <2>5, <2>6
<1>6. /\ collected' \in [Segments -> Recordings]
      /\ \A t \in Segments : Keeps(FALSE, collected'[t], Total(Part(seen, segment', ended', t), Workers))
  <2>1. Flushes(w, segment', ended')
    BY <1>5 DEF Flushes
  <2> QED BY <1>2, <2>1, FlushCollects
<1>7. TypeInv'
  <2>1. current' \in [Workers -> Recordings] /\ segment' \in [Workers -> 0..SegmentCount]
    BY <1>1, <1>2, NewIsTyped
  <2> QED BY <1>2, <1>6, <2>1 DEF MetricsInv, TypeInv
<1>8. CurrentInv'
  <2>1. Keeps(FALSE, current'[w], seen[w][s])
    <3>1. current'[w] = NewWorkerMetrics /\ seen[w][s] = Nothing
      BY <1>1, <1>2, <1>3
    <3> QED BY <3>1, NewKeeps
  <2>2. \A v \in Workers : segment[v] # 0 /\ ~ended[v] => Keeps(FALSE, current[v], seen[v][segment[v]])
    BY DEF MetricsInv, CurrentInv
  <2>3. ASSUME NEW v \in Workers, segment'[v] # 0, ~ended'[v] PROVE Keeps(FALSE, current'[v], seen'[v][segment'[v]])
    <3>1. CASE v = w
      BY <1>2, <1>4, <2>1, <3>1
    <3>2. CASE v # w
      <4>1. segment'[v] = segment[v] /\ current'[v] = current[v] /\ ended'[v] = ended[v] /\ seen' = seen
        BY <1>2, <1>4, <3>2
      <4> QED BY <2>2, <2>3, <4>1
    <3> QED BY <3>1, <3>2
  <2> QED BY <2>3 DEF CurrentInv
<1>9. LaterInv'
  <2>1. ASSUME NEW v \in Workers, NEW t \in Segments, t > segment'[v] PROVE seen[v][t] = Nothing
    <3>1. t > segment[v]
      <4>1. t \in Int /\ segment[w] \in Int /\ segment[v] \in Int
        BY <1>1 DEF Segments
      <4> QED BY <1>1, <1>2, <1>4, <2>1, <4>1
    <3> QED BY <1>3, <3>1
  <2> QED BY <1>2, <2>1 DEF LaterInv
<1>10. CollectedInv'
  BY <1>2, <1>6 DEF CollectedInv
<1>11. OverallInv'
  BY <1>2 DEF MetricsInv, OverallInv
<1>12. MergedInv'
  <2>1. merged = <<>>
    BY <1>2 DEF MetricsInv, MergedInv
  <2> QED BY <1>2, <2>1 DEF MergedInv
<1> QED BY <1>7, <1>8, <1>9, <1>10, <1>11, <1>12 DEF MetricsInv

LEMMA EndStep ==
  ASSUME MetricsInv, NEW w \in Workers, End(w)
  PROVE  MetricsInv'
<1>1. /\ segment \in [Workers -> 0..SegmentCount] /\ ended \in [Workers -> BOOLEAN] /\ SegmentCount \in Nat
  BY FiniteIndices DEF MetricsInv, TypeInv
<1>2. /\ ~ended[w] /\ Flush(w) /\ ended' = [ended EXCEPT ![w] = TRUE]
      /\ overall' = overall /\ current' = current /\ segment' = segment /\ merged' = merged /\ seen' = seen
  BY DEF End
<1>3. \A v \in Workers : \A t \in Segments : t > segment[v] => seen[v][t] = Nothing
  BY DEF MetricsInv, LaterInv
<1>4. ended'[w] /\ \A v \in Workers : v # w => ended'[v] = ended[v]
  BY <1>1, <1>2
<1>5. ASSUME NEW t \in Segments, NEW v \in Workers
      PROVE  Part(seen, segment', ended', t)[v] =
                 IF v = w /\ t = segment[w] THEN seen[w][t] ELSE Part(seen, segment, ended, t)[v]
  <2>1. t \in Int /\ segment[v] \in Int
    BY <1>1 DEF Segments
  <2>2. /\ Part(seen, segment', ended', t)[v] =
               IF segment[v] > t \/ (segment[v] = t /\ ended'[v]) THEN seen[v][t] ELSE Nothing
        /\ Part(seen, segment, ended, t)[v] =
               IF segment[v] > t \/ (segment[v] = t /\ ended[v]) THEN seen[v][t] ELSE Nothing
    BY <1>2 DEF Part
  <2>3. CASE v # w
    BY <1>4, <2>2, <2>3
  <2>4. CASE v = w /\ t = segment[w]
    BY <1>4, <2>2, <2>4
  <2>5. CASE v = w /\ ~(t = segment[w])
    BY <2>2, <2>5
  <2> QED BY <2>3, <2>4, <2>5
<1>6. /\ collected' \in [Segments -> Recordings]
      /\ \A t \in Segments : Keeps(FALSE, collected'[t], Total(Part(seen, segment', ended', t), Workers))
  <2>1. Flushes(w, segment', ended')
    BY <1>5 DEF Flushes
  <2> QED BY <1>2, <2>1, FlushCollects
<1>7. TypeInv'
  <2>1. ended' \in [Workers -> BOOLEAN]
    BY <1>1, <1>2
  <2> QED BY <1>2, <1>6, <2>1 DEF MetricsInv, TypeInv
<1>8. CurrentInv'
  <2>1. \A v \in Workers : ~ended'[v] => ~ended[v]
    BY <1>4
  <2> QED BY <1>2, <2>1 DEF MetricsInv, CurrentInv
<1>9. LaterInv' /\ OverallInv'
  BY <1>2 DEF MetricsInv, LaterInv, OverallInv
<1>10. CollectedInv'
  BY <1>2, <1>6 DEF CollectedInv
<1>11. MergedInv'
  <2>1. merged = <<>>
    BY <1>2 DEF MetricsInv, MergedInv
  <2> QED BY <1>2, <2>1 DEF MergedInv
<1> QED BY <1>7, <1>8, <1>9, <1>10, <1>11 DEF MetricsInv

\* The three sets of results that aggregates are about, as totals
LEMMA SeenAreTotals ==
  ASSUME seen \in [Workers -> [Segments -> Counts]]
  PROVE  /\ \A S \in SUBSET Segments : SeenIn(S) = Total(PerSegment(seen), S)
         /\ \A s \in Segments : PerSegment(seen)[s] \in Counts /\ SeenIn({s}) = PerSegment(seen)[s]
         /\ InAll = Total(PerWorker(seen), Workers)
<1> DEFINE d == PerSegment(seen)
<1>1. \A s \in Segments : \A r \in Results : d[s][r] = SumFunctionOnSet([w \in Workers |-> seen[w][s][r]], Workers)
  <2>1. ASSUME NEW s \in Segments, NEW r \in Results
        PROVE  d[s][r] = SumFunctionOnSet([w \in Workers |-> seen[w][s][r]], Workers)
    <3>1. d[s][r] = SumFunctionOnSet([w \in Workers |-> AtSegment(seen, s)[w][r]], Workers)
      BY DEF PerSegment, Total
    <3>2. [w \in Workers |-> AtSegment(seen, s)[w][r]] = [w \in Workers |-> seen[w][s][r]]
      BY DEF AtSegment
    <3> QED BY <3>1, <3>2
  <2> QED BY <2>1
<1>2. ASSUME NEW s \in Segments PROVE d[s] \in Counts
  <2>1. d[s] = Total(AtSegment(seen, s), Workers)
    BY DEF PerSegment
  <2>2. \A w \in Workers : AtSegment(seen, s)[w] \in Counts
    BY DEF AtSegment
  <2> QED BY <2>1, <2>2, FiniteIndices, TotalIsCounts
<1> HIDE DEF d
<1>3. ASSUME NEW S \in SUBSET Segments PROVE SeenIn(S) = Total(d, S)
  <2>1. ASSUME NEW r \in Results
        PROVE  [s \in S |-> SumFunctionOnSet([w \in Workers |-> seen[w][s][r]], Workers)] = [s \in S |-> d[s][r]]
    BY <1>1
  <2> QED BY <2>1 DEF SeenIn, Total
<1>4. ASSUME NEW s \in Segments PROVE SeenIn({s}) = d[s]
  <2>1. SeenIn({s}) = Total(d, {s})
    BY <1>3
  <2> QED BY <1>2, <2>1, TotalOfOne
<1>5. InAll = Total(PerWorker(seen), Workers)
  <2>1. \A a \in Workers : \A b \in Segments : seen[a][b] \in Counts
    OBVIOUS
  <2>2. Total([a \in Workers |-> Total(seen[a], Segments)], Workers)
            = Total([b \in Segments |-> Total([a \in Workers |-> seen[a][b]], Workers)], Segments)
    BY <2>1, FiniteIndices, TotalSwap
  <2>3. InAll = Total(d, Segments)
    BY <1>3 DEF InAll
  <2> QED BY <2>2, <2>3 DEF d, PerSegment, PerWorker, AtSegment
<1> QED BY <1>2, <1>3, <1>4, <1>5 DEF d

LEMMA MergeStep ==
  ASSUME MetricsInv, Merge
  PROVE  MetricsInv'
<1> DEFINE per == [s \in Segments |-> MergeWorkers(WithDispatcher(<<collected[s]>>), 1..2)]
           whole == MergeWorkers(WithDispatcher(overall), 1..(PoolSize + 1))
           measured == MergeAggregates(per, Measured)
<1>1. /\ overall \in [Workers -> Recordings] /\ collected \in [Segments -> Recordings]
      /\ segment \in [Workers -> 0..SegmentCount] /\ seen \in [Workers -> [Segments -> Counts]]
      /\ IsFiniteSet(Workers) /\ IsFiniteSet(Segments) /\ PoolSize \in Nat /\ SegmentCount \in Nat
      /\ Measured \subseteq Segments
  BY FiniteIndices DEF MetricsInv, TypeInv
<1>2. /\ \A w \in Workers : ended[w]
      /\ merged' = [overall |-> whole, segments |-> per, measured |-> measured]
      /\ overall' = overall /\ current' = current /\ segment' = segment /\ ended' = ended
      /\ collected' = collected /\ seen' = seen
  BY DEF Merge
<1>3. Keeps(TRUE, whole, InAll)
  <2> DEFINE d == PerWorker(seen)
  <2>1. overall \in Seq(Recordings) /\ Len(overall) = PoolSize
    BY <1>1, FunctionIsSeq DEF Workers
  <2>2. \A i \in 1..PoolSize : Keeps(TRUE, overall[i], d[i])
    BY DEF MetricsInv, OverallInv, PerWorker, Workers
  <2>3. InAll = Total(d, 1..PoolSize)
    BY <1>1, SeenAreTotals DEF Workers
  <2> HIDE DEF d
  <2>4. Keeps(TRUE, MergeWorkers(WithDispatcher(overall), 1..(Len(overall) + 1)), Total(d, 1..Len(overall)))
    BY <2>1, <2>2, DispatcherKeeps
  <2> QED BY <2>1, <2>3, <2>4
<1>4. ASSUME NEW s \in Segments PROVE Keeps(FALSE, per[s], PerSegment(seen)[s])
  <2> DEFINE ws == <<collected[s]>>
             c == PerSegment(seen)[s]
             d == [i \in {1} |-> c]
  <2>1. ws \in Seq(Recordings) /\ Len(ws) = 1 /\ ws[1] = collected[s] /\ 1..1 = {1} /\ 1 + 1 = 2 /\ d[1] = c
    BY <1>1
  <2>2. Total(Part(seen, segment, ended, s), Workers) = c
    <3> DEFINE p == Part(seen, segment, ended, s)
               a == AtSegment(seen, s)
    <3>1. \A w \in Workers : p[w] = a[w]
      <4>1. ASSUME NEW w \in Workers PROVE p[w] = a[w]
        <5>1. s > segment[w] => seen[w][s] = Nothing
          BY DEF MetricsInv, LaterInv
        <5>2. s \in Int /\ segment[w] \in Int
          BY <1>1 DEF Segments
        <5>3. ~(s > segment[w]) => segment[w] > s \/ segment[w] = s
          BY <5>2
        <5>4. p[w] = (IF segment[w] > s \/ (segment[w] = s /\ ended[w]) THEN seen[w][s] ELSE Nothing) /\ a[w] = seen[w][s]
          BY DEF Part, AtSegment
        <5> QED BY <1>2, <5>1, <5>3, <5>4
      <4> QED BY <4>1
    <3> HIDE DEF p, a
    <3>2. Total(p, Workers) = Total(a, Workers)
      BY <3>1, TotalSame
    <3> QED BY <3>2 DEF p, a, PerSegment
  <2>3. Keeps(FALSE, collected[s], c)
    BY <2>2 DEF MetricsInv, CollectedInv
  <2>4. c \in Counts
    BY <1>1, SeenAreTotals
  <2> HIDE DEF ws, c, d
  <2>5. Total(d, {1}) = c
    BY <2>1, <2>4, TotalOfOne
  <2>6. \A i \in 1..Len(ws) : Keeps(FALSE, ws[i], d[i])
    BY <2>1, <2>3
  <2>7. Keeps(FALSE, MergeWorkers(WithDispatcher(ws), 1..(Len(ws) + 1)), Total(d, 1..Len(ws)))
    BY <2>1, <2>6, DispatcherKeeps
  <2>8. Keeps(FALSE, MergeWorkers(WithDispatcher(ws), 1..2), c)
    BY <2>1, <2>5, <2>7
  <2> QED BY <2>8 DEF ws, c
<1> HIDE DEF whole
<1>5. Keeps(FALSE, measured, SeenIn(Measured))
  <2> DEFINE d == PerSegment(seen)
             n == SegmentCount
  <2>1. per \in [1..n -> Recordings]
    <3>1. \A s \in Segments : per[s] \in Recordings
      BY <1>4 DEF Keeps
    <3> QED BY <3>1 DEF Segments
  <2> HIDE DEF per
  <2>2. per \in Seq(Recordings) /\ Len(per) = n
    BY <1>1, <2>1, FunctionIsSeq
  <2>3. \A i \in 1..Len(per) : Keeps(FALSE, per[i], d[i])
    BY <1>4, <2>2 DEF Segments
  <2>4. Measured \subseteq 1..Len(per)
    BY <1>1, <2>2 DEF Segments
  <2>5. SeenIn(Measured) = Total(d, Measured)
    BY <1>1, SeenAreTotals
  <2> HIDE DEF d, n
  <2>6. Keeps(FALSE, MergeAggregates(per, Measured), Total(d, Measured))
    BY <2>2, <2>3, <2>4, MergeAggregatesKeeps
  <2> QED BY <2>5, <2>6
<1> HIDE DEF per, measured
<1>6. \A s \in Segments : Keeps(FALSE, per[s], SeenIn({s}))
  BY <1>1, <1>4, SeenAreTotals
<1>7. merged'.overall = whole /\ merged'.segments = per /\ merged'.measured = measured
  BY <1>2
<1>8. InAll' = InAll /\ \A S : SeenIn(S)' = SeenIn(S)
  BY <1>2 DEF InAll, SeenIn
<1>9. MergedInv'
  <2>1. \A w \in Workers : ended'[w]
    BY <1>2
  <2>2. Keeps(TRUE, merged'.overall, InAll') /\ Keeps(FALSE, merged'.measured, SeenIn(Measured)')
    BY <1>3, <1>5, <1>7, <1>8
  <2>3. \A s \in Segments : Keeps(FALSE, merged'.segments[s], SeenIn({s})')
    BY <1>6, <1>7, <1>8
  <2> QED BY <2>1, <2>2, <2>3 DEF MergedInv
<1>10. TypeInv' /\ OverallInv' /\ CurrentInv' /\ LaterInv' /\ CollectedInv'
  BY <1>2 DEF MetricsInv, TypeInv, OverallInv, CurrentInv, LaterInv, CollectedInv
<1> QED BY <1>9, <1>10 DEF MetricsInv

-----------------------------------------------------------------------------
(* The theorems                                                             *)

LEMMA NextMetricsInv == MetricsInv /\ [Next]_vars => MetricsInv'
<1> SUFFICES ASSUME MetricsInv, [Next]_vars PROVE MetricsInv'
  OBVIOUS
<1>1. CASE \E w \in Workers : \E s \in Segments : EnterSegment(w, s)
  BY <1>1, EnterSegmentStep
<1>2. CASE \E w \in Workers : \E r \in Results : Record(w, r)
  BY <1>2, RecordStep
<1>3. CASE \E w \in Workers : End(w)
  BY <1>3, EndStep
<1>4. CASE Merge
  BY <1>4, MergeStep
<1>5. CASE UNCHANGED vars
  <2>1. InAll' = InAll /\ \A S : SeenIn(S)' = SeenIn(S)
    BY <1>5 DEF vars, InAll, SeenIn
  <2>2. MergedInv'
    BY <1>5, <2>1 DEF vars, MetricsInv, MergedInv
  <2>3. TypeInv' /\ OverallInv' /\ CurrentInv' /\ LaterInv' /\ CollectedInv'
    BY <1>5 DEF vars, MetricsInv, TypeInv, OverallInv, CurrentInv, LaterInv, CollectedInv
  <2> QED BY <2>2, <2>3 DEF MetricsInv
<1> QED BY <1>1, <1>2, <1>3, <1>4, <1>5 DEF Next, Terminated

\* At every moment each worker's metrics are those of the results it recorded, and each
\* collector's those of the results that workers have flushed into it.
THEOREM MetricsAreKept == Spec => []MetricsInv
BY InitMetricsInv, NextMetricsInv, PTL DEF Spec

LEMMA ClaimsAreKept ==
  ASSUME MetricsInv, merged # <<>>, NEW c \in Claims
  PROVE  Keeps(TRUE, c[1], c[2]) \/ Keeps(FALSE, c[1], c[2])
<1>1. /\ Keeps(TRUE, merged.overall, InAll) /\ Keeps(FALSE, merged.measured, SeenIn(Measured))
      /\ \A s \in Segments : Keeps(FALSE, merged.segments[s], SeenIn({s}))
  BY DEF MetricsInv, MergedInv
<1>2. CASE c = <<merged.overall, InAll>>
  <2>1. c[1] = merged.overall /\ c[2] = InAll
    BY <1>2
  <2> QED BY <1>1, <2>1
<1>3. CASE c = <<merged.measured, SeenIn(Measured)>>
  <2>1. c[1] = merged.measured /\ c[2] = SeenIn(Measured)
    BY <1>3
  <2> QED BY <1>1, <2>1
<1>4. CASE \E s \in Segments : c = <<merged.segments[s], SeenIn({s})>>
  <2>1. PICK s \in Segments : c = <<merged.segments[s], SeenIn({s})>>
    BY <1>4
  <2>2. c[1] = merged.segments[s] /\ c[2] = SeenIn({s})
    BY <2>1
  <2> QED BY <1>1, <2>2
<1> QED BY <1>2, <1>3, <1>4 DEF Claims

\* However many workers there are and however they interleave, change segments and flush, the
\* run-wide, per-segment and measured aggregates count each recorded result exactly once.
THEOREM EveryResultIsCounted == Spec => []CountsExact
<1>1. MetricsInv => CountsExact
  <2> SUFFICES ASSUME MetricsInv, merged # <<>>, NEW c \in Claims PROVE Counted(c[1], c[2])
    BY DEF CountsExact
  <2> QED BY ClaimsAreKept DEF Keeps, Represents
<1> QED BY <1>1, MetricsAreKept, PTL

LEMMA AtMostOne ==
  ASSUME NEW V, IsFiniteSet(V)
  PROVE  Cardinality(V) <= 1 <=> \A a, b \in V : a = b
<1>1. Cardinality(V) \in Nat /\ (Cardinality(V) = 0 <=> V = {}) /\ (Cardinality(V) = 1 <=> \E x : V = {x})
  BY FS_CardinalityType, FS_EmptySet, FS_Singleton
<1>2. Cardinality(V) <= 1 <=> Cardinality(V) = 0 \/ Cardinality(V) = 1
  BY <1>1
<1>3. (V = {} \/ \E x : V = {x}) <=> \A a, b \in V : a = b
  <2>1. ASSUME \A a, b \in V : a = b PROVE V = {} \/ \E x : V = {x}
    <3>1. CASE V # {}
      <4>1. PICK x \in V : TRUE
        BY <3>1
      <4>2. V = {x}
        BY <2>1, <4>1
      <4> QED BY <4>2
    <3> QED BY <3>1
  <2> QED BY <2>1
<1> QED BY <1>1, <1>2, <1>3

LEMMA ValuesFinite ==
  ASSUME NEW c
  PROVE  IsFiniteSet(Values(c))
<1> DEFINE f == [r \in Results |-> r.header]
           H == {r.header : r \in Results}
<1>1. f \in Surjection(Results, H)
  BY DEF Surjection
<1> HIDE DEF f
<1>2. IsFiniteSet(H)
  BY <1>1, MetricsAssumption, FS_Surjection
<1>3. Values(c) \in SUBSET H
  BY DEF Values
<1> HIDE DEF H
<1> QED BY <1>2, <1>3, FS_Subset

\* Every aggregate reports a rate-limit header as consistent exactly if all the values of it
\* that were parsed are the same, although merges compare samples and samples are cut.
THEOREM AgreementIsExact == Spec => []AgreementExact
<1>1. ASSUME NEW full \in BOOLEAN, NEW m, NEW c, Keeps(full, m, c)
      PROVE  m.headers.agree = (Cardinality(Values(c)) <= 1)
  <2> DEFINE V == Values(c)
             g == m.headers.agree
             h == m.headers
  <2>1. h \in Headers /\ Tells(h, V)
    BY <1>1 DEF Keeps, Represents, Recordings
  <2>2. g \in BOOLEAN
    <3>1. h \in [observed : Nat, parseErrors : Nat, agree : BOOLEAN, samples : Seq(HeaderValues)]
      BY <2>1 DEF Headers
    <3> HIDE DEF h
    <3>2. h.agree \in BOOLEAN
      BY <3>1
    <3> QED BY <3>2 DEF h
  <2>3. g <=> \A a, b \in V : a = b
    BY <2>1 DEF Tells
  <2>4. Cardinality(V) <= 1 <=> \A a, b \in V : a = b
    BY ValuesFinite, AtMostOne
  <2> HIDE DEF g, V
  <2>5. g <=> Cardinality(V) <= 1
    BY <2>3, <2>4, Zenon
  <2>6. g = (Cardinality(V) <= 1)
    BY <2>2, <2>5
  <2> QED BY <2>6 DEF g, V
<1>2. MetricsInv => AgreementExact
  <2> SUFFICES ASSUME MetricsInv, merged # <<>>, NEW c \in Claims
               PROVE  c[1].headers.agree = (Cardinality(Values(c[2])) <= 1)
    BY DEF AgreementExact
  <2>1. Keeps(TRUE, c[1], c[2]) \/ Keeps(FALSE, c[1], c[2])
    BY ClaimsAreKept
  <2> QED BY <1>1, <2>1
<1> QED BY <1>2, MetricsAreKept, PTL

\* The run's error samples are bounded and distinct, never overstate an error, and are exact
\* when the run had no more kinds of errors than there is room for.
THEOREM ErrorSamplesAreHonest == Spec => []ErrorSamplesHonest
<1>1. MetricsInv => ErrorSamplesHonest
  <2> SUFFICES ASSUME MetricsInv, merged # <<>> PROVE ErrorSamplesHonest
    BY DEF ErrorSamplesHonest
  <2> DEFINE e == merged.overall.errors
             c == InAll
             o == Occurrences(c)
  <2>1. Keeps(TRUE, merged.overall, c)
    BY DEF MetricsInv, MergedInv
  <2>2. c \in Counts /\ e \in Seq(Samples) /\ Tallies(e, o)
    BY <2>1 DEF Keeps, Recordings
  <2> HIDE DEF e, c
  <2>3. DOMAIN e = 1..Len(e) /\ \A i \in 1..Len(e) : e[i].key \in Keys
    <3>1. DOMAIN e = 1..Len(e) /\ \A i \in 1..Len(e) : e[i] \in Samples
      BY <2>2
    <3> QED BY <3>1 DEF Samples
  <2>4. KindsOf(o) = Kinds(c) /\ \A k \in Keys : o[k] = CountOf(c, SampledAs(k))
    BY <2>2, OccurrencesFacts DEF Occurrences
  <2>5. \A k \in Kinds(c) : k \in Keys
    BY <2>4 DEF KindsOf
  <2> HIDE DEF o
  <2>6. /\ Len(e) <= MaxErrorSamples
        /\ \A i, j \in DOMAIN e : e[i].key = e[j].key => i = j
        /\ \A i \in DOMAIN e : e[i].count <= CountOf(c, SampledAs(e[i].key))
        /\ Cardinality(Kinds(c)) <= MaxErrorSamples =>
               \A k \in Kinds(c) : \E i \in DOMAIN e : e[i].key = k /\ e[i].count = CountOf(c, SampledAs(k))
    <3>1. Len(e) <= MaxErrorSamples /\ \A i, j \in DOMAIN e : e[i].key = e[j].key => i = j
      BY <2>2, <2>3 DEF Tallies
    <3>2. \A i \in DOMAIN e : e[i].count <= CountOf(c, SampledAs(e[i].key))
      BY <2>2, <2>3, <2>4 DEF Tallies
    <3>3. ASSUME Cardinality(Kinds(c)) <= MaxErrorSamples, NEW k \in Kinds(c)
          PROVE  \E i \in DOMAIN e : e[i].key = k /\ e[i].count = CountOf(c, SampledAs(k))
      BY <2>2, <2>3, <2>4, <2>5, <3>3 DEF Tallies
    <3> QED BY <3>1, <3>2, <3>3
  <2> QED BY <2>6 DEF ErrorSamplesHonest, e, c
<1> QED BY <1>1, MetricsAreKept, PTL
===============================================================================
