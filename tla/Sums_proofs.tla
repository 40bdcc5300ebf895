---------------------------- MODULE Sums_proofs ----------------------------
(***************************************************************************)
(* What the schedulers' reports rest on: facts about SumFunctionOnSet, the *)
(* sum of a function's values over a finite set, with which the models     *)
(* merge per-worker and per-segment counters.  The sum is a fold that      *)
(* recurses over subsets; each fact is proved by looking at a smallest     *)
(* subset for which it would fail.  At the end, the facts about functions  *)
(* defined by recursion on an interval, with which the models write loops. *)
(***************************************************************************)
EXTENDS Integers, FiniteSets, Functions, FiniteSetTheorems, WellFoundedInduction, TLAPS

\* The value the fold gives to a subset, from its values on smaller ones
StepOf(sums, f, s) ==
    IF s = {} THEN 0
    ELSE f[CHOOSE x \in s : TRUE] + sums[s \ {CHOOSE x \in s : TRUE}]

\* sums is the recursive function of the fold over S.
IsSum(sums, f, S) == sums = [s \in SUBSET S |-> StepOf(sums, f, s)]

\* The sum is the value at S of the recursive function, once there is one.
LEMMA SumIsIter ==
  ASSUME NEW f, NEW S, NEW it0, IsSum(it0, f, S)
  PROVE  \E it : IsSum(it, f, S) /\ SumFunctionOnSet(f, S) = it[S]
<1> DEFINE it == CHOOSE it : it = [s \in SUBSET S |-> IF s = {} THEN 0 ELSE f[CHOOSE x \in s : TRUE] + it[s \ {CHOOSE x \in s : TRUE}]]
<1>1. IsSum(it, f, S)
  BY DEF IsSum, StepOf
<1>2. SumFunctionOnSet(f, S) = it[S]
  BY DEF SumFunctionOnSet, FoldFunctionOnSet, MapThenFoldSet
<1> QED BY <1>1, <1>2

\* A set of subsets of a finite set has a minimal member.
LEMMA MinSubset ==
  ASSUME NEW S, IsFiniteSet(S), NEW T, T \subseteq SUBSET S, T # {}
  PROVE  \E s \in T : \A t \in T : t \subseteq s => t = s
<1>1. IsWellFoundedOn(StrictSubsetOrdering(S), SUBSET S)
  BY FS_StrictSubsetOrderingWellFounded, FS_FiniteSubsetsOfFinite
<1>2. PICK s \in T : \A t \in T : ~(<<t, s>> \in StrictSubsetOrdering(S))
  BY <1>1, WFMin
<1>3. \A t \in T : t \subseteq s => t = s
  BY <1>2 DEF StrictSubsetOrdering
<1> QED BY <1>3

\* The recursive functions over two sets agree on their common subsets.
LEMMA IterUnique ==
  ASSUME NEW f, NEW A, NEW B, NEW it1, NEW it2, IsFiniteSet(A),
         IsSum(it1, f, A), IsSum(it2, f, B)
  PROVE  \A s \in SUBSET A : s \in SUBSET B => it1[s] = it2[s]
<1> DEFINE T == {s \in SUBSET A : s \in SUBSET B /\ it1[s] # it2[s]}
<1> SUFFICES ASSUME T # {} PROVE FALSE
  OBVIOUS
<1>0. T \subseteq SUBSET A
  OBVIOUS
<1>1. PICK s \in T : \A t \in T : t \subseteq s => t = s
  <2> HIDE DEF T
  <2> QED BY <1>0, MinSubset
<1>2. it1[s] = StepOf(it1, f, s) /\ it2[s] = StepOf(it2, f, s)
  BY DEF IsSum
<1>3. CASE s = {}
  BY <1>1, <1>2, <1>3 DEF StepOf
<1>4. CASE s # {}
  <2> DEFINE c == CHOOSE x \in s : TRUE
  <2>1. c \in s
    BY <1>4
  <2>2. s \ {c} \notin T
    BY <1>1, <2>1
  <2>3. it1[s \ {c}] = it2[s \ {c}]
    BY <2>2
  <2>4. it1[s] = f[c] + it1[s \ {c}] /\ it2[s] = f[c] + it2[s \ {c}]
    BY <1>2, <1>4 DEF StepOf
  <2> QED BY <1>1, <2>3, <2>4
<1> QED BY <1>3, <1>4

\* The recursion over the subsets of a finite set has a solution.
LEMMA IterExists ==
  ASSUME NEW f, NEW S, IsFiniteSet(S)
  PROVE  \E it : IsSum(it, f, S)
<1> DEFINE Ok(s) == \E it : IsSum(it, f, s)
           T == {s \in SUBSET S : ~Ok(s)}
<1> SUFFICES ASSUME T # {} PROVE FALSE
  OBVIOUS
<1>0. T \subseteq SUBSET S
  OBVIOUS
<1>1. PICK s \in T : \A t \in T : t \subseteq s => t = s
  <2> HIDE DEF T
  <2> QED BY <1>0, MinSubset
<1>2. \A t \in SUBSET s : t # s => Ok(t)
  BY <1>1
<1> DEFINE At(t) == CHOOSE it : IsSum(it, f, t)
           G == [t \in SUBSET s |-> At(t)[t]]
           c == CHOOSE x \in s : TRUE
           F == [t \in SUBSET s |-> IF t # s THEN G[t] ELSE StepOf(G, f, s)]
<1>3. \A t \in SUBSET s : t # s => IsSum(At(t), f, t)
  BY <1>2
<1>4. \A t \in SUBSET s : IsFiniteSet(t)
  BY FS_Subset
<1>5. \A t \in SUBSET s : t # s => G[t] = StepOf(G, f, t)
  <2> SUFFICES ASSUME NEW t \in SUBSET s, t # s PROVE G[t] = StepOf(G, f, t)
    OBVIOUS
  <2>1. IsSum(At(t), f, t)
    BY <1>3
  <2>2. G[t] = StepOf(At(t), f, t)
    BY <2>1 DEF IsSum
  <2>3. CASE t = {}
    BY <2>2, <2>3 DEF StepOf
  <2>4. CASE t # {}
    <3> DEFINE d == CHOOSE x \in t : TRUE
               u == t \ {d}
    <3>1. d \in t /\ u \in SUBSET s /\ u \in SUBSET t /\ u # s
      BY <2>4
    <3>2. IsSum(At(u), f, u)
      BY <1>3, <3>1
    <3>3. At(u)[u] = At(t)[u]
      <4> HIDE DEF At, u
      <4> QED BY <1>4, <2>1, <3>1, <3>2, IterUnique
    <3>4. G[u] = At(t)[u]
      BY <3>1, <3>3
    <3> QED BY <2>2, <2>4, <3>4 DEF StepOf
  <2> QED BY <2>3, <2>4
<1>6. \A t \in SUBSET s : F[t] = StepOf(F, f, t)
  <2> SUFFICES ASSUME NEW t \in SUBSET s PROVE F[t] = StepOf(F, f, t)
    OBVIOUS
  <2>1. F[t] = StepOf(G, f, t)
    <3> HIDE DEF G
    <3> QED BY <1>5
  <2>2. CASE t = {}
    BY <2>1, <2>2 DEF StepOf
  <2>3. CASE t # {}
    <3> DEFINE d == CHOOSE x \in t : TRUE
               u == t \ {d}
    <3>1. u \in SUBSET s /\ u # s
      BY <2>3
    <3> HIDE DEF G
    <3>2. F[u] = G[u]
      BY <3>1
    <3> QED BY <2>1, <2>3, <3>2 DEF StepOf
  <2> QED BY <2>2, <2>3
<1>7. IsSum(F, f, s)
  BY <1>6 DEF IsSum
<1> QED BY <1>1, <1>7

\* Nothing sums to zero.
LEMMA SumEmpty ==
  ASSUME NEW f
  PROVE  SumFunctionOnSet(f, {}) = 0
<1>1. IsFiniteSet({})
  BY FS_EmptySet
<1>2. PICK it0 : IsSum(it0, f, {})
  BY <1>1, IterExists
<1>3. PICK it : IsSum(it, f, {}) /\ SumFunctionOnSet(f, {}) = it[{}]
  BY <1>2, SumIsIter
<1> QED BY <1>3 DEF IsSum, StepOf

\* The sum takes one element off, the same for every function.
LEMMA SumStep ==
  ASSUME NEW S, IsFiniteSet(S), S # {}
  PROVE  \E x \in S : \A f :
             SumFunctionOnSet(f, S) = f[x] + SumFunctionOnSet(f, S \ {x})
<1> DEFINE c == CHOOSE x \in S : TRUE
           u == S \ {c}
<1>1. c \in S /\ u \subseteq S
  OBVIOUS
<1>2. IsFiniteSet(u)
  BY FS_Subset
<1>3. ASSUME NEW f PROVE SumFunctionOnSet(f, S) = f[c] + SumFunctionOnSet(f, u)
  <2>1. PICK ia : IsSum(ia, f, S) /\ SumFunctionOnSet(f, S) = ia[S]
    BY IterExists, SumIsIter
  <2>2. PICK ib : IsSum(ib, f, u) /\ SumFunctionOnSet(f, u) = ib[u]
    BY <1>2, IterExists, SumIsIter
  <2>3. ia[S] = f[c] + ia[u]
    BY <2>1 DEF IsSum, StepOf
  <2>4. ia[u] = ib[u]
    <3> HIDE DEF u
    <3> QED BY <1>1, <1>2, <2>1, <2>2, IterUnique
  <2> QED BY <2>1, <2>2, <2>3, <2>4
<1> QED BY <1>1, <1>3

\* The sum of pointwise sums is the sum of the sums.
LEMMA SumAdd ==
  ASSUME NEW S, IsFiniteSet(S), NEW f, NEW g, NEW h,
         \A x \in S : f[x] \in Int /\ g[x] \in Int /\ h[x] = f[x] + g[x]
  PROVE  /\ SumFunctionOnSet(f, S) \in Int
         /\ SumFunctionOnSet(g, S) \in Int
         /\ SumFunctionOnSet(h, S) = SumFunctionOnSet(f, S) + SumFunctionOnSet(g, S)
<1> DEFINE Ok(s) == /\ SumFunctionOnSet(f, s) \in Int
                    /\ SumFunctionOnSet(g, s) \in Int
                    /\ SumFunctionOnSet(h, s) = SumFunctionOnSet(f, s) + SumFunctionOnSet(g, s)
           T == {s \in SUBSET S : ~Ok(s)}
<1> SUFFICES ASSUME T # {} PROVE FALSE
  OBVIOUS
<1>1. T \subseteq SUBSET S
  OBVIOUS
<1>2. PICK s \in T : \A t \in T : t \subseteq s => t = s
  <2> HIDE DEF T
  <2> QED BY <1>1, MinSubset
<1>3. CASE s = {}
  <2>1. Ok({})
    BY SumEmpty
  <2> QED BY <1>2, <1>3, <2>1
<1>4. CASE s # {}
  <2>1. IsFiniteSet(s)
    BY FS_Subset
  <2>2. PICK x \in s : \A k : SumFunctionOnSet(k, s) = k[x] + SumFunctionOnSet(k, s \ {x})
    BY <1>4, <2>1, SumStep
  <2>3. Ok(s \ {x})
    BY <1>2
  <2>4. /\ SumFunctionOnSet(f, s) = f[x] + SumFunctionOnSet(f, s \ {x})
        /\ SumFunctionOnSet(g, s) = g[x] + SumFunctionOnSet(g, s \ {x})
        /\ SumFunctionOnSet(h, s) = h[x] + SumFunctionOnSet(h, s \ {x})
    BY <2>2
  <2>5. f[x] \in Int /\ g[x] \in Int /\ h[x] = f[x] + g[x]
    OBVIOUS
  <2>6. Ok(s)
    BY <2>3, <2>4, <2>5
  <2> QED BY <1>2, <2>6
<1> QED BY <1>3, <1>4

\* A sum of integers is an integer.
LEMMA SumInt ==
  ASSUME NEW S, IsFiniteSet(S), NEW f, \A x \in S : f[x] \in Int
  PROVE  SumFunctionOnSet(f, S) \in Int
<1> DEFINE h == [x \in S |-> f[x] + f[x]]
<1>1. \A x \in S : h[x] = f[x] + f[x]
  OBVIOUS
<1> HIDE DEF h
<1> QED BY <1>1, SumAdd

\* Any element may be taken off a sum.
LEMMA SumRemove ==
  ASSUME NEW S, IsFiniteSet(S), NEW f, \A x \in S : f[x] \in Int, NEW y \in S
  PROVE  SumFunctionOnSet(f, S) = f[y] + SumFunctionOnSet(f, S \ {y})
<1> DEFINE Ok(s) == \A x \in s : SumFunctionOnSet(f, s) = f[x] + SumFunctionOnSet(f, s \ {x})
           T == {s \in SUBSET S : ~Ok(s)}
<1> SUFFICES ASSUME T # {} PROVE FALSE
  OBVIOUS
<1>1. T \subseteq SUBSET S
  OBVIOUS
<1>2. PICK s \in T : \A t \in T : t \subseteq s => t = s
  <2> HIDE DEF T
  <2> QED BY <1>1, MinSubset
<1>3. \A t \in SUBSET s : t # s => Ok(t)
  BY <1>2
<1>4. PICK x \in s : SumFunctionOnSet(f, s) # f[x] + SumFunctionOnSet(f, s \ {x})
  BY <1>2
<1>5. IsFiniteSet(s)
  BY FS_Subset
<1>6. PICK c \in s : SumFunctionOnSet(f, s) = f[c] + SumFunctionOnSet(f, s \ {c})
  BY <1>4, <1>5, SumStep
<1>7. x # c
  BY <1>4, <1>6
<1>8. SumFunctionOnSet(f, s \ {c}) = f[x] + SumFunctionOnSet(f, (s \ {c}) \ {x})
  BY <1>3, <1>7
<1>9. SumFunctionOnSet(f, s \ {x}) = f[c] + SumFunctionOnSet(f, (s \ {x}) \ {c})
  BY <1>3, <1>7
<1>10. (s \ {c}) \ {x} = (s \ {x}) \ {c}
  OBVIOUS
<1>11. f[x] \in Int /\ f[c] \in Int
  OBVIOUS
<1> DEFINE r == SumFunctionOnSet(f, (s \ {c}) \ {x})
<1>12. r \in Int
  <2>1. IsFiniteSet((s \ {c}) \ {x})
    BY <1>5, FS_Subset
  <2> QED BY <2>1, SumInt
<1>13. SumFunctionOnSet(f, s) = f[c] + (f[x] + r)
  BY <1>6, <1>8
<1>14. SumFunctionOnSet(f, s \ {x}) = f[c] + r
  BY <1>9, <1>10
<1>15. f[c] + (f[x] + r) = f[x] + (f[c] + r)
  <2> HIDE DEF r, T
  <2> QED BY <1>11, <1>12
<1> QED BY <1>4, <1>13, <1>14, <1>15

\* Functions that agree on the set have the same sum.
LEMMA SumSame ==
  ASSUME NEW S, IsFiniteSet(S), NEW f, NEW g, \A x \in S : f[x] \in Int /\ g[x] = f[x]
  PROVE  SumFunctionOnSet(g, S) = SumFunctionOnSet(f, S)
<1> DEFINE z == [x \in S |-> 0]
<1>1. \A x \in S : f[x] \in Int /\ z[x] \in Int /\ f[x] = f[x] + z[x] /\ g[x] = f[x] + z[x]
  OBVIOUS
<1>2. /\ SumFunctionOnSet(f, S) = SumFunctionOnSet(f, S) + SumFunctionOnSet(z, S)
      /\ SumFunctionOnSet(g, S) = SumFunctionOnSet(f, S) + SumFunctionOnSet(z, S)
  <2> HIDE DEF z
  <2> QED BY <1>1, SumAdd
<1> QED BY <1>2

\* Zeros sum to zero.
LEMMA SumZero ==
  ASSUME NEW S, IsFiniteSet(S), NEW f, \A x \in S : f[x] = 0
  PROVE  SumFunctionOnSet(f, S) = 0
<1>1. \A x \in S : f[x] \in Int /\ f[x] = f[x] + f[x]
  OBVIOUS
<1>2. /\ SumFunctionOnSet(f, S) \in Int
      /\ SumFunctionOnSet(f, S) = SumFunctionOnSet(f, S) + SumFunctionOnSet(f, S)
  BY <1>1, SumAdd
<1>3. \A n \in Int : n = n + n => n = 0
  OBVIOUS
<1> QED BY <1>2, <1>3

\* A change at one element changes the sum by as much.
LEMMA SumChange ==
  ASSUME NEW S, IsFiniteSet(S), NEW f, NEW g, NEW y \in S, NEW d \in Int,
         \A x \in S : f[x] \in Int,
         \A x \in S \ {y} : g[x] = f[x],
         g[y] = f[y] + d
  PROVE  SumFunctionOnSet(g, S) = SumFunctionOnSet(f, S) + d
<1> DEFINE u == S \ {y}
<1>1. IsFiniteSet(u)
  BY FS_Subset
<1>2. \A x \in S : g[x] \in Int
  OBVIOUS
<1>3. /\ SumFunctionOnSet(f, S) = f[y] + SumFunctionOnSet(f, u)
      /\ SumFunctionOnSet(g, S) = g[y] + SumFunctionOnSet(g, u)
  BY <1>2, SumRemove
<1>4. SumFunctionOnSet(g, u) = SumFunctionOnSet(f, u) /\ SumFunctionOnSet(f, u) \in Int
  <2>1. \A x \in u : f[x] \in Int /\ g[x] = f[x]
    OBVIOUS
  <2> HIDE DEF u
  <2> QED BY <1>1, <2>1, SumSame, SumInt
<1> QED BY <1>3, <1>4

-----------------------------------------------------------------------------
(* Sums of one field of a function to records.                              *)

FieldSum(m, field, S) == SumFunctionOnSet([x \in S |-> m[x][field]], S)

\* It is an integer, zero when every field is, and depends on the fields only.
LEMMA FieldSumFacts ==
  ASSUME NEW S, IsFiniteSet(S), NEW m, NEW field, \A x \in S : m[x][field] \in Int
  PROVE  /\ FieldSum(m, field, S) \in Int
         /\ (\A x \in S : m[x][field] = 0) => FieldSum(m, field, S) = 0
<1> DEFINE f == [x \in S |-> m[x][field]]
<1>1. \A x \in S : f[x] = m[x][field]
  OBVIOUS
<1> HIDE DEF f
<1>2. SumFunctionOnSet(f, S) \in Int
  BY <1>1, SumInt
<1>3. (\A x \in S : m[x][field] = 0) => SumFunctionOnSet(f, S) = 0
  BY <1>1, SumZero
<1> QED BY <1>2, <1>3 DEF FieldSum, f

\* Two functions that agree on the fields have the same sum.
LEMMA FieldSumSame ==
  ASSUME NEW S, IsFiniteSet(S), NEW m, NEW n, NEW field, NEW other,
         \A x \in S : m[x][field] \in Int /\ n[x][other] = m[x][field]
  PROVE  FieldSum(n, other, S) = FieldSum(m, field, S)
<1> DEFINE f == [x \in S |-> m[x][field]]
           g == [x \in S |-> n[x][other]]
<1>1. \A x \in S : f[x] \in Int /\ g[x] = f[x]
  OBVIOUS
<1> HIDE DEF f, g
<1>2. SumFunctionOnSet(g, S) = SumFunctionOnSet(f, S)
  BY <1>1, SumSame
<1> QED BY <1>2 DEF FieldSum, f, g

\* A field that is the sum of two others sums to the sum of their sums.
LEMMA FieldSumAdd ==
  ASSUME NEW S, IsFiniteSet(S), NEW m, NEW a, NEW b, NEW c,
         \A x \in S : m[x][a] \in Int /\ m[x][b] \in Int /\ m[x][c] = m[x][a] + m[x][b]
  PROVE  FieldSum(m, c, S) = FieldSum(m, a, S) + FieldSum(m, b, S)
<1> DEFINE f == [x \in S |-> m[x][a]]
           g == [x \in S |-> m[x][b]]
           h == [x \in S |-> m[x][c]]
<1>1. \A x \in S : f[x] \in Int /\ g[x] \in Int /\ h[x] = f[x] + g[x]
  OBVIOUS
<1> HIDE DEF f, g, h
<1>2. SumFunctionOnSet(h, S) = SumFunctionOnSet(f, S) + SumFunctionOnSet(g, S)
  BY <1>1, SumAdd
<1> QED BY <1>2 DEF FieldSum, f, g, h

\* n differs from m in the field at y only, where it is d more.
ChangesBy(m, n, field, S, y, d) ==
    /\ y \in S /\ d \in Int
    /\ \A x \in S : m[x][field] \in Int
    /\ \A x \in S \ {y} : n[x][field] = m[x][field]
    /\ n[y][field] = m[y][field] + d

\* A change of the field at one element changes the sum by as much.
LEMMA FieldSumChange ==
  ASSUME NEW S, IsFiniteSet(S), NEW m, NEW n, NEW field, NEW y, NEW d,
         ChangesBy(m, n, field, S, y, d)
  PROVE  FieldSum(n, field, S) = FieldSum(m, field, S) + d
<1> DEFINE f == [x \in S |-> m[x][field]]
           g == [x \in S |-> n[x][field]]
<1>1. /\ y \in S /\ d \in Int
      /\ \A x \in S : f[x] \in Int
      /\ \A x \in S \ {y} : g[x] = f[x]
      /\ g[y] = f[y] + d
  BY DEF ChangesBy
<1> HIDE DEF f, g
<1>2. SumFunctionOnSet(g, S) = SumFunctionOnSet(f, S) + d
  BY <1>1, SumChange
<1> QED BY <1>2 DEF FieldSum, f, g

\* A sum of natural numbers is one, and is positive if some summand is.
LEMMA SumNat ==
  ASSUME NEW S, IsFiniteSet(S), NEW f, \A x \in S : f[x] \in Nat
  PROVE  /\ SumFunctionOnSet(f, S) \in Nat
         /\ \A y \in S : f[y] <= SumFunctionOnSet(f, S)
         /\ SumFunctionOnSet(f, S) > 0 <=> \E x \in S : f[x] > 0
<1> DEFINE Ok(s) == SumFunctionOnSet(f, s) \in Nat
           T == {s \in SUBSET S : ~Ok(s)}
<1>1. \A s \in SUBSET S : Ok(s)
  <2> SUFFICES ASSUME T # {} PROVE FALSE
    OBVIOUS
  <2>1. T \subseteq SUBSET S
    OBVIOUS
  <2>2. PICK s \in T : \A t \in T : t \subseteq s => t = s
    <3> HIDE DEF T
    <3> QED BY <2>1, MinSubset
  <2>3. CASE s = {}
    BY <2>3, SumEmpty
  <2>4. CASE s # {}
    <3>1. PICK y \in s : TRUE
      BY <2>4
    <3> DEFINE u == s \ {y}
    <3>2. u \in SUBSET S /\ u \subseteq s /\ u # s
      BY <3>1
    <3>3. Ok(u)
      BY <2>2, <3>2
    <3>4. IsFiniteSet(s) /\ \A x \in s : f[x] \in Int
      BY FS_Subset
    <3>5. SumFunctionOnSet(f, s) = f[y] + SumFunctionOnSet(f, u)
      BY <3>1, <3>4, SumRemove
    <3>6. f[y] \in Nat
      BY <3>1
    <3> QED BY <3>3, <3>5, <3>6
  <2> QED BY <2>3, <2>4
<1>2. ASSUME NEW y \in S PROVE f[y] <= SumFunctionOnSet(f, S)
  <2> DEFINE u == S \ {y}
  <2>1. SumFunctionOnSet(f, S) = f[y] + SumFunctionOnSet(f, u)
    BY SumRemove
  <2>2. SumFunctionOnSet(f, u) \in Nat
    BY <1>1
  <2> QED BY <2>1, <2>2
<1>3. SumFunctionOnSet(f, S) \in Nat
  BY <1>1
<1>4. ASSUME \A x \in S : ~(f[x] > 0) PROVE SumFunctionOnSet(f, S) = 0
  <2>1. \A x \in S : f[x] = 0
    BY <1>4
  <2> QED BY <2>1, SumZero
<1> HIDE DEF Ok
<1> QED BY <1>2, <1>3, <1>4

\* The sum over one element
LEMMA SumOne ==
  ASSUME NEW x, NEW f, f[x] \in Int
  PROVE  SumFunctionOnSet(f, {x}) = f[x]
<1> DEFINE S == {x}
<1>1. IsFiniteSet(S) /\ x \in S /\ \A y \in S : f[y] \in Int
  BY FS_Singleton
<1>2. SumFunctionOnSet(f, S) = f[x] + SumFunctionOnSet(f, S \ {x})
  <2> HIDE DEF S
  <2> QED BY <1>1, SumRemove
<1>3. S \ {x} = {}
  OBVIOUS
<1>4. SumFunctionOnSet(f, {}) = 0
  BY SumEmpty
<1> QED BY <1>2, <1>3, <1>4

\* A new element adds its value.
LEMMA SumInsert ==
  ASSUME NEW S, IsFiniteSet(S), NEW y, y \notin S, NEW f, \A x \in S \cup {y} : f[x] \in Int
  PROVE  SumFunctionOnSet(f, S \cup {y}) = SumFunctionOnSet(f, S) + f[y]
<1> DEFINE u == S \cup {y}
<1>1. IsFiniteSet(u) /\ y \in u /\ u \ {y} = S
  BY FS_AddElement
<1>2. SumFunctionOnSet(f, u) = f[y] + SumFunctionOnSet(f, u \ {y})
  <2> HIDE DEF u
  <2>1. \A x \in u : f[x] \in Int
    BY DEF u
  <2> QED BY <1>1, <2>1, SumRemove
<1>3. SumFunctionOnSet(f, S) \in Int /\ f[y] \in Int
  <2>1. \A x \in S : f[x] \in Int
    OBVIOUS
  <2>2. SumFunctionOnSet(f, S) \in Int
    BY <2>1, SumInt
  <2> QED BY <2>2
<1> HIDE DEF u
<1>4. SumFunctionOnSet(f, u) = f[y] + SumFunctionOnSet(f, S)
  BY <1>1, <1>2
<1>5. \A a, b \in Int : a + b = b + a
  OBVIOUS
<1> QED BY <1>3, <1>4, <1>5 DEF u

\* The sums of the rows of a table
Rows(f, A, B) == [a \in A |-> SumFunctionOnSet([b \in B |-> f[a][b]], B)]
Columns(f, A, B) == [b \in B |-> SumFunctionOnSet([a \in A |-> f[a][b]], A)]

\* A table may be added up by rows or by columns.
LEMMA SumSwap ==
  ASSUME NEW A, NEW B, IsFiniteSet(A), IsFiniteSet(B), NEW f, \A a \in A : \A b \in B : f[a][b] \in Int
  PROVE  SumFunctionOnSet(Rows(f, A, B), A) = SumFunctionOnSet(Columns(f, A, B), B)
<1> DEFINE Ok(s) == SumFunctionOnSet(Rows(f, s, B), s) = SumFunctionOnSet(Columns(f, s, B), B)
           T == {s \in SUBSET A : ~Ok(s)}
<1> SUFFICES ASSUME T # {} PROVE FALSE
  OBVIOUS
<1>1. T \subseteq SUBSET A
  OBVIOUS
<1>2. PICK s \in T : \A t \in T : t \subseteq s => t = s
  <2> HIDE DEF T
  <2> QED BY <1>1, MinSubset
<1>3. CASE s = {}
  <2>1. ASSUME NEW b \in B PROVE Columns(f, {}, B)[b] = 0
    BY SumEmpty DEF Columns
  <2>2. SumFunctionOnSet(Columns(f, {}, B), B) = 0
    BY <2>1, SumZero
  <2> QED BY <1>3, <2>2, SumEmpty
<1>4. CASE s # {}
  <2>1. PICK y \in s : TRUE
    BY <1>4
  <2> DEFINE u == s \ {y}
             row == [b \in B |-> f[y][b]]
             total == SumFunctionOnSet(row, B)
  <2>2. u \in SUBSET A /\ u \subseteq s /\ u # s /\ y \notin u /\ s = u \cup {y} /\ y \in A
    BY <2>1
  <2>3. Ok(u)
    BY <1>2, <2>2
  <2>4. IsFiniteSet(u) /\ IsFiniteSet(s)
    BY <2>2, FS_Subset
  <2>5. ASSUME NEW a \in A PROVE SumFunctionOnSet([b \in B |-> f[a][b]], B) \in Int
    <3> DEFINE g == [b \in B |-> f[a][b]]
    <3>1. \A b \in B : g[b] \in Int
      OBVIOUS
    <3> HIDE DEF g
    <3>2. SumFunctionOnSet(g, B) \in Int
      BY <3>1, SumInt
    <3> QED BY <3>2 DEF g
  <2>6. SumFunctionOnSet(Rows(f, s, B), s) = SumFunctionOnSet(Rows(f, u, B), u) + total
    <3> DEFINE R == Rows(f, s, B)
               Q == Rows(f, u, B)
    <3>1. \A x \in u \cup {y} : R[x] \in Int
      BY <2>2, <2>5 DEF Rows
    <3>2. \A x \in u : Q[x] \in Int /\ R[x] = Q[x]
      BY <2>2, <2>5 DEF Rows
    <3>3. R[y] = total
      BY <2>1 DEF Rows
    <3> HIDE DEF R, Q, total, u
    <3>4. SumFunctionOnSet(R, u \cup {y}) = SumFunctionOnSet(R, u) + R[y]
      BY <2>2, <2>4, <3>1, SumInsert
    <3>5. SumFunctionOnSet(R, u) = SumFunctionOnSet(Q, u)
      BY <2>4, <3>2, SumSame
    <3> QED BY <2>2, <3>3, <3>4, <3>5 DEF R, Q
  <2>7. SumFunctionOnSet(Columns(f, s, B), B) = SumFunctionOnSet(Columns(f, u, B), B) + total
    <3> DEFINE C == Columns(f, s, B)
               D == Columns(f, u, B)
    <3>1. ASSUME NEW b \in B PROVE D[b] \in Int /\ row[b] \in Int /\ C[b] = D[b] + row[b]
      <4> DEFINE g == [a \in s |-> f[a][b]]
                 h == [a \in u |-> f[a][b]]
      <4>1. /\ \A x \in u \cup {y} : g[x] \in Int
            /\ \A x \in u : h[x] \in Int /\ g[x] = h[x]
            /\ g[y] = row[b] /\ row[b] \in Int
            /\ C[b] = SumFunctionOnSet(g, s) /\ D[b] = SumFunctionOnSet(h, u)
        BY <2>2 DEF Columns
      <4> HIDE DEF g, h, C, D, u, row
      <4>2. SumFunctionOnSet(g, u \cup {y}) = SumFunctionOnSet(g, u) + g[y]
        <5>1. y \notin u /\ IsFiniteSet(u) /\ \A x \in u \cup {y} : g[x] \in Int
          BY <2>2, <2>4, <4>1
        <5> QED BY <5>1, SumInsert
      <4>3. SumFunctionOnSet(g, u) = SumFunctionOnSet(h, u) /\ SumFunctionOnSet(h, u) \in Int
        BY <2>4, <4>1, SumSame, SumInt
      <4> QED BY <2>2, <4>1, <4>2, <4>3
    <3> HIDE DEF C, D, row
    <3>2. SumFunctionOnSet(C, B) = SumFunctionOnSet(D, B) + SumFunctionOnSet(row, B)
      BY <3>1, SumAdd
    <3> QED BY <3>2 DEF C, D
  <2> QED BY <2>3, <2>6, <2>7
<1> QED BY <1>3, <1>4

-----------------------------------------------------------------------------
(* Functions that are defined by recursion on an interval                   *)

LEMMA LeastNumber ==
  ASSUME NEW n \in Nat, NEW T, T \subseteq 0..n, T # {}
  PROVE  \E k \in T : \A j \in T : k <= j
<1> DEFINE U == {0..k : k \in T}
           W == 0..n
<1>1. U \subseteq SUBSET W /\ U # {}
  <2>1. ASSUME NEW u \in U PROVE u \subseteq W
    <3>1. PICK k \in T : u = 0..k
      OBVIOUS
    <3>2. k \in 0..n
      OBVIOUS
    <3> QED
      BY <3>1, <3>2
  <2> QED
    BY <2>1
<1>2. IsFiniteSet(W)
  BY FS_Interval
<1>3. PICK s \in U : \A t \in U : t \subseteq s => t = s
  <2> HIDE DEF U, W
  <2> QED
    BY <1>1, <1>2, MinSubset
<1>4. PICK k \in T : s = 0..k
  OBVIOUS
<1>5. ASSUME NEW j \in T PROVE k <= j
  <2>1. 0..j \in U /\ j \in Nat /\ k \in Nat
    OBVIOUS
  <2>2. CASE j < k
    <3>1. 0..j \subseteq s /\ k \in s /\ k \notin 0..j
      BY <1>4, <2>1, <2>2
    <3> QED
      BY <1>3, <2>1, <3>1
  <2> QED
    BY <2>1, <2>2
<1> QED
  BY <1>5

\* A set that holds 0 and each successor holds the whole interval.
LEMMA IntervalInduction ==
  ASSUME NEW n \in Nat, NEW P, 0 \in P, \A k \in 0..(n - 1) : k \in P => k + 1 \in P
  PROVE  0..n \subseteq P
<1> DEFINE T == (0..n) \ P
<1> SUFFICES ASSUME T # {} PROVE FALSE
  OBVIOUS
<1>1. T \subseteq 0..n
  OBVIOUS
<1>2. PICK k \in T : \A j \in T : k <= j
  <2> HIDE DEF T
  <2> QED
    BY <1>1, LeastNumber
<1>3. k \in 1..n /\ k - 1 \notin T
  BY <1>2
<1>4. k - 1 \in P /\ k - 1 \in 0..(n - 1)
  BY <1>3
<1>5. (k - 1) + 1 \in P
  BY <1>4
<1> QED
  BY <1>3, <1>5

\* g tells each value from the index and the value before.
IsRecursive(f, n, a, g) == f = [i \in 0..n |-> IF i = 0 THEN a ELSE g[<<i, f[i - 1]>>]]

LEMMA RecursionExists ==
  ASSUME NEW n \in Nat, NEW V, NEW a \in V, NEW g, \A i \in 1..n : \A v \in V : g[<<i, v>>] \in V
  PROVE  \E f \in [0..n -> V] : IsRecursive(f, n, a, g)
<1> DEFINE P == {k \in 0..n : \E f \in [0..k -> V] : IsRecursive(f, k, a, g)}
<1>1. 0 \in P
  <2> DEFINE f == [i \in 0..0 |-> a]
  <2>1. f \in [0..0 -> V] /\ IsRecursive(f, 0, a, g)
    BY DEF IsRecursive
  <2> QED
    BY <2>1
<1>2. ASSUME NEW k \in 0..(n - 1), k \in P PROVE k + 1 \in P
  <2>1. PICK f \in [0..k -> V] : IsRecursive(f, k, a, g)
    BY <1>2
  <2> DEFINE new == g[<<k + 1, f[k]>>]
             h == [i \in 0..(k + 1) |-> IF i = k + 1 THEN new ELSE f[i]]
  <2>2. new \in V
    <3>1. f[k] \in V /\ k + 1 \in 1..n
      OBVIOUS
    <3> QED
      BY <3>1
  <2> HIDE DEF new
  <2>3. h \in [0..(k + 1) -> V]
    BY <2>2
  <2>4. ASSUME NEW i \in 0..(k + 1)
        PROVE  h[i] = IF i = 0 THEN a ELSE g[<<i, h[i - 1]>>]
    <3>1. CASE i = k + 1
      <4>1. i # 0 /\ i - 1 = k /\ k \in 0..(k + 1) /\ k # k + 1
        BY <3>1
      <4>2. h[i] = new /\ h[i - 1] = f[k]
        BY <3>1, <4>1
      <4> HIDE DEF h
      <4>3. new = g[<<i, f[k]>>]
        BY <3>1 DEF new
      <4> QED BY <4>1, <4>2, <4>3
    <3>2. CASE i # k + 1
      <4>1. i \in 0..k /\ h[i] = f[i] /\ (i # 0 => h[i - 1] = f[i - 1])
        BY <3>2
      <4>2. f[i] = IF i = 0 THEN a ELSE g[<<i, f[i - 1]>>]
        BY <2>1, <4>1 DEF IsRecursive
      <4> QED
        BY <4>1, <4>2
    <3> QED
      BY <3>1, <3>2
  <2>5. h = [i \in 0..(k + 1) |-> h[i]]
    BY <2>3
  <2> HIDE DEF h
  <2>6. IsRecursive(h, k + 1, a, g)
    BY <2>4, <2>5 DEF IsRecursive
  <2> QED
    BY <2>3, <2>6
<1>3. 0..n \subseteq P
  <2> HIDE DEF P
  <2> QED
    BY <1>1, <1>2, IntervalInduction
<1>4. n \in P
  BY <1>3
<1> QED
  BY <1>4

===============================================================================
