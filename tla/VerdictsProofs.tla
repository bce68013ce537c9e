--------------------------- MODULE VerdictsProofs ---------------------------
(***************************************************************************)
(* The lemmas that the proofs about the callers of the Inspector share:    *)
(* induction over numbers and sequences, what is left of a filtered        *)
(* sequence (Filtering), and what holds of every verdict (Verdicts),       *)
(* whatever the policy and the text.                                       *)
(***************************************************************************)
EXTENDS Verdicts, FiniteSetTheorems, WellFoundedInduction, TLAPS

-----------------------------------------------------------------------------
(* Induction over data. The induction theorems of the library take the     *)
(* predicate as a parameter; these take the set of those who satisfy it.   *)

\* A set of naturals that is not empty has a least element.
LEMMA LeastElement ==
  ASSUME NEW T, T \subseteq Nat, T # {}
  PROVE  \E x \in T : \A y \in T : x <= y
<1> DEFINE below(m) == {k \in T : k <= m}
           F == {below(m) : m \in T}
<1>1. F \subseteq FiniteSubsetsOf(Nat) /\ F # {}
  <2>1. ASSUME NEW m \in T PROVE below(m) \in FiniteSubsetsOf(Nat)
    <3>1. IsFiniteSet(below(m))
      BY FS_BoundedSetOfNaturals
    <3> QED BY <3>1 DEF FiniteSubsetsOf
  <2> QED BY <2>1
<1> HIDE DEF F
<1>2. \E x \in F : \A y \in F : << y, x >> \notin StrictSubsetOrdering(Nat)
  BY <1>1, FS_StrictSubsetOrderingWellFounded, WFMin
<1>3. PICK x \in F : \A y \in F : << y, x >> \notin StrictSubsetOrdering(Nat)
  BY <1>2
<1>4. PICK m \in T : x = below(m)
  BY <1>3 DEF F
<1>5. ASSUME NEW y \in T, y < m PROVE FALSE
  <2>1. below(y) \in F
    BY DEF F
  <2>2. below(y) \subseteq below(m) /\ m \in below(m) /\ m \notin below(y)
    <3>1. m \in Nat /\ y \in Nat /\ y < m
      BY <1>5
    <3>2. ASSUME NEW k \in T, k <= y PROVE k <= m
      BY <3>1, <3>2
    <3>3. below(y) \subseteq below(m)
      BY <3>2
    <3>4. m \in below(m) /\ m \notin below(y)
      BY <3>1
    <3> QED BY <3>3, <3>4
  <2>3. << below(y), x >> \in StrictSubsetOrdering(Nat)
    BY <2>2, <1>4 DEF StrictSubsetOrdering
  <2> QED BY <1>3, <2>1, <2>3
<1> QED BY <1>5

\* What holds of 0, and of n + 1 whenever it holds of n < N, holds up to N.
LEMMA UpTo ==
  ASSUME NEW N \in Nat, NEW S, 0 \in S, \A n \in 0 .. (N - 1) : n \in S => n + 1 \in S
  PROVE  \A n \in 0 .. N : n \in S
<1> SUFFICES ASSUME NEW n \in 0 .. N, n \notin S PROVE FALSE
  OBVIOUS
<1> DEFINE T == (0 .. N) \ S
<1>1. T \subseteq Nat /\ T # {}
  OBVIOUS
<1> HIDE DEF T
<1>2. PICK x \in T : \A y \in T : x <= y
  BY <1>1, LeastElement
<1>3. x \in 1 .. N /\ x - 1 \notin T
  BY <1>2 DEF T
<1> QED BY <1>2, <1>3 DEF T

\* What holds of n whenever it holds of all before it holds of all.
LEMMA AllBefore ==
  ASSUME NEW N \in Nat, NEW S, \A n \in 1 .. N : (\A m \in 1 .. (n - 1) : m \in S) => n \in S
  PROVE  \A n \in 1 .. N : n \in S
<1> SUFFICES ASSUME NEW n \in 1 .. N, n \notin S PROVE FALSE
  OBVIOUS
<1> DEFINE T == (1 .. N) \ S
<1>1. T \subseteq Nat /\ T # {}
  OBVIOUS
<1> HIDE DEF T
<1>2. PICK x \in T : \A y \in T : x <= y
  BY <1>1, LeastElement
<1>3. \A m \in 1 .. (x - 1) : m \in S
  BY <1>2 DEF T
<1> QED BY <1>2, <1>3 DEF T

\* A recursion that goes forward by one: from c, with a step for each position.
ForwardStep(Step, X, N) == Step \in [X \X (1 .. N) -> X]
Recurs(g, X, c, N, Step) ==
  g \in [0 .. N -> X] /\ g[0] = c /\ \A i \in 1 .. N : g[i] = Step[<< g[i - 1], i >>]

\* Such a recursion has a value.
LEMMA Recursion ==
  ASSUME NEW X, NEW c \in X, NEW N \in Nat, NEW Step, ForwardStep(Step, X, N)
  PROVE  \E g : Recurs(g, X, c, N, Step)
<1> DEFINE S == {n \in 0 .. N : \E g : Recurs(g, X, c, n, Step)}
<1>1. 0 \in S
  <2> DEFINE g == [i \in 0 .. 0 |-> c]
  <2>1. Recurs(g, X, c, 0, Step)
    BY DEF Recurs
  <2> HIDE DEF g
  <2> QED BY <2>1
<1>2. ASSUME NEW n \in 0 .. (N - 1), n \in S PROVE n + 1 \in S
  <2>1. PICK g : Recurs(g, X, c, n, Step)
    BY <1>2
  <2>2. Step[<< g[n], n + 1 >>] \in X
    BY <2>1 DEF Recurs, ForwardStep
  <2> DEFINE h == [i \in 0 .. (n + 1) |-> IF i <= n THEN g[i] ELSE Step[<< g[n], n + 1 >>]]
  <2>3. h \in [0 .. (n + 1) -> X] /\ h[0] = c
    BY <2>1, <2>2 DEF Recurs
  <2>4. ASSUME NEW i \in 1 .. (n + 1) PROVE h[i] = Step[<< h[i - 1], i >>]
    <3>1. CASE i <= n
      <4>1. h[i] = g[i] /\ h[i - 1] = g[i - 1]
        BY <3>1
      <4> QED BY <4>1, <2>1, <3>1 DEF Recurs
    <3>2. CASE i = n + 1
      <4>1. h[i] = Step[<< g[n], n + 1 >>] /\ h[i - 1] = g[n]
        BY <3>2
      <4> QED BY <4>1, <3>2
    <3> QED BY <3>1, <3>2
  <2> HIDE DEF h
  <2>5. Recurs(h, X, c, n + 1, Step)
    BY <2>3, <2>4 DEF Recurs
  <2>6. n + 1 \in 0 .. N
    OBVIOUS
  <2> QED BY <2>5, <2>6
<1> HIDE DEF S
<1>3. N \in S
  BY <1>1, <1>2, UpTo
<1> QED BY <1>3 DEF S

\* What holds of the empty sequence, and of s with one more element whenever it
\* holds of s, holds of every sequence.
LEMMA ByAppending ==
  ASSUME NEW X, NEW S, << >> \in S, \A s \in Seq(X), e \in X : s \in S => Append(s, e) \in S
  PROVE  \A s \in Seq(X) : s \in S
<1> SUFFICES ASSUME NEW s \in Seq(X) PROVE s \in S
  OBVIOUS
<1> DEFINE T == {n \in 0 .. Len(s) : SubSeq(s, 1, n) \in S}
<1>0. Len(s) \in Nat
  OBVIOUS
<1>1. 0 \in T
  <2>1. SubSeq(s, 1, 0) = << >> /\ 0 \in 0 .. Len(s)
    BY <1>0
  <2>2. SubSeq(s, 1, 0) \in S
    BY <2>1
  <2> QED BY <2>1, <2>2
<1>2. ASSUME NEW n \in 0 .. (Len(s) - 1), n \in T PROVE n + 1 \in T
  <2>1. SubSeq(s, 1, n + 1) = Append(SubSeq(s, 1, n), s[n + 1]) /\ SubSeq(s, 1, n) \in Seq(X)
    OBVIOUS
  <2>2. s[n + 1] \in X /\ SubSeq(s, 1, n) \in S /\ n + 1 \in 0 .. Len(s)
    BY <1>0, <1>2
  <2>3. SubSeq(s, 1, n + 1) \in S
    BY <2>1, <2>2
  <2> QED BY <2>2, <2>3
<1>3. Len(s) \in T
  <2> HIDE DEF T
  <2>1. \A n \in 0 .. Len(s) : n \in T
    BY <1>0, <1>1, <1>2, UpTo
  <2> QED BY <1>0, <2>1
<1>4. SubSeq(s, 1, Len(s)) = s
  OBVIOUS
<1> QED BY <1>3, <1>4

-----------------------------------------------------------------------------
(* Filtered sequences *)

KeptUpTo(s, S, kept) ==
  kept = [n \in 0 .. Len(s) |->
            IF n = 0 THEN << >> ELSE IF s[n] \in S THEN Append(kept[n - 1], s[n]) ELSE kept[n - 1]]

\* The recursion of Filter, step by step.
LEMMA KeptStep ==
  ASSUME NEW s, NEW S, NEW kept, KeptUpTo(s, S, kept), Len(s) \in Nat
  PROVE  /\ kept[0] = << >>
         /\ \A n \in 0 .. (Len(s) - 1) :
              kept[n + 1] = IF s[n + 1] \in S THEN Append(kept[n], s[n + 1]) ELSE kept[n]
<1>1. kept[0] = << >>
  BY DEF KeptUpTo
<1>2. ASSUME NEW n \in 0 .. (Len(s) - 1)
      PROVE  kept[n + 1] = IF s[n + 1] \in S THEN Append(kept[n], s[n + 1]) ELSE kept[n]
  <2>1. n + 1 \in 0 .. Len(s) /\ n + 1 # 0 /\ (n + 1) - 1 = n
    OBVIOUS
  <2>2. kept[n + 1] = IF s[n + 1] \in S THEN Append(kept[(n + 1) - 1], s[n + 1]) ELSE kept[(n + 1) - 1]
    BY <2>1 DEF KeptUpTo
  <2> QED BY <2>1, <2>2
<1> QED BY <1>1, <1>2

\* The recursion of Filter has a value, and at each position it is a sequence.
LEMMA FilterDefined ==
  ASSUME NEW X, NEW s \in Seq(X), NEW S
  PROVE  \E kept : KeptUpTo(s, S, kept) /\ kept \in [0 .. Len(s) -> Seq(X)] /\ Filter(s, S) = kept[Len(s)]
<1> DEFINE N == Len(s)
           Step == [q \in Seq(X) \X (1 .. N) |-> IF s[q[2]] \in S THEN Append(q[1], s[q[2]]) ELSE q[1]]
<1>1. ForwardStep(Step, Seq(X), N)
  BY DEF ForwardStep
<1>2. << >> \in Seq(X) /\ N \in Nat
  OBVIOUS
<1>3. PICK g : Recurs(g, Seq(X), << >>, N, Step)
  <2> HIDE DEF Step, N
  <2> QED BY <1>1, <1>2, Recursion
<1>4. KeptUpTo(s, S, g)
  <2>1. ASSUME NEW i \in 0 .. N
        PROVE  g[i] = IF i = 0 THEN << >> ELSE IF s[i] \in S THEN Append(g[i - 1], s[i]) ELSE g[i - 1]
    <3>1. CASE i = 0
      BY <3>1, <1>3 DEF Recurs
    <3>2. CASE i # 0
      <4>1. i \in 1 .. N /\ i - 1 \in 0 .. N
        BY <3>2
      <4>2. g[i] = Step[<< g[i - 1], i >>] /\ g[i - 1] \in Seq(X)
        <5> HIDE DEF Step
        <5> QED BY <4>1, <1>3 DEF Recurs
      <4>3. << g[i - 1], i >> \in Seq(X) \X (1 .. N)
        BY <4>1, <4>2
      <4> QED BY <3>2, <4>2, <4>3
    <3> QED BY <3>1, <3>2
  <2> QED BY <2>1, <1>3 DEF Recurs, KeptUpTo
<1> DEFINE kept == CHOOSE k : KeptUpTo(s, S, k)
<1>5. KeptUpTo(s, S, kept)
  BY <1>4
<1>6. Filter(s, S) = kept[N]
  BY DEF Filter, KeptUpTo
<1>7. kept \in [0 .. N -> Seq(X)]
  <2> HIDE DEF kept
  <2> DEFINE T == {n \in 0 .. N : kept[n] \in Seq(X)}
  <2>1. 0 \in T
    BY <1>5 DEF KeptUpTo
  <2>2. ASSUME NEW n \in 0 .. (N - 1), n \in T PROVE n + 1 \in T
    <3>0. n + 1 \in 0 .. N /\ s[n + 1] \in X
      OBVIOUS
    <3>1. kept[n + 1] = IF s[n + 1] \in S THEN Append(kept[n], s[n + 1]) ELSE kept[n]
      BY <1>2, <1>5, KeptStep
    <3>2. kept[n] \in Seq(X)
      BY <2>2
    <3>3. kept[n + 1] \in Seq(X)
      BY <3>0, <3>1, <3>2
    <3> QED BY <3>0, <3>3
  <2>3. \A n \in 0 .. N : n \in T
    <3> HIDE DEF T
    <3> QED BY <2>1, <2>2, <1>2, UpTo
  <2> QED BY <2>3, <1>5 DEF KeptUpTo
<1> QED BY <1>5, <1>6, <1>7

\* What is left is a sequence of the same kind.
LEMMA FilterType ==
  ASSUME NEW X, NEW s \in Seq(X), NEW S
  PROVE  Filter(s, S) \in Seq(X)
<1>1. PICK kept : kept \in [0 .. Len(s) -> Seq(X)] /\ Filter(s, S) = kept[Len(s)]
  BY FilterDefined
<1> QED BY <1>1

\* Of nothing, nothing is left.
LEMMA FilterEmpty == ASSUME NEW S PROVE Filter(<< >>, S) = << >>
<1>1. PICK kept : KeptUpTo(<< >>, S, kept) /\ Filter(<< >>, S) = kept[Len(<< >>)]
  <2>1. << >> \in Seq({})
    OBVIOUS
  <2> QED BY <2>1, FilterDefined
<1>2. Len(<< >>) = 0
  OBVIOUS
<1> QED BY <1>1, <1>2 DEF KeptUpTo

\* One more element is one more kept, if it passes.
LEMMA FilterAppend ==
  ASSUME NEW X, NEW s \in Seq(X), NEW e \in X, NEW S
  PROVE  Filter(Append(s, e), S) = IF e \in S THEN Append(Filter(s, S), e) ELSE Filter(s, S)
<1> DEFINE N == Len(s)
           t == Append(s, e)
<1>1. t \in Seq(X) /\ Len(t) = N + 1 /\ t[N + 1] = e /\ (\A i \in 1 .. N : t[i] = s[i]) /\ N \in Nat
  OBVIOUS
<1> HIDE DEF t
<1>2. PICK f : KeptUpTo(s, S, f) /\ Filter(s, S) = f[N]
  BY FilterDefined
<1>3. PICK g : KeptUpTo(t, S, g) /\ Filter(t, S) = g[N + 1]
  BY <1>1, FilterDefined
<1>8. \A n \in 0 .. N : g[n + 1] = IF t[n + 1] \in S THEN Append(g[n], t[n + 1]) ELSE g[n]
  <2>1. Len(t) \in Nat /\ Len(t) - 1 = N
    BY <1>1
  <2>2. \A n \in 0 .. (Len(t) - 1) : g[n + 1] = IF t[n + 1] \in S THEN Append(g[n], t[n + 1]) ELSE g[n]
    BY <2>1, <1>3, KeptStep
  <2> QED BY <2>1, <2>2
<1> HIDE DEF N
<1> DEFINE T == {n \in 0 .. N : f[n] = g[n]}
<1>4. 0 \in T
  BY <1>1, <1>2, <1>3, KeptStep DEF N
<1>5. ASSUME NEW n \in 0 .. (N - 1), n \in T PROVE n + 1 \in T
  <2>1. n \in 0 .. (Len(t) - 1) /\ t[n + 1] = s[n + 1] /\ n + 1 \in 0 .. N
    BY <1>1
  <2>2. f[n + 1] = IF s[n + 1] \in S THEN Append(f[n], s[n + 1]) ELSE f[n]
    BY <1>1, <1>2, KeptStep DEF N
  <2>3. g[n + 1] = IF t[n + 1] \in S THEN Append(g[n], t[n + 1]) ELSE g[n]
    BY <1>1, <1>8
  <2> QED BY <2>1, <2>2, <2>3, <1>5
<1>6. f[N] = g[N]
  <2>1. \A n \in 0 .. N : n \in T
    <3> HIDE DEF T
    <3> QED BY <1>1, <1>4, <1>5, UpTo
  <2> QED BY <1>1, <2>1
<1>7. g[N + 1] = IF t[N + 1] \in S THEN Append(g[N], t[N + 1]) ELSE g[N]
  BY <1>1, <1>8
<1> QED BY <1>1, <1>2, <1>3, <1>6, <1>7 DEF t

\* What is kept is what passes.
LEMMA FilterElements ==
  ASSUME NEW X, NEW s \in Seq(X), NEW S
  PROVE  Elements(Filter(s, S)) = Elements(s) \cap S
<1> DEFINE T == {q \in Seq(X) : Elements(Filter(q, S)) = Elements(q) \cap S}
<1>1. << >> \in T
  BY FilterEmpty DEF Elements
<1>2. ASSUME NEW q \in Seq(X), NEW e \in X, q \in T PROVE Append(q, e) \in T
  <2>1. Filter(q, S) \in Seq(X)
    BY FilterType
  <2>2. ASSUME NEW r \in Seq(X) PROVE Elements(Append(r, e)) = Elements(r) \cup {e}
    <3>1. DOMAIN Append(r, e) = DOMAIN r \cup {Len(r) + 1}
      OBVIOUS
    <3>2. Append(r, e)[Len(r) + 1] = e /\ \A i \in DOMAIN r : Append(r, e)[i] = r[i]
      OBVIOUS
    <3> QED BY <3>1, <3>2 DEF Elements
  <2>3. Elements(Append(q, e)) = Elements(q) \cup {e}
    BY <2>2
  <2>4. Elements(Append(Filter(q, S), e)) = Elements(Filter(q, S)) \cup {e}
    BY <2>1, <2>2
  <2>5. Elements(Filter(q, S)) = Elements(q) \cap S
    BY <1>2
  <2>6. Filter(Append(q, e), S) = IF e \in S THEN Append(Filter(q, S), e) ELSE Filter(q, S)
    BY FilterAppend
  <2>7. Elements(Filter(Append(q, e), S)) = Elements(Append(q, e)) \cap S
    BY <2>3, <2>4, <2>5, <2>6
  <2> QED BY <2>7
<1>3. s \in T
  <2> HIDE DEF T
  <2> QED BY <1>1, <1>2, ByAppending
<1> QED BY <1>3

\* A sequence behind another is filtered behind it.
LEMMA FilterConcat ==
  ASSUME NEW X, NEW s \in Seq(X), NEW t \in Seq(X), NEW S
  PROVE  Filter(s \o t, S) = Filter(s, S) \o Filter(t, S)
<1> DEFINE T == {q \in Seq(X) : Filter(s \o q, S) = Filter(s, S) \o Filter(q, S)}
<1>0. Filter(s, S) \in Seq(X)
  BY FilterType
<1>1. << >> \in T
  <2>1. s \o << >> = s /\ Filter(s, S) \o << >> = Filter(s, S)
    BY <1>0
  <2>2. Filter(s \o << >>, S) = Filter(s, S) \o Filter(<< >>, S)
    BY <2>1, FilterEmpty
  <2>3. << >> \in Seq(X)
    OBVIOUS
  <2> QED BY <2>2, <2>3
<1>2. ASSUME NEW q \in Seq(X), NEW e \in X, q \in T PROVE Append(q, e) \in T
  <2>1. s \o Append(q, e) = Append(s \o q, e) /\ s \o q \in Seq(X)
    OBVIOUS
  <2>2. Filter(q, S) \in Seq(X) /\ Filter(s \o q, S) = Filter(s, S) \o Filter(q, S)
    BY <1>2, FilterType
  <2>3. Filter(Append(s \o q, e), S) = IF e \in S THEN Append(Filter(s \o q, S), e) ELSE Filter(s \o q, S)
    BY <2>1, FilterAppend
  <2>4. Filter(Append(q, e), S) = IF e \in S THEN Append(Filter(q, S), e) ELSE Filter(q, S)
    BY FilterAppend
  <2>5. Filter(s, S) \o Append(Filter(q, S), e) = Append(Filter(s, S) \o Filter(q, S), e)
    BY <1>0, <2>2
  <2>6. Filter(s \o Append(q, e), S) = Filter(s, S) \o Filter(Append(q, e), S)
    BY <2>1, <2>2, <2>3, <2>4, <2>5
  <2> QED BY <2>6
<1>3. t \in T
  <2> HIDE DEF T
  <2> QED BY <1>1, <1>2, ByAppending
<1> QED BY <1>3

\* Two tests that agree on the elements leave the same.
LEMMA FilterSame ==
  ASSUME NEW X, NEW s \in Seq(X), NEW S, NEW R, X \cap S = X \cap R
  PROVE  Filter(s, S) = Filter(s, R)
<1> DEFINE T == {q \in Seq(X) : Filter(q, S) = Filter(q, R)}
<1>1. << >> \in T
  BY FilterEmpty
<1>2. ASSUME NEW q \in Seq(X), NEW e \in X, q \in T PROVE Append(q, e) \in T
  <2>1. Filter(Append(q, e), S) = IF e \in S THEN Append(Filter(q, S), e) ELSE Filter(q, S)
    BY FilterAppend
  <2>2. Filter(Append(q, e), R) = IF e \in R THEN Append(Filter(q, R), e) ELSE Filter(q, R)
    BY FilterAppend
  <2>3. Filter(q, S) = Filter(q, R) /\ (e \in S <=> e \in R)
    BY <1>2
  <2>4. Filter(Append(q, e), S) = Filter(Append(q, e), R)
    BY <2>1, <2>2, <2>3
  <2> QED BY <2>4
<1>3. s \in T
  <2> HIDE DEF T
  <2> QED BY <1>1, <1>2, ByAppending
<1> QED BY <1>3

\* Where all passes all is kept.
LEMMA FilterAll ==
  ASSUME NEW X, NEW s \in Seq(X), NEW S, X \subseteq S
  PROVE  Filter(s, S) = s
<1> DEFINE T == {q \in Seq(X) : Filter(q, S) = q}
<1>1. << >> \in T
  BY FilterEmpty
<1>2. ASSUME NEW q \in Seq(X), NEW e \in X, q \in T PROVE Append(q, e) \in T
  <2>1. Filter(Append(q, e), S) = Append(Filter(q, S), e) /\ Filter(q, S) = q
    BY <1>2, FilterAppend
  <2> QED BY <2>1
<1>3. s \in T
  <2> HIDE DEF T
  <2> QED BY <1>1, <1>2, ByAppending
<1> QED BY <1>3

\* Where nothing passes nothing is kept.
LEMMA FilterNone ==
  ASSUME NEW X, NEW s \in Seq(X), NEW S, X \cap S = {}
  PROVE  Filter(s, S) = << >>
<1> DEFINE T == {q \in Seq(X) : Filter(q, S) = << >>}
<1>1. << >> \in T
  BY FilterEmpty
<1>2. ASSUME NEW q \in Seq(X), NEW e \in X, q \in T PROVE Append(q, e) \in T
  <2>1. Filter(Append(q, e), S) = Filter(q, S) /\ Filter(q, S) = << >>
    BY <1>2, FilterAppend
  <2> QED BY <2>1
<1>3. s \in T
  <2> HIDE DEF T
  <2> QED BY <1>1, <1>2, ByAppending
<1> QED BY <1>3

-----------------------------------------------------------------------------
(* Verdicts *)

\* The worst of a set of actions is one of them, and none is worse.
LEMMA WorstOfSome ==
  ASSUME NEW S, S \subseteq Actions, S # {}
  PROVE  Worst(S) \in S /\ \A b \in S : action_rank(b) <= action_rank(Worst(S))
<1> DEFINE Top(a) == \A b \in S : action_rank(b) <= action_rank(a)
<1>1. \E a \in S : Top(a)
  <2>1. CASE "Block" \in S
    BY <2>1 DEF action_rank, Actions
  <2>2. CASE "Block" \notin S /\ "RequireApproval" \in S
    BY <2>2 DEF action_rank, Actions
  <2>3. CASE "Block" \notin S /\ "RequireApproval" \notin S /\ "Redact" \in S
    BY <2>3 DEF action_rank, Actions
  <2>4. CASE S \subseteq {"Allow", "Audit", "Warn"} /\ "Warn" \in S
    BY <2>4 DEF action_rank
  <2>5. CASE S \subseteq {"Allow", "Audit"} /\ "Audit" \in S
    BY <2>5 DEF action_rank
  <2>6. CASE S = {"Allow"}
    BY <2>6 DEF action_rank
  <2> QED BY <2>1, <2>2, <2>3, <2>4, <2>5, <2>6 DEF Actions
<1> QED BY <1>1 DEF Worst

LEMMA WorstIsWorst ==
  ASSUME NEW S, S \subseteq Actions, "Allow" \in S
  PROVE  Worst(S) \in S /\ \A b \in S : action_rank(b) <= action_rank(Worst(S))
<1>1. S # {}
  OBVIOUS
<1> QED BY <1>1, WorstOfSome

LEMMA WorstIsAction ==
  ASSUME NEW S, S \subseteq Actions, "Allow" \in S
  PROVE  Worst(S) \in Actions
BY WorstIsWorst

\* An inspection answers with one of the six actions.
LEMMA InspectActs ==
  ASSUME NEW p, WellTyped(p), NEW T
  PROVE  inspect(p, T).action \in Actions
<1> DEFINE asked == {category_setting(p, c) : c \in {d \in T : ActiveCategory(p, d)}}
<1>1. {"Allow"} \cup asked \subseteq Actions
  BY DEF WellTyped, category_setting, Actions
<1>2. Worst({"Allow"} \cup asked) \in Actions
  BY <1>1, WorstIsAction
<1> QED BY <1>2 DEF inspect

\* What it leaves of the text is part of it.
LEMMA InspectTypes ==
  ASSUME NEW p, WellTyped(p), NEW T \in SUBSET Categories
  PROVE  inspect(p, T) \in [kind : {"scan"}, action : Actions, sanitized : SUBSET Categories]
<1>1. inspect(p, T).action \in Actions
  BY InspectActs
<1>2. inspect(p, T) = [kind |-> "scan", action |-> inspect(p, T).action, sanitized |-> inspect(p, T).sanitized]
  BY DEF inspect
<1>3. inspect(p, T).sanitized \subseteq T
  BY DEF inspect
<1> QED BY <1>1, <1>2, <1>3

\* A text with a guarded category does not pass as it is: if it is not denied
\* it is masked, and the category with it.
LEMMA InspectGuards ==
  ASSUME NEW p, WellTyped(p), NEW T, NEW c \in T, Guarded(p, c), ~ Denied(inspect(p, T).action)
  PROVE  inspect(p, T).action = "Redact" /\ c \notin inspect(p, T).sanitized
<1> DEFINE S == {"Allow"} \cup {category_setting(p, d) : d \in {d \in T : ActiveCategory(p, d)}}
<1>1. S \subseteq Actions
  BY DEF WellTyped, category_setting, Actions
<1>2. inspect(p, T).action = Worst(S)
  BY DEF inspect
<1>3. ActiveCategory(p, c) /\ category_setting(p, c) \in S
  BY DEF Guarded
<1> HIDE DEF S
<1>4. "Allow" \in S
  BY DEF S
<1>5. Worst(S) \in Actions /\ action_rank(category_setting(p, c)) <= action_rank(Worst(S))
  BY <1>1, <1>3, <1>4, WorstIsWorst
<1>6. category_setting(p, c) = "Redact" /\ c \notin Unmaskable
  <2>1. ~ Denied(Worst(S))
    BY <1>2
  <2>2. ASSUME NEW a \in Actions, NEW b \in Actions, action_rank(a) <= action_rank(b), Denied(a)
        PROVE  Denied(b)
    BY <2>2 DEF Actions, action_rank, Denied, enforcement_action
  <2>3. ~ Denied(category_setting(p, c))
    BY <1>1, <1>3, <1>5, <2>1, <2>2
  <2> QED BY <2>3 DEF Guarded
<1>7. Worst(S) = "Redact"
  BY <1>2, <1>5, <1>6 DEF Actions, action_rank, Denied, enforcement_action
<1>8. c \notin inspect(p, T).sanitized
  BY <1>3, <1>6 DEF inspect
<1> QED BY <1>2, <1>7, <1>8

\* Nothing is found where nothing is read.
LEMMA InspectNothing == ASSUME NEW p, WellTyped(p) PROVE inspect(p, {}).action # "Redact"
<1>1. inspect(p, {}).action = Worst({"Allow"})
  <2>1. {category_setting(p, d) : d \in {d \in {} : ActiveCategory(p, d)}} = {}
    OBVIOUS
  <2> QED BY <2>1 DEF inspect
<1>2. Worst({"Allow"}) \in {"Allow"}
  BY WorstIsWorst DEF Actions
<1> QED BY <1>1, <1>2
=============================================================================
