--------------------------- MODULE LocalApiProofs ---------------------------
(***************************************************************************)
(* Proofs about the local API: about its gate (RequestGate), for any       *)
(* budget, window, clocks and number of workers, and then about the        *)
(* handlers behind it and the history they leave (LocalApi), for any       *)
(* policies, files and tables.                                             *)
(***************************************************************************)
EXTENDS LocalApi, RequestGate, VerdictsProofs, FiniteSetTheorems

-----------------------------------------------------------------------------
(* The gate *)

USE WindowAssumption, BoundsAssumption

\* The clocks, the cache, the budget and the workers keep their types.
THEOREM GateTypeCorrect == GateSpec => []GateTypeOK
<1>1. GateInit => GateTypeOK
  <2> SUFFICES ASSUME GateInit PROVE GateTypeOK
    OBVIOUS
  <2>1. msg \in [Workers -> Request]
    BY DEF GateInit, Request
  <2>2. admitted \in Seq(Nat)
    BY DEF GateInit
  <2> QED BY <2>1, <2>2 DEF GateInit, GateTypeOK
<1>2. GateTypeOK /\ [GateNext]_requestVars => GateTypeOK'
  <2> SUFFICES ASSUME GateTypeOK, [GateNext]_requestVars PROVE GateTypeOK'
    OBVIOUS
  <2>1. CASE UNCHANGED requestVars
    BY <2>1 DEF GateTypeOK, requestVars, gateVars
  <2>2. CASE Tick
    <3>1. now' \in Nat /\ wall' \in Int
      BY <2>2 DEF GateTypeOK, Tick
    <3> QED BY <2>2, <3>1 DEF GateTypeOK, Tick, gateVars
  <2>3. CASE SetClock
    <3>1. jumps' \in Nat /\ wall' \in Int
      BY <2>3 DEF GateTypeOK, SetClock
    <3> QED BY <2>3, <3>1 DEF GateTypeOK, SetClock, gateVars
  <2>4. ASSUME NEW n \in Nonces, Sign(n) PROVE GateTypeOK'
    <3>1. PICK s \in -Skew .. Skew : sent' = sent \union {[nonce |-> n, ts |-> wall + s]}
      BY <2>4 DEF Sign
    <3>2. [nonce |-> n, ts |-> wall + s] \in Request
      BY DEF Request, GateTypeOK
    <3> QED BY <2>4, <3>1, <3>2 DEF GateTypeOK, Sign, gateVars
  <2>5. ASSUME NEW w \in Workers, NEW r \in sent, Receive(w, r) PROVE GateTypeOK'
    <3>1. r \in Request
      BY DEF GateTypeOK
    <3>2. stage' \in [Workers -> {"idle", "checked", "authorized", "working"}]
      BY <2>5 DEF GateTypeOK, Receive
    <3> QED BY <2>5, <3>1, <3>2 DEF GateTypeOK, Receive, gateVars
  <2>6. ASSUME NEW w \in Workers, CheckAndRecord(w) PROVE GateTypeOK'
    <3>1. msg[w].nonce \in Nonces /\ Fresh \subseteq seen
      BY DEF GateTypeOK, Request, Fresh
    <3>2. [nonce |-> msg[w].nonce, at |-> now] \in [nonce : Nonces, at : Nat]
      BY <3>1 DEF GateTypeOK
    <3>3. seen' \subseteq [nonce : Nonces, at : Nat]
      BY <2>6, <3>1, <3>2 DEF CheckAndRecord, GateTypeOK
    <3>4. uses' \in [Nonces -> Nat] /\ last' \in [Nonces -> Nat]
      <4> DEFINE n == msg[w].nonce
      <4>1. \/ UNCHANGED <<uses, last>>
            \/ /\ uses' = [uses EXCEPT ![n] = uses[n] + 1]
               /\ last' = [last EXCEPT ![n] = now]
        BY <2>6 DEF CheckAndRecord
      <4>2. n \in Nonces
        BY <3>1
      <4>3. /\ uses \in [Nonces -> Nat] /\ last \in [Nonces -> Nat] /\ now \in Nat
            /\ uses[n] + 1 \in Nat
        BY <4>2 DEF GateTypeOK
      <4> HIDE DEF n
      <4> QED BY <4>1, <4>2, <4>3
    <3>5. stage' \in [Workers -> {"idle", "checked", "authorized", "working"}]
      BY <2>6 DEF CheckAndRecord, GateTypeOK
    <3>6. UNCHANGED <<signed, now, wall, jumps, sent, msg, start, counted, admitted>>
      BY <2>6 DEF CheckAndRecord
    <3> QED BY <3>3, <3>4, <3>5, <3>6 DEF GateTypeOK
  <2>7. ASSUME NEW w \in Workers, Allow(w) PROVE GateTypeOK'
    <3>1. start' \in Nat /\ counted' \in 0 .. Max
      BY <2>7 DEF Allow, Admit, GateTypeOK
    <3>2. admitted' \in Seq(Nat)
      BY <2>7 DEF Allow, Admit, GateTypeOK
    <3>3. stage' \in [Workers -> {"idle", "checked", "authorized", "working"}]
      BY <2>7 DEF Allow, Admit, GateTypeOK
    <3>4. UNCHANGED <<signed, now, wall, jumps, sent, msg, seen, uses, last>>
      BY <2>7 DEF Allow, Admit
    <3> QED BY <3>1, <3>2, <3>3, <3>4 DEF GateTypeOK
  <2>8. ASSUME NEW w \in Workers, Serve(w) PROVE GateTypeOK'
    BY <2>8 DEF GateTypeOK, Serve, gateVars
  <2> QED BY <2>1, <2>2, <2>3, <2>4, <2>5, <2>6, <2>7, <2>8 DEF GateNext
<1> QED BY <1>1, <1>2, PTL DEF GateSpec

\* The cache still knows every nonce accepted less than Window ago.
Remembered ==
  \A n \in Nonces :
    uses[n] > 0 => \/ [nonce |-> n, at |-> last[n]] \in seen
                   \/ now - last[n] >= Window

\* The purge at the head of check_and_record forgets nothing too early.
LEMMA RememberedInvariant == GateSpec => []Remembered
<1>1. GateInit => Remembered
  BY DEF GateInit, Remembered
<1>2. GateTypeOK /\ Remembered /\ [GateNext]_requestVars => Remembered'
  <2> SUFFICES ASSUME GateTypeOK, Remembered, [GateNext]_requestVars PROVE Remembered'
    OBVIOUS
  <2>1. ASSUME UNCHANGED <<uses, last, seen>>, now' \in {now, now + 1}
        PROVE  Remembered'
    BY <2>1 DEF Remembered, GateTypeOK
  <2>2. ASSUME NEW w \in Workers, CheckAndRecord(w) PROVE Remembered'
    <3> DEFINE n0 == msg[w].nonce
    <3>1. n0 \in Nonces /\ now' = now
      BY <2>2 DEF GateTypeOK, Request, CheckAndRecord
    <3>2. ASSUME NEW n \in Nonces, uses[n] > 0
          PROVE  [nonce |-> n, at |-> last[n]] \in Fresh \/ now - last[n] >= Window
      BY <3>2 DEF Remembered, Fresh, GateTypeOK
    <3>3. CASE /\ seen' = Fresh /\ UNCHANGED <<uses, last>>
      BY <3>1, <3>2, <3>3 DEF Remembered
    <3>4. CASE /\ seen' = Fresh \union {[nonce |-> n0, at |-> now]}
               /\ uses' = [uses EXCEPT ![n0] = @ + 1]
               /\ last' = [last EXCEPT ![n0] = now]
      <4> SUFFICES ASSUME NEW n \in Nonces, uses'[n] > 0
                   PROVE  [nonce |-> n, at |-> last'[n]] \in seen' \/ now - last'[n] >= Window
        BY <3>1 DEF Remembered
      <4>1. CASE n = n0
        BY <3>4, <4>1, <3>1 DEF GateTypeOK
      <4>2. CASE n # n0
        <5>1. uses'[n] = uses[n] /\ last'[n] = last[n]
          BY <3>4, <4>2 DEF GateTypeOK
        <5> QED BY <3>2, <3>4, <5>1
      <4> QED BY <4>1, <4>2
    <3> QED BY <2>2, <3>3, <3>4 DEF CheckAndRecord
  <2>3. CASE Tick \/ SetClock \/ UNCHANGED requestVars
    BY <2>3, <2>1 DEF Tick, SetClock, requestVars, gateVars
  <2>4. ASSUME NEW n \in Nonces, Sign(n) PROVE Remembered'
    BY <2>4, <2>1 DEF Sign, gateVars
  <2>5. ASSUME NEW w \in Workers, NEW r \in sent, Receive(w, r) PROVE Remembered'
    BY <2>5, <2>1 DEF Receive, gateVars
  <2>6. ASSUME NEW w \in Workers, Allow(w) \/ Serve(w) PROVE Remembered'
    BY <2>6, <2>1 DEF Allow, Admit, Serve, gateVars
  <2> QED BY <2>2, <2>3, <2>4, <2>5, <2>6 DEF GateNext
<1> QED BY <1>1, <1>2, GateTypeCorrect, PTL DEF GateSpec

\* No nonce is accepted twice within Window, whoever races for it.
THEOREM ReplaysStaySpaced == GateSpec => ReplaysAreSpaced
<1>1. GateTypeOK /\ Remembered /\ [GateNext]_requestVars
      => [\A n \in Nonces : uses'[n] # uses[n] /\ uses[n] > 0
                            => now - last[n] >= Window]_requestVars
  <2> SUFFICES ASSUME GateTypeOK, Remembered, GateNext, NEW n \in Nonces,
                      uses'[n] # uses[n], uses[n] > 0
               PROVE  now - last[n] >= Window
    OBVIOUS
  <2>1. PICK w \in Workers : CheckAndRecord(w)
    BY DEF GateNext, Tick, SetClock, Sign, Receive, Allow, Admit, Serve, gateVars
  <2>2. n = msg[w].nonce /\ ~Cached(Fresh, n)
    BY <2>1 DEF CheckAndRecord, GateTypeOK
  <2>3. [nonce |-> n, at |-> last[n]] \notin Fresh
    BY <2>2 DEF Cached
  <2> QED BY <2>3 DEF Remembered, Fresh, GateTypeOK
<1> QED BY <1>1, GateTypeCorrect, RememberedInvariant, PTL DEF GateSpec, ReplaysAreSpaced

-----------------------------------------------------------------------------
(* The budget *)

\* The admissions of the current window, and those from t on before it.
Current == {i \in DOMAIN admitted : start <= admitted[i]}
Earlier(t) == {i \in DOMAIN admitted : t <= admitted[i] /\ admitted[i] < start}

\* The counter has counted every admission of the current window, all lie
\* within it, and the span of Window that ends in it began after, or in, the
\* one window before.
BudgetInv ==
  /\ start <= now
  /\ \A i \in DOMAIN admitted : admitted[i] < start + Window
  /\ Cardinality(Current) <= counted
  /\ \A t \in Int : t + Window > start => Cardinality(Earlier(t)) <= Max

SpanInv == \A t \in Int : Cardinality(Admissions(t)) <= 2 * Max

\* Sets of indices of a sequence are finite.
LEMMA FiniteIndices ==
  ASSUME NEW a \in Seq(Nat), NEW S \in SUBSET DOMAIN a
  PROVE  IsFiniteSet(S) /\ Cardinality(S) \in Nat
<1>1. Len(a) \in Nat /\ DOMAIN a = 1 .. Len(a)
  OBVIOUS
<1>2. IsFiniteSet(1 .. Len(a))
  BY <1>1, FS_Interval
<1> QED BY <1>1, <1>2, FS_Subset, FS_CardinalityType

\* What an admission appends.
LEMMA Appended ==
  ASSUME NEW s \in Seq(Nat), NEW e \in Nat
  PROVE  /\ DOMAIN Append(s, e) = DOMAIN s \union {Len(s) + 1}
         /\ Len(s) + 1 \notin DOMAIN s
         /\ Append(s, e)[Len(s) + 1] = e
         /\ \A i \in DOMAIN s : Append(s, e)[i] = s[i] /\ s[i] \in Nat
OBVIOUS

\* A span of Window that ends after a window began saw at most what that
\* window and the one before admitted.
LEMMA TwoWindows ==
  ASSUME NEW a \in Seq(Nat), NEW s \in Nat, NEW t \in Int, t + Window > s,
         Cardinality({i \in DOMAIN a : t <= a[i] /\ a[i] < s}) <= Max,
         Cardinality({i \in DOMAIN a : s <= a[i]}) <= Max
  PROVE  Cardinality({i \in DOMAIN a : t <= a[i] /\ a[i] < t + Window}) <= 2 * Max
<1> DEFINE E == {i \in DOMAIN a : t <= a[i] /\ a[i] < s}
<1> DEFINE C == {i \in DOMAIN a : s <= a[i]}
<1> DEFINE A == {i \in DOMAIN a : t <= a[i] /\ a[i] < t + Window}
<1>1. A \subseteq E \union C /\ E \intersect C = {}
  <2>1. \A i \in DOMAIN a : a[i] \in Nat
    OBVIOUS
  <2> QED BY <2>1
<1>2. /\ IsFiniteSet(E) /\ Cardinality(E) \in Nat
      /\ IsFiniteSet(C) /\ Cardinality(C) \in Nat
      /\ Cardinality(A) \in Nat
  BY FiniteIndices
<1>3. Cardinality(E) <= Max /\ Cardinality(C) <= Max
  OBVIOUS
<1> HIDE DEF A, C, E
<1>4. IsFiniteSet(E \union C) /\ Cardinality(E \union C) = Cardinality(E) + Cardinality(C)
  <2>1. Cardinality(E \intersect C) = 0
    BY <1>1, FS_EmptySet
  <2>2. /\ IsFiniteSet(E \union C)
        /\ Cardinality(E \union C) = Cardinality(E) + Cardinality(C) - Cardinality(E \intersect C)
    BY <1>2, FS_Union
  <2> QED BY <1>2, <2>1, <2>2
<1>5. Cardinality(A) <= Cardinality(E \union C)
  BY <1>1, <1>4, FS_Subset
<1>6. Cardinality(A) <= 2 * Max
  BY <1>2, <1>3, <1>4, <1>5
<1> QED BY <1>6 DEF A

\* Before it admits, the limiter keeps its window or begins one; either way
\* what was admitted fits the counter and the window before.
LEMMA Renewed ==
  ASSUME GateTypeOK, BudgetInv, NEW base \in Nat, NEW begin \in Nat,
         \/ begin = start /\ base = counted
         \/ begin = now /\ base = 0 /\ now - start >= Window
  PROVE  /\ \A i \in DOMAIN admitted : admitted[i] < begin + Window
         /\ Cardinality({i \in DOMAIN admitted : begin <= admitted[i]}) <= base
         /\ \A t \in Int : t + Window > begin =>
              Cardinality({i \in DOMAIN admitted : t <= admitted[i] /\ admitted[i] < begin}) <= Max
<1>1. CASE begin = start /\ base = counted
  BY <1>1 DEF BudgetInv, Current, Earlier
<1>2. CASE begin = now /\ base = 0 /\ now - start >= Window
  <2>0. now \in Nat /\ start \in Nat
    BY DEF GateTypeOK
  <2>1. \A i \in DOMAIN admitted : admitted[i] < begin /\ admitted[i] \in Nat
    <3>1. \A i \in DOMAIN admitted : admitted[i] < start + Window /\ admitted[i] \in Nat
      BY DEF BudgetInv, GateTypeOK
    <3> QED BY <1>2, <2>0, <3>1
  <2>2. {i \in DOMAIN admitted : begin <= admitted[i]} = {}
    BY <2>1
  <2>3. ASSUME NEW t \in Int, t + Window > begin
        PROVE  Cardinality({i \in DOMAIN admitted : t <= admitted[i] /\ admitted[i] < begin}) <= Max
    <3> DEFINE S == {i \in DOMAIN admitted : t <= admitted[i] /\ admitted[i] < begin}
    <3>1. S \subseteq Current
      BY <1>2, <2>0, <2>1, <2>3 DEF Current
    <3>2. IsFiniteSet(Current) /\ Cardinality(Current) \in Nat
      BY FiniteIndices DEF Current, GateTypeOK
    <3>3. Cardinality(S) <= Cardinality(Current) /\ Cardinality(S) \in Nat
      BY <3>1, <3>2, FS_Subset, FS_CardinalityType
    <3>4. Cardinality(Current) <= counted /\ counted \in 0 .. Max
      BY DEF BudgetInv, GateTypeOK
    <3>5. Cardinality(S) <= Max
      <4> HIDE DEF S
      <4> QED BY <3>2, <3>3, <3>4
    <3> QED BY <3>5
  <2>4. \A i \in DOMAIN admitted : admitted[i] < begin + Window
    BY <2>1
  <2>5. Cardinality({i \in DOMAIN admitted : begin <= admitted[i]}) <= base
    BY <1>2, <2>2, FS_EmptySet
  <2> QED BY <2>3, <2>4, <2>5
<1> QED BY <1>1, <1>2

\* The counter and its window describe what was admitted, and no span of
\* Window saw more than twice the budget.
LEMMA BudgetInvariant == GateSpec => [](BudgetInv /\ SpanInv)
<1>1. GateInit => BudgetInv /\ SpanInv
  <2> SUFFICES ASSUME GateInit PROVE BudgetInv /\ SpanInv
    OBVIOUS
  <2>1. DOMAIN admitted = {} /\ start = 0 /\ now = 0 /\ counted = 0
    BY DEF GateInit
  <2>2. Current = {} /\ \A t \in Int : Earlier(t) = {} /\ Admissions(t) = {}
    BY <2>1 DEF Current, Earlier, Admissions
  <2>3. Cardinality({}) = 0
    BY FS_EmptySet
  <2>4. Cardinality(Current) <= counted /\ start <= now
    BY <2>1, <2>2, <2>3
  <2>5. \A t \in Int : Cardinality(Earlier(t)) <= Max /\ Cardinality(Admissions(t)) <= 2 * Max
    <3>1. 0 <= Max /\ 0 <= 2 * Max
      OBVIOUS
    <3> QED BY <2>2, <2>3, <3>1
  <2> QED BY <2>1, <2>4, <2>5 DEF BudgetInv, SpanInv
<1>2. GateTypeOK /\ GateTypeOK' /\ BudgetInv /\ SpanInv /\ [GateNext]_requestVars => BudgetInv' /\ SpanInv'
  <2> SUFFICES ASSUME GateTypeOK, GateTypeOK', BudgetInv, SpanInv, [GateNext]_requestVars
               PROVE  BudgetInv' /\ SpanInv'
    OBVIOUS
  <2>1. ASSUME UNCHANGED <<start, counted, admitted>>, now' >= now
        PROVE  BudgetInv' /\ SpanInv'
    <3>1. start <= now'
      BY <2>1 DEF BudgetInv, GateTypeOK
    <3>2. Current' = Current
      BY <2>1 DEF Current
    <3>3. \A t \in Int : Earlier(t)' = Earlier(t) /\ Admissions(t)' = Admissions(t)
      BY <2>1 DEF Earlier, Admissions
    <3> QED BY <2>1, <3>1, <3>2, <3>3 DEF BudgetInv, SpanInv
  <2>2. ASSUME NEW w \in Workers, Allow(w) PROVE BudgetInv' /\ SpanInv'
    <3> DEFINE reset == now - start >= Window
    <3> DEFINE base == IF reset THEN 0 ELSE counted
    <3>1. /\ start' = IF reset THEN now ELSE start
          /\ \/ base >= Max /\ counted' = base /\ admitted' = admitted
             \/ base < Max /\ counted' = base + 1 /\ admitted' = Append(admitted, now)
          /\ now' = now
      BY <2>2 DEF Allow, Admit, GateTypeOK
    <3>2. base \in Nat /\ base <= Max
      BY DEF GateTypeOK
    <3>3. \/ start' = start /\ base = counted /\ now - start < Window
          \/ start' = now /\ base = 0 /\ now - start >= Window
      BY <3>1 DEF GateTypeOK
    <3>4. start' \in Nat /\ start' <= now /\ now \in Nat /\ start <= start' /\ now < start' + Window
      <4>1. start \in Nat /\ now \in Nat /\ start <= now
        BY DEF BudgetInv, GateTypeOK
      <4>2. now < now + Window
        BY <4>1
      <4>3. now - start < Window => now < start + Window
        BY <4>1
      <4> QED BY <3>3, <4>1, <4>2, <4>3
    <3> HIDE DEF base
    <3> DEFINE Cur == {i \in DOMAIN admitted : start' <= admitted[i]}
    <3> DEFINE Ear(t) == {i \in DOMAIN admitted : t <= admitted[i] /\ admitted[i] < start'}
    <3>5. /\ \A i \in DOMAIN admitted : admitted[i] < start' + Window
          /\ Cardinality(Cur) <= base
          /\ \A t \in Int : t + Window > start' => Cardinality(Ear(t)) <= Max
      BY <3>2, <3>3, <3>4, Renewed
    <3>6. CASE base >= Max /\ counted' = base /\ admitted' = admitted
      <4>1. BudgetInv'
        BY <3>1, <3>4, <3>5, <3>6 DEF BudgetInv, Current, Earlier
      <4>2. SpanInv'
        BY <3>6 DEF SpanInv, Admissions
      <4> QED BY <4>1, <4>2
    <3>7. CASE base < Max /\ counted' = base + 1 /\ admitted' = Append(admitted, now)
      <4> DEFINE last1 == Len(admitted) + 1
      <4>1. /\ DOMAIN admitted' = DOMAIN admitted \union {last1}
            /\ last1 \notin DOMAIN admitted /\ admitted'[last1] = now
            /\ \A i \in DOMAIN admitted : admitted'[i] = admitted[i] /\ admitted[i] \in Nat
        <5>1. admitted \in Seq(Nat) /\ now \in Nat
          BY <3>4 DEF GateTypeOK
        <5>2. /\ DOMAIN Append(admitted, now) = DOMAIN admitted \union {last1}
              /\ last1 \notin DOMAIN admitted /\ Append(admitted, now)[last1] = now
              /\ \A i \in DOMAIN admitted : Append(admitted, now)[i] = admitted[i] /\ admitted[i] \in Nat
          BY <5>1, Appended
        <5> QED BY <3>7, <5>2
      <4> HIDE DEF last1
      <4>2. Current' = Cur \union {last1} /\ last1 \notin Cur
        BY <3>4, <4>1 DEF Current
      <4>3. \A t \in Int : Earlier(t)' = Ear(t)
        BY <3>4, <4>1 DEF Earlier
      <4>4. Cardinality(Current') <= counted'
        <5>1. IsFiniteSet(Cur) /\ Cardinality(Cur) \in Nat
          BY FiniteIndices DEF GateTypeOK
        <5>2. Cardinality(Current') = Cardinality(Cur) + 1
          BY <4>2, <5>1, FS_AddElement
        <5> HIDE DEF Cur
        <5> QED BY <3>2, <3>5, <3>7, <5>1, <5>2
      <4>5. \A i \in DOMAIN admitted' : admitted'[i] < start' + Window
        BY <3>4, <3>5, <4>1
      <4>6. BudgetInv'
        <5>1. \A t \in Int : t + Window > start' => Cardinality(Earlier(t)') <= Max
          BY <3>5, <4>3
        <5> QED BY <3>1, <3>4, <4>4, <4>5, <5>1 DEF BudgetInv
      <4>7. ASSUME NEW t \in Int PROVE Cardinality(Admissions(t)') <= 2 * Max
        <5>1. CASE t + Window > start'
          <6>1. admitted' \in Seq(Nat) /\ counted' <= Max
            BY <3>1, <3>2 DEF GateTypeOK
          <6>2. Cardinality(Earlier(t)') <= Max
            BY <4>6, <5>1 DEF BudgetInv
          <6>3. Cardinality(Current') <= Max
            <7>1. Cardinality(Current') \in Nat
              BY <6>1, FiniteIndices DEF Current
            <7>2. counted' \in Nat
              BY DEF GateTypeOK
            <7> QED BY <4>4, <6>1, <7>1, <7>2
          <6> QED BY <3>4, <5>1, <6>1, <6>2, <6>3, TwoWindows DEF Earlier, Current, Admissions
        <5>2. CASE t + Window <= start'
          <6>1. Admissions(t)' = Admissions(t)
            BY <3>4, <4>1, <5>2 DEF Admissions
          <6> QED BY <6>1 DEF SpanInv
        <5> QED BY <3>4, <5>1, <5>2
      <4> QED BY <4>6, <4>7 DEF SpanInv
    <3> QED BY <3>1, <3>6, <3>7
  <2>3. CASE Tick \/ SetClock \/ UNCHANGED requestVars
    BY <2>3, <2>1 DEF Tick, SetClock, requestVars, gateVars, GateTypeOK
  <2>4. ASSUME NEW n \in Nonces, Sign(n) PROVE BudgetInv' /\ SpanInv'
    BY <2>4, <2>1 DEF Sign, gateVars, GateTypeOK
  <2>5. ASSUME NEW w \in Workers, NEW r \in sent, Receive(w, r) PROVE BudgetInv' /\ SpanInv'
    BY <2>5, <2>1 DEF Receive, gateVars, GateTypeOK
  <2>6. ASSUME NEW w \in Workers, CheckAndRecord(w) \/ Serve(w) PROVE BudgetInv' /\ SpanInv'
    BY <2>6, <2>1 DEF CheckAndRecord, Serve, gateVars, GateTypeOK
  <2> QED BY <2>2, <2>3, <2>4, <2>5, <2>6 DEF GateNext
<1> QED BY <1>1, <1>2, GateTypeCorrect, PTL DEF GateSpec

\* Whichever workers spend the budget and whenever the window is renewed, no
\* span of Window sees more than twice the budget admitted.
THEOREM BurstsAreBounded == GateSpec => []BurstBounded
<1>1. GateTypeOK /\ SpanInv => BurstBounded
  BY DEF BurstBounded, SpanInv, GateTypeOK
<1> QED BY <1>1, GateTypeCorrect, BudgetInvariant, PTL

-----------------------------------------------------------------------------
(* The handlers *)

\* A map over the requests, whatever its values are.
Mapped(f) == f = [r \in Reqs |-> f[r]]

Maps ==
  /\ Mapped(pc) /\ Mapped(req) /\ Mapped(text) /\ Mapped(scan) /\ Mapped(answer)
  /\ Mapped(shown) /\ Mapped(live)

\* Some policy of the request's time does not guard the category.
Unguarded(r, c) == \E p \in live[r] : ~ Guarded(p, c)

\* The verdict is the one a policy of that time has for what it cannot mask.
Excused(r) ==
  /\ req[r].kind = "file" /\ effective_extension(req[r]) \notin PlainText
  /\ scan[r].action \in {"Allow", "Audit", "Warn"}
  /\ \E p \in live[r] : p.unmaskable = scan[r].action

\* A verdict that lets a text pass lets no guarded category of it pass.
Kept(r) ==
  ~ Denied(scan[r].action) =>
    \A c \in text[r] :
      Unguarded(r, c) \/ Excused(r) \/ (scan[r].action = "Redact" /\ c \notin scan[r].sanitized)

\* What could be read of a picture was scanned, unless its type is exempt.
PagesRead(r) ==
  \/ Denied(scan[r].action)
  \/ \E p \in live[r] : upload_action(p, req[r].head) = "Allow"
  \/ \A i \in ReadablePages(req[r]) : req[r].pages[i].text \subseteq text[r]

PlainIfMasked(r) ==
  scan[r].action = "Redact" =>
    /\ effective_extension(req[r]) \in PlainText /\ text[r] = req[r].raw
    /\ \E p \in live[r] : scan[r] = inspect(p, req[r].raw)

Beats == {"beat_read", "beat_truncate", "beat_write"}

\* What is known of a request at each place of its handler.
Handler(r) ==
  /\ pc[r] \in Labels
  /\ pc[r] # "idle" => req[r] \in work.offered[r]
  /\ Judging(r) => policy \in live[r]
  /\ text[r] \in SUBSET Categories /\ scan[r] \in Scans \cup {Null}
  /\ pc[r] \in {"idle", "refused", "upload", "scan"} \cup Beats => scan[r] = Null /\ text[r] = {}
  /\ pc[r] \in {"idle", "refused", "upload", "scan", "fallback", "verify"} \cup Beats => shown[r] = Null
  /\ pc[r] \in {"fallback", "verify", "verdict", "save"} => scan[r] # Null
  /\ pc[r] \in {"upload", "fallback"} => req[r].kind = "file"
  /\ pc[r] = "scan" => req[r].kind # "heartbeat"
  /\ pc[r] = "fallback" => scan[r].action = "Redact" /\ effective_extension(req[r]) \notin PlainText
  /\ pc[r] \in {"verify", "verdict"} => req[r].kind \in {"inspect", "file"}
  /\ pc[r] = "verdict" => scan[r].action = "Allow"
  /\ answer[r] # Null => pc[r] = "done" /\ scan[r] # Null /\ answer[r] = scan[r]
  /\ scan[r] # Null /\ pc[r] # "fallback" => Kept(r)
  /\ scan[r] # Null /\ req[r].kind = "file" => PagesRead(r)
  /\ scan[r] # Null /\ req[r].kind = "file" /\ pc[r] # "fallback" => PlainIfMasked(r)
  /\ scan[r] # Null /\ req[r].kind # "file" => text[r] = req[r].text
  /\ shown[r] # Null => req[r].kind # "response" /\ shown[r].text \subseteq Categories
  /\ shown[r] # Null =>
       \A c \in shown[r].text :
         Unguarded(r, c) \/ (req[r].kind = "file" /\ \E p \in live[r] : p.unmaskable = "Allow")

WorldInv ==
  /\ work \in Workloads /\ policy \in work.policies /\ changes \in 0 .. MaxChanges
  /\ Maps
  /\ file.kind \in {"absent", "empty", "torn", "whole"}

HandlerInv == WorldInv /\ \A r \in Reqs : Handler(r)

-----------------------------------------------------------------------------
(* Heartbeats *)

Busy(r) == pc[r] \in {"beat_truncate", "beat_write"}

Merged(r) == before[r] \cup ({req[r].profile} \ {""})

\* A heartbeat that is alone is the only one between its read and its write,
\* and the file is empty while it writes; the one that wrote last is followed
\* by nobody.
Beating(r) ==
  /\ Busy(r) => mine[r] = Merged(r)
  /\ r \in alone /\ Busy(r) => \A o \in Reqs \ {r} : ~ Busy(o)
  /\ r \in alone /\ pc[r] = "beat_write" => file.kind = "empty"

BeatInv ==
  /\ Mapped(pc) /\ Mapped(req) /\ Mapped(mine) /\ Mapped(before)
  /\ alone \subseteq Reqs /\ \A r \in alone : Busy(r) \/ pc[r] = "done"
  /\ \A r \in Reqs : Beating(r)
  /\ latest # "" /\ latest \in alone =>
       /\ \A o \in Reqs : ~ Busy(o)
       /\ file = [kind |-> "whole", by |-> latest, profiles |-> Merged(latest)]

-----------------------------------------------------------------------------
(* What is read of a file *)

LEMMA Extracted ==
  ASSUME NEW f, FileAssumption(f), NEW ext, NEW ocr, extract_text(ext, f, ocr) # Unsupported
  PROVE  extract_text(ext, f, ocr).text \subseteq Categories
<1>1. /\ f.layer \subseteq Categories /\ f.raw \subseteq Categories
      /\ \A i \in DOMAIN f.pages : f.pages[i].text \subseteq Categories
  BY DEF FileAssumption
<1>2. extract_pdf(f, ocr) \subseteq Categories
  BY <1>1 DEF extract_pdf, ocr_page
<1>3. f.format = "image" => f.pages[1].text \subseteq Categories
  BY <1>1 DEF FileAssumption
<1>4. \A T : Text(T).text = T
  BY DEF Text
<1>5. \/ extract_text(ext, f, ocr) = Unsupported
      \/ extract_text(ext, f, ocr) = Text(f.raw)
      \/ extract_text(ext, f, ocr) = Text(extract_docx(f))
      \/ extract_text(ext, f, ocr) = Text(extract_pdf(f, ocr))
      \/ f.format = "image" /\ extract_text(ext, f, ocr) = Text(f.pages[1].text)
      \/ extract_text(ext, f, ocr) = Text(f.layer)
  BY DEF extract_text
<1>6. extract_docx(f) \subseteq Categories
  BY <1>1 DEF extract_docx
<1> QED BY <1>1, <1>2, <1>3, <1>4, <1>5, <1>6

\* A plain extension reads the bytes as they are, of whatever format.
LEMMA PlainExtracted ==
  ASSUME NEW f, NEW ext \in PlainText, NEW ocr
  PROVE  extract_text(ext, f, ocr) # Unsupported /\ extract_text(ext, f, ocr).text = f.raw
<1>1. extract_text(ext, f, ocr) = Text(f.raw)
  BY DEF extract_text, PlainText, IMAGE_EXTENSIONS, AnyDoc
<1> QED BY <1>1 DEF Text, Unsupported

\* A signature settles how a file is read.
LEMMA SniffedExtension ==
  ASSUME NEW f, f.head \in Signatures
  PROVE  effective_extension(f) = f.head /\ f.head \notin PlainText
BY DEF effective_extension, sniff_extension, Signatures, PlainText

\* Every page that OCR can get at is read.
LEMMA PagesExtracted ==
  ASSUME NEW f, FileAssumption(f), NEW i \in ReadablePages(f)
  PROVE  /\ effective_extension(f) = f.head /\ f.head \notin PlainText
         /\ extract_text(f.head, f, config.ocr) # Unsupported
         /\ f.pages[i].text \subseteq extract_text(f.head, f, config.ocr).text
<1> DEFINE out == extract_text(f.head, f, config.ocr)
<1>1. /\ i \in DOMAIN f.pages /\ f.pages[i].ok /\ f.head \in Signatures /\ config.ocr.engine
      /\ \/ f.format = "image" /\ i = 1
         \/ f.format = "pdf" /\ ~ f.dense /\ config.ocr.pdfium /\ i <= MAX_OCR_PAGES
  BY DEF ReadablePages
<1>2. effective_extension(f) = f.head /\ f.head \notin PlainText
  BY <1>1, SniffedExtension
<1>3. CASE f.format = "image"
  <2>1. f.head \in IMAGE_EXTENSIONS
    BY <1>1, <1>3 DEF FileAssumption, Signatures, IMAGE_EXTENSIONS
  <2>2. i = 1
    BY <1>1, <1>3
  <2>3. out = Text(f.pages[1].text)
    BY <1>1, <1>2, <1>3, <2>1, <2>2 DEF extract_text, IMAGE_EXTENSIONS
  <2> QED BY <1>2, <2>2, <2>3 DEF Text, Unsupported
<1>4. CASE f.format = "pdf"
  <2>1. f.head = "pdf"
    BY <1>1, <1>4 DEF FileAssumption, Signatures
  <2>2. out = Text(extract_pdf(f, config.ocr))
    BY <1>2, <1>4, <2>1 DEF extract_text
  <2>3. f.pages[i].text \subseteq extract_pdf(f, config.ocr)
    <3> SUFFICES ASSUME NEW c \in f.pages[i].text PROVE c \in extract_pdf(f, config.ocr)
      OBVIOUS
    <3> DEFINE read == {j \in DOMAIN f.pages : j <= MAX_OCR_PAGES /\ ~ ocr_blank(f.pages[j])}
    <3>1. ~ f.pages[i].blank
      BY <1>1 DEF FileAssumption
    <3>2. i \in read
      BY <1>1, <1>4, <3>1 DEF ocr_blank
    <3>3. extract_pdf(f, config.ocr) = UNION {ocr_page(f.pages[j]) : j \in read}
      BY <1>1, <1>4, <3>2 DEF extract_pdf
    <3>4. ocr_page(f.pages[i]) = f.pages[i].text
      BY <1>1 DEF ocr_page
    <3> HIDE DEF read
    <3> QED BY <3>2, <3>3, <3>4
  <2> QED BY <1>2, <2>1, <2>2, <2>3 DEF Text, Unsupported
<1> QED BY <1>1, <1>3, <1>4

-----------------------------------------------------------------------------
(* The handlers' steps *)

HandlerAct(r) == Arrive(r) \/ Handle(r) \/ Verdict(r) \/ Disconnect(r)

\* A request stays as it is while another one moves or the policy changes.
Same(q) ==
  /\ pc'[q] = pc[q] /\ req'[q] = req[q] /\ text'[q] = text[q] /\ scan'[q] = scan[q]
  /\ answer'[q] = answer[q] /\ shown'[q] = shown[q] /\ live[q] \subseteq live'[q]

\* What was excused, unguarded or read stays so while policies are added.
LEMMA VerdictKept ==
  ASSUME NEW q \in Reqs, req'[q] = req[q], text'[q] = text[q], scan'[q] = scan[q],
         live[q] \subseteq live'[q], config' = config
  PROVE  /\ Kept(q) => Kept(q)'
         /\ PagesRead(q) => PagesRead(q)'
         /\ PlainIfMasked(q) => PlainIfMasked(q)'
<1>1. \A c : Unguarded(q, c) => Unguarded(q, c)'
  BY DEF Unguarded
<1>2. Excused(q) => Excused(q)'
  BY DEF Excused
<1>3. Kept(q) => Kept(q)'
  BY <1>1, <1>2 DEF Kept
<1>4. PagesRead(q) => PagesRead(q)'
  BY DEF PagesRead, ReadablePages
<1> QED BY <1>3, <1>4 DEF PlainIfMasked

LEMMA HandlerSame ==
  ASSUME NEW q \in Reqs, Handler(q), Same(q), config' = config, work' = work,
         Judging(q) => policy' \in live'[q]
  PROVE  Handler(q)'
<1>1. /\ Kept(q) => Kept(q)'
      /\ PagesRead(q) => PagesRead(q)'
      /\ PlainIfMasked(q) => PlainIfMasked(q)'
  BY VerdictKept DEF Same
<1>2. \A c : Unguarded(q, c) => Unguarded(q, c)'
  BY DEF Unguarded, Same
<1>3. (\E p \in live[q] : p.unmaskable = "Allow") => \E p \in live'[q] : p.unmaskable = "Allow"
  BY DEF Same
<1>4. Judging(q)' = Judging(q)
  BY DEF Judging, Same
<1> QED BY <1>1, <1>2, <1>3, <1>4 DEF Handler, Same

LEMMA OnlyOne ==
  ASSUME WorldInv, NEW r \in Reqs, HandlerAct(r)
  PROVE  Maps' /\ \A q \in Reqs \ {r} : Same(q) /\ live'[q] = live[q]
<1> USE DEF Maps, Mapped, Same, WorldInv
<1>1. CASE Arrive(r)
  <2>1. PICK l : Goto(r, l)
    BY <1>1 DEF Arrive
  <2>2. PICK q \in work.offered[r] : req' = [req EXCEPT ![r] = q]
    BY <1>1 DEF Arrive
  <2>3. live' = [live EXCEPT ![r] = {policy}] /\ UNCHANGED scanVars
    BY <1>1 DEF Arrive
  <2> QED BY <2>1, <2>2, <2>3 DEF scanVars, Goto
<1>2. CASE CheckUpload(r)
  BY <1>2 DEF CheckUpload, Judge, Goto
<1>3. CASE ScanFile(r)
  <2>1. (\E l : Goto(r, l)) /\ (\E s : scan' = [scan EXCEPT ![r] = s])
    BY <1>3 DEF ScanFile, Judge
  <2>2. text' = text \/ \E t : text' = [text EXCEPT ![r] = t]
    BY <1>3 DEF ScanFile
  <2>3. UNCHANGED << req, live, answer, shown >>
    BY <1>3 DEF ScanFile
  <2> QED BY <2>1, <2>2, <2>3 DEF Goto
<1>4. CASE Fallback(r)
  BY <1>4 DEF Fallback, Judge, Goto
<1>5. CASE ScanText(r)
  BY <1>5 DEF ScanText, Judge, Goto
<1>6. CASE Ask(r)
  BY <1>6 DEF Ask, Judge, Goto
<1>7. CASE Answer(r)
  BY <1>7 DEF Answer, Goto
<1>8. CASE BeatRead(r) \/ BeatTruncate(r) \/ BeatWrite(r) \/ BeatFails(r)
  <2>1. (\E l : Goto(r, l)) /\ UNCHANGED << req, live, scanVars >>
    BY <1>8 DEF BeatRead, BeatTruncate, BeatWrite, BeatFails
  <2> QED BY <2>1 DEF Goto, scanVars
<1>9. CASE Verdict(r)
  <2>1. (\E l : Goto(r, l)) /\ (\E s : scan' = [scan EXCEPT ![r] = s])
        /\ UNCHANGED << req, live, text, answer, shown >>
    BY <1>9 DEF Verdict, Judge
  <2> QED BY <2>1 DEF Goto
<1>10. CASE Disconnect(r)
  BY <1>10 DEF Disconnect, Goto, scanVars
<1> QED BY <1>1, <1>2, <1>3, <1>4, <1>5, <1>6, <1>7, <1>8, <1>9, <1>10 DEF HandlerAct, Handle

\* No step of a handler changes what the server was built with or its policy.
LEMMA HandlerWorld ==
  ASSUME WorldInv, NEW r \in Reqs, HandlerAct(r)
  PROVE  /\ UNCHANGED << work, config, policy, changes >>
         /\ file'.kind \in {"absent", "empty", "torn", "whole"}
<1>1. CASE Arrive(r) \/ Verdict(r) \/ Disconnect(r)
  BY <1>1 DEF Arrive, Verdict, Disconnect, beatVars, WorldInv
<1>2. CASE CheckUpload(r) \/ ScanFile(r) \/ Fallback(r) \/ ScanText(r) \/ Ask(r) \/ Answer(r)
  BY <1>2 DEF CheckUpload, ScanFile, Fallback, ScanText, Ask, Answer, beatVars, WorldInv
<1>3. CASE BeatRead(r) \/ BeatFails(r)
  <2>1. UNCHANGED << work, config, policy, changes, file >>
    BY <1>3 DEF BeatRead, BeatFails, beatVars
  <2> QED BY <2>1 DEF WorldInv
<1>5. CASE BeatTruncate(r)
  <2>1. UNCHANGED << work, config, policy, changes >> /\ file' = [kind |-> "empty"]
    BY <1>5 DEF BeatTruncate
  <2> QED BY <2>1
<1>4. CASE BeatWrite(r)
  BY <1>4 DEF BeatWrite, WorldInv
<1> QED BY <1>1, <1>2, <1>3, <1>4, <1>5 DEF HandlerAct, Handle

\* What the policies and the requests in flight are, by the assumption on workloads.
LEMMA Offered ==
  ASSUME WorldInv, NEW r \in Reqs
  PROVE  /\ WellTyped(policy) /\ policy.unmaskable \in Actions
         /\ \A q \in work.offered[r] :
              /\ q.kind \in {"inspect", "response", "file", "heartbeat"}
              /\ q.kind \in {"inspect", "response"} => q.text \subseteq Categories
              /\ q.kind = "file" => FileAssumption(q)
<1>1. work \in Workloads /\ policy \in work.policies
  BY DEF WorldInv
<1> QED BY <1>1, WorkloadsAssumption

LEMMA ArriveHandled ==
  ASSUME WorldInv, NEW r \in Reqs, Handler(r), Arrive(r)
  PROVE  Handler(r)'
<1>1. Mapped(pc) /\ Mapped(req) /\ Mapped(live)
  BY DEF WorldInv, Maps
<1>2. PICK q \in work.offered[r] :
        /\ req' = [req EXCEPT ![r] = q]
        /\ \/ Goto(r, "refused")
           \/ Goto(r, CASE q.kind = "file" -> IF q.decodes THEN "upload" ELSE "refused"
                        [] q.kind = "heartbeat" -> "beat_read"
                        [] OTHER -> "scan")
  BY DEF Arrive
<1>3. req'[r] = q
  BY <1>1, <1>2 DEF Mapped
<1>4. /\ pc'[r] \in {"refused", "upload", "beat_read", "scan"}
      /\ pc'[r] = "upload" => q.kind = "file"
      /\ pc'[r] = "scan" => q.kind # "heartbeat"
  BY <1>1, <1>2 DEF Mapped, Goto
<1>5. live'[r] = {policy} /\ policy' = policy /\ work' = work /\ UNCHANGED scanVars
  BY <1>1 DEF Arrive, Mapped
<1>6. pc[r] = "idle"
  BY DEF Arrive
<1>7. /\ text'[r] = {} /\ scan'[r] = Null /\ answer'[r] = Null /\ shown'[r] = Null
  BY <1>5, <1>6 DEF Handler, scanVars
<1> QED BY <1>3, <1>4, <1>5, <1>7 DEF Handler, Labels, Judging, Beats

\* A verdict that comes from the policy in force lets nothing guarded pass.
LEMMA VerdictOfPolicy ==
  ASSUME NEW r \in Reqs, WellTyped(policy), policy \in live[r], live' = live,
         scan'[r] = inspect(policy, text'[r])
  PROVE  Kept(r)'
<1> SUFFICES ASSUME ~ Denied(scan'[r].action), NEW c \in text'[r]
             PROVE  Unguarded(r, c)' \/ (scan'[r].action = "Redact" /\ c \notin scan'[r].sanitized)
  BY DEF Kept
<1>1. CASE Guarded(policy, c)
  BY <1>1, InspectGuards
<1>2. CASE ~ Guarded(policy, c)
  BY <1>2 DEF Unguarded
<1> QED BY <1>1, <1>2

LEMMA CheckUploadHandled ==
  ASSUME WorldInv, NEW r \in Reqs, Handler(r), CheckUpload(r)
  PROVE  Handler(r)'
<1> DEFINE u == upload_action(policy, effective_extension(req[r]))
<1>1. Mapped(pc) /\ Mapped(scan)
  BY DEF WorldInv, Maps
<1>2. /\ pc[r] = "upload" /\ UNCHANGED << work, config, policy, req, live, text, answer, shown >>
      /\ IF u = "Inspect" THEN Goto(r, "scan") /\ UNCHANGED scan ELSE Judge(r, file_result(u), "save")
  BY DEF CheckUpload
<1>3. /\ req[r] \in work.offered[r] /\ req[r].kind = "file" /\ policy \in live[r]
      /\ scan[r] = Null /\ text[r] = {} /\ shown[r] = Null /\ answer[r] = Null
  BY <1>2 DEF Handler, Judging
<1>4. FileAssumption(req[r]) /\ WellTyped(policy)
  BY <1>3, Offered
<1>5. CASE u = "Inspect"
  <2>1. pc'[r] = "scan" /\ scan'[r] = Null
    BY <1>1, <1>2, <1>3, <1>5 DEF Mapped, Goto
  <2> QED BY <1>2, <1>3, <2>1 DEF Handler, Labels, Judging, Beats
<1>6. CASE u # "Inspect"
  <2>1. u \in {"Allow", "Block"}
    BY <1>4, <1>6 DEF WellTyped, upload_action
  <2>2. pc'[r] = "save" /\ scan'[r] = file_result(u)
    BY <1>1, <1>2, <1>6 DEF Mapped, Judge, Goto
  <2>3. scan'[r] \in Scans /\ scan'[r] # Null /\ scan'[r].action = u /\ u # "Redact"
    BY <2>1, <2>2 DEF Scans, file_result, Null, Actions
  <2>4. Kept(r)'
    BY <1>2, <1>3 DEF Kept
  <2>5. PagesRead(r)'
    <3>1. CASE u = "Block"
      BY <2>3, <3>1 DEF PagesRead, Denied, enforcement_action
    <3>2. CASE u = "Allow" /\ ReadablePages(req[r]) # {}
      <4>1. upload_action(policy, req[r].head) = "Allow"
        BY <1>4, <3>2, PagesExtracted
      <4> QED BY <1>2, <1>3, <4>1 DEF PagesRead
    <3>3. CASE ReadablePages(req[r]) = {}
      BY <1>2, <3>3 DEF PagesRead, ReadablePages
    <3> QED BY <2>1, <3>1, <3>2, <3>3
  <2>6. PlainIfMasked(r)'
    BY <2>3 DEF PlainIfMasked
  <2> QED BY <1>2, <1>3, <2>2, <2>3, <2>4, <2>5, <2>6 DEF Handler, Labels, Judging, Beats
<1> QED BY <1>5, <1>6

LEMMA ScanFileHandled ==
  ASSUME WorldInv, NEW r \in Reqs, Handler(r), ScanFile(r)
  PROVE  Handler(r)'
<1> DEFINE ext == effective_extension(req[r])
           out == extract_text(ext, req[r], config.ocr)
           s   == inspect(policy, out.text)
<1>1. Mapped(pc) /\ Mapped(scan) /\ Mapped(text)
  BY DEF WorldInv, Maps
<1>2. /\ pc[r] = "scan" /\ req[r].kind = "file"
      /\ UNCHANGED << work, config, policy, req, live, answer, shown >>
      /\ IF out = Unsupported THEN Judge(r, file_result("Allow"), "save") /\ UNCHANGED text
         ELSE /\ text' = [text EXCEPT ![r] = out.text]
              /\ Judge(r, s, IF s.action = "Redact" /\ ~ is_text_redactable_extension(ext) THEN "fallback" ELSE "verify")
  BY DEF ScanFile
<1>3. /\ req[r] \in work.offered[r] /\ policy \in live[r]
      /\ scan[r] = Null /\ text[r] = {} /\ shown[r] = Null /\ answer[r] = Null
  BY <1>2 DEF Handler, Judging
<1>4. FileAssumption(req[r]) /\ WellTyped(policy)
  BY <1>2, <1>3, Offered
<1>5. CASE out = Unsupported
  <2>1. pc'[r] = "save" /\ scan'[r] = file_result("Allow") /\ text'[r] = {}
    BY <1>1, <1>2, <1>3, <1>5 DEF Mapped, Judge, Goto
  <2>2. scan'[r] \in Scans /\ scan'[r] # Null /\ scan'[r].action = "Allow"
    BY <2>1 DEF Scans, file_result, Null, Actions
  <2>3. Kept(r)'
    BY <2>1 DEF Kept
  <2>4. PagesRead(r)'
    <3>1. ReadablePages(req[r]) = {}
      BY <1>4, <1>5, PagesExtracted
    <3> QED BY <1>2, <3>1 DEF PagesRead, ReadablePages
  <2>5. PlainIfMasked(r)'
    BY <2>2 DEF PlainIfMasked
  <2> QED BY <1>2, <1>3, <2>1, <2>2, <2>3, <2>4, <2>5 DEF Handler, Labels, Judging, Beats
<1>6. CASE out # Unsupported
  <2>1. /\ text'[r] = out.text /\ scan'[r] = s
        /\ pc'[r] = IF s.action = "Redact" /\ ext \notin PlainText THEN "fallback" ELSE "verify"
    BY <1>1, <1>2, <1>6 DEF Mapped, Judge, Goto, is_text_redactable_extension
  <2>2. out.text \in SUBSET Categories
    BY <1>4, <1>6, Extracted
  <2>3. s \in Scans /\ s # Null
    BY <1>4, <2>2, InspectTypes DEF Scans, Null
  <2>4. Kept(r)'
    BY <1>2, <1>3, <1>4, <2>1, VerdictOfPolicy
  <2>5. PagesRead(r)'
    <3>1. \A i \in ReadablePages(req[r]) : req[r].pages[i].text \subseteq out.text
      BY <1>4, PagesExtracted
    <3> QED BY <1>2, <2>1, <3>1 DEF PagesRead, ReadablePages
  <2>6. pc'[r] = "verify" => PlainIfMasked(r)'
    <3> SUFFICES ASSUME pc'[r] = "verify", s.action = "Redact"
                 PROVE  /\ ext \in PlainText /\ out.text = req[r].raw
                        /\ \E p \in live[r] : s = inspect(p, req[r].raw)
      BY <1>2, <2>1 DEF PlainIfMasked
    <3>1. ext \in PlainText
      BY <2>1
    <3>2. out.text = req[r].raw
      BY <3>1, PlainExtracted
    <3> QED BY <1>3, <3>1, <3>2
  <2>7. pc'[r] = "fallback" => scan'[r].action = "Redact" /\ effective_extension(req[r]) \notin PlainText
    BY <2>1
  <2>8. pc'[r] \in {"fallback", "verify"} /\ scan'[r] \in Scans /\ scan'[r] # Null /\ text'[r] \in SUBSET Categories
    BY <2>1, <2>2, <2>3
  <2> QED BY <1>2, <1>3, <2>4, <2>5, <2>6, <2>7, <2>8 DEF Handler, Labels, Judging, Beats
<1> QED BY <1>5, <1>6

LEMMA ScanTextHandled ==
  ASSUME WorldInv, NEW r \in Reqs, Handler(r), ScanText(r)
  PROVE  Handler(r)'
<1> DEFINE s == inspect(policy, req[r].text)
<1>1. Mapped(pc) /\ Mapped(scan) /\ Mapped(text)
  BY DEF WorldInv, Maps
<1>2. /\ pc[r] = "scan" /\ req[r].kind \in {"inspect", "response"}
      /\ UNCHANGED << work, config, policy, req, live, answer, shown >>
      /\ text' = [text EXCEPT ![r] = req[r].text]
      /\ Judge(r, s, IF req[r].kind = "inspect" THEN "verify" ELSE "save")
  BY DEF ScanText
<1>3. /\ req[r] \in work.offered[r] /\ policy \in live[r]
      /\ shown[r] = Null /\ answer[r] = Null
  BY <1>2 DEF Handler, Judging
<1>4. req[r].text \in SUBSET Categories /\ WellTyped(policy)
  BY <1>2, <1>3, Offered
<1>5. /\ text'[r] = req[r].text /\ scan'[r] = s
      /\ pc'[r] = IF req[r].kind = "inspect" THEN "verify" ELSE "save"
  BY <1>1, <1>2 DEF Mapped, Judge, Goto
<1>6. s \in Scans /\ s # Null
  BY <1>4, InspectTypes DEF Scans, Null
<1>7. Kept(r)'
  BY <1>2, <1>3, <1>4, <1>5, VerdictOfPolicy
<1> QED BY <1>2, <1>3, <1>4, <1>5, <1>6, <1>7 DEF Handler, Labels, Judging, Beats

LEMMA FallbackHandled ==
  ASSUME WorldInv, NEW r \in Reqs, Handler(r), Fallback(r)
  PROVE  Handler(r)'
<1> DEFINE e == enforcement_action(policy.unmaskable)
           a == IF e = "Redact" THEN "Block" ELSE e
<1>1. Mapped(pc) /\ Mapped(scan)
  BY DEF WorldInv, Maps
<1>2. /\ pc[r] = "fallback" /\ UNCHANGED << work, config, policy, req, live, text, answer, shown >>
      /\ Judge(r, [scan[r] EXCEPT !.action = a], "verify")
  BY DEF Fallback
<1>3. /\ req[r] \in work.offered[r] /\ req[r].kind = "file" /\ policy \in live[r]
      /\ text[r] \in SUBSET Categories /\ scan[r] \in Scans /\ scan[r].action = "Redact"
      /\ effective_extension(req[r]) \notin PlainText
      /\ shown[r] = Null /\ answer[r] = Null /\ PagesRead(r)
  BY <1>2 DEF Handler, Judging
<1>4. policy.unmaskable \in Actions
  BY Offered
<1>5. a \in {"Allow", "Audit", "Warn", "Block"} /\ (a # "Block" => policy.unmaskable = a)
  BY <1>4 DEF enforcement_action, Actions
<1> HIDE DEF a
<1>6. pc'[r] = "verify" /\ scan'[r] = [scan[r] EXCEPT !.action = a]
  BY <1>1, <1>2 DEF Mapped, Judge, Goto
<1>7. scan'[r] \in Scans /\ scan'[r] # Null /\ scan'[r].action = a
  BY <1>3, <1>5, <1>6 DEF Scans, Null, Actions
<1>8. Kept(r)'
  <2>1. CASE a = "Block"
    BY <1>7, <2>1 DEF Kept, Denied, enforcement_action
  <2>2. CASE a # "Block"
    <3>1. Excused(r)'
      BY <1>2, <1>3, <1>5, <1>7, <2>2 DEF Excused
    <3> QED BY <3>1 DEF Kept
  <2> QED BY <2>1, <2>2
<1>9. PagesRead(r)'
  <2>1. ~ Denied(scan[r].action)
    BY <1>3 DEF Denied, enforcement_action
  <2> QED BY <1>2, <1>3, <2>1 DEF PagesRead, ReadablePages
<1>10. PlainIfMasked(r)'
  BY <1>5, <1>7 DEF PlainIfMasked
<1> QED BY <1>2, <1>3, <1>6, <1>7, <1>8, <1>9, <1>10 DEF Handler, Labels, Judging, Beats

LEMMA AskHandled ==
  ASSUME WorldInv, NEW r \in Reqs, Handler(r), Ask(r)
  PROVE  Handler(r)'
<1> DEFINE asks == config.verifier /\ scan[r].action = "Allow"
<1>1. Mapped(pc) /\ Mapped(shown)
  BY DEF WorldInv, Maps
<1>2. /\ pc[r] = "verify" /\ UNCHANGED << work, config, policy, req, live, text, scan, answer >>
      /\ shown' = [shown EXCEPT ![r] = IF asks THEN [kind |-> "text", text |-> text[r]] ELSE @]
      /\ Goto(r, IF asks THEN "verdict" ELSE "save")
  BY DEF Ask
<1>3. /\ req[r] \in work.offered[r] /\ req[r].kind \in {"inspect", "file"}
      /\ text[r] \in SUBSET Categories /\ scan[r] \in Scans \cup {Null} /\ scan[r] # Null
      /\ shown[r] = Null /\ answer[r] = Null /\ Kept(r)
      /\ req[r].kind = "file" => PagesRead(r) /\ PlainIfMasked(r)
      /\ req[r].kind # "file" => text[r] = req[r].text
  BY <1>2 DEF Handler
<1>4. /\ pc'[r] = IF asks THEN "verdict" ELSE "save"
      /\ shown'[r] = IF asks THEN [kind |-> "text", text |-> text[r]] ELSE Null
  BY <1>1, <1>2, <1>3 DEF Mapped, Goto
<1>5. Kept(r)' /\ (PagesRead(r) => PagesRead(r)') /\ (PlainIfMasked(r) => PlainIfMasked(r)')
  BY <1>2, <1>3, VerdictKept
<1>6. asks => \A c \in text[r] :
        Unguarded(r, c)' \/ (req[r].kind = "file" /\ \E p \in live[r] : p.unmaskable = "Allow")
  <2> SUFFICES ASSUME asks, NEW c \in text[r]
               PROVE  Unguarded(r, c)' \/ (req[r].kind = "file" /\ \E p \in live[r] : p.unmaskable = "Allow")
    OBVIOUS
  <2>1. ~ Denied(scan[r].action) /\ scan[r].action # "Redact"
    BY DEF Denied, enforcement_action
  <2>2. Unguarded(r, c) \/ Excused(r)
    BY <1>3, <2>1 DEF Kept
  <2> QED BY <1>2, <2>2 DEF Unguarded, Excused
<1>7. /\ pc'[r] \in {"verdict", "save"} /\ (pc'[r] = "verdict" => scan'[r].action = "Allow")
      /\ shown'[r] # Null => asks /\ shown'[r].text = text[r]
  BY <1>2, <1>4
<1> HIDE DEF asks
<1> QED BY <1>2, <1>3, <1>5, <1>6, <1>7 DEF Handler, Labels, Judging, Beats

LEMMA VerdictHandled ==
  ASSUME WorldInv, NEW r \in Reqs, Handler(r), Verdict(r)
  PROVE  Handler(r)'
<1>1. Mapped(pc) /\ Mapped(scan)
  BY DEF WorldInv, Maps
<1>2. /\ pc[r] = "verdict" /\ UNCHANGED << work, config, policy, req, live, text, answer, shown >>
  BY DEF Verdict
<1>3. /\ req[r] \in work.offered[r] /\ req[r].kind \in {"inspect", "file"}
      /\ text[r] \in SUBSET Categories /\ scan[r] \in Scans \cup {Null} /\ scan[r] # Null
      /\ scan[r].action = "Allow" /\ answer[r] = Null /\ Kept(r)
      /\ req[r].kind = "file" => PagesRead(r) /\ PlainIfMasked(r)
      /\ req[r].kind # "file" => text[r] = req[r].text
  BY <1>2 DEF Handler
<1>4. /\ shown[r] # Null => req[r].kind # "response" /\ shown[r].text \subseteq Categories
      /\ shown[r] # Null =>
           \A c \in shown[r].text :
             Unguarded(r, c) \/ (req[r].kind = "file" /\ \E p \in live[r] : p.unmaskable = "Allow")
  BY DEF Handler
<1>5. \A c : Unguarded(r, c)' = Unguarded(r, c)
  BY <1>2 DEF Unguarded
<1>6. PICK found \in SUBSET text[r] :
        Judge(r, IF found = {} THEN scan[r]
                 ELSE [kind |-> "scan", action |-> IF req[r].kind = "file" THEN "Block" ELSE "Redact",
                       sanitized |-> text[r] \ (found \ Unmaskable)], "save")
  BY DEF Verdict
<1>7. pc'[r] = "save"
  BY <1>1, <1>6 DEF Mapped, Judge, Goto
<1>8. CASE found = {}
  <2>1. scan'[r] = scan[r]
    BY <1>1, <1>6, <1>8 DEF Mapped, Judge
  <2>2. Kept(r)' /\ (PagesRead(r) => PagesRead(r)') /\ (PlainIfMasked(r) => PlainIfMasked(r)')
    BY <1>2, <1>3, <2>1, VerdictKept
  <2> QED BY <1>2, <1>3, <1>4, <1>5, <1>7, <2>1, <2>2 DEF Handler, Labels, Judging, Beats
<1>9. CASE found # {}
  <2> DEFINE a == IF req[r].kind = "file" THEN "Block" ELSE "Redact"
             rest == text[r] \ (found \ Unmaskable)
  <2>1. scan'[r] = [kind |-> "scan", action |-> a, sanitized |-> rest]
    BY <1>1, <1>6, <1>9 DEF Mapped, Judge
  <2>2. scan'[r] \in Scans /\ scan'[r] # Null /\ scan'[r].action = a
    BY <1>3, <2>1 DEF Scans, Null, Actions
  <2>3. Kept(r)'
    <3>1. CASE req[r].kind = "file"
      BY <2>2, <3>1 DEF Kept, Denied, enforcement_action
    <3>2. CASE req[r].kind # "file"
      <4>1. ~ Denied(scan[r].action) /\ scan[r].action # "Redact" /\ ~ Excused(r)
        BY <1>3, <3>2 DEF Denied, enforcement_action, Excused
      <4>2. \A c \in text[r] : Unguarded(r, c)
        BY <1>3, <4>1 DEF Kept
      <4> QED BY <1>2, <1>5, <4>2 DEF Kept
    <3> QED BY <3>1, <3>2
  <2>4. req[r].kind = "file" => PagesRead(r)' /\ PlainIfMasked(r)'
    BY <2>2 DEF PagesRead, PlainIfMasked, Denied, enforcement_action
  <2> HIDE DEF a, rest
  <2> QED BY <1>2, <1>3, <1>4, <1>5, <1>7, <2>2, <2>3, <2>4 DEF Handler, Labels, Judging, Beats
<1> QED BY <1>8, <1>9

\* The verdict stands when it is answered, or dropped with the connection.
LEMMA EndHandled ==
  ASSUME WorldInv, NEW r \in Reqs, Handler(r), Answer(r) \/ Disconnect(r)
  PROVE  Handler(r)'
<1>1. Mapped(pc) /\ Mapped(answer)
  BY DEF WorldInv, Maps
<1>2. /\ pc[r] \in {"verdict", "save"} /\ UNCHANGED << work, config, policy, req, live, text, scan, shown >>
  BY DEF Answer, Disconnect, scanVars
<1>3. \/ pc'[r] = "done" /\ answer'[r] = scan[r]
      \/ pc'[r] = "gone" /\ answer'[r] = answer[r]
  BY <1>1 DEF Answer, Disconnect, Mapped, Goto, scanVars
<1>4. /\ req[r] \in work.offered[r] /\ text[r] \in SUBSET Categories
      /\ scan[r] \in Scans \cup {Null} /\ scan[r] # Null
      /\ answer[r] = Null /\ Kept(r)
      /\ req[r].kind = "file" => PagesRead(r) /\ PlainIfMasked(r)
      /\ req[r].kind # "file" => text[r] = req[r].text
  BY <1>2 DEF Handler
<1>5. /\ shown[r] # Null => req[r].kind # "response" /\ shown[r].text \subseteq Categories
      /\ shown[r] # Null =>
           \A c \in shown[r].text :
             Unguarded(r, c) \/ (req[r].kind = "file" /\ \E p \in live[r] : p.unmaskable = "Allow")
  BY DEF Handler
<1>6. \A c : Unguarded(r, c)' = Unguarded(r, c)
  BY <1>2 DEF Unguarded
<1>7. Kept(r)' /\ (PagesRead(r) => PagesRead(r)') /\ (PlainIfMasked(r) => PlainIfMasked(r)')
  BY <1>2, <1>4, VerdictKept
<1> QED BY <1>2, <1>3, <1>4, <1>5, <1>6, <1>7 DEF Handler, Labels, Judging, Beats

LEMMA BeatHandled ==
  ASSUME WorldInv, NEW r \in Reqs, Handler(r), BeatRead(r) \/ BeatTruncate(r) \/ BeatWrite(r) \/ BeatFails(r)
  PROVE  Handler(r)'
<1>1. Mapped(pc)
  BY DEF WorldInv, Maps
<1>2. pc[r] \in Beats /\ pc'[r] \in {"beat_truncate", "beat_write", "done"}
  BY <1>1 DEF BeatRead, BeatTruncate, BeatWrite, BeatFails, Beats, Goto, Mapped
<1>3. UNCHANGED << work, config, policy, req, live, scanVars >>
  BY DEF BeatRead, BeatTruncate, BeatWrite, BeatFails
<1>4. UNCHANGED << work, req, live, text, scan, answer, shown >>
  BY <1>3 DEF scanVars
<1>5. /\ req[r] \in work.offered[r] /\ scan[r] = Null /\ text[r] = {} /\ shown[r] = Null /\ answer[r] = Null
  BY <1>2 DEF Handler, Beats
<1> QED BY <1>2, <1>4, <1>5 DEF Handler, Labels, Judging, Beats

LEMMA HandlerInvStart == Init => HandlerInv
<1> SUFFICES ASSUME Init PROVE HandlerInv
  OBVIOUS
<1>1. /\ work \in Workloads /\ policy \in work.policies /\ changes = 0 /\ file = work.file
      /\ pc = [r \in Reqs |-> "idle"] /\ req = [r \in Reqs |-> Null]
      /\ text = [r \in Reqs |-> {}] /\ scan = [r \in Reqs |-> Null]
      /\ answer = [r \in Reqs |-> Null] /\ shown = [r \in Reqs |-> Null] /\ live = [r \in Reqs |-> {}]
  BY DEF Init
<1>2. work.file.kind \in {"absent", "torn", "whole"}
  BY <1>1, WorkloadsAssumption
<1>3. WorldInv
  BY <1>1, <1>2, LimitAssumption DEF WorldInv, Maps, Mapped
<1>4. ASSUME NEW r \in Reqs PROVE Handler(r)
  BY <1>1 DEF Handler, Labels, Judging, Beats
<1> QED BY <1>3, <1>4 DEF HandlerInv

LEMMA HandlerInvStep == HandlerInv /\ [Next]_vars => HandlerInv'
<1> SUFFICES ASSUME HandlerInv, [Next]_vars PROVE HandlerInv'
  OBVIOUS
<1>1. WorldInv /\ \A r \in Reqs : Handler(r)
  BY DEF HandlerInv
<1>2. ASSUME NEW r \in Reqs, HandlerAct(r) PROVE HandlerInv'
  <2>1. Maps' /\ \A q \in Reqs \ {r} : Same(q) /\ live'[q] = live[q]
    BY <1>1, <1>2, OnlyOne
  <2>2. UNCHANGED << work, config, policy, changes >> /\ file'.kind \in {"absent", "empty", "torn", "whole"}
    BY <1>1, <1>2, HandlerWorld
  <2>3. WorldInv'
    BY <1>1, <2>1, <2>2 DEF WorldInv
  <2>4. Handler(r)'
    BY <1>1, <1>2, ArriveHandled, CheckUploadHandled, ScanFileHandled, ScanTextHandled, FallbackHandled,
       AskHandled, VerdictHandled, EndHandled, BeatHandled DEF HandlerAct, Handle
  <2>5. ASSUME NEW q \in Reqs \ {r} PROVE Handler(q)'
    <3>1. Handler(q) /\ Same(q) /\ live'[q] = live[q]
      BY <1>1, <2>1
    <3>2. Judging(q) => policy' \in live'[q]
      BY <2>2, <3>1 DEF Handler
    <3> QED BY <2>2, <3>1, <3>2, HandlerSame
  <2> QED BY <2>3, <2>4, <2>5 DEF HandlerInv
<1>3. CASE ApplyPolicy
  <2>1. PICK p \in work.policies \ {policy} :
          policy' = p /\ live' = [r \in Reqs |-> IF Judging(r) THEN live[r] \cup {p} ELSE live[r]]
    BY <1>3 DEF ApplyPolicy
  <2>2. UNCHANGED << work, config, pc, req, text, scan, answer, shown, file >>
    BY <1>3 DEF ApplyPolicy, scanVars, beatVars
  <2>3. changes' \in 0 .. MaxChanges
    BY <1>1, <1>3, LimitAssumption DEF ApplyPolicy, WorldInv
  <2>4. WorldInv'
    BY <1>1, <2>1, <2>2, <2>3 DEF WorldInv, Maps, Mapped
  <2>5. ASSUME NEW q \in Reqs PROVE Handler(q)'
    <3>1. live[q] \subseteq live'[q] /\ (Judging(q) => policy' \in live'[q])
      BY <2>1
    <3>2. Same(q)
      BY <2>2, <3>1 DEF Same
    <3> QED BY <1>1, <2>2, <3>1, <3>2, HandlerSame
  <2> QED BY <2>4, <2>5 DEF HandlerInv
<1>4. CASE OpenHistory \/ NextPage \/ PrevPage \/ CloseHistory \/ Expire \/ UNCHANGED vars
  <2>1. UNCHANGED << work, config, policy, changes, pc, req, live, scanVars, beatVars >>
    BY <1>4 DEF OpenHistory, NextPage, PrevPage, CloseHistory, Expire, vars
  <2>2. UNCHANGED << work, config, policy, changes, pc, req, live, text, scan, answer, shown, file >>
    BY <2>1 DEF scanVars, beatVars
  <2>3. WorldInv'
    BY <1>1, <2>2 DEF WorldInv, Maps, Mapped
  <2>4. ASSUME NEW q \in Reqs PROVE Handler(q)'
    <3>1. Handler(q) /\ Same(q) /\ (Judging(q) => policy' \in live'[q])
      BY <1>1, <2>2 DEF Same, Handler
    <3> QED BY <2>2, <3>1, HandlerSame
  <2> QED BY <2>3, <2>4 DEF HandlerInv
<1> QED BY <1>2, <1>3, <1>4 DEF Next, HandlerAct

\* The invariant of the handlers: what each of them has to know, at each place
\* where it waits or looks at the policy again, for its verdict to be right.
THEOREM HandlersKeepTheirPlace == Spec => []HandlerInv
BY HandlerInvStart, HandlerInvStep, PTL DEF Spec

\* Every field keeps its type; a verdict's action is one of the six.
THEOREM TypeCorrect == Spec => []TypeOK
<1>1. HandlerInv => TypeOK
  <2> SUFFICES ASSUME HandlerInv PROVE TypeOK
    OBVIOUS
  <2>1. ASSUME NEW r \in Reqs
        PROVE  /\ pc[r] \in Labels /\ scan[r] \in Scans \cup {Null} /\ answer[r] \in Scans \cup {Null}
               /\ text[r] \in SUBSET Categories
    BY DEF HandlerInv, Handler
  <2>2. Mapped(pc) /\ Mapped(scan) /\ Mapped(answer) /\ Mapped(text)
    BY DEF HandlerInv, WorldInv, Maps
  <2>3. /\ pc \in [Reqs -> Labels] /\ scan \in [Reqs -> Scans \cup {Null}]
        /\ answer \in [Reqs -> Scans \cup {Null}] /\ text \in [Reqs -> SUBSET Categories]
    BY <2>1, <2>2 DEF Mapped
  <2> QED BY <2>3 DEF HandlerInv, WorldInv, TypeOK
<1> QED BY <1>1, HandlersKeepTheirPlace, PTL

\* What the client is told comes from its own verdict.
LEMMA AnswersAreVerdicts ==
  ASSUME HandlerInv, NEW r \in Reqs, answer[r] # Null
  PROVE  /\ answer[r] = scan[r] /\ Kept(r)
         /\ req[r].kind = "file" => PagesRead(r) /\ PlainIfMasked(r)
BY DEF HandlerInv, Handler

\* An answer that denies delivers nothing, one that masks what is left.
LEMMA Delivers ==
  ASSUME NEW r, NEW c \in Delivered(r)
  PROVE  ~ Denied(answer[r].action) /\ (answer[r].action = "Redact" => c \in answer[r].sanitized)
<1>1. ASSUME Denied(answer[r].action) PROVE FALSE
  <2>1. Delivered(r) = {}
    BY <1>1 DEF Delivered
  <2> QED BY <2>1
<1>2. ASSUME ~ Denied(answer[r].action), answer[r].action = "Redact" PROVE c \in answer[r].sanitized
  <2>1. Delivered(r) = answer[r].sanitized
    BY <1>2 DEF Delivered
  <2> QED BY <2>1
<1> QED BY <1>1, <1>2

\* No scanned text carries a guarded category out, however the edits of the
\* policy fall between the looks a handler takes at it.
LEMMA GuardedStays ==
  ASSUME HandlerInv, NEW r \in Reqs, answer[r] # Null, NEW c \in Delivered(r) \cap text[r]
  PROVE  \/ \E p \in live[r] : ~ Guarded(p, c)
         \/ /\ req[r].kind = "file" /\ effective_extension(req[r]) \notin PlainText
            /\ \E p \in live[r] : p.unmaskable \in {"Allow", "Audit", "Warn"}
<1>1. answer[r] = scan[r] /\ Kept(r)
  BY AnswersAreVerdicts
<1>2. ~ Denied(answer[r].action)
  BY Delivers
<1>3. answer[r].action = "Redact" => c \in answer[r].sanitized
  BY Delivers
<1> QED BY <1>1, <1>2, <1>3 DEF Kept, Unguarded, Excused

\* Nothing guarded gets past the local API (inspect, inspect_response,
\* inspect_file_request, verify), for any policies, files and number of
\* requests and of edits between their steps.
THEOREM NothingGuardedEscapes == Spec => []GuardedNeverEscapes
<1>1. HandlerInv => GuardedStaysIn
  BY GuardedStays DEF GuardedStaysIn
<1>2. HandlerInv => PicturesAreRead
  <2> SUFFICES ASSUME HandlerInv, NEW r \in Reqs, answer[r] # Null, req[r].kind = "file",
                      NEW i \in ReadablePages(req[r]), NEW c \in req[r].pages[i].text \cap Delivered(r)
               PROVE  \E p \in live[r] :
                        \/ ~ Guarded(p, c) \/ upload_action(p, req[r].head) = "Allow"
                        \/ p.unmaskable \in {"Allow", "Audit", "Warn"}
    BY DEF PicturesAreRead
  <2>1. answer[r] = scan[r] /\ PagesRead(r)
    BY AnswersAreVerdicts
  <2>2. ~ Denied(scan[r].action)
    BY <2>1, Delivers
  <2>3. CASE \E p \in live[r] : upload_action(p, req[r].head) = "Allow"
    BY <2>3
  <2>4. CASE c \in text[r]
    BY <2>4, GuardedStays
  <2> QED BY <2>1, <2>2, <2>3, <2>4 DEF PagesRead
<1>3. HandlerInv => MaskedFilesArePlain
  <2> SUFFICES ASSUME HandlerInv, NEW r \in Reqs, answer[r] # Null, req[r].kind = "file",
                      answer[r].action = "Redact"
               PROVE  /\ effective_extension(req[r]) \in PlainText /\ req[r].head \notin Signatures
                      /\ text[r] = req[r].raw
                      /\ \E p \in live[r] : answer[r] = inspect(p, req[r].raw)
    BY DEF MaskedFilesArePlain
  <2>1. answer[r] = scan[r] /\ PlainIfMasked(r)
    BY AnswersAreVerdicts
  <2>2. effective_extension(req[r]) \in PlainText
    BY <2>1 DEF PlainIfMasked
  <2>3. req[r].head \notin Signatures
    BY <2>2, SniffedExtension
  <2> QED BY <2>1, <2>2, <2>3 DEF PlainIfMasked
<1>4. HandlerInv => VerifierSeesNoGuarded
  BY DEF VerifierSeesNoGuarded, HandlerInv, Handler, Unguarded
<1> QED BY <1>1, <1>2, <1>3, <1>4, TypeCorrect, HandlersKeepTheirPlace, PTL DEF GuardedNeverEscapes

-----------------------------------------------------------------------------
(* Heartbeats, which share a file and no lock *)

\* A step that is not a heartbeat's, on a request that was none.
LEMMA OtherSteps ==
  ASSUME NEW r \in Reqs, ~ Busy(r), pc[r] # "done", \E l : Goto(r, l) /\ l \notin {"beat_truncate", "beat_write"},
         \A q \in Reqs \ {r} : req'[q] = req[q], Mapped(req)', UNCHANGED beatVars, BeatInv
  PROVE  BeatInv'
<1>1. UNCHANGED << file, mine, alone, before, latest >>
  BY DEF beatVars
<1>2. Mapped(pc)' /\ ~ Busy(r)' /\ \A q \in Reqs \ {r} : pc'[q] = pc[q]
  BY DEF BeatInv, Mapped, Goto, Busy
<1>3. \A q \in Reqs \ {r} : Busy(q)' = Busy(q) /\ Merged(q)' = Merged(q)
  BY <1>1, <1>2 DEF Busy, Merged
<1>4. r \notin alone /\ \A q \in alone : Busy(q) \/ pc[q] = "done"
  BY DEF BeatInv
<1>5. \A q \in alone' : q \in Reqs \ {r} /\ (Busy(q)' \/ pc'[q] = "done")
  BY <1>1, <1>2, <1>3, <1>4 DEF BeatInv
<1>6. ASSUME NEW q \in Reqs PROVE Beating(q)'
  <2>1. CASE q = r
    BY <1>2, <2>1 DEF Beating, Busy
  <2>2. CASE q # r
    <3>1. Beating(q)
      BY DEF BeatInv
    <3>2. q \in alone /\ Busy(q) => \A o \in Reqs \ {q} : ~ Busy(o)'
      BY <1>2, <1>3, <3>1 DEF Beating
    <3> QED BY <1>1, <1>2, <1>3, <2>2, <3>1, <3>2 DEF Beating
  <2> QED BY <2>1, <2>2
<1>7. latest # "" /\ latest \in alone =>
        /\ \A o \in Reqs : ~ Busy(o)'
        /\ file = [kind |-> "whole", by |-> latest, profiles |-> Merged(latest)']
  <2> SUFFICES ASSUME latest # "", latest \in alone
               PROVE  /\ \A o \in Reqs : ~ Busy(o)'
                      /\ file = [kind |-> "whole", by |-> latest, profiles |-> Merged(latest)']
    OBVIOUS
  <2>1. latest \in Reqs \ {r}
    BY <1>4 DEF BeatInv
  <2>2. (\A o \in Reqs : ~ Busy(o)) /\ file = [kind |-> "whole", by |-> latest, profiles |-> Merged(latest)]
    BY DEF BeatInv
  <2>3. Merged(latest)' = Merged(latest)
    BY <1>1, <1>3, <2>1
  <2> QED BY <1>2, <1>3, <2>2, <2>3
<1>8. Mapped(mine)' /\ Mapped(before)'
  BY <1>1 DEF BeatInv, Mapped
<1> QED BY <1>1, <1>2, <1>5, <1>6, <1>7, <1>8 DEF BeatInv

LEMMA BeatStart == Init => BeatInv
BY DEF Init, BeatInv, Mapped, Beating, Busy

LEMMA BeatStep == BeatInv /\ [Next]_vars => BeatInv'
<1> SUFFICES ASSUME BeatInv, [Next]_vars PROVE BeatInv'
  OBVIOUS
<1>1. /\ Mapped(pc) /\ Mapped(req) /\ Mapped(mine) /\ Mapped(before) /\ alone \subseteq Reqs
      /\ \A q \in Reqs : Beating(q)
  BY DEF BeatInv
<1>2. ASSUME NEW r \in Reqs, Arrive(r) PROVE BeatInv'
  <2>1. ~ Busy(r) /\ pc[r] # "done" /\ UNCHANGED beatVars
    BY <1>2 DEF Arrive, Busy
  <2>2. PICK q \in work.offered[r] :
          /\ req' = [req EXCEPT ![r] = q]
          /\ \/ Goto(r, "refused")
             \/ Goto(r, CASE q.kind = "file" -> IF q.decodes THEN "upload" ELSE "refused"
                          [] q.kind = "heartbeat" -> "beat_read"
                          [] OTHER -> "scan")
    BY <1>2 DEF Arrive
  <2>3. \E l : Goto(r, l) /\ l \notin {"beat_truncate", "beat_write"}
    BY <2>2
  <2>4. Mapped(req)' /\ \A o \in Reqs \ {r} : req'[o] = req[o]
    BY <1>1, <2>2 DEF Mapped
  <2> QED BY <2>1, <2>3, <2>4, OtherSteps
<1>3. ASSUME NEW r \in Reqs,
             \/ CheckUpload(r) \/ ScanFile(r) \/ Fallback(r) \/ ScanText(r) \/ Ask(r)
             \/ Answer(r) \/ Verdict(r) \/ Disconnect(r)
      PROVE  BeatInv'
  <2>1. ~ Busy(r) /\ pc[r] # "done"
    BY <1>3 DEF CheckUpload, ScanFile, Fallback, ScanText, Ask, Answer, Verdict, Disconnect, Busy
  <2>2. UNCHANGED << req, beatVars >>
    BY <1>3 DEF CheckUpload, ScanFile, Fallback, ScanText, Ask, Answer, Verdict, Disconnect
  <2>3. \E l : Goto(r, l) /\ l \notin {"beat_truncate", "beat_write"}
    BY <1>3 DEF CheckUpload, ScanFile, Fallback, ScanText, Ask, Answer, Verdict, Disconnect, Judge
  <2>4. Mapped(req)' /\ \A o \in Reqs \ {r} : req'[o] = req[o]
    BY <1>1, <2>2 DEF Mapped
  <2> QED BY <2>1, <2>2, <2>3, <2>4, OtherSteps
<1>4. ASSUME NEW r \in Reqs, BeatRead(r) PROVE BeatInv'
  <2> DEFINE others == \E o \in Reqs \ {r} : pc[o] \in {"beat_truncate", "beat_write"}
  <2>1. /\ mine' = [mine EXCEPT ![r] = Known(file) \cup ({req[r].profile} \ {""})]
        /\ before' = [before EXCEPT ![r] = Known(file)]
        /\ alone' = (IF others THEN {} ELSE alone \cup {r})
        /\ latest' = "" /\ pc' = [pc EXCEPT ![r] = "beat_truncate"] /\ UNCHANGED << req, file >>
    BY <1>4 DEF BeatRead, Goto
  <2>2. /\ pc'[r] = "beat_truncate" /\ mine'[r] = before'[r] \cup ({req[r].profile} \ {""})
        /\ \A o \in Reqs \ {r} : pc'[o] = pc[o] /\ mine'[o] = mine[o] /\ before'[o] = before[o]
        /\ Mapped(pc)' /\ Mapped(req)' /\ Mapped(mine)' /\ Mapped(before)'
    BY <1>1, <2>1 DEF Mapped
  <2>3. Busy(r)' /\ mine'[r] = Merged(r)'
    BY <2>1, <2>2 DEF Busy, Merged
  <2>4. \A o \in Reqs \ {r} : Busy(o)' = Busy(o) /\ Merged(o)' = Merged(o)
    BY <2>1, <2>2 DEF Busy, Merged
  <2>5. others = \E o \in Reqs \ {r} : Busy(o)
    BY DEF Busy
  <2>6. ASSUME NEW o \in Reqs PROVE Beating(o)'
    <3>1. CASE o = r
      BY <2>1, <2>2, <2>3, <2>4, <2>5, <3>1 DEF Beating
    <3>2. CASE o # r
      <4>1. Busy(o)' => o \notin alone'
        BY <2>1, <2>4, <2>5, <3>2
      <4>2. Busy(o)' => mine'[o] = Merged(o)'
        BY <1>1, <2>2, <2>4, <3>2 DEF Beating
      <4>3. pc'[o] = "beat_write" => Busy(o)'
        BY DEF Busy
      <4> QED BY <4>1, <4>2, <4>3 DEF Beating
    <3> QED BY <3>1, <3>2
  <2>7. alone' \subseteq Reqs /\ \A o \in alone' : Busy(o)' \/ pc'[o] = "done"
    <3>1. \A o \in alone : Busy(o) \/ pc[o] = "done"
      BY DEF BeatInv
    <3> QED BY <1>1, <2>1, <2>2, <2>3, <2>4, <3>1
  <2> QED BY <2>1, <2>2, <2>6, <2>7 DEF BeatInv
<1>5. ASSUME NEW r \in Reqs, BeatTruncate(r) PROVE BeatInv'
  <2>1. /\ pc[r] = "beat_truncate" /\ file' = [kind |-> "empty"] /\ pc' = [pc EXCEPT ![r] = "beat_write"]
        /\ UNCHANGED << req, mine, alone, before, latest >>
    BY <1>5 DEF BeatTruncate, Goto
  <2>2. Mapped(pc)' /\ pc'[r] = "beat_write" /\ \A o \in Reqs \ {r} : pc'[o] = pc[o]
    BY <1>1, <2>1 DEF Mapped
  <2>3. \A o \in Reqs : Busy(o)' = Busy(o) /\ Merged(o)' = Merged(o)
    BY <2>1, <2>2 DEF Busy, Merged
  <2>4. ASSUME NEW o \in Reqs PROVE Beating(o)'
    BY <1>1, <2>1, <2>3 DEF Beating
  <2>5. ~ (latest # "" /\ latest \in alone)
    BY <2>1 DEF BeatInv, Busy
  <2>6. \A o \in alone : Busy(o)' \/ pc'[o] = "done"
    BY <1>1, <2>2, <2>3 DEF BeatInv, Busy
  <2>7. Mapped(req)' /\ Mapped(mine)' /\ Mapped(before)'
    BY <1>1, <2>1 DEF Mapped
  <2> QED BY <1>1, <2>1, <2>2, <2>4, <2>5, <2>6, <2>7 DEF BeatInv
<1>6. ASSUME NEW r \in Reqs, BeatWrite(r) \/ BeatFails(r) PROVE BeatInv'
  <2>1. /\ Busy(r) /\ pc' = [pc EXCEPT ![r] = "done"] /\ UNCHANGED << req, mine, alone, before >>
    BY <1>6 DEF BeatWrite, BeatFails, Goto, Busy, beatVars
  <2>2. Mapped(pc)' /\ pc'[r] = "done" /\ \A o \in Reqs \ {r} : pc'[o] = pc[o]
    BY <1>1, <2>1 DEF Mapped
  <2>3. ~ Busy(r)' /\ \A o \in Reqs \ {r} : Busy(o)' = Busy(o)
    BY <2>2 DEF Busy
  <2>4. \A o \in Reqs : Merged(o)' = Merged(o)
    BY <2>1 DEF Merged
  <2>5. ASSUME NEW o \in Reqs PROVE Beating(o)'
    <3>1. CASE o = r
      BY <2>2, <2>3, <3>1 DEF Beating
    <3>2. CASE o # r
      <4>1. ~ (o \in alone /\ Busy(o))
        BY <1>1, <2>1, <3>2 DEF Beating
      <4>2. (Busy(o)' => mine'[o] = Merged(o)') /\ (pc'[o] = "beat_write" => Busy(o)')
        BY <1>1, <2>1, <2>3, <2>4, <3>2 DEF Beating, Busy
      <4> QED BY <2>1, <2>3, <3>2, <4>1, <4>2 DEF Beating
    <3> QED BY <3>1, <3>2
  <2>6. \A o \in alone : Busy(o)' \/ pc'[o] = "done"
    BY <1>1, <2>2, <2>3 DEF BeatInv
  <2>7. Mapped(req)' /\ Mapped(mine)' /\ Mapped(before)'
    BY <1>1, <2>1 DEF Mapped
  <2>8. ~ (latest # "" /\ latest \in alone)
    BY <2>1 DEF BeatInv
  <2>9. CASE BeatFails(r)
    BY <1>1, <2>1, <2>2, <2>5, <2>6, <2>7, <2>8, <2>9 DEF BeatInv, BeatFails, beatVars
  <2>10. CASE BeatWrite(r)
    <3>1. latest' = r /\ pc[r] = "beat_write"
      BY <2>10 DEF BeatWrite
    <3>2. ASSUME r \in alone
          PROVE  /\ \A o \in Reqs : ~ Busy(o)'
                 /\ file' = [kind |-> "whole", by |-> r, profiles |-> Merged(r)']
      <4>1. file.kind = "empty" /\ mine[r] = Merged(r) /\ \A o \in Reqs \ {r} : ~ Busy(o)
        BY <1>1, <2>1, <3>1, <3>2 DEF Beating
      <4>2. file' = [kind |-> "whole", by |-> r, profiles |-> mine[r]]
        BY <2>10, <4>1 DEF BeatWrite, Whole
      <4> QED BY <2>3, <2>4, <4>1, <4>2
    <3> QED BY <1>1, <2>1, <2>2, <2>5, <2>6, <2>7, <3>1, <3>2 DEF BeatInv
  <2> QED BY <1>6, <2>9, <2>10
<1>7. CASE OpenHistory \/ NextPage \/ PrevPage \/ CloseHistory \/ Expire \/ ApplyPolicy \/ UNCHANGED vars
  <2>1. UNCHANGED << pc, req, beatVars >>
    BY <1>7 DEF OpenHistory, NextPage, PrevPage, CloseHistory, Expire, ApplyPolicy, vars
  <2>2. UNCHANGED << pc, req, file, mine, alone, before, latest >>
    BY <2>1 DEF beatVars
  <2> QED BY <2>2 DEF BeatInv, Mapped, Beating, Busy, Merged
<1> QED BY <1>2, <1>3, <1>4, <1>5, <1>6, <1>7 DEF Next, Handle

\* A heartbeat that overlaps no other leaves a whole file with its profile and
\* all that were there (record_heartbeat), however many others come before,
\* after and beside it.
THEOREM LoneBeatsLand == Spec => []LoneBeatLands
<1>1. BeatInv => LoneBeatLands
  <2> SUFFICES ASSUME BeatInv, latest # "", latest \in alone
               PROVE  /\ Whole(file) /\ file.by = latest
                      /\ file.profiles = before[latest] \cup ({req[latest].profile} \ {""})
    BY DEF LoneBeatLands
  <2>1. file = [kind |-> "whole", by |-> latest, profiles |-> Merged(latest)]
    BY DEF BeatInv
  <2>2. file.kind = "whole" /\ file.by = latest /\ file.profiles = Merged(latest)
    BY <2>1
  <2> QED BY <2>2 DEF Whole, Merged
<1> QED BY <1>1, BeatStart, BeatStep, PTL DEF Spec
-----------------------------------------------------------------------------
(* The record *)

Events == {work.table[i] : i \in DOMAIN work.table} \cup [id : Reqs, action : Actions]

OnRecord(e) == e \in lost \/ \E i \in DOMAIN table : table[i] = e

\* Until a row expires, whatever was answered is in the table or was lost.
RecordInv ==
  /\ table \in Seq(Events) /\ expiries \in Nat
  /\ \A r \in Reqs : answer[r] # Null /\ config.audit /\ expiries = 0
       => OnRecord([id |-> r, action |-> answer[r].action])

LEMMA RowAppended ==
  ASSUME NEW S, NEW s \in Seq(S), NEW e \in S
  PROVE  /\ Append(s, e) \in Seq(S)
         /\ \A i \in DOMAIN s : i \in DOMAIN Append(s, e) /\ Append(s, e)[i] = s[i]
         /\ Len(s) + 1 \in DOMAIN Append(s, e) /\ Append(s, e)[Len(s) + 1] = e
OBVIOUS

\* persist_inspect_event adds its event to the table or to what was lost.
LEMMA EventSaved ==
  ASSUME NEW r \in Reqs, NEW e \in Events, e = Event(r), table \in Seq(Events), save_event(r)
  PROVE  /\ table' \in Seq(Events)
         /\ \A d : OnRecord(d) => OnRecord(d)'
         /\ config.audit => OnRecord(e)'
<1>1. CASE table' = Append(table, e) /\ UNCHANGED lost
  <2>1. /\ table' \in Seq(Events)
        /\ \A i \in DOMAIN table : i \in DOMAIN table' /\ table'[i] = table[i]
        /\ \E i \in DOMAIN table' : table'[i] = e
    BY <1>1, RowAppended
  <2> QED BY <1>1, <2>1 DEF OnRecord
<1>2. CASE lost' = lost \cup {e} /\ UNCHANGED table
  BY <1>2 DEF OnRecord
<1>3. CASE ~ config.audit /\ UNCHANGED << table, lost >>
  BY <1>3 DEF OnRecord
<1> QED BY <1>1, <1>2, <1>3 DEF save_event

LEMMA RecordStart == Init => RecordInv
<1> SUFFICES ASSUME Init PROVE RecordInv
  OBVIOUS
<1>1. work \in Workloads /\ table = work.table /\ expiries = 0 /\ answer = [r \in Reqs |-> Null]
  BY DEF Init
<1>2. work.table \in Seq({work.table[i] : i \in DOMAIN work.table})
  BY <1>1, WorkloadsAssumption
<1>3. \A S, T : S \subseteq T => Seq(S) \subseteq Seq(T)
  OBVIOUS
<1>4. table \in Seq(Events)
  BY <1>1, <1>2, <1>3 DEF Events
<1> QED BY <1>1, <1>4 DEF RecordInv

LEMMA RecordStep == RecordInv /\ HandlerInv /\ [Next]_vars => RecordInv'
<1> SUFFICES ASSUME RecordInv, HandlerInv, [Next]_vars PROVE RecordInv'
  OBVIOUS
<1>1. /\ table \in Seq(Events) /\ expiries \in Nat
      /\ \A r \in Reqs : answer[r] # Null /\ config.audit /\ expiries = 0
           => OnRecord([id |-> r, action |-> answer[r].action])
  BY DEF RecordInv
<1>2. ASSUME NEW r \in Reqs, Answer(r) \/ Disconnect(r) PROVE RecordInv'
  <2>1. UNCHANGED << work, config, expiries >>
    BY <1>2 DEF Answer, Disconnect
  <2>2. Events' = Events
    BY <2>1 DEF Events
  <2>3. CASE UNCHANGED << table, lost, answer >>
    BY <1>1, <2>1, <2>2, <2>3 DEF RecordInv, OnRecord
  <2>4. CASE pc[r] = "save" /\ save_event(r) /\ (UNCHANGED answer \/ answer' = [answer EXCEPT ![r] = scan[r]])
    <3>1. Handler(r) /\ Mapped(answer)
      BY DEF HandlerInv, WorldInv, Maps
    <3>2. scan[r] \in Scans
      BY <2>4, <3>1 DEF Handler
    <3>3. Event(r) \in Events /\ Event(r) = [id |-> r, action |-> scan[r].action]
      BY <3>2 DEF Events, Event, Scans
    <3>4. PICK e \in Events : e = Event(r)
      BY <3>3
    <3>5. /\ table' \in Seq(Events)
          /\ \A d : OnRecord(d) => OnRecord(d)'
          /\ config.audit => OnRecord(e)'
      BY <1>1, <2>4, <3>4, EventSaved
    <3>6. ASSUME NEW q \in Reqs, answer'[q] # Null, config.audit, expiries = 0
          PROVE  OnRecord([id |-> q, action |-> answer[q].action])'
      <4>1. CASE answer'[q] = answer[q]
        <5>1. PICK d : d = [id |-> q, action |-> answer[q].action]
          OBVIOUS
        <5>2. OnRecord(d)
          BY <1>1, <3>6, <4>1, <5>1
        <5>3. OnRecord(d)' /\ d = [id |-> q, action |-> answer'[q].action]
          BY <3>5, <4>1, <5>1, <5>2
        <5> QED BY <5>3 DEF OnRecord
      <4>2. CASE answer'[q] # answer[q]
        <5>1. q = r /\ answer'[q] = scan[r]
          BY <2>4, <3>1, <4>2 DEF Mapped
        <5>2. e = [id |-> q, action |-> answer'[q].action]
          BY <3>3, <3>4, <5>1
        <5> QED BY <3>5, <3>6, <5>2 DEF OnRecord
      <4> QED BY <4>1, <4>2
    <3> QED BY <1>1, <2>1, <2>2, <3>5, <3>6 DEF RecordInv, OnRecord
  <2> QED BY <1>2, <2>3, <2>4 DEF Answer, Disconnect, scanVars
<1>3. CASE Expire
  <2>1. table # << >> /\ table' = Tail(table) /\ expiries' = expiries + 1 /\ UNCHANGED work
    BY <1>3 DEF Expire
  <2>2. table' \in Seq(Events) /\ Events' = Events
    BY <1>1, <2>1 DEF Events
  <2>3. expiries' \in Nat /\ expiries' # 0
    BY <1>1, <2>1
  <2> QED BY <2>2, <2>3 DEF RecordInv
<1>4. CASE UNCHANGED << work, config, answer, table, lost, expiries >>
  <2>1. Events' = Events
    BY <1>4 DEF Events
  <2> QED BY <1>1, <1>4, <2>1 DEF RecordInv, OnRecord
<1>5. ASSUME NEW r \in Reqs,
             \/ Arrive(r) \/ CheckUpload(r) \/ ScanFile(r) \/ Fallback(r) \/ ScanText(r) \/ Ask(r) \/ Verdict(r)
             \/ BeatRead(r) \/ BeatTruncate(r) \/ BeatWrite(r) \/ BeatFails(r)
      PROVE  UNCHANGED << work, config, answer, table, lost, expiries >>
  BY <1>5 DEF Arrive, CheckUpload, ScanFile, Fallback, ScanText, Ask, Verdict,
     BeatRead, BeatTruncate, BeatWrite, BeatFails, scanVars, histVars
<1>6. OpenHistory \/ NextPage \/ PrevPage \/ CloseHistory \/ ApplyPolicy \/ UNCHANGED vars
        => UNCHANGED << work, config, answer, table, lost, expiries >>
  BY DEF OpenHistory, NextPage, PrevPage, CloseHistory, ApplyPolicy, vars, scanVars, histVars
<1> QED BY <1>2, <1>3, <1>4, <1>5, <1>6 DEF Next, Handle

\* Whoever has an answer left an event with the same action in the table
\* (inspect, inspect_response, inspect_file_request before they respond), or
\* the save failed, or there is no database, or rows have expired since.
THEOREM AnswersLeaveARecord == Spec => []AnswersAreOnRecord
<1>1. RecordInv => AnswersAreOnRecord
  BY DEF RecordInv, AnswersAreOnRecord, OnRecord
<1> QED BY <1>1, RecordStart, RecordStep, HandlersKeepTheirPlace, PTL DEF Spec

-----------------------------------------------------------------------------
(* The console's pages *)

\* Turned round twice, the rows are as they were.
LEMMA TwiceBackwards ==
  ASSUME NEW X, NEW s \in Seq(X)
  PROVE  Backwards([i \in DOMAIN s |-> s[Len(s) + 1 - i]]) = s
<1> DEFINE n == Len(s)
           q == [i \in DOMAIN s |-> s[Len(s) + 1 - i]]
           b == Backwards(q)
<1>1. n \in Nat /\ DOMAIN s = 1 .. n
  OBVIOUS
<1>2. q = [i \in 1 .. n |-> s[n + 1 - i]]
  BY <1>1
<1>3. q \in Seq(X)
  <2>1. \A i \in 1 .. n : n + 1 - i \in 1 .. n
    BY <1>1
  <2>2. \A i \in 1 .. n : s[n + 1 - i] \in X
    BY <1>1, <2>1
  <2> HIDE DEF q, n
  <2> QED BY <1>1, <1>2, <2>2
<1>4. Len(q) = n /\ DOMAIN q = 1 .. n
  <2> HIDE DEF n
  <2> QED BY <1>1, <1>2, <1>3
<1>5. b = [i \in 1 .. n |-> q[n + 1 - i]]
  <2> HIDE DEF n, q
  <2> QED BY <1>4 DEF Backwards
<1> HIDE DEF q, b, n
<1>6. ASSUME NEW i \in 1 .. n PROVE q[n + 1 - i] = s[i]
  <2>1. n + 1 - i \in 1 .. n /\ n + 1 - (n + 1 - i) = i
    BY <1>1
  <2> QED BY <1>2, <2>1
<1>7. b = [i \in 1 .. n |-> s[i]]
  BY <1>5, <1>6
<1>8. s = [i \in 1 .. n |-> s[i]]
  BY <1>1
<1>9. b = s
  BY <1>7, <1>8
<1> QED BY <1>9 DEF b, q

\* What matches in a sequence does not depend on what the others are.
Passing(X, action) == {e \in X : Matches(e, action)}

LEMMA MatchingIsFilter ==
  ASSUME NEW X, table \in Seq(X), NEW action
  PROVE  matching(action) = Filter(table, Passing(X, action)) /\ matching(action) \in Seq(X)
<1>1. matching(action) = Filter(table, Wanted(table, action))
  BY TwiceBackwards DEF matching, query_events
<1>2. Elements(table) \subseteq X /\ table \in Seq(Elements(table))
  BY DEF Elements
<1>3. Elements(table) \cap Wanted(table, action) = Elements(table) \cap Passing(X, action)
  BY <1>2 DEF Wanted, Passing
<1>4. Filter(table, Wanted(table, action)) = Filter(table, Passing(X, action))
  BY <1>2, <1>3, FilterSame
<1>5. Filter(table, Passing(X, action)) \in Seq(X)
  BY FilterType
<1> QED BY <1>1, <1>4, <1>5

\* A new event comes last among those that match, if it matches.
LEMMA MatchingGrows ==
  ASSUME NEW X, table \in Seq(X), NEW e \in X, table' = Append(table, e), NEW action
  PROVE  \/ matching(action)' = matching(action)
         \/ matching(action)' = Append(matching(action), e)
<1>1. table' \in Seq(X)
  OBVIOUS
<1>2. matching(action) = Filter(table, Passing(X, action))
  BY MatchingIsFilter
<1>3. matching(action)' = Filter(table', Passing(X, action))
  <2>1. ASSUME NEW t \in Seq(X), t = table' PROVE Backwards([i \in DOMAIN t |-> t[Len(t) + 1 - i]]) = t
    BY TwiceBackwards
  <2>2. matching(action)' = Filter(table', Wanted(table', action))
    BY <1>1, <2>1 DEF matching, query_events
  <2>3. Elements(table') \subseteq X /\ table' \in Seq(Elements(table'))
    BY <1>1 DEF Elements
  <2>4. Elements(table') \cap Wanted(table', action) = Elements(table') \cap Passing(X, action)
    BY <2>3 DEF Wanted, Passing
  <2>5. ASSUME NEW t, t \in Seq(Elements(t)), Elements(t) \cap Wanted(t, action) = Elements(t) \cap Passing(X, action)
        PROVE  Filter(t, Wanted(t, action)) = Filter(t, Passing(X, action))
    BY <2>5, FilterSame
  <2> QED BY <2>2, <2>3, <2>4, <2>5
<1>4. Filter(Append(table, e), Passing(X, action))
        = IF e \in Passing(X, action) THEN Append(Filter(table, Passing(X, action)), e)
          ELSE Filter(table, Passing(X, action))
  BY FilterAppend
<1> QED BY <1>2, <1>3, <1>4

\* The fields of the tab, whatever is in them.
Fielded(v) ==
  v = [open |-> v.open, action |-> v.action, limit |-> v.limit, offset |-> v.offset, rows |-> v.rows,
       more |-> v.more, must |-> v.must, seen |-> v.seen, disturbed |-> v.disturbed]

\* The tab as a page leaves it.
Paged(v, all, first) ==
  LET rows == Cut(all, v.offset, clamp(v.limit))
  IN  [open |-> v.open, action |-> v.action, limit |-> v.limit, offset |-> v.offset,
       rows |-> rows, more |-> v.offset + Len(rows) < Len(all),
       must |-> IF first THEN {all[i] : i \in DOMAIN all} ELSE v.must,
       seen |-> v.seen \cup {rows[i] : i \in DOMAIN rows}, disturbed |-> v.disturbed]

LEMMA PageLoaded ==
  ASSUME NEW v, Fielded(v), NEW first, Load(v, first)
  PROVE  view' = Paged(v, matching(v.action), first)
<1> DEFINE all == matching(v.action)
           rows == Cut(all, v.offset, clamp(v.limit))
           more == v.offset + Len(rows) < Len(all)
           viewed == v.seen \cup {rows[i] : i \in DOMAIN rows}
           must == IF first THEN {all[i] : i \in DOMAIN all} ELSE v.must
<1>1. view' = [v EXCEPT !.rows = rows, !.more = more, !.seen = viewed, !.must = must]
  BY DEF Load, ui_audit_recent
<1>2. Paged(v, all, first) = [open |-> v.open, action |-> v.action, limit |-> v.limit, offset |-> v.offset,
       rows |-> rows, more |-> more, must |-> must, seen |-> viewed, disturbed |-> v.disturbed]
  BY DEF Paged
<1> HIDE DEF rows, more, viewed, must, all
<1>3. v = [open |-> v.open, action |-> v.action, limit |-> v.limit, offset |-> v.offset, rows |-> v.rows,
           more |-> v.more, must |-> v.must, seen |-> v.seen, disturbed |-> v.disturbed]
  BY DEF Fielded
<1> DEFINE v1 == [v EXCEPT !.rows = rows]
           v2 == [v1 EXCEPT !.more = more]
           v3 == [v2 EXCEPT !.seen = viewed]
           v4 == [v3 EXCEPT !.must = must]
<1>4. view' = v4
  BY <1>1
<1>5. v1 = [open |-> v.open, action |-> v.action, limit |-> v.limit, offset |-> v.offset, rows |-> rows,
            more |-> v.more, must |-> v.must, seen |-> v.seen, disturbed |-> v.disturbed]
  BY <1>3
<1> HIDE DEF v1
<1>6. v2 = [open |-> v.open, action |-> v.action, limit |-> v.limit, offset |-> v.offset, rows |-> rows,
            more |-> more, must |-> v.must, seen |-> v.seen, disturbed |-> v.disturbed]
  BY <1>5
<1> HIDE DEF v2
<1>7. v3 = [open |-> v.open, action |-> v.action, limit |-> v.limit, offset |-> v.offset, rows |-> rows,
            more |-> more, must |-> v.must, seen |-> viewed, disturbed |-> v.disturbed]
  BY <1>6
<1> HIDE DEF v3
<1>8. v4 = [open |-> v.open, action |-> v.action, limit |-> v.limit, offset |-> v.offset, rows |-> rows,
            more |-> more, must |-> must, seen |-> viewed, disturbed |-> v.disturbed]
  BY <1>7
<1> HIDE DEF v4
<1> QED BY <1>2, <1>4, <1>8 DEF all

\* What matched when the tab was opened is the first K rows that match now;
\* those up to the end of the page have been seen, and the last page is
\* behind all of them.
Keeps(v, all, K) ==
  /\ v.must = {all[i] : i \in 1 .. K}
  /\ \A i \in 1 .. K : i <= v.offset + v.limit => all[i] \in v.seen
  /\ ~ v.more => K <= v.offset + v.limit

PagingInv ==
  /\ Fielded(view)
  /\ view.open =>
       /\ view.limit \in 1 .. MaxLimit /\ view.offset \in Nat
       /\ ~ view.disturbed => \E K \in 0 .. Len(matching(view.action)) : Keeps(view, matching(view.action), K)

\* A page goes from its offset to its limit, or to the end of what there is.
LEMMA PageIsCut ==
  ASSUME NEW X, NEW all \in Seq(X), NEW offset \in Nat, NEW limit \in 1 .. MaxLimit
  PROVE  LET rows == Cut(all, offset, clamp(limit))
         IN  /\ \A i \in 1 .. Len(all) : offset < i /\ i <= offset + limit => \E j \in DOMAIN rows : rows[j] = all[i]
             /\ ~ (offset + Len(rows) < Len(all)) => Len(all) <= offset + limit
<1> DEFINE n == Len(all)
           final == IF n < offset + limit THEN n ELSE offset + limit
           rows == SubSeq(all, offset + 1, final)
<1>1. MaxLimit \in Nat /\ limit \in Nat /\ 1 <= limit /\ n \in Nat
  BY LimitAssumption
<1>2. clamp(limit) = limit
  BY <1>1 DEF clamp
<1>3. Cut(all, offset, clamp(limit)) = rows
  BY <1>2 DEF Cut, Least
<1>4. CASE offset < n
  <2>1. final \in Nat /\ offset + 1 <= final /\ final <= n
    BY <1>1, <1>4
  <2> HIDE DEF final
  <2>2. Len(rows) = final - offset /\ DOMAIN rows = 1 .. (final - offset)
        /\ \A j \in 1 .. (final - offset) : rows[j] = all[offset + j]
    BY <1>1, <2>1, SMTT(60)
  <2>3. ASSUME NEW i \in 1 .. n, offset < i, i <= offset + limit PROVE \E j \in DOMAIN rows : rows[j] = all[i]
    <3>1. i - offset \in 1 .. (final - offset) /\ offset + (i - offset) = i
      BY <1>1, <2>1, <2>3 DEF final
    <3>2. rows[i - offset] = all[i]
      BY <2>2, <3>1
    <3> QED BY <2>2, <3>1, <3>2
  <2>4. ~ (offset + Len(rows) < n) => n <= offset + limit
    BY <1>1, <2>1, <2>2 DEF final
  <2> HIDE DEF rows
  <2> QED BY <1>3, <2>3, <2>4
<1>5. CASE ~ (offset < n)
  BY <1>1, <1>3, <1>5
<1> QED BY <1>4, <1>5

\* What a page adds to what has been seen, all before it having been seen.
LEMMA PageKeeps ==
  ASSUME NEW X, NEW all \in Seq(X), NEW v, v.offset \in Nat, v.limit \in 1 .. MaxLimit,
         NEW K \in 0 .. Len(all), NEW first,
         first => K = Len(all) /\ v.offset = 0,
         ~ first => v.must = {all[i] : i \in 1 .. K} /\ \A i \in 1 .. K : i <= v.offset => all[i] \in v.seen
  PROVE  Keeps(Paged(v, all, first), all, K)
<1> DEFINE rows == Cut(all, v.offset, clamp(v.limit))
           w == Paged(v, all, first)
<1>1. /\ \A i \in 1 .. Len(all) : v.offset < i /\ i <= v.offset + v.limit => \E j \in DOMAIN rows : rows[j] = all[i]
      /\ ~ (v.offset + Len(rows) < Len(all)) => Len(all) <= v.offset + v.limit
  BY PageIsCut
<1>2. /\ w.offset = v.offset /\ w.limit = v.limit /\ w.more = (v.offset + Len(rows) < Len(all))
      /\ w.must = IF first THEN {all[i] : i \in DOMAIN all} ELSE v.must
      /\ w.seen = v.seen \cup {rows[i] : i \in DOMAIN rows}
  BY DEF Paged
<1> HIDE DEF rows, w
<1>3. DOMAIN all = 1 .. Len(all) /\ Len(all) \in Nat /\ K \in Nat /\ K <= Len(all) /\ MaxLimit \in Nat
  BY LimitAssumption, SMTT(60)
<1>4. w.must = {all[i] : i \in 1 .. K}
  BY <1>2, <1>3
<1> DEFINE o == v.offset
           l == v.limit
           n == Len(all)
<1>8. o \in Nat /\ l \in Nat /\ w.offset = o /\ w.limit = l
  <2>1. o \in Nat
    OBVIOUS
  <2>2. l \in 1 .. MaxLimit
    OBVIOUS
  <2>3. w.offset = o /\ w.limit = l
    BY <1>2
  <2>4. l \in Nat
    BY <1>3, <2>2
  <2> QED BY <2>1, <2>3, <2>4
<1>9. \A i \in 1 .. n : o < i /\ i <= o + l => \E j \in DOMAIN rows : rows[j] = all[i]
  BY <1>1
<1>10. ~ w.more => n <= o + l
  BY <1>1, <1>2
<1>11. first => o = 0
  OBVIOUS
<1>12. n \in Nat /\ K \in Nat /\ K <= n
  BY <1>3
<1> HIDE DEF o, l, n
<1>5. ASSUME NEW i \in 1 .. K, i <= w.offset + w.limit PROVE all[i] \in w.seen
  <2>1. CASE i <= o
    <3>1. ~ first
      BY <1>8, <1>11, <1>12, <2>1
    <3>2. all[i] \in v.seen
      BY <2>1, <3>1 DEF o
    <3> QED BY <1>2, <3>2
  <2>2. CASE ~ (i <= o)
    <3>1. i \in 1 .. n /\ o < i /\ i <= o + l
      BY <1>5, <1>8, <1>12, <2>2
    <3>2. PICK j \in DOMAIN rows : rows[j] = all[i]
      BY <1>9, <3>1
    <3> QED BY <1>2, <3>2
  <2> QED BY <2>1, <2>2
<1>6. ~ w.more => K <= w.offset + w.limit
  BY <1>8, <1>10, <1>12
<1>7. Keeps(w, all, K)
  BY <1>4, <1>5, <1>6 DEF Keeps
<1> QED BY <1>7 DEF w

\* Rows behind those that are there change nothing for a tab that is open.
LEMMA KeptWhileGrowing ==
  ASSUME NEW X, NEW all \in Seq(X), NEW e \in X, NEW v, NEW K \in 0 .. Len(all), Keeps(v, all, K)
  PROVE  K \in 0 .. Len(Append(all, e)) /\ Keeps(v, Append(all, e), K)
<1>1. \A i \in 1 .. K : Append(all, e)[i] = all[i]
  OBVIOUS
<1>2. K \in 0 .. Len(Append(all, e))
  OBVIOUS
<1>3. {Append(all, e)[i] : i \in 1 .. K} = {all[i] : i \in 1 .. K}
  BY <1>1
<1> QED BY <1>1, <1>2, <1>3 DEF Keeps

LEMMA PagingStart == Init => PagingInv
<1> SUFFICES ASSUME Init PROVE PagingInv
  OBVIOUS
<1>1. view = NoView
  BY DEF Init
<1> QED BY <1>1 DEF PagingInv, Fielded, NoView

\* Opening the tab, and each page of it, keeps the count.
LEMMA LoadStep ==
  ASSUME RecordInv, NEW v, Fielded(v), v.open, v.offset \in Nat, v.limit \in 1 .. MaxLimit, NEW first, Load(v, first),
         UNCHANGED table, first => v.offset = 0,
         ~ first /\ ~ v.disturbed =>
           \E K \in 0 .. Len(matching(v.action)) :
             /\ v.must = {matching(v.action)[i] : i \in 1 .. K}
             /\ \A i \in 1 .. K : i <= v.offset => matching(v.action)[i] \in v.seen
  PROVE  PagingInv'
<1>1. PICK all : all = matching(v.action)
  OBVIOUS
<1>2. all \in Seq(Events)
  BY <1>1, MatchingIsFilter DEF RecordInv
<1>3. view' = Paged(v, all, first)
  BY <1>1, PageLoaded
<1>4. matching(v.action)' = all
  BY <1>1 DEF matching, query_events
<1>5. /\ view'.open = v.open /\ view'.action = v.action /\ view'.limit = v.limit /\ view'.offset = v.offset
      /\ view'.disturbed = v.disturbed
  BY <1>3 DEF Paged
<1>6. Fielded(view')
  BY <1>3 DEF Paged, Fielded
<1>7. matching(view.action)' = all
  BY <1>4, <1>5 DEF matching, query_events
<1>8. ASSUME ~ v.disturbed PROVE \E K \in 0 .. Len(all) : Keeps(view', all, K)
  <2>1. CASE first
    <3>1. Len(all) \in 0 .. Len(all)
      BY <1>2
    <3> QED BY <1>2, <1>3, <2>1, <3>1, PageKeeps
  <2>2. CASE ~ first
    <3>1. PICK K \in 0 .. Len(all) :
            /\ v.must = {all[i] : i \in 1 .. K}
            /\ \A i \in 1 .. K : i <= v.offset => all[i] \in v.seen
      BY <1>1, <1>8, <2>2
    <3> QED BY <1>2, <1>3, <2>2, <3>1, PageKeeps
  <2> QED BY <2>1, <2>2
<1> QED BY <1>5, <1>6, <1>7, <1>8 DEF PagingInv

\* Turning the page, forward or back, over what has been seen.
LEMMA Turned ==
  ASSUME PagingInv, RecordInv, view.open, NEW o \in Nat, o <= view.offset + view.limit,
         Load([view EXCEPT !.offset = o], FALSE), UNCHANGED table
  PROVE  PagingInv'
<1>1. PICK v : v = [view EXCEPT !.offset = o]
  OBVIOUS
<1>2. /\ Fielded(view) /\ view.limit \in 1 .. MaxLimit /\ view.offset \in Nat
      /\ ~ view.disturbed => \E K \in 0 .. Len(matching(view.action)) : Keeps(view, matching(view.action), K)
  BY DEF PagingInv
<1>3. v = [open |-> view.open, action |-> view.action, limit |-> view.limit, offset |-> o, rows |-> view.rows,
           more |-> view.more, must |-> view.must, seen |-> view.seen, disturbed |-> view.disturbed]
  BY <1>1, <1>2 DEF Fielded
<1>4. /\ v.open = view.open /\ v.action = view.action /\ v.limit = view.limit /\ v.offset = o
      /\ v.must = view.must /\ v.seen = view.seen /\ v.disturbed = view.disturbed /\ Fielded(v)
  BY <1>3 DEF Fielded
<1>5. ASSUME ~ v.disturbed
      PROVE  \E K \in 0 .. Len(matching(v.action)) :
               /\ v.must = {matching(v.action)[i] : i \in 1 .. K}
               /\ \A i \in 1 .. K : i <= v.offset => matching(v.action)[i] \in v.seen
  <2>1. PICK K \in 0 .. Len(matching(view.action)) : Keeps(view, matching(view.action), K)
    BY <1>2, <1>4, <1>5
  <2>2. ASSUME NEW i \in 1 .. K, i <= o PROVE i <= view.offset + view.limit
    <3>1. PICK f \in Nat, l \in Nat : f = view.offset /\ l = view.limit
      BY <1>2, LimitAssumption, SMTT(60)
    <3> QED BY <2>2, <3>1
  <2> QED BY <1>4, <2>1, <2>2 DEF Keeps
<1>6. Load(v, FALSE)
  BY <1>1
<1>7. v.open /\ v.offset \in Nat /\ v.limit \in 1 .. MaxLimit
  BY <1>2, <1>4
<1> QED BY <1>4, <1>5, <1>6, <1>7, LoadStep

\* A record with its fields replaced one by one.
Opening(w, x, a, n) == [w EXCEPT !.open = x, !.action = a, !.limit = n]

LEMMA Opened ==
  ASSUME NEW w, Fielded(w), NEW x, NEW a, NEW n
  PROVE  LET v == Opening(w, x, a, n)
         IN  Fielded(v) /\ v.open = x /\ v.limit = n /\ v.offset = w.offset
<1> DEFINE v1 == [w EXCEPT !.open = x]
           v2 == [v1 EXCEPT !.action = a]
           v3 == [v2 EXCEPT !.limit = n]
<1>1. v1 = [open |-> x, action |-> w.action, limit |-> w.limit, offset |-> w.offset, rows |-> w.rows,
            more |-> w.more, must |-> w.must, seen |-> w.seen, disturbed |-> w.disturbed]
  BY DEF Fielded
<1>2. Opening(w, x, a, n) = v3
  BY DEF Opening
<1> HIDE DEF v1
<1>3. v2 = [open |-> x, action |-> a, limit |-> w.limit, offset |-> w.offset, rows |-> w.rows,
            more |-> w.more, must |-> w.must, seen |-> w.seen, disturbed |-> w.disturbed]
  BY <1>1
<1> HIDE DEF v2
<1>4. v3 = [open |-> x, action |-> a, limit |-> n, offset |-> w.offset, rows |-> w.rows,
            more |-> w.more, must |-> w.must, seen |-> w.seen, disturbed |-> w.disturbed]
  BY <1>3
<1> HIDE DEF v3
<1>5. Fielded(v3) /\ v3.open = x /\ v3.limit = n /\ v3.offset = w.offset
  BY <1>4 DEF Fielded
<1> QED BY <1>2, <1>5

\* Opening the tab starts the count.
LEMMA FirstPage ==
  ASSUME RecordInv, NEW a, NEW n \in 1 .. MaxLimit, UNCHANGED table,
         Load([NoView EXCEPT !.open = TRUE, !.action = a, !.limit = n], TRUE)
  PROVE  PagingInv'
<1>1. PICK w, x : w = NoView /\ x = TRUE
  OBVIOUS
<1>2. Fielded(w) /\ w.offset = 0
  BY <1>1 DEF NoView, Fielded
<1>3. PICK v : v = Opening(w, x, a, n) /\ Fielded(v) /\ v.open = x /\ v.limit = n /\ v.offset = w.offset
  BY <1>2, Opened
<1>4. Load(v, TRUE)
  BY <1>1, <1>3 DEF Opening
<1>5. v.open
  BY <1>1, <1>3
<1>6. v.offset = 0 /\ v.offset \in Nat /\ v.limit \in 1 .. MaxLimit /\ Fielded(v)
  BY <1>2, <1>3
<1> QED BY <1>4, <1>5, <1>6, LoadStep

\* No step of the program, and none of another client, breaks the count.
LEMMA PagingStep == PagingInv /\ RecordInv /\ HandlerInv /\ [Next]_vars => PagingInv'
<1> SUFFICES ASSUME PagingInv, RecordInv, HandlerInv, [Next]_vars PROVE PagingInv'
  OBVIOUS
<1>0. Fielded(view) /\ table \in Seq(Events) /\ work \in Workloads
  BY DEF PagingInv, RecordInv, HandlerInv, WorldInv
<1>1. CASE UNCHANGED << view, table >>
  <2>2. matching(view.action)' = matching(view.action)
    BY <1>1 DEF matching, query_events
  <2> QED BY <1>1, <2>2 DEF PagingInv
<1>2. ASSUME NEW r \in Reqs, Answer(r) \/ Disconnect(r) PROVE PagingInv'
  <2>1. UNCHANGED view /\ (UNCHANGED table \/ (save_event(r) /\ pc[r] = "save"))
    BY <1>2 DEF Answer, Disconnect
  <2>2. CASE UNCHANGED table
    BY <1>1, <2>1, <2>2
  <2>3. CASE pc[r] = "save" /\ table' = Append(table, Event(r))
    <3>1. Event(r) \in Events
      <4>1. Handler(r)
        BY DEF HandlerInv
      <4>2. scan[r] \in Scans
        BY <2>3, <4>1 DEF Handler
      <4> QED BY <4>2 DEF Events, Event, Scans
    <3>2. PICK e \in Events : e = Event(r)
      BY <3>1
    <3>3. PICK a : a = view.action
      OBVIOUS
    <3>4. PICK all \in Seq(Events) : all = matching(a)
      BY <1>0, MatchingIsFilter
    <3>5. matching(a)' = all \/ matching(a)' = Append(all, e)
      BY <1>0, <2>3, <3>2, <3>4, MatchingGrows
    <3>6. matching(view.action)' = matching(a)'
      BY <2>1, <3>3 DEF matching, query_events
    <3>7. ASSUME view.open, ~ view.disturbed
          PROVE  \E K \in 0 .. Len(matching(view.action)') : Keeps(view, matching(view.action)', K)
      <4>1. PICK K \in 0 .. Len(all) : Keeps(view, all, K)
        BY <3>3, <3>4, <3>7 DEF PagingInv
      <4>2. CASE matching(a)' = all
        BY <3>6, <4>1, <4>2
      <4>3. CASE matching(a)' = Append(all, e)
        <5>1. K \in 0 .. Len(Append(all, e)) /\ Keeps(view, Append(all, e), K)
          BY <3>4, <4>1, KeptWhileGrowing
        <5> QED BY <3>6, <4>3, <5>1
      <4> QED BY <3>5, <4>2, <4>3
    <3> QED BY <2>1, <3>7 DEF PagingInv
  <2> QED BY <2>1, <2>2, <2>3 DEF save_event
<1>3. CASE OpenHistory
  <2>1. PICK a \in Actions \cup {""}, n \in work.limits :
          Load([NoView EXCEPT !.open = TRUE, !.action = a, !.limit = n], TRUE)
    BY <1>3 DEF OpenHistory
  <2>2. n \in 1 .. MaxLimit
    BY <1>0, WorkloadsAssumption
  <2>3. UNCHANGED table
    BY <1>3 DEF OpenHistory
  <2> QED BY <2>1, <2>2, <2>3, FirstPage
<1>4. CASE NextPage
  <2>1. view.open /\ view.more /\ UNCHANGED table
        /\ Load([view EXCEPT !.offset = view.offset + view.limit], FALSE)
    BY <1>4 DEF NextPage
  <2>2. view.offset \in Nat /\ view.limit \in 1 .. MaxLimit
    BY <2>1 DEF PagingInv
  <2>3. PICK o : o = view.offset + view.limit
    OBVIOUS
  <2>4. o \in Nat /\ o <= view.offset + view.limit
    BY <2>2, <2>3, LimitAssumption
  <2> QED BY <2>1, <2>3, <2>4, Turned
<1>5. CASE PrevPage
  <2> DEFINE o == IF view.offset > view.limit THEN view.offset - view.limit ELSE 0
  <2>1. view.open /\ UNCHANGED table /\ Load([view EXCEPT !.offset = o], FALSE)
    BY <1>5 DEF PrevPage
  <2>2. view.offset \in Nat /\ view.limit \in 1 .. MaxLimit
    BY <2>1 DEF PagingInv
  <2>3. o \in Nat /\ o <= view.offset + view.limit
    BY <2>2, LimitAssumption
  <2> HIDE DEF o
  <2> QED BY <2>1, <2>2, <2>3, Turned
<1>6. CASE CloseHistory
  <2>1. view' = NoView
    BY <1>6 DEF CloseHistory
  <2> QED BY <2>1 DEF PagingInv, Fielded, NoView
<1>7. CASE Expire
  <2>1. view' = [view EXCEPT !.disturbed = view.open]
    BY <1>7 DEF Expire
  <2>2. view' = [open |-> view.open, action |-> view.action, limit |-> view.limit, offset |-> view.offset,
                 rows |-> view.rows, more |-> view.more, must |-> view.must, seen |-> view.seen,
                 disturbed |-> view.open]
    BY <1>0, <2>1 DEF Fielded
  <2>3. Fielded(view') /\ view'.open = view.open /\ view'.disturbed = view.open
        /\ view'.limit = view.limit /\ view'.offset = view.offset
    BY <2>2 DEF Fielded
  <2> QED BY <2>3 DEF PagingInv
<1>8. ASSUME NEW r \in Reqs,
             \/ Arrive(r) \/ CheckUpload(r) \/ ScanFile(r) \/ Fallback(r) \/ ScanText(r) \/ Ask(r) \/ Verdict(r)
             \/ BeatRead(r) \/ BeatTruncate(r) \/ BeatWrite(r) \/ BeatFails(r)
      PROVE  UNCHANGED << view, table >>
  BY <1>8 DEF Arrive, CheckUpload, ScanFile, Fallback, ScanText, Ask, Verdict,
     BeatRead, BeatTruncate, BeatWrite, BeatFails, histVars
<1>9. ApplyPolicy \/ UNCHANGED vars => UNCHANGED << view, table >>
  BY DEF ApplyPolicy, vars, histVars
<1> QED BY <1>1, <1>2, <1>3, <1>4, <1>5, <1>6, <1>7, <1>8, <1>9 DEF Next, Handle

\* What the console needs to miss nothing: what matched when the tab was
\* opened is still the first of what matches, and has been seen up to the end
\* of the page.
THEOREM PagesKeepCount == Spec => []PagingInv
BY PagingStart, PagingStep, RecordStart, RecordStep, HandlerInvStart, HandlerInvStep, PTL DEF Spec

\* The history (ui_audit_recent, as the console pages it) has every answer
\* that was given, whatever the filter and the size of a page, and however
\* many events arrive and however often the reader turns back meanwhile.
THEOREM HistoryIsComplete == Spec => []HistoryComplete
<1>1. PagingInv => PagesMissNothing
  <2> SUFFICES ASSUME PagingInv, view.open, ~ view.more, ~ view.disturbed
               PROVE  view.must \subseteq view.seen
    BY DEF PagesMissNothing
  <2>1. PICK K \in 0 .. Len(matching(view.action)) : Keeps(view, matching(view.action), K)
    BY DEF PagingInv
  <2>2. PICK e : e = view.offset + view.limit
    OBVIOUS
  <2>3. e \in Nat
    <3>1. view.offset \in Nat /\ view.limit \in 1 .. MaxLimit
      BY DEF PagingInv
    <3> QED BY <2>2, <3>1, LimitAssumption
  <2>4. K <= e /\ \A i \in 1 .. K : i <= e => matching(view.action)[i] \in view.seen
    BY <2>1, <2>2 DEF Keeps
  <2>5. \A i \in 1 .. K : i <= e
    BY <2>3, <2>4
  <2> QED BY <2>1, <2>4, <2>5 DEF Keeps
<1> QED BY <1>1, PagesKeepCount, AnswersLeaveARecord, PTL DEF HistoryComplete
=============================================================================
