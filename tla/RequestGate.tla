---------------------------- MODULE RequestGate ----------------------------
(***************************************************************************)
(* What stands between a /v1/* request and the work it asks for in         *)
(* crates/local_api: the Origin and signed-request checks                  *)
(* (request_authorized), then the shared request budget (RateLimiter).     *)
(*                                                                         *)
(* Workers serve requests concurrently.  The nonce cache and the budget    *)
(* are each behind a mutex, so each is one step; the timestamp is compared *)
(* with the wall clock in an earlier step.  The network may deliver a      *)
(* request late and more than once (retries).  The nonce cache and the     *)
(* budget use the monotonic clock, timestamps the wall clock.              *)
(*                                                                         *)
(* Names are prefixed where LocalApi has them too: LocalApiProofs is about *)
(* both.                                                                   *)
(***************************************************************************)
EXTENDS Integers, Sequences, FiniteSets

CONSTANTS
  Workers,       \* concurrent handlers
  Nonces,        \* nonces of the signed requests in existence
  Window,        \* REPLAY_WINDOW and RATE_LIMIT_WINDOW, in ticks
  Max,           \* RATE_LIMIT_MAX_REQUESTS
  Skew,          \* how far a caller's clock may be off, in ticks
  MaxTime,       \* bound: last instant
  MaxJumps       \* bound: times the Agent's wall clock is set

ASSUME WindowAssumption == Window \in Nat \ {0}
ASSUME BoundsAssumption ==
  /\ Max \in Nat /\ Skew \in Nat /\ MaxTime \in Nat /\ MaxJumps \in Nat

VARIABLES
  signed,    \* with_shared_secret was called: requests must be signed
  now,       \* Instant::now()
  wall,      \* chrono::Utc::now()
  jumps,     \* times the wall clock was set
  sent,      \* requests signed so far: [nonce, ts]
  stage,     \* per worker
  msg,       \* per worker: the request it serves
  seen,      \* NonceCache: set of [nonce, at]
  start,     \* RateLimiter: window_start
  counted,   \* RateLimiter: count
  \* history
  uses,      \* per nonce: how often it was accepted
  last,      \* per nonce: when it was accepted last
  admitted   \* instants at which a request was given budget

gateVars == <<seen, start, counted, uses, last, admitted>>
requestVars == <<signed, now, wall, jumps, sent, stage, msg, gateVars>>

Request == [nonce : Nonces, ts : Int]

GateInit ==
  /\ signed \in BOOLEAN
  /\ now = 0 /\ wall = 0 /\ jumps = 0
  /\ sent = {}
  /\ stage = [w \in Workers |-> "idle"]
  /\ msg \in [Workers -> [nonce : Nonces, ts : {0}]]
  /\ seen = {}
  /\ start = 0 /\ counted = 0
  /\ uses = [n \in Nonces |-> 0]
  /\ last = [n \in Nonces |-> 0]
  /\ admitted = <<>>

-----------------------------------------------------------------------------
(* Clocks and callers *)

Tick ==
  /\ now < MaxTime
  /\ now' = now + 1 /\ wall' = wall + 1
  /\ UNCHANGED <<signed, jumps, sent, stage, msg, gateVars>>

\* The wall clock is set (NTP, the user); instants are not affected.
SetClock ==
  /\ jumps < MaxJumps
  /\ jumps' = jumps + 1
  /\ \E d \in {-Window, Window} : wall' = wall + d
  /\ UNCHANGED <<signed, now, sent, stage, msg, gateVars>>

\* A caller signs a request with its own clock and a fresh nonce.
Sign(n) ==
  /\ \A r \in sent : r.nonce # n
  /\ \E s \in -Skew .. Skew : sent' = sent \union {[nonce |-> n, ts |-> wall + s]}
  /\ UNCHANGED <<signed, now, wall, jumps, stage, msg, gateVars>>

-----------------------------------------------------------------------------
(* The handler, up to its work *)

Abs(x) == IF x < 0 THEN -x ELSE x

\* Not too old and not too far ahead.
Timely(ts) == Abs(wall - ts) <= Window

\* Origin, then timestamp and signature if a secret is set; anything else is
\* a 403 that changes nothing.
Receive(w, r) ==
  /\ stage[w] = "idle"
  /\ signed => Timely(r.ts)
  /\ stage' = [stage EXCEPT ![w] = IF signed THEN "checked" ELSE "authorized"]
  /\ msg' = [msg EXCEPT ![w] = r]
  /\ UNCHANGED <<signed, now, wall, jumps, sent, gateVars>>

Fresh == {e \in seen : now - e.at < Window}

Cached(cache, n) == \E e \in cache : e.nonce = n

\* Mutant: a replay overwrites the cached instant and is let through.
RecordAlways(w) ==
  LET n == msg[w].nonce
  IN  /\ stage[w] = "checked"
      /\ stage' = [stage EXCEPT ![w] = "authorized"]
      /\ seen' = Fresh \union {[nonce |-> n, at |-> now]}
      /\ uses' = [uses EXCEPT ![n] = @ + 1]
      /\ last' = [last EXCEPT ![n] = now]
      /\ UNCHANGED <<signed, now, wall, jumps, sent, msg, start, counted, admitted>>

\* check_and_record: purge, then refuse a known nonce (403) or record it.
CheckAndRecord(w) ==
  LET n == msg[w].nonce
  IN  /\ stage[w] = "checked"
      /\ \/ /\ Cached(Fresh, n)
            /\ stage' = [stage EXCEPT ![w] = "idle"]
            /\ seen' = Fresh
            /\ UNCHANGED <<uses, last>>
         \/ /\ ~Cached(Fresh, n)
            /\ stage' = [stage EXCEPT ![w] = "authorized"]
            /\ seen' = Fresh \union {[nonce |-> n, at |-> now]}
            /\ uses' = [uses EXCEPT ![n] = @ + 1]
            /\ last' = [last EXCEPT ![n] = now]
      /\ UNCHANGED <<signed, now, wall, jumps, sent, msg, start, counted, admitted>>

\* RateLimiter::allow with the budget given.
Admit(w, max) ==
  LET reset == now - start >= Window
      base  == IF reset THEN 0 ELSE counted
      spent == base >= max
  IN  /\ stage[w] = "authorized"
      /\ start' = IF reset THEN now ELSE start
      /\ counted' = IF spent THEN base ELSE base + 1
      /\ stage' = [stage EXCEPT ![w] = IF spent THEN "idle" ELSE "working"]
      /\ admitted' = IF spent THEN admitted ELSE Append(admitted, now)
      /\ UNCHANGED <<signed, now, wall, jumps, sent, msg, seen, uses, last>>

\* Mutant: count > max instead of count >= max.
AllowOneMore(w) == Admit(w, Max + 1)

\* A new window if the old one ran out, then admit or 429.
Allow(w) == Admit(w, Max)

\* Scan, persist the event, answer.
Serve(w) ==
  /\ stage[w] = "working"
  /\ stage' = [stage EXCEPT ![w] = "idle"]
  /\ UNCHANGED <<signed, now, wall, jumps, sent, msg, gateVars>>

GateNext ==
  \/ Tick \/ SetClock
  \/ \E n \in Nonces : Sign(n)
  \/ \E w \in Workers :
       \/ \E r \in sent : Receive(w, r)
       \/ CheckAndRecord(w) \/ Allow(w) \/ Serve(w)

GateSpec == GateInit /\ [][GateNext]_requestVars
-----------------------------------------------------------------------------
(* What holds *)

\* Types of the clocks, the cache, the budget (never overspent) and the workers.
GateTypeOK ==
  /\ signed \in BOOLEAN
  /\ now \in Nat /\ wall \in Int /\ jumps \in Nat
  /\ sent \subseteq Request
  /\ stage \in [Workers -> {"idle", "checked", "authorized", "working"}]
  /\ msg \in [Workers -> Request]
  /\ seen \subseteq [nonce : Nonces, at : Nat]
  /\ start \in Nat /\ counted \in 0 .. Max
  /\ uses \in [Nonces -> Nat]
  /\ last \in [Nonces -> Nat]
  /\ admitted \in Seq(Nat)

\* A nonce accepted once is not accepted again before Window has passed,
\* whichever workers race for it and however the wall clock is set.
ReplaysAreSpaced ==
  [][\A n \in Nonces : uses'[n] # uses[n] /\ uses[n] > 0 => now - last[n] >= Window]_requestVars

Admissions(from) == {i \in DOMAIN admitted : from <= admitted[i] /\ admitted[i] < from + Window}

\* The fixed window admits at most twice its budget in any span of Window.
BurstBounded == \A t \in 0 .. now : Cardinality(Admissions(t)) <= 2 * Max

-----------------------------------------------------------------------------
(* What the comment on check_and_record claims *)

\* "Returns true ... the first time it's seen within the window; false -- a
\* replay -- every time after", the window being the time a request "stays
\* acceptable": a request is accepted at most once.
AcceptedOnce == \A n \in Nonces : uses[n] <= 1
=============================================================================
