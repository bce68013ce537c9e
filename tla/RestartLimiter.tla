--------------------------- MODULE RestartLimiter ---------------------------
(***************************************************************************)
(* The watchdog's RestartLimiter and the supervision loop seen as a source *)
(* of restarts: how often the service is started again when it keeps       *)
(* dying, or keeps failing its integrity check.                            *)
(*                                                                         *)
(* Instants are integers and the platform has an earliest one, Floor: on   *)
(* Windows it is the machine's boot, elsewhere it lies far in the past.    *)
(* Restarts are recorded at increasing instants, so popping the old ones   *)
(* from the front of the queue is a filter, and the queue a set.           *)
(*                                                                         *)
(* Names are prefixed where Watchdog has them too: WatchdogProofs is about *)
(* both.                                                                   *)
(***************************************************************************)
EXTENDS Integers, FiniteSets

CONSTANTS
  Floor,         \* earliest instant the platform represents; the watchdog starts at 0
  MaxRestarts,   \* max_restarts
  Window,        \* window
  NormalDelay,   \* normal_delay
  BackoffDelay,  \* backoff_delay
  SpawnRetry,    \* the fixed delay after a spawn that failed
  MaxTime        \* bound: last instant

ASSUME FloorAssumption == Floor \in Int /\ Floor <= 0
ASSUME LimiterAssumption ==
  /\ MaxRestarts \in Nat /\ Window \in Nat
  /\ NormalDelay \in Nat \ {0} /\ BackoffDelay \in Nat \ {0} /\ SpawnRetry \in Nat \ {0}
  /\ MaxTime \in Nat

\* RestartLimiter::new(5, 60 s, 1 s, 30 s): backing off is not quicker than
\* the ordinary delay.
ASSUME DelayAssumption == NormalDelay <= BackoffDelay

VARIABLES
  now,       \* Instant::now()
  pc,        \* "running": a child runs or is about to; "asleep": in the delay
  wake,      \* when the delay ends
  history,   \* the limiter's queue of instants
  delay,     \* what record_and_next_delay returned last
  restarts   \* history variable: every restart recorded

limiterVars == <<now, pc, wake, history, delay, restarts>>

LimiterInit ==
  /\ now = 0
  /\ pc = "running" /\ wake = 0
  /\ history = {} /\ delay = NormalDelay
  /\ restarts = {}

Tick ==
  /\ now < MaxTime
  /\ now' = now + 1
  /\ UNCHANGED <<pc, wake, history, delay, restarts>>

\* now.checked_sub(window).unwrap_or(now)
cutoff == IF now - Window < Floor THEN now ELSE now - Window

\* Mutant: the restart that is one window old is dropped.
RecordedStrictly == {t \in history \union {now} : t > cutoff}

\* Mutant: nothing is popped.
RecordedForEver == history \union {now}

\* push_back, then pop_front while older than cutoff.
Recorded == {t \in history \union {now} : t >= cutoff}

\* Mutant: the delay doubles instead of staying at backoff_delay.
DelayDoubles(len) == IF len > MaxRestarts THEN 2 * BackoffDelay ELSE NormalDelay

\* Mutant: the limit itself is not counted as exceeded until one later.
DelayLate(len) == IF len > MaxRestarts + 1 THEN BackoffDelay ELSE NormalDelay

DelayFor(len) == IF len > MaxRestarts THEN BackoffDelay ELSE NormalDelay

\* The child exited, was stopped for an update, or failed its integrity
\* check: record_and_next_delay(now), sleep.
RecordAndSleep ==
  /\ pc = "running"
  /\ history' = Recorded
  /\ delay' = DelayFor(Cardinality(Recorded))
  /\ pc' = "asleep" /\ wake' = now + delay'
  /\ restarts' = restarts \union {now}
  /\ UNCHANGED now

\* A failed spawn sleeps for a fixed time and is not recorded.
SpawnFails ==
  /\ pc = "running"
  /\ pc' = "asleep" /\ wake' = now + SpawnRetry
  /\ UNCHANGED <<now, history, delay, restarts>>

\* A sleep may last longer than asked for.
WakeUp ==
  /\ pc = "asleep" /\ now >= wake
  /\ pc' = "running"
  /\ UNCHANGED <<now, wake, history, delay, restarts>>

LimiterNext == Tick \/ RecordAndSleep \/ SpawnFails \/ WakeUp

LimiterSpec == LimiterInit /\ [][LimiterNext]_limiterVars
-----------------------------------------------------------------------------
(* What holds *)

\* Types; the limiter remembers only real restarts and returns one of two delays.
LimiterTypeOK ==
  /\ now \in Nat
  /\ pc \in {"running", "asleep"}
  /\ wake \in Nat
  /\ history \subseteq restarts
  /\ restarts \subseteq 0 .. now
  /\ delay \in {NormalDelay, BackoffDelay}

\* The restarts of the window that ends at t.
InWindow(t) == {r \in restarts : t - Window <= r /\ r <= t}

CrashLoop(t) == Cardinality(InWindow(t)) > MaxRestarts

Latest(t) == t \in restarts /\ \A r \in restarts : r <= t

\* The delay is the one the restarts of the last window call for, neither
\* early nor late, once the machine has been up for two windows: from then
\* on no restart of that window was recorded without a cutoff.
LimitExact ==
  \A t \in restarts :
    Latest(t) /\ t - 2 * Window >= Floor
    => delay = IF CrashLoop(t) THEN BackoffDelay ELSE NormalDelay

\* Whatever the uptime, a service that does not restart too often never waits
\* for longer than normal_delay.
NoFalseBackoff ==
  \A t \in restarts : Latest(t) /\ ~CrashLoop(t) => delay = NormalDelay

\* A crash loop restarts the service at most this often in any window: the
\* ones the limit allows and one more, at least normal_delay apart, and in
\* what is left of the window one per backoff_delay.
RestartRateBounded ==
  \A t \in 0 .. now :
    t - Window >= Floor /\ MaxRestarts * NormalDelay <= Window =>
      Cardinality({r \in restarts : t <= r /\ r <= t + Window})
        <= MaxRestarts + 1 + (Window - MaxRestarts * NormalDelay) \div BackoffDelay

\* The limiter backs off exactly in a crash loop, and thereby bounds its rate.
LimiterSound == LimiterTypeOK /\ LimitExact /\ NoFalseBackoff /\ RestartRateBounded
=============================================================================
