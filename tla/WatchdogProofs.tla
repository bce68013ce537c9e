--------------------------- MODULE WatchdogProofs ---------------------------
(***************************************************************************)
(* Proofs about the watchdog process: about its tasks (Watchdog), for any  *)
(* number of versions, swaps and reboots and any manifest, and then about  *)
(* the delays between its restarts (RestartLimiter), for any limit,        *)
(* window, delays and uptime.                                              *)
(***************************************************************************)
EXTENDS Watchdog, RestartLimiter, FiniteSetTheorems, TLAPS

\* Every variable of the loop, the update task, the files and the registry
\* keeps its type.
THEOREM TypeCorrect == Spec => []TypeOK
<1> USE DEF TypeOK
<1>0. /\ None \in Version /\ Foreign \in Version /\ BuildVersion \in Version
      /\ \A v \in Pins : v \in Version
      /\ \A v \in Version : v < MaxVersion => v + 1 \in Version
  BY BoundsAssumption DEF Version, None, Foreign, BuildVersion
<1>1. Init => TypeOK
  <2> SUFFICES ASSUME Init PROVE TypeOK
    OBVIOUS
  <2>0. orphans \in Nat /\ lost \in Nat
    BY DEF Init
  <2>1. /\ child \in Version /\ target \in Version /\ current_version \in Version
        /\ disk \in Version /\ pinned \in Version /\ latest \in Version
    BY <1>0 DEF Init
  <2>2. /\ alive \in BOOLEAN /\ service_running \in BOOLEAN /\ shutdown \in BOOLEAN
        /\ permit \in BOOLEAN /\ gap \in BOOLEAN
    BY DEF Init
  <2> QED BY <2>0, <2>1, <2>2 DEF Init
<1>2. TypeOK /\ [Next]_vars => TypeOK'
  <2> SUFFICES ASSUME TypeOK, [Next]_vars PROVE TypeOK'
    OBVIOUS
  <2>1. CASE VerifyOk \/ VerifyFail \/ Spawn \/ SpawnError
    <3>1. CASE VerifyOk \/ VerifyFail
      BY <3>1, ZenonT(60) DEF VerifyOk, VerifyFail, machineVars, updateVars, lostVars
    <3>2. CASE Spawn
      <4>1. orphans' \in Nat /\ lost' \in Nat
        BY <3>2 DEF Spawn, Running
      <4>2. /\ alive' \in BOOLEAN /\ service_running' \in BOOLEAN /\ child' \in Version
            /\ mpc' = "select" /\ UNCHANGED <<disk, latest, machineVars, shutdown, permit, updateVars, status>>
        BY <3>2 DEF Spawn
      <4> QED BY <4>1, <4>2, ZenonT(60) DEF machineVars, updateVars
    <3>3. CASE SpawnError
      BY <3>3, ZenonT(60) DEF SpawnError, machineVars, updateVars, lostVars
    <3> QED BY <2>1, <3>1, <3>2, <3>3
  <2>2. CASE ChildExited \/ UpdateReady \/ Killed \/ ShutdownSeen \/ Exit \/ Wake
    <3>1. CASE ChildExited \/ UpdateReady \/ Killed
      BY <3>1, ZenonT(60) DEF ChildExited, UpdateReady, Killed, machineVars, updateVars, lostVars
    <3>2. CASE ShutdownSeen \/ Exit \/ Wake
      BY <3>2, ZenonT(60) DEF ShutdownSeen, Exit, Wake, machineVars, updateVars, lostVars
    <3> QED BY <2>2, <3>1, <3>2
  <2>3. CASE CheckForUpdate \/ DownloadOk \/ UpdateFails
    BY <2>3, <1>0 DEF CheckForUpdate, DownloadOk, UpdateFails, loopVars, lostVars, machineVars
  <2>4. CASE ApplyUpdate \/ Swap
    <3>1. gap' = (gap \/ mpc = "spawn")
      BY <2>4, <1>0 DEF ApplyUpdate, Swap, Replace
    <3>2. gap' \in BOOLEAN
      BY <3>1
    <3>3. disk' \in Version /\ swaps' \in Nat
      BY <2>4, <1>0 DEF ApplyUpdate, Swap, Replace
    <3> QED BY <2>4, <3>2, <3>3 DEF ApplyUpdate, Swap, loopVars, lostVars, updateVars
  <2>5. CASE WriteStatus \/ RequestShutdown \/ Publish
    <3>1. CASE WriteStatus
      BY <3>1 DEF WriteStatus, loopVars, lostVars, machineVars, updateVars
    <3>2. CASE RequestShutdown
      BY <3>2 DEF RequestShutdown, loopVars, lostVars, machineVars, updateVars
    <3>3. CASE Publish
      <4>1. latest' \in Version
        BY <3>3, <1>0 DEF Publish
      <4> QED BY <3>3, <4>1 DEF Publish, loopVars, lostVars, machineVars, updateVars
    <3> QED BY <2>5, <3>1, <3>2, <3>3
  <2>6. CASE ServiceDies
    BY <2>6, <1>0, ZenonT(60) DEF ServiceDies, machineVars, updateVars, lostVars
  <2>9. CASE WaitFails \/ ExitWithoutKill \/ WatchdogDies \/ OrphanDies \/ WatchdogStarts
    <3>1. orphans' \in Nat /\ lost' \in Nat
      BY <2>9 DEF WaitFails, ExitWithoutKill, WatchdogDies, OrphanDies, WatchdogStarts, LeaveRunning, lostVars
    <3>2. /\ alive' \in BOOLEAN /\ service_running' \in BOOLEAN /\ shutdown' \in BOOLEAN
          /\ permit' \in BOOLEAN /\ gap' \in BOOLEAN
      BY <2>9 DEF WaitFails, ExitWithoutKill, WatchdogDies, OrphanDies, WatchdogStarts, LeaveRunning, machineVars
    <3>3. /\ child' \in Version /\ target' \in Version /\ current_version' \in Version
          /\ disk' \in Version /\ pinned' \in Version /\ latest' \in Version
          /\ swaps' \in Nat /\ boots' \in Nat
      BY <2>9, <1>0 DEF WaitFails, ExitWithoutKill, WatchdogDies, OrphanDies, WatchdogStarts, machineVars, updateVars
    <3>4. /\ mpc' \in {"verify", "spawn", "select", "killing", "sleep", "stopping", "exited", "dead"}
          /\ upc' \in {"sleeping", "manifest", "downloaded"}
          /\ status' \in {"missing", "protected", "not_running"}
      BY <2>9 DEF WaitFails, ExitWithoutKill, WatchdogDies, OrphanDies, WatchdogStarts, updateVars
    <3> QED BY <3>1, <3>2, <3>3, <3>4
  <2>8. CASE Reboot
    <3>1. /\ child' \in Version /\ target' \in Version /\ current_version' \in Version
          /\ disk' \in Version /\ pinned' \in Version /\ latest' \in Version
      BY <2>8, <1>0 DEF Reboot
    <3>2. boots' \in Nat /\ swaps' \in Nat /\ orphans' \in Nat /\ lost' \in Nat
      BY <2>8 DEF Reboot
    <3>3. /\ alive' \in BOOLEAN /\ service_running' \in BOOLEAN /\ shutdown' \in BOOLEAN
          /\ permit' \in BOOLEAN /\ gap' \in BOOLEAN
      BY <2>8 DEF Reboot
    <3> QED BY <2>8, <3>1, <3>2, <3>3 DEF Reboot
  <2>7. CASE UNCHANGED vars
    BY <2>7 DEF vars, loopVars, lostVars, machineVars, updateVars
  <2> QED BY <2>1, <2>2, <2>3, <2>4, <2>5, <2>6, <2>7, <2>8, <2>9 DEF Next, Loop
<1> QED BY <1>1, <1>2, PTL DEF Spec

\* What the supervision loop's place says about the child and the flag, and that
\* every orphan was let go of.
LoopInv ==
  /\ alive => mpc \in {"select", "killing", "stopping"}
  /\ orphans \in Nat /\ lost \in Nat /\ orphans <= lost
  /\ FlagFollowsLoop

\* A child that was not let go of is gone before a new one is started, and
\* service_running follows the loop.
LEMMA LoopInvariant == Spec => []LoopInv
<1> USE DEF LoopInv, FlagFollowsLoop, Running
<1>1. Init => LoopInv
  BY DEF Init
<1>2. LoopInv /\ [Next]_vars => LoopInv'
  <2> SUFFICES ASSUME LoopInv, [Next]_vars PROVE LoopInv'
    OBVIOUS
  <2>1. CASE VerifyOk \/ VerifyFail \/ SpawnError
    BY <2>1 DEF VerifyOk, VerifyFail, SpawnError, lostVars
  <2>2. CASE Spawn
    BY <2>2 DEF Spawn
  <2>3. CASE ChildExited \/ UpdateReady \/ Killed \/ ShutdownSeen \/ Exit \/ Wake
    BY <2>3 DEF ChildExited, UpdateReady, Killed, ShutdownSeen, Exit, Wake, lostVars
  <2>4. CASE WaitFails \/ ExitWithoutKill
    BY <2>4 DEF WaitFails, ExitWithoutKill, LeaveRunning
  <2>5. CASE CheckForUpdate \/ DownloadOk \/ UpdateFails \/ ApplyUpdate
    BY <2>5 DEF CheckForUpdate, DownloadOk, UpdateFails, ApplyUpdate, loopVars, lostVars
  <2>6. CASE WriteStatus \/ RequestShutdown \/ Publish \/ Swap
    BY <2>6 DEF WriteStatus, RequestShutdown, Publish, Swap, loopVars, lostVars
  <2>7. CASE ServiceDies \/ OrphanDies
    BY <2>7 DEF ServiceDies, OrphanDies, lostVars
  <2>8. CASE WatchdogDies
    BY <2>8 DEF WatchdogDies, LeaveRunning, lostVars, Up, Dead
  <2>9. CASE WatchdogStarts \/ Reboot
    BY <2>9 DEF WatchdogStarts, Reboot, lostVars, Up, Dead
  <2>10. CASE UNCHANGED vars
    BY <2>10 DEF vars, loopVars, lostVars
  <2> QED
    BY <2>1, <2>2, <2>3, <2>4, <2>5, <2>6, <2>7, <2>8, <2>9, <2>10 DEF Next, Loop
<1> QED BY <1>1, <1>2, PTL DEF Spec

\* Beside a running service runs at most one for each failed wait and each death
\* of the watchdog since boot that left a child running.
THEOREM NeverTwoChildren == Spec => []OneChild
<1>1. LoopInv => OneChild
  BY DEF LoopInv, OneChild, Running
<1> QED BY <1>1, LoopInvariant, PTL

\* service_running is true exactly while the loop waits on its child or its end.
THEOREM FlagIsExact == Spec => []FlagFollowsLoop
<1>1. LoopInv => FlagFollowsLoop
  BY DEF LoopInv
<1> QED BY <1>1, LoopInvariant, PTL

\* Between the check and the spawn, and then for the child: only a replaced
\* file differs from the manifest.
PinInv ==
  /\ alive => mpc \in {"select", "killing", "stopping"}
  /\ RunsPinnedUnlessReplaced
  /\ mpc = "spawn" /\ pinned # None /\ disk # pinned => gap

\* A service the manifest does not pin runs only if the file was replaced
\* between verify_service_binary_before_spawn and spawn.
THEOREM PinnedUnlessReplaced == Spec => []RunsPinnedUnlessReplaced
<1> USE DEF PinInv, RunsPinnedUnlessReplaced
<1>1. Init => PinInv
  BY DEF Init
<1>2. PinInv /\ [Next]_vars => PinInv'
  <2> SUFFICES ASSUME PinInv, [Next]_vars PROVE PinInv'
    OBVIOUS
  <2>1. CASE VerifyOk
    BY <2>1 DEF VerifyOk, Verified
  <2>2. CASE VerifyFail \/ Spawn \/ SpawnError
    BY <2>2 DEF VerifyFail, Spawn, SpawnError, machineVars
  <2>3. CASE ChildExited \/ UpdateReady \/ Killed \/ ShutdownSeen \/ Exit \/ Wake
    BY <2>3 DEF ChildExited, UpdateReady, Killed, ShutdownSeen, Exit, Wake, machineVars
  <2>4. CASE CheckForUpdate \/ DownloadOk \/ UpdateFails
    BY <2>4 DEF CheckForUpdate, DownloadOk, UpdateFails, loopVars, lostVars, machineVars
  <2>5. CASE ApplyUpdate \/ Swap
    <3>1. gap' = (gap \/ mpc = "spawn")
      BY <2>5 DEF ApplyUpdate, Swap, Replace
    <3>2. (gap \/ mpc = "spawn") => gap'
      BY <3>1
    <3>3. UNCHANGED <<mpc, alive, child, pinned>>
      BY <2>5 DEF ApplyUpdate, Swap, loopVars
    <3> QED BY <3>2, <3>3
  <2>6. CASE WriteStatus \/ RequestShutdown \/ Publish
    BY <2>6 DEF WriteStatus, RequestShutdown, Publish, loopVars, lostVars, machineVars
  <2>7. CASE ServiceDies \/ Reboot
    BY <2>7 DEF ServiceDies, Reboot, machineVars
  <2>9. CASE WaitFails \/ ExitWithoutKill \/ WatchdogDies \/ OrphanDies \/ WatchdogStarts
    BY <2>9 DEF WaitFails, ExitWithoutKill, WatchdogDies, OrphanDies, WatchdogStarts, LeaveRunning, Up, Dead, machineVars
  <2>8. CASE UNCHANGED vars
    BY <2>8 DEF vars, loopVars, lostVars, machineVars
  <2> QED BY <2>1, <2>2, <2>3, <2>4, <2>5, <2>6, <2>7, <2>8, <2>9 DEF Next, Loop
<1>3. PinInv => RunsPinnedUnlessReplaced
  BY DEF PinInv
<1> QED BY <1>1, <1>2, <1>3, PTL DEF Spec

\* The safety of the supervision loop, for any number of versions, reboots,
\* deaths of the watchdog, failed waits and replaced files.
THEOREM AlwaysOnePinnedService == Spec => []OnePinnedService
  BY TypeCorrect, NeverTwoChildren, FlagIsExact, PinnedUnlessReplaced, PTL DEF OnePinnedService

-----------------------------------------------------------------------------
(* The restart limiter *)

USE FloorAssumption, LimiterAssumption

\* The limiter remembers only restarts that happened and returns one of its
\* two delays.
THEOREM LimiterTypeCorrect == LimiterSpec => []LimiterTypeOK
<1>1. LimiterInit => LimiterTypeOK
  BY DEF LimiterInit, LimiterTypeOK
<1>2. LimiterTypeOK /\ [LimiterNext]_limiterVars => LimiterTypeOK'
  <2> SUFFICES ASSUME LimiterTypeOK, [LimiterNext]_limiterVars PROVE LimiterTypeOK'
    OBVIOUS
  <2>1. CASE RecordAndSleep
    <3>1. delay' \in {NormalDelay, BackoffDelay}
      <4>1. delay' = DelayFor(Cardinality(Recorded))
        BY <2>1 DEF RecordAndSleep
      <4> QED BY <4>1 DEF DelayFor
    <3>2. /\ wake' = now + delay' /\ pc' = "asleep" /\ now' = now
          /\ history' = Recorded /\ restarts' = restarts \union {now}
      BY <2>1 DEF RecordAndSleep
    <3>3. history' \subseteq restarts'
      BY <3>2 DEF Recorded, LimiterTypeOK
    <3>4. restarts' \subseteq 0 .. now'
      BY <3>2 DEF LimiterTypeOK
    <3>5. now' \in Nat /\ wake' \in Nat
      <4>1. NormalDelay \in Nat /\ BackoffDelay \in Nat
        OBVIOUS
      <4>2. CASE delay' = NormalDelay
        BY <3>2, <4>1, <4>2 DEF LimiterTypeOK
      <4>3. CASE delay' = BackoffDelay
        BY <3>2, <4>1, <4>3 DEF LimiterTypeOK
      <4> QED BY <3>1, <4>2, <4>3
    <3> QED BY <3>1, <3>2, <3>3, <3>4, <3>5 DEF LimiterTypeOK
  <2>2. CASE Tick
    <3>1. restarts' \subseteq 0 .. now' /\ now' \in Nat
      BY <2>2 DEF Tick, LimiterTypeOK
    <3> QED BY <2>2, <3>1 DEF Tick, LimiterTypeOK
  <2>3. CASE SpawnFails \/ WakeUp \/ UNCHANGED limiterVars
    <3>1. wake' \in Nat /\ pc' \in {"running", "asleep"}
      BY <2>3 DEF SpawnFails, WakeUp, limiterVars, LimiterTypeOK
    <3>2. UNCHANGED <<now, history, delay, restarts>>
      BY <2>3 DEF SpawnFails, WakeUp, limiterVars
    <3> QED BY <3>1, <3>2 DEF LimiterTypeOK
  <2> QED BY <2>1, <2>2, <2>3 DEF LimiterNext
<1> QED BY <1>1, <1>2, PTL DEF LimiterSpec

\* What the queue still knows: everything of the last window that was
\* recorded once a cutoff existed, and nothing older than that window.
QueueInv ==
  /\ delay = DelayFor(Cardinality(history))
  /\ \A r \in restarts :
       r - Window >= Floor /\ (\A s \in restarts : s - Window <= r) => r \in history
  /\ \A h \in history, s \in restarts : s - Window <= h

\* Popping from the front keeps exactly the last window, given a cutoff.
LEMMA QueueInvariant == LimiterSpec => []QueueInv
<1>1. LimiterInit => QueueInv
  <2> SUFFICES ASSUME LimiterInit PROVE QueueInv
    OBVIOUS
  <2>1. Cardinality(history) = 0
    BY FS_EmptySet DEF LimiterInit
  <2> QED BY <2>1 DEF LimiterInit, QueueInv, DelayFor
<1>2. LimiterTypeOK /\ QueueInv /\ [LimiterNext]_limiterVars => QueueInv'
  <2> SUFFICES ASSUME LimiterTypeOK, QueueInv, [LimiterNext]_limiterVars PROVE QueueInv'
    OBVIOUS
  <2>1. CASE RecordAndSleep
    <3>1. /\ history' = Recorded /\ restarts' = restarts \union {now}
          /\ delay' = DelayFor(Cardinality(history'))
      BY <2>1 DEF RecordAndSleep
    <3>2. /\ now \in Int /\ cutoff \in Int /\ cutoff <= now /\ cutoff >= now - Window
          /\ now - Window >= Floor => cutoff = now - Window
          /\ \A r \in restarts : r \in Int /\ r <= now
      BY DEF LimiterTypeOK, cutoff
    <3>3. ASSUME NEW r \in restarts', r - Window >= Floor,
                 \A s \in restarts' : s - Window <= r
          PROVE  r \in history'
      <4>1. r \in Int /\ r <= now /\ now - Window <= r
        BY <3>1, <3>2, <3>3
      <4>2. r >= cutoff
        BY <3>2, <3>3, <4>1
      <4>3. r = now \/ r \in history
        BY <3>1, <3>3 DEF QueueInv
      <4> QED BY <3>1, <4>2, <4>3 DEF Recorded
    <3>4. ASSUME NEW h \in history', NEW s \in restarts' PROVE s - Window <= h
      <4>1. h >= cutoff /\ h \in Int /\ s \in Int /\ s <= now
        BY <3>1, <3>2 DEF Recorded, LimiterTypeOK
      <4> QED BY <3>2, <4>1
    <3>5. QueueInv' = (/\ delay' = DelayFor(Cardinality(history'))
                       /\ \A r \in restarts' :
                            r - Window >= Floor /\ (\A s \in restarts' : s - Window <= r)
                            => r \in history'
                       /\ \A h \in history', s \in restarts' : s - Window <= h)
      BY DEF QueueInv, DelayFor
    <3> QED BY <3>1, <3>3, <3>4, <3>5
  <2>2. CASE Tick \/ SpawnFails \/ WakeUp \/ UNCHANGED limiterVars
    BY <2>2 DEF Tick, SpawnFails, WakeUp, limiterVars, QueueInv, DelayFor
  <2> QED BY <2>1, <2>2 DEF LimiterNext
<1> QED BY <1>1, <1>2, LimiterTypeCorrect, PTL DEF LimiterSpec

\* Two windows after boot the limiter backs off exactly in a crash loop.
THEOREM LimitIsExact == LimiterSpec => []LimitExact
<1>1. LimiterTypeOK /\ QueueInv => LimitExact
  <2> SUFFICES ASSUME LimiterTypeOK, QueueInv, NEW t \in restarts, Latest(t), t - 2 * Window >= Floor
               PROVE  delay = IF CrashLoop(t) THEN BackoffDelay ELSE NormalDelay
    BY DEF LimitExact
  <2>1. \A r \in restarts : r \in Int /\ r <= t
    BY DEF LimiterTypeOK, Latest
  <2>2. ASSUME NEW r \in InWindow(t) PROVE r \in history
    <3>1. r \in restarts /\ t - Window <= r
      BY DEF InWindow
    <3>2. r - Window >= Floor
      BY <2>1, <3>1
    <3>3. \A s \in restarts : s - Window <= r
      BY <2>1, <3>1
    <3> QED BY <3>1, <3>2, <3>3 DEF QueueInv
  <2>3. ASSUME NEW r \in history PROVE r \in InWindow(t)
    BY <2>1 DEF InWindow, QueueInv, LimiterTypeOK
  <2>4. history = InWindow(t)
    BY <2>2, <2>3
  <2> QED BY <2>4 DEF QueueInv, DelayFor, CrashLoop
<1> QED BY <1>1, LimiterTypeCorrect, QueueInvariant, PTL

\* A service that does not crash too often never waits for backoff_delay.
THEOREM BackoffIsJustified == LimiterSpec => []NoFalseBackoff
<1>1. LimiterTypeOK /\ QueueInv => NoFalseBackoff
  <2> SUFFICES ASSUME LimiterTypeOK, QueueInv, NEW t \in restarts, Latest(t), ~CrashLoop(t)
               PROVE  delay = NormalDelay
    BY DEF NoFalseBackoff
  <2>1. history \subseteq InWindow(t)
    BY DEF InWindow, QueueInv, LimiterTypeOK, Latest
  <2>2. IsFiniteSet(0 .. now)
    BY FS_Interval DEF LimiterTypeOK
  <2>3. IsFiniteSet(InWindow(t))
    <3>1. InWindow(t) \subseteq 0 .. now
      BY DEF InWindow, LimiterTypeOK
    <3> QED BY <2>2, <3>1, FS_Subset
  <2>4. /\ Cardinality(history) <= Cardinality(InWindow(t))
        /\ IsFiniteSet(history)
    BY <2>1, <2>3, FS_Subset
  <2>5. Cardinality(history) \in Nat /\ Cardinality(InWindow(t)) \in Nat
    BY <2>3, <2>4, FS_CardinalityType
  <2>6. ~(Cardinality(history) > MaxRestarts)
    BY <2>4, <2>5 DEF CrashLoop
  <2> QED BY <2>6 DEF QueueInv, DelayFor
<1> QED BY <1>1, LimiterTypeCorrect, QueueInvariant, PTL

-----------------------------------------------------------------------------
(* The rate of a crash loop *)

\* The delay has passed since every recorded restart when the service runs
\* again, and will have passed when the sleep ends.
SpacingInv ==
  \A r \in restarts :
    /\ pc = "running" => r + delay <= now
    /\ pc = "asleep" => r + delay <= wake

\* The watchdog never restarts the service before the delay is over.
LEMMA Spacing == LimiterSpec => []SpacingInv
<1>1. LimiterInit => SpacingInv
  BY DEF LimiterInit, SpacingInv
<1>2. LimiterTypeOK /\ LimiterTypeOK' /\ SpacingInv /\ [LimiterNext]_limiterVars => SpacingInv'
  <2> SUFFICES ASSUME LimiterTypeOK, LimiterTypeOK', SpacingInv, [LimiterNext]_limiterVars PROVE SpacingInv'
    OBVIOUS
  <2> USE DEF LimiterTypeOK, SpacingInv
  <2>1. CASE Tick
    BY <2>1 DEF Tick
  <2>2. CASE RecordAndSleep
    <3>1. /\ restarts' = restarts \union {now} /\ pc' = "asleep"
          /\ wake' = now + delay' /\ delay' \in Int
      BY <2>2 DEF RecordAndSleep
    <3>2. \A r \in restarts' : r \in Int /\ r <= now
      BY <3>1
    <3>3. \A r \in restarts' : r + delay' <= wake'
      <4>1. ASSUME NEW r \in Int, NEW t \in Int, NEW d \in Int, r <= t PROVE r + d <= t + d
        BY <4>1
      <4>2. now \in Int
        OBVIOUS
      <4> QED BY <3>1, <3>2, <4>1, <4>2
    <3> QED BY <3>1, <3>3
  <2>3. CASE SpawnFails
    BY <2>3 DEF SpawnFails
  <2>4. CASE WakeUp
    BY <2>4 DEF WakeUp
  <2>5. CASE UNCHANGED limiterVars
    BY <2>5 DEF limiterVars
  <2> QED BY <2>1, <2>2, <2>3, <2>4, <2>5 DEF LimiterNext
<1> QED BY <1>1, <1>2, LimiterTypeCorrect, PTL DEF LimiterSpec

\* The restarts of the window that begins at t.
Looping(t) == {r \in restarts : t <= r /\ r <= t + Window}

\* The least time from the first to the last of k restarts of one window.
Span(k) ==
  IF k <= MaxRestarts + 1
  THEN (k - 1) * NormalDelay
  ELSE MaxRestarts * NormalDelay + (k - 1 - MaxRestarts) * BackoffDelay

\* One more restart takes one more delay.
LEMMA SpanStep ==
  ASSUME NEW k \in Nat \ {0}, NEW d \in Nat, d \in {NormalDelay, BackoffDelay},
         k > MaxRestarts => d = BackoffDelay
  PROVE  /\ Span(k) \in Int
         /\ Span(k + 1) <= Span(k) + d
<1> DEFINE N == NormalDelay
<1> DEFINE B == BackoffDelay
<1>1. N \in Nat /\ B \in Nat /\ N <= B /\ MaxRestarts \in Nat
  BY DelayAssumption
<1>2. N <= d
  BY <1>1
<1>3. ASSUME NEW i \in Int, NEW c \in Int PROVE i * c \in Int /\ (i + 1) * c = i * c + c
  BY <1>3
<1>4. CASE k <= MaxRestarts
  <2>1. Span(k) = (k - 1) * N /\ Span(k + 1) = ((k - 1) + 1) * N
    BY <1>1, <1>4 DEF Span
  <2>2. (k - 1) * N \in Int /\ ((k - 1) + 1) * N = (k - 1) * N + N
    BY <1>1, <1>3
  <2> QED BY <1>1, <1>2, <2>1, <2>2
<1>5. CASE k = MaxRestarts + 1
  <2>1. Span(k) = MaxRestarts * N /\ Span(k + 1) = MaxRestarts * N + 1 * B
    BY <1>1, <1>5 DEF Span
  <2>2. MaxRestarts * N \in Int /\ 1 * B = B /\ d = B
    BY <1>1, <1>3, <1>5
  <2> QED BY <1>1, <2>1, <2>2
<1>6. CASE k > MaxRestarts + 1
  <2> DEFINE j == k - 1 - MaxRestarts
  <2>1. Span(k) = MaxRestarts * N + j * B /\ Span(k + 1) = MaxRestarts * N + (j + 1) * B
    BY <1>1, <1>6 DEF Span
  <2>2. j \in Int /\ d = B
    BY <1>1, <1>6
  <2>3. MaxRestarts * N \in Int /\ j * B \in Int /\ (j + 1) * B = j * B + B
    <3> HIDE DEF j
    <3> QED BY <1>1, <1>3, <2>2
  <2> HIDE DEF j
  <2> QED BY <1>1, <2>1, <2>2, <2>3
<1> QED BY <1>1, <1>4, <1>5, <1>6

\* Only finitely many restarts have happened.
LEMMA FiniteRestarts ==
  ASSUME LimiterTypeOK, NEW S \in SUBSET restarts
  PROVE  IsFiniteSet(S)
<1>1. IsFiniteSet(0 .. now)
  BY FS_Interval DEF LimiterTypeOK
<1>2. S \subseteq 0 .. now
  BY DEF LimiterTypeOK
<1> QED BY <1>1, <1>2, FS_Subset

LEMMA FiniteLoop == ASSUME LimiterTypeOK, NEW t PROVE IsFiniteSet(Looping(t))
BY FiniteRestarts DEF Looping

\* As many restarts as a window that a cutoff covers holds lie that far apart.
RateInv ==
  \A t \in Nat :
    t - Window >= Floor /\ Looping(t) # {}
    => \E r \in Looping(t) : r - t >= Span(Cardinality(Looping(t)))

\* Every restart of a window but the first waited for the delay that the ones
\* before it called for.
LEMMA Rate == LimiterSpec => []RateInv
<1>1. LimiterInit => RateInv
  BY DEF LimiterInit, RateInv, Looping
<1>2. LimiterTypeOK /\ QueueInv /\ SpacingInv /\ RateInv /\ [LimiterNext]_limiterVars => RateInv'
  <2> SUFFICES ASSUME LimiterTypeOK, QueueInv, SpacingInv, RateInv, [LimiterNext]_limiterVars PROVE RateInv'
    OBVIOUS
  <2>1. CASE RecordAndSleep
    <3>1. restarts' = restarts \union {now} /\ pc = "running"
      BY <2>1 DEF RecordAndSleep
    <3> SUFFICES ASSUME NEW t \in Nat, t - Window >= Floor, Looping(t)' # {}
                 PROVE  \E r \in Looping(t)' : r - t >= Span(Cardinality(Looping(t)'))
      BY DEF RateInv, Span
    <3>2. CASE ~(t <= now /\ now <= t + Window)
      <4>1. Looping(t)' = Looping(t)
        BY <3>1, <3>2 DEF Looping
      <4> QED BY <4>1 DEF RateInv
    <3>3. CASE t <= now /\ now <= t + Window
      <4>1. Looping(t)' = Looping(t) \union {now} /\ now \in Looping(t)'
        BY <3>1, <3>3 DEF Looping
      <4>2. now \notin Looping(t)
        BY <3>1 DEF Looping, SpacingInv, LimiterTypeOK
      <4>3. IsFiniteSet(Looping(t))
        BY FiniteLoop
      <4> DEFINE k == Cardinality(Looping(t))
      <4>4. k \in Nat /\ Cardinality(Looping(t)') = k + 1
        BY <4>1, <4>2, <4>3, FS_AddElement, FS_CardinalityType
      <4>5. CASE Looping(t) = {}
        <5>1. Cardinality(Looping(t)') = 1
          BY <4>4, <4>5, FS_EmptySet
        <5>2. Span(1) = 0
          BY DEF Span
        <5>3. now - t >= 0
          BY <3>3 DEF LimiterTypeOK
        <5> QED BY <4>1, <5>1, <5>2, <5>3
      <4>6. CASE Looping(t) # {}
        <5>1. PICK r \in Looping(t) : r - t >= Span(k)
          BY <4>6 DEF RateInv
        <5>2. k # 0
          BY <4>3, <4>6, FS_EmptySet
        <5>3. r \in Int /\ r + delay <= now /\ now \in Nat /\ delay \in Nat
          BY <3>1, <5>1 DEF Looping, SpacingInv, LimiterTypeOK
        <5>4. k > MaxRestarts => delay = BackoffDelay
          <6>1. ASSUME NEW x \in Looping(t) PROVE x \in history
            <7>1. x \in restarts /\ x \in Int /\ t <= x
              BY DEF Looping, LimiterTypeOK
            <7>2. x - Window >= Floor
              BY <7>1
            <7>3. \A y \in restarts : y - Window <= x
              BY <3>3, <7>1 DEF LimiterTypeOK
            <7> QED BY <7>1, <7>2, <7>3 DEF QueueInv
          <6>2. IsFiniteSet(history)
            BY FiniteRestarts DEF LimiterTypeOK
          <6>3. k <= Cardinality(history) /\ Cardinality(history) \in Nat
            BY <6>1, <6>2, FS_Subset, FS_CardinalityType
          <6> QED BY <4>4, <6>3 DEF QueueInv, DelayFor
        <5>5. Span(k) \in Int /\ Span(k + 1) <= Span(k) + delay
          <6>1. k \in Nat \ {0} /\ delay \in {NormalDelay, BackoffDelay}
            BY <4>4, <5>2 DEF LimiterTypeOK
          <6> HIDE DEF k
          <6> QED BY <5>3, <5>4, <6>1, SpanStep
        <5>6. Span(k + 1) \in Int
          <6>1. k \in Int
            BY <4>4
          <6> HIDE DEF k
          <6> QED BY <6>1 DEF Span
        <5>7. now - t >= Span(k + 1)
          <6> HIDE DEF k
          <6> QED BY <5>1, <5>3, <5>5, <5>6
        <5> QED BY <4>1, <4>4, <5>7
      <4> QED BY <4>5, <4>6
    <3> QED BY <3>2, <3>3
  <2>2. CASE Tick \/ SpawnFails \/ WakeUp \/ UNCHANGED limiterVars
    <3>1. restarts' = restarts
      BY <2>2 DEF Tick, SpawnFails, WakeUp, limiterVars
    <3> QED BY <3>1 DEF RateInv, Looping
  <2> QED BY <2>1, <2>2 DEF LimiterNext
<1> QED BY <1>1, <1>2, LimiterTypeCorrect, QueueInvariant, Spacing, PTL DEF LimiterSpec

\* What fits as often as j times fits at most as often as the quotient says.
LEMMA Quotient ==
  ASSUME NEW x \in Int, NEW j \in Int, NEW b \in Nat \ {0}, j * b <= x
  PROVE  x \div b \in Int /\ j <= x \div b
<1> DEFINE q == x \div b
<1>1. q \in Int /\ x < (q + 1) * b
  OBVIOUS
<1>2. SUFFICES ASSUME j >= q + 1 PROVE FALSE
  BY <1>1
<1> HIDE DEF q
<1>3. (q + 1) * b <= j * b
  BY <1>1, <1>2
<1> QED BY <1>1, <1>3

\* A crash loop restarts the service at a bounded rate: in any window at most
\* the restarts the limit allows, one more, and one per backoff_delay.
THEOREM CrashLoopIsBounded == LimiterSpec => []RestartRateBounded
<1>1. LimiterTypeOK /\ RateInv => RestartRateBounded
  <2> SUFFICES ASSUME LimiterTypeOK, RateInv, NEW t \in 0 .. now,
                      t - Window >= Floor, MaxRestarts * NormalDelay <= Window
               PROVE  Cardinality(Looping(t))
                        <= MaxRestarts + 1 + (Window - MaxRestarts * NormalDelay) \div BackoffDelay
    BY DEF RestartRateBounded, Looping
  <2> DEFINE k == Cardinality(Looping(t))
  <2> DEFINE room == Window - MaxRestarts * NormalDelay
  <2>1. k \in Nat
    BY FiniteLoop, FS_CardinalityType
  <2>2. room \in Nat
    BY DEF LimiterAssumption
  <2>3. CASE k <= MaxRestarts + 1
    <3>1. 0 * BackoffDelay <= room
      BY <2>2
    <3>2. 0 <= room \div BackoffDelay /\ room \div BackoffDelay \in Int
      <4> HIDE DEF room
      <4> QED BY <2>2, <3>1, Quotient
    <3>3. k <= MaxRestarts + 1 + room \div BackoffDelay
      <4> HIDE DEF k, room
      <4> QED BY <2>1, <2>3, <3>2
    <3> QED BY <3>3
  <2>4. CASE k > MaxRestarts + 1
    <3>1. Looping(t) # {}
      BY <2>4, FS_EmptySet
    <3>2. PICK r \in Looping(t) : r - t >= Span(k)
      BY <3>1 DEF RateInv, LimiterTypeOK
    <3>3. r \in Int /\ r - t <= Window
      BY <3>2 DEF Looping, LimiterTypeOK
    <3> DEFINE j == k - 1 - MaxRestarts
    <3>4. Span(k) = MaxRestarts * NormalDelay + j * BackoffDelay
      <4> HIDE DEF k
      <4> QED BY <2>1, <2>4 DEF Span
    <3>5. j \in Int
      BY <2>1
    <3>6. j * BackoffDelay <= room
      <4>1. j * BackoffDelay \in Int /\ MaxRestarts * NormalDelay \in Int
        BY <3>5
      <4> HIDE DEF j, k
      <4> QED BY <3>2, <3>3, <3>4, <4>1
    <3>7. room \div BackoffDelay \in Int /\ j <= room \div BackoffDelay
      <4> HIDE DEF j, room
      <4> QED BY <2>2, <3>5, <3>6, Quotient
    <3>8. k <= MaxRestarts + 1 + room \div BackoffDelay
      <4> HIDE DEF k, room
      <4> QED BY <2>1, <3>7
    <3> QED BY <3>8
  <2> QED BY <2>1, <2>3, <2>4
<1> QED BY <1>1, LimiterTypeCorrect, Rate, PTL

\* The limiter backs off exactly in a crash loop, and thereby bounds its rate.
THEOREM LimiterIsSound == LimiterSpec => []LimiterSound
BY LimiterTypeCorrect, LimitIsExact, BackoffIsJustified, CrashLoopIsBounded, PTL DEF LimiterSound
=============================================================================
