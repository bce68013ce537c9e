------------------------------ MODULE Watchdog ------------------------------
(***************************************************************************)
(* apps/watchdog: the supervision loop (run_watchdog), the auto-update     *)
(* task (spawn_update_checker with crates/updater) and the status writer,  *)
(* three tasks of one process, together with the service process they      *)
(* supervise, the tray that reads status.json, the release registry and    *)
(* the machine.                                                            *)
(*                                                                         *)
(* A binary is its version; Foreign is a file nobody signed.  A delay is   *)
(* one step: how long the loop sleeps is RestartLimiter's business (module *)
(* RestartLimiter).  The child is not kill_on_drop: one that still runs    *)
(* when the loop lets go of it, or when the watchdog dies, stays behind as *)
(* an orphan.                                                              *)
(***************************************************************************)
EXTENDS Naturals

CONSTANTS
  MaxVersion,   \* bound: versions published
  MaxSwaps,     \* bound: times somebody else replaces the binary
  MaxBoots,     \* bound: reboots
  MaxLost,      \* bound: children left running, since boot
  Pins          \* what integrity_manifest.json may pin: versions, or None

None    == 0    \* no manifest configured
Foreign == 0    \* an unsigned file in the binary's place

ASSUME BoundsAssumption ==
  /\ MaxVersion \in Nat \ {0} /\ MaxSwaps \in Nat /\ MaxBoots \in Nat /\ MaxLost \in Nat
  /\ Pins \subseteq 0 .. MaxVersion

VARIABLES
  disk,             \* version of the service binary on disk
  pinned,           \* version the integrity manifest pins
  latest,           \* version the release registry serves
  mpc,              \* the supervision loop
  alive,            \* the child process runs
  child,            \* the version it was started from
  orphans,          \* services that run without a watchdog waiting for them
  lost,             \* history: children left running, since boot
  service_running,  \* AtomicBool
  shutdown,         \* the shutdown_rx value has changed
  permit,           \* update_ready: a stored notify_one
  upc,              \* the update task
  target,           \* version of the verified update manifest in hand
  current_version,  \* what the update task believes is installed
  status,           \* status.json
  swaps, boots,     \* how often the file was swapped, the machine rebooted
  gap               \* history: the file changed between check and spawn

machineVars == <<pinned, swaps, boots, gap>>
lostVars    == <<orphans, lost>>
loopVars    == <<mpc, alive, child, service_running, lostVars>>
updateVars  == <<upc, target, current_version>>
vars == <<disk, latest, machineVars, loopVars, shutdown, permit, updateVars, status>>

Version   == 0 .. MaxVersion
BuildVersion == 1      \* env!("CARGO_PKG_VERSION") of the watchdog

Init ==
  /\ disk = BuildVersion /\ latest = BuildVersion
  /\ pinned \in Pins
  /\ mpc = "verify" /\ alive = FALSE /\ child = None
  /\ orphans = 0 /\ lost = 0
  /\ service_running = FALSE
  /\ shutdown = FALSE /\ permit = FALSE
  /\ upc = "sleeping" /\ target = None /\ current_version = BuildVersion
  /\ status = "missing"
  /\ swaps = 0 /\ boots = 0 /\ gap = FALSE

Dead == mpc = "dead"
Up   == mpc # "exited" /\ ~Dead

Running(a) == IF a THEN 1 ELSE 0

\* Nobody waits for the child any more, and it runs.
LeaveRunning ==
  /\ alive /\ lost < MaxLost
  /\ alive' = FALSE
  /\ orphans' = orphans + 1 /\ lost' = lost + 1

-----------------------------------------------------------------------------
(* run_watchdog *)

\* The file on disk changes by somebody else's hand than this loop's.
Replace(version) ==
  /\ disk' = version
  /\ gap' = (gap \/ mpc = "spawn")

\* Mutant: a manifest that does not verify is reported and then ignored.
VerifiedAnyway == TRUE

\* verify_service_binary_before_spawn: no manifest, or the one it pins.
Verified == pinned = None \/ disk = pinned

VerifyOk ==
  /\ mpc = "verify" /\ Verified
  /\ mpc' = "spawn" /\ gap' = FALSE
  /\ UNCHANGED <<disk, latest, pinned, swaps, boots, alive, child, lostVars, service_running,
                 shutdown, permit, updateVars, status>>

VerifyFail ==
  /\ mpc = "verify" /\ ~Verified
  /\ mpc' = "sleep" /\ service_running' = FALSE
  /\ UNCHANGED <<disk, latest, machineVars, alive, child, lostVars,
                 shutdown, permit, updateVars, status>>

Spawn ==
  /\ mpc = "spawn"
  /\ mpc' = "select" /\ alive' = TRUE /\ child' = disk /\ service_running' = TRUE
  /\ orphans' = orphans + Running(alive)
  /\ UNCHANGED <<disk, latest, machineVars, lost, shutdown, permit, updateVars, status>>

SpawnError ==
  /\ mpc = "spawn"
  /\ mpc' = "sleep" /\ service_running' = FALSE
  /\ UNCHANGED <<disk, latest, machineVars, alive, child, lostVars,
                 shutdown, permit, updateVars, status>>

\* Mutant: the loop ends with the child.
ChildExitEndsLoop ==
  /\ mpc = "select" /\ ~alive
  /\ mpc' = "exited" /\ service_running' = FALSE
  /\ UNCHANGED <<disk, latest, machineVars, alive, child, lostVars,
                 shutdown, permit, updateVars, status>>

\* select!: child.wait(), with the status or an error
ChildExited ==
  /\ mpc = "select" /\ ~alive
  /\ mpc' = "sleep" /\ service_running' = FALSE
  /\ UNCHANGED <<disk, latest, machineVars, alive, child, lostVars,
                 shutdown, permit, updateVars, status>>

\* child.wait() returns an error while the child runs; or both kill and wait do,
\* whose results the update branch ignores.  The loop goes on as if it had ended.
WaitFails ==
  /\ mpc \in {"select", "killing"} /\ LeaveRunning
  /\ mpc' = "sleep" /\ service_running' = FALSE
  /\ UNCHANGED <<disk, latest, machineVars, child, shutdown, permit, updateVars, status>>

\* select!: update_ready.notified()
UpdateReady ==
  /\ mpc = "select" /\ permit
  /\ permit' = FALSE
  /\ mpc' = "killing"
  /\ UNCHANGED <<disk, latest, machineVars, alive, child, lostVars, service_running,
                 shutdown, updateVars, status>>

\* Mutant: the update branch forgets to kill the child.
KilledNot ==
  /\ mpc = "killing"
  /\ mpc' = "sleep" /\ service_running' = FALSE
  /\ UNCHANGED <<disk, latest, machineVars, alive, child, lostVars, shutdown, permit,
                 updateVars, status>>

\* Mutant: the update branch goes round without clearing the flag.
KilledKeepsFlag ==
  /\ mpc = "killing"
  /\ alive' = FALSE
  /\ mpc' = "sleep"
  /\ UNCHANGED <<disk, latest, machineVars, child, lostVars, service_running, shutdown, permit,
                 updateVars, status>>

\* kill and wait have returned; the flag stays up until here.
Killed ==
  /\ mpc = "killing"
  /\ alive' = FALSE
  /\ mpc' = "sleep" /\ service_running' = FALSE
  /\ UNCHANGED <<disk, latest, machineVars, child, lostVars, shutdown, permit,
                 updateVars, status>>

\* Mutant: the shutdown branch stops the child but does not return.
ShutdownWithoutReturn ==
  /\ mpc = "select" /\ shutdown
  /\ mpc' = "sleep" /\ service_running' = FALSE /\ alive' = FALSE
  /\ UNCHANGED <<disk, latest, machineVars, child, lostVars, shutdown, permit,
                 updateVars, status>>

\* select!: shutdown_rx.changed()
ShutdownSeen ==
  /\ mpc = "select" /\ shutdown
  /\ mpc' = "stopping" /\ service_running' = FALSE
  /\ UNCHANGED <<disk, latest, machineVars, alive, child, lostVars, shutdown, permit,
                 updateVars, status>>

\* kill, wait, return: the process ends and its other tasks with it.
Exit ==
  /\ mpc = "stopping"
  /\ mpc' = "exited" /\ alive' = FALSE
  /\ upc' = "sleeping" /\ permit' = FALSE
  /\ UNCHANGED <<disk, latest, machineVars, child, lostVars, service_running, shutdown,
                 target, current_version, status>>

\* The same errors on the way out.
ExitWithoutKill ==
  /\ mpc = "stopping" /\ LeaveRunning
  /\ mpc' = "exited"
  /\ upc' = "sleeping" /\ permit' = FALSE
  /\ UNCHANGED <<disk, latest, machineVars, child, service_running, shutdown,
                 target, current_version, status>>

\* The delay is over; shutdown_rx is not looked at meanwhile.
Wake ==
  /\ mpc = "sleep"
  /\ mpc' = "verify"
  /\ UNCHANGED <<disk, latest, machineVars, alive, child, lostVars, service_running,
                 shutdown, permit, updateVars, status>>

-----------------------------------------------------------------------------
(* spawn_update_checker *)

\* Mutant: asks for the release after the one the manifest names.
CheckForNextUpdate ==
  /\ Up /\ upc = "sleeping"
  /\ latest > current_version
  /\ upc' = "manifest" /\ target' = latest + 1
  /\ UNCHANGED <<disk, latest, machineVars, loopVars, shutdown, permit,
                 current_version, status>>

\* check_for_update: a signed manifest newer than current_version, or nothing.
CheckForUpdate ==
  /\ Up /\ upc = "sleeping"
  /\ latest > current_version
  /\ upc' = "manifest" /\ target' = latest
  /\ UNCHANGED <<disk, latest, machineVars, loopVars, shutdown, permit,
                 current_version, status>>

\* download_and_verify: the registry serves its latest binary, whose hash
\* must be the manifest's.
DownloadOk ==
  /\ Up /\ upc = "manifest" /\ latest = target
  /\ upc' = "downloaded"
  /\ UNCHANGED <<disk, latest, machineVars, loopVars, shutdown, permit,
                 target, current_version, status>>

\* A network error, a hash that does not match, a rename that fails (as it
\* does on Windows while the file is executing): back to sleep.
UpdateFails ==
  /\ Up /\ upc \in {"manifest", "downloaded"}
  /\ upc' = "sleeping"
  /\ UNCHANGED <<disk, latest, machineVars, loopVars, shutdown, permit,
                 target, current_version, status>>

\* Mutant: the supervision loop is not told.
ApplyWithoutNotify ==
  /\ Up /\ upc = "downloaded"
  /\ Replace(target) /\ current_version' = target
  /\ upc' = "sleeping"
  /\ UNCHANGED <<latest, pinned, swaps, boots, loopVars, shutdown, permit, target, status>>

\* apply_update, then notify_one.
ApplyUpdate ==
  /\ Up /\ upc = "downloaded"
  /\ Replace(target) /\ current_version' = target
  /\ permit' = TRUE
  /\ upc' = "sleeping"
  /\ UNCHANGED <<latest, pinned, swaps, boots, loopVars, shutdown, target, status>>

-----------------------------------------------------------------------------
(* spawn_status_writer, and the tray's read of the file *)

\* Mutant: the file is only written while the service runs.
WriteStatusIfRunning ==
  /\ Up /\ service_running
  /\ status' = "protected"
  /\ UNCHANGED <<disk, latest, machineVars, loopVars, shutdown, permit, updateVars>>

WriteStatus ==
  /\ Up
  /\ status' = IF service_running THEN "protected" ELSE "not_running"
  /\ UNCHANGED <<disk, latest, machineVars, loopVars, shutdown, permit, updateVars>>

TrayShowsProtected == status = "protected"

-----------------------------------------------------------------------------
(* The machine and the registry *)

\* The service crashes or is killed.
ServiceDies ==
  /\ alive
  /\ alive' = FALSE
  /\ UNCHANGED <<disk, latest, machineVars, mpc, child, lostVars, service_running,
                 shutdown, permit, updateVars, status>>

\* An orphan ends.
OrphanDies ==
  /\ orphans > 0
  /\ orphans' = orphans - 1
  /\ UNCHANGED <<disk, latest, machineVars, mpc, alive, child, lost, service_running,
                 shutdown, permit, updateVars, status>>

\* The watchdog itself crashes or is killed; its child is not told.
WatchdogDies ==
  /\ Up
  /\ mpc' = "dead" /\ service_running' = FALSE
  /\ LeaveRunning \/ (~alive /\ UNCHANGED <<alive, lostVars>>)
  /\ upc' = "sleeping" /\ permit' = FALSE
  /\ UNCHANGED <<disk, latest, machineVars, child, shutdown,
                 target, current_version, status>>

\* Somebody, or the service manager, starts it again.
WatchdogStarts ==
  /\ ~Up
  /\ mpc' = "verify"
  /\ shutdown' = FALSE /\ target' = None /\ current_version' = BuildVersion
  /\ UNCHANGED <<disk, latest, machineVars, alive, child, lostVars, service_running,
                 permit, upc, status>>

\* Ctrl+C, or Stop / Shutdown from the service control manager.
RequestShutdown ==
  /\ Up /\ ~shutdown
  /\ shutdown' = TRUE
  /\ UNCHANGED <<disk, latest, machineVars, loopVars, permit, updateVars, status>>

\* A new release is published.
Publish ==
  /\ latest < MaxVersion
  /\ latest' = latest + 1
  /\ UNCHANGED <<disk, machineVars, loopVars, shutdown, permit, updateVars, status>>

\* Something else overwrites the binary.
Swap ==
  /\ swaps < MaxSwaps
  /\ swaps' = swaps + 1
  /\ Replace(Foreign)
  /\ UNCHANGED <<latest, pinned, boots, loopVars, shutdown, permit, updateVars, status>>

\* Power cycle: processes start afresh, files stay.
Reboot ==
  /\ boots < MaxBoots
  /\ boots' = boots + 1
  /\ mpc' = "verify" /\ alive' = FALSE /\ child' = None /\ service_running' = FALSE
  /\ shutdown' = FALSE /\ permit' = FALSE
  /\ upc' = "sleeping" /\ target' = None /\ current_version' = BuildVersion
  /\ gap' = FALSE /\ orphans' = 0 /\ lost' = 0
  /\ UNCHANGED <<disk, latest, pinned, swaps, status>>

-----------------------------------------------------------------------------
Loop == \/ VerifyOk \/ VerifyFail \/ Spawn \/ SpawnError
        \/ ChildExited \/ WaitFails \/ UpdateReady \/ Killed
        \/ ShutdownSeen \/ Exit \/ ExitWithoutKill \/ Wake

Next ==
  \/ Loop
  \/ CheckForUpdate \/ DownloadOk \/ UpdateFails \/ ApplyUpdate
  \/ WriteStatus
  \/ ServiceDies \/ OrphanDies \/ WatchdogDies \/ WatchdogStarts
  \/ RequestShutdown \/ Publish \/ Swap \/ Reboot

\* The loop and the status timer keep running; select! polls its ready
\* branches in random order, so none is passed over for ever; spawning does
\* not fail for ever.  Users, releases and crashes owe nothing.
Fairness ==
  /\ WF_vars(VerifyOk) /\ WF_vars(VerifyFail) /\ WF_vars(Killed)
  /\ WF_vars(Exit) /\ WF_vars(Wake)
  /\ SF_vars(Spawn)
  /\ WF_vars(ChildExited) /\ SF_vars(UpdateReady) /\ SF_vars(ShutdownSeen)
  /\ WF_vars(WriteStatus)

Spec == Init /\ [][Next]_vars /\ Fairness
-----------------------------------------------------------------------------
(* What holds *)

\* Types of the loop, the update task, the files and the registry.
TypeOK ==
  /\ disk \in Version /\ pinned \in Version /\ latest \in Version
  /\ mpc \in {"verify", "spawn", "select", "killing", "sleep", "stopping", "exited", "dead"}
  /\ alive \in BOOLEAN /\ child \in Version
  /\ orphans \in Nat /\ lost \in Nat
  /\ service_running \in BOOLEAN /\ shutdown \in BOOLEAN /\ permit \in BOOLEAN
  /\ upc \in {"sleeping", "manifest", "downloaded"}
  /\ target \in Version /\ current_version \in Version
  /\ status \in {"missing", "protected", "not_running"}
  /\ swaps \in Nat /\ boots \in Nat /\ gap \in BOOLEAN

\* One service runs, and one more for each time since boot that the watchdog let
\* go of one: a wait that failed, or its own death.  Whichever other branch of
\* select! ended the wait, the old child is gone before the next is started.
OneChild == orphans + Running(alive) <= 1 + lost

\* service_running is true only while the loop waits on a child it started
\* or for that child's end, so every other state is reported as not protected.
FlagFollowsLoop == service_running <=> mpc \in {"select", "killing"}

\* With a manifest in place, the child is not what it pins only if
\* the file was replaced between the check and the spawn: neither an update
\* nor a swapped file survives a restart otherwise.
RunsPinnedUnlessReplaced == alive /\ pinned # None /\ child # pinned => gap

\* One service beside those let go of, the pinned one, and a flag that tells of
\* it, through every order of exits, errors, updates, stop requests, deaths and
\* restarts of the watchdog, and replaced files.
OnePinnedService == TypeOK /\ OneChild /\ FlagFollowsLoop /\ RunsPinnedUnlessReplaced

\* A service that died is running again, unless the watchdog is told to stop or
\* dies too.
\* (A manifest that does not verify keeps it down, by design.)
ServiceRecovers ==
  pinned = None => (mpc = "select" /\ ~alive) ~> (alive \/ shutdown \/ Dead)

\* A child that is not what apply_update put on disk is replaced by it,
\* unless somebody overwrites the file again, stops or kills the watchdog, or the
\* child runs on without it.
UpdatePickedUp ==
  pinned = None =>
    (alive /\ child # disk /\ swaps = 0)
      ~> ((alive /\ child = disk) \/ shutdown \/ swaps > 0 \/ Dead)

\* Stop / Shutdown / Ctrl+C ends the watchdog and the service with it; the
\* request is not lost while the loop sleeps, verifies or fails to spawn.
ShutdownHonoured ==
  pinned = None => shutdown ~> (mpc = "exited" \/ ~shutdown \/ Dead)

\* Whatever it is busy with, the supervision loop neither leaves a dead service
\* down, nor an old one running, nor misses a request to stop.
SupervisionLive == ServiceRecovers /\ UpdatePickedUp /\ ShutdownHonoured

\* While the watchdog runs, a file that says protected is corrected once the
\* service is down.
StatusConverges ==
  (TrayShowsProtected /\ ~service_running)
    ~> (~TrayShowsProtected \/ service_running \/ ~Up)

-----------------------------------------------------------------------------
(* What a comment claims and an update refutes *)

\* "so the main supervision loop knows to restart the child and pick up the
\* new binary": also when an integrity manifest is configured.
UpdateSurvivesManifest ==
  (alive /\ child # disk) ~> ((alive /\ child = disk) \/ shutdown \/ Dead)
=============================================================================
