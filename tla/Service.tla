------------------------------- MODULE Service -------------------------------
(***************************************************************************)
(* The life of the service process (apps/service/src/main.rs): how it      *)
(* starts from what it finds on disk and in its environment, what it keeps *)
(* in memory afterwards, and what is left on disk when it dies.            *)
(*                                                                         *)
(* main() is a straight line of steps, each an action here, so that a      *)
(* crash, an administrator's edit or the next day can fall between any two *)
(* of them:                                                                *)
(*                                                                         *)
(*   integrity -> licence -> grace -> config -> audit                      *)
(*             -> ca -> (save_key) -> open_cert -> write_cert              *)
(*             -> bind -> serving                                          *)
(*                                                                         *)
(* The steps ca .. write_cert are those of browser coverage.  The poll of  *)
(* the configuration is a task of its own from the step after `config` on. *)
(* fs::write is two steps, the file emptied and then filled.               *)
(***************************************************************************)
EXTENDS Licensing, FiniteSets

CONSTANTS
  Workloads,      \* what may be found and changed on disk, one record per scenario
  DefaultConfig,  \* AgentConfig::default()
  Here,           \* compute_machine_fingerprint()
  MaxDay, MaxChanges, MaxCrashes

ASSUME BoundAssumption == MaxDay \in Nat

\* A licence file is one of the three kinds of file; what it states is made
\* of a date and of day counts, which chrono adds up without a gap.
ASSUME WorkloadsAssumption ==
  \A w \in Workloads : \A f \in w.licences :
    /\ f.state \in {"absent", "torn", "whole"}
    /\ f.state = "whole" =>
         LET c == f.value.claims
         IN  /\ c.expiry \in Int
             /\ \A o \in {c.grace_period_days, c.issued_at, c.max_offline_days} :
                  o # None => o[1] \in Int

VARIABLES
  work,      \* the scenario, chosen once
  day,       \* Utc::now(), in days
  disk,      \* the files of the data directory, and which of them may fail to be written
  env,       \* the process environment a start reads: the secret, the override and the
             \* listeners whose bind address does not parse (misset)
  taken,     \* listeners that cannot come up: another program has the port, or the
             \* TLS files they are configured with do not load
  pc, mem,   \* the process: its next step and its memory
  nextKey,   \* KeyPair::generate() returns a key nobody has seen
  trusted,   \* roots devices imported from a CA that was to persist
  changes, crashes

vars == <<work, day, disk, env, taken, pc, mem, nextKey, trusted, changes, crashes>>

Absent == [state |-> "absent"]
Torn == [state |-> "torn"]
FileOf(v) == [state |-> "whole", value |-> v]
Whole(f) == f.state = "whole"

BootSteps == {"integrity", "licence", "grace", "config", "audit", "ca", "save_key",
              "open_cert", "write_cert", "bind"}

\* What a process holds before it has read anything; the fields below the
\* line are history.
NoMemory(started, held) ==
  [claims |-> None, source |-> FALSE, current |-> DefaultConfig,
   retention |-> DefaultConfig.retention, upstream |-> DefaultConfig.upstream,
   ca |-> None, persistent |-> FALSE, up |-> {},
   \* -----
   started |-> started,    \* the day of this start
   grace_warned |-> FALSE, \* "license is past its nominal expiry ..." was logged
   drift_warned |-> FALSE, \* "... were NOT applied; restart the service" was logged
   checked_late |-> FALSE, \* the grace window ran out between verify and grace_status
   held |-> held,          \* retention periods the whole file has stated since
   fell_back |-> FALSE]    \* the start found no configuration it could read

Idle == NoMemory(0, {})

\* The listeners tokio::try_join! runs, with and without browser coverage.
Listeners(claims) ==
  {"proxy", "metrics"}
    \cup IF is_enabled(claims, BROWSER_COVERAGE) THEN {"connect_proxy", "local_api"} ELSE {}

Init ==
  /\ work \in Workloads
  /\ day = 0
  /\ disk \in [manifest : {"absent", "matches"}, licence : work.licences,
               config : {Absent} \cup {FileOf(c) : c \in work.configs},
               ca_key : {Absent}, root_cert : {Absent}, failing : {{}}]
  /\ env \in [secret : work.secrets, retention : work.overrides, misset : {{}}]
  /\ taken = {}
  /\ pc = "down" /\ mem = Idle
  /\ nextKey = 1 /\ trusted = {}
  /\ changes = 0 /\ crashes = 0

world == <<work, day, env, taken, nextKey, trusted, changes, crashes>>

\* The process is gone and takes its memory and its listeners with it: an
\* error out of main(), process::exit, or a crash.
Exit == pc' = "down" /\ mem' = Idle

Goto(step, m) == pc' = step /\ mem' = m

-----------------------------------------------------------------------------
(* main(), step by step *)

Start ==
  /\ pc = "down"
  /\ Goto("integrity", NoMemory(day, IF Whole(disk.config) THEN {disk.config.value.retention} ELSE {}))
  /\ UNCHANGED <<disk, world>>

\* verify_integrity: no manifest is no check, one that does not match the
\* binary (or cannot be read, or has no key to check it) ends the process.
verify_integrity ==
  /\ pc = "integrity"
  /\ IF disk.manifest = "differs" THEN Exit ELSE Goto("licence", mem)
  /\ UNCHANGED <<disk, world>>

\* load_license, up to `verify`: a licence that is missing, unreadable or
\* rejected leaves the agent unlicensed, never down.
load_license ==
  /\ pc = "licence"
  /\ LET valid == Whole(disk.licence) /\ verify(disk.licence.value, Here, day) = "Ok"
     IN  Goto("grace", [mem EXCEPT !.claims = IF valid THEN Some(disk.licence.value.claims) ELSE None])
  /\ UNCHANGED <<disk, world>>

\* load_license, the warning: the clock is read a second time.
WarnOfGrace ==
  /\ pc = "grace"
  /\ LET status == IF mem.claims = None THEN "" ELSE grace_status(mem.claims[1], day)
     IN  Goto("config", [mem EXCEPT !.grace_warned = (status = "InGrace"),
                                    !.checked_late = (status = "GracePeriodElapsed")])
  /\ UNCHANGED <<disk, world>>

\* Mutant: a half-written file is read as one that sets nothing.
TornMeansDefaults(file) ==
  IF Whole(file) THEN Some(file.value) ELSE Some(DefaultConfig)

\* fetch_config: a file that is missing or does not parse is an error.
fetch_config(file) == IF Whole(file) THEN Some(file.value) ELSE None

\* Mutant: a configuration that cannot be read ends the start.
LoadConfigOrExit ==
  /\ pc = "config"
  /\ LET source  == disk.config # Absent
         fetched == IF source THEN fetch_config(disk.config) ELSE Some(DefaultConfig)
     IN  IF fetched = None THEN Exit
         ELSE Goto("audit", [mem EXCEPT !.source = source, !.current = fetched[1],
                                        !.upstream = fetched[1].upstream,
                                        !.retention = fetched[1].retention,
                                        !.fell_back = ~source])
  /\ UNCHANGED <<disk, world>>

\* The configuration manager's first read.  A file that is not there now is
\* never looked for again; one that cannot be read counts as the defaults,
\* and the poll starts from those.  The environment wins over the file.
LoadConfig ==
  /\ pc = "config"
  /\ LET source  == disk.config # Absent
         fetched == IF source THEN fetch_config(disk.config) ELSE None
         initial == IF fetched = None THEN DefaultConfig ELSE fetched[1]
     IN  Goto("audit", [mem EXCEPT !.source = source, !.current = initial,
                                   !.upstream = initial.upstream,
                                   !.retention = IF env.retention = None THEN initial.retention
                                                                         ELSE env.retention[1],
                                   !.fell_back = (fetched = None)])
  /\ UNCHANGED <<disk, world>>

\* init_audit_storage: the start goes on whether or not the database opens
\* (AuditLog models what happens inside it). Then two bind addresses are
\* parsed, `?` each, and browser coverage follows if the licence has it.
init_audit_storage ==
  /\ pc = "audit"
  /\ IF env.misset \cap {"proxy", "metrics"} # {} THEN Exit
     ELSE Goto(IF is_enabled(mem.claims, BROWSER_COVERAGE) THEN "ca" ELSE "bind", mem)
  /\ UNCHANGED <<disk, world>>

\* fs::write fails, before it has emptied the file or after: an error out of
\* main().
WriteFails(file) == file \in disk.failing /\ Exit /\ UNCHANGED <<disk, world>>

NewCa(persistent) == [mem EXCEPT !.ca = Some(nextKey), !.persistent = persistent]

Generate ==
  /\ nextKey' = nextKey + 1
  /\ UNCHANGED <<work, day, env, taken, trusted, changes, crashes>>

\* load_connect_proxy_ca without a secret: a root for this process only.
EphemeralCa ==
  /\ env.secret = None
  /\ Goto("open_cert", NewCa(FALSE)) /\ Generate
  /\ UNCHANGED disk

\* load_or_generate with no key file: a new key, and the file created empty.
CreateCa ==
  /\ env.secret # None /\ disk.ca_key = Absent
  /\ \/ /\ Goto("save_key", NewCa(TRUE)) /\ Generate
        /\ disk' = [disk EXCEPT !.ca_key = Torn]
     \/ WriteFails("ca_key")

Decrypts(file, secret) == Whole(file) /\ file.value.secret = secret

\* Mutant: a key file that cannot be used is replaced by a new one.
LoadCaSelfHeals ==
  /\ env.secret # None /\ disk.ca_key # Absent
  /\ IF Decrypts(disk.ca_key, env.secret)
     THEN /\ Goto("open_cert", [mem EXCEPT !.ca = Some(disk.ca_key.value.key), !.persistent = TRUE])
          /\ UNCHANGED <<disk, world>>
     ELSE /\ Goto("save_key", NewCa(TRUE)) /\ Generate
          /\ disk' = [disk EXCEPT !.ca_key = Torn]

\* load_or_generate with one: the key it holds, or an error out of main() if
\* it is empty, cut short or encrypted under another secret.
LoadCa ==
  /\ env.secret # None /\ disk.ca_key # Absent
  /\ IF Decrypts(disk.ca_key, env.secret)
     THEN Goto("open_cert", [mem EXCEPT !.ca = Some(disk.ca_key.value.key), !.persistent = TRUE])
     ELSE Exit
  /\ UNCHANGED <<disk, world>>

\* Browser coverage begins with the CONNECT proxy's bind address.
BadAddress == "connect_proxy" \in env.misset /\ Exit /\ UNCHANGED <<disk, world>>

load_connect_proxy_ca ==
  /\ pc = "ca"
  /\ BadAddress \/ ("connect_proxy" \notin env.misset /\ (EphemeralCa \/ CreateCa \/ LoadCa))

\* A write that fails here leaves the key file empty.
save_encrypted_key ==
  /\ pc = "save_key"
  /\ \/ /\ disk' = [disk EXCEPT !.ca_key = FileOf([key |-> mem.ca[1], secret |-> env.secret])]
        /\ Goto("open_cert", mem)
        /\ UNCHANGED world
     \/ WriteFails("ca_key")

\* Mutant: a certificate that is already there is left alone.
KeepOldCert ==
  /\ pc = "open_cert"
  /\ IF Whole(disk.root_cert)
     THEN Goto("bind", mem) /\ UNCHANGED disk
     ELSE Goto("write_cert", mem) /\ disk' = [disk EXCEPT !.root_cert = Torn]
  /\ UNCHANGED world

\* fs::write of the root certificate, for administrators to distribute.
OpenCert ==
  /\ pc = "open_cert"
  /\ \/ /\ disk' = [disk EXCEPT !.root_cert = Torn]
        /\ Goto("write_cert", mem)
        /\ UNCHANGED world
     \/ WriteFails("root_cert")

\* The local API's bind address is parsed after it.
WriteCert ==
  /\ pc = "write_cert"
  /\ \/ /\ disk' = [disk EXCEPT !.root_cert = FileOf([key |-> mem.ca[1], persistent |-> mem.persistent])]
        /\ IF "local_api" \in env.misset THEN Exit ELSE Goto("bind", mem)
        /\ UNCHANGED world
     \/ WriteFails("root_cert")

\* Mutant: the listeners of browser coverage come up whatever the licence says.
BindEverything ==
  /\ pc = "bind"
  /\ \E l \in {"proxy", "metrics", "connect_proxy", "local_api"} \ mem.up :
       IF l \in taken THEN Exit
       ELSE LET m == [mem EXCEPT !.up = @ \cup {l}]
            IN  Goto(IF Cardinality(m.up) = 4 THEN "serving" ELSE "bind", m)
  /\ UNCHANGED <<disk, world>>

\* tokio::try_join!: each server loads its TLS files, if it has any, and binds
\* its port; the first that cannot ends the others and the process.
Bind ==
  /\ pc = "bind"
  /\ \E l \in Listeners(mem.claims) \ mem.up :
       IF l \in taken THEN Exit
       ELSE LET m == [mem EXCEPT !.up = @ \cup {l}]
            IN  Goto(IF m.up = Listeners(m.claims) THEN "serving" ELSE "bind", m)
  /\ UNCHANGED <<disk, world>>

-----------------------------------------------------------------------------
(* spawn_hot_reload *)

Polling == mem.source /\ pc \in {"audit", "ca", "save_key", "open_cert", "write_cert", "bind", "serving"}

\* Mutant: the poll remembers the new configuration without applying it.
ReloadWithoutStore ==
  /\ Polling
  /\ LET fetched == fetch_config(disk.config)
     IN  /\ fetched # None
         /\ fetched[1] # mem.current
         /\ mem' = [mem EXCEPT !.current = fetched[1],
                               !.drift_warned = @ \/ fetched[1].upstream # mem.current.upstream]
  /\ UNCHANGED <<pc, disk, world>>

\* Mutant: the warning is left to a change of something that was applied.
ReloadWarnsOfRetention ==
  /\ Polling
  /\ LET fetched == fetch_config(disk.config)
     IN  /\ fetched # None
         /\ fetched[1] # mem.current
         /\ mem' = [mem EXCEPT !.current = fetched[1],
                               !.retention = IF fetched[1].retention # mem.current.retention
                                             THEN fetched[1].retention ELSE @,
                               !.drift_warned = @ \/ fetched[1].retention # mem.current.retention]
  /\ UNCHANGED <<pc, disk, world>>

\* One round of the poll that finds a change: the retention period is stored,
\* the load-once settings (here: the upstream) are only warned about, and the
\* file becomes what the next round compares with.  main() passes no MCP
\* firewall, so a new tool policy has nothing to be applied to.
Reload ==
  /\ Polling
  /\ LET fetched == fetch_config(disk.config)
     IN  /\ fetched # None
         /\ fetched[1] # mem.current
         /\ mem' = [mem EXCEPT !.current = fetched[1],
                               !.retention = IF fetched[1].retention # mem.current.retention
                                             THEN fetched[1].retention ELSE @,
                               !.drift_warned = @ \/ fetched[1].upstream # mem.current.upstream]
  /\ UNCHANGED <<pc, disk, world>>

-----------------------------------------------------------------------------
(* The world around the process *)

Crash ==
  /\ pc # "down" /\ crashes < MaxCrashes
  /\ Exit
  /\ crashes' = crashes + 1
  /\ UNCHANGED <<work, day, disk, env, taken, nextKey, trusted, changes>>

\* Days only matter where licences do.
Tick ==
  /\ day < MaxDay /\ Cardinality(work.licences) > 1
  /\ day' = day + 1
  /\ UNCHANGED <<work, disk, env, taken, pc, mem, nextKey, trusted, changes, crashes>>

Changed == changes < MaxChanges /\ changes' = changes + 1

\* A licence is installed, renewed or removed.
InstallLicence ==
  /\ Changed
  /\ \E l \in work.licences \ {disk.licence} : disk' = [disk EXCEPT !.licence = l]
  /\ UNCHANGED <<work, day, env, taken, pc, mem, nextKey, trusted, crashes>>

\* An editor saves config.json: the file is torn until it is whole again.
BeginEdit ==
  /\ Changed
  /\ work.configs # {} /\ disk.config # Torn
  /\ disk' = [disk EXCEPT !.config = Torn]
  /\ UNCHANGED <<work, day, env, taken, pc, mem, nextKey, trusted, crashes>>

EndEdit ==
  /\ disk.config = Torn
  /\ \E c \in work.configs :
       /\ disk' = [disk EXCEPT !.config = FileOf(c)]
       /\ mem' = [mem EXCEPT !.held = @ \cup IF pc = "down" THEN {} ELSE {c.retention}]
  /\ UNCHANGED <<work, day, env, taken, pc, nextKey, trusted, changes, crashes>>

\* The environment of the next start.
SetSecret ==
  /\ Changed /\ pc = "down"
  /\ \E s \in work.secrets \ {env.secret} : env' = [env EXCEPT !.secret = s]
  /\ UNCHANGED <<work, day, disk, taken, pc, mem, nextKey, trusted, crashes>>

\* A device imports the certificate it finds.
TrustRoot ==
  /\ Whole(disk.root_cert) /\ disk.root_cert.value.persistent
  /\ disk.root_cert.value.key \notin trusted
  /\ trusted' = trusted \cup {disk.root_cert.value.key}
  /\ UNCHANGED <<work, day, disk, env, taken, pc, mem, nextKey, changes, crashes>>

\* The binary is replaced without its manifest, or the manifest follows.
ReplaceBinary ==
  /\ Changed /\ work.ports
  /\ disk.manifest # "absent"
  /\ disk' = [disk EXCEPT !.manifest = IF @ = "matches" THEN "differs" ELSE "matches"]
  /\ UNCHANGED <<work, day, env, taken, pc, mem, nextKey, trusted, crashes>>

\* Another program takes a port or leaves it; TLS files are spoilt or mended.
UsePort ==
  /\ Changed /\ work.ports
  /\ \E l \in {"metrics", "local_api"} \ mem.up :
       taken' = IF l \in taken THEN taken \ {l} ELSE taken \cup {l}
  /\ UNCHANGED <<work, day, disk, env, pc, mem, nextKey, trusted, crashes>>

\* Bind addresses of the next start are set, rightly or wrongly.
SetAddresses ==
  /\ Changed /\ pc = "down"
  /\ \E a \in work.addresses \ {env.misset} : env' = [env EXCEPT !.misset = a]
  /\ UNCHANGED <<work, day, disk, taken, pc, mem, nextKey, trusted, crashes>>

\* The disk fills up or has room again, permissions change.
ChangeDisk ==
  /\ Changed
  /\ \E f \in work.failures \ {disk.failing} : disk' = [disk EXCEPT !.failing = f]
  /\ UNCHANGED <<work, day, env, taken, pc, mem, nextKey, trusted, crashes>>

Boot == \/ verify_integrity \/ load_license \/ WarnOfGrace \/ LoadConfig \/ init_audit_storage
        \/ load_connect_proxy_ca \/ save_encrypted_key \/ OpenCert \/ WriteCert \/ Bind

World == \/ Crash \/ Tick \/ InstallLicence \/ BeginEdit \/ EndEdit \/ SetSecret \/ TrustRoot
         \/ ReplaceBinary \/ UsePort \/ SetAddresses \/ ChangeDisk

Next == Start \/ Boot \/ Reload \/ World

\* main() and the poll run whenever they can; the watchdog starts the service
\* again whenever it finds it down.  Nobody has to finish an edit.
Fairness == WF_vars(Start) /\ WF_vars(Boot) /\ WF_vars(Reload)

Spec == Init /\ [][Next]_vars
FairSpec == Spec /\ Fairness

-----------------------------------------------------------------------------
(* Properties *)

\* Every file, step and field holds what it is meant to; the listeners that
\* are up are ones the licence in memory turns on, and all of them once the
\* process serves.
TypeOK ==
  /\ day \in 0 .. MaxDay
  /\ pc \in BootSteps \cup {"down", "serving"}
  /\ disk.manifest \in {"absent", "matches", "differs"}
  /\ \A f \in {"licence", "config", "ca_key", "root_cert"} : disk[f].state \in {"absent", "torn", "whole"}
  /\ trusted \subseteq 1 .. nextKey - 1
  /\ mem.up \subseteq Listeners(mem.claims)
  /\ pc = "serving" => mem.up = Listeners(mem.claims)

\* With the secret configured, the root that browsers are shown stays the one
\* devices were told to trust, whatever crashes, edits and changes of the
\* secret came between: "the same root CA (and thus the same device trust)
\* across restarts" (load_connect_proxy_ca, load_or_generate).
RootStable ==
  pc = "serving" /\ mem.persistent => trusted \subseteq {mem.ca[1]}

\* The certificate file offered to administrators is the root this process
\* signs with, also after a process with another root was here before it.
PublishedRootIsServed ==
  pc = "serving" /\ mem.ca # None
    => disk.root_cert = FileOf([key |-> mem.ca[1], persistent |-> mem.persistent])

\* A process that has licensed features was started while the licence was
\* good: inside its expiry and grace, inside its lease, on its machine.
LicensedWhenStarted ==
  mem.claims # None =>
    LET c == mem.claims[1]
        deadlines == {c.expiry + n : n \in IF c.grace_period_days = None THEN {0} ELSE {c.grace_period_days[1]}}
                      \cup IF c.issued_at # None /\ c.max_offline_days # None
                           THEN {c.issued_at[1] + c.max_offline_days[1]} ELSE {}
    IN  /\ \A d \in deadlines : mem.started <= d
        /\ c.machine_fingerprint # None => c.machine_fingerprint[1] = Here

\* A customer who was already on borrowed time at the start is told so in the
\* log, unless the whole grace period ended between the two readings of the
\* clock in load_license.
BorrowedTimeIsAnnounced ==
  /\ mem.claims # None
  /\ pc \notin {"down", "integrity", "licence", "grace"}
  /\ mem.started > mem.claims[1].expiry
  => mem.grace_warned \/ mem.checked_late

\* The retention period in force was stated by somebody: by the environment,
\* by a whole configuration file since this start, or by the defaults when the
\* start found nothing to read.  A file caught half-written never changes it.
\* A file that changes does, also where the environment had fixed the period:
\* see EnvironmentWins.
RetentionIsChosen ==
  pc \notin {"down", "integrity", "licence", "grace", "config"} =>
    mem.retention \in mem.held
                      \cup (IF env.retention = None THEN {} ELSE {env.retention[1]})
                      \cup (IF mem.fell_back THEN {DefaultConfig.retention} ELSE {})

\* When the file the poll has seen names another upstream than the one in
\* use, the log has said that a restart is needed.
DriftIsWarned == mem.current.upstream # mem.upstream => mem.drift_warned

\* A configuration that stays put while the poll runs ends up in force, save
\* for a period the environment fixed and the file never changed since (which
\* of the two it is, the code does not decide as its comments do:
\* EnvironmentWins).
ReloadConverges ==
  \A c \in UNION {w.configs : w \in Workloads} :
    <>[](Polling /\ disk.config = FileOf(c))
      => <>[](/\ mem.current = c
              /\ mem.retention \in {c.retention} \cup IF env.retention = None THEN {} ELSE {env.retention[1]})

\* The listeners that the licence on disk calls for.
Needed ==
  LET valid == Whole(disk.licence) /\ verify(disk.licence.value, Here, day) = "Ok"
  IN  Listeners(IF valid THEN Some(disk.licence.value.claims) ELSE None)

\* What keeps a restarted service from serving: a manifest that does not
\* verify, a listener the licence calls for whose address does not parse, whose
\* port is not free or whose TLS files do not load; and where browsers are
\* covered, a certificate or a missing key that cannot be written, and a key
\* file that is empty or encrypted under another secret. No state of the
\* licence, the configuration or the audit database does.
StaysDownOnlyForCause ==
  <>[](pc # "serving")
    => <>[](\/ disk.manifest = "differs"
            \/ Needed \cap (taken \cup env.misset) # {}
            \/ /\ "connect_proxy" \in Needed
               /\ \/ "root_cert" \in disk.failing
                  \/ env.secret # None /\ disk.ca_key = Absent /\ "ca_key" \in disk.failing
                  \/ env.secret # None /\ disk.ca_key # Absent /\ ~Decrypts(disk.ca_key, env.secret))

\* The layering in config/src/lib.rs: the file comes before "env var overrides
\* (applied by the caller, `apps/service` -- every field here can still be
\* overridden by its historical `SAFEPROMPT_*` env var)". The poll does not know
\* of the override, and stores the file's period over it when the file changes.
EnvironmentWins ==
  pc \notin {"down", "integrity", "licence", "grace", "config"} /\ env.retention # None
    => mem.retention = env.retention[1]

\* Devices trust one root, it is the one in the certificate file, and it is
\* the one browsers are shown (load_connect_proxy_ca, write_root_cert).
TrustKept == TypeOK /\ RootStable /\ PublishedRootIsServed

\* Licensed features come from a licence that was good at the start, and a
\* grace period is not silent (load_license, verify, grace_status).
LicenceHonoured == LicensedWhenStarted /\ BorrowedTimeIsAnnounced

\* What is in force was chosen by somebody, and where it is not what the file
\* says the log tells (fetch_config, the poll).
ConfigurationAccounted == RetentionIsChosen /\ DriftIsWarned
=============================================================================
