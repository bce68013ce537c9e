---------------------------- MODULE ServiceProofs ----------------------------
(***************************************************************************)
(* Proofs about the service process. About Service, for every set of       *)
(* licences, configurations, secrets and overrides, and any number of      *)
(* crashes and changes: devices keep the root they trust, licensed         *)
(* features stand on a licence that was good, and the configuration in     *)
(* force was chosen by somebody. About the audit trail it opens            *)
(* (AuditLog), for any number of Agents, secrets and events, any cap,      *)
(* retention and batch size.                                               *)
(***************************************************************************)
EXTENDS Service, AuditLog, FiniteSetTheorems, TLAPS

\* The records keep their fields, whatever the fields hold.
Shaped ==
  /\ disk = [manifest |-> disk.manifest, licence |-> disk.licence, config |-> disk.config,
             ca_key |-> disk.ca_key, root_cert |-> disk.root_cert, failing |-> disk.failing]
  /\ env = [secret |-> env.secret, retention |-> env.retention, misset |-> env.misset]
  /\ mem = [claims |-> mem.claims, source |-> mem.source, current |-> mem.current,
            retention |-> mem.retention, upstream |-> mem.upstream,
            ca |-> mem.ca, persistent |-> mem.persistent, up |-> mem.up,
            started |-> mem.started, grace_warned |-> mem.grace_warned,
            drift_warned |-> mem.drift_warned, checked_late |-> mem.checked_late,
            held |-> mem.held, fell_back |-> mem.fell_back]

\* What a licence file must be like to be one of the scenario's.
Licence(f) ==
  /\ f.state \in {"absent", "torn", "whole"}
  /\ f.state = "whole" =>
       LET c == f.value.claims
       IN  /\ c.expiry \in Int
           /\ \A o \in {c.grace_period_days, c.issued_at, c.max_offline_days} :
                o # None => o[1] \in Int

DiskInv ==
  /\ work \in Workloads
  /\ Licence(disk.licence)
  /\ disk.manifest \in {"absent", "matches", "differs"}
  /\ \A f \in {"config", "ca_key", "root_cert"} : disk[f].state \in {"absent", "torn", "whole"}
  /\ pc \in BootSteps \cup {"down", "serving"}

-----------------------------------------------------------------------------
(* The shape of the records *)

LEMMA Options == \A x : None # Some(x) /\ Some(x)[1] = x
BY DEF None, Some

LEMMA ShapeInit == Init => Shaped
BY DEF Init, Shaped, Idle, NoMemory, Absent

LEMMA ShapeStep == Shaped /\ [Next]_vars => Shaped'
<1> SUFFICES ASSUME Shaped, [Next]_vars PROVE Shaped'
  OBVIOUS
<1>1. ASSUME Exit \/ mem' = mem \/ (\E s, h : mem' = NoMemory(s, h)), disk' = disk, env' = env
      PROVE  Shaped'
  BY <1>1 DEF Exit, Idle, NoMemory, Shaped
<1>2. CASE Start \/ verify_integrity
  BY <1>1, <1>2 DEF Start, verify_integrity, Goto, world
<1>3. CASE load_license
  BY <1>3 DEF load_license, Goto, world, Shaped
<1>4. CASE WarnOfGrace
  BY <1>4 DEF WarnOfGrace, Goto, world, Shaped
<1>5. CASE LoadConfig
  BY <1>5 DEF LoadConfig, Goto, world, Shaped
<1>6. CASE init_audit_storage
  BY <1>6, <1>1 DEF init_audit_storage, Goto, world
<1>15. ASSUME NEW f, WriteFails(f) PROVE Shaped'
  BY <1>15, <1>1 DEF WriteFails, world
<1>7. CASE load_connect_proxy_ca
  <2>1. CASE EphemeralCa
    BY <2>1 DEF EphemeralCa, Generate, NewCa, Goto, Shaped
  <2>4. CASE BadAddress
    BY <2>4, <1>1 DEF BadAddress, world
  <2>2. CASE CreateCa
    BY <2>2, <1>15 DEF CreateCa, Generate, NewCa, Goto, Shaped
  <2>3. CASE LoadCa
    <3>1. CASE Exit
      BY <2>3, <3>1, <1>1 DEF LoadCa, world
    <3>2. CASE ~ Exit
      BY <2>3, <3>2 DEF LoadCa, Goto, world, Shaped
    <3> QED BY <3>1, <3>2
  <2> QED BY <1>7, <2>1, <2>2, <2>3, <2>4 DEF load_connect_proxy_ca
<1>8. CASE save_encrypted_key \/ OpenCert \/ WriteCert
  BY <1>8, <1>15 DEF save_encrypted_key, OpenCert, WriteCert, Goto, Exit, Idle, NoMemory, world, Shaped
<1>9. CASE Bind
  BY <1>9 DEF Bind, Goto, Exit, Idle, NoMemory, world, Shaped
<1>10. CASE Reload
  BY <1>10 DEF Reload, world, Shaped
<1>11. CASE Crash \/ Tick \/ TrustRoot \/ UsePort
  BY <1>11, <1>1 DEF Crash, Tick, TrustRoot, UsePort
<1>12. CASE InstallLicence \/ BeginEdit \/ EndEdit \/ ReplaceBinary \/ ChangeDisk
  BY <1>12 DEF InstallLicence, BeginEdit, EndEdit, ReplaceBinary, ChangeDisk, Shaped
<1>13. CASE SetSecret \/ SetAddresses
  BY <1>13 DEF SetSecret, SetAddresses, Shaped
<1>14. CASE UNCHANGED vars
  BY <1>14, <1>1 DEF vars
<1> QED BY <1>2, <1>3, <1>4, <1>5, <1>6, <1>7, <1>8, <1>9, <1>10, <1>11, <1>12, <1>13, <1>14 DEF Next, Boot, World

-----------------------------------------------------------------------------

BeforeCa == {"down", "integrity", "licence", "grace", "config", "audit", "ca"}

\* Keys that exist are numbered below nextKey.
Known(k) == k \in 1 .. nextKey - 1

\* The key on disk is the only one that was ever to persist: while there is
\* none, nothing is trusted; one that was cut short belongs to the process
\* about to write it, or to nobody ever after.
KeyInv ==
  /\ nextKey \in Nat \ {0}
  /\ \A k \in trusted : Known(k)
  /\ mem.ca # None => mem.ca = Some(mem.ca[1]) /\ Known(mem.ca[1])
  /\ mem.persistent \in BOOLEAN
  /\ mem.persistent => mem.ca # None /\ disk.ca_key # Absent
  /\ pc \in BeforeCa => mem.ca = None
  /\ pc \in {"save_key", "open_cert", "write_cert"} => mem.ca # None
  /\ pc = "save_key" => disk.ca_key = Torn /\ mem.persistent
  /\ Whole(disk.ca_key) => Known(disk.ca_key.value.key)
  /\ Whole(disk.root_cert) => Known(disk.root_cert.value.key)

\* Everything that persists carries the key on disk.
RootInv ==
  /\ ~ Whole(disk.ca_key) =>
       /\ trusted = {}
       /\ Whole(disk.root_cert) => ~ disk.root_cert.value.persistent
       /\ mem.persistent => pc = "save_key"
  /\ Whole(disk.ca_key) =>
       /\ trusted \subseteq {disk.ca_key.value.key}
       /\ Whole(disk.root_cert) /\ disk.root_cert.value.persistent
            => disk.root_cert.value.key = disk.ca_key.value.key
       /\ mem.persistent => mem.ca = Some(disk.ca_key.value.key)

\* Once past write_cert, the certificate on disk is that of the process.
CertInv ==
  pc \in {"bind", "serving"} /\ mem.ca # None
    => disk.root_cert = FileOf([key |-> mem.ca[1], persistent |-> mem.persistent])

UpInv ==
  /\ mem.up \subseteq Listeners(mem.claims)
  /\ pc \notin {"bind", "serving"} => mem.up = {}
  /\ pc = "serving" => mem.up = Listeners(mem.claims)

\* The clock has not gone back since the start, and what is in memory of a
\* licence came from a file.
ClockInv ==
  /\ day \in 0 .. MaxDay
  /\ mem.started \in 0 .. day
  /\ mem.claims # None =>
       LET c == mem.claims[1]
       IN  /\ mem.claims = Some(c)
           /\ c.expiry \in Int
           /\ \A o \in {c.grace_period_days, c.issued_at, c.max_offline_days} :
                o # None => o[1] \in Int
  /\ pc \in {"down", "integrity", "licence"} => mem.claims = None

\* A configuration that can be read has been noted by the process.
HeldInv ==
  pc # "down" /\ Whole(disk.config) => disk.config.value.retention \in mem.held

-----------------------------------------------------------------------------
(* Files *)

LEMMA DiskInit == Init => DiskInv
<1> SUFFICES ASSUME Init PROVE DiskInv
  OBVIOUS
<1>1. work \in Workloads /\ pc = "down" /\ disk.licence \in work.licences
      /\ disk.manifest \in {"absent", "matches"}
      /\ disk.config \in {Absent} \cup {FileOf(c) : c \in work.configs}
      /\ disk.ca_key = Absent /\ disk.root_cert = Absent
  BY DEF Init
<1>2. Licence(disk.licence)
  BY <1>1, WorkloadsAssumption DEF Licence
<1>3. disk.config.state \in {"absent", "whole"}
  BY <1>1 DEF Absent, FileOf
<1> QED BY <1>1, <1>2, <1>3 DEF DiskInv, BootSteps, Absent

LEMMA DiskStep == Shaped /\ DiskInv /\ [Next]_vars => DiskInv'
<1> SUFFICES ASSUME Shaped, DiskInv, [Next]_vars PROVE DiskInv'
  OBVIOUS
<1> USE DEF BootSteps
<1>1. work' = work /\ pc' \in BootSteps \cup {"down", "serving"}
  <2>1. CASE Start \/ Reload \/ UNCHANGED vars
    BY <2>1 DEF Start, Reload, Goto, world, vars, DiskInv
  <2>2. CASE World
    BY <2>2 DEF World, Crash, Tick, InstallLicence, BeginEdit, EndEdit, SetSecret, TrustRoot, ReplaceBinary, UsePort,
                SetAddresses, ChangeDisk, Exit, DiskInv
  <2>3. CASE Boot
    <3>1. CASE verify_integrity \/ load_license \/ WarnOfGrace \/ LoadConfig \/ init_audit_storage
      BY <3>1 DEF verify_integrity, load_license, WarnOfGrace, LoadConfig, init_audit_storage, Goto, Exit, world, DiskInv
    <3>2. CASE load_connect_proxy_ca
      BY <3>2 DEF load_connect_proxy_ca, BadAddress, WriteFails, EphemeralCa, CreateCa, LoadCa, Generate, Goto, Exit, world, DiskInv
    <3>3. CASE save_encrypted_key \/ OpenCert \/ WriteCert \/ Bind
      BY <3>3 DEF save_encrypted_key, OpenCert, WriteCert, Bind, WriteFails, Goto, Exit, world, DiskInv
    <3> QED BY <2>3, <3>1, <3>2, <3>3 DEF Boot
  <2> QED BY <2>1, <2>2, <2>3 DEF Next
<1>2. ASSUME disk' = disk PROVE DiskInv'
  BY <1>1, <1>2 DEF DiskInv, Licence
<1>3. CASE Start \/ verify_integrity \/ load_license \/ WarnOfGrace \/ LoadConfig \/ init_audit_storage
  BY <1>3, <1>2 DEF Start, verify_integrity, load_license, WarnOfGrace, LoadConfig, init_audit_storage
<1>11. ASSUME NEW f, WriteFails(f) PROVE DiskInv'
  BY <1>11, <1>2 DEF WriteFails
<1>4. CASE load_connect_proxy_ca
  <2>1. CASE EphemeralCa \/ LoadCa \/ BadAddress
    BY <2>1, <1>2 DEF EphemeralCa, LoadCa, BadAddress
  <2>2. CASE CreateCa
    <3>1. CASE WriteFails("ca_key")
      BY <3>1, <1>11
    <3>2. CASE ~ WriteFails("ca_key")
      <4>1. disk'.ca_key.state = "torn"
        <5>1. disk' = [disk EXCEPT !.ca_key = Torn]
          BY <2>2, <3>2 DEF CreateCa
        <5>2. disk'.ca_key = Torn
          BY <5>1 DEF Shaped
        <5> QED BY <5>2 DEF Torn
      <4>2. \A f \in {"manifest", "licence", "config", "root_cert"} : disk'[f] = disk[f]
        BY <2>2, <3>2 DEF CreateCa, Shaped
      <4> QED BY <1>1, <4>1, <4>2 DEF DiskInv, Licence
    <3> QED BY <3>1, <3>2
  <2> QED BY <1>4, <2>1, <2>2 DEF load_connect_proxy_ca
<1>5. CASE save_encrypted_key
  BY <1>5, <1>1, <1>11 DEF save_encrypted_key, DiskInv, Licence, FileOf, Shaped
<1>6. CASE (OpenCert \/ WriteCert) /\ ~ WriteFails("root_cert")
  <2>1. disk'.root_cert.state \in {"torn", "whole"}
    BY <1>6 DEF OpenCert, WriteCert, FileOf, Torn, Shaped
  <2>2. \A f \in {"manifest", "licence", "config", "ca_key"} : disk'[f] = disk[f]
    BY <1>6 DEF OpenCert, WriteCert, Shaped
  <2> QED BY <1>1, <2>1, <2>2 DEF DiskInv, Licence
<1>7. CASE Bind \/ Reload \/ Crash \/ Tick \/ SetSecret \/ SetAddresses \/ TrustRoot \/ UsePort \/ UNCHANGED vars
  BY <1>7, <1>2 DEF Bind, Reload, Crash, Tick, SetSecret, SetAddresses, TrustRoot, UsePort, vars
<1>8. CASE InstallLicence
  <2>1. PICK l \in work.licences : disk' = [disk EXCEPT !.licence = l]
    BY <1>8 DEF InstallLicence
  <2>2. Licence(l)
    BY <2>1, WorkloadsAssumption DEF Licence, DiskInv
  <2>3. disk'.licence = l /\ disk'.manifest = disk.manifest
        /\ \A f \in {"config", "ca_key", "root_cert"} : disk'[f] = disk[f]
    BY <2>1 DEF Shaped
  <2> QED BY <1>1, <2>2, <2>3 DEF DiskInv, Licence
<1>9. CASE BeginEdit \/ EndEdit
  <2>1. disk'.config.state \in {"torn", "whole"}
    BY <1>9 DEF BeginEdit, EndEdit, FileOf, Torn, Shaped
  <2>2. \A f \in {"manifest", "licence", "ca_key", "root_cert"} : disk'[f] = disk[f]
    BY <1>9 DEF BeginEdit, EndEdit, Shaped
  <2> QED BY <1>1, <2>1, <2>2 DEF DiskInv, Licence
<1>10. CASE ReplaceBinary \/ ChangeDisk
  BY <1>10, <1>1 DEF ReplaceBinary, ChangeDisk, DiskInv, Licence, Shaped
<1> QED BY <1>3, <1>4, <1>5, <1>6, <1>7, <1>8, <1>9, <1>10, <1>11 DEF Next, Boot, World

-----------------------------------------------------------------------------
(* The root *)

RootsInv == KeyInv /\ RootInv /\ CertInv

LEMMA RootsInit == Init => RootsInv
BY DEF Init, RootsInv, KeyInv, RootInv, CertInv, Idle, NoMemory, Absent, Whole, BeforeCa

\* Nothing happens to keys, roots or certificates.
RootsKept ==
  /\ disk'.ca_key = disk.ca_key /\ disk'.root_cert = disk.root_cert
  /\ nextKey' = nextKey /\ trusted' = trusted

\* Steps that leave the root of the process alone.
LEMMA RootsFrame ==
  ASSUME RootsInv, RootsKept, mem'.ca = mem.ca, mem'.persistent = mem.persistent,
         pc' = pc \/ (pc \in BeforeCa /\ pc' \in BeforeCa \cup {"bind"}) \/ (pc = "bind" /\ pc' = "serving")
  PROVE  RootsInv'
<1>1. KeyInv'
  BY DEF RootsInv, KeyInv, RootsKept, Known, BeforeCa, Whole
<1>2. RootInv'
  BY DEF RootsInv, KeyInv, RootInv, RootsKept, BeforeCa, Whole
<1>3. CertInv'
  BY DEF RootsInv, KeyInv, CertInv, RootsKept, BeforeCa
<1> QED BY <1>1, <1>2, <1>3 DEF RootsInv

\* A process that starts or ends holds no root.
LEMMA RootsGone ==
  ASSUME RootsInv, RootsKept, mem'.ca = None, mem'.persistent = FALSE, pc' \in BeforeCa
  PROVE  RootsInv'
<1>1. KeyInv'
  BY DEF RootsInv, KeyInv, RootsKept, Known, BeforeCa, Whole
<1>2. RootInv'
  BY DEF RootsInv, RootInv, RootsKept, Whole
<1>3. CertInv'
  BY DEF CertInv
<1> QED BY <1>1, <1>2, <1>3 DEF RootsInv

\* load_connect_proxy_ca: a key that exists nowhere else, or the one on disk.
LEMMA RootsLoaded == Shaped /\ RootsInv /\ load_connect_proxy_ca => RootsInv'
<1> SUFFICES ASSUME Shaped, RootsInv, pc = "ca", BadAddress \/ EphemeralCa \/ CreateCa \/ LoadCa
               PROVE  RootsInv'
  BY DEF load_connect_proxy_ca
<1>1. mem.ca = None /\ mem.persistent = FALSE /\ nextKey \in Nat \ {0}
  BY DEF RootsInv, KeyInv, BeforeCa
<1>5. ASSUME nextKey' = nextKey + 1
      PROVE  nextKey' \in Nat \ {0} /\ nextKey \in 1 .. nextKey' - 1 /\ \A k : Known(k) => Known(k)'
  BY <1>1, <1>5 DEF Known
<1>2. CASE EphemeralCa
  <2>1. /\ pc' = "open_cert" /\ mem'.ca = Some(nextKey) /\ mem'.persistent = FALSE
        /\ nextKey' = nextKey + 1 /\ trusted' = trusted /\ disk' = disk
    BY <1>2 DEF EphemeralCa, NewCa, Generate, Goto, Shaped
  <2>2. mem'.ca # None /\ mem'.ca[1] = nextKey
    BY <2>1, Options
  <2>3. Known(mem.ca[1])'
    BY <1>5, <2>1, <2>2 DEF Known
  <2>4. KeyInv'
    BY <1>1, <1>5, <2>1, <2>2, <2>3 DEF RootsInv, KeyInv, BeforeCa
  <2>5. RootInv'
    BY <1>1, <2>1 DEF RootsInv, RootInv, Whole
  <2> QED BY <2>1, <2>4, <2>5 DEF RootsInv, CertInv
<1>6. CASE BadAddress \/ WriteFails("ca_key")
  <2>1. RootsKept
    BY <1>6 DEF BadAddress, WriteFails, RootsKept, world
  <2>2. Exit
    BY <1>6 DEF BadAddress, WriteFails
  <2>3. mem'.ca = None /\ mem'.persistent = FALSE /\ pc' \in BeforeCa
    BY <2>2 DEF Exit, Idle, NoMemory, BeforeCa
  <2> QED BY <2>1, <2>3, RootsGone
<1>3. CASE CreateCa /\ ~ WriteFails("ca_key")
  <2>1. /\ pc' = "save_key" /\ mem'.ca = Some(nextKey) /\ mem'.persistent = TRUE
        /\ nextKey' = nextKey + 1 /\ trusted' = trusted
    BY <1>3 DEF CreateCa, NewCa, Generate, Goto, Shaped
  <2>2. disk.ca_key = Absent /\ disk'.ca_key = Torn /\ disk'.root_cert = disk.root_cert
    BY <1>3 DEF CreateCa, Shaped
  <2>3. mem'.ca # None /\ mem'.ca[1] = nextKey
    BY <2>1, Options
  <2>4. ~ Whole(disk.ca_key) /\ ~ Whole(disk'.ca_key) /\ disk'.ca_key # Absent
    BY <2>2 DEF Whole, Absent, Torn
  <2>5. Known(mem.ca[1])'
    BY <1>5, <2>1, <2>3 DEF Known
  <2>6. KeyInv'
    BY <1>1, <1>5, <2>1, <2>2, <2>3, <2>4, <2>5 DEF RootsInv, KeyInv, BeforeCa
  <2>7. RootInv'
    BY <2>1, <2>2, <2>4 DEF RootsInv, RootInv, Whole
  <2> QED BY <2>1, <2>6, <2>7 DEF RootsInv, CertInv
<1>4. CASE LoadCa
  <2>1. RootsKept
    BY <1>4 DEF LoadCa, RootsKept, world
  <2>2. CASE Exit
    BY <2>1, <2>2, RootsGone DEF Exit, Idle, NoMemory, BeforeCa
  <2>3. CASE ~ Exit
    <3>1. /\ Whole(disk.ca_key) /\ pc' = "open_cert" /\ mem'.ca = Some(disk.ca_key.value.key)
          /\ mem'.persistent = TRUE /\ disk.ca_key # Absent
      BY <1>4, <2>3 DEF LoadCa, Decrypts, Goto, Shaped
    <3>2. mem'.ca # None /\ mem'.ca[1] = disk.ca_key.value.key
      BY <3>1, Options
    <3>3. KeyInv'
      BY <1>1, <2>1, <3>1, <3>2 DEF RootsInv, KeyInv, RootsKept, Known, BeforeCa, Whole
    <3>4. RootInv'
      BY <2>1, <3>1 DEF RootsInv, RootInv, RootsKept, Whole
    <3> QED BY <3>1, <3>3, <3>4 DEF RootsInv, CertInv
  <2> QED BY <2>2, <2>3
<1> QED BY <1>2, <1>3, <1>4, <1>6

\* The key and the certificate are written, each in two steps.
LEMMA RootsWritten == Shaped /\ RootsInv /\ (save_encrypted_key \/ OpenCert \/ WriteCert) => RootsInv'
<1> SUFFICES ASSUME Shaped, RootsInv, save_encrypted_key \/ OpenCert \/ WriteCert PROVE RootsInv'
  OBVIOUS
<1>1. nextKey' = nextKey /\ trusted' = trusted /\ mem.ca # None /\ Known(mem.ca[1])
  BY DEF save_encrypted_key, OpenCert, WriteCert, WriteFails, Goto, world, RootsInv, KeyInv
<1>5. ASSUME NEW f, WriteFails(f) PROVE RootsInv'
  <2>1. RootsKept
    BY <1>5 DEF WriteFails, RootsKept, world
  <2> QED BY <1>5, <2>1, RootsGone DEF WriteFails, Exit, Idle, NoMemory, BeforeCa
<1>2. CASE save_encrypted_key /\ ~ WriteFails("ca_key")
  <2>1. /\ pc = "save_key" /\ pc' = "open_cert" /\ mem' = mem /\ disk'.root_cert = disk.root_cert
        /\ Whole(disk'.ca_key) /\ disk'.ca_key.value.key = mem.ca[1] /\ disk'.ca_key # Absent
    BY <1>2 DEF save_encrypted_key, Goto, Shaped, Whole, FileOf, Absent
  <2>2. ~ Whole(disk.ca_key) /\ mem.ca = Some(mem.ca[1])
    BY <1>1, <2>1 DEF RootsInv, KeyInv, Whole, Torn
  <2>3. KeyInv'
    BY <1>1, <2>1 DEF RootsInv, KeyInv, Known, BeforeCa, Whole
  <2>4. RootInv'
    BY <1>1, <2>1, <2>2 DEF RootsInv, RootInv, Whole
  <2> QED BY <2>1, <2>3, <2>4 DEF RootsInv, CertInv
<1>3. CASE OpenCert /\ ~ WriteFails("root_cert")
  <2>1. /\ pc = "open_cert" /\ pc' = "write_cert" /\ mem' = mem /\ disk'.ca_key = disk.ca_key /\ ~ Whole(disk'.root_cert)
    BY <1>3 DEF OpenCert, Goto, Shaped, Whole, Torn
  <2>2. KeyInv'
    BY <1>1, <2>1 DEF RootsInv, KeyInv, Known, BeforeCa, Whole
  <2>3. RootInv'
    BY <1>1, <2>1 DEF RootsInv, RootInv, Whole
  <2> QED BY <2>1, <2>2, <2>3 DEF RootsInv, CertInv
<1>4. CASE WriteCert /\ ~ WriteFails("root_cert")
  <2>1. /\ pc = "write_cert" /\ disk'.ca_key = disk.ca_key
        /\ disk'.root_cert = FileOf([key |-> mem.ca[1], persistent |-> mem.persistent])
        /\ \/ pc' = "bind" /\ mem' = mem
           \/ pc' = "down" /\ mem'.ca = None /\ mem'.persistent = FALSE
    BY <1>4 DEF WriteCert, Goto, Exit, Idle, NoMemory, Shaped
  <2>2. disk'.root_cert.value.key = mem.ca[1] /\ disk'.root_cert.value.persistent = mem.persistent
    BY <2>1 DEF FileOf
  <2>3. KeyInv'
    BY <1>1, <2>1, <2>2 DEF RootsInv, KeyInv, Known, BeforeCa, Whole
  <2>4. RootInv'
    <3>1. Whole(disk.ca_key) /\ mem.persistent => mem.ca[1] = disk.ca_key.value.key
      BY Options DEF RootsInv, RootInv
    <3> QED BY <1>1, <2>1, <2>2, <3>1 DEF RootsInv, RootInv, Whole
  <2> QED BY <1>1, <2>1, <2>3, <2>4 DEF RootsInv, CertInv
<1> QED BY <1>2, <1>3, <1>4, <1>5 DEF save_encrypted_key, OpenCert, WriteCert

LEMMA RootsStep == Shaped /\ RootsInv /\ [Next]_vars => RootsInv'
<1> SUFFICES ASSUME Shaped, RootsInv, [Next]_vars PROVE RootsInv'
  OBVIOUS
<1>1. CASE load_connect_proxy_ca \/ save_encrypted_key \/ OpenCert \/ WriteCert
  BY <1>1, RootsLoaded, RootsWritten
<1>2. ASSUME Exit, RootsKept PROVE RootsInv'
  BY <1>2, RootsGone DEF Exit, Idle, NoMemory, BeforeCa
<1>3. ASSUME mem' = mem, pc' = pc, RootsKept PROVE RootsInv'
  BY <1>3, RootsFrame
<1>4. CASE Start
  <2>1. RootsKept /\ mem'.ca = None /\ mem'.persistent = FALSE /\ pc' = "integrity"
    BY <1>4 DEF Start, Goto, NoMemory, world, RootsKept
  <2> QED BY <2>1, RootsGone DEF BeforeCa
<1>5. CASE verify_integrity
  <2>1. CASE Exit
    BY <1>5, <1>2, <2>1 DEF verify_integrity, RootsKept, world
  <2>2. CASE ~ Exit
    BY <1>5, <2>2, RootsFrame DEF verify_integrity, Goto, RootsKept, world, BeforeCa
  <2> QED BY <2>1, <2>2
<1>6. CASE load_license \/ WarnOfGrace \/ LoadConfig \/ (init_audit_storage /\ ~ Exit)
  <2>1. RootsKept /\ pc \in BeforeCa /\ pc' \in BeforeCa \cup {"bind"}
    BY <1>6 DEF load_license, WarnOfGrace, LoadConfig, init_audit_storage, Goto, RootsKept, world, BeforeCa
  <2>2. mem'.ca = mem.ca /\ mem'.persistent = mem.persistent
    <3>1. CASE load_license
      BY <3>1 DEF load_license, Goto, Shaped
    <3>2. CASE WarnOfGrace
      BY <3>2 DEF WarnOfGrace, Goto, Shaped
    <3>3. CASE LoadConfig
      BY <3>3 DEF LoadConfig, Goto, Shaped
    <3> QED BY <1>6, <3>1, <3>2, <3>3 DEF init_audit_storage, Goto
  <2> QED BY <2>1, <2>2, RootsFrame
<1>14. CASE init_audit_storage /\ Exit
  BY <1>14, <1>2 DEF init_audit_storage, RootsKept, world
<1>7. CASE Bind
  <2>1. RootsKept
    BY <1>7 DEF Bind, RootsKept, world
  <2>2. CASE ~ Exit
    BY <1>7, <2>1, <2>2, RootsFrame DEF Bind, Goto, Shaped
  <2> QED BY <1>2, <2>1, <2>2
<1>8. CASE Reload
  <2>1. RootsKept /\ pc' = pc /\ mem'.ca = mem.ca /\ mem'.persistent = mem.persistent
    BY <1>8 DEF Reload, RootsKept, world, Shaped
  <2> QED BY <2>1, RootsFrame
<1>9. CASE Crash
  BY <1>9, <1>2 DEF Crash, RootsKept
<1>10. CASE Tick \/ SetSecret \/ SetAddresses \/ UsePort \/ UNCHANGED vars
  BY <1>10, <1>3 DEF Tick, SetSecret, SetAddresses, UsePort, RootsKept, vars
<1>11. CASE InstallLicence \/ BeginEdit \/ ReplaceBinary \/ ChangeDisk
  BY <1>11, <1>3 DEF InstallLicence, BeginEdit, ReplaceBinary, ChangeDisk, RootsKept, Shaped
<1>12. CASE EndEdit
  <2>1. RootsKept /\ pc' = pc /\ mem'.ca = mem.ca /\ mem'.persistent = mem.persistent
    BY <1>12 DEF EndEdit, RootsKept, Shaped
  <2> QED BY <2>1, RootsFrame
<1>13. CASE TrustRoot
  <2>1. /\ mem' = mem /\ pc' = pc /\ disk' = disk /\ nextKey' = nextKey
        /\ Whole(disk.root_cert) /\ disk.root_cert.value.persistent
        /\ trusted' = trusted \cup {disk.root_cert.value.key}
    BY <1>13 DEF TrustRoot
  <2>2. KeyInv'
    BY <2>1 DEF RootsInv, KeyInv, Known, BeforeCa, Whole
  <2>3. RootInv'
    BY <2>1 DEF RootsInv, RootInv, Whole
  <2> QED BY <2>1, <2>2, <2>3 DEF RootsInv, CertInv
<1> QED BY <1>1, <1>4, <1>5, <1>6, <1>7, <1>8, <1>9, <1>10, <1>11, <1>12, <1>13, <1>14 DEF Next, Boot, World

-----------------------------------------------------------------------------
(* The listeners *)

LEMMA UpInit == Init => UpInv
BY DEF Init, UpInv, Idle, NoMemory

LEMMA UpStep == Shaped /\ UpInv /\ [Next]_vars => UpInv'
<1> SUFFICES ASSUME Shaped, UpInv, [Next]_vars PROVE UpInv'
  OBVIOUS
<1>1. ASSUME mem'.up = {}, pc' \notin {"bind", "serving"} PROVE UpInv'
  BY <1>1 DEF UpInv
<1>2. ASSUME mem'.up = mem.up, mem'.claims = mem.claims, pc' = pc PROVE UpInv'
  BY <1>2 DEF UpInv, Listeners
<1>3. CASE Exit
  BY <1>3, <1>1 DEF Exit, Idle, NoMemory
<1>4. CASE Start
  BY <1>4, <1>1 DEF Start, Goto, NoMemory
<1>5. CASE verify_integrity /\ ~ Exit
  BY <1>5, <1>1 DEF verify_integrity, Goto, UpInv
<1>6. CASE load_license \/ WarnOfGrace \/ LoadConfig
  <2>1. mem.up = {} /\ pc' \notin {"bind", "serving"}
    BY <1>6 DEF load_license, WarnOfGrace, LoadConfig, Goto, UpInv
  <2>2. mem'.up = mem.up
    <3>1. CASE load_license
      BY <3>1 DEF load_license, Goto, Shaped
    <3>2. CASE WarnOfGrace
      BY <3>2 DEF WarnOfGrace, Goto, Shaped
    <3>3. CASE LoadConfig
      BY <3>3 DEF LoadConfig, Goto, Shaped
    <3> QED BY <1>6, <3>1, <3>2, <3>3
  <2> QED BY <2>1, <2>2, <1>1
<1>7. CASE (init_audit_storage \/ save_encrypted_key \/ OpenCert \/ WriteCert) /\ ~ Exit
  <2>1. mem' = mem /\ mem.up = {} /\ pc' # "serving"
    BY <1>7 DEF init_audit_storage, save_encrypted_key, OpenCert, WriteCert, WriteFails, Goto, UpInv
  <2> QED BY <2>1 DEF UpInv
<1>8. CASE load_connect_proxy_ca /\ ~ Exit
  <2>1. mem.up = {} /\ pc' \notin {"bind", "serving"}
    BY <1>8 DEF load_connect_proxy_ca, BadAddress, WriteFails, EphemeralCa, CreateCa, LoadCa, Goto, UpInv
  <2>2. mem'.up = mem.up
    <3>1. CASE EphemeralCa
      BY <3>1 DEF EphemeralCa, NewCa, Goto, Shaped
    <3>2. CASE CreateCa
      BY <1>8, <3>2 DEF CreateCa, WriteFails, NewCa, Goto, Shaped
    <3>3. CASE LoadCa
      BY <1>8, <3>3 DEF LoadCa, Goto, Shaped
    <3> QED BY <1>8, <3>1, <3>2, <3>3 DEF load_connect_proxy_ca, BadAddress
  <2> QED BY <2>1, <2>2, <1>1
<1>9. CASE Bind /\ ~ Exit
  <2>1. PICK l \in Listeners(mem.claims) \ mem.up :
          /\ mem' = [mem EXCEPT !.up = @ \cup {l}]
          /\ pc' = IF mem'.up = Listeners(mem'.claims) THEN "serving" ELSE "bind"
    BY <1>9 DEF Bind, Goto
  <2>2. mem'.up = mem.up \cup {l} /\ mem'.claims = mem.claims
    BY <2>1 DEF Shaped
  <2> QED BY <2>1, <2>2 DEF UpInv, Listeners
<1>10. CASE Reload
  <2>1. mem'.up = mem.up /\ mem'.claims = mem.claims /\ pc' = pc
    BY <1>10 DEF Reload, Shaped
  <2> QED BY <2>1, <1>2
<1>11. CASE EndEdit
  <2>1. mem'.up = mem.up /\ mem'.claims = mem.claims /\ pc' = pc
    BY <1>11 DEF EndEdit, Shaped
  <2> QED BY <2>1, <1>2
<1>12. CASE mem' = mem /\ pc' = pc
  BY <1>12, <1>2
<1>13. CASE World
  BY <1>13, <1>3, <1>11, <1>12
     DEF World, Crash, Tick, InstallLicence, BeginEdit, SetSecret, TrustRoot, ReplaceBinary, UsePort, SetAddresses,
         ChangeDisk
<1> QED BY <1>3, <1>4, <1>5, <1>6, <1>7, <1>8, <1>9, <1>10, <1>12, <1>13 DEF Next, Boot, vars

-----------------------------------------------------------------------------
(* The licence *)

LicenceInv == ClockInv /\ LicensedWhenStarted /\ BorrowedTimeIsAnnounced

LEMMA LicenceInit == Init => LicenceInv
BY BoundAssumption
   DEF Init, LicenceInv, ClockInv, LicensedWhenStarted, BorrowedTimeIsAnnounced, Idle, NoMemory

\* What the memory says of the licence and of the warning does not change.
LicenceKept ==
  /\ mem'.claims = mem.claims /\ mem'.started = mem.started
  /\ mem'.grace_warned = mem.grace_warned /\ mem'.checked_late = mem.checked_late

Unwarned == {"down", "integrity", "licence", "grace"}

LEMMA LicenceFrame ==
  ASSUME LicenceInv, LicenceKept, day' \in {day, day + 1}, day' \in 0 .. MaxDay,
         pc' = pc \/ (pc' \notin {"down", "integrity", "licence"} /\ (pc' \notin Unwarned => pc \notin Unwarned))
                 \/ (pc = "integrity" /\ pc' = "licence")
  PROVE  LicenceInv'
<1>1. day \in 0 .. MaxDay /\ mem.started \in 0 .. day
  BY DEF LicenceInv, ClockInv
<1>2. mem.started \in 0 .. day'
  BY <1>1, BoundAssumption
<1>3. mem.claims # None /\ pc' \in {"down", "integrity", "licence"} => FALSE
  BY DEF LicenceInv, ClockInv
<1>4. ClockInv'
  BY <1>2, <1>3 DEF LicenceInv, ClockInv, LicenceKept
<1>5. LicensedWhenStarted'
  BY DEF LicenceInv, LicensedWhenStarted, LicenceKept
<1>6. BorrowedTimeIsAnnounced'
  BY DEF LicenceInv, BorrowedTimeIsAnnounced, LicenceKept, Unwarned
<1> QED BY <1>4, <1>5, <1>6 DEF LicenceInv

\* A process that has read no licence.
LEMMA LicenceNone ==
  ASSUME LicenceInv, mem'.claims = None, mem'.started \in 0 .. day, day' = day
  PROVE  LicenceInv'
BY DEF LicenceInv, ClockInv, LicensedWhenStarted, BorrowedTimeIsAnnounced

\* verify lets a licence through up to the last day it states.
LEMMA Verified ==
  ASSUME NEW f, Licence(f), Whole(f), NEW d \in Int, verify(f.value, Here, d) = "Ok"
  PROVE  LET c == f.value.claims
         IN  /\ c.grace_period_days = None => d <= c.expiry
             /\ c.grace_period_days # None => d <= c.expiry + c.grace_period_days[1]
             /\ c.issued_at # None /\ c.max_offline_days # None
                  => d <= c.issued_at[1] + c.max_offline_days[1]
             /\ c.machine_fingerprint # None => c.machine_fingerprint[1] = Here
<1> DEFINE c == f.value.claims
<1>1. /\ ~ (hard_cutoff(c) < d) /\ ~ lease_expired(c, d) /\ ~ locked_elsewhere(c, Here)
  BY DEF verify
<1>2. c.expiry \in Int /\ \A o \in {c.grace_period_days, c.issued_at, c.max_offline_days} : o # None => o[1] \in Int
  BY DEF Licence, Whole
<1>3. c.machine_fingerprint # None => c.machine_fingerprint[1] = Here
  BY <1>1, Options DEF locked_elsewhere
<1>4. c.issued_at # None /\ c.max_offline_days # None => d <= c.issued_at[1] + c.max_offline_days[1]
  BY <1>1, <1>2 DEF lease_expired
<1>5. /\ c.grace_period_days = None => d <= c.expiry
      /\ c.grace_period_days # None => d <= c.expiry + c.grace_period_days[1]
  BY <1>1, <1>2 DEF hard_cutoff
<1> QED BY <1>3, <1>4, <1>5

\* What the start took from the file was good on the day it began.
LEMMA LicenceRead ==
  ASSUME Shaped, DiskInv, LicenceInv, load_license
  PROVE  LicenceInv'
<1> DEFINE valid == Whole(disk.licence) /\ verify(disk.licence.value, Here, day) = "Ok"
           c == disk.licence.value.claims
<1>1. /\ pc = "licence" /\ pc' = "grace" /\ day' = day /\ mem'.started = mem.started
      /\ mem'.claims = IF valid THEN Some(c) ELSE None
  BY DEF load_license, Goto, world, Shaped
<1>2. day \in 0 .. MaxDay /\ mem.started \in 0 .. day
  BY DEF LicenceInv, ClockInv
<1>3. CASE ~ valid
  <2>1. mem'.claims = None
    BY <1>1, <1>3
  <2> QED BY <1>1, <1>2, <2>1, LicenceNone
<1>4. CASE valid
  <2>1. mem'.claims # None /\ mem'.claims[1] = c
    BY <1>1, <1>4, Options
  <2>2. /\ c.grace_period_days = None => day <= c.expiry
        /\ c.grace_period_days # None => day <= c.expiry + c.grace_period_days[1]
        /\ c.issued_at # None /\ c.max_offline_days # None => day <= c.issued_at[1] + c.max_offline_days[1]
        /\ c.machine_fingerprint # None => c.machine_fingerprint[1] = Here
    BY <1>2, <1>4, BoundAssumption, Verified DEF DiskInv
  <2>3. /\ c.expiry \in Int
        /\ \A o \in {c.grace_period_days, c.issued_at, c.max_offline_days} : o # None => o[1] \in Int
    BY <1>4 DEF DiskInv, Licence, Whole
  <2>4. ClockInv'
    BY <1>1, <1>2, <1>4, <2>1, <2>3 DEF ClockInv
  <2>5. LicensedWhenStarted'
    <3>1. \A x \in Int : day <= x => mem.started <= x
      BY <1>2, BoundAssumption
    <3> HIDE DEF c
    <3>2. \A x \in {c.expiry + n : n \in IF c.grace_period_days = None THEN {0} ELSE {c.grace_period_days[1]}} :
             mem.started <= x
      BY <2>2, <2>3, <3>1
    <3>3. c.issued_at # None /\ c.max_offline_days # None => mem.started <= c.issued_at[1] + c.max_offline_days[1]
      BY <2>2, <2>3, <3>1
    <3> QED BY <1>1, <2>1, <2>2, <3>2, <3>3 DEF LicensedWhenStarted
  <2>6. BorrowedTimeIsAnnounced'
    BY <1>1 DEF BorrowedTimeIsAnnounced
  <2> QED BY <2>4, <2>5, <2>6 DEF LicenceInv
<1> QED BY <1>3, <1>4

\* The second reading of the clock finds a grace period running, or over.
LEMMA LicenceWarned ==
  ASSUME Shaped, LicenceInv, WarnOfGrace
  PROVE  LicenceInv'
<1> DEFINE c == mem.claims[1]
<1>1. /\ pc' = "config" /\ day' = day
      /\ mem'.claims = mem.claims /\ mem'.started = mem.started
  BY DEF WarnOfGrace, Goto, world, Shaped
<1>2. ClockInv'
  BY <1>1 DEF LicenceInv, ClockInv
<1>3. LicensedWhenStarted'
  BY <1>1 DEF LicenceInv, LicensedWhenStarted
<1>4. ASSUME mem.claims # None, mem.started > c.expiry
      PROVE  mem'.grace_warned \/ mem'.checked_late
  <2>1. /\ day \in Int /\ mem.started \in Int /\ mem.started <= day /\ c.expiry \in Int
        /\ c.grace_period_days # None => c.grace_period_days[1] \in Int
    BY <1>4, BoundAssumption DEF LicenceInv, ClockInv
  <2>2. c.grace_period_days = None => mem.started <= c.expiry + 0
    BY <1>4 DEF LicenceInv, LicensedWhenStarted
  <2>3. c.grace_period_days # None /\ day > c.expiry
    BY <1>4, <2>1, <2>2
  <2>4. grace_status(c, day) \in {"InGrace", "GracePeriodElapsed"}
    BY <2>1, <2>3 DEF grace_status
  <2>5. /\ mem'.grace_warned = (grace_status(c, day) = "InGrace")
        /\ mem'.checked_late = (grace_status(c, day) = "GracePeriodElapsed")
    BY <1>4 DEF WarnOfGrace, Goto, Shaped
  <2> QED BY <2>4, <2>5
<1>5. BorrowedTimeIsAnnounced'
  BY <1>1, <1>4 DEF BorrowedTimeIsAnnounced
<1> QED BY <1>2, <1>3, <1>5 DEF LicenceInv

LEMMA LicenceStep == Shaped /\ DiskInv /\ LicenceInv /\ [Next]_vars => LicenceInv'
<1> SUFFICES ASSUME Shaped, DiskInv, LicenceInv, [Next]_vars PROVE LicenceInv'
  OBVIOUS
<1>1. day \in 0 .. MaxDay /\ 0 \in 0 .. day /\ day \in 0 .. day /\ mem.started \in 0 .. day
  BY BoundAssumption DEF LicenceInv, ClockInv
<1>2. CASE Exit /\ day' = day
  BY <1>1, <1>2, LicenceNone DEF Exit, Idle, NoMemory
<1>3. ASSUME LicenceKept, day' = day,
             pc' = pc \/ (pc' \notin Unwarned /\ pc \notin Unwarned) \/ (pc = "integrity" /\ pc' = "licence")
      PROVE  LicenceInv'
  BY <1>1, <1>3, LicenceFrame DEF Unwarned
<1>4. CASE mem' = mem /\ pc' = pc /\ day' = day
  BY <1>3, <1>4 DEF LicenceKept
<1>5. CASE Start
  <2>1. mem'.claims = None /\ mem'.started = day /\ day' = day
    BY <1>5 DEF Start, Goto, NoMemory, world
  <2> QED BY <1>1, <2>1, LicenceNone
<1>6. CASE verify_integrity
  BY <1>2, <1>3, <1>6 DEF verify_integrity, Goto, world, LicenceKept
<1>7. CASE load_license \/ WarnOfGrace
  BY <1>7, LicenceRead, LicenceWarned
<1>8. CASE LoadConfig
  <2>1. LicenceKept
    BY <1>8 DEF LoadConfig, Goto, LicenceKept, Shaped
  <2>2. day' = day /\ pc' \notin Unwarned /\ pc \notin Unwarned
    BY <1>8 DEF LoadConfig, Goto, world, Unwarned
  <2> QED BY <1>3, <2>1, <2>2
<1>9. CASE init_audit_storage \/ save_encrypted_key \/ OpenCert \/ WriteCert
  <2>1. day' = day /\ (Exit \/ (mem' = mem /\ pc' \notin Unwarned /\ pc \notin Unwarned))
    BY <1>9 DEF init_audit_storage, save_encrypted_key, OpenCert, WriteCert, WriteFails, Goto, world, Unwarned
  <2> QED BY <1>2, <1>3, <2>1 DEF LicenceKept
<1>10. CASE load_connect_proxy_ca
  <2>1. day' = day /\ (Exit \/ (pc' \notin Unwarned /\ pc \notin Unwarned))
    BY <1>10 DEF load_connect_proxy_ca, BadAddress, WriteFails, EphemeralCa, CreateCa, LoadCa, Generate, Goto, world,
                 Unwarned
  <2>2. ~ Exit => LicenceKept
    <3>1. CASE EphemeralCa
      BY <3>1 DEF EphemeralCa, NewCa, Goto, LicenceKept, Shaped
    <3>2. CASE CreateCa
      BY <3>2 DEF CreateCa, WriteFails, NewCa, Goto, LicenceKept, Shaped
    <3>3. CASE LoadCa
      BY <3>3 DEF LoadCa, Goto, LicenceKept, Shaped
    <3> QED BY <1>10, <3>1, <3>2, <3>3 DEF load_connect_proxy_ca, BadAddress
  <2> QED BY <1>2, <1>3, <2>1, <2>2
<1>11. CASE Bind
  <2>1. day' = day /\ (Exit \/ (pc' \notin Unwarned /\ pc \notin Unwarned))
    BY <1>11 DEF Bind, Goto, world, Unwarned
  <2>2. ~ Exit => LicenceKept
    BY <1>11 DEF Bind, Goto, LicenceKept, Shaped
  <2> QED BY <1>2, <1>3, <2>1, <2>2
<1>12. CASE Reload
  <2>1. LicenceKept /\ pc' = pc /\ day' = day
    BY <1>12 DEF Reload, world, LicenceKept, Shaped
  <2> QED BY <1>3, <2>1
<1>13. CASE EndEdit
  <2>1. LicenceKept /\ pc' = pc /\ day' = day
    BY <1>13 DEF EndEdit, LicenceKept, Shaped
  <2> QED BY <1>3, <2>1
<1>14. CASE Tick
  <2>1. LicenceKept /\ pc' = pc /\ day' = day + 1 /\ day < MaxDay
    BY <1>14 DEF Tick, LicenceKept
  <2>2. day' \in 0 .. MaxDay
    BY <1>1, <2>1, BoundAssumption
  <2> QED BY <2>1, <2>2, LicenceFrame
<1>15. CASE World
  BY <1>2, <1>4, <1>13, <1>14, <1>15
     DEF World, Crash, InstallLicence, BeginEdit, SetSecret, TrustRoot, ReplaceBinary, UsePort, SetAddresses, ChangeDisk
<1> QED BY <1>4, <1>5, <1>6, <1>7, <1>8, <1>9, <1>10, <1>11, <1>12, <1>15 DEF Next, Boot, vars

-----------------------------------------------------------------------------
(* The configuration *)

ConfigInv == HeldInv /\ RetentionIsChosen /\ DriftIsWarned

LEMMA ConfigInit == Init => ConfigInv
BY DEF Init, ConfigInv, HeldInv, RetentionIsChosen, DriftIsWarned, Idle, NoMemory

Unconfigured == {"down", "integrity", "licence", "grace", "config"}

\* What the memory says of the configuration does not change; what the file
\* has stated since the start is never forgotten.
ConfigKept ==
  /\ mem'.retention = mem.retention /\ mem'.upstream = mem.upstream /\ mem'.current = mem.current
  /\ mem'.fell_back = mem.fell_back /\ mem'.drift_warned = mem.drift_warned
  /\ mem.held \subseteq mem'.held
  /\ env' = env

LEMMA ConfigFrame ==
  ASSUME ConfigInv, ConfigKept, pc # "down",
         pc' \notin Unconfigured => pc \notin Unconfigured,
         Whole(disk'.config) => disk'.config = disk.config \/ disk'.config.value.retention \in mem'.held
  PROVE  ConfigInv'
<1>1. HeldInv'
  BY DEF ConfigInv, HeldInv, ConfigKept, Whole
<1>2. RetentionIsChosen'
  BY DEF ConfigInv, RetentionIsChosen, ConfigKept, Unconfigured
<1>3. DriftIsWarned'
  BY DEF ConfigInv, DriftIsWarned, ConfigKept
<1> QED BY <1>1, <1>2, <1>3 DEF ConfigInv

\* While nothing runs, the memory is that of no process.
LEMMA ConfigDown ==
  ASSUME pc' = "down", mem'.current.upstream = mem'.upstream
  PROVE  ConfigInv'
BY DEF ConfigInv, HeldInv, RetentionIsChosen, DriftIsWarned

\* The first read: a whole file or the defaults, and the environment over it.
LEMMA ConfigLoaded ==
  ASSUME Shaped, ConfigInv, LoadConfig
  PROVE  ConfigInv'
<1> DEFINE initial == IF Whole(disk.config) THEN disk.config.value ELSE DefaultConfig
<1>1. /\ pc = "config" /\ pc' = "audit" /\ disk' = disk /\ env' = env
      /\ mem'.held = mem.held
  BY DEF LoadConfig, Goto, world, Shaped
<1>2. ~ Whole(Absent)
  BY DEF Whole, Absent
<1>3. /\ mem'.current = initial /\ mem'.upstream = initial.upstream
      /\ mem'.retention = IF env.retention = None THEN initial.retention ELSE env.retention[1]
      /\ ~ Whole(disk.config) => mem'.fell_back
  <2> DEFINE fetched == IF disk.config # Absent THEN fetch_config(disk.config) ELSE None
             first   == IF fetched = None THEN DefaultConfig ELSE fetched[1]
  <2>1. first = initial /\ ((fetched = None) <=> ~ Whole(disk.config))
    BY <1>2, Options DEF fetch_config
  <2>2. /\ mem'.current = first /\ mem'.upstream = first.upstream
        /\ mem'.retention = IF env.retention = None THEN first.retention ELSE env.retention[1]
        /\ mem'.fell_back = (fetched = None)
    BY DEF LoadConfig, Goto, Shaped
  <2> QED BY <2>1, <2>2
<1>4. HeldInv'
  BY <1>1 DEF ConfigInv, HeldInv
<1>5. RetentionIsChosen'
  BY <1>1, <1>3 DEF ConfigInv, HeldInv, RetentionIsChosen
<1>6. DriftIsWarned'
  BY <1>3 DEF DriftIsWarned
<1> QED BY <1>4, <1>5, <1>6 DEF ConfigInv

\* A round of the poll: what it stores a whole file has stated, what it does
\* not store it warns about.
LEMMA ConfigPolled ==
  ASSUME Shaped, ConfigInv, Reload
  PROVE  ConfigInv'
<1> DEFINE new == disk.config.value
<1>1. Whole(disk.config) /\ fetch_config(disk.config)[1] = new
  BY Options DEF Reload, fetch_config
<1>2. /\ pc' = pc /\ disk' = disk /\ env' = env /\ pc # "down"
      /\ mem'.held = mem.held /\ mem'.fell_back = mem.fell_back /\ mem'.upstream = mem.upstream
  BY DEF Reload, Polling, world, Shaped
<1>3. /\ mem'.current = new
      /\ mem'.retention \in {new.retention, mem.retention}
      /\ mem'.drift_warned = (mem.drift_warned \/ new.upstream # mem.current.upstream)
  BY <1>1 DEF Reload, Shaped
<1>4. new.retention \in mem.held
  BY <1>1, <1>2 DEF ConfigInv, HeldInv
<1>5. HeldInv'
  BY <1>2 DEF ConfigInv, HeldInv
<1>6. RetentionIsChosen'
  BY <1>2, <1>3, <1>4 DEF ConfigInv, RetentionIsChosen
<1>7. DriftIsWarned'
  BY <1>2, <1>3 DEF ConfigInv, DriftIsWarned
<1> QED BY <1>5, <1>6, <1>7 DEF ConfigInv

LEMMA ConfigStep == Shaped /\ ConfigInv /\ [Next]_vars => ConfigInv'
<1> SUFFICES ASSUME Shaped, ConfigInv, [Next]_vars PROVE ConfigInv'
  OBVIOUS
<1>1. CASE Exit
  BY <1>1, ConfigDown DEF Exit, Idle, NoMemory
<1>2. ASSUME mem' = mem, pc' = pc, disk'.config = disk.config, pc = "down" \/ env' = env
      PROVE  ConfigInv'
  BY <1>2 DEF ConfigInv, HeldInv, RetentionIsChosen, DriftIsWarned
<1>3. CASE Start
  <2>1. /\ pc' = "integrity" /\ disk' = disk /\ mem'.current.upstream = mem'.upstream
        /\ Whole(disk.config) => mem'.held = {disk.config.value.retention}
    BY <1>3 DEF Start, Goto, NoMemory
  <2> QED BY <2>1 DEF ConfigInv, HeldInv, RetentionIsChosen, DriftIsWarned
<1>4. ASSUME ConfigKept, disk'.config = disk.config, pc # "down", pc' \notin Unconfigured => pc \notin Unconfigured
      PROVE  ConfigInv'
  BY <1>4, ConfigFrame
<1>5. CASE verify_integrity
  <2>1. ~ Exit => ConfigKept /\ disk' = disk /\ pc # "down" /\ pc' \in Unconfigured
    BY <1>5 DEF verify_integrity, Goto, world, ConfigKept, Unconfigured
  <2> QED BY <1>1, <1>4, <2>1
<1>6. CASE load_license \/ WarnOfGrace
  <2>1. disk' = disk /\ pc # "down" /\ pc' \in Unconfigured
    BY <1>6 DEF load_license, WarnOfGrace, Goto, Unconfigured
  <2>2. ConfigKept
    <3>1. CASE load_license
      BY <3>1 DEF load_license, Goto, world, ConfigKept, Shaped
    <3>2. CASE WarnOfGrace
      BY <3>2 DEF WarnOfGrace, Goto, world, ConfigKept, Shaped
    <3> QED BY <1>6, <3>1, <3>2
  <2> QED BY <1>4, <2>1, <2>2
<1>7. CASE LoadConfig \/ Reload
  BY <1>7, ConfigLoaded, ConfigPolled
<1>8. CASE init_audit_storage \/ save_encrypted_key \/ OpenCert \/ WriteCert
  <2>1. ~ Exit => ConfigKept /\ disk'.config = disk.config
    <3>1. CASE init_audit_storage
      BY <3>1 DEF init_audit_storage, Goto, world, ConfigKept
    <3>2. CASE save_encrypted_key
      BY <3>2 DEF save_encrypted_key, WriteFails, Goto, world, ConfigKept, Shaped
    <3>3. CASE OpenCert
      BY <3>3 DEF OpenCert, WriteFails, Goto, world, ConfigKept, Shaped
    <3>4. CASE WriteCert
      BY <3>4 DEF WriteCert, WriteFails, Goto, world, ConfigKept, Shaped
    <3> QED BY <1>8, <3>1, <3>2, <3>3, <3>4
  <2>2. pc \notin Unconfigured
    BY <1>8 DEF init_audit_storage, save_encrypted_key, OpenCert, WriteCert, Unconfigured
  <2> QED BY <1>1, <1>4, <2>1, <2>2 DEF Unconfigured
<1>9. CASE load_connect_proxy_ca
  <2>1. pc \notin Unconfigured
    BY <1>9 DEF load_connect_proxy_ca, Unconfigured
  <2>2. CASE EphemeralCa
    <3>1. ConfigKept /\ disk' = disk
      BY <2>2 DEF EphemeralCa, NewCa, Generate, Goto, ConfigKept, Shaped
    <3> QED BY <1>4, <2>1, <3>1 DEF Unconfigured
  <2>3. CASE CreateCa
    <3>1. ~ Exit => ConfigKept
      BY <2>3, ZenonT(60) DEF CreateCa, WriteFails, NewCa, Generate, Goto, ConfigKept, Shaped
    <3>2. ~ Exit => disk'.config = disk.config
      BY <2>3 DEF CreateCa, WriteFails, Shaped
    <3> QED BY <1>1, <1>4, <2>1, <3>1, <3>2 DEF Unconfigured
  <2>4. CASE LoadCa
    <3>1. ~ Exit => ConfigKept /\ disk' = disk
      BY <2>4, ZenonT(60) DEF LoadCa, Goto, world, ConfigKept, Shaped
    <3> QED BY <1>1, <1>4, <2>1, <3>1 DEF Unconfigured
  <2> QED BY <1>1, <1>9, <2>2, <2>3, <2>4 DEF load_connect_proxy_ca, BadAddress
<1>10. CASE Bind
  <2>1. ~ Exit => ConfigKept /\ disk' = disk /\ pc \notin Unconfigured
    BY <1>10 DEF Bind, Goto, world, ConfigKept, Unconfigured, Shaped
  <2> QED BY <1>1, <1>4, <2>1 DEF Unconfigured
<1>11. CASE BeginEdit
  <2>1. ~ Whole(disk'.config) /\ mem' = mem /\ pc' = pc /\ env' = env
    BY <1>11 DEF BeginEdit, Shaped, Whole, Torn
  <2> QED BY <2>1 DEF ConfigInv, HeldInv, RetentionIsChosen, DriftIsWarned
<1>12. CASE EndEdit
  <2>1. PICK c \in work.configs :
          /\ disk' = [disk EXCEPT !.config = FileOf(c)]
          /\ mem' = [mem EXCEPT !.held = @ \cup IF pc = "down" THEN {} ELSE {c.retention}]
    BY <1>12 DEF EndEdit
  <2>2. disk'.config = FileOf(c) /\ disk'.config.value = c
    BY <2>1 DEF Shaped, FileOf
  <2>3. ConfigKept /\ pc' = pc /\ (pc # "down" => c.retention \in mem'.held)
    BY <1>12, <2>1 DEF EndEdit, ConfigKept, Shaped
  <2>4. CASE pc = "down"
    BY <2>3, <2>4 DEF ConfigInv, ConfigKept, HeldInv, RetentionIsChosen, DriftIsWarned
  <2>5. CASE pc # "down"
    BY <2>2, <2>3, <2>5, ConfigFrame
  <2> QED BY <2>4, <2>5
<1>13. CASE InstallLicence \/ ReplaceBinary \/ ChangeDisk
  BY <1>13, <1>2 DEF InstallLicence, ReplaceBinary, ChangeDisk, Shaped
<1>14. CASE SetSecret \/ SetAddresses
  BY <1>14, <1>2 DEF SetSecret, SetAddresses
<1>15. CASE Crash \/ Tick \/ TrustRoot \/ UsePort \/ UNCHANGED vars
  BY <1>15, <1>1, <1>2 DEF Crash, Tick, TrustRoot, UsePort, vars
<1> QED
  BY <1>3, <1>5, <1>6, <1>7, <1>8, <1>9, <1>10, <1>11, <1>12, <1>13, <1>14, <1>15 DEF Next, Boot, World

-----------------------------------------------------------------------------
(* The theorems *)

LEMMA Invariant == Spec => [](Shaped /\ DiskInv /\ RootsInv /\ UpInv /\ LicenceInv /\ ConfigInv)
<1> DEFINE Inv == Shaped /\ DiskInv /\ RootsInv /\ UpInv /\ LicenceInv /\ ConfigInv
<1>1. Init => Inv
  BY ShapeInit, DiskInit, RootsInit, UpInit, LicenceInit, ConfigInit
<1>2. Inv /\ [Next]_vars => Inv'
  BY ShapeStep, DiskStep, RootsStep, UpStep, LicenceStep, ConfigStep
<1> QED BY <1>1, <1>2, PTL DEF Spec

\* Every file, step and field keeps its type; the listeners that are up are
\* ones the licence in memory turns on, and all of them once it serves.
THEOREM TypeCorrect == Spec => []TypeOK
<1>1. ASSUME DiskInv, RootsInv, UpInv, LicenceInv
      PROVE  TypeOK
  <2>1. \A k \in trusted : k \in 1 .. nextKey - 1
    BY <1>1 DEF RootsInv, KeyInv, Known
  <2>2. \A f \in {"licence", "config", "ca_key", "root_cert"} : disk[f].state \in {"absent", "torn", "whole"}
    BY <1>1 DEF DiskInv, Licence
  <2>3. day \in 0 .. MaxDay
    BY <1>1 DEF LicenceInv, ClockInv
  <2> QED BY <1>1, <2>1, <2>2, <2>3 DEF TypeOK, DiskInv, UpInv
<1> QED BY <1>1, Invariant, PTL

\* With the secret configured, the root browsers are shown is the one devices
\* trust, after any number of crashes, restarts and changes of the secret.
THEOREM RootIsStable == Spec => []RootStable
<1>1. ASSUME RootsInv PROVE RootStable
  BY <1>1, Options DEF RootsInv, RootInv, RootStable
<1> QED BY <1>1, Invariant, PTL

\* The certificate file offered to administrators is the root in use.
THEOREM PublishedIsServed == Spec => []PublishedRootIsServed
<1>1. ASSUME RootsInv PROVE PublishedRootIsServed
  BY <1>1 DEF RootsInv, CertInv, PublishedRootIsServed
<1> QED BY <1>1, Invariant, PTL

\* Devices trust one root, it is the one in the certificate file, and it is
\* the one browsers are shown.
THEOREM TrustIsKept == Spec => []TrustKept
BY TypeCorrect, RootIsStable, PublishedIsServed, PTL DEF TrustKept

\* Licensed features come from a licence that was good at the start, and a
\* grace period is not silent.
THEOREM LicenceIsHonoured == Spec => []LicenceHonoured
<1>1. ASSUME LicenceInv PROVE LicenceHonoured
  BY <1>1 DEF LicenceInv, LicenceHonoured
<1> QED BY <1>1, Invariant, PTL

\* What is in force was chosen by somebody, and where it is not what the file
\* says the log tells.
THEOREM ConfigurationIsAccounted == Spec => []ConfigurationAccounted
<1>1. ASSUME ConfigInv PROVE ConfigurationAccounted
  BY <1>1 DEF ConfigInv, ConfigurationAccounted
<1> QED BY <1>1, Invariant, PTL

-----------------------------------------------------------------------------
(* The audit trail *)

USE BoundsAssumption

\* One UPDATE per id keeps a finite table of rows a finite table of rows.
LEMMA UpdateKeepsRows ==
  ASSUME NEW T, T \subseteq Row, IsFiniteSet(T), NEW id, NEW U,
         U = {IF r.id = id THEN [r EXCEPT !.synced = TRUE] ELSE r : r \in T}
  PROVE  U \subseteq Row /\ IsFiniteSet(U)
<1> DEFINE new(r) == IF r.id = id THEN [r EXCEPT !.synced = TRUE] ELSE r
           f == [r \in T |-> new(r)]
<1>1. \A r \in Row : new(r) \in Row
  BY DEF Row
<1>2. U \subseteq Row
  BY <1>1
<1>3. f \in Surjection(T, U)
  BY DEF Surjection
<1>4. IsFiniteSet(U)
  BY <1>3, FS_Surjection
<1> QED BY <1>2, <1>4

AuditTypeInv == AuditTypeOK /\ IsFiniteSet(table)

\* The table stays a finite set of rows, and every loop and secret well typed.
LEMMA AuditInvariant == AuditSpec => []AuditTypeInv
<1>1. AuditInit => AuditTypeInv
  <2> SUFFICES ASSUME AuditInit PROVE AuditTypeInv
    OBVIOUS
  <2>1. IsFiniteSet(table)
    BY FS_EmptySet DEF AuditInit
  <2> QED BY <2>1 DEF AuditInit, AuditTypeInv, AuditTypeOK, NoSecret, NoFile, Empty
<1>2. AuditTypeInv /\ [AuditNext]_auditVars => AuditTypeInv'
  <2> SUFFICES ASSUME AuditTypeInv, [AuditNext]_auditVars PROVE AuditTypeInv'
    OBVIOUS
  <2> USE DEF AuditTypeInv
  <2>1. CASE UNCHANGED auditVars
    BY <2>1 DEF auditVars, agentVars, retVars, relVars, AuditTypeOK
  <2>2. CASE Elapse
    BY <2>2 DEF Elapse, agentVars, relVars, AuditTypeOK
  <2>3. ASSUME NEW a \in Agents, BootAgent(a) PROVE AuditTypeInv'
    <3>0. keys < MaxKeys => keys + 1 \in Generated
      <4>1. keys \in 0 .. MaxKeys
        BY DEF AuditTypeOK
      <4> QED BY <4>1 DEF Generated
    <3>1. UNCHANGED <<now, table, saved, retVars, relVars>>
      BY <2>3 DEF BootAgent, BootWithEnv, BootWithFile, BootProvision, ProvisionCreate,
                  ProvisionWrite, ProvisionFails, Open, OpenFails, ComeUp
    <3>2. phase' \in [Agents -> {"down", "provisioning", "opening", "up"}]
      BY <2>3 DEF BootAgent, BootWithEnv, BootWithFile, BootProvision, ProvisionCreate,
                  ProvisionWrite, ProvisionFails, Open, OpenFails, ComeUp, AuditTypeOK
    <3>3. keys' \in 0 .. MaxKeys
      BY <2>3 DEF BootAgent, BootWithEnv, BootWithFile, BootProvision, ProvisionCreate,
                  ProvisionWrite, ProvisionFails, Open, OpenFails, AuditTypeOK
    <3>4. file' \in [Agents -> Generated \union {NoFile, Empty}]
      <4>1. \/ file' = file
            \/ \E f \in Generated \union {NoFile, Empty} : file' = [file EXCEPT ![a] = f]
        BY <2>3, <3>0
           DEF BootAgent, BootWithEnv, BootWithFile, BootProvision, ProvisionCreate,
               ProvisionWrite, ProvisionFails, Open, OpenFails
      <4>2. file \in [Agents -> Generated \union {NoFile, Empty}]
        BY DEF AuditTypeOK
      <4> QED BY <4>1, <4>2
    <3>5. key' \in [Agents -> Secret \union {NoSecret}]
      <4>1. keys < MaxKeys => keys + 1 \in Secret
        BY <3>0 DEF Secret
      <4>2. file[a] # NoFile => (IF file[a] = Empty THEN NoSecret ELSE file[a]) \in Secret \union {NoSecret}
        BY DEF Secret, AuditTypeOK
      <4>3. \A s \in EnvSecrets : s \in Secret
        BY DEF Secret
      <4>4. \/ key' = key
            \/ \E s \in Secret \union {NoSecret} : key' = [key EXCEPT ![a] = s]
        BY <2>3, <4>1, <4>2, <4>3
           DEF BootAgent, BootWithEnv, BootWithFile, BootProvision, ProvisionCreate,
               ProvisionWrite, ProvisionFails, Open, OpenFails, ComeUp
      <4>5. key \in [Agents -> Secret \union {NoSecret}]
        BY DEF AuditTypeOK
      <4> QED BY <4>4, <4>5
    <3> QED BY <3>1, <3>2, <3>3, <3>4, <3>5 DEF AuditTypeOK, retVars, relVars
  <2>4. ASSUME NEW a \in Agents, Restart(a) PROVE AuditTypeInv'
    BY <2>4 DEF Restart, AuditTypeOK
  <2>5. ASSUME NEW a \in Agents, SaveEvent(a) PROVE AuditTypeInv'
    <3> DEFINE row == [id |-> saved + 1, at |-> now, key |-> key[a], synced |-> FALSE]
    <3>1. table' = table \union {row} /\ saved' = saved + 1 /\ saved < MaxSaved
      BY <2>5 DEF SaveEvent
    <3>2. key[a] \in Secret
      BY <2>5 DEF SaveEvent, Persisting, AuditTypeOK
    <3>3. row \in Row
      BY <3>1, <3>2 DEF Row, AuditTypeOK
    <3>4. table' \subseteq Row
      BY <3>1, <3>3 DEF AuditTypeOK
    <3>5. IsFiniteSet(table')
      BY <3>1, FS_AddElement
    <3>6. saved' \in 0 .. MaxSaved
      BY <3>1 DEF AuditTypeOK
    <3>7. UNCHANGED <<now, agentVars, retVars, relVars>>
      BY <2>5 DEF SaveEvent
    <3> QED BY <3>4, <3>5, <3>6, <3>7 DEF AuditTypeOK, agentVars, retVars, relVars
  <2>6. ASSUME NEW a \in Agents, Retain(a) PROVE AuditTypeInv'
    <3>1. table' \subseteq table /\ UNCHANGED <<now, saved, agentVars, relVars>>
      BY <2>6 DEF Retain, RetentionWakes, PurgeOlderThan, CountEvents, SelectOldest,
                  DeleteExcess, StatementFails
    <3>2. table' \subseteq Row /\ IsFiniteSet(table')
      BY <3>1, FS_Subset DEF AuditTypeOK
    <3>3. ret' \in [Agents -> {"sleep", "purge", "count", "select", "delete"}]
      BY <2>6 DEF Retain, RetentionWakes, PurgeOlderThan, CountEvents, SelectOldest,
                  DeleteExcess, StatementFails, Sleep, AuditTypeOK
    <3>4. uptime' \in [Agents -> 0 .. Day]
      BY <2>6 DEF Retain, RetentionWakes, PurgeOlderThan, CountEvents, SelectOldest,
                  DeleteExcess, StatementFails, Sleep, AuditTypeOK
    <3>5. excess' \in [Agents -> Nat]
      <4>1. Cardinality(table) - MaxEvents > 0 => Cardinality(table) - MaxEvents \in Nat
        BY FS_CardinalityType
      <4>2. \/ excess' = excess
            \/ \E n \in Nat : excess' = [excess EXCEPT ![a] = n]
        BY <2>6, <4>1
           DEF Retain, RetentionWakes, PurgeOlderThan, CountEvents, SelectOldest,
               DeleteExcess, StatementFails
      <4> QED BY <4>2 DEF AuditTypeOK
    <3>6. victims' \in [Agents -> SUBSET (1 .. MaxSaved)]
      <4>1. ASSUME NEW V \in Oldest(table, excess[a]) PROVE {v.id : v \in V} \subseteq 1 .. MaxSaved
        BY DEF Oldest, Row, AuditTypeOK
      <4>2. victims[a] \subseteq 1 .. MaxSaved
        BY DEF AuditTypeOK
      <4>3. \/ victims' = victims
            \/ \E S \in SUBSET (1 .. MaxSaved) : victims' = [victims EXCEPT ![a] = S]
        <5>1. CASE SelectOldest(a)
          BY <5>1, <4>1 DEF SelectOldest
        <5>2. CASE DeleteExcess(a)
          BY <5>2, <4>2 DEF DeleteExcess
        <5>3. CASE StatementFails(a)
          BY <5>3 DEF StatementFails
        <5> QED BY <2>6, <5>1, <5>2, <5>3 DEF Retain, RetentionWakes, PurgeOlderThan, CountEvents
      <4>4. victims \in [Agents -> SUBSET (1 .. MaxSaved)]
        BY DEF AuditTypeOK
      <4> QED BY <4>3, <4>4
    <3> QED BY <3>1, <3>2, <3>3, <3>4, <3>5, <3>6 DEF AuditTypeOK, agentVars, relVars
  <2>7. ASSUME NEW a \in Agents, Relay(a) PROVE AuditTypeInv'
    <3>1. UNCHANGED <<now, saved, agentVars, retVars>>
      BY <2>7 DEF Relay, UnsyncedEvents, UploadAccepted, UploadFails, MarkSynced, MarkEnds
    <3>2. table' \subseteq Row /\ IsFiniteSet(table')
      <4>1. CASE MarkSynced(a)
        <5>1. PICK id \in batch[a] :
                table' = {IF r.id = id THEN [r EXCEPT !.synced = TRUE] ELSE r : r \in table}
          BY <4>1 DEF MarkSynced
        <5>2. table \subseteq Row /\ IsFiniteSet(table)
          BY DEF AuditTypeOK
        <5> DEFINE U == {IF r.id = id THEN [r EXCEPT !.synced = TRUE] ELSE r : r \in table}
        <5>3. U \subseteq Row /\ IsFiniteSet(U)
          BY <5>2, UpdateKeepsRows, Zenon
        <5> QED BY <5>1, <5>3
      <4>2. CASE ~MarkSynced(a)
        BY <2>7, <4>2 DEF Relay, UnsyncedEvents, UploadAccepted, UploadFails, MarkEnds, AuditTypeOK
      <4> QED BY <4>1, <4>2
    <3>3. rel' \in [Agents -> {"idle", "fetched", "mark"}]
      BY <2>7 DEF Relay, UnsyncedEvents, UploadAccepted, UploadFails, MarkSynced, MarkEnds, AuditTypeOK
    <3>4. batch' \in [Agents -> SUBSET (1 .. MaxSaved)] /\ accepted' \subseteq 1 .. MaxSaved
      <4>1. batch[a] \subseteq 1 .. MaxSaved
        BY DEF AuditTypeOK
      <4>2. ASSUME NEW V \in Oldest(Unsynced, Batch) PROVE {v.id : v \in V} \subseteq 1 .. MaxSaved
        BY DEF Oldest, Unsynced, Row, AuditTypeOK
      <4>3. \/ batch' = batch
            \/ \E S \in SUBSET (1 .. MaxSaved) : batch' = [batch EXCEPT ![a] = S]
        <5>1. CASE UnsyncedEvents(a)
          BY <5>1, <4>2 DEF UnsyncedEvents
        <5>2. CASE MarkSynced(a)
          BY <5>2, <4>1 DEF MarkSynced
        <5>3. CASE UploadAccepted(a) \/ UploadFails(a) \/ MarkEnds(a)
          BY <5>3 DEF UploadAccepted, UploadFails, MarkEnds
        <5> QED BY <2>7, <5>1, <5>2, <5>3 DEF Relay
      <4>4. accepted' \subseteq 1 .. MaxSaved
        BY <2>7, <4>1 DEF Relay, UnsyncedEvents, UploadAccepted, UploadFails, MarkSynced,
                          MarkEnds, AuditTypeOK
      <4>5. batch \in [Agents -> SUBSET (1 .. MaxSaved)]
        BY DEF AuditTypeOK
      <4> QED BY <4>3, <4>4, <4>5
    <3> QED BY <3>1, <3>2, <3>3, <3>4 DEF AuditTypeOK, agentVars, retVars
  <2> QED BY <2>1, <2>2, <2>3, <2>4, <2>5, <2>6, <2>7 DEF AuditNext
<1> QED BY <1>1, <1>2, PTL DEF AuditSpec

\* The table, the secrets and the loops keep their types.
THEOREM AuditTypeCorrect == AuditSpec => []AuditTypeOK
  BY AuditInvariant, PTL DEF AuditTypeInv

\* What a marked event, and one about to be marked, have behind them.
RelayInv ==
  /\ SyncedWasAccepted
  /\ \A a \in Agents : rel[a] = "mark" => batch[a] \subseteq accepted

\* No event is marked as relayed before the control plane accepted it,
\* however uploads, answers, updates and restarts fail or interleave.
THEOREM MarkedWasAccepted == AuditSpec => []SyncedWasAccepted
<1>1. AuditInit => RelayInv
  BY DEF AuditInit, RelayInv, SyncedWasAccepted
<1>2. AuditTypeInv /\ RelayInv /\ [AuditNext]_auditVars => RelayInv'
  <2> SUFFICES ASSUME AuditTypeInv, RelayInv, [AuditNext]_auditVars PROVE RelayInv'
    OBVIOUS
  <2> USE DEF RelayInv, SyncedWasAccepted
  <2>0. ASSUME table' \subseteq table, UNCHANGED relVars PROVE RelayInv'
    BY <2>0 DEF relVars
  <2>1. CASE UNCHANGED auditVars \/ Elapse
    BY <2>0, <2>1 DEF auditVars, Elapse
  <2>2. ASSUME NEW a \in Agents, BootAgent(a) PROVE RelayInv'
    BY <2>0, <2>2 DEF BootAgent, BootWithEnv, BootWithFile, BootProvision, ProvisionCreate,
                      ProvisionWrite, ProvisionFails, Open, OpenFails, ComeUp
  <2>3. ASSUME NEW a \in Agents, Restart(a) PROVE RelayInv'
    BY <2>3 DEF Restart, AuditTypeInv, AuditTypeOK
  <2>4. ASSUME NEW a \in Agents, SaveEvent(a) PROVE RelayInv'
    BY <2>4 DEF SaveEvent, relVars
  <2>5. ASSUME NEW a \in Agents, Retain(a) PROVE RelayInv'
    BY <2>0, <2>5 DEF Retain, RetentionWakes, PurgeOlderThan, CountEvents, SelectOldest,
                      DeleteExcess, StatementFails
  <2>6. ASSUME NEW a \in Agents, Relay(a) PROVE RelayInv'
    <3>1. CASE UnsyncedEvents(a) \/ MarkEnds(a)
      BY <3>1 DEF UnsyncedEvents, MarkEnds, AuditTypeInv, AuditTypeOK
    <3>2. CASE UploadAccepted(a)
      BY <3>2 DEF UploadAccepted, AuditTypeInv, AuditTypeOK
    <3>3. CASE UploadFails(a)
      BY <3>3 DEF UploadFails, AuditTypeInv, AuditTypeOK
    <3>4. CASE MarkSynced(a)
      <4>1. PICK id \in batch[a] :
              /\ table' = {IF r.id = id THEN [r EXCEPT !.synced = TRUE] ELSE r : r \in table}
              /\ batch' = [batch EXCEPT ![a] = @ \ {id}]
        BY <3>4 DEF MarkSynced
      <4>2. id \in accepted /\ UNCHANGED <<rel, accepted>>
        BY <3>4 DEF MarkSynced
      <4>3. SyncedWasAccepted'
        <5> SUFFICES ASSUME NEW q \in table', q.synced PROVE q.id \in accepted
          BY <4>2
        <5>1. PICK r \in table : q = IF r.id = id THEN [r EXCEPT !.synced = TRUE] ELSE r
          BY <4>1
        <5>2. r \in Row
          BY DEF AuditTypeInv, AuditTypeOK
        <5> QED BY <4>2, <5>1, <5>2 DEF Row
      <4>4. \A b \in Agents : rel'[b] = "mark" => batch'[b] \subseteq accepted'
        BY <4>1, <4>2 DEF AuditTypeInv, AuditTypeOK
      <4> QED BY <4>3, <4>4
    <3> QED BY <2>6, <3>1, <3>2, <3>3, <3>4 DEF Relay
  <2> QED BY <2>1, <2>2, <2>3, <2>4, <2>5, <2>6 DEF AuditNext
<1>3. RelayInv => SyncedWasAccepted
  BY DEF RelayInv
<1> QED BY <1>1, <1>2, <1>3, AuditInvariant, PTL DEF AuditSpec

\* A provisioned secret, in memory or behind a row, is the one in the file.
SecretInv ==
  \A a \in Agents :
    /\ key[a] \in Generated => key[a] = file[a]
    /\ \A r \in table : r.key \in Generated => r.key = file[a]

\* An Agent with its own table reads back every event it stored under a
\* secret it provisioned, whatever crashed while it was provisioned and
\* whichever secrets an operator set in between.
THEOREM RowsStayReadable ==
  ASSUME \A a, b \in Agents : a = b
  PROVE  AuditSpec => []ProvisionedRowsReadable
<1> USE DEF SecretInv, NoSecret, NoFile, Empty
<1>1. AuditInit => SecretInv
  BY DEF AuditInit, Generated
<1>2. AuditTypeInv /\ SecretInv /\ [AuditNext]_auditVars => SecretInv'
  <2> SUFFICES ASSUME AuditTypeInv, SecretInv, [AuditNext]_auditVars PROVE SecretInv'
    OBVIOUS
  <2>0. /\ file \in [Agents -> Generated \union {NoFile, Empty}]
        /\ key \in [Agents -> Secret \union {NoSecret}]
        /\ \A k \in Generated : k \notin {NoSecret, NoFile, Empty}
        /\ \A s \in EnvSecrets : s \notin Generated
    BY SecretsAssumption DEF AuditTypeInv, AuditTypeOK, Generated
  <2>1. ASSUME UNCHANGED <<file, key>>, table' \subseteq table PROVE SecretInv'
    BY <2>1
  <2>2. CASE UNCHANGED auditVars \/ Elapse
    BY <2>1, <2>2 DEF auditVars, Elapse, agentVars
  <2>3. ASSUME NEW a \in Agents, BootAgent(a) PROVE SecretInv'
    <3>1. CASE BootWithEnv(a)
      BY <2>0, <3>1 DEF BootWithEnv, ComeUp
    <3>2. CASE BootWithFile(a) \/ ProvisionFails(a)
      BY <2>0, <3>2 DEF BootWithFile, ProvisionFails, ComeUp
    <3>3. CASE BootProvision(a)
      BY <2>1, <3>3 DEF BootProvision
    <3>4. CASE ProvisionCreate(a)
      BY <2>0, <3>4 DEF ProvisionCreate
    <3>5. CASE ProvisionWrite(a)
      <4>1. \A r \in table : r.key \notin Generated
        BY <2>0, <3>5 DEF ProvisionWrite
      <4> QED BY <2>0, <3>5, <4>1 DEF ProvisionWrite, ComeUp
    <3>6. CASE Open(a)
      BY <2>1, <3>6 DEF Open
    <3>7. CASE OpenFails(a)
      BY <2>0, <3>7 DEF OpenFails
    <3> QED BY <2>3, <3>1, <3>2, <3>3, <3>4, <3>5, <3>6, <3>7 DEF BootAgent
  <2>4. ASSUME NEW a \in Agents, Restart(a) PROVE SecretInv'
    BY <2>0, <2>4 DEF Restart
  <2>5. ASSUME NEW a \in Agents, SaveEvent(a) PROVE SecretInv'
    <3> DEFINE row == [id |-> saved + 1, at |-> now, key |-> key[a], synced |-> FALSE]
    <3>1. table' = table \union {row} /\ UNCHANGED <<file, key>>
      BY <2>5 DEF SaveEvent, agentVars
    <3>2. row.key \in Generated => row.key = file[a]
      OBVIOUS
    <3> HIDE DEF row
    <3> QED BY <3>1, <3>2
  <2>6. ASSUME NEW a \in Agents, Retain(a) PROVE SecretInv'
    BY <2>1, <2>6 DEF Retain, RetentionWakes, PurgeOlderThan, CountEvents, SelectOldest,
                      DeleteExcess, StatementFails, agentVars
  <2>7. ASSUME NEW a \in Agents, Relay(a) PROVE SecretInv'
    <3>1. CASE MarkSynced(a)
      <4>1. PICK id \in batch[a] :
              table' = {IF r.id = id THEN [r EXCEPT !.synced = TRUE] ELSE r : r \in table}
        BY <3>1 DEF MarkSynced
      <4>2. \A r \in table : r \in Row
        BY DEF AuditTypeInv, AuditTypeOK
      <4>3. \A q \in table' : \E r \in table : q.key = r.key
        BY <4>1, <4>2 DEF Row
      <4>4. UNCHANGED <<file, key>>
        BY <3>1 DEF MarkSynced, agentVars
      <4> QED BY <4>3, <4>4
    <3>2. CASE ~MarkSynced(a)
      BY <2>1, <2>7, <3>2 DEF Relay, UnsyncedEvents, UploadAccepted, UploadFails, MarkEnds, agentVars
    <3> QED BY <3>1, <3>2
  <2> QED BY <2>2, <2>3, <2>4, <2>5, <2>6, <2>7 DEF AuditNext
<1>3. SecretInv => ProvisionedRowsReadable
  BY DEF ProvisionedRowsReadable, Persisting, Readable
<1> QED BY <1>1, <1>2, <1>3, AuditInvariant, PTL DEF AuditSpec

Ids(rows) == {r.id : r \in rows}
Kept(rows, ids) == {r \in rows : r.id \notin ids}
Marked(rows, id) == {IF r.id = id THEN [r EXCEPT !.synced = TRUE] ELSE r : r \in rows}

\* Marking a row as synced neither merges rows nor moves one in or out of a
\* selection by id.
LEMMA UpdateKeepsIds ==
  ASSUME NEW T, T \subseteq Row, IsFiniteSet(T), NEW id, NEW ids,
         \A r, q \in T : r.id = q.id => r = q
  PROVE  /\ Ids(Marked(T, id)) = Ids(T)
         /\ \A r, q \in Marked(T, id) : r.id = q.id => r = q
         /\ Cardinality(Kept(Marked(T, id), ids)) = Cardinality(Kept(T, ids))
<1> DEFINE U == Marked(T, id)
           new(r) == IF r.id = id THEN [r EXCEPT !.synced = TRUE] ELSE r
           f == [r \in Kept(T, ids) |-> new(r)]
<1>1. \A r \in T : new(r).id = r.id
  BY DEF Row
<1>2. /\ \A r \in T : new(r) \in U
      /\ \A q \in U : \E r \in T : q = new(r)
  BY DEF Marked
<1> HIDE DEF new, U
<1>3. Ids(U) = Ids(T)
  BY <1>1, <1>2 DEF Ids
<1>4. \A r, q \in U : r.id = q.id => r = q
  BY <1>1, <1>2
<1>5. f \in Bijection(Kept(T, ids), Kept(U, ids))
  <2>1. \A r \in Kept(T, ids) : new(r) \in Kept(U, ids)
    BY <1>1, <1>2 DEF Kept
  <2>2. \A r, q \in Kept(T, ids) : new(r) = new(q) => r = q
    BY <1>1 DEF Kept
  <2>3. \A q \in Kept(U, ids) : \E r \in Kept(T, ids) : q = new(r)
    BY <1>1, <1>2 DEF Kept
  <2>4. f \in [Kept(T, ids) -> Kept(U, ids)] /\ \A r \in Kept(T, ids) : f[r] = new(r)
    BY <2>1
  <2> HIDE DEF f
  <2>5. f \in Injection(Kept(T, ids), Kept(U, ids))
    BY <2>2, <2>4 DEF Injection, IsInjective
  <2>6. f \in Surjection(Kept(T, ids), Kept(U, ids))
    BY <2>3, <2>4 DEF Surjection
  <2> QED BY <2>5, <2>6 DEF Bijection
<1>6. IsFiniteSet(Kept(T, ids))
  BY FS_Subset DEF Kept
<1>7. ExistsBijection(Kept(T, ids), Kept(U, ids))
  BY <1>5 DEF ExistsBijection
<1>8. Cardinality(Kept(U, ids)) = Cardinality(Kept(T, ids))
  BY <1>6, <1>7, FS_Bijection
<1> QED BY <1>3, <1>4, <1>8 DEF U

\* Rows have ids of their own, given out in order; between the count and the
\* last DELETE, max_events rows remain beside those that are to go.
CapInv ==
  /\ \A r \in table : r.id <= saved
  /\ \A r, q \in table : r.id = q.id => r = q
  /\ \A a \in Agents :
       /\ ret[a] = "select" => Cardinality(table) >= MaxEvents + excess[a]
       /\ ret[a] = "delete" => Cardinality(Kept(table, victims[a])) >= MaxEvents

\* One step of the only Agent of a table keeps those rows, and deletes none
\* that is neither expired nor in excess of the cap.
LEMMA CapStep ==
  ASSUME \A a, b \in Agents : a = b, AuditTypeInv, CapInv, [AuditNext]_auditVars
  PROVE  /\ CapInv'
         /\ \A r \in table :
              (\A q \in table' : q.id # r.id)
              => Expired(r) \/ Cardinality(table') >= MaxEvents
<1> DEFINE Justified == \A r \in table :
                          (\A q \in table' : q.id # r.id)
                          => Expired(r) \/ Cardinality(table') >= MaxEvents
<1> SUFFICES CapInv' /\ Justified
  OBVIOUS
<1>0. /\ table \subseteq Row /\ IsFiniteSet(table) /\ Cardinality(table) \in Nat
      /\ saved \in Nat /\ ret \in [Agents -> {"sleep", "purge", "count", "select", "delete"}] /\ excess \in [Agents -> Nat]
      /\ victims \in [Agents -> SUBSET (1 .. MaxSaved)]
      /\ \A r \in table : r.id \in Nat
  <2>1. /\ table \subseteq Row /\ IsFiniteSet(table) /\ saved \in Nat
        /\ ret \in [Agents -> {"sleep", "purge", "count", "select", "delete"}] /\ excess \in [Agents -> Nat]
        /\ victims \in [Agents -> SUBSET (1 .. MaxSaved)]
    <3>1. \A n \in 0 .. MaxSaved : n \in Nat
      OBVIOUS
    <3> QED BY <3>1 DEF AuditTypeInv, AuditTypeOK
  <2>2. Cardinality(table) \in Nat
    BY <2>1, FS_CardinalityType
  <2>3. \A r \in table : r.id \in Nat
    BY <2>1 DEF Row
  <2> QED BY <2>1, <2>2, <2>3
<1>1. ASSUME UNCHANGED <<table, saved, ret, excess, victims>> PROVE CapInv' /\ Justified
  BY <1>1 DEF CapInv, Kept
<1>2. CASE UNCHANGED auditVars \/ Elapse
  BY <1>1, <1>2 DEF auditVars, retVars, Elapse
<1>3. ASSUME NEW a \in Agents, BootAgent(a) PROVE CapInv' /\ Justified
  BY <1>1, <1>3 DEF BootAgent, BootWithEnv, BootWithFile, BootProvision, ProvisionCreate,
                    ProvisionWrite, ProvisionFails, Open, OpenFails, ComeUp, retVars
<1>4. ASSUME NEW a \in Agents, Restart(a) PROVE CapInv' /\ Justified
  <2>1. UNCHANGED <<table, saved>> /\ ret'[a] = "sleep"
    BY <1>0, <1>4 DEF Restart
  <2> QED BY <2>1 DEF CapInv
<1>5. ASSUME NEW a \in Agents, SaveEvent(a) PROVE CapInv' /\ Justified
  <2> DEFINE row == [id |-> saved + 1, at |-> now, key |-> key[a], synced |-> FALSE]
  <2>1. /\ table' = table \union {row} /\ saved' = saved + 1
        /\ UNCHANGED <<ret, excess, victims>>
    BY <1>5 DEF SaveEvent, retVars
  <2>2. row.id = saved + 1
    OBVIOUS
  <2> HIDE DEF row
  <2>3. \A r \in table' : r.id <= saved'
    BY <1>0, <2>1, <2>2 DEF CapInv
  <2>4. \A r, q \in table' : r.id = q.id => r = q
    BY <1>0, <2>1, <2>2 DEF CapInv
  <2>5. IsFiniteSet(table')
    BY <1>0, <2>1, FS_AddElement
  <2>6. Cardinality(table') \in Nat /\ Cardinality(table) <= Cardinality(table')
    BY <1>0, <2>1, <2>5, FS_Subset, FS_CardinalityType
  <2>7. ASSUME NEW ids
        PROVE  /\ Cardinality(Kept(table, ids)) \in Nat /\ Cardinality(Kept(table', ids)) \in Nat
               /\ Cardinality(Kept(table, ids)) <= Cardinality(Kept(table', ids))
    <3>1. Kept(table, ids) \subseteq Kept(table', ids) /\ Kept(table', ids) \subseteq table'
      BY <2>1 DEF Kept
    <3>2. IsFiniteSet(Kept(table', ids))
      BY <2>5, <3>1, FS_Subset
    <3> QED BY <3>1, <3>2, FS_Subset, FS_CardinalityType
  <2>8. ASSUME NEW b \in Agents, ret'[b] = "select"
        PROVE  Cardinality(table') >= MaxEvents + excess'[b]
    BY <1>0, <2>1, <2>6, <2>8 DEF CapInv
  <2>9. ASSUME NEW b \in Agents, ret'[b] = "delete"
        PROVE  Cardinality(Kept(table', victims'[b])) >= MaxEvents
    <3>1. Cardinality(Kept(table, victims[b])) >= MaxEvents /\ victims'[b] = victims[b]
      BY <2>1, <2>9 DEF CapInv
    <3> QED BY <2>7, <3>1
  <2>10. CapInv'
    BY <2>3, <2>4, <2>8, <2>9 DEF CapInv
  <2>11. Justified
    BY <2>1
  <2> QED BY <2>10, <2>11
<1>6. ASSUME NEW a \in Agents, Retain(a) PROVE CapInv' /\ Justified
  <2>0. saved' = saved
    BY <1>6 DEF Retain, RetentionWakes, PurgeOlderThan, CountEvents, SelectOldest,
                DeleteExcess, StatementFails
  <2>1. ASSUME UNCHANGED table, ret'[a] \notin {"select", "delete"} PROVE CapInv' /\ Justified
    BY <2>0, <2>1 DEF CapInv
  <2>2. CASE RetentionWakes(a)
    BY <1>0, <2>1, <2>2 DEF RetentionWakes
  <2>3. CASE PurgeOlderThan(a)
    <3>1. table' = {r \in table : ~Expired(r)} /\ ret'[a] = "count"
      BY <1>0, <2>3 DEF PurgeOlderThan
    <3>2. CapInv'
      BY <2>0, <3>1 DEF CapInv
    <3>3. Justified
      BY <3>1
    <3> QED BY <3>2, <3>3
  <2>4. CASE CountEvents(a)
    <3> DEFINE over == Cardinality(table) - MaxEvents
    <3>1. UNCHANGED table
      BY <2>4 DEF CountEvents
    <3>2. CASE /\ over > 0 /\ excess' = [excess EXCEPT ![a] = over]
               /\ ret' = [ret EXCEPT ![a] = "select"]
      <4>1. ret'[a] = "select" /\ Cardinality(table) >= MaxEvents + excess'[a]
        BY <1>0, <3>2
      <4> QED BY <2>0, <3>1, <4>1 DEF CapInv
    <3>3. CASE ret' = [ret EXCEPT ![a] = "sleep"]
      BY <1>0, <2>1, <3>1, <3>3
    <3> QED BY <2>4, <3>2, <3>3 DEF CountEvents, Sleep
  <2>5. CASE SelectOldest(a)
    <3>1. PICK V \in Oldest(table, excess[a]) :
            victims' = [victims EXCEPT ![a] = {v.id : v \in V}]
      BY <2>5 DEF SelectOldest
    <3>2. /\ UNCHANGED table /\ ret[a] = "select" /\ ret'[a] = "delete"
          /\ victims'[a] = {v.id : v \in V}
      BY <1>0, <2>5, <3>1 DEF SelectOldest
    <3>3. V \subseteq table /\ Cardinality(V) <= excess[a]
      BY <1>0 DEF Oldest
    <3>4. Kept(table, victims'[a]) = table \ V
      BY <3>2, <3>3 DEF Kept, CapInv
    <3>5. Cardinality(table \ V) = Cardinality(table) - Cardinality(V)
      <4>1. table \cap V = V
        BY <3>3
      <4> QED BY <1>0, <4>1, FS_Difference
    <3>6. Cardinality(V) \in Nat
      BY <1>0, <3>3, FS_Subset, FS_CardinalityType
    <3>7. Cardinality(Kept(table', victims'[a])) >= MaxEvents
      <4>1. Cardinality(table) >= MaxEvents + excess[a] /\ excess[a] \in Nat
        BY <1>0, <3>2 DEF CapInv
      <4>2. Cardinality(Kept(table, victims'[a])) = Cardinality(table) - Cardinality(V)
        BY <3>4, <3>5
      <4>3. Cardinality(Kept(table, victims'[a])) >= MaxEvents
        BY <1>0, <3>3, <3>6, <4>1, <4>2
      <4> QED BY <3>2, <4>3
    <3> QED BY <2>0, <3>2, <3>7 DEF CapInv
  <2>6. CASE DeleteExcess(a)
    <3>1. CASE ret' = [ret EXCEPT ![a] = "sleep"] /\ UNCHANGED table
      BY <1>0, <2>1, <3>1
    <3>2. ASSUME NEW id \in victims[a],
                 table' = {r \in table : r.id # id},
                 victims' = [victims EXCEPT ![a] = @ \ {id}],
                 ret' = ret
          PROVE  CapInv' /\ Justified
      <4>1. Kept(table', victims'[a]) = Kept(table, victims[a])
        BY <1>0, <3>2 DEF Kept
      <4>2. ret[a] = "delete"
        BY <2>6 DEF DeleteExcess
      <4>3. Cardinality(Kept(table, victims[a])) >= MaxEvents
        BY <4>2 DEF CapInv
      <4>4. CapInv'
        BY <2>0, <3>2, <4>1, <4>2, <4>3 DEF CapInv
      <4>5. Cardinality(table') >= MaxEvents
        <5>1. Kept(table, victims[a]) \subseteq table' /\ IsFiniteSet(table')
          BY <1>0, <3>2, FS_Subset DEF Kept
        <5>2. /\ Cardinality(Kept(table, victims[a])) <= Cardinality(table')
              /\ Cardinality(Kept(table, victims[a])) \in Nat /\ Cardinality(table') \in Nat
          BY <5>1, FS_Subset, FS_CardinalityType
        <5> QED BY <4>3, <5>2
      <4> QED BY <4>4, <4>5
    <3> QED BY <2>6, <3>1, <3>2 DEF DeleteExcess, Sleep
  <2>7. CASE StatementFails(a)
    BY <1>0, <2>1, <2>7 DEF StatementFails, Sleep
  <2> QED BY <1>6, <2>2, <2>3, <2>4, <2>5, <2>6, <2>7 DEF Retain
<1>7. ASSUME NEW a \in Agents, Relay(a) PROVE CapInv' /\ Justified
  <2>1. CASE MarkSynced(a)
    <3>1. PICK id \in batch[a] :
            table' = {IF r.id = id THEN [r EXCEPT !.synced = TRUE] ELSE r : r \in table}
      BY <2>1 DEF MarkSynced
    <3>2. UNCHANGED <<saved, ret, excess, victims>>
      BY <2>1 DEF MarkSynced, retVars
    <3> DEFINE U == Marked(table, id)
    <3>3. \A r, q \in table : r.id = q.id => r = q
      BY DEF CapInv
    <3>5. table' = U
      BY <3>1 DEF Marked
    <3>4. \A ids : /\ Ids(U) = Ids(table)
                   /\ \A r, q \in U : r.id = q.id => r = q
                   /\ Cardinality(Kept(U, ids)) = Cardinality(Kept(table, ids))
      <4> TAKE ids
      <4> QED BY <1>0, <3>3, UpdateKeepsIds
    <3> HIDE DEF U
    <3>6. Cardinality(table') = Cardinality(table)
      <4>1. Kept(U, {}) = U /\ Kept(table, {}) = table
        BY DEF Kept
      <4> QED BY <3>4, <3>5, <4>1
    <3>7. /\ \A r \in table' : \E q \in table : r.id = q.id
          /\ \A q \in table : \E r \in table' : r.id = q.id
      BY <3>4, <3>5 DEF Ids
    <3>8. CapInv'
      BY <3>2, <3>4, <3>5, <3>6, <3>7 DEF CapInv
    <3>9. Justified
      BY <3>7
    <3> QED BY <3>8, <3>9
  <2>2. CASE ~MarkSynced(a)
    BY <1>1, <1>7, <2>2 DEF Relay, UnsyncedEvents, UploadAccepted, UploadFails, MarkEnds, retVars
  <2> QED BY <2>1, <2>2
<1> QED BY <1>2, <1>3, <1>4, <1>5, <1>6, <1>7 DEF AuditNext

\* On an Agent's own table retention deletes nothing that is neither older
\* than the retention period nor in excess of the cap, though events are
\* saved, marked and purged between the count, the selection and each DELETE.
THEOREM RetentionIsMeasured ==
  ASSUME \A a, b \in Agents : a = b
  PROVE  AuditSpec => NothingDeletedEarly
<1>1. AuditInit => CapInv
  BY DEF AuditInit, CapInv
<1>2. AuditTypeInv /\ CapInv /\ [AuditNext]_auditVars => CapInv'
  BY CapStep
<1>3. AuditTypeInv /\ CapInv /\ [AuditNext]_auditVars
      => [\A r \in table :
            (\A q \in table' : q.id # r.id)
            => Expired(r) \/ Cardinality(table') >= MaxEvents]_auditVars
  BY CapStep
<1> QED BY <1>1, <1>2, <1>3, AuditInvariant, PTL DEF AuditSpec, NothingDeletedEarly
=============================================================================
