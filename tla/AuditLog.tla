------------------------------ MODULE AuditLog ------------------------------
(***************************************************************************)
(* The audit trail: the audit_events table of crates/storage, the secret   *)
(* each Agent encrypts findings with (resolve_audit_encryption_secret in   *)
(* apps/service), the retention loop of init_audit_storage, and the relay  *)
(* that uploads events (a closed crate, modelled from the storage calls    *)
(* made for it).                                                           *)
(*                                                                         *)
(* One Agent has its own SQLite file; several share a tenant when          *)
(* SAFEPROMPT_AUDIT_DB_PATH names a Postgres server.  Every SQL statement  *)
(* is one action.  Findings are opaque: a row carries the key they were    *)
(* encrypted with, and only that key decrypts them.                        *)
(*                                                                         *)
(* Names are prefixed where Service has them too: ServiceProofs is about   *)
(* both.                                                                   *)
(***************************************************************************)
EXTENDS Integers, FiniteSets

CONSTANTS
  Agents,      \* Agents that share the table
  EnvSecrets,  \* values an operator may give SAFEPROMPT_AUDIT_ENCRYPTION_SECRET
  MaxEvents,   \* SAFEPROMPT_AUDIT_MAX_EVENTS
  Retention,   \* audit_retention_days, in ticks
  Day,         \* the retention loop's sleep, in ticks
  Batch,       \* limit of unsynced_events
  MaxSaved,    \* bound: events saved
  MaxKeys,     \* bound: secrets generated
  MaxTime      \* bound: the clock stops here

ASSUME BoundsAssumption ==
  /\ MaxEvents \in Nat /\ Retention \in Nat /\ Day \in Nat \ {0} /\ Batch \in Nat \ {0}
  /\ MaxSaved \in Nat /\ MaxKeys \in Nat /\ MaxTime \in Nat
ASSUME SecretsAssumption == \A s \in EnvSecrets : s \notin Int

VARIABLES
  now,       \* wall clock
  table,     \* audit_events: set of [id, at, key, synced]
  file,      \* per Agent: audit_encryption_secret.key
  phase,     \* per Agent: down, provisioning, opening, up
  key,       \* per Agent: encryption_secret in memory, NoSecret if not persisting
  uptime,    \* per Agent: ticks since the retention loop last went to sleep
  ret,       \* per Agent: where the retention loop is
  excess,    \* per Agent: total - max_events
  victims,   \* per Agent: ids selected for deletion
  rel,       \* per Agent: where the relay is
  batch,     \* per Agent: ids it fetched
  keys,      \* secrets generated so far
  saved,     \* events saved so far
  accepted   \* ids the control plane has accepted

agentVars == <<file, phase, key, keys>>
retVars   == <<uptime, ret, excess, victims>>
relVars   == <<rel, batch, accepted>>
auditVars == <<now, table, saved, agentVars, retVars, relVars>>

NoSecret == 0                      \* no secret: events are not persisted
NoFile == -1                       \* no secret file
Empty  == -2                       \* created, nothing written to it
Generated == 1 .. MaxKeys          \* generated secrets
Secret == Generated \union EnvSecrets
Row    == [id : 1 .. MaxSaved, at : 0 .. MaxTime, key : Secret, synced : BOOLEAN]

AuditInit ==
  /\ now = 0
  /\ table = {} /\ saved = 0
  /\ file = [a \in Agents |-> NoFile]
  /\ phase = [a \in Agents |-> "down"]
  /\ key = [a \in Agents |-> NoSecret] /\ keys = 0
  /\ uptime = [a \in Agents |-> 0]
  /\ ret = [a \in Agents |-> "sleep"]
  /\ excess = [a \in Agents |-> 0]
  /\ victims = [a \in Agents |-> {}]
  /\ rel = [a \in Agents |-> "idle"]
  /\ batch = [a \in Agents |-> {}]
  /\ accepted = {}

\* The clock, and the timers of the loops that sleep.
Elapse ==
  /\ now' = IF now < MaxTime THEN now + 1 ELSE now
  /\ uptime' = [a \in Agents |->
                  IF phase[a] = "up" /\ ret[a] = "sleep" /\ uptime[a] < Day
                  THEN uptime[a] + 1 ELSE uptime[a]]
  /\ UNCHANGED <<table, saved, agentVars, ret, excess, victims, relVars>>

-----------------------------------------------------------------------------
(* resolve_audit_encryption_secret and init_audit_storage *)

\* The secret is settled: the database is opened next, or, with no secret,
\* the Agent runs without one (events are logged, not persisted).
ComeUp(a, secret) ==
  /\ phase' = [phase EXCEPT ![a] = IF secret = NoSecret THEN "up" ELSE "opening"]
  /\ key' = [key EXCEPT ![a] = secret]
  /\ UNCHANGED <<now, table, saved, retVars, relVars>>

BootWithEnv(a) ==
  /\ phase[a] = "down"
  /\ \E s \in EnvSecrets : ComeUp(a, s)
  /\ UNCHANGED <<file, keys>>

\* An existing file is used as it is, an empty one fails closed.
BootWithFile(a) ==
  /\ phase[a] = "down" /\ file[a] # NoFile
  /\ ComeUp(a, IF file[a] = Empty THEN NoSecret ELSE file[a])
  /\ UNCHANGED <<file, keys>>

\* First run: a secret is generated ...
BootProvision(a) ==
  /\ phase[a] = "down" /\ file[a] = NoFile
  /\ keys < MaxKeys
  /\ phase' = [phase EXCEPT ![a] = "provisioning"]
  /\ UNCHANGED <<now, table, saved, file, key, keys, retVars, relVars>>

\* ... fs::write creates the file ...
ProvisionCreate(a) ==
  /\ phase[a] = "provisioning" /\ file[a] = NoFile
  /\ file' = [file EXCEPT ![a] = Empty]
  /\ UNCHANGED <<now, table, saved, phase, key, keys, retVars, relVars>>

\* ... and fills it.
ProvisionWrite(a) ==
  /\ phase[a] = "provisioning" /\ file[a] = Empty
  /\ keys < MaxKeys
  /\ keys' = keys + 1
  /\ file' = [file EXCEPT ![a] = keys + 1]
  /\ ComeUp(a, keys + 1)

\* Mutant: a secret that could not be stored is used all the same.
ProvisionFailsOpen(a) ==
  /\ phase[a] = "provisioning"
  /\ keys < MaxKeys
  /\ keys' = keys + 1
  /\ ComeUp(a, keys + 1)
  /\ UNCHANGED file

\* The directory, the file or the write fails: fail closed.
ProvisionFails(a) ==
  /\ phase[a] = "provisioning"
  /\ ComeUp(a, NoSecret)
  /\ UNCHANGED <<file, keys>>

\* LocalDatabase::init succeeds; the retention loop and the relay start.
Open(a) ==
  /\ phase[a] = "opening"
  /\ phase' = [phase EXCEPT ![a] = "up"]
  /\ UNCHANGED <<now, table, saved, file, key, keys, retVars, relVars>>

\* The secret file cannot be read, or the database not be opened or
\* migrated: the Agent runs until its next restart without persisting.
OpenFails(a) ==
  /\ phase[a] = "opening"
  /\ phase' = [phase EXCEPT ![a] = "up"]
  /\ key' = [key EXCEPT ![a] = NoSecret]
  /\ UNCHANGED <<now, table, saved, file, keys, retVars, relVars>>

\* A crash, an update, a reboot: memory is gone, files and table stay.
Restart(a) ==
  /\ phase[a] # "down"
  /\ phase' = [phase EXCEPT ![a] = "down"]
  /\ key' = [key EXCEPT ![a] = NoSecret]
  /\ uptime' = [uptime EXCEPT ![a] = 0]
  /\ ret' = [ret EXCEPT ![a] = "sleep"]
  /\ excess' = [excess EXCEPT ![a] = 0]
  /\ victims' = [victims EXCEPT ![a] = {}]
  /\ rel' = [rel EXCEPT ![a] = "idle"]
  /\ batch' = [batch EXCEPT ![a] = {}]
  /\ UNCHANGED <<now, table, saved, file, keys, accepted>>

Persisting(a) == phase[a] = "up" /\ key[a] # NoSecret

-----------------------------------------------------------------------------
(* save_event and query_events *)

\* One INSERT; a failed one is only logged, and the event is lost.
SaveEvent(a) ==
  /\ Persisting(a)
  /\ saved < MaxSaved
  /\ saved' = saved + 1
  /\ table' = table \union {[id |-> saved + 1, at |-> now, key |-> key[a], synced |-> FALSE]}
  /\ UNCHANGED <<now, agentVars, retVars, relVars>>

\* row_to_event fails on a row of another key, and the query with it.
Readable(a, rows) == \A r \in rows : r.key = key[a]

-----------------------------------------------------------------------------
(* The retention loop: sleep, purge_older_than, enforce_max_events *)

Expired(r) == r.at < now - Retention

RetentionWakes(a) ==
  /\ Persisting(a) /\ ret[a] = "sleep" /\ uptime[a] = Day
  /\ ret' = [ret EXCEPT ![a] = "purge"]
  /\ UNCHANGED <<now, table, saved, agentVars, uptime, excess, victims, relVars>>

\* Mutant: the cutoff lies one day too late.
PurgeEarly(a) ==
  /\ ret[a] = "purge"
  /\ table' = {r \in table : r.at >= now - Retention + 1}
  /\ ret' = [ret EXCEPT ![a] = "count"]
  /\ UNCHANGED <<now, saved, agentVars, uptime, excess, victims, relVars>>

PurgeOlderThan(a) ==
  /\ ret[a] = "purge"
  /\ table' = {r \in table : ~Expired(r)}
  /\ ret' = [ret EXCEPT ![a] = "count"]
  /\ UNCHANGED <<now, saved, agentVars, uptime, excess, victims, relVars>>

\* Mutant: the task ends after one round.
SleepForEver(a) ==
  /\ ret' = [ret EXCEPT ![a] = "ended"]
  /\ uptime' = [uptime EXCEPT ![a] = 0]

\* The loop goes back to sleep.
Sleep(a) ==
  /\ ret' = [ret EXCEPT ![a] = "sleep"]
  /\ uptime' = [uptime EXCEPT ![a] = 0]

\* Mutant: the early return at or under the cap is missing.
CountUnguarded(a) ==
  /\ ret[a] = "count"
  /\ excess' = [excess EXCEPT ![a] = Cardinality(table) - MaxEvents]
  /\ ret' = [ret EXCEPT ![a] = "select"]
  /\ UNCHANGED <<now, table, saved, agentVars, uptime, victims, relVars>>

\* SELECT COUNT(*); nothing more to do at or under the cap.
CountEvents(a) ==
  LET over == Cardinality(table) - MaxEvents
  IN  /\ ret[a] = "count"
      /\ \/ /\ over > 0
            /\ excess' = [excess EXCEPT ![a] = over]
            /\ ret' = [ret EXCEPT ![a] = "select"]
            /\ UNCHANGED uptime
         \/ /\ over <= 0
            /\ Sleep(a)
            /\ UNCHANGED excess
      /\ UNCHANGED <<now, table, saved, agentVars, victims, relVars>>

\* The n first rows ORDER BY timestamp ASC: no row left out is older.
Oldest(rows, n) ==
  {V \in SUBSET rows :
     /\ Cardinality(V) = IF Cardinality(rows) < n THEN Cardinality(rows) ELSE n
     /\ \A v \in V, r \in rows \ V : v.at <= r.at}

SelectOldest(a) ==
  /\ ret[a] = "select"
  /\ \E V \in Oldest(table, excess[a]) :
       victims' = [victims EXCEPT ![a] = {v.id : v \in V}]
  /\ ret' = [ret EXCEPT ![a] = "delete"]
  /\ UNCHANGED <<now, table, saved, agentVars, uptime, excess, relVars>>

\* One DELETE per id.
DeleteExcess(a) ==
  /\ ret[a] = "delete"
  /\ \/ /\ victims[a] = {}
        /\ Sleep(a)
        /\ UNCHANGED <<table, victims>>
     \/ \E id \in victims[a] :
          /\ table' = {r \in table : r.id # id}
          /\ victims' = [victims EXCEPT ![a] = @ \ {id}]
          /\ UNCHANGED <<ret, uptime>>
  /\ UNCHANGED <<now, saved, agentVars, excess, relVars>>

\* A statement fails: the purge is given up for this round, the cap too.
StatementFails(a) ==
  /\ \/ /\ ret[a] = "purge"
        /\ ret' = [ret EXCEPT ![a] = "count"]
        /\ UNCHANGED <<uptime, victims>>
     \/ /\ ret[a] \in {"count", "select", "delete"}
        /\ Sleep(a)
        /\ victims' = [victims EXCEPT ![a] = {}]
  /\ UNCHANGED <<now, table, saved, agentVars, excess, relVars>>

-----------------------------------------------------------------------------
(* The relay: unsynced_events, upload, mark_synced *)

Unsynced == {r \in table : ~r.synced}

\* Fetches the oldest; an undecryptable row among them fails the whole call.
UnsyncedEvents(a) ==
  /\ Persisting(a) /\ rel[a] = "idle" /\ Unsynced # {}
  /\ \E V \in Oldest(Unsynced, Batch) :
       /\ Readable(a, V)
       /\ batch' = [batch EXCEPT ![a] = {v.id : v \in V}]
  /\ rel' = [rel EXCEPT ![a] = "fetched"]
  /\ UNCHANGED <<now, table, saved, agentVars, retVars, accepted>>

\* Mutant: the batch is marked without waiting for the answer.
UploadUnanswered(a) ==
  /\ rel[a] = "fetched"
  /\ rel' = [rel EXCEPT ![a] = "mark"]
  /\ UNCHANGED <<now, table, saved, agentVars, retVars, batch, accepted>>

\* The control plane accepts the batch.
UploadAccepted(a) ==
  /\ rel[a] = "fetched"
  /\ accepted' = accepted \union batch[a]
  /\ rel' = [rel EXCEPT ![a] = "mark"]
  /\ UNCHANGED <<now, table, saved, agentVars, retVars, batch>>

\* Mutant: a failed upload ends the relay.
UploadFailsForGood(a) ==
  /\ rel[a] = "fetched"
  /\ rel' = [rel EXCEPT ![a] = "ended"]
  /\ batch' = [batch EXCEPT ![a] = {}]
  /\ UNCHANGED <<now, table, saved, agentVars, retVars, accepted>>

\* It may not accept it, or its answer may be lost.
UploadFails(a) ==
  /\ rel[a] = "fetched"
  /\ rel' = [rel EXCEPT ![a] = "idle"]
  /\ batch' = [batch EXCEPT ![a] = {}]
  /\ accepted' \in {accepted, accepted \union batch[a]}
  /\ UNCHANGED <<now, table, saved, agentVars, retVars>>

\* mark_synced: one UPDATE per id ...
MarkSynced(a) ==
  /\ rel[a] = "mark"
  /\ \E id \in batch[a] :
       /\ table' = {IF r.id = id THEN [r EXCEPT !.synced = TRUE] ELSE r : r \in table}
       /\ batch' = [batch EXCEPT ![a] = @ \ {id}]
  /\ UNCHANGED <<now, saved, agentVars, retVars, rel, accepted>>

\* ... until there are no more, or one fails and leaves the rest unmarked.
MarkEnds(a) ==
  /\ rel[a] = "mark"
  /\ batch' = [batch EXCEPT ![a] = {}]
  /\ rel' = [rel EXCEPT ![a] = "idle"]
  /\ UNCHANGED <<now, table, saved, agentVars, retVars, accepted>>

-----------------------------------------------------------------------------
BootAgent(a) ==
  \/ BootWithEnv(a) \/ BootWithFile(a) \/ BootProvision(a)
  \/ ProvisionCreate(a) \/ ProvisionWrite(a) \/ ProvisionFails(a)
  \/ Open(a) \/ OpenFails(a)

Retain(a) ==
  \/ RetentionWakes(a) \/ PurgeOlderThan(a) \/ CountEvents(a)
  \/ SelectOldest(a) \/ DeleteExcess(a) \/ StatementFails(a)

Relay(a) == UnsyncedEvents(a) \/ UploadAccepted(a) \/ UploadFails(a)
            \/ MarkSynced(a) \/ MarkEnds(a)

AuditNext ==
  \/ Elapse
  \/ \E a \in Agents : BootAgent(a) \/ Restart(a) \/ SaveEvent(a) \/ Retain(a) \/ Relay(a)

\* Time passes whatever else happens, tasks that are ready run, and neither
\* the database, nor the network, nor the disk fails for ever.  Nobody has to
\* restart.
AuditFairness ==
  /\ SF_auditVars(Elapse)
  /\ \A a \in Agents :
       /\ WF_auditVars(BootWithFile(a)) /\ WF_auditVars(BootProvision(a))
       /\ WF_auditVars(ProvisionCreate(a)) /\ WF_auditVars(ProvisionWrite(a)) /\ SF_auditVars(Open(a))
       /\ SF_auditVars(RetentionWakes(a)) /\ SF_auditVars(PurgeOlderThan(a))
       /\ SF_auditVars(CountEvents(a)) /\ WF_auditVars(SelectOldest(a)) /\ WF_auditVars(DeleteExcess(a))
       /\ WF_auditVars(UnsyncedEvents(a)) /\ SF_auditVars(UploadAccepted(a))
       /\ SF_auditVars(MarkSynced(a)) /\ WF_auditVars(MarkEnds(a))

AuditSpec == AuditInit /\ [][AuditNext]_auditVars /\ AuditFairness
-----------------------------------------------------------------------------
(* What holds *)

\* Types of the table, the secrets and the loops.
AuditTypeOK ==
  /\ now \in 0 .. MaxTime
  /\ saved \in 0 .. MaxSaved
  /\ table \subseteq Row
  /\ file \in [Agents -> Generated \union {NoFile, Empty}]
  /\ phase \in [Agents -> {"down", "provisioning", "opening", "up"}]
  /\ key \in [Agents -> Secret \union {NoSecret}]
  /\ keys \in 0 .. MaxKeys
  /\ uptime \in [Agents -> 0 .. Day]
  /\ ret \in [Agents -> {"sleep", "purge", "count", "select", "delete"}]
  /\ excess \in [Agents -> Nat]
  /\ victims \in [Agents -> SUBSET (1 .. MaxSaved)]
  /\ rel \in [Agents -> {"idle", "fetched", "mark"}]
  /\ batch \in [Agents -> SUBSET (1 .. MaxSaved)]
  /\ accepted \subseteq 1 .. MaxSaved

\* mark_synced is "called only after the Control Plane has actually accepted
\* a batch": whatever is lost, repeated, restarted or raced by another Agent,
\* an event marked as relayed was relayed.
SyncedWasAccepted == \A r \in table : r.synced => r.id \in accepted

\* Retention deletes an event only when it is older than the retention
\* period, or the tenant keeps at least max_events others.
NothingDeletedEarly ==
  [][\A r \in table :
       (\A q \in table' : q.id # r.id)
       => Expired(r) \/ Cardinality(table') >= MaxEvents]_auditVars

\* What an Agent stored under a secret it provisioned itself it can read back
\* whenever it runs under a provisioned secret again: one that would not
\* survive a crash or a restart is never used.
ProvisionedRowsReadable ==
  \A a \in Agents :
    Persisting(a) /\ key[a] \in Generated
    => Readable(a, {r \in table : r.key \in Generated})

Stored(id)  == \E r \in table : r.id = id
Overdue(id) == \E r \in table : r.id = id /\ Expired(r)

\* "so the database doesn't grow forever": an event older than the retention
\* period is eventually deleted, once the Agents stop being restarted.
RetentionEnforced ==
  <>[](\A a \in Agents : Persisting(a))
    => \A id \in 1 .. MaxSaved : Overdue(id) ~> ~Stored(id)

\* A saved event is eventually relayed, unless retention deletes it first:
\* failed uploads and lost answers leave it for the next unsynced_events,
\* once the Agents stay up under the secret of the rows they have.
EventuallyRelayed ==
  <>[](\A a \in Agents : Persisting(a) /\ Readable(a, table))
    => \A id \in 1 .. MaxSaved : Stored(id) ~> (id \in accepted \/ ~Stored(id))

-----------------------------------------------------------------------------
(* What comments claim and restarts refute *)

\* "so the database doesn't grow forever": the same although Agents are
\* restarted, as long as every start has a secret and opens the database.
RetentionSurvivesRestarts ==
  <>[](\A a \in Agents : phase[a] = "up" => key[a] # NoSecret)
    => \A id \in 1 .. MaxSaved : Overdue(id) ~> ~Stored(id)

\* "an operator ... explicitly owns and can rotate this secret": an Agent
\* that persists events can read back every event of its table.
RowsReadable == \A a \in Agents : Persisting(a) => Readable(a, table)
=============================================================================
