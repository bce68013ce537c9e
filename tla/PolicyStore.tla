---------------------------- MODULE PolicyStore ----------------------------
(***************************************************************************)
(* The live policy of the Agent (crates/inspector) and everybody who       *)
(* touches it concurrently:                                                *)
(*                                                                         *)
(*   - console tabs (console.html): a form loaded with GET /ui/policy and  *)
(*     posted back whole by "Apply", a JSON editor that posts what is      *)
(*     typed, and the Pause / Resume buttons, which GET the policy, change *)
(*     one field and POST all of it;                                       *)
(*   - the central sync task, which hands apply_synced_policy signed       *)
(*     documents of increasing version;                                    *)
(*   - inspect requests, which hold the policy read lock while they scan.  *)
(*                                                                         *)
(* `policy` and `provenance` are two RwLocks.  A console edit keeps the    *)
(* provenance write lock across both writes; the sync takes each lock for  *)
(* one statement.  Every statement that takes a lock is an action.         *)
(***************************************************************************)
EXTENDS Integers

CONSTANTS
  Tabs,        \* open console tabs
  Requests,    \* worker threads running inspect
  MaxPosts,    \* bound: console posts issued
  MaxCentral,  \* bound: signed documents delivered by the sync
  MaxTime,     \* bound: last value of the wall clock
  PauseLengths, \* the buttons' pauses (15, 60 and 240 minutes), in ticks
  TypedEnds    \* ends of a pause that somebody may type in the JSON editor

ASSUME BoundsAssumption ==
  /\ MaxPosts \in Nat /\ MaxCentral \in Nat /\ MaxTime \in Nat
  /\ PauseLengths \subseteq Nat /\ TypedEnds \subseteq Nat

VARIABLES
  now,         \* wall clock (SystemTime / Date.now)
  policy,      \* RwLock<PolicyEngine>; `by` and `seq` say which write it is
  provenance,  \* RwLock<PolicyProvenance>
  pc,          \* per tab: what its POST is doing
  form,        \* per tab: currentPolicy, the document the tab shows
  req,         \* per tab: the document being posted
  posts,       \* posts issued so far (names fresh console settings)
  spc,         \* the sync task
  central,     \* version of the last signed document delivered
  sawOverride, \* previous.local_override, as the sync read it
  ipc,         \* per request: idle, scanning (read lock held), done
  seen,        \* per request: the policy write behind the read lock it took
  \* history variables, read by the properties only
  chosen,      \* the ends of a pause that somebody has chosen, 0 for none
  latest,      \* the one chosen last
  wseq,        \* per tab: which write its POST made
  swseq,       \* which write the sync made last
  provOf,      \* the write that `provenance` describes
  crossed,     \* the policy in force was written between the sync's two writes
  raced,       \* an edit wrote its policy since the sync read provenance
  returned,    \* latest write whose caller has returned
  floor        \* per request: `returned` when it started

choiceVars  == <<chosen, latest>>
consoleVars == <<pc, form, req, posts, choiceVars, wseq>>
syncVars    == <<spc, central, sawOverride, swseq>>
inspectVars == <<ipc, seen, floor>>
storeVars   == <<policy, provenance, provOf, crossed, raced, returned>>
vars == <<now, consoleVars, syncVars, inspectVars, storeVars>>

Origin     == {"initial", "local", "central"}
Settings   == [by : Origin, n : Nat]              \* detectors, actions, applications
Document   == [settings : Settings, until : Nat]  \* until = 0: not paused
Policy     == [doc : Document, by : Origin, seq : Nat]
Provenance == [source : {"local", "central"}, version : Nat, local_override : BOOLEAN]

InitialDocument == [settings |-> [by |-> "initial", n |-> 0], until |-> 0]

\* A clone of the document behind the lock.
current_policy == policy.doc

\* SecurityPolicy::is_paused
policy_is_paused == now < policy.doc.until

\* The locks.  A console edit owns provenance for writing from its first
\* statement to its last; a scanning request owns policy for reading.
ProvenanceLocked == \E t \in Tabs : pc[t] \in {"locked", "wrote"}
PolicyReadLocked == \E r \in Requests : ipc[r] = "scanning"

Init ==
  /\ now = 0
  /\ policy = [doc |-> InitialDocument, by |-> "initial", seq |-> 0]
  /\ provenance = [source |-> "local", version |-> 0, local_override |-> FALSE]
  /\ pc = [t \in Tabs |-> "idle"]
  /\ form = [t \in Tabs |-> InitialDocument]
  /\ req = [t \in Tabs |-> InitialDocument]
  /\ posts = 0 /\ chosen = {0} /\ latest = 0
  /\ wseq = [t \in Tabs |-> 0]
  /\ spc = "idle" /\ central = 0 /\ sawOverride = FALSE /\ swseq = 0
  /\ ipc = [r \in Requests |-> "idle"]
  /\ seen = [r \in Requests |-> 0]
  /\ floor = [r \in Requests |-> 0]
  /\ provOf = 0 /\ crossed = FALSE /\ raced = FALSE /\ returned = 0

Tick ==
  /\ now < MaxTime
  /\ now' = now + 1
  /\ UNCHANGED <<consoleVars, syncVars, inspectVars, storeVars>>

-----------------------------------------------------------------------------
(* The console *)

\* loadPolicy: GET /ui/policy into currentPolicy.
LoadPolicy(t) ==
  /\ pc[t] = "idle"
  /\ form' = [form EXCEPT ![t] = current_policy]
  /\ UNCHANGED <<now, pc, req, posts, choiceVars, wseq,
                 syncVars, inspectVars, storeVars>>

\* A click puts a whole policy document on the wire.
Post(t, doc) ==
  /\ pc[t] = "idle"
  /\ posts < MaxPosts
  /\ posts' = posts + 1
  /\ pc' = [pc EXCEPT ![t] = "posted"]
  /\ req' = [req EXCEPT ![t] = doc]
  /\ UNCHANGED <<now, form, wseq, syncVars, inspectVars, storeVars>>

\* Somebody chooses when protection comes back.
Choose(end) == chosen' = chosen \union {end} /\ latest' = end

\* Mutant: Apply renews the pause the form shows instead of carrying its end.
ApplyFormRenewsPause(t) ==
  /\ \E secs \in PauseLengths :
       Post(t, [settings |-> [by |-> "local", n |-> posts + 1],
                until |-> IF form[t].until = 0 THEN 0 ELSE now + secs])
  /\ UNCHANGED choiceVars

\* btn-apply-policy: the tab's own copy with new settings; its pause field
\* rides along.
ApplyForm(t) ==
  /\ Post(t, [settings |-> [by |-> "local", n |-> posts + 1],
                       until |-> form[t].until])
  /\ UNCHANGED choiceVars

\* btn-apply-policy-json: whatever document was typed; nobody looks at its
\* pause.  (What is no policy is refused, and nothing has been posted.)
ApplyJson(t) ==
  \E end \in TypedEnds :
    /\ Post(t, [settings |-> [by |-> "local", n |-> posts + 1], until |-> end])
    /\ Choose(end)

\* setPause: fetch fresh, set one field, post everything.
SetPause(t) ==
  \E secs \in PauseLengths :
    /\ Post(t, [current_policy EXCEPT !.until = now + secs])
    /\ Choose(now + secs)

ResumeProtection(t) ==
  /\ Post(t, [current_policy EXCEPT !.until = 0])
  /\ Choose(0)

-----------------------------------------------------------------------------
(* apply_local_policy_edit, run by POST /ui/policy *)

\* Mutant: the provenance lock is taken for reading.
EditLockShared(t) ==
  /\ pc[t] = "posted"
  /\ pc' = [pc EXCEPT ![t] = "locked"]
  /\ UNCHANGED <<now, form, req, posts, choiceVars, wseq,
                 syncVars, inspectVars, storeVars>>

EditLock(t) ==
  /\ pc[t] = "posted"
  /\ ~ProvenanceLocked
  /\ pc' = [pc EXCEPT ![t] = "locked"]
  /\ UNCHANGED <<now, form, req, posts, choiceVars, wseq,
                 syncVars, inspectVars, storeVars>>

\* *self.policy.write() = ... of the edit, given the lock's state.
StoreEdit(t, store) ==
  /\ pc[t] = "locked"
  /\ policy' = IF store
               THEN [doc |-> req[t], by |-> "local", seq |-> policy.seq + 1]
               ELSE policy
  /\ wseq' = [wseq EXCEPT ![t] = policy.seq + 1]
  /\ crossed' = (spc = "wrote")
  /\ raced' = (raced \/ spc = "read")
  /\ pc' = [pc EXCEPT ![t] = "wrote"]
  /\ UNCHANGED <<now, form, req, posts, choiceVars, syncVars, inspectVars,
                 provenance, provOf, returned>>

\* Mutant: try_write instead of write, so a busy lock loses the edit.
EditTryWritePolicy(t) == StoreEdit(t, ~PolicyReadLocked)

\* Mutant: the edit does not wait for the scanning readers.
EditWriteUnlocked(t) == StoreEdit(t, TRUE)

EditWritePolicy(t) == ~PolicyReadLocked /\ StoreEdit(t, TRUE)

\* Mutant: an edit that returns without recording itself in provenance.
EditSkipsProvenance(t) ==
  /\ pc[t] = "wrote"
  /\ returned' = IF wseq[t] > returned THEN wseq[t] ELSE returned
  /\ form' = [form EXCEPT ![t] = req[t]]
  /\ pc' = [pc EXCEPT ![t] = "idle"]
  /\ UNCHANGED <<now, req, posts, choiceVars, wseq, syncVars, inspectVars,
                 policy, provenance, provOf, crossed, raced>>

\* Mutant: an edit records itself without local_override.
EditForgetsOverride(t) ==
  /\ pc[t] = "wrote"
  /\ provenance' = [source |-> "local", version |-> provenance.version + 1,
                    local_override |-> FALSE]
  /\ provOf' = wseq[t]
  /\ returned' = IF wseq[t] > returned THEN wseq[t] ELSE returned
  /\ form' = [form EXCEPT ![t] = req[t]]
  /\ pc' = [pc EXCEPT ![t] = "idle"]
  /\ UNCHANGED <<now, req, posts, choiceVars, wseq, syncVars, inspectVars,
                 policy, crossed, raced>>

\* Mutant: an edit whose provenance guard is never released.
EditLeaksLock(t) == FALSE /\ UNCHANGED vars

\* Records the edit, drops the lock, answers the tab (currentPolicy = policyObj).
EditWriteProvenance(t) ==
  /\ pc[t] = "wrote"
  /\ provenance' = [source |-> "local", version |-> provenance.version + 1,
                    local_override |-> TRUE]
  /\ provOf' = wseq[t]
  /\ returned' = IF wseq[t] > returned THEN wseq[t] ELSE returned
  /\ form' = [form EXCEPT ![t] = req[t]]
  /\ pc' = [pc EXCEPT ![t] = "idle"]
  /\ UNCHANGED <<now, req, posts, choiceVars, wseq, syncVars, inspectVars,
                 policy, crossed, raced>>

-----------------------------------------------------------------------------
(* apply_synced_policy, called by the sync task with verified documents *)

SyncReadProvenance ==
  /\ spc = "idle"
  /\ central < MaxCentral
  /\ ~ProvenanceLocked
  /\ central' = central + 1
  /\ sawOverride' = provenance.local_override
  /\ raced' = FALSE
  /\ spc' = "read"
  /\ UNCHANGED <<now, consoleVars, inspectVars, swseq,
                 policy, provenance, provOf, crossed, returned>>

SyncWritePolicy ==
  /\ spc = "read"
  /\ ~PolicyReadLocked
  /\ policy' = [doc |-> [settings |-> [by |-> "central", n |-> central], until |-> 0],
                by |-> "central", seq |-> policy.seq + 1]
  /\ swseq' = policy.seq + 1
  /\ crossed' = FALSE
  /\ spc' = "wrote"
  /\ UNCHANGED <<now, consoleVars, inspectVars, central, sawOverride,
                 provenance, provOf, raced, returned>>

SyncWriteProvenance ==
  /\ spc = "wrote"
  /\ ~ProvenanceLocked
  /\ provenance' = [source |-> "central", version |-> central,
                    local_override |-> FALSE]
  /\ provOf' = swseq
  /\ returned' = IF swseq > returned THEN swseq ELSE returned
  /\ spc' = "idle"
  /\ UNCHANGED <<now, consoleVars, inspectVars, central, sawOverride, swseq,
                 policy, crossed, raced>>

-----------------------------------------------------------------------------
(* inspect *)

\* Takes the read lock, for the whole call; a paused policy answers at once
\* with Allow.
InspectStart(r) ==
  /\ ipc[r] # "scanning"
  /\ floor' = [floor EXCEPT ![r] = returned]
  /\ seen' = [seen EXCEPT ![r] = policy.seq]
  /\ ipc' = [ipc EXCEPT ![r] = IF policy_is_paused THEN "done" ELSE "scanning"]
  /\ UNCHANGED <<now, consoleVars, syncVars, storeVars>>

\* The detectors have run: evaluate, active_findings, and the guard is dropped.
InspectFinish(r) ==
  /\ ipc[r] = "scanning"
  /\ ipc' = [ipc EXCEPT ![r] = "done"]
  /\ UNCHANGED <<now, consoleVars, syncVars, storeVars, seen, floor>>

-----------------------------------------------------------------------------
Edit(t) == EditLock(t) \/ EditWritePolicy(t) \/ EditWriteProvenance(t)
Sync    == SyncReadProvenance \/ SyncWritePolicy \/ SyncWriteProvenance

Next ==
  \/ Tick
  \/ \E t \in Tabs : LoadPolicy(t) \/ ApplyForm(t) \/ ApplyJson(t) \/ SetPause(t) \/ ResumeProtection(t)
  \/ \E t \in Tabs : Edit(t)
  \/ Sync
  \/ \E r \in Requests : InspectStart(r) \/ InspectFinish(r)

\* Handlers, the sync's statements and scans that have begun do not stop;
\* users, the clock and new documents may.  The RwLock makes new readers wait
\* behind a waiting writer, so a writer is not starved: strong fairness.
Fairness ==
  /\ \A t \in Tabs : WF_vars(EditLock(t)) /\ WF_vars(EditWriteProvenance(t))
  /\ \A t \in Tabs : SF_vars(EditWritePolicy(t))
  /\ SF_vars(SyncWritePolicy) /\ WF_vars(SyncWriteProvenance)
  /\ \A r \in Requests : WF_vars(InspectFinish(r))

Spec == Init /\ [][Next]_vars /\ Fairness
-----------------------------------------------------------------------------
(* What holds *)

\* Types of the lock-protected state, the tabs, the sync and the requests.
TypeOK ==
  /\ now \in Nat
  /\ policy \in Policy
  /\ provenance \in Provenance
  /\ pc \in [Tabs -> {"idle", "posted", "locked", "wrote"}]
  /\ form \in [Tabs -> Document]
  /\ req \in [Tabs -> Document]
  /\ posts \in Nat /\ chosen \subseteq Nat /\ latest \in Nat
  /\ wseq \in [Tabs -> Nat]
  /\ spc \in {"idle", "read", "wrote"}
  /\ central \in Nat /\ sawOverride \in BOOLEAN /\ swseq \in Nat
  /\ ipc \in [Requests -> {"idle", "scanning", "done"}]
  /\ seen \in [Requests -> Nat]
  /\ floor \in [Requests -> Nat]
  /\ provOf \in Nat /\ crossed \in BOOLEAN /\ raced \in BOOLEAN /\ returned \in Nat

Quiescent == spc = "idle" /\ ~ProvenanceLocked

\* With no edit and no sync under way, the provenance shown by /ui/status
\* describes the policy in force, except exactly when an edit wrote its
\* policy between the sync's two writes (apply_local_policy_edit keeps the
\* provenance lock across both of its own writes; apply_synced_policy does not).
ProvenanceExact == Quiescent => ((provOf = policy.seq) <=> ~crossed)

\* "if the policy this replaces was a live local override, that's logged
\* before it's gone": the sync about to replace a console edit has seen that
\* it is one, unless the edit came after its look at provenance or between
\* the two writes of an earlier sync.
OverwriteWarned ==
  spc = "read" /\ policy.by = "local" => sawOverride \/ raced \/ crossed

\* Two console edits never overlap between taking the provenance lock and
\* releasing it.
EditsExclusive ==
  \A t, u \in Tabs :
    pc[t] \in {"locked", "wrote"} /\ pc[u] \in {"locked", "wrote"} => t = u

\* A verdict comes from a policy at least as new as every edit or sync whose
\* caller had its answer before the scan began.
ReadsAreFresh == \A r \in Requests : seen[r] >= floor[r]

\* The policy does not change while a request scans under it: keyword
\* detection, evaluate and active_findings all read the same one.
OnePolicyPerVerdict ==
  \A r \in Requests : ipc[r] = "scanning" => seen[r] = policy.seq

\* Pausing is "not an indefinite off-switch": the end of the pause in force is
\* an instant that somebody chose at a button or typed in the editor.  A tab's
\* old copy may bring an earlier choice back, a longer one too (see
\* LatestChoiceHolds), but no Apply, sync or race makes a pause that nobody
\* chose, or moves the end of one that somebody did.
PauseExpires == policy.doc.until \in chosen

\* A verdict uses one policy, and not an old one, while edits and syncs take
\* their two locks in turn (inspect, apply_local_policy_edit).
VerdictsFollowPolicy == TypeOK /\ EditsExclusive /\ ReadsAreFresh /\ OnePolicyPerVerdict

\* Provenance and the warning about an overwritten edit are right, save in the
\* two windows between the sync's locks.
ProvenanceHonest == ProvenanceExact /\ OverwriteWarned

\* Every POST /ui/policy is answered: no lock order of edits, sync and scans
\* blocks one for ever.
EditsComplete == \A t \in Tabs : pc[t] = "posted" ~> pc[t] = "idle"

-----------------------------------------------------------------------------
(* What the source's comments claim and the interleavings refute *)

\* "Always updated together with `policy`"; "`policy_provenance()` reflects
\* the truth afterward": whoever provenance names wrote the policy in force.
ProvenanceDescribesPolicy ==
  Quiescent /\ policy.by # "initial" => provenance.source = policy.by

\* "the lock is held only for the duration of one evaluate, not per-request":
\* a write need not wait for a request that scans.  inspect keeps the guard
\* from before its detectors until active_findings.
ScansLetWritesPass ==
  /\ \A t \in Tabs : pc[t] = "locked" => ENABLED EditWritePolicy(t)
  /\ spc = "read" => ENABLED SyncWritePolicy

\* "resuming must bring back real detection, not leave it paused": with no
\* post under way protection pauses no later than was chosen last.
LatestChoiceHolds ==
  (\A t \in Tabs : pc[t] = "idle") => policy.doc.until \in {0, latest}
=============================================================================
