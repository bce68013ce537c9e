------------------------- MODULE PolicyStoreProofs -------------------------
(***************************************************************************)
(* Proofs about the policy: how edits, syncs and readers share it          *)
(* (PolicyStore, for any number of tabs and requests and any bounds), and  *)
(* what an inspection decides under it (Inspection, for any policy, any    *)
(* text and any risk context).                                             *)
(***************************************************************************)
EXTENDS PolicyStore, Inspection, VerdictsProofs

-----------------------------------------------------------------------------
(* Type correctness *)

\* Every action keeps the lock-protected state, the tabs, the sync and the
\* requests in their types.
THEOREM TypeCorrect == Spec => []TypeOK
<1>1. Init => TypeOK
  <2> SUFFICES ASSUME Init PROVE TypeOK
    OBVIOUS
  <2>1. InitialDocument \in Document
    BY DEF InitialDocument, Document, Settings, Origin
  <2>2. policy \in Policy /\ provenance \in Provenance
    BY <2>1 DEF Init, Policy, Origin, Provenance
  <2>3. Init => chosen \subseteq Nat /\ latest \in Nat
    BY DEF Init
  <2> QED BY <2>1, <2>2, <2>3 DEF Init, TypeOK
<1>2. TypeOK /\ [Next]_vars => TypeOK'
  <2> SUFFICES ASSUME TypeOK, [Next]_vars PROVE TypeOK'
    OBVIOUS
  <2> USE BoundsAssumption DEF choiceVars
  <2>0. policy.doc \in Document /\ policy.seq \in Nat /\ policy.by \in Origin
    BY DEF TypeOK, Policy
  <2>1. CASE UNCHANGED vars
    BY <2>1 DEF TypeOK, vars, consoleVars, syncVars, inspectVars, storeVars
  <2>2. CASE Tick
    BY <2>2 DEF TypeOK, Tick, consoleVars, syncVars, inspectVars, storeVars
  <2>3. ASSUME NEW t \in Tabs, LoadPolicy(t) PROVE TypeOK'
    BY <2>3, <2>0 DEF TypeOK, LoadPolicy, current_policy, syncVars, inspectVars, storeVars
  <2>4. ASSUME NEW t \in Tabs, NEW doc \in Document,
               chosen' \subseteq Nat, latest' \in Nat, Post(t, doc)
        PROVE  TypeOK'
    BY <2>4 DEF TypeOK, Post, syncVars, inspectVars, storeVars
  <2>41. ASSUME NEW end \in Nat, Choose(end)
         PROVE  chosen' \subseteq Nat /\ latest' \in Nat
    BY <2>41 DEF Choose, TypeOK
  <2>42. ASSUME NEW end \in Nat
         PROVE  /\ [settings |-> [by |-> "local", n |-> posts + 1], until |-> end] \in Document
                /\ [current_policy EXCEPT !.until = end] \in Document
    BY <2>0, SMTT(60) DEF TypeOK, Document, Settings, Origin, current_policy
  <2>5. ASSUME NEW t \in Tabs, ApplyForm(t) PROVE TypeOK'
    <3>1. form[t].until \in Nat
      BY DEF TypeOK, Document
    <3>2. chosen' \subseteq Nat /\ latest' \in Nat
      BY <2>5 DEF ApplyForm, choiceVars, TypeOK
    <3> QED BY <3>1, <3>2, <2>4, <2>42, <2>5 DEF ApplyForm
  <2>51. ASSUME NEW t \in Tabs, ApplyJson(t) PROVE TypeOK'
    <3>1. PICK end \in TypedEnds : /\ Post(t, [settings |-> [by |-> "local", n |-> posts + 1], until |-> end])
                                   /\ Choose(end)
      BY <2>51 DEF ApplyJson
    <3> QED BY <3>1, <2>4, <2>41, <2>42
  <2>6. ASSUME NEW t \in Tabs, SetPause(t) PROVE TypeOK'
    <3>1. PICK secs \in PauseLengths : Post(t, [current_policy EXCEPT !.until = now + secs]) /\ Choose(now + secs)
      BY <2>6 DEF SetPause
    <3>2. now + secs \in Nat
      BY DEF TypeOK
    <3> QED BY <3>1, <3>2, <2>4, <2>41, <2>42
  <2>7. ASSUME NEW t \in Tabs, ResumeProtection(t) PROVE TypeOK'
    BY <2>4, <2>41, <2>42, <2>7 DEF ResumeProtection
  <2>8. ASSUME NEW t \in Tabs, EditLock(t) PROVE TypeOK'
    BY <2>8 DEF TypeOK, EditLock, syncVars, inspectVars, storeVars
  <2>9. ASSUME NEW t \in Tabs, EditWritePolicy(t) PROVE TypeOK'
    <3>1. policy' \in Policy
      BY <2>9, <2>0 DEF EditWritePolicy, StoreEdit, TypeOK, Policy, Origin
    <3> QED
      BY <3>1, <2>0, <2>9 DEF TypeOK, EditWritePolicy, StoreEdit, syncVars, inspectVars
  <2>10. ASSUME NEW t \in Tabs, EditWriteProvenance(t) PROVE TypeOK'
    BY <2>10 DEF TypeOK, EditWriteProvenance, Provenance, syncVars, inspectVars
  <2>11. CASE SyncReadProvenance
    <3>1. sawOverride' \in BOOLEAN
      <4>1. provenance.local_override \in BOOLEAN
        BY DEF TypeOK, Provenance
      <4> QED BY <4>1, <2>11 DEF SyncReadProvenance
    <3>2. raced' \in BOOLEAN
      BY <2>11, Zenon DEF SyncReadProvenance
    <3>3. central' \in Nat /\ spc' \in {"idle", "read", "wrote"}
      BY <2>11 DEF SyncReadProvenance, TypeOK
    <3>4. UNCHANGED <<now, consoleVars, inspectVars, swseq,
                      policy, provenance, provOf, crossed, returned>>
      BY <2>11 DEF SyncReadProvenance
    <3> QED
      BY <3>1, <3>2, <3>3, <3>4 DEF TypeOK, consoleVars, inspectVars
  <2>12. CASE SyncWritePolicy
    <3>1. policy' \in Policy
      BY <2>12, <2>0 DEF SyncWritePolicy, TypeOK, Policy, Document, Settings, Origin
    <3>2. crossed' \in BOOLEAN
      BY <2>12, Zenon DEF SyncWritePolicy
    <3>3. swseq' \in Nat /\ spc' \in {"idle", "read", "wrote"}
      BY <2>12, <2>0 DEF SyncWritePolicy
    <3>4. UNCHANGED <<now, consoleVars, inspectVars, central, sawOverride,
                      provenance, provOf, raced, returned>>
      BY <2>12 DEF SyncWritePolicy
    <3> QED
      BY <3>1, <3>2, <3>3, <3>4 DEF TypeOK, consoleVars, inspectVars
  <2>13. CASE SyncWriteProvenance
    BY <2>13 DEF TypeOK, SyncWriteProvenance, Provenance, consoleVars, inspectVars
  <2>14. ASSUME NEW r \in Requests, InspectStart(r) PROVE TypeOK'
    BY <2>14, <2>0 DEF TypeOK, InspectStart, consoleVars, syncVars, storeVars
  <2>15. ASSUME NEW r \in Requests, InspectFinish(r) PROVE TypeOK'
    BY <2>15 DEF TypeOK, InspectFinish, consoleVars, syncVars, storeVars
  <2> QED
    BY <2>1, <2>2, <2>3, <2>5, <2>51, <2>6, <2>7, <2>8, <2>9, <2>10, <2>11, <2>12,
       <2>13, <2>14, <2>15 DEF Next, Edit, Sync
<1> QED BY <1>1, <1>2, PTL DEF Spec

-----------------------------------------------------------------------------
(* The provenance protocol *)

\* Between the sync's two writes: its own write is the policy in force unless
\* an edit has crossed it.
WindowInv ==
  spc = "wrote" => /\ swseq <= policy.seq
                   /\ crossed <=> swseq # policy.seq

\* Outside both writers' windows, provenance is off exactly if crossed.
SettledInv ==
  spc # "wrote" /\ (\A t \in Tabs : pc[t] # "wrote")
  => (crossed <=> provOf # policy.seq)

\* An edit about to record itself, outside the sync's window, wrote the
\* policy in force.
PendingInv ==
  \A t \in Tabs : pc[t] = "wrote" /\ spc # "wrote"
                  => wseq[t] = policy.seq /\ ~crossed

ProvenanceInv == EditsExclusive /\ WindowInv /\ SettledInv /\ PendingInv

LEMMA ProvenanceInvInit == Init => ProvenanceInv
  BY DEF Init, ProvenanceInv, EditsExclusive, WindowInv, SettledInv, PendingInv

\* The provenance protocol is preserved by every step.
LEMMA ProvenanceInvStep ==
  TypeOK /\ TypeOK' /\ ProvenanceInv /\ [Next]_vars => ProvenanceInv'
<1> SUFFICES ASSUME TypeOK, TypeOK', ProvenanceInv, [Next]_vars PROVE ProvenanceInv'
  OBVIOUS
<1> USE DEF ProvenanceInv
<1>t. /\ policy.seq \in Nat /\ provOf \in Nat /\ swseq \in Nat
      /\ wseq \in [Tabs -> Nat] /\ crossed \in BOOLEAN
      /\ pc \in [Tabs -> {"idle", "posted", "locked", "wrote"}]
      /\ spc \in {"idle", "read", "wrote"}
  BY DEF TypeOK, Policy
\* The steps that touch neither the two records nor anybody's place in them.
<1>1. ASSUME UNCHANGED <<pc, wseq, spc, swseq, policy, provOf, crossed>>
      PROVE  ProvenanceInv'
  BY <1>1 DEF EditsExclusive, WindowInv, SettledInv, PendingInv
<1>2. ASSUME NEW t \in Tabs, pc[t] = "idle", pc' = [pc EXCEPT ![t] = "posted"],
             UNCHANGED <<wseq, spc, swseq, policy, provOf, crossed>>
      PROVE  ProvenanceInv'
  BY <1>2, <1>t DEF EditsExclusive, WindowInv, SettledInv, PendingInv
<1>3. ASSUME NEW t \in Tabs, EditLock(t) PROVE ProvenanceInv'
  BY <1>3, <1>t DEF EditLock, ProvenanceLocked, syncVars, storeVars,
                    EditsExclusive, WindowInv, SettledInv, PendingInv
<1>4. ASSUME NEW t \in Tabs, EditWritePolicy(t) PROVE ProvenanceInv'
  <2>0. /\ pc[t] = "locked" /\ pc' = [pc EXCEPT ![t] = "wrote"]
        /\ policy'.seq = policy.seq + 1
        /\ wseq' = [wseq EXCEPT ![t] = policy.seq + 1]
        /\ UNCHANGED <<spc, swseq, provOf>>
    BY <1>4 DEF EditWritePolicy, StoreEdit, syncVars
  <2>1. crossed' <=> spc = "wrote"
    BY <1>4 DEF EditWritePolicy, StoreEdit
  <2>2. EditsExclusive'
    BY <2>0, <1>t DEF EditsExclusive
  <2>3. WindowInv'
    BY <2>0, <2>1, <1>t DEF WindowInv
  <2>4. SettledInv'
    BY <2>0, <1>t DEF SettledInv
  <2>5. PendingInv'
    BY <2>0, <2>1, <1>t DEF PendingInv, EditsExclusive
  <2> QED BY <2>2, <2>3, <2>4, <2>5
<1>5. ASSUME NEW t \in Tabs, EditWriteProvenance(t) PROVE ProvenanceInv'
  <2>0. /\ pc[t] = "wrote" /\ pc' = [pc EXCEPT ![t] = "idle"]
        /\ provOf' = wseq[t]
        /\ UNCHANGED <<wseq, spc, swseq, policy, crossed>>
    BY <1>5 DEF EditWriteProvenance, syncVars
  <2>1. EditsExclusive'
    BY <2>0, <1>t DEF EditsExclusive
  <2>2. WindowInv'
    BY <2>0 DEF WindowInv
  <2>3. SettledInv'
    BY <2>0, <1>t DEF SettledInv, PendingInv
  <2>4. PendingInv'
    BY <2>0, <1>t DEF PendingInv
  <2> QED BY <2>1, <2>2, <2>3, <2>4
<1>6. CASE SyncReadProvenance
  BY <1>6 DEF SyncReadProvenance, consoleVars, storeVars,
              EditsExclusive, WindowInv, SettledInv, PendingInv
<1>7. CASE SyncWritePolicy
  <2>0. /\ spc' = "wrote" /\ policy'.seq = policy.seq + 1 /\ swseq' = policy.seq + 1
        /\ UNCHANGED <<pc, wseq, provOf>>
    BY <1>7 DEF SyncWritePolicy, consoleVars
  <2>1. ~crossed'
    BY <1>7 DEF SyncWritePolicy
  <2>2. EditsExclusive'
    BY <2>0 DEF EditsExclusive
  <2>3. WindowInv'
    BY <2>0, <2>1, <1>t DEF WindowInv
  <2> QED BY <2>0, <2>2, <2>3 DEF SettledInv, PendingInv
<1>8. CASE SyncWriteProvenance
  <2>0. /\ spc = "wrote" /\ spc' = "idle" /\ provOf' = swseq
        /\ \A t \in Tabs : pc[t] \notin {"locked", "wrote"}
        /\ UNCHANGED <<pc, wseq, swseq, policy, crossed>>
    BY <1>8 DEF SyncWriteProvenance, ProvenanceLocked, consoleVars
  <2> QED BY <2>0, <1>t DEF EditsExclusive, WindowInv, SettledInv, PendingInv
<1>9. CASE Tick
  BY <1>9, <1>1 DEF Tick, consoleVars, syncVars, storeVars
<1>10. ASSUME NEW t \in Tabs,
              LoadPolicy(t) \/ ApplyForm(t) \/ ApplyJson(t) \/ SetPause(t) \/ ResumeProtection(t)
       PROVE  ProvenanceInv'
  BY <1>10, <1>1, <1>2 DEF LoadPolicy, ApplyForm, ApplyJson, SetPause, ResumeProtection, Post,
                           syncVars, storeVars
<1>11. ASSUME NEW r \in Requests, InspectStart(r) \/ InspectFinish(r)
       PROVE  ProvenanceInv'
  BY <1>11, <1>1 DEF InspectStart, InspectFinish, consoleVars, syncVars, storeVars
<1>12. CASE UNCHANGED vars
  BY <1>12, <1>1 DEF vars, consoleVars, syncVars, storeVars
<1> QED
  BY <1>3, <1>4, <1>5, <1>6, <1>7, <1>8, <1>9, <1>10, <1>11, <1>12
  DEF Next, Edit, Sync

\* With no edit and no sync under way, provenance describes the policy in
\* force unless an edit landed between the sync's two writes.
THEOREM ProvenanceIsExact == Spec => []ProvenanceExact
<1>1. ProvenanceInv => ProvenanceExact
  BY DEF ProvenanceInv, SettledInv, ProvenanceExact, Quiescent, ProvenanceLocked
<1> QED
  BY <1>1, TypeCorrect, ProvenanceInvInit, ProvenanceInvStep, PTL DEF Spec

\* apply_local_policy_edit is a critical section: at most one edit holds the
\* provenance lock.
THEOREM EditsAreExclusive == Spec => []EditsExclusive
<1>1. ProvenanceInv => EditsExclusive
  BY DEF ProvenanceInv
<1> QED
  BY <1>1, TypeCorrect, ProvenanceInvInit, ProvenanceInvStep, PTL DEF Spec

-----------------------------------------------------------------------------
(* Overwritten edits *)

\* Between the sync's writes a policy no edit has crossed is the sync's own;
\* outside every writer's window an edit in force is marked as an override,
\* unless it crossed a sync.
OverrideInv ==
  /\ OverwriteWarned
  /\ spc = "wrote" /\ ~crossed => policy.by = "central"
  /\ spc # "wrote" /\ (\A t \in Tabs : pc[t] # "wrote")
     => (policy.by = "local" /\ ~crossed => provenance.local_override)

LEMMA OverrideInvInit == Init => OverrideInv
  BY DEF Init, OverrideInv, OverwriteWarned

\* What the sync knows of the edit it replaces is preserved by every step.
LEMMA OverrideInvStep ==
  TypeOK /\ ProvenanceInv /\ OverrideInv /\ [Next]_vars => OverrideInv'
<1> SUFFICES ASSUME TypeOK, ProvenanceInv, OverrideInv, [Next]_vars PROVE OverrideInv'
  OBVIOUS
<1> USE DEF OverrideInv, OverwriteWarned
<1>t. /\ crossed \in BOOLEAN /\ raced \in BOOLEAN /\ sawOverride \in BOOLEAN
      /\ pc \in [Tabs -> {"idle", "posted", "locked", "wrote"}]
      /\ spc \in {"idle", "read", "wrote"}
  BY DEF TypeOK
<1>1. ASSUME UNCHANGED <<spc, sawOverride, policy, provenance, crossed, raced>>,
             \A t \in Tabs : pc[t] = "wrote" => pc'[t] = "wrote"
      PROVE  OverrideInv'
  BY <1>1
<1>2. ASSUME NEW t \in Tabs,
             LoadPolicy(t) \/ ApplyForm(t) \/ ApplyJson(t) \/ SetPause(t) \/ ResumeProtection(t)
             \/ EditLock(t)
      PROVE  OverrideInv'
  BY <1>2, <1>1, <1>t DEF LoadPolicy, ApplyForm, ApplyJson, SetPause, ResumeProtection, Post, EditLock,
                    syncVars, storeVars
<1>3. ASSUME NEW t \in Tabs, EditWritePolicy(t) PROVE OverrideInv'
  <2>0. pc'[t] = "wrote" /\ UNCHANGED <<spc, sawOverride>>
    BY <1>3, <1>t DEF EditWritePolicy, StoreEdit, syncVars
  <2>1. crossed' <=> spc = "wrote"
    BY <1>3 DEF EditWritePolicy, StoreEdit
  <2>2. spc = "read" => raced'
    BY <1>3 DEF EditWritePolicy, StoreEdit
  <2> QED BY <2>0, <2>1, <2>2
<1>4. ASSUME NEW t \in Tabs, EditWriteProvenance(t) PROVE OverrideInv'
  BY <1>4 DEF EditWriteProvenance, syncVars
<1>5. CASE SyncReadProvenance
  <2>0. /\ spc = "idle" /\ spc' = "read" /\ sawOverride' = provenance.local_override
        /\ \A t \in Tabs : pc[t] # "wrote"
        /\ UNCHANGED <<pc, policy, provenance, crossed>>
    BY <1>5 DEF SyncReadProvenance, ProvenanceLocked, consoleVars
  <2> QED BY <2>0
<1>6. CASE SyncWritePolicy
  <2>0. spc' = "wrote" /\ policy'.by = "central"
    BY <1>6 DEF SyncWritePolicy
  <2> QED BY <2>0
<1>7. CASE SyncWriteProvenance
  <2>0. spc = "wrote" /\ spc' = "idle" /\ UNCHANGED <<policy, crossed>>
    BY <1>7 DEF SyncWriteProvenance
  <2> QED BY <2>0
<1>8. CASE Tick \/ UNCHANGED vars
  BY <1>8, <1>1 DEF Tick, vars, consoleVars, syncVars, storeVars
<1>9. ASSUME NEW r \in Requests, InspectStart(r) \/ InspectFinish(r) PROVE OverrideInv'
  BY <1>9, <1>1 DEF InspectStart, InspectFinish, consoleVars, syncVars, storeVars
<1> QED
  BY <1>2, <1>3, <1>4, <1>5, <1>6, <1>7, <1>8, <1>9 DEF Next, Edit, Sync

\* A console edit is never replaced by a sync that did not know of it, unless
\* the two raced.
THEOREM OverwritesAreWarned == Spec => []OverwriteWarned
<1>1. OverrideInv => OverwriteWarned
  BY DEF OverrideInv
<1> QED
  BY <1>1, TypeCorrect, ProvenanceInvInit, ProvenanceInvStep, OverrideInvInit,
     OverrideInvStep, PTL DEF Spec

-----------------------------------------------------------------------------
(* Readers *)

\* Nobody has returned from, or is about to report, a write not yet made.
WritesInv ==
  /\ returned <= policy.seq /\ swseq <= policy.seq
  /\ \A t \in Tabs : wseq[t] <= policy.seq

ReaderInv == WritesInv /\ ReadsAreFresh /\ OnePolicyPerVerdict

LEMMA ReaderInvInit == Init => ReaderInv
  BY DEF Init, ReaderInv, WritesInv, ReadsAreFresh, OnePolicyPerVerdict

\* Reads under the lock stay fresh and consistent in every step.
LEMMA ReaderInvStep ==
  TypeOK /\ TypeOK' /\ ReaderInv /\ [Next]_vars => ReaderInv'
<1> SUFFICES ASSUME TypeOK, TypeOK', ReaderInv, [Next]_vars PROVE ReaderInv'
  OBVIOUS
<1> USE DEF ReaderInv
<1>t. /\ policy.seq \in Nat /\ swseq \in Nat /\ returned \in Nat
      /\ wseq \in [Tabs -> Nat]
      /\ seen \in [Requests -> Nat] /\ floor \in [Requests -> Nat]
      /\ ipc \in [Requests -> {"idle", "scanning", "done"}]
  BY DEF TypeOK, Policy
<1>1. ASSUME UNCHANGED <<wseq, swseq, policy, returned, ipc, seen, floor>>
      PROVE  ReaderInv'
  BY <1>1 DEF WritesInv, ReadsAreFresh, OnePolicyPerVerdict
<1>2. ASSUME NEW t \in Tabs, EditWritePolicy(t) PROVE ReaderInv'
  <2>0. /\ policy'.seq = policy.seq + 1
        /\ wseq' = [wseq EXCEPT ![t] = policy.seq + 1]
        /\ \A r \in Requests : ipc[r] # "scanning"
        /\ UNCHANGED <<swseq, returned, ipc, seen, floor>>
    BY <1>2 DEF EditWritePolicy, StoreEdit, PolicyReadLocked, syncVars, inspectVars
  <2> QED BY <2>0, <1>t DEF WritesInv, ReadsAreFresh, OnePolicyPerVerdict
<1>3. ASSUME NEW t \in Tabs, EditWriteProvenance(t) PROVE ReaderInv'
  BY <1>3, <1>t DEF EditWriteProvenance, syncVars, inspectVars,
                    WritesInv, ReadsAreFresh, OnePolicyPerVerdict
<1>4. CASE SyncWritePolicy
  <2>0. /\ policy'.seq = policy.seq + 1 /\ swseq' = policy.seq + 1
        /\ \A r \in Requests : ipc[r] # "scanning"
        /\ UNCHANGED <<wseq, returned, ipc, seen, floor>>
    BY <1>4 DEF SyncWritePolicy, PolicyReadLocked, consoleVars, inspectVars
  <2> QED BY <2>0, <1>t DEF WritesInv, ReadsAreFresh, OnePolicyPerVerdict
<1>5. CASE SyncWriteProvenance
  BY <1>5, <1>t DEF SyncWriteProvenance, consoleVars, inspectVars,
                    WritesInv, ReadsAreFresh, OnePolicyPerVerdict
<1>6. ASSUME NEW r \in Requests, InspectStart(r) PROVE ReaderInv'
  BY <1>6, <1>t DEF InspectStart, consoleVars, syncVars, storeVars,
                    WritesInv, ReadsAreFresh, OnePolicyPerVerdict
<1>7. ASSUME NEW r \in Requests, InspectFinish(r) PROVE ReaderInv'
  BY <1>7, <1>t DEF InspectFinish, consoleVars, syncVars, storeVars,
                    WritesInv, ReadsAreFresh, OnePolicyPerVerdict
<1>8. ASSUME NEW t \in Tabs,
             LoadPolicy(t) \/ ApplyForm(t) \/ ApplyJson(t) \/ SetPause(t) \/ ResumeProtection(t)
             \/ EditLock(t)
      PROVE  ReaderInv'
  BY <1>8, <1>1 DEF LoadPolicy, ApplyForm, ApplyJson, SetPause, ResumeProtection, Post, EditLock,
                    syncVars, inspectVars, storeVars
<1>9. CASE Tick \/ SyncReadProvenance \/ UNCHANGED vars
  BY <1>9, <1>1 DEF Tick, SyncReadProvenance, vars, consoleVars, syncVars,
                    inspectVars, storeVars
<1> QED
  BY <1>2, <1>3, <1>4, <1>5, <1>6, <1>7, <1>8, <1>9 DEF Next, Edit, Sync

\* A scan that starts after an edit or a sync has returned uses that policy
\* or a newer one.
THEOREM ReadsStayFresh == Spec => []ReadsAreFresh
<1>1. ReaderInv => ReadsAreFresh
  BY DEF ReaderInv
<1> QED BY <1>1, TypeCorrect, ReaderInvInit, ReaderInvStep, PTL DEF Spec

\* A verdict's detection, evaluation and filtering use one policy.
THEOREM VerdictsUseOnePolicy == Spec => []OnePolicyPerVerdict
<1>1. ReaderInv => OnePolicyPerVerdict
  BY DEF ReaderInv
<1> QED BY <1>1, TypeCorrect, ReaderInvInit, ReaderInvStep, PTL DEF Spec

-----------------------------------------------------------------------------
(* Pauses *)

\* No pause, or one that somebody chose, in every copy of the document.
PauseInv ==
  /\ 0 \in chosen
  /\ policy.doc.until \in chosen
  /\ \A t \in Tabs : form[t].until \in chosen /\ req[t].until \in chosen

LEMMA PauseInvInit == Init => PauseInv
  BY DEF Init, PauseInv, InitialDocument

\* A post of a chosen pause keeps the invariant.
LEMMA PostKeepsChosen ==
  ASSUME TypeOK, PauseInv, NEW t \in Tabs, NEW doc, Post(t, doc),
         chosen \subseteq chosen', doc.until \in chosen'
  PROVE  PauseInv'
<1>1. /\ UNCHANGED <<form, policy>> /\ req' = [req EXCEPT ![t] = doc]
      /\ req \in [Tabs -> Document]
  BY DEF Post, storeVars, TypeOK
<1>2. \A u \in Tabs : req'[u].until \in chosen'
  BY <1>1 DEF PauseInv
<1> QED BY <1>1, <1>2 DEF PauseInv

\* Every copy of the document keeps a chosen pause in every step.
LEMMA PauseInvStep ==
  TypeOK /\ PauseInv /\ [Next]_vars => PauseInv'
<1> SUFFICES ASSUME TypeOK, PauseInv, [Next]_vars PROVE PauseInv'
  OBVIOUS
<1>t. /\ policy.doc \in Document
      /\ form \in [Tabs -> Document] /\ req \in [Tabs -> Document]
  BY DEF TypeOK, Policy
<1>1. ASSUME UNCHANGED <<policy, form, req, chosen>> PROVE PauseInv'
  BY <1>1 DEF PauseInv
<1>2. ASSUME NEW t \in Tabs, LoadPolicy(t) PROVE PauseInv'
  BY <1>2, <1>t DEF LoadPolicy, current_policy, PauseInv, storeVars, choiceVars
<1>3. ASSUME NEW t \in Tabs, ApplyForm(t) PROVE PauseInv'
  BY <1>3, PostKeepsChosen DEF ApplyForm, choiceVars, PauseInv
<1>4. ASSUME NEW t \in Tabs, ApplyJson(t) PROVE PauseInv'
  BY <1>4, PostKeepsChosen DEF ApplyJson, Choose
<1>5. ASSUME NEW t \in Tabs, SetPause(t) PROVE PauseInv'
  <2>1. PICK secs \in PauseLengths : Post(t, [current_policy EXCEPT !.until = now + secs]) /\ Choose(now + secs)
    BY <1>5 DEF SetPause
  <2>2. [current_policy EXCEPT !.until = now + secs].until = now + secs
    BY <1>t DEF current_policy, Document
  <2>3. chosen \subseteq chosen' /\ now + secs \in chosen'
    BY <2>1 DEF Choose
  <2> QED BY <2>1, <2>2, <2>3, PostKeepsChosen, Zenon
<1>6. ASSUME NEW t \in Tabs, ResumeProtection(t) PROVE PauseInv'
  <2>1. [current_policy EXCEPT !.until = 0].until = 0
    BY <1>t DEF current_policy, Document
  <2>2. chosen \subseteq chosen' /\ 0 \in chosen' /\ Post(t, [current_policy EXCEPT !.until = 0])
    BY <1>6 DEF ResumeProtection, Choose
  <2> QED BY <2>1, <2>2, PostKeepsChosen, Zenon
<1>7. ASSUME NEW t \in Tabs, EditWritePolicy(t) PROVE PauseInv'
  BY <1>7, <1>t DEF EditWritePolicy, StoreEdit, PauseInv, choiceVars
<1>8. ASSUME NEW t \in Tabs, EditWriteProvenance(t) PROVE PauseInv'
  BY <1>8, <1>t DEF EditWriteProvenance, PauseInv, choiceVars
<1>9. CASE SyncWritePolicy
  BY <1>9, <1>t DEF SyncWritePolicy, PauseInv, consoleVars, choiceVars
<1>10. CASE Tick
  BY <1>10, <1>1 DEF Tick, consoleVars, storeVars, choiceVars
<1>11. ASSUME NEW t \in Tabs, EditLock(t) PROVE PauseInv'
  BY <1>11, <1>1 DEF EditLock, storeVars, choiceVars
<1>12. CASE SyncReadProvenance \/ SyncWriteProvenance \/ UNCHANGED vars
  BY <1>12, <1>1 DEF SyncReadProvenance, SyncWriteProvenance, vars, consoleVars, storeVars, choiceVars
<1>13. ASSUME NEW r \in Requests, InspectStart(r) \/ InspectFinish(r) PROVE PauseInv'
  BY <1>13, <1>1 DEF InspectStart, InspectFinish, consoleVars, storeVars, choiceVars
<1> QED
  BY <1>2, <1>3, <1>4, <1>5, <1>6, <1>7, <1>8, <1>9, <1>10, <1>11, <1>12, <1>13
  DEF Next, Edit, Sync

\* The pause in force is one that somebody chose, however posts, stale tabs and
\* the sync interleave (the console's buttons, postPolicy, apply_local_policy_edit).
THEOREM PausesExpire == Spec => []PauseExpires
<1>1. PauseInv => PauseExpires
  BY DEF PauseInv, PauseExpires
<1> QED BY <1>1, TypeCorrect, PauseInvInit, PauseInvStep, PTL DEF Spec

-----------------------------------------------------------------------------
(* Together *)

\* inspect judges by one policy, no older than what any caller has been told,
\* beside any number of tabs and the sync.
THEOREM VerdictsAlwaysFollowPolicy == Spec => []VerdictsFollowPolicy
  BY TypeCorrect, EditsAreExclusive, ReadsStayFresh, VerdictsUseOnePolicy, PTL DEF VerdictsFollowPolicy

\* What /ui/status and the log say of the policy is wrong only after a race
\* inside apply_synced_policy.
THEOREM ProvenanceIsHonest == Spec => []ProvenanceHonest
  BY ProvenanceIsExact, OverwritesAreWarned, PTL DEF ProvenanceHonest

-----------------------------------------------------------------------------
(* The score *)

\* Before each element of a sequence there are finitely many of a kind.
LEMMA CountBefore ==
  ASSUME NEW n \in Nat, NEW S
  PROVE  IsFiniteSet({j \in 1 .. n : j \in S}) /\ Cardinality({j \in 1 .. n : j \in S}) \in Nat
<1>1. IsFiniteSet(1 .. n)
  BY FS_Interval
<1>2. IsFiniteSet({j \in 1 .. n : j \in S})
  BY <1>1, FS_Subset
<1> QED BY <1>2, FS_CardinalityType

\* A finding scores a natural number of points.
LEMMA PointsAreNatural ==
  ASSUME NEW fs, NEW i \in Nat \ {0}
  PROVE  finding_points(fs, i) \in Nat
<1> DEFINE S == {j \in 1 .. (i - 1) : fs[j].category = fs[i].category}
<1>1. PICK n \in Nat : n = Cardinality(S)
  <2>1. S = {j \in 1 .. (i - 1) : j \in S}
    OBVIOUS
  <2>2. i - 1 \in Nat
    OBVIOUS
  <2> HIDE DEF S
  <2>3. Cardinality({j \in 1 .. (i - 1) : j \in S}) \in Nat
    BY <2>2, CountBefore
  <2> QED BY <2>1, <2>3
<1>2. PICK w \in Nat : w = category_weight(fs[i].category)
  BY DEF category_weight
<1>3. PICK m \in Nat : m = severity_multiplier(fs[i].severity)
  BY DEF severity_multiplier
<1>4. PICK x \in Nat : x = w * m
  OBVIOUS
<1>5. finding_points(fs, i) = (x + n + 2) \div (2 * (n + 2))
  <2> HIDE DEF S
  <2>1. finding_points(fs, i) =
          LET c == Cardinality(S)
              y == category_weight(fs[i].category) * severity_multiplier(fs[i].severity)
          IN  (y + c + 2) \div (2 * (c + 2))
    BY DEF finding_points, S
  <2> QED BY <2>1, <1>1, <1>2, <1>3, <1>4
<1>6. ASSUME NEW a \in Nat, NEW b \in Nat \ {0} PROVE a \div b \in Nat
  OBVIOUS
<1>7. x + n + 2 \in Nat /\ 2 * (n + 2) \in Nat \ {0}
  OBVIOUS
<1> QED BY <1>5, <1>6, <1>7

LEMMA PrefixOfSeq ==
  ASSUME NEW X, NEW fs \in Seq(X), NEW n \in 0 .. Len(fs)
  PROVE  SubSeq(fs, 1, n) \in Seq(X) /\ Len(SubSeq(fs, 1, n)) = n
OBVIOUS

\* It scores the same in a longer list that begins like this one.
LEMMA PointsOfPrefix ==
  ASSUME NEW X, NEW fs \in Seq(X), NEW n \in 0 .. Len(fs), NEW i \in 1 .. n
  PROVE  finding_points(SubSeq(fs, 1, n), i) = finding_points(fs, i)
<1> DEFINE s == SubSeq(fs, 1, n)
<1>1. \A j \in 1 .. i : s[j] = fs[j]
  OBVIOUS
<1> HIDE DEF s
<1>2. s[i] = fs[i] /\ \A j \in 1 .. (i - 1) : s[j] = fs[j]
  BY <1>1
<1>3. {j \in 1 .. (i - 1) : s[j].category = s[i].category} = {j \in 1 .. (i - 1) : fs[j].category = fs[i].category}
  BY <1>2
<1>4. finding_points(s, i) = finding_points(fs, i)
  BY <1>2, <1>3 DEF finding_points
<1> QED BY <1>4 DEF s

\* A function that satisfies the equations of a recursion has its values in
\* the set that the steps stay in.
LEMMA RecursionType ==
  ASSUME NEW X, NEW c \in X, NEW N \in Nat, NEW Step, ForwardStep(Step, X, N),
         NEW h, h[0] = c, \A i \in 1 .. N : h[i - 1] \in X => h[i] = Step[<< h[i - 1], i >>]
  PROVE  \A i \in 0 .. N : h[i] \in X
<1> DEFINE T == {i \in 0 .. N : h[i] \in X}
<1>1. 0 \in T
  OBVIOUS
<1>2. ASSUME NEW i \in 0 .. (N - 1), i \in T PROVE i + 1 \in T
  <2>1. i + 1 \in 1 .. N /\ (i + 1) - 1 = i /\ h[i] \in X
    BY <1>2
  <2>2. h[i + 1] = Step[<< h[i], i + 1 >>]
    BY <2>1
  <2>3. << h[i], i + 1 >> \in X \X (1 .. N)
    BY <2>1
  <2>4. Step[<< h[i], i + 1 >>] \in X
    BY <2>3 DEF ForwardStep
  <2>5. h[i + 1] \in X /\ i + 1 \in 0 .. N
    BY <2>1, <2>2, <2>4
  <2> QED BY <2>5
<1>3. \A i \in 0 .. N : i \in T
  <2> HIDE DEF T
  <2> QED BY <1>1, <1>2, UpTo
<1> QED BY <1>3

PointsUpTo(fs, upto) ==
  upto = [i \in 0 .. Len(fs) |-> IF i = 0 THEN 0 ELSE upto[i - 1] + finding_points(fs, i)]

\* The points are added up from the first finding to the last.
LEMMA PointsDefined ==
  ASSUME NEW X, NEW fs \in Seq(X)
  PROVE  \E upto : /\ upto[0] = 0 /\ \A i \in 1 .. Len(fs) : upto[i] = upto[i - 1] + finding_points(fs, i)
                   /\ \A i \in 0 .. Len(fs) : upto[i] \in Nat
                   /\ findings_points(fs) = upto[Len(fs)]
<1>0. PICK N \in Nat : N = Len(fs)
  OBVIOUS
<1> DEFINE Step == [q \in Nat \X (1 .. N) |-> q[1] + finding_points(fs, q[2])]
<1>1. ForwardStep(Step, Nat, N)
  <2>1. ASSUME NEW q \in Nat \X (1 .. N) PROVE q[1] + finding_points(fs, q[2]) \in Nat
    <3>1. q[1] \in Nat /\ q[2] \in Nat \ {0}
      OBVIOUS
    <3>2. finding_points(fs, q[2]) \in Nat
      BY <3>1, PointsAreNatural
    <3> QED BY <3>1, <3>2
  <2> QED BY <2>1 DEF ForwardStep
<1>2. ASSUME NEW a \in Nat, NEW i \in 1 .. N PROVE Step[<< a, i >>] = a + finding_points(fs, i)
  OBVIOUS
<1> HIDE DEF Step
<1>3. PICK g : Recurs(g, Nat, 0, N, Step)
  <2>1. 0 \in Nat
    OBVIOUS
  <2> QED BY <1>1, <2>1, Recursion
<1>4. PointsUpTo(fs, g)
  <2>1. ASSUME NEW i \in 0 .. N
        PROVE  g[i] = IF i = 0 THEN 0 ELSE g[i - 1] + finding_points(fs, i)
    <3>1. CASE i = 0
      BY <3>1, <1>3 DEF Recurs
    <3>2. CASE i # 0
      <4>1. i \in 1 .. N /\ g[i - 1] \in Nat /\ g[i] = Step[<< g[i - 1], i >>]
        BY <3>2, <1>3 DEF Recurs
      <4> QED BY <4>1, <3>2, <1>2
    <3> QED BY <3>1, <3>2
  <2> QED BY <2>1, <1>0, <1>3 DEF Recurs, PointsUpTo
<1>5. PICK upto : PointsUpTo(fs, upto) /\ findings_points(fs) = upto[N]
  <2>1. findings_points(fs) = (CHOOSE u : PointsUpTo(fs, u))[N]
    BY <1>0 DEF findings_points, PointsUpTo
  <2>2. PointsUpTo(fs, CHOOSE u : PointsUpTo(fs, u))
    BY <1>4
  <2> QED BY <2>1, <2>2
<1>6. upto[0] = 0 /\ \A i \in 1 .. N : upto[i] = upto[i - 1] + finding_points(fs, i)
  <2>1. upto[0] = 0
    BY <1>5, <1>0 DEF PointsUpTo
  <2>2. ASSUME NEW i \in 1 .. N PROVE upto[i] = upto[i - 1] + finding_points(fs, i)
    <3>1. i \in 0 .. N /\ i # 0
      OBVIOUS
    <3> QED BY <3>1, <1>5, <1>0 DEF PointsUpTo
  <2> QED BY <2>1, <2>2
<1>7. \A i \in 1 .. N : upto[i - 1] \in Nat => upto[i] = Step[<< upto[i - 1], i >>]
  BY <1>6, <1>2
<1>8. \A i \in 0 .. N : upto[i] \in Nat
  <2>1. 0 \in Nat
    OBVIOUS
  <2> QED BY <2>1, <1>1, <1>6, <1>7, RecursionType, ZenonT(60)
<1> QED BY <1>0, <1>5, <1>6, <1>8

\* More findings score no less.
LEMMA PointsGrow ==
  ASSUME NEW X, NEW fs \in Seq(X), NEW n \in 0 .. Len(fs)
  PROVE  /\ findings_points(fs) \in Nat /\ findings_points(SubSeq(fs, 1, n)) \in Nat
         /\ findings_points(SubSeq(fs, 1, n)) <= findings_points(fs)
<1>0. PICK N \in Nat : N = Len(fs) /\ n \in 0 .. N
  OBVIOUS
<1>1. PICK s \in Seq(X) : s = SubSeq(fs, 1, n) /\ Len(s) = n
  BY PrefixOfSeq
<1>2. PICK f : /\ f[0] = 0 /\ \A i \in 1 .. n : f[i] = f[i - 1] + finding_points(s, i)
               /\ \A i \in 0 .. n : f[i] \in Nat
               /\ findings_points(s) = f[n]
  BY <1>1, PointsDefined
<1>3. PICK g : /\ g[0] = 0 /\ \A i \in 1 .. N : g[i] = g[i - 1] + finding_points(fs, i)
               /\ \A i \in 0 .. N : g[i] \in Nat
               /\ findings_points(fs) = g[N]
  BY <1>0, PointsDefined
<1>4. \A i \in 1 .. n : finding_points(s, i) = finding_points(fs, i)
  BY <1>1, PointsOfPrefix
<1>5. f[n] = g[n]
  <2> DEFINE T == {i \in 0 .. n : f[i] = g[i]}
  <2>1. 0 \in T
    BY <1>2, <1>3, <1>0
  <2>2. ASSUME NEW i \in 0 .. (n - 1), i \in T PROVE i + 1 \in T
    <3>1. i + 1 \in 1 .. n /\ i + 1 \in 1 .. N /\ (i + 1) - 1 = i /\ i + 1 \in 0 .. n
      BY <1>0
    <3>2. f[i + 1] = f[i] + finding_points(s, i + 1) /\ g[i + 1] = g[i] + finding_points(fs, i + 1)
      BY <3>1, <1>2, <1>3
    <3>3. f[i] = g[i] /\ finding_points(s, i + 1) = finding_points(fs, i + 1)
      BY <2>2, <3>1, <1>4
    <3> QED BY <3>1, <3>2, <3>3
  <2>3. \A i \in 0 .. n : i \in T
    <3> HIDE DEF T
    <3>1. n \in Nat
      BY <1>0
    <3> QED BY <3>1, <2>1, <2>2, UpTo
  <2>4. n \in 0 .. n
    BY <1>0
  <2> QED BY <2>3, <2>4
<1>6. g[n] <= g[N]
  <2> DEFINE T == {i \in 0 .. N : n <= i => g[n] <= g[i]}
  <2>1. 0 \in T
    BY <1>0, <1>3
  <2>2. ASSUME NEW i \in 0 .. (N - 1), i \in T PROVE i + 1 \in T
    <3>1. i + 1 \in 1 .. N /\ (i + 1) - 1 = i /\ i + 1 \in 0 .. N /\ i + 1 \in Nat \ {0}
      BY <1>0
    <3>2. g[i + 1] = g[i] + finding_points(fs, i + 1) /\ g[i] \in Nat /\ g[n] \in Nat
      BY <3>1, <1>0, <1>3
    <3>3. finding_points(fs, i + 1) \in Nat
      BY <3>1, PointsAreNatural
    <3>4. CASE n <= i
      BY <2>2, <3>1, <3>2, <3>3, <3>4
    <3>5. CASE n = i + 1
      BY <3>1, <3>2, <3>5
    <3>6. CASE n > i + 1
      BY <3>1, <3>6
    <3> QED BY <3>4, <3>5, <3>6, <1>0
  <2>3. \A i \in 0 .. N : i \in T
    <3> HIDE DEF T
    <3> QED BY <2>1, <2>2, UpTo
  <2>4. N \in 0 .. N
    BY <1>0
  <2> QED BY <2>3, <2>4, <1>0
<1> QED BY <1>0, <1>1, <1>2, <1>3, <1>5, <1>6

\* What the context adds: at most 10 for the application, 15 for the
\* violations and 15 for the file.
LEMMA ContextPoints ==
  ASSUME NEW ctx, IsContext(ctx)
  PROVE  violation_points(ctx) \in 0 .. 15 /\ sensitivity_points(ctx) \in 0 .. 15
<1>1. sensitivity_points(ctx) \in 0 .. 15
  <2>1. PICK s \in 0 .. 100 : s = ctx.sensitivity
    BY DEF IsContext
  <2>2. (s * 15 + 50) \div 100 \in 0 .. 15
    OBVIOUS
  <2> QED BY <2>1, <2>2 DEF sensitivity_points
<1>2. violation_points(ctx) \in 0 .. 15
  <2>1. PICK d \in Nat : d = ctx.device
    BY U32Assumption DEF IsContext
  <2>2. PICK u \in Nat : u = ctx.user
    BY U32Assumption DEF IsContext
  <2>3. PICK prior \in Nat : prior = IF ctx.device + ctx.user > U32Max THEN U32Max ELSE ctx.device + ctx.user
    BY <2>1, <2>2, U32Assumption
  <2>4. PICK m \in Nat \ {0} : m = U32Max + 1
    BY U32Assumption
  <2>5. PICK t \in Nat : t = prior * 3
    OBVIOUS
  <2>6. t % m \in Nat
    OBVIOUS
  <2>7. violation_points(ctx) = IF t % m > 15 THEN 15 ELSE t % m
    BY <2>3, <2>4, <2>5 DEF violation_points
  <2> QED BY <2>6, <2>7
<1> QED BY <1>1, <1>2

ContextOnly(ctx) == (IF ctx.public_ai_app THEN 10 ELSE 0) + violation_points(ctx) + sensitivity_points(ctx)

\* The score is what the findings and the context add up to, at most 100.
LEMMA ScoreIsSum ==
  ASSUME NEW X, NEW fs \in Seq(X), NEW ctx, IsContext(ctx)
  PROVE  /\ ContextOnly(ctx) \in 0 .. 40
         /\ score(fs, ctx) = IF findings_points(fs) + ContextOnly(ctx) > 100 THEN 100
                             ELSE findings_points(fs) + ContextOnly(ctx)
<1>1. violation_points(ctx) \in 0 .. 15 /\ sensitivity_points(ctx) \in 0 .. 15
  BY ContextPoints
<1>2. PICK n \in Nat : n = findings_points(fs)
  <2>1. 0 \in 0 .. Len(fs)
    OBVIOUS
  <2> QED BY <2>1, PointsGrow
<1>3. PICK a \in {0, 10} : a = IF ctx.public_ai_app THEN 10 ELSE 0
  OBVIOUS
<1>4. PICK v \in 0 .. 15, t \in 0 .. 15 : v = violation_points(ctx) /\ t = sensitivity_points(ctx)
  BY <1>1
<1>5. ContextOnly(ctx) = a + v + t
  BY <1>3, <1>4 DEF ContextOnly
<1>6. score(fs, ctx) = IF n + a + v + t > 100 THEN 100 ELSE n + a + v + t
  BY <1>2, <1>3, <1>4 DEF score
<1> QED BY <1>2, <1>5, <1>6, SMTT(60)

\* It is a percentage, and grows with the findings.
LEMMA ScoreGrows ==
  ASSUME NEW X, NEW fs \in Seq(X), NEW n \in 0 .. Len(fs), NEW ctx, IsContext(ctx)
  PROVE  /\ score(fs, ctx) \in 0 .. 100 /\ score(SubSeq(fs, 1, n), ctx) \in 0 .. 100
         /\ score(SubSeq(fs, 1, n), ctx) <= score(fs, ctx)
<1>1. PICK s \in Seq(X) : s = SubSeq(fs, 1, n) /\ Len(s) = n
  BY PrefixOfSeq
<1>2. PICK a \in Nat, b \in Nat : a = findings_points(s) /\ b = findings_points(fs) /\ a <= b
  <2>1. /\ findings_points(fs) \in Nat /\ findings_points(s) \in Nat
        /\ findings_points(s) <= findings_points(fs)
    BY <1>1, PointsGrow
  <2> QED BY <2>1
<1>3. PICK c \in 0 .. 40 : c = ContextOnly(ctx)
  BY ScoreIsSum
<1>4. score(s, ctx) = IF a + c > 100 THEN 100 ELSE a + c
  BY <1>2, <1>3, ScoreIsSum
<1>5. score(fs, ctx) = IF b + c > 100 THEN 100 ELSE b + c
  BY <1>2, <1>3, ScoreIsSum
<1>6. PICK x \in 0 .. 100, y \in 0 .. 100 :
        x = (IF a + c > 100 THEN 100 ELSE a + c) /\ y = (IF b + c > 100 THEN 100 ELSE b + c) /\ x <= y
  <2>1. CASE a + c > 100
    <3>1. b + c > 100 /\ 100 \in 0 .. 100
      BY <1>2, <2>1, SMTT(60)
    <3> QED BY <2>1, <3>1
  <2>2. CASE ~ (a + c > 100) /\ b + c > 100
    <3>1. a + c \in 0 .. 100 /\ a + c <= 100 /\ 100 \in 0 .. 100
      BY <2>2, SMTT(60)
    <3> QED BY <2>2, <3>1
  <2>3. CASE ~ (a + c > 100) /\ ~ (b + c > 100)
    <3>0. a + c \in Nat /\ b + c \in Nat /\ a <= b
      BY <1>2
    <3>1. a + c \in 0 .. 100 /\ b + c \in 0 .. 100
      BY <2>3, <3>0
    <3>2. a + c <= b + c
      BY <3>0
    <3> QED BY <2>3, <3>1, <3>2
  <2> QED BY <2>1, <2>2, <2>3, Zenon
<1>7. score(s, ctx) = x /\ score(fs, ctx) = y
  BY <1>4, <1>5, <1>6
<1> QED BY <1>1, <1>6, <1>7, ZenonT(60)

\* Without findings it is the context's alone.
LEMMA ScoreOfNothing ==
  ASSUME NEW ctx, IsContext(ctx)
  PROVE  score(<< >>, ctx) \in 0 .. 40
<1>1. PICK e \in Seq({}) : e = << >> /\ Len(e) = 0
  <2>1. << >> \in Seq({}) /\ Len(<< >>) = 0
    OBVIOUS
  <2> QED BY <2>1
<1>2. findings_points(e) = 0
  <2>1. PICK upto : upto[0] = 0 /\ findings_points(e) = upto[Len(e)]
    BY PointsDefined
  <2> QED BY <2>1, <1>1
<1>3. PICK c \in 0 .. 40 : c = ContextOnly(ctx)
  BY <1>1, ScoreIsSum
<1>4. score(e, ctx) = IF 0 + c > 100 THEN 100 ELSE 0 + c
  BY <1>2, <1>3, ScoreIsSum
<1>5. ~ (0 + c > 100) /\ 0 + c = c
  OBVIOUS
<1>6. score(e, ctx) = c
  BY <1>4, <1>5
<1> QED BY <1>1, <1>6

-----------------------------------------------------------------------------
(* The rules *)

\* More findings are no fewer of each category.
LEMMA CountGrows ==
  ASSUME NEW X, NEW fs \in Seq(X), NEW n \in 0 .. Len(fs), NEW c
  PROVE  count(fs, c) \in Nat /\ count(SubSeq(fs, 1, n), c) \in Nat /\ count(SubSeq(fs, 1, n), c) <= count(fs, c)
<1> DEFINE s == SubSeq(fs, 1, n)
           A == {i \in DOMAIN s : s[i].category = c}
           B == {i \in DOMAIN fs : fs[i].category = c}
<1>1. DOMAIN s = 1 .. n /\ DOMAIN fs = 1 .. Len(fs) /\ Len(fs) \in Nat /\ \A i \in 1 .. n : s[i] = fs[i]
  OBVIOUS
<1>2. IsFiniteSet(B)
  <2>1. IsFiniteSet(1 .. Len(fs))
    BY <1>1, FS_Interval
  <2>2. B \subseteq 1 .. Len(fs)
    BY <1>1
  <2> HIDE DEF B
  <2> QED BY <2>1, <2>2, FS_Subset
<1>3. A \subseteq B
  BY <1>1
<1>4. count(fs, c) = Cardinality(B) /\ count(SubSeq(fs, 1, n), c) = Cardinality(A)
  BY DEF count
<1> HIDE DEF A, B
<1>5. IsFiniteSet(A) /\ Cardinality(A) <= Cardinality(B)
  BY <1>2, <1>3, FS_Subset
<1> QED BY <1>2, <1>4, <1>5, FS_CardinalityType

IsLeaf(n) == n.kind \notin {"And", "Or", "Not"}

LEMMA BandGrows ==
  ASSUME NEW a \in 0 .. 100, NEW b \in 0 .. 100, a <= b
  PROVE  band(a) \in 0 .. 3 /\ band(b) \in 0 .. 3 /\ band(a) <= band(b)
BY DEF band

\* A leaf is true or false.
LEMMA LeafBoolean ==
  ASSUME NEW n, NEW k, IsNode(n, k), IsLeaf(n), NEW fs, NEW ctx, IsContext(ctx), NEW risk
  PROVE  leaf_matches(n, fs, ctx, risk) \in BOOLEAN
<1>1. ctx.public_ai_app \in BOOLEAN
  BY DEF IsContext
<1>2. CASE n.kind = "CategoryDetected"
  BY <1>2 DEF leaf_matches
<1>3. CASE n.kind = "PublicAiApp"
  BY <1>1, <1>3 DEF leaf_matches
<1>4. CASE n.kind = "CategoryCountAtLeast"
  BY <1>4 DEF leaf_matches
<1>5. CASE n.kind = "RiskScoreAtLeast"
  BY <1>5 DEF leaf_matches
<1>6. CASE n.kind = "RiskBandAtLeast"
  BY <1>6 DEF leaf_matches
<1>7. CASE n.kind = "DeviceViolationsAtLeast"
  BY <1>7 DEF leaf_matches
<1>8. CASE n.kind = "UserViolationsAtLeast"
  BY <1>8 DEF leaf_matches
<1> QED BY <1>2, <1>3, <1>4, <1>5, <1>6, <1>7, <1>8 DEF IsNode, IsLeaf

\* What holds of a list of findings holds of a longer one.
LEMMA LeafGrows ==
  ASSUME NEW n, NEW k, IsNode(n, k), IsLeaf(n), NEW ctx,
         NEW X, NEW fs \in Seq(X), NEW m \in 0 .. Len(fs),
         NEW a \in 0 .. 100, NEW b \in 0 .. 100, a <= b,
         leaf_matches(n, SubSeq(fs, 1, m), ctx, a)
  PROVE  leaf_matches(n, fs, ctx, b)
<1>1. CASE n.kind = "CategoryDetected"
  <2>1. PICK x \in Nat, y \in Nat : x = count(SubSeq(fs, 1, m), n.category) /\ y = count(fs, n.category) /\ x <= y
    BY CountGrows
  <2>2. x > 0
    BY <1>1, <2>1 DEF leaf_matches
  <2>3. y > 0
    BY <2>1, <2>2
  <2> QED BY <1>1, <2>1, <2>3 DEF leaf_matches
<1>2. CASE n.kind = "CategoryCountAtLeast"
  <2>1. PICK x \in Nat, y \in Nat : x = count(SubSeq(fs, 1, m), n.category) /\ y = count(fs, n.category) /\ x <= y
    BY CountGrows
  <2>2. PICK least \in Nat : least = n.min
    BY <1>2 DEF IsNode
  <2>3. x >= least
    BY <1>2, <2>1, <2>2 DEF leaf_matches
  <2>4. y >= least
    BY <2>1, <2>3
  <2> QED BY <1>2, <2>1, <2>2, <2>4 DEF leaf_matches
<1>3. CASE n.kind = "RiskScoreAtLeast"
  <2>1. PICK least \in Nat : least = n.min
    BY <1>3 DEF IsNode
  <2>2. a >= least
    BY <1>3, <2>1 DEF leaf_matches
  <2>3. b >= least
    BY <2>2
  <2> QED BY <1>3, <2>1, <2>3 DEF leaf_matches
<1>4. CASE n.kind = "RiskBandAtLeast"
  <2>1. PICK least \in Nat : least = n.min
    BY <1>4, SMTT(60) DEF IsNode
  <2>2. PICK x \in 0 .. 3, y \in 0 .. 3 : x = band(a) /\ y = band(b) /\ x <= y
    BY BandGrows
  <2>3. x >= least
    BY <1>4, <2>1, <2>2 DEF leaf_matches
  <2>4. y >= least
    BY <2>2, <2>3
  <2> QED BY <1>4, <2>1, <2>2, <2>4 DEF leaf_matches
<1>5. CASE n.kind = "PublicAiApp"
  BY <1>5 DEF leaf_matches
<1>6. CASE n.kind = "DeviceViolationsAtLeast"
  BY <1>6 DEF leaf_matches
<1>7. CASE n.kind = "UserViolationsAtLeast"
  BY <1>7 DEF leaf_matches
<1> QED BY <1>1, <1>2, <1>3, <1>4, <1>5, <1>6, <1>7 DEF IsNode, IsLeaf

\* The value of a node, its children's being v.
NodeHolds(n, v, fs, ctx, risk) ==
  CASE n.kind = "And" -> \A c \in n.of : v[c]
    [] n.kind = "Or"  -> \E c \in n.of : v[c]
    [] n.kind = "Not" -> ~ v[n.of]
    [] OTHER -> leaf_matches(n, fs, ctx, risk)

Evaluates(nodes, fs, ctx, risk, val) ==
  val = [k \in DOMAIN nodes |-> NodeHolds(nodes[k], val, fs, ctx, risk)]

LEMMA NodeBoolean ==
  ASSUME NEW n, NEW k, IsNode(n, k), NEW v, NEW fs, NEW ctx, IsContext(ctx), NEW risk
  PROVE  NodeHolds(n, v, fs, ctx, risk) \in BOOLEAN
<1>1. CASE IsLeaf(n)
  <2>1. leaf_matches(n, fs, ctx, risk) \in BOOLEAN
    BY <1>1, LeafBoolean
  <2>2. NodeHolds(n, v, fs, ctx, risk) = leaf_matches(n, fs, ctx, risk)
    BY <1>1 DEF NodeHolds, IsLeaf
  <2> QED BY <2>1, <2>2
<1>2. CASE n.kind = "And"
  BY <1>2 DEF NodeHolds
<1>3. CASE n.kind = "Or"
  BY <1>3 DEF NodeHolds
<1>4. CASE n.kind = "Not"
  BY <1>4 DEF NodeHolds
<1> QED BY <1>1, <1>2, <1>3, <1>4 DEF IsLeaf

\* A node depends on the nodes before it only.
LEMMA NodeDepends ==
  ASSUME NEW n, NEW k \in Nat, IsNode(n, k), NEW v, NEW w, \A c \in 1 .. (k - 1) : v[c] = w[c],
         NEW fs, NEW ctx, NEW risk
  PROVE  NodeHolds(n, v, fs, ctx, risk) = NodeHolds(n, w, fs, ctx, risk)
<1>1. CASE IsLeaf(n)
  BY <1>1 DEF NodeHolds, IsLeaf
<1>2. CASE n.kind \in {"And", "Or"}
  <2>1. \A c \in n.of : v[c] = w[c]
    BY <1>2 DEF IsNode
  <2>2. (\A c \in n.of : v[c]) <=> (\A c \in n.of : w[c])
    BY <2>1
  <2>3. (\E c \in n.of : v[c]) <=> (\E c \in n.of : w[c])
    BY <2>1
  <2> QED BY <1>2, <2>2, <2>3 DEF NodeHolds
<1>3. CASE n.kind = "Not"
  <2>1. v[n.of] = w[n.of]
    BY <1>3 DEF IsNode
  <2> QED BY <1>3, <2>1 DEF NodeHolds
<1> QED BY <1>1, <1>2, <1>3 DEF IsLeaf

Evaluated(nodes, fs, ctx, risk, n, g) ==
  g = [k \in 1 .. n |-> g[k]] /\ \A k \in 1 .. n : g[k] = NodeHolds(nodes[k], g, fs, ctx, risk)

\* A condition has a value.
LEMMA ConditionDefined ==
  ASSUME NEW nodes, IsCondition(nodes), NEW fs, NEW ctx, NEW risk
  PROVE  \E val : Evaluates(nodes, fs, ctx, risk, val) /\ condition_matches(nodes, fs, ctx, risk) = val[Len(nodes)]
<1>0. PICK N \in Nat : N = Len(nodes) /\ DOMAIN nodes = 1 .. N
  BY DEF IsCondition, IsSequence
<1> DEFINE S == {n \in 0 .. N : \E g : Evaluated(nodes, fs, ctx, risk, n, g)}
<1>1. 0 \in S
  <2> DEFINE g == [k \in 1 .. 0 |-> 0]
  <2>1. Evaluated(nodes, fs, ctx, risk, 0, g)
    BY DEF Evaluated
  <2> HIDE DEF g
  <2> QED BY <2>1
<1>2. ASSUME NEW n \in 0 .. (N - 1), n \in S PROVE n + 1 \in S
  <2>1. PICK g : Evaluated(nodes, fs, ctx, risk, n, g)
    BY <1>2
  <2> DEFINE new == NodeHolds(nodes[n + 1], g, fs, ctx, risk)
             h == [k \in 1 .. (n + 1) |-> IF k <= n THEN g[k] ELSE new]
  <2> HIDE DEF new
  <2>2. (\A k \in 1 .. n : h[k] = g[k]) /\ h[n + 1] = new
    OBVIOUS
  <2>6. h = [k \in 1 .. (n + 1) |-> h[k]]
    OBVIOUS
  <2> HIDE DEF h
  <2>3. ASSUME NEW k \in 1 .. (n + 1) PROVE h[k] = NodeHolds(nodes[k], h, fs, ctx, risk)
    <3>1. IsNode(nodes[k], k) /\ k \in Nat
      BY <1>0 DEF IsCondition
    <3>2. \A c \in 1 .. (k - 1) : g[c] = h[c]
      BY <2>2
    <3>3. NodeHolds(nodes[k], g, fs, ctx, risk) = NodeHolds(nodes[k], h, fs, ctx, risk)
      BY <3>1, <3>2, NodeDepends
    <3>4. CASE k \in 1 .. n
      BY <3>3, <3>4, <2>1, <2>2 DEF Evaluated
    <3>5. CASE k = n + 1
      BY <3>3, <3>5, <2>2 DEF new
    <3> QED BY <3>4, <3>5
  <2>4. Evaluated(nodes, fs, ctx, risk, n + 1, h)
    BY <2>3, <2>6 DEF Evaluated
  <2>5. n + 1 \in 0 .. N
    OBVIOUS
  <2> QED BY <2>4, <2>5
<1>3. PICK g : Evaluated(nodes, fs, ctx, risk, N, g)
  <2> HIDE DEF S
  <2>1. \A n \in 0 .. N : n \in S
    BY <1>1, <1>2, UpTo
  <2>2. N \in S
    BY <2>1
  <2> QED BY <2>2 DEF S
<1>4. \E val : Evaluates(nodes, fs, ctx, risk, val)
  <2>1. g = [k \in DOMAIN nodes |-> NodeHolds(nodes[k], g, fs, ctx, risk)]
    BY <1>0, <1>3 DEF Evaluated
  <2> QED BY <2>1 DEF Evaluates
<1> DEFINE val == CHOOSE v : Evaluates(nodes, fs, ctx, risk, v)
<1>5. Evaluates(nodes, fs, ctx, risk, val)
  BY <1>4
<1>6. condition_matches(nodes, fs, ctx, risk) = val[Len(nodes)]
  BY DEF condition_matches, Evaluates, NodeHolds
<1> HIDE DEF val
<1> QED BY <1>5, <1>6

\* A condition without Not that holds of a list of findings holds of a longer one.
LEMMA ConditionGrows ==
  ASSUME NEW nodes, IsCondition(nodes), \A k \in DOMAIN nodes : nodes[k].kind # "Not",
         NEW ctx, NEW X, NEW fs \in Seq(X), NEW m \in 0 .. Len(fs),
         NEW a \in 0 .. 100, NEW b \in 0 .. 100, a <= b,
         condition_matches(nodes, SubSeq(fs, 1, m), ctx, a)
  PROVE  condition_matches(nodes, fs, ctx, b)
<1>0. PICK N \in Nat : N = Len(nodes) /\ DOMAIN nodes = 1 .. N /\ N > 0
  BY DEF IsCondition, IsSequence
<1>1. PICK s : s = SubSeq(fs, 1, m)
  OBVIOUS
<1>2. PICK v : Evaluates(nodes, s, ctx, a, v) /\ condition_matches(nodes, s, ctx, a) = v[N]
  BY <1>0, ConditionDefined
<1>3. PICK w : Evaluates(nodes, fs, ctx, b, w) /\ condition_matches(nodes, fs, ctx, b) = w[N]
  BY <1>0, ConditionDefined
<1> DEFINE T == {k \in 1 .. N : v[k] => w[k]}
<1>4. ASSUME NEW k \in 1 .. N, \A c \in 1 .. (k - 1) : c \in T PROVE k \in T
  <2>1. v[k] = NodeHolds(nodes[k], v, s, ctx, a) /\ w[k] = NodeHolds(nodes[k], w, fs, ctx, b)
    BY <1>0, <1>2, <1>3 DEF Evaluates
  <2>2. IsNode(nodes[k], k) /\ nodes[k].kind # "Not"
    BY <1>0 DEF IsCondition
  <2>3. \A c \in 1 .. (k - 1) : v[c] => w[c]
    BY <1>4
  <2>4. NodeHolds(nodes[k], v, s, ctx, a) => NodeHolds(nodes[k], w, fs, ctx, b)
    <3>1. CASE IsLeaf(nodes[k])
      <4>1. leaf_matches(nodes[k], s, ctx, a) => leaf_matches(nodes[k], fs, ctx, b)
        BY <2>2, <3>1, <1>1, LeafGrows
      <4> QED BY <3>1, <4>1 DEF NodeHolds, IsLeaf
    <3>2. CASE nodes[k].kind \in {"And", "Or"}
      <4>1. \A c \in nodes[k].of : v[c] => w[c]
        BY <2>2, <2>3, <3>2 DEF IsNode
      <4>2. (\A c \in nodes[k].of : v[c]) => (\A c \in nodes[k].of : w[c])
        BY <4>1
      <4>3. (\E c \in nodes[k].of : v[c]) => (\E c \in nodes[k].of : w[c])
        BY <4>1
      <4> QED BY <3>2, <4>2, <4>3 DEF NodeHolds
    <3> QED BY <2>2, <3>1, <3>2 DEF IsLeaf
  <2> QED BY <2>1, <2>4
<1>5. N \in T
  <2>1. \A k \in 1 .. N : k \in T
    <3> HIDE DEF T
    <3> QED BY <1>4, AllBefore
  <2> QED BY <1>0, <2>1
<1> QED BY <1>1, <1>2, <1>3, <1>5

-----------------------------------------------------------------------------
(* The decision *)

LEMMA RankIsNatural == ASSUME NEW a \in Actions PROVE action_rank(a) \in Nat
BY DEF Actions, action_rank

\* A set that asks for at least as much has no milder worst.
LEMMA WorstGrows ==
  ASSUME NEW S, NEW R, S \subseteq Actions, R \subseteq Actions, S # {}, R # {},
         \A a \in S : \E b \in R : action_rank(a) <= action_rank(b)
  PROVE  action_rank(Worst(S)) <= action_rank(Worst(R))
<1>1. Worst(S) \in S /\ Worst(R) \in R /\ \A b \in R : action_rank(b) <= action_rank(Worst(R))
  BY WorstOfSome
<1>2. PICK b \in R : action_rank(Worst(S)) <= action_rank(b)
  BY <1>1
<1>3. PICK i \in Nat, j \in Nat, k \in Nat :
        i = action_rank(Worst(S)) /\ j = action_rank(b) /\ k = action_rank(Worst(R))
  BY <1>1, RankIsNatural
<1>4. i <= j /\ j <= k
  BY <1>1, <1>2, <1>3
<1>5. i <= k
  BY <1>4
<1> QED BY <1>3, <1>5

\* A finding asks for one of the six actions.
LEMMA FindingActs ==
  ASSUME NEW p, IsPolicy(p), NEW f
  PROVE  finding_action(p, f) \in Actions
<1> DEFINE hits == {k \in DOMAIN p.keywords : p.keywords[k].pattern = f.match_name}
<1>1. category_setting(p, f.category) \in Actions
  BY DEF category_setting, IsPolicy
<1>2. CASE keyword_rule(p, f) = 0
  BY <1>1, <1>2 DEF finding_action
<1>3. CASE keyword_rule(p, f) # 0
  <2>1. hits # {} /\ keyword_rule(p, f) = CHOOSE k \in hits : \A j \in hits : k <= j
    BY <1>3 DEF keyword_rule
  <2>2. hits \subseteq Nat
    BY DEF IsPolicy, IsSequence
  <2>3. keyword_rule(p, f) \in hits
    <3> HIDE DEF hits
    <3>1. \E k \in hits : \A j \in hits : k <= j
      BY <2>1, <2>2, LeastElement
    <3> QED BY <2>1, <3>1
  <2>4. p.keywords[keyword_rule(p, f)].action \in Actions
    BY <2>3 DEF IsPolicy, IsKeyword
  <2> QED BY <2>4, <1>3 DEF finding_action
<1> QED BY <1>2, <1>3

\* What the active findings of a list ask for.
AskedBy(p, fs) == {finding_action(p, fs[i]) : i \in {j \in DOMAIN fs : Active(p, fs[j])}}

LEMMA CategoryActionIsWorst ==
  ASSUME NEW p, IsPolicy(p), NEW fs
  PROVE  /\ {"Allow"} \cup AskedBy(p, fs) \subseteq Actions
         /\ category_action(p, fs) = Worst({"Allow"} \cup AskedBy(p, fs))
         /\ category_action(p, fs) \in {"Allow"} \cup AskedBy(p, fs)
         /\ \A a \in {"Allow"} \cup AskedBy(p, fs) : action_rank(a) <= action_rank(category_action(p, fs))
<1>1. {"Allow"} \cup AskedBy(p, fs) \subseteq Actions
  <2>1. AskedBy(p, fs) \subseteq Actions
    BY FindingActs DEF AskedBy
  <2> QED BY <2>1 DEF Actions
<1>2. category_action(p, fs) = Worst({"Allow"} \cup AskedBy(p, fs))
  BY DEF category_action, AskedBy
<1> QED BY <1>1, <1>2, WorstOfSome

\* The findings that are listed ask for the same: they are the active ones.
LEMMA ActiveAsk ==
  ASSUME NEW p, NEW X, NEW fs \in Seq(X)
  PROVE  LET active == active_findings(p, fs)
         IN  /\ active \in Seq(X)
             /\ {finding_action(p, active[i]) : i \in DOMAIN active} = AskedBy(p, fs)
             /\ AskedBy(p, active) = AskedBy(p, fs)
<1> DEFINE S == {f \in Elements(fs) : Active(p, f)}
<1>1. PICK active : active = active_findings(p, fs) /\ active \in Seq(X) /\ Elements(active) = Elements(fs) \cap S
  <2>1. active_findings(p, fs) = Filter(fs, S)
    BY DEF active_findings
  <2> HIDE DEF S
  <2> QED BY <2>1, FilterType, FilterElements
<1>2. {finding_action(p, active[i]) : i \in DOMAIN active} = {finding_action(p, f) : f \in Elements(active)}
  BY DEF Elements
<1>3. AskedBy(p, fs) = {finding_action(p, f) : f \in S}
  BY DEF AskedBy, Elements
<1>4. Elements(active) = S
  BY <1>1
<1>5. \A i \in DOMAIN active : Active(p, active[i])
  BY <1>4 DEF Elements
<1>6. AskedBy(p, active) = {finding_action(p, active[i]) : i \in DOMAIN active}
  BY <1>5 DEF AskedBy
<1> QED BY <1>1, <1>2, <1>3, <1>4, <1>6, ZenonT(60)

RuleActions(p, matched) == {p.rules[r].action : r \in matched}

\* The verdict is the worst of what the active findings and the matched rules
\* ask for, and one of them asked for it.
LEMMA DecisionIsWorst ==
  ASSUME NEW p, IsPolicy(p), NEW fs, NEW ctx
  PROVE  LET d == evaluate_with_context(p, fs, ctx)
             asked == {category_action(p, fs)} \cup RuleActions(p, d.matched_rules)
         IN  /\ d.risk = score(fs, ctx) /\ d.matched_rules = matched_rules(p, fs, ctx, score(fs, ctx))
             /\ d.matched_rules \subseteq DOMAIN p.rules
             /\ asked \subseteq Actions /\ d.action = Worst(asked)
             /\ d.action \in asked /\ \A a \in asked : action_rank(a) <= action_rank(d.action)
<1>1. PICK d : d = evaluate_with_context(p, fs, ctx)
  OBVIOUS
<1>2. /\ d.risk = score(fs, ctx) /\ d.matched_rules = matched_rules(p, fs, ctx, score(fs, ctx))
      /\ d.action = Worst({category_action(p, fs)} \cup RuleActions(p, matched_rules(p, fs, ctx, score(fs, ctx))))
  BY <1>1 DEF evaluate_with_context, RuleActions
<1>3. d.matched_rules \subseteq DOMAIN p.rules
  BY <1>2 DEF matched_rules
<1>4. PICK asked : asked = {category_action(p, fs)} \cup RuleActions(p, d.matched_rules)
  OBVIOUS
<1>5. asked \subseteq Actions /\ asked # {}
  <2>1. category_action(p, fs) \in Actions
    BY CategoryActionIsWorst
  <2>2. RuleActions(p, d.matched_rules) \subseteq Actions
    BY <1>3 DEF RuleActions, IsPolicy
  <2> QED BY <1>4, <2>1, <2>2
<1>6. d.action = Worst(asked)
  BY <1>2, <1>4
<1>7. d.action \in asked /\ \A a \in asked : action_rank(a) <= action_rank(d.action)
  BY <1>5, <1>6, WorstOfSome
<1> QED BY <1>1, <1>2, <1>3, <1>4, <1>5, <1>6, <1>7

\* More findings match no fewer rules, if none of them has a Not.
LEMMA RulesGrow ==
  ASSUME NEW p, IsPolicy(p), ~ Negation(p), NEW ctx, NEW X, NEW fs \in Seq(X), NEW m \in 0 .. Len(fs),
         NEW a \in 0 .. 100, NEW b \in 0 .. 100, a <= b
  PROVE  matched_rules(p, SubSeq(fs, 1, m), ctx, a) \subseteq matched_rules(p, fs, ctx, b)
<1> SUFFICES ASSUME NEW r \in DOMAIN p.rules, condition_matches(p.rules[r].nodes, SubSeq(fs, 1, m), ctx, a)
             PROVE  condition_matches(p.rules[r].nodes, fs, ctx, b)
  BY DEF matched_rules
<1>1. PICK nodes : nodes = p.rules[r].nodes
  OBVIOUS
<1>2. IsCondition(nodes) /\ \A k \in DOMAIN nodes : nodes[k].kind # "Not"
  BY <1>1 DEF IsPolicy, Negation
<1>3. condition_matches(nodes, SubSeq(fs, 1, m), ctx, a)
  BY <1>1, ZenonT(60)
<1>4. condition_matches(nodes, fs, ctx, b)
  BY <1>2, <1>3, ConditionGrows
<1> QED BY <1>1, <1>4

\* A prefix of the findings decides no worse.
LEMMA DecisionGrows ==
  ASSUME NEW p, IsPolicy(p), NEW ctx, IsContext(ctx), NEW X, NEW fs \in Seq(X), NEW m \in 0 .. Len(fs)
  PROVE  LET d == evaluate_with_context(p, SubSeq(fs, 1, m), ctx)
             e == evaluate_with_context(p, fs, ctx)
         IN  d.risk <= e.risk /\ (~ Negation(p) => action_rank(d.action) <= action_rank(e.action))
<1>1. PICK s \in Seq(X) : s = SubSeq(fs, 1, m) /\ Len(s) = m
  BY PrefixOfSeq
<1>2. PICK d : d = evaluate_with_context(p, s, ctx)
  OBVIOUS
<1>3. PICK e : e = evaluate_with_context(p, fs, ctx)
  BY SMTT(60)
<1>4. PICK a \in 0 .. 100, b \in 0 .. 100 : a = score(s, ctx) /\ b = score(fs, ctx) /\ a <= b
  <2>1. score(fs, ctx) \in 0 .. 100 /\ score(s, ctx) \in 0 .. 100 /\ score(s, ctx) <= score(fs, ctx)
    BY <1>1, ScoreGrows
  <2> QED BY <2>1
<1>5. d.risk = a /\ d.matched_rules = matched_rules(p, s, ctx, a)
  BY <1>2, <1>4, DecisionIsWorst, ZenonT(60)
<1>6. e.risk = b /\ e.matched_rules = matched_rules(p, fs, ctx, b)
  BY <1>3, <1>4, DecisionIsWorst, ZenonT(60)
<1>7. ASSUME ~ Negation(p) PROVE action_rank(d.action) <= action_rank(e.action)
  <2>1. PICK S : S = {category_action(p, s)} \cup RuleActions(p, d.matched_rules)
    OBVIOUS
  <2>2. PICK R : R = {category_action(p, fs)} \cup RuleActions(p, e.matched_rules)
    OBVIOUS
  <2>3. S \subseteq Actions /\ d.action = Worst(S) /\ S # {}
    BY <1>2, <2>1, DecisionIsWorst
  <2>4. R \subseteq Actions /\ e.action = Worst(R) /\ R # {}
    BY <1>3, <2>2, DecisionIsWorst
  <2>5. d.matched_rules \subseteq e.matched_rules
    <3>1. matched_rules(p, SubSeq(fs, 1, m), ctx, a) \subseteq matched_rules(p, fs, ctx, b)
      BY <1>4, <1>7, RulesGrow
    <3> QED BY <3>1, <1>1, <1>5, <1>6, SMTT(60)
  <2>6. AskedBy(p, s) \subseteq AskedBy(p, fs)
    <3>1. DOMAIN s \subseteq DOMAIN fs /\ \A i \in DOMAIN s : s[i] = fs[i]
      BY <1>1
    <3> QED BY <3>1 DEF AskedBy
  <2>7. action_rank(category_action(p, s)) <= action_rank(category_action(p, fs))
    BY <2>6, CategoryActionIsWorst
  <2>8. ASSUME NEW x \in S PROVE \E y \in R : action_rank(x) <= action_rank(y)
    <3>1. CASE x = category_action(p, s)
      BY <3>1, <2>2, <2>7
    <3>2. CASE x \in RuleActions(p, d.matched_rules)
      <4>1. x \in R
        BY <3>2, <2>2, <2>5 DEF RuleActions
      <4>2. action_rank(x) <= action_rank(x)
        BY <2>3, RankIsNatural
      <4> QED BY <4>1, <4>2
    <3> QED BY <3>1, <3>2, <2>1
  <2> QED BY <2>3, <2>4, <2>8, WorstGrows
<1> QED BY <1>1, <1>2, <1>3, <1>4, <1>5, <1>6, <1>7

-----------------------------------------------------------------------------
(* The texts and the findings are sequences *)

JoinedUpTo(N, parts, upto) ==
  upto = [k \in 0 .. N |-> IF k = 0 THEN << >> ELSE upto[k - 1] \o parts[k]]

\* One part behind the other: the joining has a value, and every value of its
\* equation is a sequence.
LEMMA JoinDefined ==
  ASSUME NEW X, NEW N \in Nat, NEW parts \in [1 .. N -> Seq(X)]
  PROVE  /\ \E upto : JoinedUpTo(N, parts, upto)
         /\ \A upto : JoinedUpTo(N, parts, upto) => upto[N] \in Seq(X)
<1> DEFINE Step == [q \in Seq(X) \X (1 .. N) |-> q[1] \o parts[q[2]]]
<1>1. ForwardStep(Step, Seq(X), N)
  BY DEF ForwardStep
<1>2. ASSUME NEW s \in Seq(X), NEW i \in 1 .. N PROVE Step[<< s, i >>] = s \o parts[i]
  OBVIOUS
<1> HIDE DEF Step
<1>3. PICK c \in Seq(X) : c = << >>
  <2>1. << >> \in Seq(X)
    OBVIOUS
  <2> QED BY <2>1
<1>4. PICK g : Recurs(g, Seq(X), c, N, Step)
  BY <1>1, Recursion
<1>5. JoinedUpTo(N, parts, g)
  <2>1. ASSUME NEW i \in 0 .. N PROVE g[i] = IF i = 0 THEN << >> ELSE g[i - 1] \o parts[i]
    <3>1. CASE i = 0
      BY <3>1, <1>3, <1>4 DEF Recurs
    <3>2. CASE i # 0
      <4>1. i \in 1 .. N /\ g[i - 1] \in Seq(X) /\ g[i] = Step[<< g[i - 1], i >>]
        BY <3>2, <1>4 DEF Recurs
      <4> QED BY <4>1, <3>2, <1>2
    <3> QED BY <3>1, <3>2
  <2> QED BY <2>1, <1>4 DEF Recurs, JoinedUpTo
<1>6. ASSUME NEW upto, JoinedUpTo(N, parts, upto) PROVE upto[N] \in Seq(X)
  <2>1. upto[0] = c
    BY <1>3, <1>6 DEF JoinedUpTo
  <2>2. ASSUME NEW i \in 1 .. N, upto[i - 1] \in Seq(X) PROVE upto[i] = Step[<< upto[i - 1], i >>]
    <3>1. upto[i] = upto[i - 1] \o parts[i]
      <4>1. i \in 0 .. N /\ i # 0
        OBVIOUS
      <4> QED BY <4>1, <1>6 DEF JoinedUpTo
    <3> QED BY <3>1, <2>2, <1>2
  <2>3. \A i \in 0 .. N : upto[i] \in Seq(X)
    BY <1>1, <2>1, <2>2, RecursionType, SMTT(60)
  <2>4. N \in 0 .. N
    OBVIOUS
  <2> QED BY <2>3, <2>4
<1> QED BY <1>5, <1>6

\* A text in lower case is a text.
LEMMA LowerIsText ==
  ASSUME NEW t \in Seq(Vocabulary)
  PROVE  to_lowercase(t) \in Seq(Vocabulary)
<1>1. PICK N \in Nat : N = Len(t)
  OBVIOUS
<1> DEFINE parts == [k \in 1 .. N |-> Lower[t[k]]]
<1>2. parts \in [1 .. N -> Seq(Vocabulary)]
  <2>1. ASSUME NEW k \in 1 .. N PROVE Lower[t[k]] \in Seq(Vocabulary)
    <3>1. t[k] \in Vocabulary
      BY <1>1
    <3> QED BY <3>1, VocabularyAssumption
  <2> QED BY <2>1
<1> DEFINE R(u) == u = [i \in 0 .. N |-> IF i = 0 THEN << >> ELSE u[i - 1] \o Lower[t[i]]]
<1>3. ASSUME NEW u PROVE R(u) <=> JoinedUpTo(N, parts, u)
  <2>1. ASSUME NEW k \in 0 .. N PROVE (IF k = 0 THEN << >> ELSE u[k - 1] \o Lower[t[k]])
                                        = (IF k = 0 THEN << >> ELSE u[k - 1] \o parts[k])
    <3>1. CASE k = 0
      BY <3>1
    <3>2. CASE k # 0
      <4>1. k \in 1 .. N
        BY <3>2
      <4>2. parts[k] = Lower[t[k]]
        BY <4>1
      <4> HIDE DEF parts
      <4> QED BY <3>2, <4>2
    <3> QED BY <3>1, <3>2
  <2> HIDE DEF parts
  <2>2. [k \in 0 .. N |-> IF k = 0 THEN << >> ELSE u[k - 1] \o Lower[t[k]]]
          = [k \in 0 .. N |-> IF k = 0 THEN << >> ELSE u[k - 1] \o parts[k]]
    BY <2>1
  <2> QED BY <2>2 DEF JoinedUpTo
<1> HIDE DEF parts
<1>4. \E u : R(u)
  BY <1>2, <1>3, JoinDefined, Zenon
<1>5. R(CHOOSE u : R(u))
  BY <1>4, Zenon
<1>6. to_lowercase(t) = (CHOOSE u : R(u))[N]
  BY <1>1 DEF to_lowercase
<1> HIDE DEF R
<1>7. (CHOOSE u : R(u))[N] \in Seq(Vocabulary)
  BY <1>2, <1>3, <1>5, JoinDefined
<1> QED BY <1>6, <1>7

LEMMA LeafWireIsText ==
  ASSUME NEW leaf, leaf.text \in Seq(Vocabulary)
  PROVE  leaf_wire(leaf) \in Seq(Vocabulary)
<1>1. PICK t \in Seq(Vocabulary) : t = leaf.text
  OBVIOUS
<1>2. \A i \in 1 .. Len(t) : Escape[t[i]] \in Vocabulary
  BY VocabularyAssumption
<1>3. [i \in 1 .. Len(t) |-> Escape[t[i]]] \in Seq(Vocabulary)
  BY <1>2
<1> QED BY <1>1, <1>3 DEF leaf_wire

\* What the scanners see of a body is a text.
LEMMA WireIsText ==
  ASSUME NEW b, IsBody(b)
  PROVE  wire(b) \in Seq(Vocabulary)
<1>1. PICK N \in Nat : N = Len(b.leaves) /\ DOMAIN b.leaves = 1 .. N
  BY DEF IsBody, IsSequence
<1>2. \A i \in 1 .. N : leaf_wire(b.leaves[i]) \in Seq(Vocabulary)
  BY <1>1, LeafWireIsText DEF IsBody
<1>3. PICK open : open = IF b.compact THEN << "punct", "key", "punct" >> ELSE << "punct", "sp", "key", "punct", "sp" >>
  OBVIOUS
<1>4. open \in Seq(Vocabulary) /\ << "punct" >> \in Seq(Vocabulary)
  <2>1. "punct" \in Vocabulary /\ "key" \in Vocabulary /\ "sp" \in Vocabulary
    BY VocabularyAssumption
  <2>2. << "punct", "key", "punct" >> \in Seq(Vocabulary) /\ << "punct" >> \in Seq(Vocabulary)
    BY <2>1
  <2>3. << "punct", "sp", "key", "punct", "sp" >> \in Seq(Vocabulary)
    BY <2>1
  <2> QED BY <1>3, <2>2, <2>3
<1> DEFINE R(u) == u = [i \in 0 .. N |-> IF i = 0 THEN << >> ELSE u[i - 1] \o open \o leaf_wire(b.leaves[i])]
           Step == [q \in Seq(Vocabulary) \X (1 .. N) |-> q[1] \o open \o leaf_wire(b.leaves[q[2]])]
<1>5. ForwardStep(Step, Seq(Vocabulary), N)
  <2>1. ASSUME NEW q \in Seq(Vocabulary) \X (1 .. N)
        PROVE  q[1] \o open \o leaf_wire(b.leaves[q[2]]) \in Seq(Vocabulary)
    <3>1. q[1] \in Seq(Vocabulary) /\ leaf_wire(b.leaves[q[2]]) \in Seq(Vocabulary)
      BY <1>2
    <3> QED BY <3>1, <1>4
  <2> QED BY <2>1 DEF ForwardStep
<1>6. ASSUME NEW s \in Seq(Vocabulary), NEW i \in 1 .. N PROVE Step[<< s, i >>] = s \o open \o leaf_wire(b.leaves[i])
  OBVIOUS
<1> HIDE DEF Step
<1>7. PICK c \in Seq(Vocabulary) : c = << >>
  <2>1. << >> \in Seq(Vocabulary)
    OBVIOUS
  <2> QED BY <2>1
<1>8. PICK g : Recurs(g, Seq(Vocabulary), c, N, Step)
  BY <1>5, Recursion
<1>9. R(g)
  <2>1. ASSUME NEW i \in 0 .. N
        PROVE  g[i] = IF i = 0 THEN << >> ELSE g[i - 1] \o open \o leaf_wire(b.leaves[i])
    <3>1. CASE i = 0
      BY <3>1, <1>7, <1>8 DEF Recurs
    <3>2. CASE i # 0
      <4>1. i \in 1 .. N /\ g[i - 1] \in Seq(Vocabulary) /\ g[i] = Step[<< g[i - 1], i >>]
        BY <3>2, <1>8 DEF Recurs
      <4>2. g[i] = g[i - 1] \o open \o leaf_wire(b.leaves[i])
        BY <4>1, <1>6
      <4> QED BY <4>2, <3>2, Zenon
    <3> QED BY <3>1, <3>2
  <2> QED BY <2>1, <1>8 DEF Recurs
<1>10. PICK u : R(u) /\ wire(b) = IF b.json THEN u[N] \o << "punct" >> ELSE b.leaves[1].text
  <2>1. R(CHOOSE v : R(v))
    BY <1>9, Zenon
  <2>2. wire(b) = IF b.json THEN (CHOOSE v : R(v))[N] \o << "punct" >> ELSE b.leaves[1].text
    BY <1>1, <1>3 DEF wire
  <2> QED BY <2>1, <2>2, Zenon
<1>11. u[N] \in Seq(Vocabulary)
  <2>1. u[0] = c
    BY <1>7, <1>10
  <2>2. ASSUME NEW i \in 1 .. N, u[i - 1] \in Seq(Vocabulary) PROVE u[i] = Step[<< u[i - 1], i >>]
    <3>1. u[i] = u[i - 1] \o open \o leaf_wire(b.leaves[i])
      <4>1. i \in 0 .. N /\ i # 0
        OBVIOUS
      <4> QED BY <4>1, <1>10
    <3> QED BY <3>1, <2>2, <1>6
  <2> HIDE DEF R
  <2>3. \A i \in 0 .. N : u[i] \in Seq(Vocabulary)
    BY <1>5, <2>1, <2>2, RecursionType
  <2>4. N \in 0 .. N
    OBVIOUS
  <2> QED BY <2>3, <2>4
<1>12. ~ b.json => b.leaves[1].text \in Seq(Vocabulary)
  <2>1. ~ b.json => 1 \in DOMAIN b.leaves
    BY <1>1 DEF IsBody
  <2> QED BY <2>1 DEF IsBody
<1> HIDE DEF R
<1>13. u[N] \o << "punct" >> \in Seq(Vocabulary)
  BY <1>4, <1>11
<1> QED BY <1>10, <1>12, <1>13

\* Positions of a sequence that pass a test.
LEMMA PositionsAreSequence ==
  ASSUME NEW X, NEW t \in Seq(X), NEW S
  PROVE  Filter(Indices(t), S) \in Seq(Nat)
<1>1. Indices(t) \in Seq(Nat)
  BY DEF Indices
<1> QED BY <1>1, FilterType

LEMMA PositionsPass ==
  ASSUME NEW X, NEW t \in Seq(X), NEW S
  PROVE  Elements(Filter(Indices(t), S)) \subseteq S
<1>1. Indices(t) \in Seq(Nat)
  BY DEF Indices
<1> QED BY <1>1, FilterElements

\* What is in a sequence makes it one.
LEMMA SequenceOfElements ==
  ASSUME NEW X, NEW s \in Seq(X)
  PROVE  IsSequence(s) /\ Elements(s) \subseteq X
<1>1. Elements(s) \subseteq X
  BY DEF Elements
<1>2. s \in Seq(Elements(s))
  <2>1. \A i \in 1 .. Len(s) : s[i] \in Elements(s)
    BY DEF Elements
  <2>2. s = [i \in 1 .. Len(s) |-> s[i]] /\ Len(s) \in Nat
    OBVIOUS
  <2>3. s \in [1 .. Len(s) -> Elements(s)]
    BY <2>1, <2>2
  <2> HIDE DEF Elements
  <2> QED BY <2>1, <2>2
<1> QED BY <1>1, <1>2 DEF IsSequence

\* A sequence behind a sequence is one.
LEMMA SequenceBehind ==
  ASSUME NEW s, NEW t, IsSequence(s), IsSequence(t)
  PROVE  IsSequence(s \o t)
<1>1. PICK X : X = Elements(s) \cup Elements(t)
  OBVIOUS
<1>2. s \in Seq(X) /\ t \in Seq(X)
  BY <1>1 DEF IsSequence
<1>3. s \o t \in Seq(X)
  BY <1>2
<1> QED BY <1>3, SequenceOfElements

\* What stands in it.
LEMMA Behind ==
  ASSUME NEW X, NEW a \in Seq(X), NEW b \in Seq(X)
  PROVE  /\ a \o b \in Seq(X) /\ Len(a \o b) = Len(a) + Len(b)
         /\ \A k \in 1 .. Len(a) : (a \o b)[k] = a[k]
         /\ \A k \in (Len(a) + 1) .. (Len(a) + Len(b)) : (a \o b)[k] = b[k - Len(a)]
OBVIOUS

LEMMA AtomsBehind ==
  ASSUME NEW X, NEW a \in Seq(X), NEW b \in Seq(X)
  PROVE  Elements(a \o b) = Elements(a) \cup Elements(b)
<1>1. PICK c \in Seq(X) : c = a \o b
  BY Behind
<1>2. PICK n \in Nat, m \in Nat : n = Len(a) /\ m = Len(b)
  OBVIOUS
<1>3. /\ Len(c) = n + m /\ \A k \in 1 .. n : c[k] = a[k]
      /\ \A k \in (n + 1) .. (n + m) : c[k] = b[k - n]
  BY <1>1, <1>2, Behind
<1>7. DOMAIN a = 1 .. n /\ DOMAIN b = 1 .. m /\ DOMAIN c = 1 .. (n + m)
  BY <1>1, <1>2, <1>3
<1>4. ASSUME NEW k \in 1 .. (n + m) PROVE c[k] \in Elements(a) \cup Elements(b)
  <2>1. CASE k <= n
    <3>1. k \in 1 .. n /\ c[k] = a[k]
      BY <2>1, <1>3
    <3> QED BY <3>1, <1>7 DEF Elements
  <2>2. CASE k > n
    <3>1. k - n \in 1 .. m /\ k \in (n + 1) .. (n + m)
      BY <2>2
    <3>2. c[k] = b[k - n]
      BY <3>1, <1>3
    <3> QED BY <3>1, <3>2, <1>7 DEF Elements
  <2> QED BY <2>1, <2>2
<1>5. ASSUME NEW k \in 1 .. n PROVE a[k] \in Elements(c)
  <2>1. c[k] = a[k] /\ k \in 1 .. (n + m)
    BY <1>3
  <2> QED BY <2>1, <1>7 DEF Elements
<1>6. ASSUME NEW k \in 1 .. m PROVE b[k] \in Elements(c)
  <2>1. n + k \in (n + 1) .. (n + m) /\ n + k \in 1 .. (n + m) /\ (n + k) - n = k
    OBVIOUS
  <2>2. c[n + k] = b[k]
    BY <2>1, <1>3
  <2> QED BY <2>1, <2>2, <1>7 DEF Elements
<1>8. Elements(c) \subseteq Elements(a) \cup Elements(b)
  BY <1>4, <1>7 DEF Elements
<1>9. Elements(a) \subseteq Elements(c) /\ Elements(b) \subseteq Elements(c)
  BY <1>5, <1>6, <1>7 DEF Elements
<1> QED BY <1>1, <1>8, <1>9

FoundBy(patterns, t) ==
  UNION {{finding_at(p, t, i) : i \in {j \in DOMAIN t : starts_match(p, t, j)}} : p \in Elements(patterns)}

\* What the scanners find is a sequence.
LEMMA ScanIsSequence ==
  ASSUME NEW patterns, IsSequence(patterns), NEW X, NEW t \in Seq(X)
  PROVE  scan(patterns, t) \in Seq(FoundBy(patterns, t))
<1>1. PICK N \in Nat : N = Len(patterns) /\ DOMAIN patterns = 1 .. N
  BY DEF IsSequence
<1> DEFINE at(p) == Filter(Indices(t), {i \in DOMAIN t : starts_match(p, t, i) /\ passes_gate(p, t, i)})
           found(p) == [h \in 1 .. Len(at(p)) |-> finding_at(p, t, at(p)[h])]
           of == [p \in {patterns[k] : k \in DOMAIN patterns} |-> found(p)]
           parts == [k \in 1 .. N |-> found(patterns[k])]
           R(u) == u = [k \in 0 .. N |-> IF k = 0 THEN << >> ELSE u[k - 1] \o of[patterns[k]]]
<1>2. ASSUME NEW p \in Elements(patterns) PROVE found(p) \in Seq(FoundBy(patterns, t))
  <2>1. PICK a \in Seq(Nat) : a = at(p) /\ Elements(a) \subseteq {j \in DOMAIN t : starts_match(p, t, j)}
    <3>1. PICK S : at(p) = Filter(Indices(t), S) /\ S \subseteq {j \in DOMAIN t : starts_match(p, t, j)}
      OBVIOUS
    <3> HIDE DEF at
    <3> QED BY <3>1, PositionsAreSequence, PositionsPass
  <2>2. ASSUME NEW h \in 1 .. Len(a) PROVE finding_at(p, t, a[h]) \in FoundBy(patterns, t)
    <3>0. h \in DOMAIN a
      OBVIOUS
    <3>1. a[h] \in {j \in DOMAIN t : starts_match(p, t, j)}
      BY <2>1, <3>0 DEF Elements
    <3> QED BY <3>1 DEF FoundBy
  <2>3. [h \in 1 .. Len(a) |-> finding_at(p, t, a[h])] \in Seq(FoundBy(patterns, t))
    BY <2>2
  <2> QED BY <2>1, <2>3
<1> HIDE DEF found
<1>3. parts \in [1 .. N -> Seq(FoundBy(patterns, t))]
  BY <1>1, <1>2 DEF Elements
<1>4. \A k \in 1 .. N : of[patterns[k]] = parts[k]
  BY <1>1
<1>5. scan(patterns, t) = (CHOOSE u : R(u))[N]
  BY <1>1 DEF scan, found
<1> HIDE DEF of, parts
<1>6. ASSUME NEW u PROVE R(u) <=> JoinedUpTo(N, parts, u)
  <2>1. ASSUME NEW k \in 0 .. N PROVE (IF k = 0 THEN << >> ELSE u[k - 1] \o of[patterns[k]])
                                        = (IF k = 0 THEN << >> ELSE u[k - 1] \o parts[k])
    <3>1. CASE k = 0
      BY <3>1
    <3>2. CASE k # 0
      <4>1. k \in 1 .. N
        BY <3>2
      <4>2. parts[k] = of[patterns[k]]
        BY <4>1, <1>4
      <4> QED BY <3>2, <4>2
    <3> QED BY <3>1, <3>2
  <2>2. [k \in 0 .. N |-> IF k = 0 THEN << >> ELSE u[k - 1] \o of[patterns[k]]]
          = [k \in 0 .. N |-> IF k = 0 THEN << >> ELSE u[k - 1] \o parts[k]]
    BY <2>1
  <2> QED BY <2>2 DEF JoinedUpTo
<1>7. \E u : R(u)
  BY <1>3, <1>6, JoinDefined, Zenon
<1>8. R(CHOOSE u : R(u))
  BY <1>7, Zenon
<1> HIDE DEF R
<1>9. (CHOOSE u : R(u))[N] \in Seq(FoundBy(patterns, t))
  BY <1>3, <1>6, <1>8, JoinDefined
<1> QED BY <1>5, <1>9

KeywordsFound(t, rules) ==
  UNION {{keyword_finding(t, r, i) : i \in Elements(keyword_starts(t, r))} : r \in Elements(rules)}

\* So is what the keyword scan finds.
LEMMA KeywordScanIsSequence ==
  ASSUME NEW rules, IsSequence(rules), NEW t \in Seq(Vocabulary)
  PROVE  scan_custom_keywords(t, rules) \in Seq(KeywordsFound(t, rules))
<1>1. PICK N \in Nat : N = Len(rules) /\ DOMAIN rules = 1 .. N
  BY DEF IsSequence
<1> DEFINE of(r) == LET s == keyword_starts(t, r) IN [i \in 1 .. Len(s) |-> keyword_finding(t, r, s[i])]
           parts == [k \in 1 .. N |-> of(rules[k])]
           R(u) == u = [k \in 0 .. N |-> IF k = 0 THEN << >> ELSE u[k - 1] \o of(rules[k])]
<1>2. ASSUME NEW r \in Elements(rules) PROVE of(r) \in Seq(KeywordsFound(t, rules))
  <2>1. haystack(t, r) \in Seq(Vocabulary)
    BY LowerIsText DEF haystack
  <2>2. PICK S : keyword_starts(t, r) = Filter(Indices(haystack(t, r)), S)
    BY DEF keyword_starts
  <2>3. PICK a \in Seq(Nat) : a = keyword_starts(t, r)
    BY <2>1, <2>2, PositionsAreSequence
  <2>4. ASSUME NEW h \in 1 .. Len(a) PROVE keyword_finding(t, r, a[h]) \in KeywordsFound(t, rules)
    <3>1. a[h] \in Elements(keyword_starts(t, r))
      BY <2>3 DEF Elements
    <3> QED BY <3>1 DEF KeywordsFound
  <2>5. [h \in 1 .. Len(a) |-> keyword_finding(t, r, a[h])] \in Seq(KeywordsFound(t, rules))
    BY <2>4
  <2> QED BY <2>3, <2>5
<1>5. scan_custom_keywords(t, rules) = (CHOOSE u : R(u))[N]
  BY <1>1 DEF scan_custom_keywords
<1> HIDE DEF of
<1>3. parts \in [1 .. N -> Seq(KeywordsFound(t, rules))]
  BY <1>1, <1>2 DEF Elements
<1>4. \A k \in 1 .. N : of(rules[k]) = parts[k]
  OBVIOUS
<1> HIDE DEF parts
<1>6. ASSUME NEW u PROVE R(u) <=> JoinedUpTo(N, parts, u)
  <2>1. ASSUME NEW k \in 0 .. N PROVE (IF k = 0 THEN << >> ELSE u[k - 1] \o of(rules[k]))
                                        = (IF k = 0 THEN << >> ELSE u[k - 1] \o parts[k])
    <3>1. CASE k = 0
      BY <3>1
    <3>2. CASE k # 0
      <4>1. k \in 1 .. N
        BY <3>2
      <4>2. parts[k] = of(rules[k])
        BY <4>1, <1>4
      <4> QED BY <3>2, <4>2
    <3> QED BY <3>1, <3>2
  <2>2. [k \in 0 .. N |-> IF k = 0 THEN << >> ELSE u[k - 1] \o of(rules[k])]
          = [k \in 0 .. N |-> IF k = 0 THEN << >> ELSE u[k - 1] \o parts[k]]
    BY <2>1
  <2> QED BY <2>2 DEF JoinedUpTo
<1>7. \E u : R(u)
  BY <1>3, <1>6, JoinDefined, Zenon
<1>8. R(CHOOSE u : R(u))
  BY <1>7, Zenon
<1> HIDE DEF R
<1>9. (CHOOSE u : R(u))[N] \in Seq(KeywordsFound(t, rules))
  BY <1>3, <1>6, <1>8, JoinDefined
<1> QED BY <1>5, <1>9

\* Scanners as long as the detectors'.
Detects(p) == p.category # "CustomKeyword"

LEMMA ScannerOf ==
  ASSUME NEW X, NEW s \in Seq(X), \A p \in X : p.category # "CustomKeyword"
  PROVE  IsScanner(s)
BY SequenceOfElements DEF IsScanner

LEMMA ScannerOf1 ==
  ASSUME NEW a,
         Detects(a)
  PROVE  IsScanner(<< a >>)
<1>1. PICK X : X = {a}
  OBVIOUS
<1>2. << a >> \in Seq(X)
  BY <1>1
<1>3. \A p \in X : p.category # "CustomKeyword"
  BY <1>1 DEF Detects
<1> QED BY <1>2, <1>3, ScannerOf

LEMMA ScannerOf2 ==
  ASSUME NEW a, NEW b,
         Detects(a), Detects(b)
  PROVE  IsScanner(<< a, b >>)
<1>1. PICK X : X = {a, b}
  OBVIOUS
<1>2. << a, b >> \in Seq(X)
  BY <1>1
<1>3. \A p \in X : p.category # "CustomKeyword"
  BY <1>1 DEF Detects
<1> QED BY <1>2, <1>3, ScannerOf

LEMMA ScannerOf4 ==
  ASSUME NEW a, NEW b, NEW c, NEW d,
         Detects(a), Detects(b), Detects(c), Detects(d)
  PROVE  IsScanner(<< a, b, c, d >>)
<1>1. PICK X : X = {a, b, c, d}
  OBVIOUS
<1>2. << a, b, c, d >> \in Seq(X)
  BY <1>1
<1>3. \A p \in X : p.category # "CustomKeyword"
  BY <1>1 DEF Detects
<1> QED BY <1>2, <1>3, ScannerOf

LEMMA ScannerOf7 ==
  ASSUME NEW a, NEW b, NEW c, NEW d, NEW e, NEW f, NEW g,
         Detects(a), Detects(b), Detects(c), Detects(d), Detects(e), Detects(f), Detects(g)
  PROVE  IsScanner(<< a, b, c, d, e, f, g >>)
<1>1. PICK X : X = {a, b, c, d, e, f, g}
  OBVIOUS
<1>2. << a, b, c, d, e, f, g >> \in Seq(X)
  BY <1>1
<1>3. \A p \in X : p.category # "CustomKeyword"
  BY <1>1 DEF Detects
<1> QED BY <1>2, <1>3, ScannerOf

LEMMA ScannerOf9 ==
  ASSUME NEW a, NEW b, NEW c, NEW d, NEW e, NEW f, NEW g, NEW h, NEW i,
         Detects(a), Detects(b), Detects(c), Detects(d), Detects(e), Detects(f), Detects(g), Detects(h), Detects(i)
  PROVE  IsScanner(<< a, b, c, d, e, f, g, h, i >>)
<1>1. PICK X : X = {a, b, c, d, e, f, g, h, i}
  OBVIOUS
<1>2. << a, b, c, d, e, f, g, h, i >> \in Seq(X)
  BY <1>1
<1>3. \A p \in X : p.category # "CustomKeyword"
  BY <1>1 DEF Detects
<1> QED BY <1>2, <1>3, ScannerOf

LEMMA ScannerOf12 ==
  ASSUME NEW a, NEW b, NEW c, NEW d, NEW e, NEW f, NEW g, NEW h, NEW i, NEW j, NEW k, NEW l,
         Detects(a), Detects(b), Detects(c), Detects(d), Detects(e), Detects(f), Detects(g), Detects(h), Detects(i), Detects(j), Detects(k), Detects(l)
  PROVE  IsScanner(<< a, b, c, d, e, f, g, h, i, j, k, l >>)
<1>1. PICK X : X = {a, b, c, d, e, f, g, h, i, j, k, l}
  OBVIOUS
<1>2. << a, b, c, d, e, f, g, h, i, j, k, l >> \in Seq(X)
  BY <1>1
<1>3. \A p \in X : p.category # "CustomKeyword"
  BY <1>1 DEF Detects
<1> QED BY <1>2, <1>3, ScannerOf

LEMMA PatternDetects ==
  ASSUME NEW name, NEW category, category # "CustomKeyword", NEW severity, NEW edge, NEW gate, NEW list, NEW mask
  PROVE  Detects(P(name, category, severity, edge, gate, list, mask))
BY DEF P, Detects

LEMMA ScannerBehind ==
  ASSUME NEW s, NEW t, IsScanner(s), IsScanner(t)
  PROVE  IsScanner(s \o t)
<1>1. PICK X : s \in Seq(X) /\ t \in Seq(X)
  <2>1. s \in Seq(Elements(s) \cup Elements(t)) /\ t \in Seq(Elements(s) \cup Elements(t))
    BY DEF IsScanner, IsSequence
  <2> QED BY <2>1
<1>2. IsSequence(s \o t) /\ Elements(s \o t) = Elements(s) \cup Elements(t)
  BY <1>1, AtomsBehind, SequenceBehind DEF IsScanner
<1> QED BY <1>2 DEF IsScanner

\* The scanners are lists of patterns.
LEMMA ScannersAreLists ==
  IsScanner(request_scanners) /\ IsScanner(response_scanners)
<1>1. IsScanner(<< >>)
  <2>1. PICK X : X = {}
    OBVIOUS
  <2>2. << >> \in Seq(X) /\ \A p \in X : p.category # "CustomKeyword"
    BY <2>1
  <2> QED BY <2>2, ScannerOf
<1>2. IsScanner(secret_patterns)
  BY ScannerOf12, PatternDetects DEF secret_patterns
<1>3. IsScanner(prompt_patterns)
  BY ScannerOf1, PatternDetects DEF prompt_patterns
<1>4. IsScanner(pii_patterns)
  <2>1. IsScanner(pii_patterns_1)
    BY ScannerOf9, PatternDetects DEF pii_patterns_1, Plain
  <2>2. IsScanner(passport_patterns)
    BY ScannerOf7, PatternDetects DEF passport_patterns
  <2>3. IsScanner(pii_patterns_2)
    BY ScannerOf7, PatternDetects DEF pii_patterns_2, Plain
  <2>4. IsScanner(pii_patterns_1 \o passport_patterns)
    BY <2>1, <2>2, ScannerBehind
  <2> QED BY <2>3, <2>4, ScannerBehind DEF pii_patterns
<1>5. IsScanner(guardrail_patterns)
  BY ScannerOf4, PatternDetects DEF guardrail_patterns
<1>6. IsScanner(entropy_scanner)
  <2>1. IsScanner(entropy_patterns)
    BY ScannerOf2, PatternDetects DEF entropy_patterns
  <2> QED BY <1>1, <2>1 DEF entropy_scanner
<1>7. IsScanner(attack_patterns) /\ IsScanner(ner_patterns)
  BY ScannerAssumption
<1>8. IsScanner(response_scanners)
  <2>1. IsScanner(response_filter)
    BY <1>2, <1>4, ScannerBehind DEF response_filter
  <2>2. IsScanner(response_filter \o guardrail_patterns)
    BY <2>1, <1>5, ScannerBehind
  <2>3. IsScanner(response_filter \o guardrail_patterns \o ner_patterns)
    BY <2>2, <1>7, ScannerBehind
  <2> QED BY <2>3, <1>6, ScannerBehind DEF response_scanners
<1>9. IsScanner(request_scanners)
  <2>1. IsScanner(secret_patterns \o prompt_patterns)
    BY <1>2, <1>3, ScannerBehind
  <2>2. IsScanner(secret_patterns \o prompt_patterns \o attack_patterns)
    BY <2>1, <1>7, ScannerBehind
  <2>3. IsScanner(secret_patterns \o prompt_patterns \o attack_patterns \o pii_patterns)
    BY <2>2, <1>4, ScannerBehind
  <2>4. IsScanner(secret_patterns \o prompt_patterns \o attack_patterns \o pii_patterns \o guardrail_patterns)
    BY <2>3, <1>5, ScannerBehind
  <2>5. IsScanner(secret_patterns \o prompt_patterns \o attack_patterns \o pii_patterns \o guardrail_patterns
                     \o ner_patterns)
    BY <2>4, <1>7, ScannerBehind
  <2> QED BY <2>5, <1>6, ScannerBehind DEF request_scanners
<1> QED BY <1>8, <1>9

-----------------------------------------------------------------------------
(* Replacing *)

\* s is found at position k of t, character by character.
At(s, t, k) == k + Len(s) - 1 <= Len(t) /\ \A j \in 1 .. Len(s) : t[k + j - 1] = s[j]

LEMMA FoundAt ==
  ASSUME NEW X, NEW s \in Seq(X), NEW t \in Seq(X), NEW k \in Nat \ {0}
  PROVE  StandsAt(s, t, k) <=> At(s, t, k)
<1>1. ASSUME k + Len(s) - 1 <= Len(t)
      PROVE  (SubSeq(t, k, k + Len(s) - 1) = s) <=> \A j \in 1 .. Len(s) : t[k + j - 1] = s[j]
  <2>1. PICK n \in Nat : n = Len(s)
    OBVIOUS
  <2>2. PICK u \in Seq(X) : u = SubSeq(t, k, k + n - 1) /\ Len(u) = n /\ \A j \in 1 .. n : u[j] = t[k + j - 1]
    <3>1. k + n - 1 <= Len(t)
      BY <1>1, <2>1
    <3>2. SubSeq(t, k, k + n - 1) \in Seq(X)
      BY <2>1, <3>1
    <3>3. Len(SubSeq(t, k, k + n - 1)) = n
      BY <2>1, <3>1
    <3>4. \A j \in 1 .. n : SubSeq(t, k, k + n - 1)[j] = t[k + j - 1]
      BY <2>1, <3>1
    <3> QED BY <3>2, <3>3, <3>4
  <2>3. u = s <=> \A j \in 1 .. n : u[j] = s[j]
    <3>1. ASSUME \A j \in 1 .. n : u[j] = s[j] PROVE u = s
      BY <3>1, <2>1, <2>2
    <3> QED BY <3>1
  <2> QED BY <2>1, <2>2, <2>3
<1> QED BY <1>1 DEF StandsAt, At

\* What holds of N + 1, and of i whenever it holds of all behind i, holds from 1 on.
LEMMA DownTo ==
  ASSUME NEW N \in Nat, NEW S, N + 1 \in S, \A i \in 1 .. N : (\A j \in (i + 1) .. (N + 1) : j \in S) => i \in S
  PROVE  \A i \in 1 .. (N + 1) : i \in S
<1> DEFINE T == {m \in 1 .. (N + 1) : (N + 2) - m \in S}
<1>1. ASSUME NEW n \in 1 .. (N + 1), \A m \in 1 .. (n - 1) : m \in T PROVE n \in T
  <2>1. CASE n = 1
    BY <2>1
  <2>2. CASE n # 1
    <3>1. (N + 2) - n \in 1 .. N
      BY <2>2
    <3>2. ASSUME NEW j \in ((N + 2) - n + 1) .. (N + 1) PROVE j \in S
      <4>1. (N + 2) - j \in 1 .. (n - 1) /\ (N + 2) - ((N + 2) - j) = j
        BY <3>2
      <4> QED BY <4>1, <1>1
    <3> QED BY <3>1, <3>2
  <2> QED BY <2>1, <2>2
<1>2. \A m \in 1 .. (N + 1) : m \in T
  <2> HIDE DEF T
  <2>1. N + 1 \in Nat
    OBVIOUS
  <2> QED BY <1>1, <2>1, AllBefore
<1> SUFFICES ASSUME NEW i \in 1 .. (N + 1) PROVE i \in S
  OBVIOUS
<1>3. (N + 2) - i \in 1 .. (N + 1) /\ (N + 2) - ((N + 2) - i) = i
  OBVIOUS
<1> QED BY <1>2, <1>3

\* What is left of the text from position i on.
LeftFrom(t, s, by, g, i) ==
  IF i > Len(t) THEN << >> ELSE IF StandsAt(s, t, i) THEN by \o g[i + Len(s)] ELSE << t[i] >> \o g[i + 1]

\* g[i] is what becomes of the text from position i on.
Replaces(X, t, s, by, g) ==
  /\ t \in Seq(X) /\ s \in Seq(X) /\ by \in Seq(X)
  /\ g[Len(t) + 1] = << >>
  /\ \A i \in 1 .. (Len(t) + 1) : g[i] \in Seq(X)
  /\ \A i \in 1 .. Len(t) :
       /\ At(s, t, i) => i + Len(s) \in (i + 1) .. (Len(t) + 1) /\ g[i] = by \o g[i + Len(s)]
       /\ ~ At(s, t, i) => g[i] = << t[i] >> \o g[i + 1]

LEMMA ReplaceDefined ==
  ASSUME NEW X, NEW t \in Seq(X), NEW s \in Seq(X), s # << >>, NEW by \in Seq(X)
  PROVE  \E g : replace(t, s, by) = g[1] /\ Replaces(X, t, s, by, g)
<1>0. PICK N \in Nat, n \in Nat \ {0} : N = Len(t) /\ n = Len(s)
  OBVIOUS
<1> DEFINE R(m, g) == g = [i \in ((N + 1) - m) .. (N + 1) |-> g[i]]
                      /\ \A i \in ((N + 1) - m) .. (N + 1) : g[i] = LeftFrom(t, s, by, g, i)
           S == {m \in 0 .. N : \E g : R(m, g)}
<1>1. ASSUME NEW i \in 1 .. N, StandsAt(s, t, i) PROVE i + n \in (i + 1) .. (N + 1)
  BY <1>0, <1>1 DEF StandsAt
<1>2. ASSUME NEW i \in 1 .. (N + 1), NEW g, NEW h, \A j \in (i + 1) .. (N + 1) : g[j] = h[j]
      PROVE  LeftFrom(t, s, by, g, i) = LeftFrom(t, s, by, h, i)
  <2>1. CASE i > N
    BY <2>1, <1>0 DEF LeftFrom
  <2>2. CASE i \in 1 .. N /\ StandsAt(s, t, i)
    BY <2>2, <1>0, <1>1, <1>2 DEF LeftFrom
  <2>3. CASE i \in 1 .. N /\ ~ StandsAt(s, t, i)
    <3>1. i + 1 \in (i + 1) .. (N + 1)
      BY <2>3
    <3> QED BY <2>3, <3>1, <1>0, <1>2 DEF LeftFrom
  <2> QED BY <2>1, <2>2, <2>3
<1>3. 0 \in S
  <2> DEFINE g == [i \in ((N + 1) - 0) .. (N + 1) |-> << >>]
  <2>1. g = [i \in ((N + 1) - 0) .. (N + 1) |-> g[i]]
    OBVIOUS
  <2>2. ASSUME NEW i \in ((N + 1) - 0) .. (N + 1) PROVE g[i] = LeftFrom(t, s, by, g, i)
    BY <1>0 DEF LeftFrom
  <2> HIDE DEF g
  <2>3. R(0, g)
    BY <2>1, <2>2
  <2> QED BY <2>3
<1>4. ASSUME NEW m \in 0 .. (N - 1), m \in S PROVE m + 1 \in S
  <2>1. PICK g : R(m, g)
    BY <1>4
  <2> DEFINE new == LeftFrom(t, s, by, g, N - m)
             h == [i \in (N - m) .. (N + 1) |-> IF i = N - m THEN new ELSE g[i]]
  <2>2. h = [i \in (N - m) .. (N + 1) |-> h[i]] /\ h[N - m] = new
        /\ \A i \in ((N - m) + 1) .. (N + 1) : h[i] = g[i]
    <3> HIDE DEF new
    <3> QED OBVIOUS
  <2> HIDE DEF h
  <2>3. ASSUME NEW i \in (N - m) .. (N + 1) PROVE h[i] = LeftFrom(t, s, by, h, i)
    <3>0. i \in 1 .. (N + 1) /\ \A j \in (i + 1) .. (N + 1) : j \in ((N - m) + 1) .. (N + 1)
      OBVIOUS
    <3>1. i \in 1 .. (N + 1) /\ \A j \in (i + 1) .. (N + 1) : g[j] = h[j]
      BY <3>0, <2>2
    <3>2. LeftFrom(t, s, by, g, i) = LeftFrom(t, s, by, h, i)
      BY <3>1, <1>2
    <3>3. CASE i = N - m
      BY <3>2, <3>3, <2>2
    <3>4. CASE i # N - m
      <4>0. i \in ((N - m) + 1) .. (N + 1) /\ i \in ((N + 1) - m) .. (N + 1)
        BY <3>4
      <4>1. i \in ((N + 1) - m) .. (N + 1) /\ h[i] = g[i]
        BY <4>0, <2>2
      <4> QED BY <4>1, <3>2, <2>1
    <3> QED BY <3>3, <3>4
  <2>4. (N + 1) - (m + 1) = N - m /\ m + 1 \in 0 .. N
    OBVIOUS
  <2>5. R(m + 1, h)
    BY <2>2, <2>3, <2>4
  <2> QED BY <2>4, <2>5
<1>5. \E g : R(N, g)
  <2> HIDE DEF S
  <2>1. \A m \in 0 .. N : m \in S
    BY <1>3, <1>4, UpTo
  <2>2. N \in S
    BY <2>1
  <2> QED BY <2>2 DEF S
<1> HIDE DEF S
<1> DEFINE F(g) == g = [i \in 1 .. (N + 1) |-> LeftFrom(t, s, by, g, i)]
<1>6. \E g : F(g)
  <2>1. PICK g : R(N, g)
    BY <1>5
  <2>2. (N + 1) - N = 1
    OBVIOUS
  <2>3. g = [i \in 1 .. (N + 1) |-> g[i]] /\ \A i \in 1 .. (N + 1) : g[i] = LeftFrom(t, s, by, g, i)
    BY <2>1, <2>2
  <2>4. g = [i \in 1 .. (N + 1) |-> LeftFrom(t, s, by, g, i)]
    BY <2>3
  <2> QED BY <2>4
<1> DEFINE g == CHOOSE u : F(u)
<1>7. F(g)
  BY <1>6
<1>8. replace(t, s, by) = g[1]
  BY <1>0 DEF replace, LeftFrom
<1> HIDE DEF g
<1>9. \A i \in 1 .. (N + 1) : g[i] = LeftFrom(t, s, by, g, i)
  BY <1>7
<1> HIDE DEF F
<1>10. ASSUME NEW i \in 1 .. N, At(s, t, i) PROVE i + n \in (i + 1) .. (N + 1) /\ g[i] = by \o g[i + n]
  <2>1. StandsAt(s, t, i)
    BY <1>10, FoundAt
  <2>2. ~ (i > Len(t)) /\ i \in 1 .. (N + 1)
    BY <1>0
  <2> QED BY <2>1, <2>2, <1>0, <1>1, <1>9 DEF LeftFrom
<1>11. ASSUME NEW i \in 1 .. N, ~ At(s, t, i) PROVE g[i] = << t[i] >> \o g[i + 1]
  <2>1. ~ StandsAt(s, t, i)
    BY <1>11, FoundAt
  <2>2. ~ (i > Len(t)) /\ i \in 1 .. (N + 1)
    BY <1>0
  <2> QED BY <2>1, <2>2, <1>0, <1>9 DEF LeftFrom
<1>12. g[N + 1] = << >>
  <2>1. N + 1 \in 1 .. (N + 1) /\ N + 1 > Len(t)
    BY <1>0
  <2> QED BY <2>1, <1>9 DEF LeftFrom
<1>13. \A i \in 1 .. (N + 1) : g[i] \in Seq(X)
  <2> DEFINE T == {i \in 1 .. (N + 1) : g[i] \in Seq(X)}
  <2>1. N + 1 \in T
    <3>1. N + 1 \in 1 .. (N + 1) /\ << >> \in Seq(X)
      OBVIOUS
    <3> QED BY <3>1, <1>12
  <2>2. ASSUME NEW i \in 1 .. N, \A j \in (i + 1) .. (N + 1) : j \in T PROVE i \in T
    <3>1. CASE At(s, t, i)
      <4>1. g[i + n] \in Seq(X) /\ g[i] = by \o g[i + n]
        BY <2>2, <3>1, <1>10
      <4>2. g[i] \in Seq(X)
        BY <4>1
      <4> QED BY <4>2
    <3>2. CASE ~ At(s, t, i)
      <4>1. g[i + 1] \in Seq(X) /\ g[i] = << t[i] >> \o g[i + 1]
        BY <2>2, <3>2, <1>11
      <4>2. << t[i] >> \in Seq(X)
        BY <1>0
      <4>3. g[i] \in Seq(X)
        BY <4>1, <4>2
      <4> QED BY <4>3
    <3> QED BY <3>1, <3>2
  <2>3. \A i \in 1 .. (N + 1) : i \in T
    <3> HIDE DEF T
    <3> QED BY <2>1, <2>2, DownTo
  <2> QED BY <2>3
<1> QED BY <1>0, <1>8, <1>10, <1>11, <1>12, <1>13 DEF Replaces

LEMMA LengthIsNatural ==
  ASSUME NEW X, NEW t \in Seq(X)
  PROVE  Len(t) \in Nat
OBVIOUS

LEMMA OneBefore ==
  ASSUME NEW X, NEW x \in X, NEW b \in Seq(X)
  PROVE  /\ Len(<< x >> \o b) = Len(b) + 1 /\ (<< x >> \o b)[1] = x
         /\ \A k \in 2 .. (Len(b) + 1) : (<< x >> \o b)[k] = b[k - 1]
<1>1. << x >> \in Seq(X) /\ Len(<< x >>) = 1 /\ << x >>[1] = x
  OBVIOUS
<1> QED BY <1>1, Behind

LEMMA AtomsAfterOne ==
  ASSUME NEW X, NEW x \in X, NEW b \in Seq(X)
  PROVE  Elements(<< x >> \o b) = {x} \cup Elements(b)
<1>1. PICK a \in Seq(X) : a = << x >>
  <2>1. << x >> \in Seq(X)
    OBVIOUS
  <2> QED BY <2>1
<1>2. Elements(a) = {x}
  <2>1. DOMAIN a = {1} /\ a[1] = x
    BY <1>1
  <2> QED BY <2>1 DEF Elements
<1>3. Elements(a \o b) = {x} \cup Elements(b)
  BY <1>2, AtomsBehind
<1> QED BY <1>1, <1>3

\* Its steps.
LEMMA ReplaceStep ==
  ASSUME NEW X, NEW t, NEW s, NEW by, NEW g, Replaces(X, t, s, by, g), NEW i \in 1 .. Len(t)
  PROVE  /\ t[i] \in X /\ g[i] \in Seq(X)
         /\ At(s, t, i) => /\ i + Len(s) \in (i + 1) .. (Len(t) + 1)
                           /\ g[i] = by \o g[i + Len(s)] /\ g[i + Len(s)] \in Seq(X)
         /\ ~ At(s, t, i) => /\ i + 1 \in (i + 1) .. (Len(t) + 1)
                             /\ g[i] = << t[i] >> \o g[i + 1] /\ g[i + 1] \in Seq(X)
<1>1. t[i] \in X /\ i \in 1 .. (Len(t) + 1) /\ i + 1 \in 1 .. (Len(t) + 1) /\ i + 1 \in (i + 1) .. (Len(t) + 1)
  BY DEF Replaces
<1>2. ASSUME At(s, t, i)
      PROVE  i + Len(s) \in (i + 1) .. (Len(t) + 1) /\ g[i] = by \o g[i + Len(s)] /\ g[i + Len(s)] \in Seq(X)
  <2>1. i + Len(s) \in (i + 1) .. (Len(t) + 1) /\ g[i] = by \o g[i + Len(s)]
    BY <1>2 DEF Replaces
  <2>2. i + Len(s) \in 1 .. (Len(t) + 1)
    BY <2>1
  <2> QED BY <2>1, <2>2 DEF Replaces
<1>3. ASSUME ~ At(s, t, i) PROVE g[i] = << t[i] >> \o g[i + 1] /\ g[i + 1] \in Seq(X)
  BY <1>1, <1>3 DEF Replaces
<1> QED BY <1>1, <1>2, <1>3 DEF Replaces

\* An atom that is found in none of the snippet stays, and no others come than
\* the replacement's.
LEMMA ReplaceKeeps ==
  ASSUME NEW X, NEW t \in Seq(X), NEW s \in Seq(X), s # << >>, NEW by \in Seq(X)
  PROVE  /\ replace(t, s, by) \in Seq(X)
         /\ Elements(t) \ Elements(s) \subseteq Elements(replace(t, s, by))
         /\ Elements(replace(t, s, by)) \subseteq Elements(t) \cup Elements(by)
<1>0. PICK N \in Nat, n \in Nat \ {0} : N = Len(t) /\ n = Len(s)
  OBVIOUS
<1>1. PICK g : replace(t, s, by) = g[1] /\ Replaces(X, t, s, by, g)
  BY ReplaceDefined
<1>g. ASSUME NEW i \in 1 .. Len(t)
      PROVE  /\ At(s, t, i) => /\ i + Len(s) \in (i + 1) .. (Len(t) + 1)
                               /\ g[i] = by \o g[i + Len(s)] /\ g[i + Len(s)] \in Seq(X)
             /\ ~ At(s, t, i) => /\ i + 1 \in (i + 1) .. (Len(t) + 1)
                                 /\ g[i] = << t[i] >> \o g[i + 1] /\ g[i + 1] \in Seq(X)
  BY <1>1, ReplaceStep
<1> DEFINE T == {i \in 1 .. (N + 1) : /\ \A k \in i .. N : t[k] \in Elements(s) \cup Elements(g[i])
                                      /\ Elements(g[i]) \subseteq Elements(t) \cup Elements(by)}
<1>2. N + 1 \in T
  <2>1. g[N + 1] = << >> /\ Elements(<< >>) = {}
    BY <1>0, <1>1 DEF Replaces, Elements
  <2> QED BY <2>1
<1>3. ASSUME NEW i \in 1 .. N, \A j \in (i + 1) .. (N + 1) : j \in T PROVE i \in T
  <2>0. t[i] \in X /\ t[i] \in Elements(t)
    BY <1>0 DEF Elements
  <2>1. CASE At(s, t, i)
    <3>0. At(s, t, i) => i + n \in (i + 1) .. (N + 1) /\ g[i] = by \o g[i + n] /\ g[i + n] \in Seq(X)
      <4>1. i \in 1 .. Len(t)
        BY <1>0
      <4>2. At(s, t, i) => /\ i + Len(s) \in (i + 1) .. (Len(t) + 1)
                           /\ g[i] = by \o g[i + Len(s)] /\ g[i + Len(s)] \in Seq(X)
        BY <4>1, <1>g
      <4> QED BY <4>2, <1>0
    <3>1. i + n \in (i + 1) .. (N + 1) /\ g[i] = by \o g[i + n] /\ g[i + n] \in Seq(X)
      BY <2>1, <3>0
    <3>2. Elements(g[i]) = Elements(by) \cup Elements(g[i + n])
      BY <3>1, AtomsBehind
    <3>3. i + n \in T
      BY <3>1, <1>3
    <3>4. ASSUME NEW k \in i .. N PROVE t[k] \in Elements(s) \cup Elements(g[i])
      <4>1. CASE k < i + n
        <5>1. (k - i) + 1 \in 1 .. n /\ i + ((k - i) + 1) - 1 = k
          BY <4>1
        <5>2. t[k] = s[(k - i) + 1]
          BY <5>1, <2>1, <1>0 DEF At
        <5>3. (k - i) + 1 \in DOMAIN s
          BY <5>1, <1>0
        <5> QED BY <5>2, <5>3 DEF Elements
      <4>2. CASE k >= i + n
        <5>1. k \in (i + n) .. N
          BY <4>2, <3>1
        <5> QED BY <5>1, <3>2, <3>3
      <4> QED BY <4>1, <4>2
    <3> QED BY <3>2, <3>3, <3>4
  <2>2. CASE ~ At(s, t, i)
    <3>0. ~ At(s, t, i) => i + 1 \in (i + 1) .. (Len(t) + 1) /\ g[i] = << t[i] >> \o g[i + 1] /\ g[i + 1] \in Seq(X)
      <4>1. i \in 1 .. Len(t)
        BY <1>0
      <4> QED BY <4>1, <1>g
    <3>1. i + 1 \in (i + 1) .. (N + 1) /\ g[i] = << t[i] >> \o g[i + 1] /\ g[i + 1] \in Seq(X)
      BY <3>0, <2>2, <1>0
    <3>2. Elements(g[i]) = {t[i]} \cup Elements(g[i + 1])
      BY <3>1, <2>0, AtomsAfterOne
    <3>3. i + 1 \in T
      BY <3>1, <1>3
    <3>4. ASSUME NEW k \in i .. N PROVE t[k] \in Elements(s) \cup Elements(g[i])
      <4>1. k = i \/ k \in (i + 1) .. N
        OBVIOUS
      <4> QED BY <4>1, <3>2, <3>3
    <3> QED BY <2>0, <3>2, <3>3, <3>4
  <2> QED BY <2>1, <2>2
<1>4. 1 \in T
  <2>1. \A i \in 1 .. (N + 1) : i \in T
    <3> HIDE DEF T
    <3> QED BY <1>2, <1>3, DownTo
  <2>2. 1 \in 1 .. (N + 1)
    OBVIOUS
  <2> QED BY <2>1, <2>2
<1>5. g[1] \in Seq(X)
  <2>1. 1 \in 1 .. (N + 1)
    OBVIOUS
  <2> QED BY <2>1, <1>0, <1>1 DEF Replaces
<1>6. Elements(t) \ Elements(s) \subseteq Elements(g[1])
  BY <1>0, <1>4 DEF Elements
<1> QED BY <1>1, <1>4, <1>5, <1>6

Apart(s, t) == Elements(s) \cap Elements(t) = {}

\* What stands after the replacement and has nothing of it stood there before;
\* the snippet itself stands nowhere.
LEMMA ReplaceAddsNone ==
  ASSUME NEW X, NEW t \in Seq(X), NEW s \in Seq(X), s # << >>, NEW by \in Seq(X), by # << >>,
         NEW w \in Seq(X), w # << >>, Apart(by, w), Stands(w, replace(t, s, by))
  PROVE  Stands(w, t) /\ w # s
<1>0. PICK N \in Nat, n \in Nat \ {0}, b \in Nat \ {0} : N = Len(t) /\ n = Len(s) /\ b = Len(by)
  OBVIOUS
<1>1. PICK g : replace(t, s, by) = g[1] /\ Replaces(X, t, s, by, g)
  BY ReplaceDefined
<1>g. ASSUME NEW i \in 1 .. Len(t)
      PROVE  /\ At(s, t, i) => /\ i + Len(s) \in (i + 1) .. (Len(t) + 1)
                               /\ g[i] = by \o g[i + Len(s)] /\ g[i + Len(s)] \in Seq(X)
             /\ ~ At(s, t, i) => /\ i + 1 \in (i + 1) .. (Len(t) + 1)
                                 /\ g[i] = << t[i] >> \o g[i + 1] /\ g[i + 1] \in Seq(X)
  BY <1>1, ReplaceStep
<1>2. ASSUME NEW k \in 1 .. b, NEW v, NEW j \in DOMAIN v, by[k] = v[j] PROVE ~ Apart(by, v)
  <2>1. k \in DOMAIN by
    BY <1>0
  <2>2. by[k] \in Elements(by) /\ by[k] \in Elements(v)
    BY <1>2, <2>1 DEF Elements
  <2> QED BY <2>2 DEF Apart
\* what begins with v began with it
<1> DEFINE T == {i \in 1 .. (N + 1) : \A v \in Seq(X) : Apart(by, v) /\ At(v, g[i], 1) => At(v, t, i)}
<1>3. N + 1 \in T
  <2>1. ASSUME NEW v \in Seq(X), At(v, g[N + 1], 1) PROVE At(v, t, N + 1)
    <3>1. g[N + 1] = << >> /\ Len(<< >>) = 0
      BY <1>0, <1>1 DEF Replaces
    <3>2. Len(v) = 0
      BY <3>1, <2>1 DEF At
    <3> QED BY <3>2, <1>0 DEF At
  <2> QED BY <2>1
<1>4. ASSUME NEW i \in 1 .. N, \A j \in (i + 1) .. (N + 1) : j \in T PROVE i \in T
  <2> SUFFICES ASSUME NEW v \in Seq(X), Apart(by, v), At(v, g[i], 1) PROVE At(v, t, i)
    OBVIOUS
  <2>0. PICK m \in Nat : m = Len(v)
    OBVIOUS
  <2>1. CASE m = 0
    BY <2>0, <2>1, <1>0 DEF At
  <2>2. CASE m # 0 /\ At(s, t, i)
    <3>0. At(s, t, i) => i + n \in (i + 1) .. (N + 1) /\ g[i] = by \o g[i + n] /\ g[i + n] \in Seq(X)
      <4>1. i \in 1 .. Len(t)
        BY <1>0
      <4>2. At(s, t, i) => /\ i + Len(s) \in (i + 1) .. (Len(t) + 1)
                           /\ g[i] = by \o g[i + Len(s)] /\ g[i + Len(s)] \in Seq(X)
        BY <4>1, <1>g
      <4> QED BY <4>2, <1>0
    <3>1. g[i] = by \o g[i + n] /\ g[i + n] \in Seq(X)
      BY <2>2, <3>0
    <3>2. g[i][1] = by[1]
      BY <3>1, <1>0, Behind
    <3>3. 1 \in 1 .. m /\ 1 + 1 - 1 = 1 /\ 1 \in 1 .. b /\ 1 \in DOMAIN v
      BY <2>0, <2>2
    <3>4. g[i][1] = v[1]
      BY <3>3, <2>0 DEF At
    <3> QED BY <3>2, <3>3, <3>4, <1>2
  <2>3. CASE m # 0 /\ ~ At(s, t, i)
    <3>1. g[i] = << t[i] >> \o g[i + 1] /\ g[i + 1] \in Seq(X) /\ t[i] \in X /\ i + 1 \in (i + 1) .. (N + 1)
      <4>1. i \in 1 .. Len(t)
        BY <1>0
      <4>2. t[i] \in X
        BY <4>1
      <4>3. ~ At(s, t, i) => i + 1 \in (i + 1) .. (Len(t) + 1) /\ g[i] = << t[i] >> \o g[i + 1] /\ g[i + 1] \in Seq(X)
        BY <4>1, <1>g
      <4> QED BY <4>2, <4>3, <2>3, <1>0
    <3>2. PICK q \in Nat : q = Len(g[i + 1])
      BY <3>1, LengthIsNatural
    <3>3. Len(g[i]) = q + 1 /\ g[i][1] = t[i] /\ \A k \in 2 .. (q + 1) : g[i][k] = g[i + 1][k - 1]
      BY <3>1, <3>2, OneBefore
    <3>4. m <= q + 1 /\ \A j \in 1 .. m : g[i][j] = v[j]
      <4>1. 1 + m - 1 <= q + 1 /\ \A j \in 1 .. m : g[i][1 + j - 1] = v[j]
        BY <2>0, <3>3 DEF At
      <4> QED BY <4>1
    <3>5. PICK r \in Seq(X) : Len(r) = m - 1 /\ \A j \in 1 .. (m - 1) : r[j] = v[j + 1]
      <4>1. [j \in 1 .. (m - 1) |-> v[j + 1]] \in Seq(X)
        BY <2>0, <2>3
      <4>2. Len([j \in 1 .. (m - 1) |-> v[j + 1]]) = m - 1
        BY <2>3
      <4> QED BY <4>1, <4>2
    <3>6. Apart(by, r)
      <4>0. \A j \in DOMAIN r : j + 1 \in DOMAIN v /\ r[j] = v[j + 1]
        <5>1. DOMAIN r = 1 .. (m - 1) /\ DOMAIN v = 1 .. m
          BY <3>5, <2>0
        <5> QED BY <5>1, <3>5
      <4>1. Elements(r) \subseteq Elements(v)
        BY <4>0 DEF Elements
      <4> QED BY <4>1 DEF Apart
    <3>7. At(r, g[i + 1], 1)
      <4>1. ASSUME NEW j \in 1 .. (m - 1) PROVE g[i + 1][1 + j - 1] = r[j]
        <5>1. j + 1 \in 2 .. (q + 1) /\ j + 1 \in 1 .. m /\ (j + 1) - 1 = j /\ 1 + j - 1 = j
          BY <3>4, SMTT(60)
        <5> QED BY <5>1, <3>3, <3>4, <3>5
      <4>2. 1 + (m - 1) - 1 <= q
        BY <3>4
      <4> QED BY <4>1, <4>2, <3>2, <3>5 DEF At
    <3>8. At(r, t, i + 1)
      BY <3>1, <3>6, <3>7, <1>4
    <3>9. (i + 1) + (m - 1) - 1 <= N /\ \A j \in 1 .. (m - 1) : t[(i + 1) + j - 1] = r[j]
      BY <3>8, <3>5, <1>0 DEF At
    <3>10. ASSUME NEW j \in 1 .. m PROVE t[i + j - 1] = v[j]
      <4>1. CASE j = 1
        <5>1. i + 1 - 1 = i
          OBVIOUS
        <5> QED BY <4>1, <5>1, <3>3, <3>4
      <4>2. CASE j # 1
        <5>1. j - 1 \in 1 .. (m - 1) /\ (i + 1) + (j - 1) - 1 = i + j - 1 /\ (j - 1) + 1 = j
          BY <4>2
        <5> QED BY <5>1, <3>5, <3>9
      <4> QED BY <4>1, <4>2
    <3>11. i + m - 1 <= N
      BY <3>9
    <3> QED BY <3>10, <3>11, <2>0, <1>0 DEF At
  <2> QED BY <2>1, <2>2, <2>3
<1>5. \A i \in 1 .. (N + 1) : i \in T
  <2> HIDE DEF T
  <2> QED BY <1>3, <1>4, DownTo
\* what stands further on stood there
<1> DEFINE U == {i \in 1 .. (N + 1) : \A k \in 1 .. Len(g[i]) : At(w, g[i], k) => Stands(w, t) /\ w # s}
<1> HIDE DEF T
<1>6. N + 1 \in U
  <2>1. g[N + 1] = << >> /\ Len(<< >>) = 0
    BY <1>0, <1>1 DEF Replaces
  <2> QED BY <2>1
<1>7. ASSUME NEW i \in 1 .. N, \A j \in (i + 1) .. (N + 1) : j \in U PROVE i \in U
  <2> SUFFICES ASSUME NEW k \in 1 .. Len(g[i]), At(w, g[i], k) PROVE Stands(w, t) /\ w # s
    OBVIOUS
  <2>0. PICK m \in Nat \ {0} : m = Len(w)
    OBVIOUS
  <2>1. CASE At(s, t, i)
    <3>0. At(s, t, i) => i + n \in (i + 1) .. (N + 1) /\ g[i] = by \o g[i + n] /\ g[i + n] \in Seq(X)
      <4>1. i \in 1 .. Len(t)
        BY <1>0
      <4>2. At(s, t, i) => /\ i + Len(s) \in (i + 1) .. (Len(t) + 1)
                           /\ g[i] = by \o g[i + Len(s)] /\ g[i + Len(s)] \in Seq(X)
        BY <4>1, <1>g
      <4> QED BY <4>2, <1>0
    <3>1. g[i] = by \o g[i + n] /\ g[i + n] \in Seq(X) /\ i + n \in (i + 1) .. (N + 1)
      BY <2>1, <3>0
    <3>2. PICK q \in Nat : q = Len(g[i + n])
      BY <3>1, LengthIsNatural
    <3>3. /\ Len(g[i]) = b + q /\ \A j \in 1 .. b : g[i][j] = by[j]
          /\ \A j \in (b + 1) .. (b + q) : g[i][j] = g[i + n][j - b]
      BY <3>1, <3>2, <1>0, Behind, SMTT(60)
    <3>4. k \in 1 .. (b + q) /\ k + m - 1 <= b + q /\ \A j \in 1 .. m : g[i][k + j - 1] = w[j]
      BY <2>0, <3>3 DEF At
    <3>5. k > b
      <4>1. ASSUME k <= b PROVE FALSE
        <5>1. 1 \in 1 .. m /\ k + 1 - 1 = k /\ k \in 1 .. b /\ 1 \in DOMAIN w
          BY <4>1, <2>0, <3>4
        <5>2. by[k] = w[1]
          BY <5>1, <3>3, <3>4
        <5> QED BY <5>1, <5>2, <1>2
      <4> QED BY <4>1, <3>4
    <3>6. k - b \in 1 .. q /\ (k - b) + m - 1 <= q
      BY <3>4, <3>5, SMTT(60)
    <3>7. ASSUME NEW j \in 1 .. m PROVE g[i + n][(k - b) + j - 1] = w[j]
      <4>1. k + j - 1 \in (b + 1) .. (b + q) /\ (k + j - 1) - b = (k - b) + j - 1
        BY <3>4, <3>5
      <4> QED BY <4>1, <3>3, <3>4
    <3>8. At(w, g[i + n], k - b)
      BY <3>6, <3>7, <3>2, <2>0 DEF At
    <3> QED BY <3>1, <3>2, <3>6, <3>8, <1>7
  <2>2. CASE ~ At(s, t, i)
    <3>1. g[i] = << t[i] >> \o g[i + 1] /\ g[i + 1] \in Seq(X) /\ t[i] \in X /\ i + 1 \in (i + 1) .. (N + 1)
      <4>1. i \in 1 .. Len(t)
        BY <1>0
      <4>2. t[i] \in X
        BY <4>1
      <4>3. ~ At(s, t, i) => i + 1 \in (i + 1) .. (Len(t) + 1) /\ g[i] = << t[i] >> \o g[i + 1] /\ g[i + 1] \in Seq(X)
        BY <4>1, <1>g
      <4> QED BY <4>2, <4>3, <2>2, <1>0
    <3>2. PICK q \in Nat : q = Len(g[i + 1])
      BY <3>1, LengthIsNatural
    <3>3. Len(g[i]) = q + 1 /\ \A j \in 2 .. (q + 1) : g[i][j] = g[i + 1][j - 1]
      BY <3>1, <3>2, OneBefore
    <3>4. k \in 1 .. (q + 1) /\ k + m - 1 <= q + 1 /\ \A j \in 1 .. m : g[i][k + j - 1] = w[j]
      BY <2>0, <3>3 DEF At
    <3>5. CASE k = 1
      <4>1. At(w, t, i)
        <5>1. i \in 1 .. (N + 1)
          OBVIOUS
        <5> QED BY <5>1, <3>5, <1>5 DEF T
      <4>2. StandsAt(w, t, i) /\ i \in DOMAIN t
        BY <4>1, <1>0, FoundAt
      <4> QED BY <4>1, <4>2, <2>2 DEF Stands
    <3>6. CASE k # 1
      <4>1. k - 1 \in 1 .. q /\ (k - 1) + m - 1 <= q
        BY <3>4, <3>6
      <4>2. ASSUME NEW j \in 1 .. m PROVE g[i + 1][(k - 1) + j - 1] = w[j]
        <5>1. k + j - 1 \in 2 .. (q + 1) /\ (k + j - 1) - 1 = (k - 1) + j - 1
          BY <3>4, <3>6
        <5> QED BY <5>1, <3>3, <3>4
      <4>3. At(w, g[i + 1], k - 1)
        BY <4>1, <4>2, <3>2, <2>0 DEF At
      <4> QED BY <3>1, <3>2, <4>1, <4>3, <1>7
    <3> QED BY <3>5, <3>6
  <2> QED BY <2>1, <2>2
<1>8. 1 \in U
  <2>1. \A i \in 1 .. (N + 1) : i \in U
    <3> HIDE DEF U
    <3> QED BY <1>6, <1>7, DownTo
  <2>2. 1 \in 1 .. (N + 1)
    OBVIOUS
  <2> QED BY <2>1, <2>2
<1>9. PICK k \in 1 .. Len(g[1]) : At(w, g[1], k)
  <2>1. g[1] \in Seq(X)
    <3>1. 1 \in 1 .. (N + 1)
      OBVIOUS
    <3> QED BY <3>1, <1>0, <1>1 DEF Replaces
  <2>2. PICK k \in DOMAIN g[1] : StandsAt(w, g[1], k)
    BY <1>1 DEF Stands
  <2>3. k \in 1 .. Len(g[1]) /\ k \in Nat \ {0}
    BY <2>1
  <2>4. At(w, g[1], k)
    BY <2>1, <2>2, <2>3, FoundAt
  <2> QED BY <2>3, <2>4
<1> QED BY <1>8, <1>9

\* Every atom of B in the text is within an occurrence of s.
Covered(t, s, B) == \A k \in DOMAIN t : t[k] \in B => \E i \in 1 .. k : k < i + Len(s) /\ At(s, t, i)

\* Replacing something else leaves the occurrences of s whole.
LEMMA ReplaceKeepsCovered ==
  ASSUME NEW X, NEW t \in Seq(X), NEW w \in Seq(X), w # << >>, NEW by \in Seq(X),
         NEW s \in Seq(X), s # << >>, Apart(w, s), NEW B, Elements(by) \cap B = {}, Covered(t, s, B)
  PROVE  Covered(replace(t, w, by), s, B)
<1>0. PICK N \in Nat, n \in Nat \ {0}, q \in Nat \ {0}, b \in Nat :
        N = Len(t) /\ n = Len(s) /\ q = Len(w) /\ b = Len(by)
  OBVIOUS
<1>1. PICK g : replace(t, w, by) = g[1] /\ Replaces(X, t, w, by, g)
  BY ReplaceDefined
<1>g. ASSUME NEW i \in 1 .. Len(t)
      PROVE  /\ At(w, t, i) => /\ i + Len(w) \in (i + 1) .. (Len(t) + 1)
                               /\ g[i] = by \o g[i + Len(w)] /\ g[i + Len(w)] \in Seq(X)
             /\ ~ At(w, t, i) => /\ i + 1 \in (i + 1) .. (Len(t) + 1)
                                 /\ g[i] = << t[i] >> \o g[i + 1] /\ g[i + 1] \in Seq(X)
  BY <1>1, ReplaceStep
<1>2. ASSUME NEW j \in 1 .. n, NEW k \in 1 .. q PROVE s[j] # w[k]
  <2>1. j \in DOMAIN s /\ k \in DOMAIN w
    BY <1>0
  <2>2. s[j] \in Elements(s) /\ w[k] \in Elements(w)
    BY <2>1 DEF Elements
  <2> QED BY <2>2 DEF Apart
<1>3. ASSUME NEW k \in 1 .. b PROVE by[k] \notin B
  <2>1. k \in DOMAIN by
    BY <1>0
  <2> QED BY <2>1 DEF Elements
<1>4. ASSUME NEW m \in Nat, At(s, t, m) PROVE m + n - 1 <= N /\ \A j \in 1 .. n : t[m + j - 1] = s[j]
  BY <1>4, <1>0 DEF At
<1>5. ASSUME NEW i \in 1 .. N, NEW m \in 1 .. i, At(s, t, m), i < m + n PROVE ~ At(w, t, i)
  <2>1. (i - m) + 1 \in 1 .. n /\ m + ((i - m) + 1) - 1 = i /\ 1 \in 1 .. q /\ i + 1 - 1 = i
    BY <1>5
  <2>2. t[i] = s[(i - m) + 1]
    BY <2>1, <1>4, <1>5
  <2>3. ASSUME At(w, t, i) PROVE FALSE
    <3>1. t[i] = w[1]
      BY <2>3, <2>1, <1>0 DEF At
    <3> QED BY <3>1, <2>1, <2>2, <1>2
  <2> QED BY <2>3
\* what is left of an occurrence is still there
<1> DEFINE Kept(i, m) == /\ (m + n) - i <= Len(g[i])
                         /\ \A j \in 1 .. ((m + n) - i) : g[i][j] = t[i + j - 1]
<1> HIDE DEF Kept
<1> DEFINE T == {i \in 1 .. (N + 1) : \A m \in 1 .. i : At(s, t, m) /\ i < m + n => Kept(i, m)}
<1>6. N + 1 \in T
  <2>1. ASSUME NEW m \in 1 .. (N + 1), At(s, t, m), N + 1 < m + n PROVE FALSE
    BY <2>1, <1>4
  <2> QED BY <2>1
<1>7. ASSUME NEW i \in 1 .. N, \A j \in (i + 1) .. (N + 1) : j \in T PROVE i \in T
  <2> SUFFICES ASSUME NEW m \in 1 .. i, At(s, t, m), i < m + n PROVE Kept(i, m)
    <3>1. i \in 1 .. (N + 1)
      OBVIOUS
    <3> QED BY <3>1
  <2>1. ~ At(w, t, i)
    BY <1>5
  <2>2. g[i] = << t[i] >> \o g[i + 1] /\ g[i + 1] \in Seq(X) /\ t[i] \in X /\ i + 1 \in (i + 1) .. (N + 1)
    <3>1. i \in 1 .. Len(t)
      BY <1>0
    <3>2. t[i] \in X
      BY <3>1
    <3>3. ~ At(w, t, i) => i + 1 \in (i + 1) .. (Len(t) + 1) /\ g[i] = << t[i] >> \o g[i + 1] /\ g[i + 1] \in Seq(X)
      BY <3>1, <1>1, ReplaceStep, SMTT(60)
    <3> QED BY <3>2, <3>3, <2>1, <1>0
  <2>3. PICK l \in Nat : l = Len(g[i + 1])
    BY <2>2, LengthIsNatural
  <2>4. Len(g[i]) = l + 1 /\ g[i][1] = t[i] /\ \A k \in 2 .. (l + 1) : g[i][k] = g[i + 1][k - 1]
    BY <2>2, <2>3, OneBefore
  <2>5. CASE i + 1 = m + n
    <3>1. (m + n) - i = 1 /\ i + 1 - 1 = i
      BY <2>5
    <3>2. ASSUME NEW j \in 1 .. 1 PROVE g[i][j] = t[i + j - 1]
      <4>1. j = 1
        OBVIOUS
      <4> QED BY <4>1, <3>1, <2>4
    <3>3. 1 <= Len(g[i])
      BY <2>4
    <3> QED BY <3>1, <3>2, <3>3 DEF Kept
  <2>6. CASE i + 1 # m + n
    <3>1. m \in 1 .. (i + 1) /\ i + 1 < m + n
      BY <2>6
    <3>2. Kept(i + 1, m)
      BY <3>1, <2>2, <1>7
    <3>3. (m + n) - (i + 1) <= l /\ \A j \in 1 .. ((m + n) - (i + 1)) : g[i + 1][j] = t[(i + 1) + j - 1]
      BY <3>2, <2>3 DEF Kept
    <3>4. ASSUME NEW j \in 1 .. ((m + n) - i) PROVE g[i][j] = t[i + j - 1]
      <4>1. CASE j = 1
        <5>1. i + 1 - 1 = i
          OBVIOUS
        <5> QED BY <4>1, <5>1, <2>4
      <4>2. CASE j # 1
        <5>1. j \in 2 .. (l + 1) /\ j - 1 \in 1 .. ((m + n) - (i + 1)) /\ (i + 1) + (j - 1) - 1 = i + j - 1
          BY <4>2, <3>3
        <5> QED BY <5>1, <2>4, <3>3
      <4> QED BY <4>1, <4>2
    <3>5. (m + n) - i <= l + 1
      BY <3>3, SMTT(60)
    <3> QED BY <3>4, <3>5, <2>4 DEF Kept
  <2> QED BY <2>5, <2>6
<1>8. \A i \in 1 .. (N + 1) : i \in T
  <2> HIDE DEF T
  <2> QED BY <1>6, <1>7, DownTo
<1>9. ASSUME NEW i \in 1 .. N, At(s, t, i) PROVE n <= Len(g[i]) /\ \A j \in 1 .. n : g[i][j] = s[j]
  <2>1. i \in 1 .. i /\ i < i + n /\ (i + n) - i = n /\ i \in 1 .. (N + 1)
    OBVIOUS
  <2>2. Kept(i, i)
    BY <2>1, <1>8, <1>9
  <2>3. n <= Len(g[i]) /\ \A j \in 1 .. n : g[i][j] = t[i + j - 1]
    BY <2>1, <2>2 DEF Kept
  <2>4. \A j \in 1 .. n : t[i + j - 1] = s[j]
    <3>1. i \in Nat
      OBVIOUS
    <3> QED BY <3>1, <1>4, <1>9
  <2> QED BY <2>3, <2>4
<1> HIDE DEF T
\* an atom of B is within an occurrence, or in the rest of one that began before
<1> DEFINE Whole(i, k) == \E p \in 1 .. k : k < p + n /\ At(s, g[i], p)
           Rest(i, k) == \E m \in 1 .. (i - 1) : i < m + n /\ k <= (m + n) - i /\ At(s, t, m)
<1> HIDE DEF Whole, Rest
<1> DEFINE U == {i \in 1 .. (N + 1) : \A k \in 1 .. Len(g[i]) : g[i][k] \in B => Whole(i, k) \/ Rest(i, k)}
<1>10. N + 1 \in U
  <2>1. g[N + 1] = << >> /\ Len(<< >>) = 0
    BY <1>0, <1>1 DEF Replaces
  <2> QED BY <2>1
<1>11. ASSUME NEW i \in 1 .. N, \A j \in (i + 1) .. (N + 1) : j \in U PROVE i \in U
  <2> SUFFICES ASSUME NEW k \in 1 .. Len(g[i]), g[i][k] \in B PROVE Whole(i, k) \/ Rest(i, k)
    <3>1. i \in 1 .. (N + 1)
      OBVIOUS
    <3> QED BY <3>1
  <2>1. CASE At(w, t, i)
    <3>1. i + q \in (i + 1) .. (N + 1) /\ g[i] = by \o g[i + q] /\ g[i + q] \in Seq(X)
      <4>1. i \in 1 .. Len(t)
        BY <1>0
      <4>2. At(w, t, i) => /\ i + Len(w) \in (i + 1) .. (Len(t) + 1)
                           /\ g[i] = by \o g[i + Len(w)] /\ g[i + Len(w)] \in Seq(X)
        BY <4>1, <1>g
      <4> QED BY <4>2, <2>1, <1>0
    <3>2. PICK l \in Nat : l = Len(g[i + q])
      BY <3>1, LengthIsNatural
    <3>3. /\ Len(g[i]) = b + l /\ \A j \in 1 .. b : g[i][j] = by[j]
          /\ \A j \in (b + 1) .. (b + l) : g[i][j] = g[i + q][j - b]
      BY <3>1, <3>2, <1>0, Behind
    <3>4. k \in (b + 1) .. (b + l) /\ k - b \in 1 .. l /\ g[i + q][k - b] \in B
      <4>1. k \in 1 .. (b + l)
        BY <3>3
      <4>2. k \notin 1 .. b
        BY <3>3, <1>3
      <4>3. k \in (b + 1) .. (b + l) /\ k - b \in 1 .. l
        BY <4>1, <4>2
      <4> QED BY <4>3, <3>3
    <3>5. ~ Rest(i + q, k - b)
      <4> SUFFICES ASSUME NEW m \in 1 .. ((i + q) - 1), i + q < m + n, At(s, t, m) PROVE FALSE
        BY DEF Rest
      <4>1. (i + q) - 1 = m + (((i + q) - m)) - 1 /\ (i + q) - m \in 1 .. n
            /\ (i + q) - 1 = i + q - 1 /\ q \in 1 .. q
        OBVIOUS
      <4>2. t[(i + q) - 1] = s[(i + q) - m]
        BY <4>1, <1>4
      <4>3. t[(i + q) - 1] = w[q]
        BY <4>1, <2>1, <1>0 DEF At
      <4> QED BY <4>1, <4>2, <4>3, <1>2
    <3>6. Whole(i + q, k - b)
      BY <3>1, <3>2, <3>4, <3>5, <1>11
    <3>7. PICK p \in 1 .. (k - b) : k - b < p + n /\ At(s, g[i + q], p)
      BY <3>6 DEF Whole
    <3>8. p + n - 1 <= l /\ \A j \in 1 .. n : g[i + q][p + j - 1] = s[j]
      BY <3>7, <3>2, <1>0 DEF At
    <3>9. p + b \in 1 .. k /\ k < (p + b) + n /\ (p + b) + n - 1 <= b + l
      BY <3>4, <3>7, <3>8
    <3>10. ASSUME NEW j \in 1 .. n PROVE g[i][(p + b) + j - 1] = s[j]
      <4>1. (p + b) + j - 1 \in (b + 1) .. (b + l) /\ ((p + b) + j - 1) - b = p + j - 1
        BY <3>8
      <4> QED BY <4>1, <3>3, <3>8
    <3>11. At(s, g[i], p + b)
      BY <3>9, <3>10, <3>3, <1>0 DEF At
    <3> QED BY <3>9, <3>11 DEF Whole
  <2>2. CASE ~ At(w, t, i)
    <3>1. g[i] = << t[i] >> \o g[i + 1] /\ g[i + 1] \in Seq(X) /\ t[i] \in X /\ i + 1 \in (i + 1) .. (N + 1)
      <4>1. i \in 1 .. Len(t)
        BY <1>0
      <4>2. t[i] \in X
        BY <4>1
      <4>3. ~ At(w, t, i) => i + 1 \in (i + 1) .. (Len(t) + 1) /\ g[i] = << t[i] >> \o g[i + 1] /\ g[i + 1] \in Seq(X)
        BY <4>1, <1>g
      <4> QED BY <4>2, <4>3, <2>2, <1>0
    <3>2. PICK l \in Nat : l = Len(g[i + 1])
      BY <3>1, LengthIsNatural
    <3>3. Len(g[i]) = l + 1 /\ g[i][1] = t[i] /\ \A j \in 2 .. (l + 1) : g[i][j] = g[i + 1][j - 1]
      BY <3>1, <3>2, OneBefore
    <3>4. ASSUME NEW m \in 1 .. i, At(s, t, m), i < m + n, k <= (m + n) - i PROVE Whole(i, k) \/ Rest(i, k)
      <4>1. CASE m < i
        <5>1. m \in 1 .. (i - 1)
          BY <4>1
        <5> QED BY <5>1, <3>4 DEF Rest
      <4>2. CASE m = i
        <5>1. n <= Len(g[i]) /\ \A j \in 1 .. n : g[i][j] = s[j]
          BY <4>2, <3>4, <1>9
        <5>2. 1 + n - 1 <= Len(g[i]) /\ \A j \in 1 .. n : g[i][1 + j - 1] = s[j]
          BY <5>1, <3>3
        <5>3. At(s, g[i], 1)
          BY <5>2, <1>0 DEF At
        <5>4. 1 \in 1 .. k /\ k < 1 + n
          BY <4>2, <3>4, <3>3
        <5> QED BY <5>3, <5>4 DEF Whole
      <4> QED BY <4>1, <4>2
    <3>5. CASE k = 1
      <4>1. i \in DOMAIN t /\ t[i] \in B
        BY <3>3, <3>5, <1>0
      <4>2. PICK m \in 1 .. i : i < m + n /\ At(s, t, m)
        BY <4>1, <1>0 DEF Covered
      <4>3. k <= (m + n) - i
        BY <3>5, <4>2
      <4> QED BY <3>4, <4>2, <4>3
    <3>6. CASE k # 1
      <4>1. k - 1 \in 1 .. l /\ g[i + 1][k - 1] \in B
        <5>1. k \in 2 .. (l + 1) /\ k - 1 \in 1 .. l
          BY <3>3, <3>6
        <5> QED BY <5>1, <3>3
      <4>2. Whole(i + 1, k - 1) \/ Rest(i + 1, k - 1)
        BY <3>1, <3>2, <4>1, <1>11
      <4>3. CASE Whole(i + 1, k - 1)
        <5>1. PICK p \in 1 .. (k - 1) : k - 1 < p + n /\ At(s, g[i + 1], p)
          BY <4>3 DEF Whole
        <5>2. p + n - 1 <= l /\ \A j \in 1 .. n : g[i + 1][p + j - 1] = s[j]
          BY <5>1, <3>2, <1>0 DEF At
        <5>3. p + 1 \in 1 .. k /\ k < (p + 1) + n /\ (p + 1) + n - 1 <= l + 1
          BY <4>1, <5>1, <5>2
        <5>4. ASSUME NEW j \in 1 .. n PROVE g[i][(p + 1) + j - 1] = s[j]
          <6>1. (p + 1) + j - 1 \in 2 .. (l + 1) /\ ((p + 1) + j - 1) - 1 = p + j - 1
            BY <5>2
          <6> QED BY <6>1, <3>3, <5>2
        <5>5. At(s, g[i], p + 1)
          BY <5>3, <5>4, <3>3, <1>0 DEF At
        <5> QED BY <5>3, <5>5 DEF Whole
      <4>4. CASE Rest(i + 1, k - 1)
        <5>1. PICK m \in 1 .. ((i + 1) - 1) : i + 1 < m + n /\ k - 1 <= (m + n) - (i + 1) /\ At(s, t, m)
          BY <4>4 DEF Rest
        <5>2. m \in 1 .. i /\ i < m + n /\ k <= (m + n) - i
          BY <5>1, <3>3
        <5> QED BY <5>1, <5>2, <3>4
      <4> QED BY <4>2, <4>3, <4>4
    <3> QED BY <3>5, <3>6
  <2> QED BY <2>1, <2>2
<1>12. 1 \in U
  <2>1. \A i \in 1 .. (N + 1) : i \in U
    <3> HIDE DEF U
    <3> QED BY <1>10, <1>11, DownTo
  <2>2. 1 \in 1 .. (N + 1)
    OBVIOUS
  <2> QED BY <2>1, <2>2
<1>13. DOMAIN g[1] = 1 .. Len(g[1])
  <2>1. 1 \in 1 .. (N + 1)
    OBVIOUS
  <2>2. g[1] \in Seq(X)
    BY <2>1, <1>0, <1>1 DEF Replaces
  <2> QED BY <2>2
<1>14. ASSUME NEW k \in DOMAIN g[1], g[1][k] \in B PROVE \E p \in 1 .. k : k < p + n /\ At(s, g[1], p)
  <2>1. ~ Rest(1, k)
    BY DEF Rest
  <2> QED BY <2>1, <1>12, <1>13, <1>14 DEF Whole
<1> QED BY <1>0, <1>1, <1>14 DEF Covered

\* Where s cannot overlap itself, replacing it takes out every atom it covers.
LEMMA ReplaceTakesCovered ==
  ASSUME NEW X, NEW t \in Seq(X), NEW s \in Seq(X), s # << >>, ~ Repeats(s), NEW by \in Seq(X),
         NEW B, Elements(by) \cap B = {}, Covered(t, s, B)
  PROVE  Elements(replace(t, s, by)) \cap B = {}
<1>0. PICK N \in Nat, n \in Nat \ {0} : N = Len(t) /\ n = Len(s)
  OBVIOUS
<1>1. PICK g : replace(t, s, by) = g[1] /\ Replaces(X, t, s, by, g)
  BY ReplaceDefined
<1>g. ASSUME NEW i \in 1 .. Len(t)
      PROVE  /\ At(s, t, i) => /\ i + Len(s) \in (i + 1) .. (Len(t) + 1)
                               /\ g[i] = by \o g[i + Len(s)] /\ g[i + Len(s)] \in Seq(X)
             /\ ~ At(s, t, i) => /\ i + 1 \in (i + 1) .. (Len(t) + 1)
                                 /\ g[i] = << t[i] >> \o g[i + 1] /\ g[i + 1] \in Seq(X)
  BY <1>1, ReplaceStep
<1>2. ASSUME NEW i \in 1 .. N, NEW m \in (i + 1) .. ((i + n) - 1), At(s, t, i), At(s, t, m) PROVE FALSE
  <2>1. (m - i) + 1 \in 1 .. n /\ i + ((m - i) + 1) - 1 = m /\ 1 \in 1 .. n /\ m + 1 - 1 = m /\ 1 < (m - i) + 1
    OBVIOUS
  <2>2. t[m] = s[(m - i) + 1]
    BY <2>1, <1>0, <1>2 DEF At
  <2>3. t[m] = s[1]
    BY <2>1, <1>0, <1>2 DEF At
  <2>4. 1 \in DOMAIN s /\ (m - i) + 1 \in DOMAIN s
    BY <2>1, <1>0
  <2> QED BY <2>1, <2>2, <2>3, <2>4 DEF Repeats
<1> DEFINE Free(i) == \A m \in 1 .. (i - 1) : At(s, t, m) => m + n <= i
           T == {i \in 1 .. (N + 1) : Free(i) => Elements(g[i]) \cap B = {}}
<1>3. N + 1 \in T
  <2>1. g[N + 1] = << >> /\ Elements(<< >>) = {}
    BY <1>0, <1>1 DEF Replaces, Elements
  <2> QED BY <2>1
<1>4. ASSUME NEW i \in 1 .. N, \A j \in (i + 1) .. (N + 1) : j \in T PROVE i \in T
  <2> SUFFICES ASSUME Free(i) PROVE Elements(g[i]) \cap B = {}
    OBVIOUS
  <2>1. CASE At(s, t, i)
    <3>1. i + n \in (i + 1) .. (N + 1) /\ g[i] = by \o g[i + n] /\ g[i + n] \in Seq(X)
      <4>1. i \in 1 .. Len(t)
        BY <1>0
      <4>2. At(s, t, i) => /\ i + Len(s) \in (i + 1) .. (Len(t) + 1)
                           /\ g[i] = by \o g[i + Len(s)] /\ g[i + Len(s)] \in Seq(X)
        BY <4>1, <1>g
      <4> QED BY <4>2, <2>1, <1>0
    <3>2. Free(i + n)
      <4> SUFFICES ASSUME NEW m \in 1 .. ((i + n) - 1), At(s, t, m) PROVE m + n <= i + n
        OBVIOUS
      <4>1. ~ (m \in (i + 1) .. ((i + n) - 1))
        BY <2>1, <1>2
      <4> QED BY <4>1
    <3>3. Elements(g[i + n]) \cap B = {}
      BY <3>1, <3>2, <1>4
    <3>4. Elements(g[i]) = Elements(by) \cup Elements(g[i + n])
      BY <3>1, AtomsBehind
    <3> QED BY <3>3, <3>4
  <2>2. CASE ~ At(s, t, i)
    <3>1. g[i] = << t[i] >> \o g[i + 1] /\ g[i + 1] \in Seq(X) /\ t[i] \in X /\ i + 1 \in (i + 1) .. (N + 1)
      <4>1. i \in 1 .. Len(t)
        BY <1>0
      <4>2. t[i] \in X
        BY <4>1
      <4>3. ~ At(s, t, i) => i + 1 \in (i + 1) .. (Len(t) + 1) /\ g[i] = << t[i] >> \o g[i + 1] /\ g[i + 1] \in Seq(X)
        BY <4>1, <1>g
      <4> QED BY <4>2, <4>3, <2>2, <1>0
    <3>2. t[i] \notin B
      <4> SUFFICES ASSUME t[i] \in B PROVE FALSE
        OBVIOUS
      <4>1. i \in DOMAIN t
        BY <1>0
      <4>2. PICK m \in 1 .. i : i < m + n /\ At(s, t, m)
        BY <4>1, <1>0 DEF Covered
      <4>3. m # i
        BY <2>2, <4>2
      <4>4. m \in 1 .. (i - 1)
        BY <4>3
      <4> QED BY <4>2, <4>4
    <3>3. Free(i + 1)
      <4> SUFFICES ASSUME NEW m \in 1 .. ((i + 1) - 1), At(s, t, m) PROVE m + n <= i + 1
        OBVIOUS
      <4>1. m # i
        BY <2>2
      <4>2. m \in 1 .. (i - 1)
        BY <4>1
      <4>3. m + n <= i
        BY <4>2
      <4> QED BY <4>3
    <3>4. Elements(g[i + 1]) \cap B = {}
      BY <3>1, <3>3, <1>4
    <3>5. Elements(g[i]) = {t[i]} \cup Elements(g[i + 1])
      BY <3>1, AtomsAfterOne
    <3> QED BY <3>2, <3>4, <3>5
  <2> QED BY <2>1, <2>2
<1>5. 1 \in T
  <2>1. \A i \in 1 .. (N + 1) : i \in T
    <3> HIDE DEF T
    <3> QED BY <1>3, <1>4, DownTo
  <2>2. 1 \in 1 .. (N + 1)
    OBVIOUS
  <2> QED BY <2>1, <2>2
<1>6. Free(1)
  OBVIOUS
<1> QED BY <1>1, <1>5, <1>6

-----------------------------------------------------------------------------
(* Redacting *)

\* What the maskable findings of a list cut out is not empty.
Maskings(X, fs) ==
  /\ IsSequence(fs)
  /\ \A i \in Maskable(fs) : /\ fs[i].snippet \in Seq(X) /\ fs[i].snippet # << >>
                             /\ fs[i].redacted_replacement \in Seq(X)

\* a[k] is the text after the first k findings.
Redacts(X, t, fs, a) ==
  /\ a[0] = t /\ \A k \in 0 .. Len(fs) : a[k] \in Seq(X)
  /\ \A k \in 1 .. Len(fs) :
       /\ k \notin Maskable(fs) => a[k] = a[k - 1]
       /\ k \in Maskable(fs) => a[k] = replace(a[k - 1], fs[k].snippet, fs[k].redacted_replacement)

LEMMA RedactDefined ==
  ASSUME NEW X, NEW t \in Seq(X), NEW fs, Maskings(X, fs)
  PROVE  \E a : redact_string(t, fs) = a[Len(fs)] /\ Redacts(X, t, fs, a)
<1>0. PICK N \in Nat : N = Len(fs) /\ DOMAIN fs = 1 .. N
  BY DEF Maskings, IsSequence
<1> DEFINE after(u, k) == IF fs[k].redacted_replacement = << >> THEN u
                          ELSE replace(u, fs[k].snippet, fs[k].redacted_replacement)
           R(a) == a = [k \in 0 .. N |-> IF k = 0 THEN t ELSE after(a[k - 1], k)]
           Step == [q \in Seq(X) \X (1 .. N) |-> after(q[1], q[2])]
<1>1. ASSUME NEW u \in Seq(X), NEW k \in 1 .. N PROVE after(u, k) \in Seq(X)
  <2>1. CASE fs[k].redacted_replacement = << >>
    BY <2>1
  <2>2. CASE fs[k].redacted_replacement # << >>
    <3>1. k \in Maskable(fs)
      BY <2>2, <1>0 DEF Maskable
    <3>2. replace(u, fs[k].snippet, fs[k].redacted_replacement) \in Seq(X)
      BY <3>1, ReplaceKeeps DEF Maskings
    <3> QED BY <2>2, <3>2
  <2> QED BY <2>1, <2>2
<1>8. redact_string(t, fs) = (CHOOSE a : R(a))[N]
  BY <1>0 DEF redact_string
<1>9. ASSUME NEW u, NEW k \in 1 .. N
      PROVE  /\ k \notin Maskable(fs) => after(u, k) = u
             /\ k \in Maskable(fs) => after(u, k) = replace(u, fs[k].snippet, fs[k].redacted_replacement)
  BY <1>0 DEF Maskable
<1> HIDE DEF after
<1>2. ForwardStep(Step, Seq(X), N)
  BY <1>1 DEF ForwardStep
<1>3. ASSUME NEW u \in Seq(X), NEW k \in 1 .. N PROVE Step[<< u, k >>] = after(u, k)
  OBVIOUS
<1> HIDE DEF Step
<1>4. PICK g : Recurs(g, Seq(X), t, N, Step)
  BY <1>2, Recursion
<1>5. R(g)
  <2>1. ASSUME NEW k \in 0 .. N PROVE g[k] = IF k = 0 THEN t ELSE after(g[k - 1], k)
    <3>1. CASE k = 0
      BY <3>1, <1>4 DEF Recurs
    <3>2. CASE k # 0
      <4>1. k \in 1 .. N /\ g[k - 1] \in Seq(X) /\ g[k] = Step[<< g[k - 1], k >>]
        BY <3>2, <1>4 DEF Recurs
      <4> QED BY <4>1, <3>2, <1>3
    <3> QED BY <3>1, <3>2
  <2> QED BY <2>1, <1>4 DEF Recurs
<1>6. PICK a : R(a) /\ redact_string(t, fs) = a[N]
  <2>1. R(CHOOSE a : R(a))
    BY <1>5
  <2> HIDE DEF R
  <2> QED BY <2>1, <1>8
<1>7. a[0] = t /\ \A k \in 1 .. N : a[k] = after(a[k - 1], k)
  <2>1. a[0] = t
    BY <1>6
  <2>2. ASSUME NEW k \in 1 .. N PROVE a[k] = after(a[k - 1], k)
    <3>1. k \in 0 .. N /\ k # 0
      OBVIOUS
    <3> QED BY <3>1, <1>6
  <2> QED BY <2>1, <2>2
<1> HIDE DEF R
<1>10. \A k \in 1 .. N : a[k - 1] \in Seq(X) => a[k] = Step[<< a[k - 1], k >>]
  BY <1>3, <1>7
<1>11. \A k \in 0 .. N : a[k] \in Seq(X)
  BY <1>2, <1>7, <1>10, RecursionType
<1>12. ASSUME NEW k \in 1 .. N
       PROVE  /\ k \notin Maskable(fs) => a[k] = a[k - 1]
              /\ k \in Maskable(fs) => a[k] = replace(a[k - 1], fs[k].snippet, fs[k].redacted_replacement)
  BY <1>7, <1>9
<1> QED BY <1>0, <1>6, <1>7, <1>11, <1>12 DEF Redacts

\* One step of it.
LEMMA RedactStep ==
  ASSUME NEW X, NEW t, NEW fs, NEW a, Redacts(X, t, fs, a), NEW N \in Nat, N = Len(fs), NEW k \in 0 .. (N - 1)
  PROVE  /\ a[k] \in Seq(X) /\ a[k + 1] \in Seq(X) /\ k + 1 \in 1 .. N
         /\ k + 1 \notin Maskable(fs) => a[k + 1] = a[k]
         /\ k + 1 \in Maskable(fs) => a[k + 1] = replace(a[k], fs[k + 1].snippet, fs[k + 1].redacted_replacement)
<1>1. k + 1 \in 1 .. Len(fs) /\ (k + 1) - 1 = k /\ k \in 0 .. Len(fs) /\ k + 1 \in 0 .. Len(fs)
  OBVIOUS
<1> QED BY <1>1 DEF Redacts

\* An atom that belongs to no snippet stays.
LEMMA RedactKeeps ==
  ASSUME NEW X, NEW t \in Seq(X), NEW fs, Maskings(X, fs)
  PROVE  /\ redact_string(t, fs) \in Seq(X)
         /\ \A x \in Elements(t) : (\A i \in Maskable(fs) : x \notin Elements(fs[i].snippet))
                                     => x \in Elements(redact_string(t, fs))
<1>0. PICK N \in Nat : N = Len(fs)
  BY DEF Maskings, IsSequence
<1>1. PICK a : redact_string(t, fs) = a[N] /\ Redacts(X, t, fs, a)
  BY <1>0, RedactDefined
<1>2. N \in 0 .. N /\ a[N] \in Seq(X)
  BY <1>0, <1>1 DEF Redacts
<1>3. ASSUME NEW x \in Elements(t), \A i \in Maskable(fs) : x \notin Elements(fs[i].snippet) PROVE x \in Elements(a[N])
  <2> DEFINE T == {k \in 0 .. N : x \in Elements(a[k])}
  <2>1. 0 \in T
    BY <1>1, <1>3 DEF Redacts
  <2>2. ASSUME NEW k \in 0 .. (N - 1), k \in T PROVE k + 1 \in T
    <3>1. /\ a[k] \in Seq(X) /\ a[k + 1] \in Seq(X) /\ k + 1 \in 1 .. N
          /\ k + 1 \notin Maskable(fs) => a[k + 1] = a[k]
          /\ k + 1 \in Maskable(fs) => a[k + 1] = replace(a[k], fs[k + 1].snippet, fs[k + 1].redacted_replacement)
      BY <1>0, <1>1, RedactStep
    <3>2. CASE k + 1 \notin Maskable(fs)
      BY <2>2, <3>1, <3>2
    <3>3. CASE k + 1 \in Maskable(fs)
      <4>1. Elements(a[k]) \ Elements(fs[k + 1].snippet) \subseteq Elements(a[k + 1])
        BY <3>1, <3>3, ReplaceKeeps DEF Maskings
      <4>2. x \in Elements(a[k]) /\ x \notin Elements(fs[k + 1].snippet)
        BY <2>2, <3>3, <1>3
      <4> QED BY <3>1, <4>1, <4>2
    <3> QED BY <3>2, <3>3
  <2> HIDE DEF T
  <2>3. N \in T
    BY <1>2, <2>1, <2>2, UpTo
  <2> QED BY <2>3 DEF T
<1> QED BY <1>1, <1>2, <1>3

\* A snippet that no placeholder has anything of stands nowhere afterwards.
LEMMA RedactRemoves ==
  ASSUME NEW X, NEW t \in Seq(X), NEW fs, Maskings(X, fs), NEW i \in Maskable(fs),
         \A j \in Maskable(fs) : Apart(fs[j].redacted_replacement, fs[i].snippet)
  PROVE  ~ Stands(fs[i].snippet, redact_string(t, fs))
<1>0. PICK N \in Nat : N = Len(fs) /\ DOMAIN fs = 1 .. N
  BY DEF Maskings, IsSequence
<1>1. PICK a : redact_string(t, fs) = a[N] /\ Redacts(X, t, fs, a)
  BY <1>0, RedactDefined
<1>2. PICK s \in Seq(X) : s = fs[i].snippet /\ s # << >>
  BY DEF Maskings
<1> DEFINE T == {k \in 0 .. N : i <= k => ~ Stands(s, a[k])}
<1>3. 0 \in T /\ i \in 1 .. N
  BY <1>0 DEF Maskable
<1>4. ASSUME NEW k \in 0 .. (N - 1), k \in T PROVE k + 1 \in T
  <2>1. /\ a[k] \in Seq(X) /\ k + 1 \in 1 .. N
        /\ k + 1 \notin Maskable(fs) => a[k + 1] = a[k]
        /\ k + 1 \in Maskable(fs) => a[k + 1] = replace(a[k], fs[k + 1].snippet, fs[k + 1].redacted_replacement)
    BY <1>0, <1>1, RedactStep
  <2> SUFFICES ASSUME i <= k + 1 PROVE ~ Stands(s, a[k + 1])
    BY <2>1
  <2>2. CASE k + 1 \notin Maskable(fs)
    <3>1. i <= k
      BY <2>2, <1>3
    <3> QED BY <2>1, <2>2, <3>1, <1>4
  <2>3. CASE k + 1 \in Maskable(fs)
    <3>1. PICK w \in Seq(X), by \in Seq(X) :
            w = fs[k + 1].snippet /\ by = fs[k + 1].redacted_replacement /\ w # << >> /\ by # << >>
      BY <2>3 DEF Maskings, Maskable
    <3>2. Apart(by, s) /\ a[k + 1] = replace(a[k], w, by)
      BY <2>1, <2>3, <3>1, <1>2
    <3>3. Stands(s, replace(a[k], w, by)) => Stands(s, a[k]) /\ s # w
      BY <2>1, <3>1, <3>2, <1>2, ReplaceAddsNone
    <3>4. CASE i = k + 1
      BY <3>1, <3>2, <3>3, <3>4, <1>2
    <3>5. CASE i # k + 1
      <4>1. i <= k
        BY <3>5, <1>3
      <4> QED BY <3>2, <3>3, <4>1, <1>4
    <3> QED BY <3>4, <3>5
  <2> QED BY <2>2, <2>3
<1> HIDE DEF T
<1>5. N \in 0 .. N /\ \A k \in 0 .. N : k \in T
  <2>1. 0 \in T /\ \A k \in 0 .. (N - 1) : k \in T => k + 1 \in T
    BY <1>3, <1>4
  <2>2. \A k \in 0 .. N : k \in T
    BY <2>1, UpTo
  <2> QED BY <2>2
<1>6. ~ Stands(s, a[N])
  BY <1>3, <1>5 DEF T
<1> QED BY <1>1, <1>2, <1>6

\* If every atom of B is within an occurrence of a snippet, and no snippet before
\* it has anything of it, none is left afterwards.
LEMMA RedactTakesCovered ==
  ASSUME NEW X, NEW t \in Seq(X), NEW fs, Maskings(X, fs), NEW i \in Maskable(fs), ~ Repeats(fs[i].snippet),
         \A j \in Maskable(fs) : j < i => Apart(fs[j].snippet, fs[i].snippet),
         NEW B, \A j \in Maskable(fs) : Elements(fs[j].redacted_replacement) \cap B = {},
         Covered(t, fs[i].snippet, B)
  PROVE  Elements(redact_string(t, fs)) \cap B = {}
<1>0. PICK N \in Nat : N = Len(fs) /\ DOMAIN fs = 1 .. N
  BY DEF Maskings, IsSequence
<1>1. PICK a : redact_string(t, fs) = a[N] /\ Redacts(X, t, fs, a)
  BY <1>0, RedactDefined
<1>2. PICK s \in Seq(X) : s = fs[i].snippet /\ s # << >> /\ ~ Repeats(s) /\ Covered(t, s, B)
  BY DEF Maskings
<1> DEFINE T == {k \in 0 .. N : /\ k < i => Covered(a[k], s, B)
                                /\ i <= k => Elements(a[k]) \cap B = {}}
<1>3. 0 \in T /\ i \in 1 .. N
  <2>1. a[0] = t
    BY <1>1 DEF Redacts
  <2>2. i \in 1 .. N
    BY <1>0 DEF Maskable
  <2> QED BY <2>1, <2>2, <1>2
<1>4. ASSUME NEW k \in 0 .. (N - 1), k \in T PROVE k + 1 \in T
  <2>1. /\ a[k] \in Seq(X) /\ k + 1 \in 1 .. N
        /\ k + 1 \notin Maskable(fs) => a[k + 1] = a[k]
        /\ k + 1 \in Maskable(fs) => a[k + 1] = replace(a[k], fs[k + 1].snippet, fs[k + 1].redacted_replacement)
    BY <1>0, <1>1, RedactStep
  <2>0. k + 1 \in 0 .. N
    BY <2>1
  <2>2. CASE k + 1 \notin Maskable(fs)
    <3>1. (k + 1 < i => k < i) /\ (i <= k + 1 => i <= k)
      BY <2>2, <1>3
    <3>2. a[k + 1] = a[k]
      BY <2>1, <2>2
    <3> QED BY <2>0, <3>1, <3>2, <1>4
  <2>3. CASE k + 1 \in Maskable(fs)
    <3>1. PICK w \in Seq(X), by \in Seq(X) :
            w = fs[k + 1].snippet /\ by = fs[k + 1].redacted_replacement /\ w # << >>
      BY <2>3 DEF Maskings
    <3>2. Elements(by) \cap B = {} /\ a[k + 1] = replace(a[k], w, by)
      BY <2>1, <2>3, <3>1
    <3>3. ASSUME k + 1 < i PROVE Covered(a[k + 1], s, B)
      <4>1. Apart(w, s) /\ Covered(a[k], s, B)
        <5>1. k < i
          BY <3>3, <1>3
        <5> QED BY <2>3, <3>1, <3>3, <5>1, <1>2, <1>4
      <4>2. Covered(replace(a[k], w, by), s, B)
        BY <2>1, <3>1, <3>2, <4>1, <1>2, ReplaceKeepsCovered
      <4> QED BY <3>2, <4>2
    <3>4. ASSUME i = k + 1 PROVE Elements(a[k + 1]) \cap B = {}
      <4>1. w = s /\ Covered(a[k], s, B)
        <5>1. k < i
          BY <3>4
        <5> QED BY <3>1, <3>4, <5>1, <1>2, <1>4
      <4>2. Elements(replace(a[k], s, by)) \cap B = {}
        BY <2>1, <3>2, <4>1, <1>2, ReplaceTakesCovered
      <4> QED BY <3>2, <4>1, <4>2
    <3>5. ASSUME i <= k PROVE Elements(a[k + 1]) \cap B = {}
      <4>1. Elements(replace(a[k], w, by)) \subseteq Elements(a[k]) \cup Elements(by)
        BY <2>1, <3>1, ReplaceKeeps
      <4> QED BY <3>2, <3>5, <4>1, <1>4
    <3>6. i <= k + 1 => i = k + 1 \/ i <= k
      BY <1>3
    <3> QED BY <2>0, <3>3, <3>4, <3>5, <3>6
  <2> QED BY <2>2, <2>3
<1> HIDE DEF T
<1>5. N \in 0 .. N /\ \A k \in 0 .. N : k \in T
  <2>1. 0 \in T /\ \A k \in 0 .. (N - 1) : k \in T => k + 1 \in T
    BY <1>3, <1>4
  <2>2. \A k \in 0 .. N : k \in T
    BY <2>1, UpTo
  <2> QED BY <2>2
<1>6. Elements(a[N]) \cap B = {}
  BY <1>3, <1>5 DEF T
<1> QED BY <1>1, <1>6

-----------------------------------------------------------------------------
(* What the findings cut out *)

\* A match ends behind its start.
LEMMA MatchEnds ==
  ASSUME NEW p, \A w \in Regex[p.name] : IsSequence(w) /\ w # << >>,
         NEW t, Len(t) \in Nat, NEW i \in 1 .. Len(t), match_end(p, t, i) # 0
  PROVE  match_end(p, t, i) \in i .. Len(t)
<1>1. body_ends(p, t, i) \subseteq i .. Len(t)
  <2> SUFFICES ASSUME NEW w \in Regex[p.name], i + Len(w) - 1 <= Len(t) PROVE i + Len(w) - 1 \in i .. Len(t)
    BY DEF body_ends
  <2>1. Len(w) \in Nat \ {0}
    BY DEF IsSequence
  <2> QED BY <2>1
<1>2. tail_ends(p, t, i) \subseteq i .. Len(t)
  BY DEF tail_ends
<1> DEFINE tailed == p.edge \in {"tail", "wordtail"}
           ends == {e \in IF tailed THEN tail_ends(p, t, i) ELSE body_ends(p, t, i) :
                      /\ p.edge = "line" => is_line_end(t, i - 1) /\ is_line_end(t, e + 1)
                      /\ p.edge \notin {"free", "line"} => is_word_boundary(t, i - 1)
                      /\ p.edge = "word" => is_word_boundary(t, e + 1)}
<1>3. match_end(p, t, i) = CHOOSE e \in ends \cup {0} : \A f \in ends : f <= e
  BY DEF match_end
<1>4. ends \subseteq i .. Len(t)
  BY <1>1, <1>2
<1> HIDE DEF ends
<1>5. \E e \in ends \cup {0} : \A f \in ends : f <= e
  <2>1. CASE ends = {}
    BY <2>1
  <2>2. CASE ends # {}
    <3> DEFINE F == {Len(t) - e : e \in ends}
    <3>1. F \subseteq Nat /\ F # {}
      <4>1. ASSUME NEW e \in ends PROVE Len(t) - e \in Nat
        <5>1. e \in i .. Len(t)
          BY <1>4
        <5> QED BY <5>1
      <4> QED BY <4>1, <2>2
    <3>2. PICK x \in F : \A y \in F : x <= y
      <4> HIDE DEF F
      <4> QED BY <3>1, LeastElement
    <3>3. PICK e \in ends : x = Len(t) - e
      BY <3>2
    <3>4. ASSUME NEW f \in ends PROVE f <= e
      <4>1. Len(t) - f \in F
        OBVIOUS
      <4>2. Len(t) - e <= Len(t) - f
        BY <3>2, <3>3, <4>1
      <4>3. e \in Nat /\ f \in Nat
        BY <1>4
      <4> QED BY <4>2, <4>3
    <3> QED BY <3>4
  <2> QED BY <2>1, <2>2
<1>6. match_end(p, t, i) \in ends \cup {0}
  BY <1>3, <1>5
<1> QED BY <1>4, <1>6

\* What a finding cuts out of the text is part of it, and not empty.
WellFound(f) == f.snippet \in Seq(Vocabulary) /\ f.snippet # << >> /\ IsSequence(f.redacted_replacement)

LEMMA PartOfText ==
  ASSUME NEW X, NEW t \in Seq(X), NEW i \in 1 .. Len(t), NEW j \in i .. Len(t)
  PROVE  SubSeq(t, i, j) \in Seq(X) /\ SubSeq(t, i, j) # << >> /\ Len(SubSeq(t, i, j)) = (j - i) + 1
         /\ \A k \in 1 .. ((j - i) + 1) : SubSeq(t, i, j)[k] = t[i + k - 1]
<1>1. SubSeq(t, i, j) \in Seq(X) /\ Len(SubSeq(t, i, j)) = (j - i) + 1
  OBVIOUS
<1>2. \A k \in 1 .. ((j - i) + 1) : SubSeq(t, i, j)[k] = t[i + k - 1]
  OBVIOUS
<1>3. Len(SubSeq(t, i, j)) # 0 /\ Len(<< >>) = 0
  BY <1>1
<1>4. SubSeq(t, i, j) # << >>
  BY <1>3
<1> QED BY <1>1, <1>2, <1>4

LEMMA ScanWellFound ==
  ASSUME NEW patterns, IsScanner(patterns), NEW t \in Seq(Vocabulary),
         \A p \in Elements(patterns) : \A w \in Regex[p.name] : IsSequence(w) /\ w # << >>,
         NEW f \in FoundBy(patterns, t)
  PROVE  WellFound(f) /\ f.category # "CustomKeyword"
<1>1. PICK p \in Elements(patterns), i \in DOMAIN t : starts_match(p, t, i) /\ f = finding_at(p, t, i)
  BY DEF FoundBy
<1>2. Len(t) \in Nat /\ i \in 1 .. Len(t)
  OBVIOUS
<1>3. PICK j \in i .. Len(t) : j = match_end(p, t, i)
  BY <1>1, <1>2, MatchEnds DEF starts_match
<1>4. /\ f.category = p.category /\ f.snippet = SubSeq(t, i, j)
      /\ f.redacted_replacement = IF p.mask = "" THEN << >> ELSE << p.mask >>
  BY <1>1, <1>3 DEF finding_at
<1>5. f.snippet \in Seq(Vocabulary) /\ f.snippet # << >>
  <2>1. SubSeq(t, i, j) \in Seq(Vocabulary) /\ SubSeq(t, i, j) # << >>
    BY <1>2, <1>3, PartOfText
  <2> QED BY <2>1, <1>4
<1>6. IsSequence(<< >>) /\ IsSequence(<< p.mask >>)
  <2>1. << >> \in Seq({}) /\ << p.mask >> \in Seq({p.mask})
    OBVIOUS
  <2> QED BY <2>1, SequenceOfElements
<1>7. p.category # "CustomKeyword"
  BY DEF IsScanner
<1> QED BY <1>4, <1>5, <1>6, <1>7 DEF WellFound

\* Where no character changes its length, the lower-cased text has the characters' own
\* lower-case forms in their places.
LEMMA LowerUnshifted ==
  ASSUME NEW t \in Seq(Vocabulary), ~ Shifts(t)
  PROVE  /\ Len(to_lowercase(t)) = Len(t)
         /\ \A i \in 1 .. Len(t) : to_lowercase(t)[i] = Lower[t[i]][1]
<1>1. PICK N \in Nat : N = Len(t)
  OBVIOUS
<1> DEFINE parts == [k \in 1 .. N |-> Lower[t[k]]]
           R(u) == u = [k \in 0 .. N |-> IF k = 0 THEN << >> ELSE u[k - 1] \o Lower[t[k]]]
<1>2. parts \in [1 .. N -> Seq(Vocabulary)]
  BY <1>1, VocabularyAssumption
<1>3. ASSUME NEW u PROVE R(u) <=> JoinedUpTo(N, parts, u)
  <2>1. ASSUME NEW k \in 0 .. N PROVE (IF k = 0 THEN << >> ELSE u[k - 1] \o Lower[t[k]])
                                        = (IF k = 0 THEN << >> ELSE u[k - 1] \o parts[k])
    <3>1. CASE k = 0
      BY <3>1
    <3>2. CASE k # 0
      <4>1. k \in 1 .. N
        BY <3>2
      <4>2. parts[k] = Lower[t[k]]
        BY <4>1
      <4> HIDE DEF parts
      <4> QED BY <3>2, <4>2
    <3> QED BY <3>1, <3>2
  <2> HIDE DEF parts
  <2>2. [k \in 0 .. N |-> IF k = 0 THEN << >> ELSE u[k - 1] \o Lower[t[k]]]
          = [k \in 0 .. N |-> IF k = 0 THEN << >> ELSE u[k - 1] \o parts[k]]
    BY <2>1
  <2> QED BY <2>2 DEF JoinedUpTo
<1> HIDE DEF parts
<1>4. PICK u : R(u) /\ to_lowercase(t) = u[N]
  <2>1. R(CHOOSE u : R(u))
    BY <1>2, <1>3, JoinDefined, Zenon
  <2>2. to_lowercase(t) = (CHOOSE u : R(u))[N]
    BY <1>1 DEF to_lowercase
  <2> HIDE DEF R
  <2> QED BY <2>1, <2>2, Zenon
<1>5. u[0] = << >> /\ \A k \in 1 .. N : u[k] = u[k - 1] \o Lower[t[k]]
  <2>1. u[0] = << >>
    BY <1>4
  <2>2. ASSUME NEW k \in 1 .. N PROVE u[k] = u[k - 1] \o Lower[t[k]]
    <3>1. k \in 0 .. N /\ k # 0
      OBVIOUS
    <3> QED BY <3>1, <1>4
  <2> QED BY <2>1, <2>2
<1> HIDE DEF R
<1> DEFINE T == {k \in 0 .. N : /\ u[k] \in Seq(Vocabulary) /\ Len(u[k]) = k
                                /\ \A i \in 1 .. k : u[k][i] = Lower[t[i]][1]}
<1>6. 0 \in T
  <2>1. << >> \in Seq(Vocabulary) /\ Len(<< >>) = 0
    OBVIOUS
  <2>2. u[0] \in Seq(Vocabulary) /\ Len(u[0]) = 0
    BY <2>1, <1>5
  <2>3. \A i \in 1 .. 0 : u[0][i] = Lower[t[i]][1]
    OBVIOUS
  <2>4. 0 \in 0 .. N
    OBVIOUS
  <2> QED BY <2>2, <2>3, <2>4
<1>7. ASSUME NEW k \in 0 .. (N - 1), k \in T PROVE k + 1 \in T
  <2>1. k + 1 \in 1 .. N /\ (k + 1) - 1 = k /\ k + 1 \in 0 .. N /\ k + 1 \in DOMAIN t
    BY <1>1
  <2>2. PICK a \in Seq(Vocabulary) : a = u[k] /\ Len(a) = k /\ \A i \in 1 .. k : a[i] = Lower[t[i]][1]
    BY <1>7
  <2>3. PICK b \in Seq(Vocabulary) : b = Lower[t[k + 1]] /\ Len(b) = 1
    <3>1. Lower[t[k + 1]] \in Seq(Vocabulary)
      BY <2>1, VocabularyAssumption
    <3>2. Len(Lower[t[k + 1]]) = 1
      BY <2>1 DEF Shifts
    <3> QED BY <3>1, <3>2
  <2>4. u[k + 1] = a \o b
    BY <2>1, <2>2, <2>3, <1>5
  <2>5. /\ a \o b \in Seq(Vocabulary) /\ Len(a \o b) = k + 1 /\ \A i \in 1 .. k : (a \o b)[i] = a[i]
        /\ (a \o b)[k + 1] = b[1]
    <3>1. k + 1 \in (Len(a) + 1) .. (Len(a) + Len(b)) /\ (k + 1) - Len(a) = 1
      BY <2>2, <2>3
    <3>2. a \o b \in Seq(Vocabulary) /\ Len(a \o b) = Len(a) + Len(b)
          /\ \A i \in 1 .. Len(a) : (a \o b)[i] = a[i]
      BY Behind
    <3>3. (a \o b)[k + 1] = b[(k + 1) - Len(a)]
      BY <3>1, Behind
    <3> QED BY <3>1, <3>2, <3>3, <2>2, <2>3
  <2>6. ASSUME NEW i \in 1 .. (k + 1) PROVE u[k + 1][i] = Lower[t[i]][1]
    <3>1. CASE i \in 1 .. k
      BY <3>1, <2>2, <2>4, <2>5
    <3>2. CASE i = k + 1
      BY <3>2, <2>3, <2>4, <2>5
    <3> QED BY <3>1, <3>2
  <2> QED BY <2>1, <2>4, <2>5, <2>6
<1>8. N \in T
  <2> HIDE DEF T
  <2>1. \A k \in 0 .. N : k \in T
    BY <1>6, <1>7, UpTo
  <2> QED BY <2>1
<1> QED BY <1>1, <1>4, <1>8

LEMMA LowerOfOne ==
  ASSUME NEW x \in Vocabulary
  PROVE  to_lowercase(<< x >>) = Lower[x]
<1>1. PICK t \in Seq(Vocabulary) : t = << x >> /\ Len(t) = 1 /\ t[1] = x
  <2>1. << x >> \in Seq(Vocabulary)
    OBVIOUS
  <2> QED BY <2>1
<1> DEFINE R(u) == u = [i \in 0 .. 1 |-> IF i = 0 THEN << >> ELSE u[i - 1] \o Lower[t[i]]]
<1>2. to_lowercase(t) = (CHOOSE u : R(u))[1]
  BY <1>1 DEF to_lowercase
<1>3. \E u : R(u)
  <2> DEFINE v == [i \in 0 .. 1 |-> IF i = 0 THEN << >> ELSE << >> \o Lower[t[i]]]
  <2>1. v = [i \in 0 .. 1 |-> v[i]] /\ v[0] = << >> /\ v[1] = << >> \o Lower[t[1]]
    OBVIOUS
  <2> HIDE DEF v
  <2>2. ASSUME NEW i \in 0 .. 1 PROVE v[i] = IF i = 0 THEN << >> ELSE v[i - 1] \o Lower[t[i]]
    <3>1. CASE i = 0
      BY <3>1, <2>1
    <3>2. CASE i = 1
      <4>1. i - 1 = 0
        BY <3>2
      <4> QED BY <3>2, <4>1, <2>1
    <3> QED BY <3>1, <3>2
  <2>3. v = [i \in 0 .. 1 |-> IF i = 0 THEN << >> ELSE v[i - 1] \o Lower[t[i]]]
    BY <2>1, <2>2
  <2> QED BY <2>3
<1>4. PICK u : R(u) /\ to_lowercase(t) = u[1]
  <2>1. R(CHOOSE u : R(u))
    BY <1>3, Zenon
  <2> HIDE DEF R
  <2> QED BY <2>1, <1>2, Zenon
<1>5. u[0] = << >> /\ u[1] = u[0] \o Lower[x]
  <2>1. u[0] = << >>
    BY <1>4
  <2>2. u[1] = u[1 - 1] \o Lower[t[1]]
    BY <1>4, SMTT(60)
  <2>3. 1 - 1 = 0
    OBVIOUS
  <2> HIDE DEF R
  <2> QED BY <2>1, <2>2, <2>3, <1>1
<1>6. Lower[x] \in Seq(Vocabulary)
  BY VocabularyAssumption
<1>7. << >> \o Lower[x] = Lower[x]
  BY <1>6
<1> QED BY <1>1, <1>4, <1>5, <1>7

\* Where the keyword is found, it stands in the text the search goes through.
LEMMA KeywordStands ==
  ASSUME NEW r, IsKeyword(r), NEW t \in Seq(Vocabulary), NEW i \in Elements(keyword_starts(t, r))
  PROVE  /\ needle(r) \in Seq(Vocabulary) /\ Len(needle(r)) \in Nat \ {0} /\ haystack(t, r) \in Seq(Vocabulary)
         /\ i \in 1 .. Len(haystack(t, r)) /\ i + Len(needle(r)) - 1 <= Len(haystack(t, r))
         /\ \A k \in 1 .. Len(needle(r)) : haystack(t, r)[i + k - 1] = needle(r)[k]
<1>1. PICK h \in Seq(Vocabulary) : h = haystack(t, r)
  BY LowerIsText DEF haystack
<1>2. PICK n \in Seq(Vocabulary) : n = needle(r) /\ Len(n) \in Nat \ {0}
  <2>1. r.pattern \in Vocabulary /\ Lower[r.pattern] \in Seq(Vocabulary) /\ Lower[r.pattern] # << >>
    BY VocabularyAssumption DEF IsKeyword
  <2>2. << r.pattern >> \in Seq(Vocabulary) /\ << r.pattern >> # << >>
    BY <2>1
  <2>3. needle(r) \in Seq(Vocabulary) /\ needle(r) # << >>
    BY <2>1, <2>2 DEF needle
  <2>4. ASSUME NEW v \in Seq(Vocabulary), v # << >> PROVE Len(v) \in Nat \ {0}
    BY <2>4
  <2> QED BY <2>3, <2>4
<1> DEFINE stands(k) == LET e == k + Len(needle(r)) - 1
                        IN  /\ e <= Len(h) /\ SubSeq(h, k, e) = needle(r)
                            /\ is_word_boundary(h, k - 1) /\ is_word_boundary(h, e + 1)
<1>3. keyword_starts(t, r) = Filter(Indices(h), {k \in DOMAIN h : stands(k)})
  BY <1>1 DEF keyword_starts
<1>4. i \in {k \in DOMAIN h : stands(k)}
  <2> HIDE DEF stands
  <2> QED BY <1>3, PositionsPass
<1>5. i \in 1 .. Len(h) /\ i + Len(n) - 1 <= Len(h) /\ SubSeq(h, i, i + Len(n) - 1) = n
  BY <1>2, <1>4
<1> HIDE DEF stands
<1>6. i + Len(n) - 1 \in i .. Len(h)
  BY <1>2, <1>5
<1>7. ASSUME NEW k \in 1 .. Len(n) PROVE h[i + k - 1] = n[k]
  <2>1. k \in 1 .. (((i + Len(n) - 1) - i) + 1)
    BY <1>2, <1>5
  <2>2. SubSeq(h, i, i + Len(n) - 1)[k] = h[i + k - 1]
    BY <2>1, <1>5, <1>6, PartOfText
  <2> QED BY <2>2, <1>5
<1> QED BY <1>1, <1>2, <1>5, <1>7

\* The scan panics only where lower-casing changes a length.
LEMMA KeywordPanics ==
  ASSUME NEW rules, \A k \in DOMAIN rules : IsKeyword(rules[k]), NEW t \in Seq(Vocabulary),
         keyword_scan_panics(t, rules) \/ keyword_scan_may_panic(t, rules)
  PROVE  Shifts(t)
<1>1. CASE keyword_scan_may_panic(t, rules)
  BY <1>1 DEF keyword_scan_may_panic
<1>2. CASE keyword_scan_panics(t, rules)
  <2> SUFFICES ASSUME ~ Shifts(t) PROVE FALSE
    OBVIOUS
  <2>0. PICK k \in DOMAIN rules : \E s \in DOMAIN keyword_starts(t, rules[k]) :
          keyword_starts(t, rules[k])[s] + Len(needle(rules[k])) - 1 > Len(t)
    BY <1>2 DEF keyword_scan_panics
  <2>1. PICK s \in DOMAIN keyword_starts(t, rules[k]) :
          keyword_starts(t, rules[k])[s] + Len(needle(rules[k])) - 1 > Len(t)
    BY <2>0
  <2>2. PICK i : i = keyword_starts(t, rules[k])[s] /\ i \in Elements(keyword_starts(t, rules[k]))
    BY DEF Elements
  <2>3. PICK n \in Nat : n = Len(needle(rules[k])) /\ i \in Nat /\ i + n - 1 <= Len(haystack(t, rules[k]))
    BY <2>2, KeywordStands
  <2>4. Len(haystack(t, rules[k])) = Len(t)
    BY LowerUnshifted DEF haystack
  <2>5. Len(t) \in Nat
    OBVIOUS
  <2> QED BY <2>1, <2>2, <2>3, <2>4, <2>5
<1> QED BY <1>1, <1>2

\* A keyword's snippet is the keyword, unless lower-casing changes a length.
LEMMA KeywordWellFound ==
  ASSUME NEW rules, IsSequence(rules), \A k \in DOMAIN rules : IsKeyword(rules[k]), NEW t \in Seq(Vocabulary),
         ~ keyword_scan_panics(t, rules), NEW f \in KeywordsFound(t, rules)
  PROVE  WellFound(f) /\ (to_lowercase(f.snippet) = Lower[f.match_name] \/ Shifts(t))
<1>0. PICK r \in Elements(rules) : \E i \in Elements(keyword_starts(t, r)) : f = keyword_finding(t, r, i)
  BY DEF KeywordsFound
<1>1. PICK i \in Elements(keyword_starts(t, r)) : f = keyword_finding(t, r, i)
  BY <1>0
<1>2. PICK k \in DOMAIN rules : r = rules[k] /\ IsKeyword(r)
  BY DEF Elements
<1>3. PICK h \in Seq(Vocabulary), v \in Seq(Vocabulary), n \in Nat \ {0} :
        /\ h = haystack(t, r) /\ v = needle(r) /\ n = Len(v)
        /\ i \in 1 .. Len(h) /\ i + n - 1 <= Len(h) /\ \A j \in 1 .. n : h[i + j - 1] = v[j]
  <2>1. /\ needle(r) \in Seq(Vocabulary) /\ Len(needle(r)) \in Nat \ {0} /\ haystack(t, r) \in Seq(Vocabulary)
        /\ i \in 1 .. Len(haystack(t, r)) /\ i + Len(needle(r)) - 1 <= Len(haystack(t, r))
        /\ \A j \in 1 .. Len(needle(r)) : haystack(t, r)[i + j - 1] = needle(r)[j]
    BY <1>2, KeywordStands
  <2> QED BY <2>1
<1>4. i \in 1 .. Len(t) /\ i + n - 1 \in i .. Len(t)
  <2>1. PICK s \in DOMAIN keyword_starts(t, r) : keyword_starts(t, r)[s] = i
    BY DEF Elements
  <2>2. ~ (i + n - 1 > Len(t))
    BY <2>1, <1>2, <1>3 DEF keyword_scan_panics
  <2>3. Len(t) \in Nat /\ i \in Nat \ {0}
    BY <1>3
  <2> QED BY <2>2, <2>3
<1>5. PICK s \in Seq(Vocabulary) : /\ s = SubSeq(t, i, i + n - 1) /\ s # << >> /\ Len(s) = n
                                   /\ \A j \in 1 .. n : s[j] = t[i + j - 1]
  <2>1. PICK e \in i .. Len(t) : e = i + n - 1
    BY <1>4
  <2>2. /\ SubSeq(t, i, e) \in Seq(Vocabulary) /\ SubSeq(t, i, e) # << >> /\ Len(SubSeq(t, i, e)) = (e - i) + 1
        /\ \A j \in 1 .. ((e - i) + 1) : SubSeq(t, i, e)[j] = t[i + j - 1]
    BY <1>4, PartOfText, ZenonT(60)
  <2>3. (e - i) + 1 = n
    BY <2>1, <1>3
  <2> QED BY <2>1, <2>2, <2>3
<1>6. /\ f.snippet = s /\ f.match_name = r.pattern
      /\ f.redacted_replacement = << "[", Upper[r.pattern], "]" >>
  BY <1>1, <1>3, <1>5 DEF keyword_finding
<1>7. IsSequence(f.redacted_replacement)
  <2>0. ASSUME NEW a, NEW b, NEW c PROVE << a, b, c >> \in Seq({a, b, c})
    OBVIOUS
  <2>1. PICK X : X = {"[", Upper[r.pattern], "]"}
    OBVIOUS
  <2>2. PICK v0 \in Seq(X) : v0 = << "[", Upper[r.pattern], "]" >>
    BY <2>0, <2>1, Zenon
  <2>3. IsSequence(v0)
    BY SequenceOfElements
  <2> QED BY <2>2, <2>3, <1>6
<1>8. ASSUME ~ Shifts(t) PROVE to_lowercase(s) = Lower[r.pattern]
  <2>0. r.pattern \in Vocabulary
    BY <1>2 DEF IsKeyword
  <2>1. CASE r.case_sensitive
    <3>1. h = t /\ v = << r.pattern >> /\ n = 1
      BY <2>1, <1>3, SMTT(60) DEF haystack, needle
    <3>2. s[1] = r.pattern
      <4>1. 1 \in 1 .. n /\ v[1] = r.pattern
        BY <3>1
      <4> QED BY <4>1, <3>1, <1>3, <1>5
    <3>3. s = << r.pattern >>
      <4>1. Len(s) = 1 /\ s \in Seq(Vocabulary)
        BY <3>1, <1>5
      <4>2. s = << s[1] >>
        BY <4>1
      <4> QED BY <4>2, <3>2
    <3> QED BY <2>0, <3>3, LowerOfOne
  <2>2. CASE ~ r.case_sensitive
    <3>1. h = to_lowercase(t) /\ v = Lower[r.pattern]
      BY <2>2, <1>3 DEF haystack, needle
    <3>2. ~ Shifts(s)
      <4>1. ASSUME NEW j \in DOMAIN s PROVE Len(Lower[s[j]]) = 1
        <5>1. j \in 1 .. n
          BY <1>5
        <5>2. PICK z : z = i + j - 1 /\ z \in DOMAIN t
          BY <5>1, <1>4
        <5>3. s[j] = t[z]
          BY <5>1, <5>2, <1>5
        <5> QED BY <5>2, <5>3, <1>8 DEF Shifts
      <4> QED BY <4>1 DEF Shifts
    <3>3. Len(to_lowercase(s)) = n /\ \A j \in 1 .. n : to_lowercase(s)[j] = Lower[s[j]][1]
      BY <3>2, <1>5, LowerUnshifted
    <3>4. ASSUME NEW j \in 1 .. n PROVE to_lowercase(s)[j] = v[j]
      <4>1. i + j - 1 \in 1 .. Len(t)
        BY <1>4
      <4>2. h[i + j - 1] = Lower[t[i + j - 1]][1]
        BY <4>1, <3>1, <1>8, LowerUnshifted
      <4> QED BY <4>2, <3>3, <1>3, <1>5
    <3>5. to_lowercase(s) \in Seq(Vocabulary)
      BY LowerIsText
    <3>6. to_lowercase(s) = v
      <4>1. PICK u \in Seq(Vocabulary) : u = to_lowercase(s)
        BY <3>5
      <4>2. Len(u) = Len(v) /\ \A j \in 1 .. Len(v) : u[j] = v[j]
        BY <4>1, <3>3, <3>4, <1>3
      <4>3. u = v
        BY <4>2, SMTT(60)
      <4> QED BY <4>1, <4>3
    <3> QED BY <3>1, <3>6
  <2> QED BY <2>1, <2>2
<1> QED BY <1>5, <1>6, <1>7, <1>8 DEF WellFound

-----------------------------------------------------------------------------
(* The inspections *)

\* A finding is a piece of text; a keyword's is the keyword itself.
FromText(f, t) ==
  WellFound(f) /\ (f.category = "CustomKeyword" => to_lowercase(f.snippet) = Lower[f.match_name] \/ Shifts(t))

LEMMA FindingsFromText ==
  ASSUME IsPolicy(engine), NEW t \in Seq(Vocabulary), ~ keyword_scan_panics(t, engine.keywords), NEW raw,
         raw = collect_request_findings(t) \/ raw = collect_response_findings(t)
  PROVE  IsSequence(raw) /\ \A f \in Elements(raw) : FromText(f, t)
<1>1. PICK words : words = scan_custom_keywords(t, engine.keywords)
  OBVIOUS
<1>2. IsSequence(words) /\ \A f \in Elements(words) : FromText(f, t)
  <2>1. IsSequence(engine.keywords) /\ \A k \in DOMAIN engine.keywords : IsKeyword(engine.keywords[k])
    BY DEF IsPolicy
  <2>2. words \in Seq(KeywordsFound(t, engine.keywords))
    BY <1>1, <2>1, KeywordScanIsSequence
  <2>3. IsSequence(words) /\ Elements(words) \subseteq KeywordsFound(t, engine.keywords)
    BY <2>2, SequenceOfElements
  <2> QED BY <2>1, <2>3, KeywordWellFound DEF FromText
<1>3. ASSUME NEW patterns, patterns = request_scanners \/ patterns = response_scanners,
             raw = scan(patterns, t) \o words
      PROVE  IsSequence(raw) /\ \A f \in Elements(raw) : FromText(f, t)
  <2>1. IsScanner(patterns) /\ \A p \in Elements(patterns) : \A w \in Regex[p.name] : IsSequence(w) /\ w # << >>
    BY <1>3, ScannersAreLists, RegexAssumption
  <2>2. PICK found : found = scan(patterns, t) /\ IsSequence(found) /\ Elements(found) \subseteq FoundBy(patterns, t)
    BY <2>1, ScanIsSequence, SequenceOfElements DEF IsScanner
  <2>3. \A f \in Elements(found) : FromText(f, t)
    BY <2>1, <2>2, ScanWellFound DEF FromText
  <2>4. PICK X : found \in Seq(X) /\ words \in Seq(X)
    <3>1. found \in Seq(Elements(found) \cup Elements(words)) /\ words \in Seq(Elements(found) \cup Elements(words))
      BY <1>2, <2>2 DEF IsSequence
    <3> QED BY <3>1
  <2>5. IsSequence(found \o words) /\ Elements(found \o words) = Elements(found) \cup Elements(words)
    BY <1>2, <2>2, <2>4, AtomsBehind, SequenceBehind
  <2> QED BY <1>2, <1>3, <2>2, <2>3, <2>5
<1> QED BY <1>1, <1>3 DEF collect_request_findings, collect_response_findings

\* An answer is the decision about the findings of the body, and what is
\* forwarded is the body with them masked.
AnswerInv ==
  /\ last.dir = "panic" => Shifts(wire(last.body))
  /\ Judged =>
       /\ IsContext(last.ctx) /\ IsBody(last.body)
       /\ IsSequence(last.raw) /\ \A f \in Elements(last.raw) : FromText(f, wire(last.body))
       /\ last.findings = active_findings(engine, last.raw)
       /\ LET d == evaluate_with_context(engine, last.raw, last.ctx)
          IN  last.action = d.action /\ last.risk = d.risk /\ last.matched = d.matched_rules
       /\ MaskedBody => last.sanitized = apply_redactions(last.body, last.findings)
       /\ ~ MaskedBody => last.sanitized = last.body

InspectionInv == engine \in Policies /\ response_scanning_enabled \in BOOLEAN /\ clock \in 0 .. MaxClock /\ AnswerInv

\* What an inspection answers is the decision about its findings.
LEMMA ScanAnswers ==
  ASSUME NEW b, IsBody(b), NEW ctx, IsContext(ctx), NEW raw, IsSequence(raw),
         \A f \in Elements(raw) : FromText(f, wire(b)), UNCHANGED engine,
         last' = finish_request_scan(b, ctx, raw) \/ last' = finish_response_scan(b, ctx, raw)
  PROVE  AnswerInv'
<1>1. PICK d : d = evaluate_with_context(engine, raw, ctx)
  OBVIOUS
<1>2. PICK fs : fs = active_findings(engine, raw)
  OBVIOUS
<1>3. PICK dir, sanitized :
        /\ dir \in {"request", "response"}
        /\ last' = Answer(dir, b, ctx, raw, d, fs, sanitized)
        /\ dir = "response" \/ d.action = "Redact" => sanitized = apply_redactions(b, fs)
        /\ ~ (dir = "response" \/ d.action = "Redact") => sanitized = b
  <2>1. CASE last' = finish_request_scan(b, ctx, raw)
    <3>1. last' = Answer("request", b, ctx, raw, d, fs, IF d.action = "Redact" THEN apply_redactions(b, fs) ELSE b)
      BY <2>1, <1>1, <1>2 DEF finish_request_scan
    <3> QED BY <3>1
  <2>2. CASE last' = finish_response_scan(b, ctx, raw)
    <3>1. last' = Answer("response", b, ctx, raw, d, fs, apply_redactions(b, fs))
      BY <2>2, <1>1, <1>2 DEF finish_response_scan
    <3> QED BY <3>1
  <2> QED BY <2>1, <2>2
<1>4. /\ last'.dir = dir /\ last'.body = b /\ last'.ctx = ctx /\ last'.raw = raw /\ last'.findings = fs
      /\ last'.action = d.action /\ last'.risk = d.risk /\ last'.matched = d.matched_rules
      /\ last'.sanitized = sanitized
  BY <1>3 DEF Answer
<1>5. MaskedBody' => sanitized = apply_redactions(b, fs)
  BY <1>3, <1>4 DEF MaskedBody
<1>6. Judged' /\ ~ MaskedBody' => sanitized = b
  BY <1>3, <1>4 DEF MaskedBody
<1>7. last'.dir # "panic"
  BY <1>3, <1>4
<1> QED BY <1>1, <1>2, <1>4, <1>5, <1>6, <1>7 DEF AnswerInv

\* An answer that was not scanned decides nothing.
LEMMA OthersDecideNothing ==
  ASSUME NEW b, NEW ctx, NEW dir \in {"request", "response"},
         \/ last' = paused_result(dir, b, ctx)
         \/ last' = Panic(dir, b) /\ Shifts(wire(b))
         \/ last' = Idle
  PROVE  AnswerInv'
<1>1. CASE last' = paused_result(dir, b, ctx)
  <2>1. last'.scanned = FALSE /\ last'.dir = dir
    BY <1>1 DEF paused_result, Answer
  <2>2. ~ Judged' /\ last'.dir # "panic"
    BY <2>1 DEF Judged
  <2> QED BY <2>2 DEF AnswerInv
<1>2. CASE last' = Panic(dir, b) /\ Shifts(wire(b))
  <2>1. last'.dir = "panic" /\ last'.body = b
    BY <1>2 DEF Panic
  <2>2. ~ Judged'
    BY <2>1 DEF Judged
  <2> QED BY <1>2, <2>1, <2>2 DEF AnswerInv
<1>3. CASE last' = Idle
  <2>1. last'.dir = "none"
    BY <1>3 DEF Idle
  <2>2. ~ Judged'
    BY <2>1 DEF Judged
  <2> QED BY <2>1, <2>2 DEF AnswerInv
<1> QED BY <1>1, <1>2, <1>3

LEMMA InspectionInvHolds == InspectionSpec => []InspectionInv
<1>1. InspectionInit => InspectionInv
  <2> SUFFICES ASSUME InspectionInit PROVE InspectionInv
    OBVIOUS
  <2>1. last.dir = "none"
    BY DEF InspectionInit, Idle
  <2>2. AnswerInv
    BY <2>1 DEF AnswerInv, Judged
  <2>3. engine \in Policies /\ response_scanning_enabled \in BOOLEAN /\ clock \in 0 .. MaxClock
    BY InstallationAssumption DEF InspectionInit
  <2> QED BY <2>2, <2>3 DEF InspectionInv
<1>2. InspectionInv /\ [InspectionNext]_inspectionVars => InspectionInv'
  <2> SUFFICES ASSUME InspectionInv, [InspectionNext]_inspectionVars PROVE InspectionInv'
    OBVIOUS
  <2>0. IsPolicy(engine) /\ \A k \in DOMAIN engine.keywords : IsKeyword(engine.keywords[k])
    BY PolicyAssumption DEF InspectionInv, IsPolicy
  <2>1. ASSUME NEW b \in Bodies, NEW ctx \in Contexts, Inspect(b, ctx) PROVE InspectionInv'
    <3>0. IsBody(b) /\ wire(b) \in Seq(Vocabulary) /\ IsContext(ctx)
      BY WireIsText, BodyAssumption, ContextAssumption
    <3>1. UNCHANGED << engine, response_scanning_enabled, clock >>
      BY <2>1 DEF Inspect
    <3>2. CASE last' = paused_result("request", b, ctx)
      BY <3>1, <3>2, OthersDecideNothing DEF InspectionInv
    <3>3. CASE /\ keyword_scan_panics(wire(b), engine.keywords) \/ keyword_scan_may_panic(wire(b), engine.keywords)
               /\ last' = Panic("request", b)
      <4>1. Shifts(wire(b))
        BY <2>0, <3>0, <3>3, KeywordPanics
      <4> QED BY <3>1, <3>3, <4>1, OthersDecideNothing DEF InspectionInv
    <3>4. CASE /\ ~ keyword_scan_panics(wire(b), engine.keywords)
               /\ \E raw \in {collect_request_findings(wire(b))} : last' = finish_request_scan(b, ctx, raw)
      <4>1. PICK raw : raw = collect_request_findings(wire(b)) /\ last' = finish_request_scan(b, ctx, raw)
        BY <3>4
      <4>2. IsSequence(raw) /\ \A f \in Elements(raw) : FromText(f, wire(b))
        BY <2>0, <3>0, <3>4, <4>1, FindingsFromText
      <4>3. AnswerInv'
        BY <3>0, <3>1, <4>1, <4>2, ScanAnswers
      <4> QED BY <3>1, <4>3 DEF InspectionInv
    <3> QED BY <2>1, <3>2, <3>3, <3>4 DEF Inspect
  <2>2. ASSUME NEW b \in Bodies, NEW ctx \in Contexts, InspectResponse(b, ctx) PROVE InspectionInv'
    <3>0. IsBody(b) /\ wire(b) \in Seq(Vocabulary) /\ IsContext(ctx)
      BY WireIsText, BodyAssumption, ContextAssumption
    <3>1. UNCHANGED << engine, response_scanning_enabled, clock >>
      BY <2>2 DEF InspectResponse
    <3>2. CASE last' = paused_result("response", b, ctx)
      BY <3>1, <3>2, OthersDecideNothing DEF InspectionInv
    <3>3. CASE /\ keyword_scan_panics(wire(b), engine.keywords) \/ keyword_scan_may_panic(wire(b), engine.keywords)
               /\ last' = Panic("response", b)
      <4>1. Shifts(wire(b))
        BY <2>0, <3>0, <3>3, KeywordPanics
      <4> QED BY <3>1, <3>3, <4>1, OthersDecideNothing DEF InspectionInv
    <3>4. CASE /\ ~ keyword_scan_panics(wire(b), engine.keywords)
               /\ \E raw \in {collect_response_findings(wire(b))} : last' = finish_response_scan(b, ctx, raw)
      <4>1. PICK raw : raw = collect_response_findings(wire(b)) /\ last' = finish_response_scan(b, ctx, raw)
        BY <3>4
      <4>2. IsSequence(raw) /\ \A f \in Elements(raw) : FromText(f, wire(b))
        BY <2>0, <3>0, <3>4, <4>1, FindingsFromText
      <4>3. AnswerInv'
        BY <3>0, <3>1, <4>1, <4>2, ScanAnswers
      <4> QED BY <3>1, <4>3 DEF InspectionInv
    <3> QED BY <2>2, <3>2, <3>3, <3>4 DEF InspectResponse
  <2>3. CASE Answered
    <3>1. "request" \in {"request", "response"} /\ last' = Idle
      BY <2>3 DEF Answered
    <3>2. AnswerInv'
      BY <3>1, OthersDecideNothing
    <3> QED BY <2>3, <3>2 DEF Answered, InspectionInv
  <2>4. CASE ClockTick
    <3>1. clock' \in 0 .. MaxClock
      BY <2>4, InstallationAssumption DEF ClockTick, InspectionInv
    <3>2. AnswerInv'
      BY <2>4 DEF ClockTick, InspectionInv, AnswerInv, Judged, MaskedBody
    <3> QED BY <2>4, <3>1, <3>2 DEF ClockTick, InspectionInv
  <2>5. CASE UNCHANGED inspectionVars
    <3>1. UNCHANGED << engine, response_scanning_enabled, clock, last >>
      BY <2>5 DEF inspectionVars
    <3>2. AnswerInv'
      BY <3>1 DEF InspectionInv, AnswerInv, Judged, MaskedBody
    <3> QED BY <3>1, <3>2 DEF InspectionInv
  <2> QED BY <2>1, <2>2, <2>3, <2>4, <2>5 DEF InspectionNext
<1> QED BY <1>1, <1>2, PTL DEF InspectionSpec

\* A verdict follows from the findings and the rules, for any policy, text and
\* risk context: it is the worst that was asked for, findings appended to others
\* never make it milder, history alone never makes it High, and a category that is
\* switched off acts through a rule or not at all (Inspector::inspect,
\* PolicyEngine::evaluate_with_context, risk score).
THEOREM VerdictsAreSound == InspectionSpec => []VerdictSound
<1>1. InspectionInv => VerdictSound
  <2> SUFFICES ASSUME InspectionInv PROVE VerdictSound
    OBVIOUS
  <2>0. IsPolicy(engine)
    BY PolicyAssumption DEF InspectionInv
  <2>1. CASE ~ Judged
    BY <2>1 DEF InspectionInv, VerdictSound, InspectionTypeOK, VerdictIsWorst, MoreFindingsNeverMilder,
                HistoryAloneNeverHigh, FootprintOnlyThroughRules
  <2>2. CASE Judged
    <3>1. PICK raw, ctx, X : raw = last.raw /\ ctx = last.ctx /\ raw \in Seq(X) /\ IsContext(ctx)
      BY <2>2 DEF InspectionInv, AnswerInv, IsSequence
    <3>2. PICK d : d = evaluate_with_context(engine, raw, ctx)
      OBVIOUS
    <3>3. /\ last.findings = active_findings(engine, raw)
          /\ last.action = d.action /\ last.risk = d.risk /\ last.matched = d.matched_rules
      BY <2>2, <3>1, <3>2 DEF InspectionInv, AnswerInv
    <3>4. PICK asked : asked = {category_action(engine, raw)} \cup RuleActions(engine, d.matched_rules)
      OBVIOUS
    <3>5. /\ d.risk = score(raw, ctx) /\ d.matched_rules \subseteq DOMAIN engine.rules
          /\ d.matched_rules = matched_rules(engine, raw, ctx, score(raw, ctx))
          /\ asked \subseteq Actions /\ d.action = Worst(asked)
          /\ d.action \in asked /\ \A a \in asked : action_rank(a) <= action_rank(d.action)
      BY <2>0, <3>2, <3>4, DecisionIsWorst, ZenonT(60)
    <3>6. PICK active : active = last.findings
      OBVIOUS
    <3>7. /\ active \in Seq(X) /\ AskedBy(engine, active) = AskedBy(engine, raw)
          /\ {finding_action(engine, active[i]) : i \in DOMAIN active} = AskedBy(engine, raw)
      BY <3>1, <3>3, <3>6, ActiveAsk
    <3>8. InspectionTypeOK
      <4>1. d.risk \in 0 .. 100
        <5>1. 0 \in 0 .. Len(raw)
          BY <3>1
        <5>2. score(raw, ctx) \in 0 .. 100
          BY <5>1, <3>1, ScoreGrows
        <5> QED BY <5>2, <3>5
      <4> QED BY <4>1, <3>3, <3>5 DEF InspectionInv, InspectionTypeOK
    <3>9. VerdictIsWorst
      <4>1. PICK all : all = AskedBy(engine, raw) \cup RuleActions(engine, d.matched_rules)
        OBVIOUS
      <4>2. {finding_action(engine, last.findings[i]) : i \in DOMAIN last.findings}
              \cup {engine.rules[r].action : r \in last.matched} = all
        BY <3>3, <3>6, <3>7, <4>1 DEF RuleActions
      <4>3. last.action \in all \cup {"Allow"}
        <5>1. category_action(engine, raw) \in {"Allow"} \cup AskedBy(engine, raw)
          BY <2>0, CategoryActionIsWorst
        <5>2. d.action \in asked
          BY <3>5
        <5>3. d.action \in all \cup {"Allow"}
          BY <5>1, <5>2, <3>4, <4>1
        <5> QED BY <5>3, <3>3
      <4>4. ASSUME NEW a \in all PROVE action_rank(a) <= action_rank(last.action)
        <5>1. CASE a \in RuleActions(engine, d.matched_rules)
          BY <5>1, <3>3, <3>4, <3>5
        <5>2. CASE a \in AskedBy(engine, raw)
          <6>1. PICK c : c = category_action(engine, raw)
            OBVIOUS
          <6>2. c \in asked /\ a \in Actions /\ c \in Actions /\ d.action \in Actions
            BY <2>0, <5>2, <6>1, <3>4, <3>5, CategoryActionIsWorst
          <6>3. PICK i \in Nat, j \in Nat, k \in Nat :
                  i = action_rank(a) /\ j = action_rank(c) /\ k = action_rank(d.action)
            BY <6>2, RankIsNatural
          <6>4. i <= j
            BY <2>0, <5>2, <6>1, <6>3, CategoryActionIsWorst
          <6>5. j <= k
            BY <6>2, <6>3, <3>5
          <6>6. i <= k
            BY <6>4, <6>5
          <6> QED BY <6>3, <6>6, <3>3
        <5> QED BY <5>1, <5>2, <4>1
      <4> QED BY <4>2, <4>3, <4>4 DEF VerdictIsWorst
    <3>10. MoreFindingsNeverMilder
      <4>1. ASSUME NEW n \in 0 .. Len(raw)
            PROVE  /\ evaluate_with_context(engine, SubSeq(raw, 1, n), ctx).risk <= d.risk
                   /\ ~ Negation(engine) =>
                        action_rank(evaluate_with_context(engine, SubSeq(raw, 1, n), ctx).action) <= action_rank(d.action)
        BY <2>0, <3>1, <3>2, DecisionGrows
      <4> QED BY <4>1, <3>1, <3>3 DEF MoreFindingsNeverMilder
    <3>11. HistoryAloneNeverHigh
      <4>1. ASSUME raw = << >> PROVE band(last.risk) < 2
        <5>1. PICK s \in 0 .. 40 : s = last.risk
          BY <3>1, <3>3, <3>5, <4>1, ScoreOfNothing
        <5>2. band(s) < 2
          BY DEF band
        <5> QED BY <5>1, <5>2
      <4> QED BY <4>1, <3>1 DEF HistoryAloneNeverHigh
    <3>12. FootprintOnlyThroughRules
      <4>1. PICK e : e = evaluate_with_context(engine, active, ctx)
        OBVIOUS
      <4>2. e.action = Worst({category_action(engine, active)} \cup RuleActions(engine, e.matched_rules))
        BY <2>0, <4>1, DecisionIsWorst
      <4>3. category_action(engine, active) = category_action(engine, raw)
        BY <2>0, <3>7, CategoryActionIsWorst
      <4>4. e.matched_rules = d.matched_rules => e.action = d.action
        BY <4>2, <4>3, <3>4, <3>5
      <4> QED BY <4>1, <4>4, <3>1, <3>3, <3>6 DEF FootprintOnlyThroughRules
    <3> QED BY <3>8, <3>9, <3>10, <3>11, <3>12 DEF VerdictSound
  <2> QED BY <2>1, <2>2
<1> QED BY <1>1, InspectionInvHolds, PTL
-----------------------------------------------------------------------------
(* The masked body *)

LEMMA MaskingsOf ==
  ASSUME NEW fs, IsSequence(fs), \A f \in Elements(fs) : WellFound(f)
  PROVE  \E X : Vocabulary \subseteq X /\ Maskings(X, fs)
<1>1. PICK X : X = Vocabulary \cup Placeholders(fs)
  OBVIOUS
<1>2. ASSUME NEW i \in Maskable(fs)
      PROVE  fs[i].snippet \in Seq(X) /\ fs[i].snippet # << >> /\ fs[i].redacted_replacement \in Seq(X)
  <2>1. i \in DOMAIN fs /\ fs[i] \in Elements(fs)
    BY <1>2 DEF Maskable, Elements
  <2>2. PICK s \in Seq(Vocabulary) : s = fs[i].snippet /\ s # << >>
    BY <2>1 DEF WellFound
  <2>3. PICK by : by = fs[i].redacted_replacement /\ by \in Seq(Elements(by))
    BY <2>1 DEF WellFound, IsSequence
  <2>4. Elements(by) \subseteq X
    BY <1>1, <1>2, <2>3 DEF Placeholders
  <2>5. by \in Seq(X)
    BY <2>3, <2>4
  <2>6. s \in Seq(X)
    BY <1>1, <2>2
  <2> QED BY <2>2, <2>3, <2>5, <2>6
<1> QED BY <1>1, <1>2 DEF Maskings

\* Of the document, only the texts of the string leaves change.
LEMMA RedactedLeaves ==
  ASSUME NEW b, IsBody(b), NEW fs, NEW r, r = apply_redactions(b, fs)
  PROVE  /\ DOMAIN r.leaves = DOMAIN b.leaves
         /\ \A i \in DOMAIN b.leaves :
              /\ b.leaves[i].text \in Seq(Vocabulary)
              /\ IsString(b.leaves[i]) <=> IsString(r.leaves[i])
              /\ IsString(b.leaves[i]) => r.leaves[i].text = redact_string(b.leaves[i].text, fs)
              /\ ~ IsString(b.leaves[i]) => r.leaves[i] = b.leaves[i]
<1>1. r.leaves = [i \in DOMAIN b.leaves |->
                    IF IsString(b.leaves[i]) THEN [b.leaves[i] EXCEPT !.text = redact_string(@, fs)] ELSE b.leaves[i]]
  BY DEF apply_redactions
<1>2. ASSUME NEW i \in DOMAIN b.leaves
      PROVE  /\ b.leaves[i].text \in Seq(Vocabulary)
             /\ IsString(b.leaves[i]) <=> IsString(r.leaves[i])
             /\ IsString(b.leaves[i]) => r.leaves[i].text = redact_string(b.leaves[i].text, fs)
             /\ ~ IsString(b.leaves[i]) => r.leaves[i] = b.leaves[i]
  <2>1. PICK leaf \in [kind : STRING, text : Seq(Vocabulary)] : leaf = b.leaves[i]
    BY <1>2 DEF IsBody
  <2>2. CASE IsString(leaf)
    <3>1. r.leaves[i] = [leaf EXCEPT !.text = redact_string(@, fs)]
      BY <1>1, <2>1, <2>2
    <3>2. r.leaves[i].kind = leaf.kind /\ r.leaves[i].text = redact_string(leaf.text, fs)
      BY <3>1
    <3> QED BY <2>1, <2>2, <3>2 DEF IsString
  <2>3. CASE ~ IsString(leaf)
    <3>1. r.leaves[i] = leaf
      BY <1>1, <2>1, <2>3
    <3> QED BY <2>1, <2>3, <3>1
  <2> QED BY <2>2, <2>3
<1> QED BY <1>1, <1>2

\* What the answer's findings are, and what became of the body.
LEMMA AnswerMasks ==
  ASSUME InspectionInv, Judged
  PROVE  /\ IsBody(last.body) /\ IsSequence(last.findings)
         /\ \A i \in DOMAIN last.findings : FromText(last.findings[i], wire(last.body))
         /\ last.findings = active_findings(engine, last.raw)
         /\ \E X : Vocabulary \subseteq X /\ Maskings(X, last.findings)
         /\ MaskedBody => last.sanitized = apply_redactions(last.body, last.findings)
         /\ ~ MaskedBody => last.sanitized = last.body
<1>1. PICK raw, X : raw = last.raw /\ X = Elements(raw) /\ raw \in Seq(X)
  BY DEF InspectionInv, AnswerInv, IsSequence
<1>2. PICK fs : fs = last.findings /\ fs = active_findings(engine, raw) /\ fs \in Seq(X)
  BY <1>1, ActiveAsk DEF InspectionInv, AnswerInv
<1>3. IsSequence(fs) /\ Elements(fs) \subseteq X
  BY <1>2, SequenceOfElements
<1>4. \A f \in Elements(fs) : FromText(f, wire(last.body))
  BY <1>1, <1>3 DEF InspectionInv, AnswerInv
<1>5. \A i \in DOMAIN fs : FromText(fs[i], wire(last.body))
  BY <1>4 DEF Elements
<1>6. \E Y : Vocabulary \subseteq Y /\ Maskings(Y, fs)
  BY <1>3, <1>4, MaskingsOf DEF FromText
<1> QED BY <1>1, <1>2, <1>3, <1>5, <1>6 DEF InspectionInv, AnswerInv

LEMMA KeywordsAreCut ==
  ASSUME InspectionInv
  PROVE  KeywordCutExact
<1>1. last.dir = "panic" => Shifts(wire(last.body))
  BY DEF InspectionInv, AnswerInv
<1>2. ASSUME Judged, NEW i \in DOMAIN last.findings, last.findings[i].category = "CustomKeyword"
      PROVE  to_lowercase(last.findings[i].snippet) = Lower[last.findings[i].match_name] \/ Shifts(wire(last.body))
  BY <1>2, AnswerMasks DEF FromText
<1> QED BY <1>1, <1>2 DEF KeywordCutExact

LEMMA OthersStay ==
  ASSUME InspectionInv
  PROVE  OnlyFindingsMasked
<1> SUFFICES ASSUME Judged PROVE OnlyFindingsMasked
  BY DEF OnlyFindingsMasked
<1>1. PICK b, fs, r : b = last.body /\ fs = last.findings /\ r = last.sanitized
  OBVIOUS
<1>2. PICK X : Vocabulary \subseteq X /\ Maskings(X, fs)
  BY <1>1, AnswerMasks
<1>3. fs = active_findings(engine, last.raw) /\ IsBody(b)
  BY <1>1, AnswerMasks
<1>4. PICK asked : asked = UNION {AtomsOf(fs[i].snippet) : i \in Maskable(fs)}
  OBVIOUS
<1>5. CASE r = b
  <2>1. Atoms(b) \ (asked \cup Spaces) \subseteq Atoms(r)
    BY <1>5
  <2> QED BY <1>1, <1>3, <1>4, <1>5, <2>1 DEF OnlyFindingsMasked
<1>6. CASE r = apply_redactions(b, fs)
  <2>1. /\ DOMAIN r.leaves = DOMAIN b.leaves
        /\ \A i \in DOMAIN b.leaves : ~ IsString(b.leaves[i]) => r.leaves[i] = b.leaves[i]
    BY <1>3, <1>6, RedactedLeaves
  <2>2. ASSUME NEW x \in Atoms(b), x \notin asked, x \notin Spaces PROVE x \in Atoms(r)
    <3>1. PICK i \in DOMAIN b.leaves : x \in Elements(b.leaves[i].text)
      BY <2>2 DEF Atoms, Elements
    <3>2. x \in Elements(r.leaves[i].text)
      <4>1. CASE ~ IsString(b.leaves[i])
        BY <2>1, <3>1, <4>1
      <4>2. CASE IsString(b.leaves[i])
        <5>1. PICK t \in Seq(X) : t = b.leaves[i].text /\ r.leaves[i].text = redact_string(t, fs)
          <6>1. b.leaves[i].text \in Seq(Vocabulary) /\ r.leaves[i].text = redact_string(b.leaves[i].text, fs)
            BY <1>3, <1>6, <4>2, RedactedLeaves
          <6>2. \A t \in Seq(Vocabulary) : t \in Seq(X)
            BY <1>2
          <6> QED BY <6>1, <6>2
        <5>2. \A j \in Maskable(fs) : x \notin Elements(fs[j].snippet)
          BY <1>4, <2>2 DEF AtomsOf, Elements
        <5>3. x \in Elements(t)
          BY <3>1, <5>1
        <5> QED BY <1>2, <5>1, <5>2, <5>3, RedactKeeps
      <4> QED BY <4>1, <4>2
    <3> QED BY <2>1, <3>1, <3>2 DEF Atoms, Elements
  <2>3. Atoms(b) \ (asked \cup Spaces) \subseteq Atoms(r)
    BY <2>2
  <2> QED BY <1>1, <1>3, <1>4, <2>1, <2>3 DEF OnlyFindingsMasked
<1> QED BY <1>1, <1>5, <1>6, AnswerMasks

LEMMA NothingStands ==
  ASSUME InspectionInv
  PROVE  SnippetsGone
<1> SUFFICES ASSUME MaskedBody, NEW i \in Maskable(last.findings),
                    \A j \in Maskable(last.findings) :
                      Elements(last.findings[j].redacted_replacement) \cap Elements(last.findings[i].snippet) = {},
                    InOneString(last.sanitized, last.findings[i].snippet)
             PROVE  FALSE
  BY DEF SnippetsGone
<1>1. PICK b, fs, r : b = last.body /\ fs = last.findings /\ r = last.sanitized
  OBVIOUS
<1>2. IsBody(b) /\ r = apply_redactions(b, fs) /\ \E X : Vocabulary \subseteq X /\ Maskings(X, fs)
  BY <1>1, AnswerMasks DEF MaskedBody
<1>3. PICK X : Vocabulary \subseteq X /\ Maskings(X, fs)
  BY <1>2
<1>4. PICK l \in DOMAIN r.leaves : IsString(r.leaves[l]) /\ Stands(fs[i].snippet, r.leaves[l].text)
  BY <1>1 DEF InOneString
<1>5. PICK t \in Seq(X) : r.leaves[l].text = redact_string(t, fs)
  <2>1. l \in DOMAIN b.leaves
    BY <1>2, <1>4, RedactedLeaves
  <2>2. b.leaves[l].text \in Seq(Vocabulary) /\ r.leaves[l].text = redact_string(b.leaves[l].text, fs)
    BY <1>2, <1>4, <2>1, RedactedLeaves
  <2>3. \A u \in Seq(Vocabulary) : u \in Seq(X)
    BY <1>3
  <2> QED BY <2>2, <2>3
<1>6. \A j \in Maskable(fs) : Apart(fs[j].redacted_replacement, fs[i].snippet)
  BY <1>1 DEF Apart
<1>7. i \in Maskable(fs)
  BY <1>1
<1> QED BY <1>3, <1>4, <1>5, <1>6, <1>7, RedactRemoves

LEMMA NothingLeft ==
  ASSUME InspectionInv
  PROVE  MaskedOrExplained
<1> SUFFICES ASSUME MaskedBody, NEW i \in Maskable(last.findings),
                    ~ \E j \in Maskable(last.findings) :
                        j < i /\ Elements(last.findings[j].snippet) \cap Elements(last.findings[i].snippet) # {},
                    ~ StandsAlone(last.body, last.findings[i].snippet), ~ Repeats(last.findings[i].snippet),
                    NEW x \in AtomsOf(last.findings[i].snippet) \cap Atoms(last.sanitized)
             PROVE  x \in Placeholders(last.findings)
  BY DEF MaskedOrExplained
<1>1. PICK b, fs, r : b = last.body /\ fs = last.findings /\ r = last.sanitized
  OBVIOUS
<1>2. IsBody(b) /\ r = apply_redactions(b, fs) /\ \E X : Vocabulary \subseteq X /\ Maskings(X, fs)
  BY <1>1, AnswerMasks DEF MaskedBody
<1>3. PICK X : Vocabulary \subseteq X /\ Maskings(X, fs)
  BY <1>2
<1>4. PICK s \in Seq(X) : s = fs[i].snippet
  BY <1>1, <1>3 DEF Maskings
<1>5. /\ i \in Maskable(fs) /\ ~ Repeats(s) /\ ~ StandsAlone(b, s) /\ x \in AtomsOf(s)
      /\ \A j \in Maskable(fs) : j < i => Apart(fs[j].snippet, s)
  BY <1>1, <1>4 DEF Apart
<1> SUFFICES ASSUME x \notin Placeholders(fs) PROVE FALSE
  BY <1>1
<1>6. PICK B : B = AtomsOf(s) \ Placeholders(fs)
  OBVIOUS
<1>7. x \in B /\ \A j \in Maskable(fs) : Elements(fs[j].redacted_replacement) \cap B = {}
  BY <1>5, <1>6 DEF Placeholders
<1>8. PICK l \in DOMAIN r.leaves : x \in Elements(r.leaves[l].text)
  BY <1>1 DEF Atoms, Elements
<1>9. l \in DOMAIN b.leaves
  BY <1>2, <1>8, RedactedLeaves
<1>10. CASE ~ IsString(b.leaves[l])
  <2>1. x \in Elements(b.leaves[l].text)
    BY <1>2, <1>8, <1>9, <1>10, RedactedLeaves
  <2>2. PICK k \in DOMAIN b.leaves[l].text : b.leaves[l].text[k] = x
    BY <2>1 DEF Elements
  <2>3. StandsAlone(b, s)
    BY <1>5, <1>9, <1>10, <2>2 DEF StandsAlone
  <2> QED BY <1>5, <2>3
<1>11. CASE IsString(b.leaves[l])
  <2>1. PICK t \in Seq(X) : t = b.leaves[l].text /\ r.leaves[l].text = redact_string(t, fs)
    <3>1. b.leaves[l].text \in Seq(Vocabulary) /\ r.leaves[l].text = redact_string(b.leaves[l].text, fs)
      BY <1>2, <1>9, <1>11, RedactedLeaves
    <3>2. \A u \in Seq(Vocabulary) : u \in Seq(X)
      BY <1>3
    <3> QED BY <3>1, <3>2
  <2>2. ASSUME NEW k \in DOMAIN t, t[k] \in B PROVE \E m \in 1 .. k : k < m + Len(s) /\ At(s, t, m)
    <3>1. PICK m \in 1 .. k : k < m + Len(s) /\ StandsAt(s, t, m)
      <4>1. t[k] \in AtomsOf(s)
        BY <2>2, <1>6
      <4> QED BY <4>1, <2>1, <2>2, <1>5, <1>9 DEF StandsAlone
    <3>2. m \in Nat \ {0}
      BY <2>1
    <3> QED BY <3>1, <3>2, FoundAt
  <2>3. Covered(t, fs[i].snippet, B)
    BY <1>4, <2>2 DEF Covered
  <2>4. Elements(redact_string(t, fs)) \cap B = {}
    BY <1>3, <1>4, <1>5, <1>7, <2>3, RedactTakesCovered
  <2> QED BY <1>7, <1>8, <2>1, <2>4
<1> QED BY <1>10, <1>11

\* Masking takes out what the active findings point at and nothing else, for
\* any policy, body and list of patterns: leaves that are not strings and
\* atoms of no finding stay, no snippet stands in a string of the masked body,
\* what of it is left has one of the reasons MaskedOrExplained lists, and a
\* keyword is cut where it stands unless lower-casing changes a length
\* (apply_redactions, redact_string, scan_custom_keywords).
THEOREM MaskingIsExact == InspectionSpec => []MaskingExact
<1>1. InspectionInv => MaskingExact
  BY KeywordsAreCut, OthersStay, NothingStands, NothingLeft DEF MaskingExact
<1> QED BY <1>1, InspectionInvHolds, PTL
=============================================================================
