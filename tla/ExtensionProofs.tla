-------------------------- MODULE ExtensionProofs ---------------------------
(***************************************************************************)
(* Proofs about the browser extension, for every policy, every body, every *)
(* site list and every number of overlapping tasks and syncs the workloads *)
(* allow.                                                                  *)
(*                                                                         *)
(*   SiteInv     what a running sync knows of the list and of the scripts  *)
(*   DebtInv     how many tasks the user's actions account for             *)
(*   TasksInv    what a task knows of the parts it has passed, and which   *)
(*               answers can still reach it                                *)
(***************************************************************************)
EXTENDS Extension, VerdictsProofs, SequenceTheorems, FiniteSetTheorems

-----------------------------------------------------------------------------
(* The sites *)

Sites == {1, 2}     \* the two calls of syncDynamicSites

SyncRecord(r) == r = [pc |-> r.pc, domains |-> r.domains, existing |-> r.existing, todo |-> r.todo]

\* What a sync holds: no built-in site, nothing to add that is not listed, and
\* every site the lists so far agree on (a), unless it was refused a list (f).
SyncSound(r, a, f) ==
  /\ SyncRecord(r)
  /\ r.domains \cap Builtin = {} /\ r.todo \subseteq r.domains
  /\ r.pc \in {"idle", "fetch", "read", "remove", "add"}
  /\ r.pc \in {"read", "remove", "add"} /\ ~ f => a \ Builtin \subseteq r.domains

SiteInv ==
  /\ refused \in BOOLEAN
  /\ always \subseteq policy_applications(listed)
  /\ registered \subseteq Permitted \ Builtin
  /\ syncs = [s \in Sites |-> syncs[s]]
  /\ \A s \in Sites : SyncSound(syncs[s], always, refused)

LEMMA NewSyncSound ==
  ASSUME NEW c \in {"idle", "fetch", "read", "remove", "add"}, NEW D, NEW E, NEW T, NEW a, NEW f \in BOOLEAN,
         D \cap Builtin = {}, T \subseteq D, c \in {"read", "remove", "add"} /\ ~ f => a \ Builtin \subseteq D
  PROVE  SyncSound([pc |-> c, domains |-> D, existing |-> E, todo |-> T], a, f)
<1> DEFINE r == [pc |-> c, domains |-> D, existing |-> E, todo |-> T]
<1>1. r.pc = c /\ r.domains = D /\ r.existing = E /\ r.todo = T
  OBVIOUS
<1>2. SyncRecord(r)
  BY <1>1 DEF SyncRecord
<1> HIDE DEF r
<1>3. SyncSound(r, a, f)
  BY <1>1, <1>2 DEF SyncSound
<1> QED BY <1>3 DEF r

LEMMA SyncGoesOn ==
  ASSUME NEW r, SyncRecord(r), NEW c, NEW X
  PROVE  /\ [r EXCEPT !.pc = c, !.existing = X]
              = [pc |-> c, domains |-> r.domains, existing |-> X, todo |-> r.todo]
         /\ [r EXCEPT !.pc = c, !.todo = X]
              = [pc |-> c, domains |-> r.domains, existing |-> r.existing, todo |-> X]
<1> DEFINE s == [pc |-> c, domains |-> r.domains, existing |-> r.existing, todo |-> r.todo]
<1>1. [r EXCEPT !.pc = c] = s
  BY DEF SyncRecord
<1>2. /\ [r EXCEPT !.pc = c, !.existing = X] = [[r EXCEPT !.pc = c] EXCEPT !.existing = X]
      /\ [r EXCEPT !.pc = c, !.todo = X] = [[r EXCEPT !.pc = c] EXCEPT !.todo = X]
  OBVIOUS
<1>3. /\ [s EXCEPT !.existing = X] = [pc |-> c, domains |-> r.domains, existing |-> X, todo |-> r.todo]
      /\ [s EXCEPT !.todo = X] = [pc |-> c, domains |-> r.domains, existing |-> r.existing, todo |-> X]
  OBVIOUS
<1> QED BY <1>1, <1>2, <1>3

LEMMA SyncReads ==
  ASSUME NEW D
  PROVE  [NoSync EXCEPT !.pc = "read", !.domains = D] = [pc |-> "read", domains |-> D, existing |-> {}, todo |-> {}]
<1> DEFINE s == [pc |-> "read", domains |-> {}, existing |-> {}, todo |-> {}]
<1>1. [NoSync EXCEPT !.pc = "read"] = s
  BY DEF NoSync
<1>2. [NoSync EXCEPT !.pc = "read", !.domains = D] = [[NoSync EXCEPT !.pc = "read"] EXCEPT !.domains = D]
  OBVIOUS
<1>3. [s EXCEPT !.domains = D] = [pc |-> "read", domains |-> D, existing |-> {}, todo |-> {}]
  OBVIOUS
<1> QED BY <1>1, <1>2, <1>3

LEMMA InitSites == Init => SiteInv
<1> SUFFICES ASSUME Init PROVE SiteInv
  OBVIOUS
<1>1. /\ refused \in BOOLEAN /\ always \subseteq policy_applications(listed)
      /\ registered \subseteq Permitted \ Builtin
  BY DEF Init
<1>2. syncs = [s \in Sites |-> NoSync]
  BY DEF Init, Sites
<1>3. SyncSound(NoSync, always, refused)
  BY DEF SyncSound, SyncRecord, NoSync
<1> QED BY <1>1, <1>2, <1>3 DEF SiteInv

\* A step of one sync, whatever it leaves in its place.
LEMMA SyncStepKeepsSites ==
  ASSUME SiteInv, NEW s \in Sites, NEW r, SyncStep(s, r), SyncSound(r, always, refused'),
         refused' \in BOOLEAN, refused => refused', registered' \subseteq Permitted \ Builtin
  PROVE  SiteInv'
<1>1. syncs' = [syncs EXCEPT ![s] = r] /\ UNCHANGED << work, listed, always >>
  BY DEF SyncStep, SetSync
<1>2. syncs = [q \in Sites |-> syncs[q]]
  BY DEF SiteInv
<1>3. syncs' = [q \in Sites |-> IF q = s THEN r ELSE syncs[q]]
  BY <1>1, <1>2
<1>4. ASSUME NEW q \in Sites PROVE SyncSound(syncs'[q], always, refused')
  <2>1. CASE q = s
    BY <1>3, <2>1
  <2>2. CASE q # s
    <3>1. syncs'[q] = syncs[q] /\ SyncSound(syncs[q], always, refused)
      BY <1>3, <2>2 DEF SiteInv
    <3> QED BY <3>1 DEF SyncSound
  <2> QED BY <2>1, <2>2
<1>5. syncs' = [q \in Sites |-> syncs'[q]]
  BY <1>3
<1>6. always' \subseteq policy_applications(listed)'
  BY <1>1 DEF SiteInv, policy_applications
<1> QED BY <1>1, <1>4, <1>5, <1>6 DEF SiteInv

\* What a sync does keeps SiteInv, and a site it gives up left the list.
LEMMA SyncKeepsSites ==
  ASSUME SiteInv, NEW s \in Sites, Sync(s) \/ SyncRefused(s) \/ SyncUnreachable(s)
  PROVE  SiteInv' /\ \A d \in registered \ registered' : d \notin always \/ refused
<1>1. SyncSound(syncs[s], always, refused) /\ refused \in BOOLEAN
      /\ registered \subseteq Permitted \ Builtin /\ always \subseteq policy_applications(listed)
  BY DEF SiteInv
<1>0. SyncSound(NoSync, always, refused)
  BY DEF SyncSound, SyncRecord, NoSync
<1>2. CASE SyncStart(s)
  <2>1. SyncSound([NoSync EXCEPT !.pc = "fetch"], always, refused)
    BY DEF SyncSound, SyncRecord, NoSync
  <2> QED BY <1>1, <1>2, <2>1, SyncStepKeepsSites DEF SyncStart
<1>3. CASE SyncFetch(s)
  <2>1. SyncSound([NoSync EXCEPT !.pc = "read", !.domains = policy_applications(listed) \ Builtin], always, refused)
    <3> DEFINE D == policy_applications(listed) \ Builtin
    <3>1. always \ Builtin \subseteq D /\ D \cap Builtin = {}
      BY <1>1
    <3> HIDE DEF D
    <3>2. SyncSound([NoSync EXCEPT !.pc = "read", !.domains = D], always, refused)
      <4>1. [NoSync EXCEPT !.pc = "read", !.domains = D]
              = [pc |-> "read", domains |-> D, existing |-> {}, todo |-> {}]
        BY SyncReads
      <4> QED BY <1>1, <3>1, <4>1, NewSyncSound
    <3> QED BY <3>2 DEF D
  <2> QED BY <1>1, <1>3, <2>1, SyncStepKeepsSites DEF SyncFetch
<1>4. CASE SyncRefused(s)
  <2>1. SyncSound([NoSync EXCEPT !.pc = "read"], always, TRUE)
    BY DEF SyncSound, SyncRecord, NoSync
  <2> QED BY <1>1, <1>4, <2>1, SyncStepKeepsSites DEF SyncRefused
<1>5. CASE SyncUnreachable(s)
  BY <1>0, <1>1, <1>5, SyncStepKeepsSites DEF SyncUnreachable
<1>6. CASE SyncRead(s)
  <2>1. SyncSound([syncs[s] EXCEPT !.pc = "remove", !.existing = registered], always, refused)
    <3>1. PICK r : r = syncs[s]
      OBVIOUS
    <3>2. SyncSound(r, always, refused) /\ r.pc = "read"
      BY <1>1, <1>6, <3>1 DEF SyncRead
    <3>3. SyncSound([r EXCEPT !.pc = "remove", !.existing = registered], always, refused)
      <4>1. [r EXCEPT !.pc = "remove", !.existing = registered]
              = [pc |-> "remove", domains |-> r.domains, existing |-> registered, todo |-> r.todo]
        BY <3>2, SyncGoesOn DEF SyncSound
      <4>2. /\ r.domains \cap Builtin = {} /\ r.todo \subseteq r.domains
            /\ (~ refused => always \ Builtin \subseteq r.domains)
        BY <3>2 DEF SyncSound
      <4> QED BY <1>1, <4>1, <4>2, NewSyncSound
    <3> QED BY <3>1, <3>3
  <2> QED BY <1>1, <1>6, <2>1, SyncStepKeepsSites DEF SyncRead
<1>7. CASE SyncRemove(s)
  <2>1. SyncSound([syncs[s] EXCEPT !.pc = "add", !.todo = syncs[s].domains \ syncs[s].existing], always, refused)
    <3>1. PICK r : r = syncs[s]
      OBVIOUS
    <3>2. SyncSound(r, always, refused) /\ r.pc = "remove"
      BY <1>1, <1>7, <3>1 DEF SyncRemove
    <3>3. SyncSound([r EXCEPT !.pc = "add", !.todo = r.domains \ r.existing], always, refused)
      <4>1. [r EXCEPT !.pc = "add", !.todo = r.domains \ r.existing]
              = [pc |-> "add", domains |-> r.domains, existing |-> r.existing, todo |-> r.domains \ r.existing]
        BY <3>2, SyncGoesOn DEF SyncSound
      <4>2. r.domains \cap Builtin = {} /\ (~ refused => always \ Builtin \subseteq r.domains)
        BY <3>2 DEF SyncSound
      <4> QED BY <1>1, <4>1, <4>2, NewSyncSound
    <3> QED BY <3>1, <3>3
  <2>2. registered' \subseteq registered /\ registered \ registered' \subseteq syncs[s].existing \ syncs[s].domains
    BY <1>7 DEF SyncRemove
  <2>3. SiteInv'
    BY <1>1, <1>7, <2>1, <2>2, SyncStepKeepsSites DEF SyncRemove
  <2>4. \A d \in registered \ registered' : d \notin always \/ refused
    BY <1>1, <1>7, <2>2 DEF SyncSound, SyncRemove
  <2> QED BY <2>3, <2>4
<1>8. CASE SyncAdd(s)
  <2>1. PICK d \in syncs[s].todo : /\ registered' = registered \cup ({d} \cap Permitted)
                                   /\ SyncStep(s, [syncs[s] EXCEPT !.todo = @ \ {d}])
    BY <1>8 DEF SyncAdd
  <2>2. SyncSound([syncs[s] EXCEPT !.todo = @ \ {d}], always, refused)
    BY <1>1, <1>8 DEF SyncSound, SyncRecord, SyncAdd
  <2>3. d \notin Builtin
    BY <1>1, <2>1 DEF SyncSound
  <2> QED BY <1>1, <1>8, <2>1, <2>2, <2>3, SyncStepKeepsSites DEF SyncAdd
<1>9. CASE SyncEnd(s)
  BY <1>0, <1>1, <1>9, SyncStepKeepsSites DEF SyncEnd
<1> QED BY <1>2, <1>3, <1>4, <1>5, <1>6, <1>7, <1>8, <1>9 DEF Sync

LEMMA StepKeepsSites ==
  ASSUME SiteInv, [Next]_vars
  PROVE  SiteInv' /\ \A d \in registered \ registered' : d \notin always \/ refused
<1>1. ASSUME NEW s \in DOMAIN syncs, Sync(s) \/ SyncRefused(s) \/ SyncUnreachable(s)
      PROVE  SiteInv' /\ \A d \in registered \ registered' : d \notin always \/ refused
  <2>1. s \in Sites
    BY DEF SiteInv
  <2> QED BY <1>1, <2>1, SyncKeepsSites
<1>2. CASE WorkerStops
  <2>1. SyncSound(NoSync, always, refused)
    BY DEF SyncSound, SyncRecord, NoSync
  <2>2. syncs' = [s \in Sites |-> NoSync] /\ UNCHANGED << work, listed, registered, always, refused >>
    BY <1>2 DEF WorkerStops, SiteInv
  <2> QED BY <2>1, <2>2 DEF SiteInv, policy_applications
<1>3. CASE ChangeList
  <2>1. /\ always' = always \cap policy_applications(listed')
        /\ UNCHANGED << work, registered, syncs, refused >>
    BY <1>3 DEF ChangeList
  <2>2. always' \subseteq policy_applications(listed)' /\ always' \subseteq always
    BY <2>1 DEF policy_applications
  <2>3. \A s \in Sites : SyncSound(syncs[s], always', refused)
    BY <2>2 DEF SiteInv, SyncSound
  <2> QED BY <2>1, <2>2, <2>3 DEF SiteInv
<1>4. CASE UNCHANGED << work, siteVars >>
  <2>1. UNCHANGED << work, listed, registered, syncs, always, refused >>
    BY <1>4 DEF siteVars
  <2> QED BY <2>1 DEF SiteInv, policy_applications
<1>5. CASE Type \/ Press \/ PageSends \/ ChangePolicy
  BY <1>4, <1>5 DEF Type, Press, PageSends, ChangePolicy, agentVars
<1>6. ASSUME NEW i \in DOMAIN tasks, Task(i) \/ SiteReplies(i)
      PROVE  UNCHANGED << work, siteVars >>
  BY <1>6 DEF Task, Timeout, ResumeSubmit, Resubmit, ResumeSend, ResumeReply, SiteReplies, agentVars
<1>7. ASSUME NEW m \in mail, Agent(m) \/ AgentFails(m) \/ OnMessage(m)
      PROVE  UNCHANGED << work, siteVars >>
  BY <1>7 DEF Agent, AgentFails, OnMessage, agentVars
<1>8. CASE UNCHANGED vars
  BY <1>4, <1>8 DEF vars, agentVars
<1> QED BY <1>1, <1>2, <1>3, <1>4, <1>5, <1>6, <1>7, <1>8 DEF Next

LEMMA SiteInvariant == Spec => []SiteInv
BY InitSites, StepKeepsSites, PTL DEF Spec

\* A site every list so far has had loses its scripts only after the Agent
\* refused a list, whatever overlaps, fails or dies.
THEOREM SitesStayCovered == Spec => ListedSitesStayCovered
<1>1. SiteInv /\ [Next]_vars => [\A d \in registered \ registered' : d \notin always \/ refused]_vars
  BY StepKeepsSites
<1> QED BY <1>1, SiteInvariant, PTL DEF Spec, ListedSitesStayCovered

-----------------------------------------------------------------------------
(* Questions, verdicts and bodies *)

Questions == [kind : {"inspect", "inspect-file", "inspect-response"}, text : SUBSET Categories, plain : BOOLEAN]

Answers ==
  [kind : {"null", "scan"}, action : Actions \cup {"none"}, sanitized : SUBSET Categories, unmaskable : BOOLEAN]

Policy(p) == WellTyped(p) /\ p.unmaskable \in Actions

LEMMA NullIsAnswer == NullVerdict \in Answers
BY DEF NullVerdict, Answers

\* A stop is what a denial is.
LEMMA StopIsDenial == \A v : verdictOutcome(v).stop <=> Denied(v.action)
BY DEF verdictOutcome, Denied, enforcement_action

LEMMA JudgeTypes ==
  ASSUME NEW p, Policy(p), NEW q \in Questions
  PROVE  judge(p, q) \in Answers /\ judge(p, q).kind = "scan"
<1>1. inspect(p, q.text) \in [kind : {"scan"}, action : Actions, sanitized : SUBSET Categories]
  BY InspectTypes DEF Policy, Questions
<1>2. enforcement_action(p.unmaskable) \in Actions
  BY DEF enforcement_action, Policy, Actions
<1> DEFINE v == inspect(p, q.text)
           a == enforcement_action(p.unmaskable)
           u == q.kind = "inspect-file" /\ ~ q.plain /\ v.action = "Redact"
           x == IF ~ u THEN v.action ELSE IF a = "Redact" THEN "Block" ELSE a
<1>3. judge(p, q) = [kind |-> "scan", sanitized |-> v.sanitized, unmaskable |-> u, action |-> x]
  BY DEF judge
<1>4. u \in BOOLEAN /\ v.action \in Actions /\ v.sanitized \in SUBSET Categories /\ a \in Actions
  BY <1>1, <1>2
<1> HIDE DEF v, a, u
<1>5. x \in Actions
  BY <1>4 DEF Actions
<1> HIDE DEF x
<1> QED BY <1>3, <1>4, <1>5 DEF Answers

\* A guarded text that is not stopped is masked, or it is a file that cannot
\* be masked, and then the verdict says so and asks for no masking.
LEMMA JudgeGuards ==
  ASSUME NEW p, Policy(p), NEW q \in Questions, NEW c \in q.text, Guarded(p, c), ~ Denied(judge(p, q).action)
  PROVE  \/ /\ ~ judge(p, q).unmaskable
            /\ judge(p, q).action = "Redact" /\ c \notin judge(p, q).sanitized
         \/ /\ judge(p, q).unmaskable /\ judge(p, q).action # "Redact"
            /\ q.kind = "inspect-file" /\ ~ q.plain
<1> DEFINE v == inspect(p, q.text)
           a == enforcement_action(p.unmaskable)
           u == q.kind = "inspect-file" /\ ~ q.plain /\ v.action = "Redact"
           x == IF ~ u THEN v.action ELSE IF a = "Redact" THEN "Block" ELSE a
<1>1. judge(p, q) = [kind |-> "scan", sanitized |-> v.sanitized, unmaskable |-> u, action |-> x]
  BY DEF judge
<1>2. judge(p, q).sanitized = v.sanitized /\ judge(p, q).unmaskable = u /\ judge(p, q).action = x
  BY <1>1
<1>3. CASE u
  <2>1. x # "Redact"
    BY <1>3
  <2> QED BY <1>2, <1>3, <2>1
<1>4. CASE ~ u
  <2>1. x = v.action
    BY <1>4
  <2>2. ~ Denied(inspect(p, q.text).action)
    BY <1>2, <2>1
  <2>3. v.action = "Redact" /\ c \notin v.sanitized
    BY <2>2, InspectGuards DEF Policy
  <2> QED BY <1>2, <1>4, <2>1, <2>3
<1> QED BY <1>3, <1>4

LEMMA BodyParts ==
  ASSUME NEW b \in Bodies
  PROVE  /\ b.parts \in Seq(Parts) /\ DOMAIN b.parts = 1 .. Len(b.parts) /\ Len(b.parts) \in Nat
         /\ \A k \in DOMAIN b.parts : b.parts[k] \in Parts
         /\ extractScannable(b) \subseteq DOMAIN b.parts
         /\ scanned_files(b) \subseteq DOMAIN b.parts
<1>1. b.parts \in Seq(Parts)
  BY DEF Bodies
<1>2. locations(b) \subseteq DOMAIN b.parts
  BY Zenon DEF locations
<1>3. extractScannable(b) \subseteq DOMAIN b.parts
  BY <1>2 DEF extractScannable
<1> QED BY <1>1, <1>3, LenProperties, ElementOfSeq DEF scanned_files

LEMMA TextOfTypes ==
  ASSUME NEW b \in Bodies, NEW S, S \subseteq DOMAIN b.parts
  PROVE  TextOf(b, S) \in SUBSET Categories
<1>1. \A k \in S : b.parts[k].text \in SUBSET Categories
  BY BodyParts DEF Parts
<1> QED BY <1>1 DEF TextOf

\* Two bodies that differ in the texts of their parts only.
SameForm(b, d) ==
  /\ d.form = b.form /\ DOMAIN d.parts = DOMAIN b.parts
  /\ \A k \in DOMAIN b.parts :
       /\ d.parts[k].content = b.parts[k].content /\ d.parts[k].top = b.parts[k].top
       /\ d.parts[k].plain = b.parts[k].plain /\ d.parts[k].fits = b.parts[k].fits

LEMMA SameFormSamePlaces ==
  ASSUME NEW b, NEW d, SameForm(b, d)
  PROVE  /\ locations(d) = locations(b) /\ extractScannable(d) = extractScannable(b)
         /\ scanned_files(d) = scanned_files(b)
<1>1. {k \in DOMAIN d.parts : d.parts[k].content} = {k \in DOMAIN b.parts : b.parts[k].content}
  BY DEF SameForm
<1>2. {k \in {j \in DOMAIN d.parts : d.parts[j].content} : d.parts[k].top}
        = {k \in {j \in DOMAIN b.parts : b.parts[j].content} : b.parts[k].top}
  BY DEF SameForm
<1>3. locations(d) = locations(b)
  BY <1>1, <1>2, Zenon DEF locations, SameForm
<1>4. scanned_files(d) = scanned_files(b)
  BY DEF scanned_files, SameForm
<1> QED BY <1>3, <1>4 DEF extractScannable, SameForm

\* One part with another text.
LEMMA PartReplaced ==
  ASSUME NEW x \in Parts, NEW T \in SUBSET Categories
  PROVE  /\ [x EXCEPT !.text = T] \in Parts /\ [x EXCEPT !.text = T].text = T
         /\ [x EXCEPT !.text = T].content = x.content /\ [x EXCEPT !.text = T].top = x.top
         /\ [x EXCEPT !.text = T].plain = x.plain /\ [x EXCEPT !.text = T].fits = x.fits
BY DEF Parts

LEMMA Redaction ==
  ASSUME NEW b \in Bodies, NEW T \in SUBSET Categories
  PROVE  /\ applyRedaction(b, T) \in Bodies /\ SameForm(b, applyRedaction(b, T))
         /\ wasRedactionApplied(b) => \A k \in extractScannable(b) : applyRedaction(b, T).parts[k].text = T
<1> DEFINE new == [k \in DOMAIN b.parts |->
                     IF k \in extractScannable(b) THEN [b.parts[k] EXCEPT !.text = T] ELSE b.parts[k]]
<1>1. CASE ~ wasRedactionApplied(b)
  <2>1. applyRedaction(b, T) = b
    BY <1>1, Zenon DEF applyRedaction, wasRedactionApplied
  <2> QED BY <1>1, <2>1 DEF SameForm
<1>2. CASE wasRedactionApplied(b)
  <2>1. applyRedaction(b, T) = [b EXCEPT !.parts = new]
    BY <1>2, Zenon DEF applyRedaction, wasRedactionApplied
  <2>2. DOMAIN new = DOMAIN b.parts
    OBVIOUS
  <2>3. ASSUME NEW k \in DOMAIN b.parts
        PROVE  /\ new[k] \in Parts
               /\ new[k].content = b.parts[k].content /\ new[k].top = b.parts[k].top
               /\ new[k].plain = b.parts[k].plain /\ new[k].fits = b.parts[k].fits
               /\ k \in extractScannable(b) => new[k].text = T
    <3>1. b.parts[k] \in Parts
      BY BodyParts
    <3>2. PICK x \in Parts : x = b.parts[k]
      BY <3>1
    <3>3. new[k] = IF k \in extractScannable(b) THEN [x EXCEPT !.text = T] ELSE x
      BY <3>2
    <3> QED BY <3>2, <3>3, PartReplaced, SMTT(60)
  <2>4. new \in Seq(Parts)
    <3>1. new \in [1 .. Len(b.parts) -> Parts] /\ Len(b.parts) \in Nat
      BY <2>3, BodyParts
    <3>2. \A n \in Nat : [1 .. n -> Parts] \subseteq Seq(Parts)
      BY SeqDef
    <3> HIDE DEF new
    <3> QED BY <3>1, <3>2
  <2> HIDE DEF new
  <2>5. [b EXCEPT !.parts = new] \in Bodies /\ [b EXCEPT !.parts = new].parts = new
        /\ [b EXCEPT !.parts = new].form = b.form
    BY <2>4 DEF Bodies
  <2> QED BY <2>1, <2>2, <2>3, <2>5, BodyParts DEF SameForm
<1> QED BY <1>1, <1>2

-----------------------------------------------------------------------------
(* One task *)

Steps == {"asking", "answered", "settling", "sent", "blocked", "over"}

Notices == {"", "block", "redact", "warn", "audit"}

Tasks(P) ==
  [kind : {"submit", "send"}, via : Vias, chat : BOOLEAN, body : Bodies, gone : SUBSET Nat, reply : Seq(Bodies),
   at : Nat, pc : Steps,
   id : Nat, result : Answers, toast : Notices, open : BOOLEAN, live : SUBSET P]

\* What a waiting task waits for a verdict on.
Due(t) ==
  IF t.reply = << >> THEN question(t)
  ELSE Q("inspect-response", TextOf(t.reply[1], extractScannable(t.reply[1])), TRUE)

\* An answer that a policy of the time gave to this question, or none.
Judged(v, q, L) == v = NullVerdict \/ \E p \in L : v = judge(p, q)

\* Guarded text of this part goes out only openly.
PartOpen(t, k) ==
  \A c \in t.body.parts[k].text :
    (\A p \in t.live : Guarded(p, c)) =>
      \/ t.open
      \/ t.toast \in {"warn", "audit"}
      \/ t.toast = "redact" /\ t.body.form = "form" /\ Cardinality(scanned_files(t.body)) > 1

Withheld(t) ==
  t.reply[1].parts # << >> =>
    \A k \in extractScannable(t.reply[1]) : \A c \in t.reply[1].parts[k].text :
      (\A p \in t.live : Guarded(p, c)) => t.open \/ t.toast = "warn"

OnePart(t) == t.body.form \in {"bytes", "text"} => Len(t.body.parts) = 1

\* A task that has a verdict on the place it has come to.
Passed(t) ==
  IF ByFile(t) THEN \A k \in scanned_files(t.body) : k <= t.at => PartOpen(t, k)
  ELSE t.at \in {0, 1} /\ (t.at = 1 /\ ~ Packed(t) => \A k \in extractScannable(t.body) : PartOpen(t, k))

\* A task that waits for one.
Underway(t) ==
  t.at \in places(t) /\ (ByFile(t) => \A k \in scanned_files(t.body) : k < t.at => PartOpen(t, k))

Sound(p, t) ==
  /\ t.pc \notin Settled => p \in t.live
  /\ t.pc = "asking" <=> t.id # 0
  /\ t.pc = "answered" => Judged(t.result, Due(t), t.live)
  /\ t.pc \in {"settling", "sent"} \/ t.kind = "submit" => t.reply = << >>
  /\ t.kind = "submit" => t.via = "composer" /\ t.body.form = "text"
  /\ OnePart(t)
  /\ t.pc \in {"asking", "answered"} /\ t.reply = << >> => Underway(t)
  /\ t.pc = "sent" => t.kind = "send" /\ \A k \in Looked(t) : PartOpen(t, k)
  /\ t.pc = "over" /\ t.reply # << >> => Withheld(t)

LEMMA SmallSets ==
  ASSUME NEW b \in Bodies
  PROVE  IsFiniteSet(scanned_files(b))
<1>1. IsFiniteSet(1 .. Len(b.parts))
  BY BodyParts, FS_Interval
<1> QED BY <1>1, BodyParts, FS_Subset

\* Two of them are more than one.
LEMMA TwoFiles ==
  ASSUME NEW b \in Bodies, NEW j \in scanned_files(b), NEW k \in scanned_files(b), j # k
  PROVE  Cardinality(scanned_files(b)) > 1
<1>1. IsFiniteSet(scanned_files(b)) /\ Cardinality(scanned_files(b)) \in Nat
  BY SmallSets, FS_CardinalityType
<1>2. Cardinality(scanned_files(b)) # 0
  BY <1>1, FS_EmptySet
<1>3. Cardinality(scanned_files(b)) # 1
  BY <1>1, FS_Singleton
<1> QED BY <1>1, <1>2, <1>3

LEMMA PlacesType ==
  ASSUME NEW P, NEW t \in Tasks(P)
  PROVE  /\ places(t) \subseteq Nat \ {0}
         /\ ByFile(t) => places(t) \subseteq scanned_files(t.body)
         /\ ~ ByFile(t) => places(t) \subseteq {1}
         /\ \A k \in places(t) : question([t EXCEPT !.at = k]) \in Questions
<1>1. t.body \in Bodies
  BY DEF Tasks
<1>2. ByFile(t) => places(t) \subseteq scanned_files(t.body)
  BY Zenon DEF places
<1>3. ~ ByFile(t) => places(t) \subseteq {1}
  BY Zenon DEF places
<1>4. scanned_files(t.body) \subseteq Nat \ {0}
  BY <1>1, BodyParts
<1>5. ASSUME NEW k \in places(t) PROVE question([t EXCEPT !.at = k]) \in Questions
  <2> DEFINE u == [t EXCEPT !.at = k]
  <2>1. u.body = t.body /\ u.via = t.via /\ u.at = k
    BY DEF Tasks
  <2>2. (ByFile(u) <=> ByFile(t)) /\ (Packed(u) <=> Packed(t))
    BY <2>1 DEF ByFile, Packed
  <2> HIDE DEF u
  <2>3. CASE ByFile(t)
    <3>1. t.body.parts[k] \in Parts
      BY <1>1, <1>2, <2>3, BodyParts
    <3> QED BY <2>1, <2>2, <2>3, <3>1 DEF question, Q, Questions, Parts, u
  <2>4. CASE ~ ByFile(t)
    <3>1. TextOf(t.body, extractScannable(t.body)) \in SUBSET Categories
      BY <1>1, BodyParts, TextOfTypes
    <3> QED BY <2>1, <2>2, <2>4, <3>1 DEF question, Q, Questions, u
  <2> QED BY <2>3, <2>4
<1> QED BY <1>2, <1>3, <1>4, <1>5

LEMMA DueType ==
  ASSUME NEW P, NEW t \in Tasks(P), t.reply = << >> => t.at \in places(t)
  PROVE  Due(t) \in Questions
<1>1. CASE t.reply = << >>
  <2>1. [t EXCEPT !.at = t.at] = t
    BY DEF Tasks
  <2> QED BY <1>1, <2>1, PlacesType DEF Due
<1>2. CASE t.reply # << >>
  <2>1. t.reply[1] \in Bodies
    <3>1. t.reply \in Seq(Bodies)
      BY DEF Tasks
    <3> QED BY <1>2, <3>1, EmptySeq, ElementOfSeq
  <2>2. TextOf(t.reply[1], extractScannable(t.reply[1])) \in SUBSET Categories
    BY <2>1, BodyParts, TextOfTypes
  <2> QED BY <1>2, <2>2 DEF Due, Q, Questions
<1> QED BY <1>1, <1>2

LEMMA JudgedType ==
  ASSUME NEW P, \A p \in P : Policy(p), NEW L \in SUBSET P, NEW q \in Questions, NEW v, Judged(v, q, L)
  PROVE  v \in Answers
BY JudgeTypes, NullIsAnswer DEF Judged

-----------------------------------------------------------------------------
(* The tasks, and the answers on their way to them *)

Mails == [id : Nat \ {0}, question : Questions, back : BOOLEAN, result : Answers]

Matches(m, t) ==
  m.id = t.id => m.question = Due(t) /\ (m.back => Judged(m.result, m.question, t.live))

\* The tasks ts outside H are sound under the policy p, those that wait have
\* ids of their own below n, and the answers of ml that reach them are theirs.
Tracked(P, p, ts, ml, n, H) ==
  /\ \A q \in P : Policy(q)
  /\ p \in P /\ n \in Nat \ {0}
  /\ ts \in Seq(Tasks(P)) /\ ml \subseteq Mails
  /\ \A m \in ml : m.id < n /\ (m.back \/ m.result = NullVerdict)
  /\ \A i \in DOMAIN ts \ H :
       /\ Sound(p, ts[i]) /\ ts[i].id < n
       /\ \A j \in DOMAIN ts \ H : ts[i].id = ts[j].id /\ ts[i].id # 0 => i = j
       /\ \A m \in ml : Matches(m, ts[i])

\* A task that waits for nothing takes the place left open.
LEMMA TrackedPut ==
  ASSUME NEW P, NEW p, NEW ts, NEW ml, NEW n, NEW i, i \in DOMAIN ts, Tracked(P, p, ts, ml, n, {i}),
         NEW t \in Tasks(P), Sound(p, t), t.id = 0
  PROVE  Tracked(P, p, [ts EXCEPT ![i] = t], ml, n, {})
<1> DEFINE us == [ts EXCEPT ![i] = t]
<1>1. us \in Seq(Tasks(P)) /\ DOMAIN us = DOMAIN ts /\ us[i] = t /\ \A j \in DOMAIN ts : j # i => us[j] = ts[j]
  BY LenProperties, ExceptSeq DEF Tracked
<1> HIDE DEF us
<1>2. \A m \in ml : m.id # 0
  BY DEF Tracked, Mails
<1>3. ASSUME NEW j \in DOMAIN us
      PROVE  /\ Sound(p, us[j]) /\ us[j].id < n
             /\ \A k \in DOMAIN us : us[j].id = us[k].id /\ us[j].id # 0 => j = k
             /\ \A m \in ml : Matches(m, us[j])
  <2>1. CASE j = i
    <3>1. us[j] = t /\ 0 < n
      BY <1>1, <2>1 DEF Tracked
    <3>2. \A m \in ml : Matches(m, t)
      BY <1>2 DEF Matches
    <3> QED BY <3>1, <3>2
  <2>2. CASE j # i
    <3>1. us[j] = ts[j] /\ j \in DOMAIN ts \ {i}
      BY <1>1, <2>2
    <3>2. \A k \in DOMAIN us : us[j].id = us[k].id /\ us[j].id # 0 => j = k
      BY <1>1, <3>1 DEF Tracked
    <3> QED BY <3>1, <3>2 DEF Tracked
  <2> QED BY <2>1, <2>2
<1>4. Tracked(P, p, us, ml, n, {})
  BY <1>1, <1>3 DEF Tracked
<1> QED BY <1>4 DEF us

\* So does one that asks with a fresh id.
LEMMA TrackedAsk ==
  ASSUME NEW P, NEW p, NEW ts, NEW ml, NEW n, NEW i, i \in DOMAIN ts, Tracked(P, p, ts, ml, n, {i}),
         NEW t \in Tasks(P), Sound(p, t), t.id = n,
         NEW m0 \in Mails, m0.id = n, m0.question = Due(t), ~ m0.back, m0.result = NullVerdict
  PROVE  Tracked(P, p, [ts EXCEPT ![i] = t], ml \cup {m0}, n + 1, {})
<1> DEFINE us == [ts EXCEPT ![i] = t]
<1>1. us \in Seq(Tasks(P)) /\ DOMAIN us = DOMAIN ts /\ us[i] = t /\ \A j \in DOMAIN ts : j # i => us[j] = ts[j]
  BY LenProperties, ExceptSeq DEF Tracked
<1> HIDE DEF us
<1>2. n \in Nat \ {0} /\ (\A m \in ml : m.id < n /\ m.id \in Nat)
  BY DEF Tracked, Mails
<1>0. \A j \in DOMAIN ts : ts[j].id \in Nat
  <2>1. \A j \in DOMAIN ts : ts[j] \in Tasks(P)
    BY LenProperties, ElementOfSeq DEF Tracked
  <2> QED BY <2>1 DEF Tasks
<1>3. ASSUME NEW j \in DOMAIN us
      PROVE  /\ Sound(p, us[j]) /\ us[j].id < n + 1
             /\ \A k \in DOMAIN us : us[j].id = us[k].id /\ us[j].id # 0 => j = k
             /\ \A m \in ml \cup {m0} : Matches(m, us[j])
  <2>0. \A k \in DOMAIN us : k # i => us[k] = ts[k] /\ ts[k].id < n
    BY <1>1 DEF Tracked
  <2>1. CASE j = i
    <3>1. us[j] = t /\ n < n + 1
      BY <1>1, <1>2, <2>1
    <3>2. \A m \in ml \cup {m0} : Matches(m, t)
      BY <1>2 DEF Matches
    <3>3. \A k \in DOMAIN us : us[j].id = us[k].id => j = k
      BY <1>0, <1>1, <1>2, <2>0, <2>1, <3>1
    <3> QED BY <1>2, <3>1, <3>2, <3>3
  <2>2. CASE j # i
    <3>1. us[j] = ts[j] /\ j \in DOMAIN ts \ {i} /\ us[j].id < n /\ us[j].id \in Nat
      BY <1>0, <1>1, <2>0, <2>2
    <3>2. \A k \in DOMAIN us : us[j].id = us[k].id /\ us[j].id # 0 => j = k
      BY <1>1, <1>2, <2>2, <3>1 DEF Tracked
    <3>3. \A m \in ml \cup {m0} : Matches(m, us[j])
      BY <1>2, <3>1 DEF Tracked, Matches
    <3> QED BY <1>2, <3>1, <3>2, <3>3 DEF Tracked
  <2> QED BY <2>1, <2>2
<1>4. /\ ml \cup {m0} \subseteq Mails /\ n + 1 \in Nat \ {0}
      /\ \A m \in ml \cup {m0} : m.id < n + 1 /\ (m.back \/ m.result = NullVerdict)
  BY <1>2 DEF Tracked
<1>5. Tracked(P, p, us, ml \cup {m0}, n + 1, {})
  BY <1>1, <1>3, <1>4 DEF Tracked
<1> QED BY <1>5 DEF us

LEMMA TrackedHole ==
  ASSUME NEW P, NEW p, NEW ts, NEW ml, NEW n, NEW i, Tracked(P, p, ts, ml, n, {})
  PROVE  Tracked(P, p, ts, ml, n, {i})
BY DEF Tracked

LEMMA TrackedAppend ==
  ASSUME NEW P, NEW p, NEW ts, NEW ml, NEW n, NEW t \in Tasks(P), Tracked(P, p, ts, ml, n, {})
  PROVE  /\ Tracked(P, p, Append(ts, t), ml, n, {Len(ts) + 1})
         /\ Len(ts) + 1 \in DOMAIN Append(ts, t)
<1>1. ts \in Seq(Tasks(P)) /\ Len(ts) \in Nat
  BY DEF Tracked
<1> DEFINE us == Append(ts, t)
<1>2. /\ us \in Seq(Tasks(P)) /\ DOMAIN us = 1 .. (Len(ts) + 1) /\ DOMAIN ts = 1 .. Len(ts)
      /\ \A j \in DOMAIN us : j # Len(ts) + 1 => j \in DOMAIN ts /\ us[j] = ts[j]
  BY <1>1, AppendProperties, LenProperties
<1> HIDE DEF us
<1>3. ASSUME NEW j \in DOMAIN us \ {Len(ts) + 1}
      PROVE  /\ Sound(p, us[j]) /\ us[j].id < n
             /\ \A k \in DOMAIN us \ {Len(ts) + 1} : us[j].id = us[k].id /\ us[j].id # 0 => j = k
             /\ \A m \in ml : Matches(m, us[j])
  BY <1>2 DEF Tracked
<1>4. Tracked(P, p, us, ml, n, {Len(ts) + 1})
  BY <1>2, <1>3 DEF Tracked
<1> QED BY <1>1, <1>2, <1>4 DEF us

\* What is said of a task depends on these of its fields.
LEMMA SameTask ==
  ASSUME NEW t, NEW u, u.body = t.body, u.via = t.via
  PROVE  /\ ByFile(u) <=> ByFile(t)
         /\ places(u) = places(t) /\ Looked(u) = Looked(t) /\ OnePart(u) = OnePart(t)
         /\ u.at = t.at => question(u) = question(t)
<1>1. (ByFile(u) <=> ByFile(t)) /\ (Packed(u) <=> Packed(t)) /\ (Unseen(u) <=> Unseen(t))
  BY DEF ByFile, Packed, Unseen
<1>2. places(u) = places(t)
  BY <1>1, Zenon DEF places
<1>3. Looked(u) = Looked(t)
  BY <1>1, <1>2, Zenon DEF Looked
<1>4. u.at = t.at => question(u) = question(t)
  BY <1>1, Zenon DEF question
<1> QED BY <1>1, <1>2, <1>3, <1>4 DEF OnePart

LEMMA SameOpen ==
  ASSUME NEW t, NEW u, u.body = t.body, u.open = t.open, u.toast = t.toast, u.live = t.live, NEW k, PartOpen(t, k)
  PROVE  PartOpen(u, k)
BY DEF PartOpen

\* Policies that join while it is under way only weaken what must hold.
LEMMA MoreLiveOpen ==
  ASSUME NEW t, NEW u, u.body = t.body, t.open => u.open, u.toast = t.toast, t.live \subseteq u.live,
         NEW k, PartOpen(t, k)
  PROVE  PartOpen(u, k)
BY DEF PartOpen

LEMMA AllFiles ==
  ASSUME NEW t, ByFile(t), places(t) # {}
  PROVE  places(t) = scanned_files(t.body)
BY Zenon DEF places

\* The same tasks, further on.
SameKinds(ts, us) ==
  /\ DOMAIN us = DOMAIN ts /\ Len(us) = Len(ts)
  /\ \A j \in DOMAIN ts :
       /\ us[j].kind = ts[j].kind /\ (us[j].chat <=> ts[j].chat)
       /\ ts[j].pc = "over" => us[j].pc = "over"

LEMMA Replaced ==
  ASSUME NEW P, NEW ts \in Seq(Tasks(P)), NEW i \in DOMAIN ts, ts[i].pc # "over",
         NEW u \in Tasks(P), u.kind = ts[i].kind, u.chat <=> ts[i].chat
  PROVE  SameKinds(ts, [ts EXCEPT ![i] = u])
<1> DEFINE us == [ts EXCEPT ![i] = u]
<1>1. /\ DOMAIN us = DOMAIN ts /\ Len(us) = Len(ts)
      /\ us[i] = u /\ \A j \in DOMAIN ts : j # i => us[j] = ts[j]
  BY ExceptSeq, LenProperties
<1> HIDE DEF us
<1>2. SameKinds(ts, us)
  BY <1>1 DEF SameKinds
<1> QED BY <1>2 DEF us

\* A task that has passed all it has come to goes on to its next question, or
\* is sent.
LEMMA AdvanceTracked ==
  ASSUME NEW P, NEW ts, NEW i, i \in DOMAIN ts, NEW t \in Tasks(P),
         Tracked(P, policy, ts, mail, ids, {i}), Advance(ts, i, t),
         policy \in t.live, t.reply = << >>, t.id = 0, OnePart(t), Passed(t),
         t.kind = "submit" => t.via = "composer" /\ t.body.form = "text" /\ 1 \in places(t) /\ t.at = 0,
         ts[i].kind = t.kind, ts[i].chat <=> t.chat, ts[i].pc # "over"
  PROVE  Tracked(P, policy, tasks', mail', ids', {}) /\ SameKinds(ts, tasks')
<1>7. ts \in Seq(Tasks(P))
  BY DEF Tracked
<1> DEFINE ahead == {k \in places(t) : k > t.at}
<1>0. t.at \in Nat /\ places(t) \subseteq Nat \ {0}
  BY PlacesType DEF Tasks
<1>1. CASE ahead = {} /\ Put(ts, i, [t EXCEPT !.pc = "sent"])
  <2> DEFINE u == [t EXCEPT !.pc = "sent"]
  <2>1. /\ u \in Tasks(P) /\ (u.chat <=> t.chat)
        /\ u.pc = "sent" /\ u.id = 0 /\ u.reply = << >> /\ u.kind = t.kind
        /\ u.body = t.body /\ u.via = t.via /\ u.open = t.open /\ u.toast = t.toast /\ u.live = t.live
    BY DEF Tasks, Steps
  <2>2. t.kind = "send"
    <3>1. t.kind # "submit"
      BY <1>1
    <3> QED BY <3>1 DEF Tasks
  <2>3. ASSUME NEW k \in Looked(t) PROVE PartOpen(t, k)
    <3>1. CASE ByFile(t)
      <4>1. places(t) = scanned_files(t.body) /\ k \in scanned_files(t.body)
        BY <2>3, <3>1, AllFiles, Zenon DEF Looked
      <4>2. k <= t.at
        BY <1>0, <1>1, <4>1
      <4> QED BY <3>1, <4>1, <4>2 DEF Passed
    <3>2. CASE ~ ByFile(t)
      <4>1. places(t) # {} /\ ~ Packed(t) /\ k \in extractScannable(t.body)
        BY <2>3, <3>2, Zenon DEF Looked
      <4>2. places(t) = {1}
        BY <3>2, <4>1, PlacesType
      <4>3. t.at = 1
        BY <1>0, <1>1, <4>2, <3>2 DEF Passed
      <4> QED BY <3>2, <4>1, <4>3 DEF Passed
    <3> QED BY <3>1, <3>2
  <2> HIDE DEF u
  <2>4. Looked(u) = Looked(t) /\ OnePart(u)
    BY <2>1, SameTask
  <2>5. \A k \in Looked(u) : PartOpen(u, k)
    BY <2>1, <2>3, <2>4, SameOpen
  <2>6. Sound(policy, u)
    BY <2>1, <2>2, <2>4, <2>5 DEF Sound, Settled
  <2>7. tasks' = [ts EXCEPT ![i] = u] /\ mail' = mail /\ ids' = ids
    BY <1>1 DEF Put, u
  <2>8. Tracked(P, policy, [ts EXCEPT ![i] = u], mail, ids, {})
    BY <2>1, <2>6, TrackedPut
  <2>9. SameKinds(ts, [ts EXCEPT ![i] = u])
    BY <1>7, <2>1, Replaced
  <2> QED BY <2>7, <2>8, <2>9
<1>2. ASSUME NEW k \in ahead, \A j \in ahead : k <= j,
             Ask(ts, i, [t EXCEPT !.at = k], question([t EXCEPT !.at = k]))
      PROVE  Tracked(P, policy, tasks', mail', ids', {}) /\ SameKinds(ts, tasks')
  <2> DEFINE w == [t EXCEPT !.at = k]
             u == [w EXCEPT !.pc = "asking", !.id = ids]
             m0 == [id |-> ids, question |-> question(w), back |-> FALSE, result |-> NullVerdict]
  <2>0. ids \in Nat \ {0}
    BY DEF Tracked
  <2>1. k \in places(t) /\ k \in Nat
    BY <1>0
  <2>2. /\ w \in Tasks(P) /\ (w.chat <=> t.chat) /\ w.at = k /\ w.reply = << >> /\ w.kind = t.kind
        /\ w.body = t.body /\ w.via = t.via /\ w.open = t.open /\ w.toast = t.toast /\ w.live = t.live
    BY <2>1 DEF Tasks
  <2>3. question(w) \in Questions
    BY <2>1, PlacesType
  <2> HIDE DEF w
  <2>4. /\ u \in Tasks(P) /\ (u.chat <=> t.chat)
        /\ u.pc = "asking" /\ u.id = ids /\ u.reply = << >> /\ u.kind = t.kind /\ u.at = k
        /\ u.body = t.body /\ u.via = t.via /\ u.open = t.open /\ u.toast = t.toast /\ u.live = t.live
    BY <2>0, <2>2 DEF Tasks, Steps
  <2> HIDE DEF u
  <2>5. /\ places(u) = places(t) /\ OnePart(u) /\ (ByFile(u) <=> ByFile(t))
        /\ question(u) = question(w)
    BY <2>2, <2>4, SameTask
  <2>6. Underway(u)
    <3>1. ASSUME ByFile(u), NEW j \in scanned_files(u.body), j < u.at PROVE PartOpen(u, j)
      <4>1. j \in places(t)
        BY <2>1, <2>4, <2>5, <3>1, AllFiles
      <4>2. ~ (j > t.at)
        BY <1>0, <1>2, <2>1, <2>4, <3>1, <4>1
      <4>3. j <= t.at
        BY <1>0, <4>1, <4>2
      <4>4. PartOpen(t, j)
        BY <2>4, <2>5, <3>1, <4>3 DEF Passed
      <4> QED BY <2>4, <4>4, SameOpen
    <3> QED BY <2>1, <2>4, <2>5, <3>1 DEF Underway
  <2>7. Sound(policy, u)
    BY <2>0, <2>4, <2>5, <2>6 DEF Sound, Settled
  <2>8. m0 \in Mails /\ m0.id = ids /\ m0.question = Due(u) /\ ~ m0.back /\ m0.result = NullVerdict
    BY <2>0, <2>3, <2>4, <2>5, NullIsAnswer DEF Mails, Due
  <2>9. tasks' = [ts EXCEPT ![i] = u] /\ mail' = mail \cup {m0} /\ ids' = ids + 1
    BY <1>2 DEF Ask, u, w
  <2> HIDE DEF m0
  <2>10. Tracked(P, policy, [ts EXCEPT ![i] = u], mail \cup {m0}, ids + 1, {})
    BY <2>4, <2>7, <2>8, TrackedAsk
  <2>11. SameKinds(ts, [ts EXCEPT ![i] = u])
    BY <1>7, <2>4, Replaced
  <2> QED BY <2>9, <2>10, <2>11
<1> QED BY <1>1, <1>2 DEF Advance

-----------------------------------------------------------------------------
(* Bodies that passed *)

LEMMA JudgeShrinks ==
  ASSUME NEW p, NEW q
  PROVE  judge(p, q).sanitized \subseteq q.text
<1>1. judge(p, q).sanitized = inspect(p, q.text).sanitized
  BY DEF judge
<1> QED BY <1>1 DEF inspect

\* What the user is told of a verdict that does not stop anything.
LEMMA Toasts ==
  ASSUME NEW v
  PROVE  /\ verdictOutcome(v).redact <=> v.action = "Redact"
         /\ verdictOutcome(v).toast \in {"", "block", "redact", "warn", "audit"}
         /\ ~ verdictOutcome(v).stop => verdictOutcome(v).toast # "block"
         /\ v.action # "Redact" => verdictOutcome(v).toast # "redact"
         /\ v.action = "Redact" => verdictOutcome(v).toast = "redact"
<1> DEFINE toast == CASE v.action \in {"Block", "RequireApproval"} -> "block"
                      [] v.action = "Redact" -> "redact"
                      [] v.action = "Warn" -> "warn"
                      [] v.action = "Audit" -> "audit"
                      [] OTHER -> ""
<1>1. /\ verdictOutcome(v).toast = toast
      /\ verdictOutcome(v).stop <=> v.action \in {"Block", "RequireApproval"}
      /\ verdictOutcome(v).redact <=> v.action = "Redact"
  BY DEF verdictOutcome
<1>2. CASE v.action \in {"Block", "RequireApproval"}
  BY <1>1, <1>2
<1>3. CASE v.action = "Redact"
  BY <1>1, <1>3
<1>4. CASE v.action = "Warn"
  BY <1>1, <1>4
<1>5. CASE v.action = "Audit"
  BY <1>1, <1>5
<1>6. CASE v.action \notin {"Block", "RequireApproval", "Redact", "Warn", "Audit"}
  BY <1>1, <1>6
<1> QED BY <1>2, <1>3, <1>4, <1>5, <1>6

LEMMA FileToasts ==
  ASSUME NEW v, ~ verdictOutcome(v).stop
  PROVE  /\ file_toast(v) \in {"", "redact", "warn", "audit"}
         /\ v.unmaskable /\ v.action # "Redact" => file_toast(v) \in {"warn", "audit"}
BY Toasts DEF file_toast

\* What a verdict on a file leaves of its task.
LEMMA FilePasses ==
  ASSUME NEW P, \A p \in P : Policy(p), NEW t \in Tasks(P), ByFile(t), Underway(t), OnePart(t),
         Judged(t.result, question(t), t.live), t.result.kind = "null" => t.open,
         ~ verdictOutcome(t.result).stop
  PROVE  /\ file_answered(t) \in Tasks(P) /\ SameForm(t.body, file_answered(t).body)
         /\ Passed(file_answered(t))
         /\ \A f \in {"kind", "via", "chat", "reply", "at", "pc", "id", "open", "live"} : file_answered(t)[f] = t[f]
<1> DEFINE v == t.result
           k == t.at
           T == IF v.action = "Redact" THEN v.sanitized ELSE t.body.parts[k].text
           x == [t.body.parts[k] EXCEPT !.text = T]
           ps == [t.body.parts EXCEPT ![k] = x]
           b == [t.body EXCEPT !.parts = ps]
           toast == IF file_toast(v) = "" THEN t.toast ELSE file_toast(v)
           gone == IF v.action = "Redact" THEN parts_replaced(t) ELSE t.gone
           u == file_answered(t)
<1>1. t.body \in Bodies /\ t.live \in SUBSET P /\ v \in Answers /\ t.toast \in Notices /\ k \in Nat /\ t.gone \in SUBSET Nat
  BY DEF Tasks
<1>2. k \in scanned_files(t.body) /\ k \in DOMAIN t.body.parts /\ t.body.parts[k] \in Parts
  BY <1>1, PlacesType, BodyParts DEF Underway
<1>3. T \in SUBSET Categories
  BY <1>1, <1>2 DEF Answers, Parts
<1>4. x \in Parts /\ x.text = T /\ x.content = t.body.parts[k].content /\ x.top = t.body.parts[k].top
      /\ x.plain = t.body.parts[k].plain /\ x.fits = t.body.parts[k].fits
  <2> HIDE DEF T
  <2> QED BY <1>2, <1>3, PartReplaced, ZenonT(60)
<1>5. ps \in Seq(Parts) /\ DOMAIN ps = DOMAIN t.body.parts /\ ps[k] = x
      /\ \A j \in DOMAIN ps : j # k => ps[j] = t.body.parts[j]
  <2> HIDE DEF x
  <2> QED BY <1>1, <1>2, <1>4, BodyParts, ExceptSeq, LenProperties
<1>6. b \in Bodies /\ b.parts = ps /\ b.form = t.body.form
  <2> HIDE DEF ps
  <2> QED BY <1>1, <1>5 DEF Bodies
<1>7. SameForm(t.body, b)
  <2> HIDE DEF b, ps, x
  <2> QED BY <1>4, <1>5, <1>6 DEF SameForm
<1>8. toast \in Notices
  <2>1. CASE file_toast(v) = ""
    BY <1>1, <2>1
  <2>2. CASE file_toast(v) # ""
    <3>1. file_toast(v) \in {"redact", "warn", "audit"}
      BY <2>2, FileToasts
    <3> QED BY <2>2, <3>1 DEF Notices
  <2> QED BY <2>1, <2>2
<1>14. gone \in SUBSET Nat
  <2>1. parts_replaced(t) \in SUBSET Nat
    BY <1>1, BodyParts DEF parts_replaced
  <2> QED BY <1>1, <2>1
<1>9. u = [t EXCEPT !.toast = toast, !.gone = gone, !.body = b]
  BY DEF file_answered, Tasks
<1>10. /\ u \in Tasks(P) /\ u.body = b /\ u.toast = toast
       /\ u.open = t.open /\ u.live = t.live /\ u.at = k
       /\ \A f \in {"kind", "via", "chat", "reply", "at", "pc", "id", "open", "live"} : u[f] = t[f]
  <2> HIDE DEF b, toast, gone, u
  <2>1. u \in Tasks(P)
    BY <1>6, <1>8, <1>9, <1>14 DEF Tasks
  <2>2. u.body = b /\ u.toast = toast
    BY <1>9 DEF Tasks
  <2>3. \A f \in {"kind", "via", "chat", "reply", "at", "pc", "id", "open", "live"} : u[f] = t[f]
    BY <1>9 DEF Tasks
  <2> QED BY <2>1, <2>2, <2>3
<1> HIDE DEF u
<1>11. /\ scanned_files(b) = scanned_files(t.body)
       /\ ByFile(u)
  BY <1>6, <1>7, <1>10, SameFormSamePlaces, ZenonT(60) DEF ByFile
<1>12. ASSUME NEW j \in scanned_files(u.body), j <= u.at PROVE PartOpen(u, j)
  <2>1. CASE j = k
    <3> SUFFICES ASSUME NEW c \in T, \A p \in t.live : Guarded(p, c), ~ t.open
                 PROVE  toast \in {"warn", "audit"}
      <4>1. u.body.parts[j].text = T /\ u.toast = toast /\ u.open = t.open /\ u.live = t.live
        <5> HIDE DEF b, ps, x, T, toast, k
        <5> QED BY <1>4, <1>5, <1>6, <1>10, <2>1
      <4> HIDE DEF T, toast
      <4> QED BY <4>1 DEF PartOpen
    <3>1. PICK p \in t.live : v = judge(p, question(t))
      <4>1. v # NullVerdict
        BY DEF NullVerdict
      <4> QED BY <4>1 DEF Judged
    <3>2. question(t) = Q("inspect-file", t.body.parts[k].text, t.body.parts[k].plain \/ t.body.form = "text")
      BY DEF question
    <3>3. question(t) \in Questions /\ question(t).text = t.body.parts[k].text
      BY <1>2, <3>2 DEF Q, Questions, Parts
    <3>4. c \in question(t).text
      BY <3>1, <3>3, JudgeShrinks
    <3>5. ~ Denied(v.action) /\ Policy(p)
      BY <1>1, StopIsDenial
    <3>6. v.unmaskable /\ v.action # "Redact"
      BY <3>1, <3>3, <3>4, <3>5, JudgeGuards
    <3> QED BY <3>6, FileToasts
  <2>2. CASE j # k
    <3>1. j \in scanned_files(t.body) /\ j < k /\ j \in DOMAIN t.body.parts
      <4>1. j \in scanned_files(t.body) /\ j <= k
        <5> HIDE DEF b, k
        <5> QED BY <1>10, <1>11, <1>12
      <4>2. j \in DOMAIN t.body.parts /\ j \in Nat
        BY <1>1, <4>1, BodyParts
      <4> QED BY <1>1, <2>2, <4>1, <4>2
    <3>2. PartOpen(t, j)
      BY <3>1 DEF Underway
    <3>3. /\ u.body.parts[j] = t.body.parts[j] /\ u.body.form = t.body.form
          /\ scanned_files(u.body) = scanned_files(t.body)
      <4> HIDE DEF b, ps, k
      <4> QED BY <1>5, <1>6, <1>10, <1>11, <2>2, <3>1
    <3>4. Cardinality(scanned_files(u.body)) > 1
      BY <1>1, <1>2, <2>2, <3>1, <3>3, TwoFiles
    <3>5. u.body.form = "form"
      <4>1. DOMAIN t.body.parts = 1 .. Len(t.body.parts) /\ j \in DOMAIN t.body.parts /\ Len(t.body.parts) \in Nat
        BY <1>1, <3>1, BodyParts
      <4>2. Len(t.body.parts) # 1
        BY <1>1, <1>2, <3>1, <4>1
      <4> QED BY <3>3, <4>2 DEF OnePart, ByFile
    <3>6. CASE file_toast(v) = ""
      <4>1. toast = t.toast
        BY <3>6
      <4> QED BY <1>10, <3>2, <3>3, <4>1 DEF PartOpen
    <3>7. CASE file_toast(v) # ""
      <4>1. toast \in {"redact", "warn", "audit"}
        BY <3>7, FileToasts
      <4> QED BY <1>10, <3>4, <3>5, <4>1 DEF PartOpen
    <3> QED BY <3>6, <3>7
  <2> QED BY <2>1, <2>2
<1>13. Passed(u)
  BY <1>11, <1>12 DEF Passed
<1> QED BY <1>7, <1>10, <1>13 DEF u

\* What a verdict on a text leaves of its task.
LEMMA TextPasses ==
  ASSUME NEW P, \A p \in P : Policy(p), NEW t \in Tasks(P), ~ ByFile(t), ~ Packed(t), Underway(t),
         Judged(t.result, question(t), t.live), t.result.kind = "null" => t.open,
         ~ verdictOutcome(t.result).stop
  PROVE  /\ text_answered(t) \in Tasks(P) /\ SameForm(t.body, text_answered(t).body)
         /\ Passed(text_answered(t))
         /\ \A f \in {"kind", "via", "chat", "reply", "at", "pc", "id", "open", "live"} : text_answered(t)[f] = t[f]
<1> DEFINE v == t.result
           u == text_answered(t)
           b == IF v.action = "Redact" THEN applyRedaction(t.body, v.sanitized) ELSE t.body
           o == verdictOutcome(v)
           toast == IF v.action = "Redact" THEN IF wasRedactionApplied(t.body) THEN "redact" ELSE "warn"
                    ELSE IF o.toast = "" THEN t.toast ELSE o.toast
<1>1. /\ t.body \in Bodies /\ t.live \in SUBSET P /\ v \in Answers /\ t.toast \in Notices
      /\ v.sanitized \in SUBSET Categories
  BY DEF Tasks, Answers
<1>2. u = [t EXCEPT !.body = b, !.toast = toast]
  <2>1. o.redact <=> v.action = "Redact"
    BY Toasts
  <2>2. CASE v.action = "Redact"
    BY <2>1, <2>2 DEF text_answered
  <2>3. CASE v.action # "Redact"
    <3>1. u = [t EXCEPT !.toast = toast] /\ b = t.body
      BY <2>1, <2>3 DEF text_answered
    <3> HIDE DEF u, b, toast, v
    <3>2. [t EXCEPT !.body = t.body, !.toast = toast] = [t EXCEPT !.toast = toast]
      BY DEF Tasks
    <3> QED BY <3>1, <3>2
  <2> QED BY <2>2, <2>3
<1>3. b \in Bodies /\ SameForm(t.body, b)
  <2>1. SameForm(t.body, t.body)
    BY DEF SameForm
  <2> QED BY <1>1, <2>1, Redaction
<1>4. toast \in Notices
  <2>1. o.toast \in {"", "block", "redact", "warn", "audit"}
    BY Toasts
  <2>2. CASE v.action = "Redact"
    BY <2>2 DEF Notices
  <2>3. CASE v.action # "Redact"
    BY <1>1, <2>1, <2>3 DEF Notices
  <2> QED BY <2>2, <2>3
<1>5. /\ u \in Tasks(P) /\ u.body = b /\ u.toast = toast
      /\ \A f \in {"kind", "via", "chat", "reply", "at", "pc", "id", "open", "live"} : u[f] = t[f]
  <2> HIDE DEF b, toast, u
  <2>1. u \in Tasks(P)
    BY <1>2, <1>3, <1>4 DEF Tasks
  <2>2. u.body = b /\ u.toast = toast
    BY <1>2 DEF Tasks
  <2>3. \A f \in {"kind", "via", "chat", "reply", "at", "pc", "id", "open", "live"} : u[f] = t[f]
    BY <1>2 DEF Tasks
  <2> QED BY <2>1, <2>2, <2>3
<1> HIDE DEF u
<1>6. extractScannable(b) = extractScannable(t.body) /\ ~ ByFile(u)
  BY <1>3, <1>5, SameFormSamePlaces, ZenonT(60) DEF ByFile, SameForm
<1>7. t.at = 1 /\ u.at = 1
  BY <1>5, PlacesType DEF Underway
<1>8. ASSUME NEW k \in extractScannable(t.body) PROVE PartOpen(u, k)
  <2> SUFFICES ASSUME NEW c \in b.parts[k].text, \A p \in t.live : Guarded(p, c), ~ t.open
               PROVE  toast \in {"warn", "audit"}
    BY <1>5 DEF PartOpen
  <2>1. PICK p \in t.live : v = judge(p, question(t))
    <3>1. v # NullVerdict
      BY DEF NullVerdict
    <3> QED BY <3>1 DEF Judged
  <2>2. question(t) = Q("inspect", TextOf(t.body, extractScannable(t.body)), TRUE)
    BY DEF question
  <2>3. /\ question(t) \in Questions /\ question(t).kind = "inspect"
        /\ question(t).text = TextOf(t.body, extractScannable(t.body))
    <3>1. TextOf(t.body, extractScannable(t.body)) \in SUBSET Categories
      BY <1>1, BodyParts, TextOfTypes
    <3> QED BY <2>2, <3>1 DEF Q, Questions
  <2>4. ~ Denied(v.action) /\ Policy(p)
    BY <1>1, StopIsDenial
  <2>5. c \in question(t).text => v.action = "Redact" /\ c \notin v.sanitized
    BY <2>1, <2>3, <2>4, JudgeGuards
  <2>6. CASE v.action = "Redact" /\ wasRedactionApplied(t.body)
    <3>1. b.parts[k].text = v.sanitized
      BY <1>1, <2>6, Redaction
    <3> QED BY <2>1, <2>5, <3>1, JudgeShrinks
  <2>7. CASE v.action = "Redact" /\ ~ wasRedactionApplied(t.body)
    BY <2>7
  <2>8. CASE v.action # "Redact"
    <3>1. c \in t.body.parts[k].text
      BY <2>8
    <3>2. c \in question(t).text
      BY <2>3, <3>1 DEF TextOf
    <3> QED BY <2>5, <2>8, <3>2
  <2> QED BY <2>6, <2>7, <2>8
<1>9. Passed(u)
  BY <1>5, <1>6, <1>7, <1>8 DEF Passed
<1> QED BY <1>3, <1>5, <1>9 DEF u

-----------------------------------------------------------------------------
(* The steps of the page, and those of the Agent *)

TasksInv ==
  /\ work \in Workloads
  /\ composer \in Seq(SUBSET Categories)
  /\ Tracked(work.policies, policy, tasks, mail, ids, {})

LEMMA InitTasks == Init => TasksInv
<1> SUFFICES ASSUME Init PROVE TasksInv
  OBVIOUS
<1>1. work \in Workloads /\ composer = << >> /\ policy \in work.policies /\ tasks = << >> /\ mail = {} /\ ids = 1
  BY DEF Init
<1>2. \A q \in work.policies : Policy(q)
  BY <1>1, WorkloadsAssumption DEF Policy
<1>3. tasks \in Seq(Tasks(work.policies)) /\ DOMAIN tasks = {} /\ composer \in Seq(SUBSET Categories)
  BY <1>1, EmptySeq, LenProperties
<1> QED BY <1>1, <1>2, <1>3 DEF TasksInv, Tracked

\* The page's tasks and their answers as they were, or as the Agent changed
\* them on the way.
LEMMA TrackedMail ==
  ASSUME NEW P, NEW p, NEW ts, NEW ml, NEW n, Tracked(P, p, ts, ml, n, {}),
         NEW ml2, ml2 \subseteq Mails, \A m2 \in ml2 : m2.back \/ m2.result = NullVerdict,
         \A m2 \in ml2 : \E m \in ml :
           /\ m2.id = m.id /\ m2.question = m.question
           /\ m2.back => m = m2 \/ m2.result = NullVerdict \/ m2.result = judge(p, m.question)
  PROVE  Tracked(P, p, ts, ml2, n, {})
<1>1. ASSUME NEW i \in DOMAIN ts, NEW m2 \in ml2 PROVE Matches(m2, ts[i])
  <2>1. PICK m \in ml : /\ m2.id = m.id /\ m2.question = m.question
                        /\ m2.back => m = m2 \/ m2.result = NullVerdict \/ m2.result = judge(p, m.question)
    OBVIOUS
  <2>2. Matches(m, ts[i]) /\ Sound(p, ts[i])
    BY DEF Tracked
  <2>3. SUFFICES ASSUME m2.id = ts[i].id
                 PROVE  m2.question = Due(ts[i]) /\ (m2.back => Judged(m2.result, m2.question, ts[i].live))
    BY DEF Matches
  <2>4. p \in ts[i].live
    <3>1. ts[i].id # 0
      BY <2>3 DEF Mails
    <3> QED BY <2>2, <3>1 DEF Sound, Settled
  <2>5. m.question = Due(ts[i]) /\ (m.back => Judged(m.result, m.question, ts[i].live))
    BY <2>1, <2>2, <2>3 DEF Matches
  <2> QED BY <2>1, <2>4, <2>5 DEF Judged
<1>2. \A m \in ml2 : m.id < n /\ (m.back \/ m.result = NullVerdict)
  BY DEF Tracked
<1> QED BY <1>1, <1>2 DEF Tracked

LEMMA AnsweredSound ==
  ASSUME NEW P, NEW p, NEW t \in Tasks(P), Sound(p, t), t.pc = "asking",
         NEW v \in Answers, Judged(v, Due(t), t.live)
  PROVE  Answered(t, v) \in Tasks(P) /\ Sound(p, Answered(t, v)) /\ Answered(t, v).id = 0
<1> DEFINE u == Answered(t, v)
<1>1. /\ u \in Tasks(P) /\ u.pc = "answered" /\ u.id = 0 /\ u.result = v
      /\ u.kind = t.kind /\ u.via = t.via /\ u.body = t.body /\ u.reply = t.reply /\ u.at = t.at
      /\ u.open = t.open /\ u.toast = t.toast /\ u.live = t.live
  BY DEF Answered, Tasks, Steps
<1> HIDE DEF u
<1>2. /\ places(u) = places(t) /\ OnePart(u) = OnePart(t) /\ question(u) = question(t)
      /\ ByFile(u) <=> ByFile(t)
  BY <1>1, SameTask
<1>3. Due(u) = Due(t)
  BY <1>1, <1>2 DEF Due
<1>4. Underway(t) => Underway(u)
  BY <1>1, <1>2, SameOpen DEF Underway
<1>5. Sound(p, u)
  BY <1>1, <1>2, <1>3, <1>4 DEF Sound, Settled
<1> QED BY <1>1, <1>5 DEF u

\* One task in the place of another, with nothing new in the mail.
LEMMA PutTracked ==
  ASSUME NEW P, NEW p, NEW ts, NEW ml, NEW n, NEW i \in DOMAIN ts, Tracked(P, p, ts, ml, n, {}),
         NEW t \in Tasks(P), Sound(p, t), t.id = 0
  PROVE  Tracked(P, p, [ts EXCEPT ![i] = t], ml, n, {})
BY TrackedHole, TrackedPut

LEMMA TaskType ==
  ASSUME NEW P, NEW p, NEW ts, NEW ml, NEW n, NEW i \in DOMAIN ts, Tracked(P, p, ts, ml, n, {})
  PROVE  ts[i] \in Tasks(P) /\ Sound(p, ts[i])
BY LenProperties, ElementOfSeq DEF Tracked

LEMMA TimeoutTracked ==
  ASSUME TasksInv, NEW i \in DOMAIN tasks, Timeout(i)
  PROVE  TasksInv' /\ SameKinds(tasks, tasks')
<1>1. PICK t : t = tasks[i]
  OBVIOUS
<1>2. t \in Tasks(work.policies) /\ Sound(policy, t) /\ t.pc = "asking"
  BY <1>1, TaskType DEF TasksInv, Timeout
<1>3. PICK u : u = Answered(t, NullVerdict)
  OBVIOUS
<1>4. u \in Tasks(work.policies) /\ Sound(policy, u) /\ u.id = 0 /\ u.kind = t.kind /\ (u.chat <=> t.chat)
  <2>1. Judged(NullVerdict, Due(t), t.live)
    BY DEF Judged
  <2>2. u.kind = t.kind /\ (u.chat <=> t.chat)
    BY <1>2, <1>3 DEF Answered, Tasks
  <2> QED BY <1>2, <1>3, <2>1, <2>2, AnsweredSound, NullIsAnswer
<1>5. tasks' = [tasks EXCEPT ![i] = u] /\ UNCHANGED << work, policy, composer, mail, ids >>
  BY <1>1, <1>3 DEF Timeout, agentVars, userVars
<1>6. Tracked(work.policies, policy, [tasks EXCEPT ![i] = u], mail, ids, {})
  BY <1>4, PutTracked DEF TasksInv
<1>7. SameKinds(tasks, [tasks EXCEPT ![i] = u])
  BY <1>1, <1>2, <1>4, Replaced DEF TasksInv, Tracked
<1> QED BY <1>5, <1>6, <1>7 DEF TasksInv

LEMMA OnMessageTracked ==
  ASSUME TasksInv, NEW m \in mail, OnMessage(m)
  PROVE  TasksInv' /\ SameKinds(tasks, tasks')
<1>1. UNCHANGED << work, policy, composer, ids >> /\ mail' = mail \ {m}
      /\ tasks' = [i \in DOMAIN tasks |-> IF tasks[i].id = m.id THEN Answered(tasks[i], m.result) ELSE tasks[i]]
  BY DEF OnMessage, agentVars, userVars
<1>2. Tracked(work.policies, policy, tasks, mail \ {m}, ids, {})
  BY TrackedMail DEF TasksInv, Tracked
<1>3. CASE \A i \in DOMAIN tasks : tasks[i].id # m.id
  <2>1. tasks' = tasks
    <3>1. tasks' = [i \in DOMAIN tasks |-> tasks[i]]
      BY <1>1, <1>3
    <3>2. tasks = [i \in DOMAIN tasks |-> tasks[i]]
      BY LenProperties DEF TasksInv, Tracked
    <3> QED BY <3>1, <3>2
  <2> QED BY <1>1, <1>2, <2>1 DEF TasksInv, SameKinds
<1>4. ASSUME NEW i \in DOMAIN tasks, tasks[i].id = m.id PROVE TasksInv' /\ SameKinds(tasks, tasks')
  <2>1. PICK t : t = tasks[i]
    OBVIOUS
  <2>2. t \in Tasks(work.policies) /\ Sound(policy, t) /\ Matches(m, t) /\ t.id # 0
    BY <1>4, <2>1, TaskType DEF TasksInv, Tracked, Mails
  <2>3. m.back /\ m \in Mails
    BY DEF OnMessage, TasksInv, Tracked
  <2>4. t.pc = "asking" /\ Judged(m.result, Due(t), t.live)
    BY <1>4, <2>1, <2>2, <2>3 DEF Sound, Matches
  <2>5. PICK u : u = Answered(t, m.result)
    OBVIOUS
  <2>6. u \in Tasks(work.policies) /\ Sound(policy, u) /\ u.id = 0
    BY <2>2, <2>3, <2>4, <2>5, AnsweredSound DEF Mails
  <2>9. u.kind = t.kind /\ (u.chat <=> t.chat)
    BY <2>2, <2>5 DEF Answered, Tasks
  <2>7. tasks' = [tasks EXCEPT ![i] = u]
    <3>1. \A j \in DOMAIN tasks : tasks[j].id = m.id => j = i
      BY <1>4, <2>1, <2>2 DEF TasksInv, Tracked
    <3>2. tasks = [j \in DOMAIN tasks |-> tasks[j]]
      BY LenProperties DEF TasksInv, Tracked
    <3>3. tasks' = [j \in DOMAIN tasks |-> IF j = i THEN u ELSE tasks[j]]
      BY <1>1, <1>4, <2>1, <2>5, <3>1
    <3> QED BY <3>2, <3>3
  <2>8. Tracked(work.policies, policy, [tasks EXCEPT ![i] = u], mail \ {m}, ids, {})
    BY <1>2, <2>6, PutTracked
  <2>10. SameKinds(tasks, [tasks EXCEPT ![i] = u])
    BY <2>1, <2>4, <2>6, <2>9, Replaced DEF TasksInv, Tracked
  <2> QED BY <1>1, <2>7, <2>8, <2>10 DEF TasksInv
<1> QED BY <1>3, <1>4

LEMMA AgentTracked ==
  ASSUME TasksInv, NEW m \in mail, Agent(m) \/ AgentFails(m)
  PROVE  TasksInv'
<1>0. m \in Mails /\ ~ m.back /\ mail \subseteq Mails /\ policy \in work.policies /\ Policy(policy)
  BY DEF TasksInv, Tracked, Agent, AgentFails
<1>1. UNCHANGED << work, policy, composer, tasks, ids >>
  BY DEF Agent, AgentFails, agentVars, userVars
<1>2. ASSUME NEW v \in Answers, v = NullVerdict \/ v = judge(policy, m.question),
             NEW m2 \in Mails, m2.id = m.id, m2.question = m.question, m2.result = v, m2.back,
             mail' = (mail \ {m}) \cup {m2}
      PROVE  TasksInv'
  <2>0. PICK ml2 : ml2 = (mail \ {m}) \cup {m2}
    OBVIOUS
  <2>1. Tracked(work.policies, policy, tasks, ml2, ids, {})
    <3>1. ml2 \subseteq Mails /\ \A x \in ml2 : x.back \/ x.result = NullVerdict
      BY <1>0, <1>2, <2>0 DEF TasksInv, Tracked
    <3>2. \A x \in ml2 : \E y \in mail :
            /\ x.id = y.id /\ x.question = y.question
            /\ x.back => y = x \/ x.result = NullVerdict \/ x.result = judge(policy, y.question)
      BY <1>2, <2>0
    <3> QED BY <3>1, <3>2, TrackedMail DEF TasksInv
  <2> QED BY <1>1, <1>2, <2>0, <2>1 DEF TasksInv
<1>3. CASE Agent(m)
  <2>1. PICK v : v = judge(policy, m.question)
    OBVIOUS
  <2>2. v \in Answers
    BY <1>0, <2>1, JudgeTypes DEF Mails
  <2>3. PICK m2 : m2 = [m EXCEPT !.back = TRUE, !.result = v]
    OBVIOUS
  <2>4. m2 \in Mails /\ m2.id = m.id /\ m2.question = m.question /\ m2.result = v /\ m2.back
    BY <1>0, <2>2, <2>3 DEF Mails
  <2>5. mail' = (mail \ {m}) \cup {m2}
    BY <1>3, <2>1, <2>3 DEF Agent
  <2> QED BY <1>2, <2>1, <2>2, <2>4, <2>5
<1>4. CASE AgentFails(m)
  <2>1. PICK m2 : m2 = [m EXCEPT !.back = TRUE]
    OBVIOUS
  <2>2. m2 \in Mails /\ m2.id = m.id /\ m2.question = m.question /\ m2.result = NullVerdict /\ m2.back
    <3>1. m.result = NullVerdict
      BY <1>0 DEF TasksInv, Tracked
    <3> QED BY <1>0, <2>1, <3>1 DEF Mails
  <2>3. mail' = (mail \ {m}) \cup {m2}
    BY <1>4, <2>1 DEF AgentFails
  <2> QED BY <1>2, <2>2, <2>3, NullIsAnswer
<1> QED BY <1>3, <1>4

-----------------------------------------------------------------------------
(* What the user's actions account for *)

OpenSubmits(ts) == {i \in DOMAIN ts : ts[i].kind = "submit" /\ ts[i].pc # "over"}
Messages(ts)    == {i \in DOMAIN ts : ts[i].kind = "send" /\ ts[i].chat}

\* After n presses and c requests of the page: a press makes at most a
\* submission and a message, and the message of an open submission is still to
\* come.  Another d of them can be afforded.
Debt(ts, n, c, d) ==
  /\ Len(ts) + Cardinality(OpenSubmits(ts)) + d <= 2 * n + c
  /\ Cardinality(Messages(ts)) + Cardinality(OpenSubmits(ts)) + d <= n

LEMMA CountsType ==
  ASSUME NEW P, NEW ts \in Seq(Tasks(P))
  PROVE  /\ Len(ts) \in Nat /\ DOMAIN ts = 1 .. Len(ts)
         /\ IsFiniteSet(OpenSubmits(ts)) /\ Cardinality(OpenSubmits(ts)) \in Nat
         /\ IsFiniteSet(Messages(ts)) /\ Cardinality(Messages(ts)) \in Nat
<1>1. Len(ts) \in Nat /\ DOMAIN ts = 1 .. Len(ts)
  BY LenProperties
<1>2. IsFiniteSet(DOMAIN ts)
  BY <1>1, FS_Interval
<1>3. OpenSubmits(ts) \subseteq DOMAIN ts /\ Messages(ts) \subseteq DOMAIN ts
  BY DEF OpenSubmits, Messages
<1> QED BY <1>1, <1>2, <1>3, FS_Subset, FS_CardinalityType

\* Tasks that go on make no debt.
LEMMA DebtKept ==
  ASSUME NEW P, NEW ts \in Seq(Tasks(P)), NEW us \in Seq(Tasks(P)), SameKinds(ts, us),
         NEW n \in Nat, NEW c \in Nat, NEW d \in Nat, Debt(ts, n, c, d)
  PROVE  Debt(us, n, c, d)
<1>1. OpenSubmits(us) \subseteq OpenSubmits(ts) /\ Messages(us) = Messages(ts)
  BY DEF OpenSubmits, Messages, SameKinds
<1>2. Cardinality(OpenSubmits(us)) <= Cardinality(OpenSubmits(ts))
  BY <1>1, CountsType, FS_Subset
<1> QED BY <1>1, <1>2, CountsType, SMTT(60) DEF Debt, SameKinds

\* A submission that ends can afford its message.
LEMMA DebtClosed ==
  ASSUME NEW P, NEW ts \in Seq(Tasks(P)), NEW i \in DOMAIN ts, ts[i].kind = "submit", ts[i].pc # "over",
         NEW u \in Tasks(P), u.kind = "submit", u.pc = "over",
         NEW n \in Nat, NEW c \in Nat, Debt(ts, n, c, 0)
  PROVE  Debt([ts EXCEPT ![i] = u], n, c, 1)
<1> DEFINE us == [ts EXCEPT ![i] = u]
<1>1. /\ DOMAIN us = DOMAIN ts /\ Len(us) = Len(ts)
      /\ us[i] = u /\ \A j \in DOMAIN ts : j # i => us[j] = ts[j]
  BY ExceptSeq, LenProperties
<1> HIDE DEF us
<1>2. OpenSubmits(us) = OpenSubmits(ts) \ {i} /\ Messages(us) = Messages(ts) /\ i \in OpenSubmits(ts)
  BY <1>1 DEF OpenSubmits, Messages
<1>3. Cardinality(OpenSubmits(us)) = Cardinality(OpenSubmits(ts)) - 1
  BY <1>2, CountsType, FS_RemoveElement
<1>4. Debt(us, n, c, 1)
  BY <1>1, <1>2, <1>3, CountsType DEF Debt
<1> QED BY <1>4 DEF us

LEMMA Counted ==
  ASSUME NEW P, NEW ts \in Seq(Tasks(P)), NEW t \in Tasks(P), t.pc = "asking"
  PROVE  /\ Append(ts, t) \in Seq(Tasks(P)) /\ Len(Append(ts, t)) = Len(ts) + 1
         /\ t.kind = "send" => Cardinality(OpenSubmits(Append(ts, t))) = Cardinality(OpenSubmits(ts))
         /\ t.kind = "submit" => Cardinality(OpenSubmits(Append(ts, t))) = Cardinality(OpenSubmits(ts)) + 1
         /\ t.kind = "send" /\ t.chat => Cardinality(Messages(Append(ts, t))) = Cardinality(Messages(ts)) + 1
         /\ ~ (t.kind = "send" /\ t.chat) => Cardinality(Messages(Append(ts, t))) = Cardinality(Messages(ts))
<1> DEFINE us == Append(ts, t)
           n  == Len(ts) + 1
<1>0. Len(ts) \in Nat /\ DOMAIN ts = 1 .. Len(ts)
  BY LenProperties
<1>1. /\ us \in Seq(Tasks(P)) /\ Len(us) = n /\ DOMAIN us = 1 .. n /\ us[n] = t
      /\ \A j \in 1 .. Len(ts) : us[j] = ts[j]
  BY <1>0, AppendProperties, LenProperties
<1>2. n \notin DOMAIN ts /\ DOMAIN us = DOMAIN ts \cup {n} /\ \A j \in DOMAIN ts : us[j] = ts[j]
  BY <1>0, <1>1
<1> HIDE DEF us, n
<1>3. /\ t.kind = "send" => OpenSubmits(us) = OpenSubmits(ts)
      /\ t.kind = "submit" => OpenSubmits(us) = OpenSubmits(ts) \cup {n}
      /\ n \notin OpenSubmits(ts)
  BY <1>1, <1>2 DEF OpenSubmits
<1>4. /\ t.kind = "send" /\ t.chat => Messages(us) = Messages(ts) \cup {n}
      /\ ~ (t.kind = "send" /\ t.chat) => Messages(us) = Messages(ts)
      /\ n \notin Messages(ts)
  BY <1>1, <1>2 DEF Messages
<1>5. /\ t.kind = "submit" => Cardinality(OpenSubmits(us)) = Cardinality(OpenSubmits(ts)) + 1
      /\ t.kind = "send" /\ t.chat => Cardinality(Messages(us)) = Cardinality(Messages(ts)) + 1
  BY <1>3, <1>4, CountsType, FS_AddElement
<1> QED BY <1>1, <1>3, <1>4, <1>5 DEF us, n

\* A task that begins is paid for: a message by what was afforded, a
\* submission by a press, a request of the page by itself.
LEMMA DebtStarts ==
  ASSUME NEW P, NEW ts \in Seq(Tasks(P)), NEW t \in Tasks(P), t.pc = "asking",
         NEW us \in Seq(Tasks(P)), SameKinds(Append(ts, t), us), NEW n \in Nat, NEW c \in Nat
  PROVE  /\ t.kind = "send" /\ t.chat /\ Debt(ts, n, c, 1) => Debt(us, n, c, 0)
         /\ t.kind = "submit" /\ Debt(ts, n, c, 0) => Debt(us, n + 1, c, 0)
         /\ t.kind = "send" /\ ~ t.chat /\ Debt(ts, n, c, 0) => Debt(us, n, c + 1, 0)
<1>1. Append(ts, t) \in Seq(Tasks(P)) /\ n + 1 \in Nat /\ c + 1 \in Nat
  BY Counted
<1>2. t.kind = "send" /\ t.chat /\ Debt(ts, n, c, 1) => Debt(us, n, c, 0)
  <2>1. t.kind = "send" /\ t.chat /\ Debt(ts, n, c, 1) => Debt(Append(ts, t), n, c, 0)
    BY Counted, CountsType, SMTT(60) DEF Debt
  <2> QED BY <1>1, <2>1, DebtKept
<1>3. t.kind = "submit" /\ Debt(ts, n, c, 0) => Debt(us, n + 1, c, 0)
  <2>1. t.kind = "submit" /\ Debt(ts, n, c, 0) => Debt(Append(ts, t), n + 1, c, 0)
    BY Counted, CountsType, SMTT(60) DEF Debt
  <2> QED BY <1>1, <2>1, DebtKept
<1>4. t.kind = "send" /\ ~ t.chat /\ Debt(ts, n, c, 0) => Debt(us, n, c + 1, 0)
  <2>1. t.kind = "send" /\ ~ t.chat /\ Debt(ts, n, c, 0) => Debt(Append(ts, t), n, c + 1, 0)
    BY Counted, CountsType, SMTT(60) DEF Debt
  <2> QED BY <1>1, <2>1, DebtKept
<1> QED BY <1>2, <1>3, <1>4

\* As many as the press or the submission affords, and room for what is left.
LEMMA DebtUse ==
  ASSUME NEW P, NEW ts \in Seq(Tasks(P)), NEW n \in Nat, NEW c \in Nat
  PROVE  /\ Debt(ts, n, c, 1) => Debt(ts, n, c, 0)
         /\ Debt(ts, n, c, 0) => Debt(ts, n + 1, c, 1)
BY CountsType DEF Debt

-----------------------------------------------------------------------------
(* Tasks begin *)

\* A new call of the interceptor, up to its first question.
LEMMA StartTracked ==
  ASSUME NEW P, NEW ts, NEW t \in Tasks(P), Tracked(P, policy, ts, mail, ids, {}), Start(ts, t),
         policy \in t.live, t.reply = << >>, t.id = 0, t.at = 0, OnePart(t),
         t.pc = "asking",
         t.kind = "submit" => t.via = "composer" /\ t.body.form = "text" /\ 1 \in places(t)
  PROVE  Tracked(P, policy, tasks', mail', ids', {}) /\ SameKinds(Append(ts, t), tasks')
<1>1. PICK us, n : us = Append(ts, t) /\ n = Len(ts) + 1
  OBVIOUS
<1>2. Tracked(P, policy, us, mail, ids, {n}) /\ n \in DOMAIN us
  BY <1>1, TrackedAppend
<1>3. Advance(us, n, t)
  BY <1>1 DEF Start
<1>4. Passed(t)
  <2>1. t.body \in Bodies
    BY DEF Tasks
  <2>2. \A k \in scanned_files(t.body) : ~ (k <= t.at)
    BY <2>1, BodyParts
  <2> QED BY <2>2 DEF Passed
<1>5. us[n] = t
  BY <1>1, AppendProperties DEF Tracked
<1> QED BY <1>1, <1>2, <1>3, <1>4, <1>5, AdvanceTracked

LEMMA PartType ==
  ASSUME NEW T \in SUBSET Categories, NEW a \in BOOLEAN, NEW b \in BOOLEAN
  PROVE  Part(T, a, b) \in Parts
BY DEF Part, Parts

LEMMA OneSeq == ASSUME NEW S, NEW x \in S PROVE << x >> \in Seq(S) /\ Len(<< x >>) = 1
OBVIOUS

\* The submission of a text asks about it.
LEMMA SubmitType ==
  ASSUME NEW P, policy \in P, NEW T \in SUBSET Categories
  PROVE  /\ Submit(T) \in Tasks(P) /\ Submit(T).pc = "asking"
         /\ Submit(T).live = {policy} /\ Submit(T).reply = << >> /\ Submit(T).id = 0 /\ Submit(T).at = 0
         /\ Submit(T).kind = "submit" /\ Submit(T).via = "composer" /\ Submit(T).body.form = "text"
         /\ Submit(T).chat /\ OnePart(Submit(T)) /\ 1 \in places(Submit(T))
<1> DEFINE b == [form |-> "text", parts |-> << Part(T, TRUE, TRUE) >>]
<1>1. b \in Bodies /\ b.form = "text" /\ Len(b.parts) = 1
  BY PartType, OneSeq DEF Bodies
<1> HIDE DEF b
<1>2. Submit(T) = NewTask("submit", "composer", b, TRUE)
  BY DEF Submit, b
<1>3. PICK t : t = Submit(T)
  OBVIOUS
<1>4. /\ t \in Tasks(P) /\ t.pc = "asking" /\ t.live = {policy} /\ t.reply = << >> /\ t.id = 0 /\ t.at = 0
      /\ t.kind = "submit" /\ t.via = "composer" /\ t.body = b /\ t.chat
  <2>1. t = [kind |-> "submit", via |-> "composer", chat |-> TRUE, body |-> b, gone |-> {}, reply |-> << >>, at |-> 0,
             pc |-> "asking", id |-> 0, result |-> NullVerdict, toast |-> "", open |-> FALSE, live |-> {policy}]
    BY <1>2, <1>3, Zenon DEF NewTask
  <2>2. t \in Tasks(P)
    BY <1>1, <2>1, EmptySeq, NullIsAnswer DEF Tasks, Steps, Notices, Vias
  <2>3. t.chat
    BY <2>1
  <2> QED BY <2>1, <2>2, <2>3
<1>5. OnePart(t)
  BY <1>1, <1>4 DEF OnePart
<1>6. places(t) = {1}
  <2>1. ~ ByFile(t) /\ ~ Unseen(t)
    BY <1>1, <1>4 DEF ByFile, Unseen
  <2> QED BY <2>1 DEF places
<1> QED BY <1>1, <1>3, <1>4, <1>5, <1>6

\* A site's request of one part, or of fields.
Shaped(s) ==
  /\ s.via \in Vias /\ s.form \in {"json", "text", "gzip"} /\ s.top \in BOOLEAN /\ s.more \in Seq(Parts)
  /\ s.form = "text" => s.more = << >>

LEMMA MessageType ==
  ASSUME NEW P, policy \in P, NEW T \in SUBSET Categories, NEW s, Shaped(s)
  PROVE  /\ Message(s, T) \in Tasks(P) /\ Message(s, T).pc = "asking"
         /\ Message(s, T).live = {policy} /\ Message(s, T).reply = << >> /\ Message(s, T).id = 0
         /\ Message(s, T).at = 0
         /\ Message(s, T).kind = "send" /\ Message(s, T).chat /\ OnePart(Message(s, T))
<1> DEFINE ps == << Part(T, TRUE, s.top) >> \o s.more
           b == [form |-> s.form, parts |-> ps]
<1>0. /\ s.via \in Vias /\ s.form \in {"json", "text", "gzip"} /\ s.top \in BOOLEAN /\ s.more \in Seq(Parts)
      /\ s.form = "text" => s.more = << >>
  BY DEF Shaped
<1>1. ps \in Seq(Parts)
  <2>1. << Part(T, TRUE, s.top) >> \in Seq(Parts)
    BY <1>0, PartType, OneSeq
  <2> QED BY <1>0, <2>1, ConcatProperties
<1>7. s.form = "text" => Len(ps) = 1
  <2>1. << Part(T, TRUE, s.top) >> \o << >> = << Part(T, TRUE, s.top) >>
    BY <1>0, PartType, OneSeq, ConcatEmptySeq
  <2> QED BY <1>0, <2>1, PartType, OneSeq
<1> HIDE DEF ps
<1>2. b \in Bodies /\ b.form # "bytes" /\ (b.form = "text" => Len(b.parts) = 1)
  BY <1>0, <1>1, <1>7 DEF Bodies
<1> HIDE DEF b
<1>3. Message(s, T) = NewTask("send", s.via, b, TRUE)
  BY DEF Message, b, ps
<1>4. PICK t : t = Message(s, T)
  OBVIOUS
<1>5. /\ t \in Tasks(P) /\ t.pc = "asking" /\ t.live = {policy} /\ t.reply = << >> /\ t.id = 0 /\ t.at = 0
      /\ t.kind = "send" /\ t.body = b /\ t.chat
  <2>1. t = [kind |-> "send", via |-> s.via, chat |-> TRUE, body |-> b, gone |-> {}, reply |-> << >>, at |-> 0,
             pc |-> "asking", id |-> 0, result |-> NullVerdict, toast |-> "", open |-> FALSE, live |-> {policy}]
    BY <1>3, <1>4, Zenon DEF NewTask
  <2>2. t \in Tasks(P)
    BY <1>0, <1>2, <2>1, EmptySeq, NullIsAnswer DEF Tasks, Steps, Notices
  <2>3. t.chat
    BY <2>1
  <2> QED BY <2>1, <2>2, <2>3
<1>6. OnePart(t)
  BY <1>2, <1>5 DEF OnePart
<1> QED BY <1>4, <1>5, <1>6

LEMMA ComposerType ==
  ASSUME TasksInv, composer # << >>
  PROVE  composer[1] \in SUBSET Categories
BY EmptySeq, ElementOfSeq DEF TasksInv

\* The site sends what is in the composer, after the tasks ts.
LEMMA SiteSendsTracked ==
  ASSUME TasksInv, NEW ts, Tracked(work.policies, policy, ts, mail, ids, {}),
         SiteSends(ts), UNCHANGED << work, policy >>,
         NEW n \in Nat, NEW c \in Nat, Debt(ts, n, c, 1)
  PROVE  TasksInv' /\ Debt(tasks', n, c, 0)
<1>0. ts \in Seq(Tasks(work.policies))
  BY DEF Tracked
<1>1. CASE composer # << >> /\ composer' = << >> /\ \E s \in work.shapes : Start(ts, Message(s, composer[1]))
  <2>1. PICK s \in work.shapes : Start(ts, Message(s, composer[1]))
    BY <1>1
  <2>2. Shaped(s)
    BY WorkloadsAssumption DEF TasksInv, Shaped
  <2>9. PICK T \in SUBSET Categories : T = composer[1]
    BY <1>1, ComposerType
  <2>3. PICK t : t = Message(s, T)
    OBVIOUS
  <2>4. policy \in work.policies
    BY DEF TasksInv, Tracked
  <2>5. /\ t \in Tasks(work.policies) /\ t.live = {policy} /\ t.reply = << >> /\ t.id = 0 /\ t.at = 0
        /\ t.kind = "send" /\ OnePart(t) /\ t.pc = "asking" /\ t.chat
    <3>1. PICK P : P = work.policies
      OBVIOUS
    <3>2. policy \in P
      BY <2>4, <3>1
    <3>3. /\ Message(s, T) \in Tasks(P)
          /\ Message(s, T).live = {policy} /\ Message(s, T).reply = << >> /\ Message(s, T).id = 0
          /\ Message(s, T).at = 0 /\ Message(s, T).kind = "send" /\ OnePart(Message(s, T))
          /\ Message(s, T).pc = "asking" /\ Message(s, T).chat
      BY <2>2, <3>2, MessageType, ZenonT(60)
    <3> QED BY <2>3, <3>1, <3>3, Zenon
  <2>6. Start(ts, t) /\ policy \in t.live
    BY <2>1, <2>3, <2>5, <2>9
  <2>7. Tracked(work.policies, policy, tasks', mail', ids', {}) /\ SameKinds(Append(ts, t), tasks')
    BY <2>5, <2>6, StartTracked
  <2>8. composer' \in Seq(SUBSET Categories)
    BY <1>1, EmptySeq
  <2>10. Debt(tasks', n, c, 0)
    <3>1. PICK us \in Seq(Tasks(work.policies)) : us = tasks'
      BY <2>7 DEF Tracked
    <3>2. Debt(us, n, c, 0)
      BY <1>0, <2>5, <2>7, <3>1, DebtStarts
    <3> QED BY <3>1, <3>2
  <2> QED BY <2>7, <2>8, <2>10 DEF TasksInv
<1>2. CASE composer = << >> /\ tasks' = ts /\ UNCHANGED << composer, mail, ids >>
  BY <1>0, <1>2, DebtUse DEF TasksInv
<1> QED BY <1>1, <1>2 DEF SiteSends

LEMMA PressTracked ==
  ASSUME TasksInv, Press, NEW n \in Nat, NEW c \in Nat, Debt(tasks, n, c, 0)
  PROVE  TasksInv' /\ Debt(tasks', n + 1, c, 0)
<1>1. UNCHANGED << work, policy >>
  BY DEF Press, agentVars
<1>2. /\ Tracked(work.policies, policy, tasks, mail, ids, {}) /\ policy \in work.policies
      /\ tasks \in Seq(Tasks(work.policies))
  BY DEF TasksInv, Tracked
<1>3. CASE SiteSends(tasks)
  <2>1. Debt(tasks, n + 1, c, 1) /\ n + 1 \in Nat
    BY <1>2, DebtUse
  <2> QED BY <1>1, <1>2, <1>3, <2>1, SiteSendsTracked
<1>4. CASE composer # << >> /\ Start(tasks, Submit(composer[1])) /\ UNCHANGED << bypass, composer >>
  <2>1. PICK t : t = Submit(composer[1])
    OBVIOUS
  <2>2. /\ t \in Tasks(work.policies) /\ t.live = {policy} /\ t.reply = << >> /\ t.id = 0 /\ t.at = 0
        /\ t.kind = "submit" /\ t.via = "composer" /\ t.body.form = "text" /\ OnePart(t) /\ 1 \in places(t)
        /\ t.pc = "asking"
    BY <1>2, <1>4, <2>1, ComposerType, SubmitType
  <2>3. Start(tasks, t) /\ policy \in t.live
    BY <1>4, <2>1, <2>2
  <2>4. Tracked(work.policies, policy, tasks', mail', ids', {}) /\ SameKinds(Append(tasks, t), tasks')
    BY <1>2, <2>2, <2>3, StartTracked
  <2>5. PICK us \in Seq(Tasks(work.policies)) : us = tasks'
    BY <2>4 DEF Tracked
  <2>6. Debt(us, n + 1, c, 0)
    BY <1>2, <2>2, <2>4, <2>5, DebtStarts
  <2> QED BY <1>1, <1>4, <2>4, <2>5, <2>6 DEF TasksInv
<1> QED BY <1>3, <1>4 DEF Press

LEMMA PageSendsTracked ==
  ASSUME TasksInv, PageSends, NEW n \in Nat, NEW c \in Nat, Debt(tasks, n, c, 0)
  PROVE  TasksInv' /\ Debt(tasks', n, c + 1, 0)
<1>1. UNCHANGED << work, policy, composer >>
  BY DEF PageSends, agentVars
<1>2. /\ Tracked(work.policies, policy, tasks, mail, ids, {}) /\ policy \in work.policies
      /\ tasks \in Seq(Tasks(work.policies))
  BY DEF TasksInv, Tracked
<1>3. PICK r \in work.requests : Start(tasks, NewTask("send", r.via, r.body, FALSE))
  BY DEF PageSends
<1>4. r.via \in Vias /\ r.body \in Bodies /\ (r.body.form \in {"bytes", "text"} => Len(r.body.parts) = 1)
  BY WorkloadsAssumption DEF TasksInv
<1>5. PICK t : t = NewTask("send", r.via, r.body, FALSE)
  OBVIOUS
<1>6. /\ t \in Tasks(work.policies) /\ t.live = {policy} /\ t.reply = << >> /\ t.id = 0 /\ t.at = 0
      /\ t.kind = "send" /\ t.body = r.body /\ t.pc = "asking" /\ ~ t.chat
  BY <1>2, <1>4, <1>5, EmptySeq, NullIsAnswer DEF NewTask, Tasks, Steps, Notices
<1>7. Start(tasks, t) /\ policy \in t.live /\ OnePart(t)
  BY <1>3, <1>4, <1>5, <1>6 DEF OnePart
<1>8. Tracked(work.policies, policy, tasks', mail', ids', {}) /\ SameKinds(Append(tasks, t), tasks')
  BY <1>2, <1>6, <1>7, StartTracked
<1>9. PICK us \in Seq(Tasks(work.policies)) : us = tasks'
  BY <1>8 DEF Tracked
<1>10. Debt(us, n, c + 1, 0)
  BY <1>2, <1>6, <1>8, <1>9, DebtStarts
<1> QED BY <1>1, <1>8, <1>9, <1>10 DEF TasksInv

-----------------------------------------------------------------------------
(* Tasks go on and end *)

\* A submission that asks no more.
LEMMA SubmitRests ==
  ASSUME NEW p, NEW t, Sound(p, t), t.kind = "submit", t.pc \in {"answered", "settling"},
         NEW u, u.pc \in {"settling", "over"}, u.kind = t.kind, u.via = t.via, u.body = t.body,
         u.reply = t.reply, u.id = t.id, u.live = t.live
  PROVE  Sound(p, u) /\ u.id = 0
<1>1. OnePart(u) = OnePart(t)
  BY SameTask
<1> QED BY <1>1 DEF Sound, Settled

LEMMA ResumeSubmitTracked ==
  ASSUME TasksInv, NEW i \in DOMAIN tasks, ResumeSubmit(i)
  PROVE  TasksInv' /\ SameKinds(tasks, tasks')
<1>1. PICK t : t = tasks[i]
  OBVIOUS
<1>2. t \in Tasks(work.policies) /\ Sound(policy, t) /\ t.kind = "submit" /\ t.pc = "answered"
  BY <1>1, TaskType DEF TasksInv, ResumeSubmit
<1>3. t.result.sanitized \in SUBSET Categories
  BY <1>2 DEF Tasks, Answers
<1>4. PICK u : /\ tasks' = [tasks EXCEPT ![i] = u] /\ UNCHANGED << mail, ids >>
               /\ \E c \in {"settling", "over"} : u = [t EXCEPT !.pc = c, !.toast = verdictOutcome(t.result).toast]
  BY <1>1 DEF ResumeSubmit, Put
<1>5. composer' = << t.result.sanitized >> \/ composer' = composer
  BY <1>1 DEF ResumeSubmit
<1>6. UNCHANGED << work, policy >>
  BY DEF ResumeSubmit, agentVars
<1>7. u \in Tasks(work.policies) /\ Sound(policy, u) /\ u.id = 0 /\ u.kind = t.kind /\ (u.chat <=> t.chat)
  <2>1. PICK c \in {"settling", "over"} : u = [t EXCEPT !.pc = c, !.toast = verdictOutcome(t.result).toast]
    BY <1>4
  <2>2. PICK n \in Notices : n = verdictOutcome(t.result).toast
    BY Toasts DEF Notices
  <2>3. /\ u \in Tasks(work.policies) /\ u.pc = c /\ u.kind = t.kind /\ u.via = t.via /\ u.body = t.body
        /\ u.reply = t.reply /\ u.id = t.id /\ u.live = t.live /\ (u.chat <=> t.chat)
    BY <1>2, <2>1, <2>2 DEF Tasks, Steps
  <2> QED BY <1>2, <2>3, SubmitRests
<1>8. Tracked(work.policies, policy, tasks', mail, ids, {})
  BY <1>4, <1>7, PutTracked DEF TasksInv
<1>9. composer' \in Seq(SUBSET Categories)
  BY <1>3, <1>5, OneSeq DEF TasksInv
<1>10. SameKinds(tasks, tasks')
  BY <1>1, <1>2, <1>4, <1>7, Replaced DEF TasksInv, Tracked
<1> QED BY <1>4, <1>6, <1>8, <1>9, <1>10 DEF TasksInv

LEMMA ResubmitTracked ==
  ASSUME TasksInv, NEW i \in DOMAIN tasks, Resubmit(i), NEW n \in Nat, NEW c \in Nat, Debt(tasks, n, c, 0)
  PROVE  TasksInv' /\ Debt(tasks', n, c, 0)
<1>1. PICK t : t = tasks[i]
  OBVIOUS
<1>2. t \in Tasks(work.policies) /\ Sound(policy, t) /\ t.kind = "submit" /\ t.pc = "settling"
  BY <1>1, TaskType DEF TasksInv, Resubmit
<1>3. PICK u : u = [t EXCEPT !.pc = "over"]
  OBVIOUS
<1>4. u \in Tasks(work.policies) /\ Sound(policy, u) /\ u.id = 0 /\ u.kind = "submit" /\ u.pc = "over"
  <2>1. /\ u \in Tasks(work.policies) /\ u.pc = "over" /\ u.kind = t.kind /\ u.via = t.via /\ u.body = t.body
        /\ u.reply = t.reply /\ u.id = t.id /\ u.live = t.live
    BY <1>2, <1>3 DEF Tasks, Steps
  <2> QED BY <1>2, <2>1, SubmitRests
<1>5. PICK done : done = [tasks EXCEPT ![i] = u]
  OBVIOUS
<1>6. SiteSends(done) \/ (tasks' = done /\ UNCHANGED << composer, mail, ids >>)
  BY <1>1, <1>3, <1>5 DEF Resubmit
<1>7. Tracked(work.policies, policy, done, mail, ids, {})
  BY <1>4, <1>5, PutTracked DEF TasksInv
<1>8. UNCHANGED << work, policy >>
  BY DEF Resubmit, agentVars
<1>9. Debt(done, n, c, 1)
  BY <1>1, <1>2, <1>4, <1>5, DebtClosed DEF TasksInv, Tracked
<1>10. done \in Seq(Tasks(work.policies))
  BY <1>7 DEF Tracked
<1>11. CASE SiteSends(done)
  BY <1>7, <1>8, <1>9, <1>11, SiteSendsTracked
<1>12. CASE tasks' = done /\ UNCHANGED << composer, mail, ids >>
  BY <1>7, <1>8, <1>9, <1>10, <1>12, DebtUse DEF TasksInv
<1> QED BY <1>6, <1>11, <1>12

\* A body of the same form has as many parts.
LEMMA SameFormOnePart ==
  ASSUME NEW t, NEW u, t.body \in Bodies, u.body \in Bodies, SameForm(t.body, u.body), OnePart(t)
  PROVE  OnePart(u)
<1>1. /\ DOMAIN t.body.parts = 1 .. Len(t.body.parts) /\ Len(t.body.parts) \in Nat
      /\ DOMAIN u.body.parts = 1 .. Len(u.body.parts) /\ Len(u.body.parts) \in Nat
  BY BodyParts
<1>2. Len(t.body.parts) = 1 => Len(u.body.parts) = 1
  <2> SUFFICES ASSUME Len(t.body.parts) = 1 PROVE Len(u.body.parts) = 1
    OBVIOUS
  <2>1. PICK n \in Nat : n = Len(u.body.parts)
    BY <1>1
  <2>2. 1 .. n = 1 .. 1
    BY <1>1, <2>1 DEF SameForm
  <2>3. n = 1
    <3>1. 1 \in 1 .. n /\ 2 \notin 1 .. n
      BY <2>2
    <3> QED BY <3>1
  <2> QED BY <2>1, <2>3
<1> QED BY <1>2 DEF OnePart, SameForm

LEMMA ResumeSendTracked ==
  ASSUME TasksInv, NEW i \in DOMAIN tasks, ResumeSend(i)
  PROVE  TasksInv' /\ SameKinds(tasks, tasks')
<1>1. PICK t0 : t0 = tasks[i]
  OBVIOUS
<1>2. /\ t0 \in Tasks(work.policies) /\ Sound(policy, t0)
      /\ t0.kind = "send" /\ t0.pc = "answered" /\ t0.reply = << >>
  <2>1. t0 \in Tasks(work.policies) /\ Sound(policy, t0)
    BY <1>1, TaskType DEF TasksInv
  <2> QED BY <1>1, <2>1 DEF ResumeSend, Tasks
<1>3. PICK x \in BOOLEAN : x <=> (t0.open \/ t0.result.kind = "null")
  OBVIOUS
<1>4. PICK t : t = [t0 EXCEPT !.open = x]
  OBVIOUS
<1>5. /\ t \in Tasks(work.policies) /\ (t.open <=> x) /\ (t.chat <=> t0.chat)
      /\ t.kind = "send" /\ t.pc = "answered" /\ t.reply = << >>
      /\ t.via = t0.via /\ t.body = t0.body /\ t.at = t0.at /\ t.id = t0.id /\ t.result = t0.result
      /\ t.toast = t0.toast /\ t.live = t0.live
  BY <1>2, <1>4 DEF Tasks
<1>6. /\ UNCHANGED << work, policy, composer >>
      /\ \/ Put(tasks, i, [t EXCEPT !.pc = "blocked", !.toast = "block"])
         \/ /\ ~ verdictOutcome(t.result).stop
            /\ Advance(tasks, i, IF ByFile(t) THEN file_answered(t) ELSE IF Packed(t) THEN t ELSE text_answered(t))
  <2>1. t = [t0 EXCEPT !.open = @ \/ t0.result.kind = "null"]
    <3>1. (t0.open \/ t0.result.kind = "null") = x
      BY <1>2, <1>3 DEF Tasks
    <3> QED BY <1>4, <3>1
  <2> QED BY <1>1, <2>1, Zenon DEF ResumeSend, agentVars, userVars
<1>7. /\ t.id = 0 /\ policy \in t.live /\ OnePart(t) /\ Underway(t)
      /\ Judged(t.result, question(t), t.live) /\ (t.result.kind = "null" => t.open)
  <2>1. /\ places(t) = places(t0) /\ OnePart(t) = OnePart(t0) /\ question(t) = question(t0)
        /\ (ByFile(t) <=> ByFile(t0))
    BY <1>5, SameTask
  <2>2. Underway(t0) /\ Due(t0) = question(t0)
    BY <1>2 DEF Sound, Due
  <2>3. Underway(t)
    <3>1. \A k : PartOpen(t0, k) => PartOpen(t, k)
      BY <1>3, <1>5, MoreLiveOpen
    <3> QED BY <1>5, <2>1, <2>2, <3>1 DEF Underway
  <2> QED BY <1>2, <1>3, <1>5, <2>1, <2>2, <2>3 DEF Sound, Settled
<1>8. Tracked(work.policies, policy, tasks, mail, ids, {}) /\ \A p \in work.policies : Policy(p)
  BY DEF TasksInv, Tracked
<1>9. CASE Put(tasks, i, [t EXCEPT !.pc = "blocked", !.toast = "block"])
  <2>1. PICK u : u = [t EXCEPT !.pc = "blocked", !.toast = "block"]
    OBVIOUS
  <2>2. /\ u \in Tasks(work.policies) /\ (u.chat <=> t.chat) /\ u.pc = "blocked" /\ u.id = 0 /\ u.reply = << >>
        /\ u.kind = "send" /\ u.via = t.via /\ u.body = t.body
    BY <1>5, <1>7, <2>1 DEF Tasks, Steps, Notices
  <2>3. Sound(policy, u)
    BY <1>7, <2>2, SameTask DEF Sound, Settled
  <2>4. tasks' = [tasks EXCEPT ![i] = u] /\ UNCHANGED << mail, ids >>
    BY <1>9, <2>1 DEF Put
  <2>5. SameKinds(tasks, tasks')
    BY <1>1, <1>2, <1>5, <1>8, <2>2, <2>4, Replaced, ZenonT(60) DEF Tracked
  <2> QED BY <1>6, <1>8, <2>2, <2>3, <2>4, <2>5, PutTracked DEF TasksInv
<1>10. CASE /\ ~ verdictOutcome(t.result).stop
            /\ Advance(tasks, i, IF ByFile(t) THEN file_answered(t) ELSE IF Packed(t) THEN t ELSE text_answered(t))
  <2>1. PICK u : u = IF ByFile(t) THEN file_answered(t) ELSE IF Packed(t) THEN t ELSE text_answered(t)
    OBVIOUS
  <2>2. /\ u \in Tasks(work.policies) /\ SameForm(t.body, u.body) /\ Passed(u)
        /\ \A f \in {"kind", "via", "chat", "reply", "at", "pc", "id", "open", "live"} : u[f] = t[f]
    <3>1. CASE ByFile(t)
      BY <1>5, <1>7, <1>8, <1>10, <2>1, <3>1, FilePasses
    <3>2. CASE ~ ByFile(t) /\ ~ Packed(t)
      BY <1>5, <1>7, <1>8, <1>10, <2>1, <3>2, TextPasses
    <3>3. CASE ~ ByFile(t) /\ Packed(t)
      <4>1. t.at = 1
        BY <1>5, <1>7, <3>3, PlacesType DEF Underway
      <4>2. Passed(t) /\ SameForm(t.body, t.body)
        BY <3>3, <4>1 DEF Passed, SameForm
      <4> QED BY <1>5, <2>1, <3>3, <4>2
    <3> QED BY <3>1, <3>2, <3>3
  <2>3. u.kind = "send" /\ u.reply = << >> /\ u.id = 0 /\ policy \in u.live /\ (u.chat <=> t0.chat)
    BY <1>5, <1>7, <2>2
  <2>4. OnePart(u)
    BY <1>5, <1>7, <2>2, SameFormOnePart DEF Tasks
  <2>5. Advance(tasks, i, u)
    BY <1>10, <2>1
  <2>6. Tracked(work.policies, policy, tasks', mail', ids', {}) /\ SameKinds(tasks, tasks')
    BY <1>1, <1>2, <1>8, <2>2, <2>3, <2>4, <2>5, TrackedHole, AdvanceTracked
  <2> QED BY <1>6, <2>6 DEF TasksInv
<1> QED BY <1>6, <1>9, <1>10

\* An answer with something in it is asked about, any other ends the task.
LEMMA SiteRepliesTracked ==
  ASSUME TasksInv, NEW i \in DOMAIN tasks, SiteReplies(i)
  PROVE  TasksInv' /\ SameKinds(tasks, tasks')
<1>1. PICK t : t = tasks[i]
  OBVIOUS
<1>2. t \in Tasks(work.policies) /\ Sound(policy, t) /\ t.pc = "sent"
  BY <1>1, TaskType DEF TasksInv, SiteReplies
<1>3. t.kind = "send" /\ t.reply = << >> /\ t.id = 0
  BY <1>2 DEF Sound
<1>4. UNCHANGED << work, policy, composer >>
  BY DEF SiteReplies, agentVars, userVars
<1>5. PICK b \in work.replies :
        \/ Ask(tasks, i, [t EXCEPT !.reply = << b >>, !.open = FALSE, !.toast = "", !.live = {policy}],
               Q("inspect-response", TextOf(b, extractScannable(b)), TRUE))
        \/ Put(tasks, i, [t EXCEPT !.pc = "over"])
  BY <1>1, Zenon DEF SiteReplies
<1>6. b \in Bodies
  BY WorkloadsAssumption DEF TasksInv
<1>7. /\ Tracked(work.policies, policy, tasks, mail, ids, {})
      /\ policy \in work.policies /\ ids \in Nat \ {0}
  BY DEF TasksInv, Tracked
<1>8. CASE Put(tasks, i, [t EXCEPT !.pc = "over"])
  <2>1. PICK u : u = [t EXCEPT !.pc = "over"]
    OBVIOUS
  <2>2. /\ u \in Tasks(work.policies) /\ u.pc = "over" /\ u.kind = t.kind /\ u.via = t.via /\ u.body = t.body
        /\ u.reply = t.reply /\ u.id = t.id /\ (u.chat <=> t.chat)
    BY <1>2, <2>1 DEF Tasks, Steps
  <2>3. Sound(policy, u)
    BY <1>2, <1>3, <2>2, SameTask DEF Sound, Settled
  <2>4. tasks' = [tasks EXCEPT ![i] = u] /\ UNCHANGED << mail, ids >>
    BY <1>8, <2>1 DEF Put
  <2>5. SameKinds(tasks, tasks')
    BY <1>1, <1>2, <1>7, <2>2, <2>4, Replaced DEF Tracked
  <2> QED BY <1>3, <1>4, <1>7, <2>2, <2>3, <2>4, <2>5, PutTracked DEF TasksInv
<1>9. CASE Ask(tasks, i, [t EXCEPT !.reply = << b >>, !.open = FALSE, !.toast = "", !.live = {policy}],
               Q("inspect-response", TextOf(b, extractScannable(b)), TRUE))
  <2>1. PICK w : w = [t EXCEPT !.reply = << b >>, !.open = FALSE, !.toast = "", !.live = {policy}]
    OBVIOUS
  <2>2. PICK q : q = Q("inspect-response", TextOf(b, extractScannable(b)), TRUE)
    OBVIOUS
  <2>3. q \in Questions
    <3>1. TextOf(b, extractScannable(b)) \in SUBSET Categories
      BY <1>6, BodyParts, TextOfTypes
    <3> QED BY <2>2, <3>1 DEF Q, Questions
  <2>4. PICK u : u = [w EXCEPT !.pc = "asking", !.id = ids]
    OBVIOUS
  <2>5. << b >> \in Seq(Bodies) /\ << b >> # << >> /\ << b >>[1] = b
    BY <1>6, OneSeq
  <2>6. /\ w \in Tasks(work.policies) /\ w.reply = << b >> /\ w.live = {policy}
        /\ w.kind = t.kind /\ w.via = t.via /\ w.body = t.body /\ (w.chat <=> t.chat)
    <3>1. PICK r \in Seq(Bodies) : r = << b >>
      BY <2>5
    <3>2. PICK l \in SUBSET work.policies : l = {policy}
      BY <1>7
    <3>3. w = [t EXCEPT !.reply = r, !.open = FALSE, !.toast = "", !.live = l]
      BY <2>1, <3>1, <3>2
    <3>4. /\ w \in Tasks(work.policies) /\ w.reply = r /\ w.live = l
          /\ w.kind = t.kind /\ w.via = t.via /\ w.body = t.body /\ (w.chat <=> t.chat)
      BY <1>2, <3>3 DEF Tasks, Notices
    <3> QED BY <3>1, <3>2, <3>4
  <2>7. /\ u \in Tasks(work.policies) /\ u.reply = << b >> /\ u.live = {policy} /\ u.pc = "asking" /\ u.id = ids
        /\ u.kind = t.kind /\ u.via = t.via /\ u.body = t.body /\ (u.chat <=> t.chat)
    BY <1>7, <2>4, <2>6 DEF Tasks, Steps
  <2>8. Due(u) = q
    BY <2>2, <2>5, <2>7 DEF Due
  <2>9. Sound(policy, u)
    BY <1>2, <1>3, <1>7, <2>5, <2>7, SameTask DEF Sound, Settled
  <2>10. PICK m : m = [id |-> ids, question |-> q, back |-> FALSE, result |-> NullVerdict]
    OBVIOUS
  <2>11. m \in Mails /\ m.id = ids /\ m.question = q /\ ~ m.back /\ m.result = NullVerdict
    BY <1>7, <2>3, <2>10, NullIsAnswer DEF Mails
  <2>12. tasks' = [tasks EXCEPT ![i] = u] /\ mail' = mail \cup {m} /\ ids' = ids + 1
    BY <1>9, <2>1, <2>2, <2>4, <2>10 DEF Ask
  <2>13. Tracked(work.policies, policy, [tasks EXCEPT ![i] = u], mail \cup {m}, ids + 1, {})
    BY <1>7, <2>7, <2>8, <2>9, <2>11, TrackedHole, TrackedAsk
  <2>14. SameKinds(tasks, tasks')
    BY <1>1, <1>2, <1>7, <2>7, <2>12, Replaced DEF Tracked
  <2> QED BY <1>4, <2>12, <2>13, <2>14 DEF TasksInv
<1> QED BY <1>5, <1>8, <1>9

LEMMA BlockedType == Blocked \in Bodies /\ Blocked.parts = << >>
BY EmptySeq DEF Blocked, Bodies

\* What the page is handed of an answer, after the verdict v on it.
LEMMA AnswerWithheld ==
  ASSUME NEW P, \A p \in P : Policy(p), NEW L \in SUBSET P, NEW b \in Bodies, NEW d,
         NEW open \in BOOLEAN, NEW toast,
         NEW v \in Answers, Judged(v, Q("inspect-response", TextOf(b, extractScannable(b)), TRUE), L),
         v.kind = "null" => open,
         d = IF verdictOutcome(v).stop THEN Blocked
             ELSE IF verdictOutcome(v).redact THEN applyRedaction(b, v.sanitized) ELSE b,
         verdictOutcome(v).redact /\ ~ wasRedactionApplied(b) => toast = "warn"
  PROVE  /\ d \in Bodies
         /\ d.parts # << >> =>
              \A k \in extractScannable(d) : \A c \in d.parts[k].text :
                (\A p \in L : Guarded(p, c)) => open \/ toast = "warn"
<1> DEFINE q == Q("inspect-response", TextOf(b, extractScannable(b)), TRUE)
<1>1. v.sanitized \in SUBSET Categories
  BY DEF Answers
<1>2. verdictOutcome(v).redact <=> v.action = "Redact"
  BY Toasts
<1>3. d \in Bodies
  BY <1>1, BlockedType, Redaction
<1>4. q \in Questions /\ q.text = TextOf(b, extractScannable(b)) /\ q.kind = "inspect-response"
  <2>1. TextOf(b, extractScannable(b)) \in SUBSET Categories
    BY BodyParts, TextOfTypes
  <2> QED BY <2>1 DEF Q, Questions
<1> HIDE DEF q
<1>5. ASSUME d.parts # << >>, NEW k \in extractScannable(d), NEW c \in d.parts[k].text,
             \A p \in L : Guarded(p, c), ~ open
      PROVE  toast = "warn"
  <2>1. ~ verdictOutcome(v).stop /\ ~ Denied(v.action)
    BY <1>5, BlockedType, StopIsDenial
  <2>2. PICK p \in L : v = judge(p, q)
    <3>1. v # NullVerdict
      BY <1>5 DEF NullVerdict
    <3> QED BY <3>1 DEF Judged, q
  <2>3. c \in q.text => v.action = "Redact" /\ c \notin v.sanitized
    BY <1>4, <1>5, <2>1, <2>2, JudgeGuards
  <2>4. CASE v.action # "Redact"
    <3>1. d = b
      BY <1>2, <2>1, <2>4
    <3>2. c \in q.text
      BY <1>4, <1>5, <3>1 DEF TextOf
    <3> QED BY <2>3, <2>4, <3>2
  <2>5. CASE v.action = "Redact" /\ wasRedactionApplied(b)
    <3>1. d = applyRedaction(b, v.sanitized)
      BY <1>2, <2>1, <2>5
    <3>2. k \in extractScannable(b)
      BY <1>1, <1>5, <3>1, Redaction, SameFormSamePlaces
    <3>3. d.parts[k].text = v.sanitized
      BY <1>1, <2>5, <3>1, <3>2, Redaction
    <3> QED BY <1>5, <2>2, <2>3, <3>3, JudgeShrinks
  <2>6. CASE v.action = "Redact" /\ ~ wasRedactionApplied(b)
    BY <1>2, <2>6
  <2> QED BY <2>4, <2>5, <2>6
<1> QED BY <1>3, <1>5

LEMMA ResumeReplyTracked ==
  ASSUME TasksInv, NEW i \in DOMAIN tasks, ResumeReply(i)
  PROVE  TasksInv' /\ SameKinds(tasks, tasks')
<1>1. PICK t : t = tasks[i]
  OBVIOUS
<1>2. /\ t \in Tasks(work.policies) /\ Sound(policy, t)
      /\ t.kind = "send" /\ t.pc = "answered" /\ t.reply # << >>
  BY <1>1, TaskType DEF TasksInv, ResumeReply
<1>3. UNCHANGED << work, policy, composer >>
  BY DEF ResumeReply, agentVars, userVars
<1>4. PICK b \in Bodies : b = t.reply[1]
  <2>1. t.reply \in Seq(Bodies)
    BY <1>2 DEF Tasks
  <2> QED BY <1>2, <2>1, EmptySeq, ElementOfSeq
<1>5. PICK v \in Answers : v = t.result
  BY <1>2 DEF Tasks
<1>6. PICK open \in BOOLEAN : open <=> v.kind = "null"
  OBVIOUS
<1>7. PICK toast \in Notices :
        toast = IF verdictOutcome(v).redact /\ ~ wasRedactionApplied(b) THEN "warn" ELSE verdictOutcome(v).toast
  BY Toasts DEF Notices
<1>8. PICK d : d = IF verdictOutcome(v).stop THEN Blocked
                   ELSE IF verdictOutcome(v).redact THEN applyRedaction(b, v.sanitized) ELSE b
  OBVIOUS
<1>9. PICK r : r = IF verdictOutcome(v).stop THEN << Blocked >>
                   ELSE IF verdictOutcome(v).redact THEN << applyRedaction(b, v.sanitized) >> ELSE t.reply
  OBVIOUS
<1>10. PICK u : u = [t EXCEPT !.pc = "over", !.open = open, !.toast = toast, !.reply = r]
  OBVIOUS
<1>11. tasks' = [tasks EXCEPT ![i] = u] /\ UNCHANGED << mail, ids >>
  <2>1. (v.kind = "null") = open
    BY <1>6
  <2> QED BY <1>1, <1>4, <1>5, <1>7, <1>9, <1>10, <2>1, Zenon DEF ResumeReply, Put
<1>12. \A p \in work.policies : Policy(p)
  BY DEF TasksInv, Tracked
<1>13. /\ d \in Bodies
       /\ d.parts # << >> =>
            \A k \in extractScannable(d) : \A c \in d.parts[k].text :
              (\A p \in t.live : Guarded(p, c)) => open \/ toast = "warn"
  <2>1. Judged(v, Q("inspect-response", TextOf(b, extractScannable(b)), TRUE), t.live)
    BY <1>2, <1>4, <1>5, Zenon DEF Sound, Due
  <2>2. t.live \in SUBSET work.policies
    BY <1>2 DEF Tasks
  <2>3. verdictOutcome(v).redact /\ ~ wasRedactionApplied(b) => toast = "warn"
    BY <1>7
  <2>4. v.kind = "null" => open
    BY <1>6
  <2> QED BY <1>8, <1>12, <2>1, <2>2, <2>3, <2>4, AnswerWithheld
<1>14. r \in Seq(Bodies) /\ r[1] = d
  <2>1. t.reply \in Seq(Bodies)
    BY <1>2 DEF Tasks
  <2>2. << d >> \in Seq(Bodies) /\ << d >>[1] = d
    BY <1>13, OneSeq
  <2>3. r = << d >> \/ (r = t.reply /\ d = b)
    BY <1>8, <1>9
  <2> QED BY <1>4, <2>1, <2>2, <2>3
<1>15. /\ u \in Tasks(work.policies) /\ u.pc = "over" /\ u.kind = "send" /\ u.via = t.via /\ u.body = t.body
       /\ u.id = t.id /\ (u.chat <=> t.chat) /\ u.reply = r
       /\ (u.open <=> open) /\ u.toast = toast /\ u.live = t.live
  BY <1>2, <1>10, <1>14 DEF Tasks, Steps
<1>16. Sound(policy, u) /\ u.id = 0
  <2>1. Withheld(u)
    BY <1>13, <1>14, <1>15 DEF Withheld
  <2> QED BY <1>2, <1>15, <2>1, SameTask DEF Sound, Settled
<1>17. SameKinds(tasks, tasks')
  BY <1>1, <1>2, <1>11, <1>15, Replaced DEF TasksInv, Tracked
<1> QED BY <1>3, <1>11, <1>15, <1>16, <1>17, PutTracked DEF TasksInv

\* The live policy changes: every task under way has one more.
LEMMA ChangePolicyTracked ==
  ASSUME TasksInv, ChangePolicy
  PROVE  TasksInv' /\ SameKinds(tasks, tasks')
<1>1. PICK p \in work.policies \ {policy} :
        /\ policy' = p
        /\ tasks' = [i \in DOMAIN tasks |-> IF tasks[i].pc \in Settled THEN tasks[i]
                                            ELSE [tasks[i] EXCEPT !.live = @ \cup {p}]]
  BY DEF ChangePolicy
<1>2. UNCHANGED << work, composer, mail, ids >>
  BY DEF ChangePolicy
<1>3. PICK P : P = work.policies
  OBVIOUS
<1>4. PICK ts : ts = tasks
  OBVIOUS
<1>5. PICK us : us = [i \in DOMAIN ts |-> IF ts[i].pc \in Settled THEN ts[i]
                                          ELSE [ts[i] EXCEPT !.live = @ \cup {p}]]
  OBVIOUS
<1>6. Tracked(P, policy, ts, mail, ids, {}) /\ p \in P /\ DOMAIN us = DOMAIN ts
  BY <1>3, <1>4, <1>5 DEF TasksInv
<1>7. ts \in Seq(Tasks(P)) /\ DOMAIN ts = 1 .. Len(ts) /\ Len(ts) \in Nat
  BY <1>6, LenProperties DEF Tracked
<1>8. ASSUME NEW i \in DOMAIN ts
      PROVE  /\ us[i] \in Tasks(P) /\ Sound(p, us[i]) /\ us[i].id = ts[i].id
             /\ us[i].kind = ts[i].kind /\ (us[i].chat <=> ts[i].chat) /\ us[i].pc = ts[i].pc
             /\ \A m \in mail : Matches(m, us[i])
  <2>1. PICK t : t = ts[i]
    OBVIOUS
  <2>2. t \in Tasks(P) /\ Sound(policy, t) /\ \A m \in mail : Matches(m, t)
    BY <1>6, <2>1, TaskType DEF Tracked
  <2>3. CASE t.pc \in Settled
    <3>1. us[i] = t
      BY <1>5, <2>1, <2>3
    <3>2. Sound(p, t)
      BY <2>2, <2>3 DEF Sound
    <3> QED BY <2>1, <2>2, <3>1, <3>2
  <2>4. CASE t.pc \notin Settled
    <3>1. PICK u : u = [t EXCEPT !.live = @ \cup {p}]
      OBVIOUS
    <3>2. us[i] = u
      BY <1>5, <2>1, <2>4, <3>1
    <3>3. /\ u \in Tasks(P) /\ u.live = t.live \cup {p} /\ u.kind = t.kind /\ (u.chat <=> t.chat) /\ u.pc = t.pc
          /\ u.id = t.id /\ u.via = t.via /\ u.body = t.body /\ u.reply = t.reply /\ u.at = t.at
          /\ u.result = t.result /\ u.toast = t.toast /\ (u.open <=> t.open)
      BY <1>6, <2>2, <3>1 DEF Tasks
    <3>4. /\ places(u) = places(t) /\ OnePart(u) = OnePart(t) /\ question(u) = question(t)
          /\ ByFile(u) <=> ByFile(t)
      BY <3>3, SameTask
    <3>5. Due(u) = Due(t)
      BY <3>3, <3>4 DEF Due
    <3>6. \A k : PartOpen(t, k) => PartOpen(u, k)
      BY <3>3, MoreLiveOpen
    <3>7. Underway(t) => Underway(u)
      BY <3>3, <3>4, <3>6 DEF Underway
    <3>8. \A v, q : Judged(v, q, t.live) => Judged(v, q, u.live)
      BY <3>3 DEF Judged
    <3>9. Sound(p, u)
      BY <2>2, <2>4, <3>3, <3>4, <3>5, <3>7, <3>8 DEF Sound, Settled
    <3>10. \A m \in mail : Matches(m, u)
      BY <2>2, <3>3, <3>5, <3>8 DEF Matches
    <3> QED BY <2>1, <3>2, <3>3, <3>9, <3>10
  <2> QED BY <2>3, <2>4
<1>9. us \in Seq(Tasks(P))
  <2>1. us \in [1 .. Len(ts) -> Tasks(P)]
    BY <1>5, <1>7, <1>8
  <2> QED BY <1>7, <2>1, SeqDef
<1>10. Tracked(P, p, us, mail, ids, {})
  BY <1>6, <1>8, <1>9 DEF Tracked
<1>11. SameKinds(ts, us)
  <2>1. Len(us) = Len(ts)
    BY <1>6, <1>7, <1>9, LenProperties
  <2> QED BY <1>6, <1>8, <2>1 DEF SameKinds
<1>12. tasks' = us
  BY <1>1, <1>4, <1>5
<1> QED BY <1>1, <1>2, <1>3, <1>4, <1>10, <1>11, <1>12 DEF TasksInv

-----------------------------------------------------------------------------
(* Every step *)

DebtInv ==
  /\ presses \in Nat /\ calls \in Nat /\ presses <= work.presses /\ calls <= work.calls
  /\ Debt(tasks, presses, calls, 0)

LEMMA InitDebt == Init => DebtInv
<1> SUFFICES ASSUME Init PROVE DebtInv
  OBVIOUS
<1>1. work \in Workloads /\ presses = 0 /\ calls = 0 /\ tasks = << >>
  BY DEF Init
<1>2. work.presses \in Nat /\ work.calls \in Nat
  BY <1>1, WorkloadsAssumption
<1>3. DOMAIN tasks = {} /\ Len(tasks) = 0
  BY <1>1, EmptySeq, LenProperties
<1>4. OpenSubmits(tasks) = {} /\ Messages(tasks) = {}
  BY <1>3 DEF OpenSubmits, Messages
<1>5. Cardinality(OpenSubmits(tasks)) = 0 /\ Cardinality(Messages(tasks)) = 0
  BY <1>4, FS_EmptySet
<1> QED BY <1>1, <1>2, <1>3, <1>5 DEF DebtInv, Debt

LEMMA StepKeepsTasks ==
  ASSUME TasksInv, DebtInv, [Next]_vars
  PROVE  TasksInv' /\ DebtInv'
<1>0. /\ presses \in Nat /\ calls \in Nat /\ work.presses \in Nat /\ work.calls \in Nat
      /\ presses <= work.presses /\ calls <= work.calls /\ Debt(tasks, presses, calls, 0)
  BY WorkloadsAssumption DEF DebtInv, TasksInv
<1>1. ASSUME TasksInv', SameKinds(tasks, tasks'), UNCHANGED << work, presses, calls >>
      PROVE  TasksInv' /\ DebtInv'
  <2>1. tasks \in Seq(Tasks(work.policies)) /\ tasks' \in Seq(Tasks(work.policies))
    BY <1>1 DEF TasksInv, Tracked
  <2>2. PICK us \in Seq(Tasks(work.policies)) : us = tasks'
    BY <2>1
  <2>3. Debt(us, presses, calls, 0)
    BY <1>0, <1>1, <2>1, <2>2, DebtKept
  <2> QED BY <1>0, <1>1, <2>2, <2>3 DEF DebtInv
<1>2. CASE Press
  <2>1. presses < work.presses /\ presses' = presses + 1 /\ UNCHANGED << work, calls >>
    BY <1>2 DEF Press, agentVars
  <2>2. TasksInv' /\ Debt(tasks', presses + 1, calls, 0)
    BY <1>0, <1>2, PressTracked
  <2> QED BY <1>0, <2>1, <2>2 DEF DebtInv
<1>3. CASE PageSends
  <2>1. calls < work.calls /\ calls' = calls + 1 /\ UNCHANGED << work, presses >>
    BY <1>3 DEF PageSends, agentVars
  <2>2. TasksInv' /\ Debt(tasks', presses, calls + 1, 0)
    BY <1>0, <1>3, PageSendsTracked
  <2> QED BY <1>0, <2>1, <2>2 DEF DebtInv
<1>4. ASSUME NEW i \in DOMAIN tasks, Resubmit(i) PROVE TasksInv' /\ DebtInv'
  <2>1. UNCHANGED << work, presses, calls >>
    BY <1>4 DEF Resubmit, agentVars
  <2>2. TasksInv' /\ Debt(tasks', presses, calls, 0)
    BY <1>0, <1>4, ResubmitTracked
  <2> QED BY <1>0, <2>1, <2>2 DEF DebtInv
<1>5. ASSUME NEW i \in DOMAIN tasks,
             Timeout(i) \/ ResumeSubmit(i) \/ ResumeSend(i) \/ ResumeReply(i) \/ SiteReplies(i)
      PROVE  TasksInv' /\ DebtInv'
  <2>1. UNCHANGED << work, presses, calls >>
    BY <1>5 DEF Timeout, ResumeSubmit, ResumeSend, ResumeReply, SiteReplies, agentVars, userVars
  <2>2. TasksInv' /\ SameKinds(tasks, tasks')
    BY <1>5, TimeoutTracked, ResumeSubmitTracked, ResumeSendTracked, ResumeReplyTracked, SiteRepliesTracked
  <2> QED BY <1>1, <2>1, <2>2
<1>6. CASE UNCHANGED << work, policy, presses, calls, tasks, mail, ids >> /\ composer' \in Seq(SUBSET Categories)
  BY <1>6 DEF TasksInv, DebtInv
<1>7. CASE Type
  <2>1. UNCHANGED << work, policy, presses, calls, tasks, mail, ids >>
    BY <1>7 DEF Type, agentVars
  <2>2. PICK T \in work.texts : composer' = << T >>
    BY <1>7 DEF Type
  <2>3. T \in SUBSET Categories
    BY WorkloadsAssumption DEF TasksInv
  <2>4. composer' \in Seq(SUBSET Categories)
    BY <2>2, <2>3, OneSeq
  <2> QED BY <1>6, <2>1, <2>4
<1>8. CASE ChangePolicy
  <2>1. UNCHANGED << work, presses, calls >>
    BY <1>8 DEF ChangePolicy
  <2> QED BY <1>1, <1>8, <2>1, ChangePolicyTracked
<1>9. CASE UNCHANGED << work, policy, pageVars >>
  BY <1>6, <1>9 DEF pageVars, userVars, TasksInv
<1>10. CASE ChangeList \/ WorkerStops \/ UNCHANGED vars
  BY <1>9, <1>10 DEF ChangeList, WorkerStops, vars, agentVars
<1>11. ASSUME NEW m \in mail, Agent(m) \/ AgentFails(m) PROVE TasksInv' /\ DebtInv'
  <2>1. UNCHANGED << work, presses, calls, tasks >>
    BY <1>11 DEF Agent, AgentFails, agentVars, userVars
  <2>2. SameKinds(tasks, tasks')
    BY <2>1 DEF SameKinds
  <2> QED BY <1>1, <1>11, <2>1, <2>2, AgentTracked
<1>12. ASSUME NEW m \in mail, OnMessage(m) PROVE TasksInv' /\ DebtInv'
  <2>1. UNCHANGED << work, presses, calls >>
    BY <1>12 DEF OnMessage, agentVars, userVars
  <2> QED BY <1>1, <1>12, <2>1, OnMessageTracked
<1>13. ASSUME NEW s \in DOMAIN syncs, Sync(s) \/ SyncRefused(s) \/ SyncUnreachable(s)
       PROVE  UNCHANGED << work, policy, pageVars >>
  BY <1>13 DEF Sync, SyncStart, SyncFetch, SyncRead, SyncRemove, SyncAdd, SyncEnd,
                SyncRefused, SyncUnreachable, SyncStep
<1> QED BY <1>2, <1>3, <1>4, <1>5, <1>7, <1>8, <1>9, <1>10, <1>11, <1>12, <1>13 DEF Next, Task

LEMMA TasksInvariant == Spec => [](TasksInv /\ DebtInv)
BY InitTasks, InitDebt, StepKeepsTasks, PTL DEF Spec

LEMMA TypesFollow == TasksInv /\ DebtInv /\ SiteInv => TypeOK
<1> SUFFICES ASSUME TasksInv, DebtInv, SiteInv PROVE TypeOK
  OBVIOUS
<1>1. Len(tasks) <= 2 * presses + calls
  <2>1. Len(tasks) \in Nat /\ Cardinality(OpenSubmits(tasks)) \in Nat
    BY CountsType DEF TasksInv, Tracked
  <2> QED BY <2>1 DEF DebtInv, Debt
<1>2. ids >= 1
  BY DEF TasksInv, Tracked
<1>3. ASSUME NEW i \in DOMAIN tasks
      PROVE  /\ tasks[i].pc \in {"asking", "answered", "settling"} \cup Settled
             /\ (tasks[i].pc = "asking") = (tasks[i].id # 0)
             /\ tasks[i].id < ids
             /\ \A j \in DOMAIN tasks : tasks[i].id = tasks[j].id /\ tasks[i].id # 0 => i = j
  <2>1. tasks[i] \in Tasks(work.policies) /\ Sound(policy, tasks[i])
    BY TaskType DEF TasksInv
  <2>2. tasks[i].pc \in {"asking", "answered", "settling"} \cup Settled
    BY <2>1 DEF Tasks, Steps, Settled
  <2>3. (tasks[i].pc = "asking") = (tasks[i].id # 0)
    BY <2>1 DEF Sound
  <2> QED BY <2>2, <2>3 DEF TasksInv, Tracked
<1>4. registered \subseteq Permitted \ Builtin
  BY DEF SiteInv
<1> QED BY <1>1, <1>2, <1>3, <1>4 DEF TypeOK

\* What the policy guards crosses the page's boundary, outwards in a request or
\* inwards in an answer, only with a notice or unscanned for want of an answer,
\* however submissions, timers, late answers and changes of the policy overlap.
THEOREM GuardedCrosses == Spec => []GuardedCrossesOpenly
<1>1. TasksInv => GuardedLeavesOpenly
  <2> SUFFICES ASSUME TasksInv, NEW i \in DOMAIN tasks, tasks[i].kind = "send", tasks[i].pc = "sent",
                      NEW k \in Looked(tasks[i])
               PROVE  PartOpen(tasks[i], k)
    BY DEF GuardedLeavesOpenly, PartOpen
  <2>1. Sound(policy, tasks[i])
    BY TaskType DEF TasksInv
  <2> QED BY <2>1 DEF Sound
<1>2. TasksInv => GuardedAnswersAreWithheld
  <2> SUFFICES ASSUME TasksInv, NEW i \in DOMAIN tasks, tasks[i].pc = "over", tasks[i].reply # << >>
               PROVE  Withheld(tasks[i])
    BY DEF GuardedAnswersAreWithheld, Withheld
  <2>1. Sound(policy, tasks[i])
    BY TaskType DEF TasksInv
  <2> QED BY <2>1 DEF Sound
<1>3. TasksInv /\ DebtInv /\ SiteInv => GuardedCrossesOpenly
  BY <1>1, <1>2, TypesFollow DEF GuardedCrossesOpenly
<1> QED BY <1>3, TasksInvariant, SiteInvariant, PTL

\* Messages of the chat never outnumber the user's submissions: neither an
\* overlap nor a failed one, nor a flag left behind, sends a message twice.
THEOREM SubmitsSendOnce == Spec => []NoMoreMessagesThanSubmits
<1>1. TasksInv /\ DebtInv => NoMoreMessagesThanSubmits
  <2> SUFFICES ASSUME TasksInv, DebtInv PROVE NoMoreMessagesThanSubmits
    OBVIOUS
  <2>1. Cardinality(OpenSubmits(tasks)) \in Nat /\ Cardinality(Messages(tasks)) \in Nat
    BY CountsType DEF TasksInv, Tracked
  <2>2. Cardinality(Messages(tasks)) <= presses
    BY <2>1 DEF DebtInv, Debt
  <2> QED BY <2>2 DEF NoMoreMessagesThanSubmits, Messages
<1> QED BY <1>1, TasksInvariant, PTL
=============================================================================
