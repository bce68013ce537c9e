------------------------------ MODULE Extension ------------------------------
(***************************************************************************)
(* The browser extension (browser-extension/src): the interceptor in the   *)
(* page, which asks the Agent about what a user submits and about every    *)
(* request the page makes, and the service worker's registration of        *)
(* further sites.                                                          *)
(*                                                                         *)
(* A page is one thread: its functions run until they await.  A task is a  *)
(* call of interceptSubmit, of the patched fetch or of the patched XHR; it *)
(* awaits one answer of the Agent at a time, known by its request id.      *)
(* Between page and Agent lie the bridge, the service worker and the local *)
(* API (modules RequestGate and LocalApi): an answer may be late, be null, *)
(* or never come.  Waiting ends with a timer that may fire at any time.    *)
(*                                                                         *)
(* A text is the set of finding categories in it, as in Verdicts.  A body  *)
(* is a sequence of parts: of a JSON body the strings under the content    *)
(* keys (content) and all the rest, of a form its files (content) and      *)
(* other fields, each under a key, else one part.                          *)
(***************************************************************************)
EXTENDS Verdicts

CONSTANTS
  Workloads,    \* what happens in the page and around it, one record per scenario; the
                \* bounds on edits, presses, calls and failures are part of it
  Builtin,      \* STATIC_BUILTIN_DOMAINS
  Permitted,    \* domains the extension has host permission for
  MaxChanges    \* bound: edits of the policy and of its list

Parts  == [text : SUBSET Categories, content : BOOLEAN, top : BOOLEAN, plain : BOOLEAN, fits : BOOLEAN, key : Nat]
Bodies == [form : {"json", "text", "gzip", "form", "bytes", "opaque"}, parts : Seq(Parts)]
Vias   == {"composer", "fetch", "request", "xhr"}

ASSUME WorkloadsAssumption ==
  \A w \in Workloads :
    /\ \A p \in w.policies : WellTyped(p) /\ p.unmaskable \in Actions
    /\ w.texts \subseteq SUBSET Categories
    /\ \A s \in w.shapes : /\ s.via \in Vias /\ s.form \in {"json", "text", "gzip"}
                           /\ s.top \in BOOLEAN /\ s.more \in Seq(Parts) /\ (s.form = "text" => s.more = << >>)
    /\ \A r \in w.requests : /\ r.via \in Vias /\ r.body \in Bodies
                             /\ r.body.form \in {"bytes", "text"} => Len(r.body.parts) = 1
    /\ w.replies \subseteq Bodies
    /\ w.presses \in Nat /\ w.calls \in Nat

VARIABLES
  work,         \* the scenario
  policy,       \* the Agent's live policy
  changes, fails,
  composer,     \* the message being typed, << >> when there is none
  bypass,       \* bypassNextSubmit
  presses, edits, calls,
  tasks,        \* calls of the interceptor, in the order they began
  mail,         \* questions under way and answers on their way back
  ids,          \* requestCounter
  listed,       \* the enabled domains of the policy, in order
  registered,   \* domains whose two dynamic content scripts are registered
  syncs,        \* calls of syncDynamicSites
  always,       \* ghost: domains every list so far has had
  refused       \* ghost: the Agent has refused a list

agentVars == << work, policy, changes, fails >>
userVars == << composer, bypass, presses, edits, calls >>
pageVars == << userVars, tasks, mail, ids >>
siteVars == << listed, registered, syncs, always, refused >>
vars == << agentVars, pageVars, siteVars >>

-----------------------------------------------------------------------------
(* Bodies *)

TextOf(b, S) == UNION {b.parts[k].text : k \in S}

\* collectContentLocations, and of these only the top-level ones if any.
locations(b) ==
  LET found == {k \in DOMAIN b.parts : b.parts[k].content}
      top   == {k \in found : b.parts[k].top}
  IN  IF b.form \notin {"json", "gzip"} THEN {} ELSE IF top # {} THEN top ELSE found

\* extractScannable: the recognised fields, or the whole body.
extractScannable(b) == IF locations(b) # {} THEN locations(b) ELSE DOMAIN b.parts

wasRedactionApplied(b) == Cardinality(locations(b)) = 1 \/ b.form = "text"

\* applyRedaction: the one field, the whole of a body that is not JSON, or
\* nothing.
applyRedaction(b, sanitized) ==
  IF Cardinality(locations(b)) = 1 \/ b.form = "text"
  THEN [b EXCEPT !.parts = [k \in DOMAIN b.parts |->
          IF k \in extractScannable(b) THEN [b.parts[k] EXCEPT !.text = sanitized] ELSE b.parts[k]]]
  ELSE b

-----------------------------------------------------------------------------
(* Questions and verdicts *)

NullVerdict == [kind |-> "null", action |-> "none", sanitized |-> {}, unmaskable |-> FALSE]

Q(kind, T, plain) == [kind |-> kind, text |-> T, plain |-> plain]

\* The answer of /v1/inspect, /v1/inspect-response and /v1/inspect-file, in
\* short (module LocalApi has the handlers).
judge(p, q) ==
  LET v == inspect(p, q.text)
      a == enforcement_action(p.unmaskable)
      u == q.kind = "inspect-file" /\ ~ q.plain /\ v.action = "Redact"
  IN  [kind |-> "scan", sanitized |-> v.sanitized, unmaskable |-> u,
       action |-> IF ~ u THEN v.action ELSE IF a = "Redact" THEN "Block" ELSE a]

verdictOutcome(v) ==
  [stop   |-> v.action \in {"Block", "RequireApproval"},
   redact |-> v.action = "Redact",
   toast  |-> CASE v.action \in {"Block", "RequireApproval"} -> "block"
                [] v.action = "Redact" -> "redact"
                [] v.action = "Warn" -> "warn"
                [] v.action = "Audit" -> "audit"
                [] OTHER -> ""]

\* fileToastMessage and outcomeStyleFor.
file_toast(v) ==
  IF v.unmaskable THEN IF verdictOutcome(v).toast = "" THEN "warn" ELSE verdictOutcome(v).toast
  ELSE IF v.action = "Redact" THEN "redact" ELSE ""

\* scanFormDataFiles, scanBinaryUpload: the parts that are sent to the Agent.
scanned_files(b) == {k \in DOMAIN b.parts : (b.parts[k].content \/ b.form = "text") /\ b.parts[k].fits}

\* The text of a Request object is asked about as a file, upload.txt.
ByFile(t) == t.body.form \in {"form", "bytes"} \/ (t.body.form = "text" /\ t.via = "request")

\* Compressed JSON ("gzip") is unpacked by fetch only; XHR sends it to the Agent
\* as upload.bin, in which nothing is ever found.
Packed(t) == t.body.form = "gzip" /\ t.via = "xhr"

\* Not looked at: what is not a POST or PUT or has another kind of body
\* ("opaque"), a Request object's JSON and forms, compressed telemetry, and
\* compressed JSON above the cap.
Unseen(t) ==
  \/ t.body.form = "opaque"
  \/ t.via = "request" /\ t.body.form \in {"json", "form"}
  \/ t.body.form = "gzip" /\ t.via # "xhr" /\ locations(t.body) = {}
  \/ t.body.form = "gzip" /\ \E k \in DOMAIN t.body.parts : ~ t.body.parts[k].fits

\* What a task asks about: its files one after the other, or all at once (1).
places(t) == IF Unseen(t) THEN {} ELSE IF ByFile(t) THEN scanned_files(t.body) ELSE {1}

\* The question about the place it has come to.
question(t) ==
  IF ByFile(t) THEN Q("inspect-file", t.body.parts[t.at].text, t.body.parts[t.at].plain \/ t.body.form = "text")
  ELSE IF Packed(t) THEN Q("inspect-file", {}, FALSE)
  ELSE Q("inspect", TextOf(t.body, extractScannable(t.body)), TRUE)

-----------------------------------------------------------------------------
(* Tasks *)

NewTask(kind, via, b, chat) ==
  [kind |-> kind, via |-> via, chat |-> chat, body |-> b, gone |-> {}, reply |-> << >>, at |-> 0, pc |-> "asking",
   id |-> 0, result |-> NullVerdict, toast |-> "", open |-> FALSE, live |-> {policy}]

Part(T, content, top) == [text |-> T, content |-> content, top |-> top, plain |-> TRUE, fits |-> TRUE, key |-> 0]

Settled == {"sent", "blocked", "over"}

Submit(T) == NewTask("submit", "composer", [form |-> "text", parts |-> << Part(T, TRUE, TRUE) >>], TRUE)

\* The request a site makes of a message, in one of its shapes.
Message(s, T) == NewTask("send", s.via, [form |-> s.form, parts |-> << Part(T, TRUE, s.top) >> \o s.more], TRUE)

\* askAgent, askAgentFile: a fresh id, the timer, and the message.
Ask(ts, i, t, q) ==
  /\ tasks' = [ts EXCEPT ![i] = [t EXCEPT !.pc = "asking", !.id = ids]]
  /\ mail' = mail \cup {[id |-> ids, question |-> q, back |-> FALSE, result |-> NullVerdict]}
  /\ ids' = ids + 1

Put(ts, i, t) == tasks' = [ts EXCEPT ![i] = t] /\ UNCHANGED << mail, ids >>

\* A task runs up to its next question, or is the site's own request at last
\* (originalFetch, originalSend).
Advance(ts, i, t) ==
  LET ahead == {k \in places(t) : k > t.at}
  IN  \/ ahead = {} /\ Put(ts, i, [t EXCEPT !.pc = "sent"])
      \/ \E k \in ahead :
           /\ \A j \in ahead : k <= j
           /\ Ask(ts, i, [t EXCEPT !.at = k], question([t EXCEPT !.at = k]))

Start(ts, t) == Advance(Append(ts, t), Len(ts) + 1, t)

\* bridge, service worker and local API: the verdict under the live policy.
Agent(m) ==
  /\ ~ m.back
  /\ mail' = (mail \ {m}) \cup {[m EXCEPT !.back = TRUE, !.result = judge(policy, m.question)]}
  /\ UNCHANGED << agentVars, userVars, tasks, ids, siteVars >>

\* Not running, 403, 429, or the extension was reloaded: null.
AgentFails(m) ==
  /\ ~ m.back /\ fails < work.fails
  /\ fails' = fails + 1
  /\ mail' = (mail \ {m}) \cup {[m EXCEPT !.back = TRUE]}
  /\ UNCHANGED << work, policy, changes, composer, bypass, presses, edits, calls, tasks, ids, siteVars >>

Answered(t, v) == [t EXCEPT !.pc = "answered", !.id = 0, !.result = v]

\* Mutant: the answer goes to whoever waits.
AnswerWhoeverWaits(m) ==
  /\ m.back
  /\ mail' = mail \ {m}
  /\ \/ \E i \in DOMAIN tasks : tasks[i].pc = "asking" /\ tasks' = [tasks EXCEPT ![i] = Answered(@, m.result)]
     \/ (\A i \in DOMAIN tasks : tasks[i].pc # "asking") /\ UNCHANGED tasks
  /\ UNCHANGED << agentVars, userVars, ids, siteVars >>

\* The listener for bridge responses: the task whose id is pending, if any.
OnMessage(m) ==
  /\ m.back
  /\ mail' = mail \ {m}
  /\ tasks' = [i \in DOMAIN tasks |-> IF tasks[i].id = m.id THEN Answered(tasks[i], m.result) ELSE tasks[i]]
  /\ UNCHANGED << agentVars, userVars, ids, siteVars >>

\* Mutant: only questions about text have a timer.
TimeoutOfText(i) ==
  /\ tasks[i].pc = "asking" /\ ~ ByFile(tasks[i])
  /\ tasks' = [tasks EXCEPT ![i] = Answered(@, NullVerdict)]
  /\ UNCHANGED << agentVars, userVars, mail, ids, siteVars >>

\* RESPONSE_TIMEOUT_MS or FILE_RESPONSE_TIMEOUT_MS have passed.
Timeout(i) ==
  /\ tasks[i].pc = "asking"
  /\ tasks' = [tasks EXCEPT ![i] = Answered(@, NullVerdict)]
  /\ UNCHANGED << agentVars, userVars, mail, ids, siteVars >>

-----------------------------------------------------------------------------
(* The composer *)

\* The site's own handler: it takes the message and makes a request of it.
SiteSends(ts) ==
  \/ /\ composer # << >> /\ composer' = << >>
     /\ \E s \in work.shapes : Start(ts, Message(s, composer[1]))
  \/ composer = << >> /\ tasks' = ts /\ UNCHANGED << composer, mail, ids >>

Type ==
  /\ edits < work.edits /\ edits' = edits + 1
  /\ \E T \in work.texts : composer' = << T >>
  /\ UNCHANGED << agentVars, bypass, presses, calls, tasks, mail, ids, siteVars >>

\* Mutant: the event is not stopped, and the site sends as well.
PressUnstopped ==
  /\ presses < work.presses /\ presses' = presses + 1
  /\ composer # << >> /\ ~ bypass /\ composer' = << >>
  /\ \E s \in work.shapes : Start(Append(tasks, [Message(s, composer[1]) EXCEPT !.pc = "sent"]), Submit(composer[1]))
  /\ UNCHANGED << agentVars, bypass, edits, calls, siteVars >>

\* Enter or the Send button.  A stale selector leaves the event to the site,
\* and so does the flag of a resubmission, once; otherwise interceptSubmit
\* stops the event and takes the text.
Press ==
  /\ presses < work.presses /\ presses' = presses + 1
  /\ \/ work.stale /\ SiteSends(tasks) /\ UNCHANGED bypass
     \/ bypass /\ bypass' = FALSE /\ SiteSends(tasks)
     \/ ~ bypass /\ composer # << >> /\ Start(tasks, Submit(composer[1])) /\ UNCHANGED << bypass, composer >>
  /\ UNCHANGED << agentVars, edits, calls, siteVars >>

\* interceptSubmit after its first await.  setText may fail.
ResumeSubmit(i) ==
  LET t == tasks[i]
      o == verdictOutcome(t.result)
  IN  /\ t.kind = "submit" /\ t.pc = "answered"
      /\ \/ /\ o.stop
            /\ Put(tasks, i, [t EXCEPT !.pc = "over", !.toast = o.toast]) /\ UNCHANGED composer
         \/ /\ o.redact
            /\ Put(tasks, i, [t EXCEPT !.pc = "settling", !.toast = o.toast])
            /\ \/ composer' = << t.result.sanitized >>
               \/ UNCHANGED composer
         \/ /\ ~ o.stop /\ ~ o.redact
            /\ Put(tasks, i, [t EXCEPT !.pc = "settling", !.toast = o.toast]) /\ UNCHANGED composer
      /\ UNCHANGED << agentVars, bypass, presses, edits, calls, siteVars >>

\* resubmit: the flag, and a click on what the selector finds.  The click
\* sends; or it falls on another button, which only takes the flag away; or
\* the button is disabled, and the flag stays for the next event.
Resubmit(i) ==
  /\ tasks[i].kind = "submit" /\ tasks[i].pc = "settling"
  /\ \E outcome \in work.buttons :
       LET done == [tasks EXCEPT ![i] = [@ EXCEPT !.pc = "over"]]
       IN  /\ bypass' = (outcome = "disabled")
           /\ \/ outcome = "sends" /\ SiteSends(done)
              \/ outcome # "sends" /\ tasks' = done /\ UNCHANGED << composer, mail, ids >>
  /\ UNCHANGED << agentVars, presses, edits, calls, siteVars >>

-----------------------------------------------------------------------------
(* The patched fetch and XHR *)

\* A request the page makes by itself.
PageSends ==
  /\ calls < work.calls /\ calls' = calls + 1
  /\ \E r \in work.requests : Start(tasks, NewTask("send", r.via, r.body, FALSE))
  /\ UNCHANGED << agentVars, composer, bypass, presses, edits, siteVars >>

\* FormData.set: the one part in the place of all of its key.
parts_replaced(t) ==
  (t.gone \ {t.at}) \cup {k \in DOMAIN t.body.parts \ {t.at} : t.body.parts[k].key = t.body.parts[t.at].key}

\* A verdict about a file: masked if it is plain text, or passed; the last
\* toast is the one that is shown.  Files that are gone from the form by then
\* are asked about all the same.
file_answered(t) ==
  LET v == t.result
  IN  [t EXCEPT !.toast = IF file_toast(v) = "" THEN @ ELSE file_toast(v),
                !.gone = IF v.action = "Redact" THEN parts_replaced(t) ELSE @,
                !.body.parts[t.at].text = IF v.action = "Redact" THEN v.sanitized ELSE @]

\* A verdict about a text: masked if that can be done, and said so.
text_answered(t) ==
  LET o == verdictOutcome(t.result)
  IN  IF o.redact
      THEN [t EXCEPT !.body = applyRedaction(@, t.result.sanitized),
                     !.toast = IF wasRedactionApplied(t.body) THEN "redact" ELSE "warn"]
      ELSE [t EXCEPT !.toast = IF o.toast = "" THEN @ ELSE o.toast]

\* After an await on the way out.  A masked body that cannot be compressed
\* again is blocked.
ResumeSend(i) ==
  LET t == [tasks[i] EXCEPT !.open = @ \/ tasks[i].result.kind = "null"]
      o == verdictOutcome(t.result)
  IN  /\ t.kind = "send" /\ t.pc = "answered" /\ t.reply = << >>
      /\ \/ /\ o.stop \/ (t.body.form = "gzip" /\ o.redact /\ wasRedactionApplied(t.body))
            /\ Put(tasks, i, [t EXCEPT !.pc = "blocked", !.toast = "block"])
         \/ /\ ~ o.stop
            /\ Advance(tasks, i, IF ByFile(t) THEN file_answered(t) ELSE IF Packed(t) THEN t ELSE text_answered(t))
      /\ UNCHANGED << agentVars, userVars, siteVars >>

\* maybeScanResponse up to its question.  Only fetch with a string or a form
\* looks at the answer, and only at text and JSON with something in it.
SiteReplies(i) ==
  LET t      == tasks[i]
      looked == t.via = "fetch" /\ t.body.form \in {"json", "text", "form"}
  IN  /\ t.pc = "sent"
      /\ \E b \in work.replies :
           IF looked /\ b.form \in {"json", "text"} /\ b.parts # << >>
           THEN Ask(tasks, i, [t EXCEPT !.reply = << b >>, !.open = FALSE, !.toast = "", !.live = {policy}],
                    Q("inspect-response", TextOf(b, extractScannable(b)), TRUE))
           ELSE Put(tasks, i, [t EXCEPT !.pc = "over"])
      /\ UNCHANGED << agentVars, userVars, siteVars >>

Blocked == [form |-> "json", parts |-> << >>]    \* the 403 in the answer's place

\* maybeScanResponse after its await.
ResumeReply(i) ==
  LET t == tasks[i]
      o == verdictOutcome(t.result)
  IN  /\ t.kind = "send" /\ t.pc = "answered" /\ t.reply # << >>
      /\ Put(tasks, i, [t EXCEPT !.pc = "over", !.open = (t.result.kind = "null"),
                          !.toast = IF o.redact /\ ~ wasRedactionApplied(t.reply[1]) THEN "warn" ELSE o.toast,
                          !.reply = IF o.stop THEN << Blocked >>
                                    ELSE IF o.redact THEN << applyRedaction(@[1], t.result.sanitized) >> ELSE @])
      /\ UNCHANGED << agentVars, userVars, siteVars >>

ChangePolicy ==
  /\ changes < MaxChanges /\ changes' = changes + 1
  /\ \E p \in work.policies \ {policy} :
       /\ policy' = p
       /\ tasks' = [i \in DOMAIN tasks |-> IF tasks[i].pc \in Settled THEN tasks[i]
                                           ELSE [tasks[i] EXCEPT !.live = @ \cup {p}]]
  /\ UNCHANGED << work, fails, composer, bypass, presses, edits, calls, mail, ids, siteVars >>

-----------------------------------------------------------------------------
(* syncDynamicSites, in the service worker *)

\* policy_applications: the enabled domains, cut to max_ai_sites.
policy_applications(list) == {list[k] : k \in {n \in DOMAIN list : n <= work.cap}}

Target(list) == (policy_applications(list) \ Builtin) \cap Permitted

NoSync == [pc |-> "idle", domains |-> {}, existing |-> {}, todo |-> {}]
SetSync(s, r) == syncs' = [syncs EXCEPT ![s] = r]
SyncStep(s, r) ==
  /\ SetSync(s, r)
  /\ UNCHANGED << work, policy, changes, pageVars, listed, always >>

\* The alarm, the start of the browser, an installation.
SyncStart(s) ==
  /\ syncs[s].pc = "idle" /\ work.lists # {}
  /\ SyncStep(s, [NoSync EXCEPT !.pc = "fetch"])
  /\ UNCHANGED << fails, registered, refused >>

SyncFetch(s) ==
  /\ syncs[s].pc = "fetch"
  /\ SyncStep(s, [NoSync EXCEPT !.pc = "read", !.domains = policy_applications(listed) \ Builtin])
  /\ UNCHANGED << fails, registered, refused >>

\* fetchPolicyDomains: an answer that is not OK counts as an empty list.
SyncRefused(s) ==
  /\ syncs[s].pc = "fetch" /\ fails < work.fails
  /\ fails' = fails + 1 /\ refused' = TRUE
  /\ SyncStep(s, [NoSync EXCEPT !.pc = "read"])
  /\ UNCHANGED registered

\* Mutant: so does no answer.
UnreachableMeansEmpty(s) ==
  /\ syncs[s].pc = "fetch" /\ fails < work.fails
  /\ fails' = fails + 1
  /\ SyncStep(s, [NoSync EXCEPT !.pc = "read"])
  /\ UNCHANGED << registered, refused >>

\* The Agent cannot be reached: nothing changes this time.
SyncUnreachable(s) ==
  /\ syncs[s].pc = "fetch" /\ fails < work.fails
  /\ fails' = fails + 1
  /\ SyncStep(s, NoSync)
  /\ UNCHANGED << registered, refused >>

SyncRead(s) ==
  /\ syncs[s].pc = "read"
  /\ SyncStep(s, [syncs[s] EXCEPT !.pc = "remove", !.existing = registered])
  /\ UNCHANGED << fails, registered, refused >>

\* Mutant: sites that left the policy stay.
SyncKeepsAll(s) ==
  /\ syncs[s].pc = "remove"
  /\ SyncStep(s, [syncs[s] EXCEPT !.pc = "add", !.todo = syncs[s].domains \ syncs[s].existing])
  /\ UNCHANGED << fails, registered, refused >>

\* unregisterContentScripts fails as a whole if one of the ids is unknown.
SyncRemove(s) ==
  LET gone == syncs[s].existing \ syncs[s].domains
  IN  /\ syncs[s].pc = "remove"
      /\ registered' = IF gone \subseteq registered THEN registered \ gone ELSE registered
      /\ SyncStep(s, [syncs[s] EXCEPT !.pc = "add", !.todo = syncs[s].domains \ syncs[s].existing])
      /\ UNCHANGED << fails, refused >>

\* One domain of the loop: without permission, or already there, nothing.
SyncAdd(s) ==
  /\ syncs[s].pc = "add" /\ syncs[s].todo # {}
  /\ \E d \in syncs[s].todo :
       /\ registered' = registered \cup ({d} \cap Permitted)
       /\ SyncStep(s, [syncs[s] EXCEPT !.todo = @ \ {d}])
  /\ UNCHANGED << fails, refused >>

SyncEnd(s) ==
  /\ syncs[s].pc = "add" /\ syncs[s].todo = {}
  /\ SyncStep(s, NoSync)
  /\ UNCHANGED << fails, registered, refused >>

Sync(s) == SyncStart(s) \/ SyncFetch(s) \/ SyncRead(s) \/ SyncRemove(s) \/ SyncAdd(s) \/ SyncEnd(s)

\* The browser ends the worker in the middle of whatever it does.
WorkerStops ==
  /\ fails < work.fails /\ \E s \in DOMAIN syncs : syncs[s].pc # "idle"
  /\ fails' = fails + 1
  /\ syncs' = [s \in DOMAIN syncs |-> NoSync]
  /\ UNCHANGED << work, policy, changes, pageVars, listed, registered, always, refused >>

ChangeList ==
  /\ changes < MaxChanges /\ changes' = changes + 1
  /\ \E l \in work.lists \ {listed} :
       listed' = l /\ always' = always \cap policy_applications(l)
  /\ UNCHANGED << work, policy, fails, pageVars, registered, syncs, refused >>

-----------------------------------------------------------------------------
Init ==
  /\ work \in Workloads /\ policy \in work.policies /\ changes = 0 /\ fails = 0
  /\ composer = << >> /\ bypass = FALSE /\ presses = 0 /\ edits = 0 /\ calls = 0
  /\ tasks = << >> /\ mail = {} /\ ids = 1
  /\ listed \in (IF work.lists = {} THEN {<< >>} ELSE work.lists)
  /\ registered \in SUBSET (IF work.lists = {} THEN {} ELSE Permitted \ Builtin)
  /\ syncs = [s \in {1, 2} |-> NoSync]
  /\ always = policy_applications(listed) /\ refused = FALSE

Task(i) == Timeout(i) \/ ResumeSubmit(i) \/ Resubmit(i) \/ ResumeSend(i) \/ ResumeReply(i)

Next ==
  \/ Type \/ Press \/ PageSends \/ ChangePolicy \/ ChangeList \/ WorkerStops
  \/ \E i \in DOMAIN tasks : Task(i) \/ SiteReplies(i)
  \/ \E m \in mail : Agent(m) \/ AgentFails(m) \/ OnMessage(m)
  \/ \E s \in DOMAIN syncs : Sync(s) \/ SyncRefused(s) \/ SyncUnreachable(s)

Spec == Init /\ [][Next]_vars

\* The page's event loop runs what is ready, timers fire, and the alarm comes
\* again.  The Agent, the site and the user owe nothing.
FairSpec ==
  /\ Spec
  /\ WF_vars(\E i \in DOMAIN tasks : Task(i))
  /\ WF_vars(\E s \in DOMAIN syncs : Sync(s))

-----------------------------------------------------------------------------
(* Properties *)

\* A press of the user makes a submission and a request, a call of the page a
\* request. Every task stands at a known step, and waits exactly while its id
\* is pending; no two wait for the same answer.
TypeOK ==
  /\ Len(tasks) <= 2 * presses + calls /\ ids >= 1
  /\ \A i \in DOMAIN tasks :
       /\ tasks[i].pc \in {"asking", "answered", "settling"} \cup Settled
       /\ (tasks[i].pc = "asking") = (tasks[i].id # 0)
       /\ tasks[i].id < ids
       /\ \A j \in DOMAIN tasks : tasks[i].id = tasks[j].id /\ tasks[i].id # 0 => i = j
  /\ registered \subseteq Permitted \ Builtin

\* The parts of a body somebody could read on its way out.
Looked(t) ==
  IF places(t) = {} \/ Packed(t) THEN {} ELSE IF ByFile(t) THEN scanned_files(t.body) ELSE extractScannable(t.body)

\* What the policy guards leaves the browser in a part that is scanned only
\* when the network layer's own question went unanswered, or when the user is
\* told that it could not be masked: "the network layer above scans it again
\* regardless, so a stale selector or a missed case here is never the only
\* check" (interceptSubmit).  Whatever the composer's flag, late verdicts,
\* edits after the scan and changes of the policy do.  Of several files only
\* the last toast is seen.
GuardedLeavesOpenly ==
  \A i \in DOMAIN tasks :
    LET t == tasks[i]
    IN  t.kind = "send" /\ t.pc = "sent" =>
          \A k \in Looked(t) \ t.gone : \A c \in t.body.parts[k].text :
            (\A p \in t.live : Guarded(p, c)) =>
              \/ t.open
              \/ t.toast \in {"warn", "audit"}
              \/ t.toast = "redact" /\ t.body.form = "form" /\ Cardinality(scanned_files(t.body)) > 1

\* The same of an answer that is handed to the page.
GuardedAnswersAreWithheld ==
  \A i \in DOMAIN tasks :
    LET t == tasks[i]
    IN  t.kind = "send" /\ t.pc = "over" /\ t.reply # << >> /\ t.reply[1].parts # << >> =>
          \A k \in extractScannable(t.reply[1]) : \A c \in t.reply[1].parts[k].text :
            (\A p \in t.live : Guarded(p, c)) => t.open \/ t.toast = "warn"

\* A message goes out at most once for each time the user submits, however
\* the submissions of one composer overlap, fail and set their flag.
NoMoreMessagesThanSubmits ==
  Cardinality({i \in DOMAIN tasks : tasks[i].kind = "send" /\ tasks[i].chat}) <= presses

\* Every request of the page is sent or fails, also if the Agent never
\* answers: the timers of askAgent and askAgentFile.
RequestsSettle == []<>(\A i \in DOMAIN tasks : tasks[i].pc \in Settled)

\* A site every list has had is never given up because the Agent could not be
\* reached ("leave whatever's already registered alone"); only a refusal,
\* which is read as an empty list, does that.
ListedSitesStayCovered ==
  [][\A d \in registered \ registered' : d \notin always \/ refused]_vars

\* Once the edits of the policy's list have ended, the sites covered are and
\* stay the listed ones the extension may touch, whatever syncs overlapped,
\* failed or died before.
SitesConverge == <>[](registered = Target(listed))

\* Guarded content crosses the page's boundary, outwards or inwards, only with
\* a notice or unscanned for want of an answer.
GuardedCrossesOpenly == TypeOK /\ GuardedLeavesOpenly /\ GuardedAnswersAreWithheld

-----------------------------------------------------------------------------
(* What comments of the code say and TLC refutes *)

\* main-world-interceptor.js:344, of formData.set for a masked file: "replaces
\* just this entry -- other clean files/fields are untouched".
OtherEntriesAreUntouched ==
  \A i \in DOMAIN tasks : tasks[i].pc = "sent" => tasks[i].gone = {}
=============================================================================
