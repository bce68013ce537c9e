--------------------------- MODULE ProxyPipeline ----------------------------
(***************************************************************************)
(* The reverse proxy: handle_request (chat requests, file uploads) and     *)
(* handle_mcp (tool calls), from the body that was read to the answer the  *)
(* client gets, with the audit sinks on the way.                           *)
(*                                                                         *)
(* Every await of a handler is a step boundary: there other requests run,  *)
(* the policy may be replaced (hot reload, policy sync), and the handler   *)
(* ends without a trace when the client hangs up, because hyper drops it.  *)
(* A text is the set of finding categories the detectors report for it     *)
(* (module Inspection); streamed answers are module StreamScan.            *)
(***************************************************************************)
EXTENDS Verdicts

CONSTANTS
  Reqs,             \* requests
  Requests,         \* [Reqs -> set of requests it may be]
  Replies,          \* [Reqs -> set of answers an upstream may give it]
  Policies,         \* policies the Agent may have
  Configs,          \* proxy configurations
  Tools,            \* tool names of the MCP policy
  MaxChanges        \* bound: replacements of the policy

ASSUME PoliciesAssumption == \A p \in Policies : WellTyped(p)

\* A multipart field: an upload has an extension; "cut" is where parsing fails.
Fields == [ext : STRING, shape : {"text", "unsupported", "cut"}, text : SUBSET Categories]

ASSUME RequestsAssumption ==
  \A r \in Reqs : \A q \in Requests[r] :
    /\ q.kind \in {"unreadable", "json", "text", "multipart", "mcp"}
    /\ q.kind = "multipart" => q.fields \in Seq(Fields)
    /\ q.kind \in {"json", "text", "mcp"} => q.text \subseteq Categories

ASSUME RepliesAssumption == \A r \in Reqs : \A a \in Replies[r] : a.text \subseteq Categories

ASSUME ChangesAssumption == MaxChanges \in Nat

VARIABLES
  config,       \* ProxyConfig, fixed at start
  policy,       \* the Inspector's live policy
  changes,      \* how often it was replaced
  denied_tools, \* the MCP firewall's tool policy
  pc,           \* where each handler stands
  req,          \* what the client sent
  field,        \* next multipart field
  seen,         \* combined_text so far
  scan,         \* the verdict on the request
  reply,        \* the upstream's answer
  rscan,        \* the verdict on the answer
  sent,         \* what the upstream received
  got,          \* what the client received of the upstream's answer
  status,       \* the answer's status, 0 before there is one
  stored, siem, \* events in the two sinks
  lost,         \* ghost: events whose save_event failed
  live          \* ghost: policies that were live while the request was scanned

vars == << config, policy, changes, denied_tools, pc, req, field, seen, scan, reply, rscan,
           sent, got, status, stored, siem, lost, live >>

env == << config, policy, changes, denied_tools >>

Null == [kind |-> "null"]
Bytes(T) == [kind |-> "bytes", text |-> T]

-----------------------------------------------------------------------------
(* Requests and their text *)

blocked_upload_result == [kind |-> "scan", action |-> "Block", sanitized |-> {}]

\* A compressed body is scanned as it is: no detector sees its text.
Visible(x) == IF x.encoded THEN {} ELSE x.text

\* All the text of a request, scanned or not.
Content(q) == IF q.kind = "multipart" THEN UNION {q.fields[i].text : i \in DOMAIN q.fields} ELSE q.text

-----------------------------------------------------------------------------
(* Providers *)

\* The explicit header wins, then the model's family; "openai" for the rest.
resolve_provider_name(header, model) ==
  IF header # "" THEN header
  ELSE CASE model \in {"gpt", "o1", "o3"} -> "openai"
         [] model = "claude" -> "anthropic"
         [] model = "sonar" -> "perplexity"
         [] model \in {"mistral", "pixtral", "codestral"} -> "mistral"
         [] model \in {"command", "cohere"} -> "cohere"
         [] model = "llama" -> "ollama"
         [] model \in {"gemini", "grok", "deepseek", "openrouter", "ollama"} -> model
         [] OTHER -> "openai"

\* The provider of a request, or "" for the single upstream. Only JSON has one.
resolve(q) ==
  LET name == resolve_provider_name(q.header, q.model)
  IN  IF q.kind = "json" /\ name \in DOMAIN config.providers THEN name ELSE ""

streaming_support(name) == config.providers[name]

-----------------------------------------------------------------------------
Init ==
  /\ config \in Configs /\ policy \in Policies /\ changes = 0 /\ denied_tools = Tools
  /\ pc = [r \in Reqs |-> "idle"] /\ req = [r \in Reqs |-> Null]
  /\ field = [r \in Reqs |-> 1] /\ seen = [r \in Reqs |-> {}]
  /\ scan = [r \in Reqs |-> Null] /\ reply = [r \in Reqs |-> Null] /\ rscan = [r \in Reqs |-> Null]
  /\ sent = [r \in Reqs |-> Null] /\ got = [r \in Reqs |-> Null]
  /\ status = [r \in Reqs |-> 0]
  /\ stored = {} /\ siem = {} /\ lost = {}
  /\ live = [r \in Reqs |-> {}]

Goto(r, l) == pc' = [pc EXCEPT ![r] = l]

\* Mutant: the early return is missing.
AnswerWithoutReturn(r, code) == UNCHANGED pc /\ status' = [status EXCEPT ![r] = code]

Answer(r, code) == Goto(r, "done") /\ status' = [status EXCEPT ![r] = code]

SetScan(r, s) == scan' = [scan EXCEPT ![r] = s]

\* A request arrives and its body is read; 400 when it is too large or breaks off.
Arrive(r) ==
  /\ pc[r] = "idle"
  /\ \E q \in Requests[r] :
       /\ req' = [req EXCEPT ![r] = q]
       /\ IF q.kind = "unreadable" THEN Answer(r, 400)
          ELSE /\ Goto(r, CASE q.kind = "mcp" -> "mcp" [] q.kind = "multipart" -> "fields" [] OTHER -> "scan")
               /\ UNCHANGED status
  /\ live' = [live EXCEPT ![r] = {policy}]
  /\ UNCHANGED << env, field, seen, scan, reply, rscan, sent, got, stored, siem, lost >>

\* Mutant: only findings are audited.
ScanBodyQuiet(r) ==
  /\ pc[r] = "scan"
  /\ SetScan(r, inspect(policy, Visible(req[r])))
  /\ Goto(r, IF scan'[r].action = "Allow" THEN "enforce" ELSE "save")
  /\ UNCHANGED << env, req, field, seen, reply, rscan, sent, got, status, stored, siem, lost, live >>

\* A chat request is scanned as text.
ScanBody(r) ==
  /\ pc[r] = "scan"
  /\ SetScan(r, inspect(policy, Visible(req[r])))
  /\ Goto(r, "save")
  /\ UNCHANGED << env, req, field, seen, reply, rscan, sent, got, status, stored, siem, lost, live >>

\* The scan of everything collected: Redact becomes Block, because masked
\* text cannot be put back into a file.
scan_combined(r) ==
  LET s == inspect(policy, IF req[r].boundary THEN seen[r] ELSE {})
  IN  IF req[r].boundary /\ s.action = "Redact" THEN [s EXCEPT !.action = "Block"] ELSE s

\* Mutant: the loop ends at the first file that cannot be extracted.
ScanFieldStops(r) ==
  LET f      == req[r].fields[field[r]]
      upload == IF f.ext = "" THEN "Inspect" ELSE upload_action(policy, f.ext)
  IN  /\ pc[r] = "fields" /\ req[r].boundary
      /\ field[r] <= Len(req[r].fields) /\ f.shape # "cut"
      /\ IF upload = "Block"
         THEN SetScan(r, blocked_upload_result) /\ Goto(r, "save") /\ UNCHANGED << field, seen >>
         ELSE /\ field' = [field EXCEPT ![r] = IF f.shape = "text" THEN @ + 1 ELSE Len(req[r].fields) + 1]
              /\ seen' = IF upload = "Inspect" /\ f.shape = "text"
                         THEN [seen EXCEPT ![r] = @ \cup f.text] ELSE seen
              /\ UNCHANGED << pc, scan >>
      /\ UNCHANGED << env, req, reply, rscan, sent, got, status, stored, siem, lost, live >>

\* scan_multipart_request, one field: an upload's type may block or exempt it;
\* what cannot be read or extracted is let through unscanned.
ScanField(r) ==
  LET f      == req[r].fields[field[r]]
      upload == IF f.ext = "" THEN "Inspect" ELSE upload_action(policy, f.ext)
  IN  /\ pc[r] = "fields" /\ req[r].boundary
      /\ field[r] <= Len(req[r].fields) /\ f.shape # "cut"
      /\ IF upload = "Block"
         THEN SetScan(r, blocked_upload_result) /\ Goto(r, "save") /\ UNCHANGED << field, seen >>
         ELSE /\ field' = [field EXCEPT ![r] = @ + 1]
              /\ seen' = IF upload = "Inspect" /\ f.shape = "text"
                         THEN [seen EXCEPT ![r] = @ \cup f.text] ELSE seen
              /\ UNCHANGED << pc, scan >>
      /\ UNCHANGED << env, req, reply, rscan, sent, got, status, stored, siem, lost, live >>

\* Mutant: a parse error is skipped like an unreadable file.
ScanFieldsNoBreak(r) ==
  /\ pc[r] = "fields"
  /\ ~ req[r].boundary \/ field[r] > Len(req[r].fields)
  /\ SetScan(r, scan_combined(r))
  /\ Goto(r, "save")
  /\ UNCHANGED << env, req, field, seen, reply, rscan, sent, got, status, stored, siem, lost, live >>

\* scan_multipart_request, behind the last field or a parse error, or at once
\* when the content type names no boundary.
ScanFields(r) ==
  /\ pc[r] = "fields"
  /\ \/ ~ req[r].boundary
     \/ field[r] > Len(req[r].fields)
     \/ field[r] <= Len(req[r].fields) /\ req[r].fields[field[r]].shape = "cut"
  /\ SetScan(r, scan_combined(r))
  /\ Goto(r, "save")
  /\ UNCHANGED << env, req, field, seen, reply, rscan, sent, got, status, stored, siem, lost, live >>

-----------------------------------------------------------------------------
(* Audit: persist_event and persist_mcp_event, first the database, then SIEM. *)
(* A step is the end of an await, with the sink's answer; it may never come.  *)

Leg(r) == IF rscan[r] = Null THEN IF req[r].kind = "mcp" THEN "mcp" ELSE "request" ELSE "response"

\* A tool call that needs approval is recorded as Warn.
Recorded(r) ==
  CASE Leg(r) = "response" -> rscan[r].action
    [] Leg(r) = "mcp" /\ scan[r].action = "RequireApproval" -> "Warn"
    [] OTHER -> scan[r].action

Event(r) == << r, Leg(r), Recorded(r) >>

save_event(r) ==
  /\ pc[r] = "save"
  /\ \/ config.storage /\ stored' = stored \cup {Event(r)} /\ UNCHANGED lost
     \/ config.storage /\ lost' = lost \cup {Event(r)} /\ UNCHANGED stored
     \/ ~ config.storage /\ UNCHANGED << stored, lost >>
  /\ Goto(r, "forward")
  /\ UNCHANGED << env, req, field, seen, scan, reply, rscan, sent, got, status, siem, live >>

forward_siem(r) ==
  /\ pc[r] = "forward"
  /\ siem' = IF config.siem THEN siem \cup {Event(r)} ELSE siem
  /\ Goto(r, CASE Leg(r) = "response" -> "deliver" [] Leg(r) = "mcp" -> "mcp_enforce" [] OTHER -> "enforce")
  /\ UNCHANGED << env, req, field, seen, scan, reply, rscan, sent, got, status, stored, lost, live >>

-----------------------------------------------------------------------------
(* The way out *)

outgoing_body(r) == IF scan[r].action = "Redact" THEN scan[r].sanitized ELSE Content(req[r])

\* Refused by the policy, or because the provider cannot stream or translate.
Refuse(r) ==
  /\ pc[r] = "enforce"
  /\ \/ Denied(scan[r].action) /\ Answer(r, 403)
     \/ /\ ~ Denied(scan[r].action) /\ resolve(req[r]) # ""
        /\ \/ req[r].stream /\ streaming_support(resolve(req[r])) = "Unsupported"
           \/ ~ req[r].translatable
        /\ Answer(r, 400)
  /\ UNCHANGED << env, req, field, seen, scan, reply, rscan, sent, got, stored, siem, lost, live >>

\* Mutant: RequireApproval is not read as Block.
SendUnlessBlocked(r) ==
  /\ pc[r] = "enforce" /\ scan[r].action # "Block"
  /\ sent' = [sent EXCEPT ![r] = Bytes(outgoing_body(r))]
  /\ Goto(r, "await")
  /\ UNCHANGED << env, req, field, seen, scan, reply, rscan, got, status, stored, siem, lost, live >>

\* forward_via_provider or forward_upstream, up to send().await.
Send(r) ==
  /\ pc[r] = "enforce" /\ ~ Denied(scan[r].action)
  /\ resolve(req[r]) # "" =>
       req[r].translatable /\ ~ (req[r].stream /\ streaming_support(resolve(req[r])) = "Unsupported")
  /\ sent' = [sent EXCEPT ![r] = Bytes(outgoing_body(r))]
  /\ Goto(r, "await")
  /\ UNCHANGED << env, req, field, seen, scan, reply, rscan, got, status, stored, siem, lost, live >>

\* The upstream answers (external): the head, and of an answer that is not a
\* stream the body as far as it comes.  Only a client that offered an encoding to
\* the single upstream gets an encoded answer: providers see no client header.
UpstreamReplies(r) ==
  /\ pc[r] = "await"
  /\ \E a \in Replies[r] :
       /\ a.encoded => req[r].kind # "mcp" /\ resolve(req[r]) = ""
       /\ reply' = [reply EXCEPT ![r] = a]
  /\ Goto(r, IF req[r].kind = "mcp" THEN "mcp_reply" ELSE "reply")
  /\ UNCHANGED << env, req, field, seen, scan, rscan, sent, got, status, stored, siem, lost, live >>

\* send() fails: the connection is refused or breaks.
UpstreamFails(r) ==
  /\ pc[r] = "await"
  /\ Answer(r, 502)
  /\ UNCHANGED << env, req, field, seen, scan, reply, rscan, sent, got, stored, siem, lost, live >>

-----------------------------------------------------------------------------
(* The way back *)

\* Server-sent events on both paths; a declared length over MAX_BODY_BYTES
\* counts as a stream only on the path without providers.
Streams(r) == reply[r].sse \/ (reply[r].large /\ resolve(req[r]) = "")

\* The windowed scan (module StreamScan) delivers what the policy allows, up
\* to the first blocked window; nothing is persisted.
StreamReply(r) ==
  /\ pc[r] = "reply" /\ Streams(r)
  /\ resolve(req[r]) # "" => streaming_support(resolve(req[r])) # "Unsupported"
  /\ \E T \in SUBSET reply[r].text :
       /\ reply[r].encoded \/ \A c \in T : ~ Guarded(policy, c)
       /\ got' = [got EXCEPT ![r] = Bytes(T)]
  /\ Answer(r, 200)
  /\ UNCHANGED << env, req, field, seen, scan, reply, rscan, sent, stored, siem, lost, live >>

\* A provider that cannot stream streamed anyway; the body breaks off; the
\* provider's translation fails.
ReplyFails(r) ==
  /\ pc[r] = "reply"
  /\ \/ /\ reply[r].sse /\ resolve(req[r]) # "" /\ streaming_support(resolve(req[r])) = "Unsupported"
        /\ Answer(r, 500)
     \/ ~ Streams(r) /\ ~ reply[r].complete /\ Answer(r, 502)
  /\ UNCHANGED << env, req, field, seen, scan, reply, rscan, sent, got, stored, siem, lost, live >>

\* buffer_and_scan_response, up to persist_event.
ScanReply(r) ==
  /\ pc[r] = "reply" /\ ~ Streams(r) /\ reply[r].complete
  /\ rscan' = [rscan EXCEPT ![r] = inspect(policy, Visible(reply[r]))]
  /\ Goto(r, "save")
  /\ UNCHANGED << env, req, field, seen, scan, reply, sent, got, status, stored, siem, lost, live >>

\* Mutant: the answer is masked but never blocked.
DeliverAlways(r) ==
  /\ pc[r] = "deliver"
  /\ got' = [got EXCEPT ![r] = Bytes(rscan[r].sanitized)]
  /\ Answer(r, 200)
  /\ UNCHANGED << env, req, field, seen, scan, reply, rscan, sent, stored, siem, lost, live >>

\* buffer_and_scan_response, behind persist_event.
Deliver(r) ==
  /\ pc[r] = "deliver"
  /\ IF Denied(rscan[r].action) THEN Answer(r, 403) /\ UNCHANGED got
     ELSE /\ got' = [got EXCEPT ![r] = Bytes(IF rscan[r].action = "Redact" THEN rscan[r].sanitized ELSE reply[r].text)]
          /\ Answer(r, 200)
  /\ UNCHANGED << env, req, field, seen, scan, reply, rscan, sent, stored, siem, lost, live >>

-----------------------------------------------------------------------------
(* The tool firewall *)

\* The codes of jsonrpc_error_response, sent with status 200.
NotLicensed == -32003
ToolBlocked == -32000
NeedsApproval == -32001
NoMcpUpstream == -32002

\* The firewall's engine is not part of this repository: a denied tool is
\* blocked, any other may still be over its rate or need approval.
evaluate_tool(tool) ==
  IF tool \in denied_tools THEN {"Block"} ELSE {"Allow", "RequireApproval", "Block"}

\* handle_mcp_inner, up to persist_mcp_event: an unlicensed Agent refuses all
\* of MCP; only tools/call is judged.
McpJudge(r) ==
  /\ pc[r] = "mcp" /\ config.mcp_enabled
  /\ IF req[r].tool = "" THEN SetScan(r, [kind |-> "scan", action |-> "Allow", sanitized |-> {}]) /\ Goto(r, "mcp_send")
     ELSE /\ config.firewall
          /\ \E a \in evaluate_tool(req[r].tool) : SetScan(r, [kind |-> "scan", action |-> a, sanitized |-> {}])
          /\ Goto(r, "save")
  /\ UNCHANGED << env, req, field, seen, reply, rscan, sent, got, status, stored, siem, lost, live >>

McpUnlicensed(r) ==
  /\ pc[r] = "mcp" /\ (~ config.mcp_enabled \/ (req[r].tool # "" /\ ~ config.firewall))
  /\ Answer(r, NotLicensed)
  /\ UNCHANGED << env, req, field, seen, scan, reply, rscan, sent, got, stored, siem, lost, live >>

McpEnforce(r) ==
  /\ pc[r] = "mcp_enforce"
  /\ CASE scan[r].action = "Block" -> Answer(r, ToolBlocked)
       [] scan[r].action = "RequireApproval" -> Answer(r, NeedsApproval)
       [] OTHER -> Goto(r, "mcp_send") /\ UNCHANGED status
  /\ UNCHANGED << env, req, field, seen, scan, reply, rscan, sent, got, stored, siem, lost, live >>

McpSend(r) ==
  /\ pc[r] = "mcp_send"
  /\ IF config.mcp_upstream THEN sent' = [sent EXCEPT ![r] = Bytes(Content(req[r]))] /\ Goto(r, "await") /\ UNCHANGED status
     ELSE Answer(r, NoMcpUpstream) /\ UNCHANGED sent
  /\ UNCHANGED << env, req, field, seen, scan, reply, rscan, got, stored, siem, lost, live >>

\* The tool server's answer is passed on unscanned.
McpReply(r) ==
  /\ pc[r] = "mcp_reply"
  /\ IF reply[r].complete THEN Answer(r, 200) /\ got' = [got EXCEPT ![r] = Bytes(reply[r].text)]
     ELSE Answer(r, 502) /\ UNCHANGED got
  /\ UNCHANGED << env, req, field, seen, scan, reply, rscan, sent, stored, siem, lost, live >>

-----------------------------------------------------------------------------
(* The environment *)

Scanning(r) == pc[r] \in {"scan", "fields"}

\* Hot reload or sync replaces the policy, update_config the tool policy.
ChangePolicy ==
  /\ changes < MaxChanges /\ changes' = changes + 1
  /\ \E p \in Policies \ {policy} :
       /\ policy' = p
       /\ live' = [r \in Reqs |-> IF Scanning(r) THEN live[r] \cup {p} ELSE live[r]]
  /\ denied_tools' \in SUBSET Tools
  /\ UNCHANGED << config, pc, req, field, seen, scan, reply, rscan, sent, got, status, stored, siem, lost >>

\* The client closes its connection: the handler is dropped where it stands.
Disconnect(r) ==
  /\ pc[r] \notin {"idle", "done", "gone"}
  /\ Goto(r, "gone")
  /\ UNCHANGED << env, req, field, seen, scan, reply, rscan, sent, got, status, stored, siem, lost, live >>

\* The handler's steps, the ends of its waits for a sink included.
Handle(r) ==
  \/ ScanBody(r) \/ ScanField(r) \/ ScanFields(r) \/ save_event(r) \/ forward_siem(r)
  \/ Refuse(r) \/ Send(r) \/ StreamReply(r) \/ ReplyFails(r) \/ ScanReply(r) \/ Deliver(r)
  \/ McpJudge(r) \/ McpUnlicensed(r) \/ McpEnforce(r) \/ McpSend(r) \/ McpReply(r)

Next ==
  \/ \E r \in Reqs : Arrive(r) \/ Handle(r) \/ UpstreamReplies(r) \/ UpstreamFails(r) \/ Disconnect(r)
  \/ ChangePolicy

Spec == Init /\ [][Next]_vars

\* It waits for a sink: persist_event awaits the database, possibly on another
\* machine, and the SIEM, without a time limit.
AtSink(r) == (pc[r] = "save" /\ config.storage) \/ (pc[r] = "forward" /\ config.siem)

\* The handler is scheduled; sinks, upstream and client owe nothing.
FairSpec == Spec /\ \A r \in Reqs : WF_vars(~ AtSink(r) /\ Handle(r))

-----------------------------------------------------------------------------
(* Properties *)

Labels == {"idle", "scan", "fields", "save", "forward", "enforce", "await", "reply", "deliver",
           "mcp", "mcp_enforce", "mcp_send", "mcp_reply", "done", "gone"}
Types == {"request", "response", "mcp"}
Scans == [kind : {"scan"}, action : Actions, sanitized : SUBSET Categories]

TypeOK ==
  /\ changes \in 0 .. MaxChanges /\ policy \in Policies /\ denied_tools \subseteq Tools
  /\ pc \in [Reqs -> Labels]
  /\ scan \in [Reqs -> Scans \cup {Null}] /\ rscan \in [Reqs -> Scans \cup {Null}]
  /\ seen \in [Reqs -> SUBSET Categories]
  /\ stored \cup siem \cup lost \subseteq Reqs \X Types \X Actions
  /\ \A r \in Reqs : pc[r] = "done" <=> status[r] # 0

verdict_of(s) == IF s = Null THEN "none" ELSE s.action

Over(r) == pc[r] \in {"done", "gone"}

PassingActions == {"Allow", "Audit", "Warn", "Redact"}
DenyingActions == {"RequireApproval", "Block"}

\* The prompts and tool calls on their way out ...
out_verdict == [r \in Reqs |-> verdict_of(scan[r])]
out_fate == [r \in Reqs |-> IF sent[r] # Null THEN "released" ELSE IF Over(r) THEN "refused" ELSE "held"]

Out == INSTANCE Gatekeeper WITH Items <- Reqs, Passing <- PassingActions, Denying <- DenyingActions,
                                verdict <- out_verdict, fate <- out_fate

\* ... and the buffered answers on their way in. A streamed answer and a
\* tool's answer have no single verdict and are held for ever here.
in_verdict == [r \in Reqs |-> verdict_of(rscan[r])]
in_fate ==
  [r \in Reqs |-> IF rscan[r] = Null THEN "held" ELSE IF got[r] # Null THEN "released"
                  ELSE IF Over(r) THEN "refused" ELSE "held"]

In == INSTANCE Gatekeeper WITH Items <- Reqs, Passing <- PassingActions, Denying <- DenyingActions,
                               verdict <- in_verdict, fate <- in_fate

\* The proxy is a Gatekeeper for what it sends: whatever the interleaving, the
\* configuration and the moment the client hangs up, no prompt and no tool
\* call leaves unjudged, twice, or behind a verdict that denies it.
PromptsGated == Out!Spec

\* ... and for the answers it buffers.
AnswersGated == In!Spec

OnRecord(r, type) ==
  \E a \in Actions :
    /\ ~ Denied(a)
    /\ config.storage => << r, type, a >> \in stored \cup lost
    /\ config.siem => << r, type, a >> \in siem

\* What crossed the proxy was on record before it did: for every prompt and
\* tool call the upstream received and every buffered answer the client
\* received, an event that lets it pass had been handed to each sink.
CrossedIsOnRecord ==
  \A r \in Reqs :
    /\ sent[r] # Null /\ (req[r].kind = "mcp" => req[r].tool # "") =>
         OnRecord(r, IF req[r].kind = "mcp" THEN "mcp" ELSE "request")
    /\ got[r] # Null /\ rscan[r] # Null => OnRecord(r, "response")

\* The audit trail never contradicts itself or the outcome: both sinks tell
\* the same action for a leg of a request, and what they call denied did not
\* cross.
RecordTellsOutcome ==
  /\ \A e, f \in stored \cup siem \cup lost : e[1] = f[1] /\ e[2] = f[2] => e[3] = f[3]
  /\ \A e \in stored \cup siem :
       Denied(e[3]) => IF e[2] = "response" THEN got[e[1]] = Null ELSE sent[e[1]] = Null

\* The parts of a request no scan reads: compressed bodies, multipart without
\* a boundary, everything behind a parse error, files of a type the policy
\* exempted, and files that cannot be read or extracted.
Exempt(r) ==
  LET q == req[r]
  IN  IF q.kind # "multipart" THEN IF q.encoded THEN q.text ELSE {}
      ELSE UNION {q.fields[i].text : i \in {k \in DOMAIN q.fields :
             \/ ~ q.boundary
             \/ q.fields[k].shape # "text"
             \/ \E j \in 1 .. k : q.fields[j].shape = "cut"
             \/ q.fields[k].ext # "" /\ \E p \in live[r] : upload_action(p, q.fields[k].ext) = "Allow"}}

\* A category that every policy live during the scan masks or denies reaches
\* the upstream only in those parts, also when the policy changes between two
\* fields of an upload.
GuardedOnlyInExemptParts ==
  \A r \in Reqs :
    sent[r] # Null /\ req[r].kind # "mcp" =>
      \A c \in sent[r].text : (\A p \in live[r] : Guarded(p, c)) => c \in Exempt(r)

\* The proxy never sits on a request: as long as the handler is scheduled, only
\* the upstream and the configured sinks (none of which has a time limit) can
\* keep the client waiting, before and after each of these waits.
HandlerAnswers ==
  \A r \in Reqs : pc[r] # "idle" ~> (pc[r] \in {"await", "done", "gone"} \/ AtSink(r))

\* The audit trail is complete and tells the truth, whenever the client hangs
\* up and whichever sink fails (record_event, the save before each exit).
RecordExact == TypeOK /\ CrossedIsOnRecord /\ RecordTellsOutcome
=============================================================================
