------------------------ MODULE ProxyPipelineProofs -------------------------
(***************************************************************************)
(* The proxy implements Gatekeeper on both legs, its audit trail tells     *)
(* what happened, and what its policies guard crosses only in the parts no *)
(* scan reads: for every set of requests, policies, configurations and     *)
(* answers.  Last, about answers that are scanned while they stream        *)
(* (StreamScan): for any body, secrets, hold-back and way of arriving.     *)
(*                                                                         *)
(*   StageInv    what the handler holds at each place it can be at         *)
(*   HandledInv  the request and the answer it works on there               *)
(*   TrailInv    what the sinks hold of a request that got that far        *)
(*   TextInv     how much of an upload the fields scanned so far cover     *)
(***************************************************************************)
EXTENDS ProxyPipeline, StreamScan, VerdictsProofs

\* A map over the requests, whatever its values are.
Mapped(f) == f = [r \in Reqs |-> f[r]]

\* What is known of a request at each place of its handler.
Stage(r) ==
  /\ scan[r] # Null => scan[r].action \in Actions
  /\ rscan[r] # Null => rscan[r].action \in Actions /\ sent[r] # Null
  /\ scan[r] = Null => sent[r] = Null
  /\ pc[r] \in {"idle", "scan", "fields", "mcp"} => scan[r] = Null
  /\ pc[r] \in {"save", "forward"} => scan[r] # Null /\ (rscan[r] = Null => sent[r] = Null) /\ got[r] = Null
  /\ pc[r] \in {"enforce", "mcp_enforce", "mcp_send"} => scan[r] # Null /\ sent[r] = Null
  /\ pc[r] = "mcp_send" => ~ Denied(scan[r].action)
  /\ pc[r] \in {"await", "reply", "mcp_reply"} => sent[r] # Null /\ rscan[r] = Null
  /\ pc[r] \in {"await", "reply", "mcp_reply"} => got[r] = Null
  /\ pc[r] = "deliver" => rscan[r] # Null /\ got[r] = Null
  /\ got[r] # Null => pc[r] = "done"

StageInv ==
  /\ policy \in Policies
  /\ Mapped(pc) /\ Mapped(scan) /\ Mapped(rscan) /\ Mapped(sent) /\ Mapped(got)
  /\ \A r \in Reqs : Stage(r)

-----------------------------------------------------------------------------
(* The verdicts *)

\* An inspection answers with one of the six actions.
LEMMA InspectIsScan ==
  ASSUME NEW p \in Policies, NEW T
  PROVE  inspect(p, T).action \in Actions /\ inspect(p, T) # Null
<1>1. inspect(p, T).action \in Actions
  BY PoliciesAssumption, InspectActs
<1>2. inspect(p, T) # Null
  BY DEF inspect, Null
<1> QED BY <1>1, <1>2

\* The verdict on an upload, with Redact turned into Block.
LEMMA CombinedIsScan ==
  ASSUME NEW r \in Reqs, policy \in Policies
  PROVE  scan_combined(r).action \in Actions /\ scan_combined(r) # Null
<1> DEFINE s == inspect(policy, IF req[r].boundary THEN seen[r] ELSE {})
<1>1. s.action \in Actions /\ s # Null
  BY InspectIsScan
<1>2. s.kind = "scan" /\ DOMAIN s = {"kind", "action", "sanitized"}
  BY DEF inspect
<1>3. CASE req[r].boundary /\ s.action = "Redact"
  <2>1. scan_combined(r) = [s EXCEPT !.action = "Block"]
    BY <1>3 DEF scan_combined
  <2>2. [s EXCEPT !.action = "Block"].action = "Block" /\ [s EXCEPT !.action = "Block"].kind = "scan"
    BY <1>2
  <2>3. Null.kind = "null"
    BY DEF Null
  <2> QED BY <2>1, <2>2, <2>3 DEF Actions
<1>4. CASE ~ (req[r].boundary /\ s.action = "Redact")
  BY <1>1, <1>4 DEF scan_combined
<1> QED BY <1>3, <1>4

LEMMA BytesNotNull == \A T : Bytes(T) # Null
BY DEF Bytes, Null

-----------------------------------------------------------------------------
(* The stages are inductive *)

LEMMA InitStage == Init => StageInv
BY DEF Init, StageInv, Mapped, Stage, Null

\* A step that changes the state of one request only.
Only(r) ==
  \A q \in Reqs \ {r} :
    /\ pc'[q] = pc[q] /\ scan'[q] = scan[q] /\ rscan'[q] = rscan[q]
    /\ sent'[q] = sent[q] /\ got'[q] = got[q]

Maps == Mapped(pc) /\ Mapped(scan) /\ Mapped(rscan) /\ Mapped(sent) /\ Mapped(got)

LEMMA ArriveStage ==
  ASSUME StageInv, NEW r \in Reqs, Arrive(r)
  PROVE  policy' \in Policies /\ Maps' /\ Only(r) /\ Stage(r)'
BY DEF StageInv, Maps, Mapped, Only, Stage, Arrive, Goto, Answer, env, Null

LEMMA ScanStage ==
  ASSUME StageInv, NEW r \in Reqs, ScanBody(r) \/ ScanField(r) \/ ScanFields(r)
  PROVE  policy' \in Policies /\ Maps' /\ Only(r) /\ Stage(r)'
<1>1. CASE ScanBody(r)
  <2> DEFINE s == inspect(policy, Visible(req[r]))
  <2>1. s.action \in Actions /\ s # Null
    BY InspectIsScan DEF StageInv
  <2>2. pc[r] = "scan" /\ pc' = [pc EXCEPT ![r] = "save"] /\ scan' = [scan EXCEPT ![r] = s]
        /\ policy' = policy /\ rscan' = rscan /\ sent' = sent /\ got' = got
    BY <1>1 DEF ScanBody, SetScan, Goto, env
  <2> HIDE DEF s
  <2> QED BY <2>1, <2>2 DEF StageInv, Maps, Mapped, Only, Stage
<1>2. CASE ScanField(r)
  <2>1. pc[r] = "fields" /\ policy' = policy /\ rscan' = rscan /\ sent' = sent /\ got' = got
    BY <1>2 DEF ScanField, env
  <2>2. \/ pc' = pc /\ scan' = scan
        \/ pc' = [pc EXCEPT ![r] = "save"] /\ scan' = [scan EXCEPT ![r] = blocked_upload_result]
    BY <1>2 DEF ScanField, SetScan, Goto
  <2>3. blocked_upload_result.action \in Actions /\ blocked_upload_result # Null
    BY DEF blocked_upload_result, Null, Actions
  <2> QED BY <2>1, <2>2, <2>3 DEF StageInv, Maps, Mapped, Only, Stage
<1>3. CASE ScanFields(r)
  <2>1. scan_combined(r).action \in Actions /\ scan_combined(r) # Null
    BY CombinedIsScan DEF StageInv
  <2>2. pc[r] = "fields" /\ pc' = [pc EXCEPT ![r] = "save"] /\ scan' = [scan EXCEPT ![r] = scan_combined(r)]
        /\ policy' = policy /\ rscan' = rscan /\ sent' = sent /\ got' = got
    BY <1>3 DEF ScanFields, SetScan, Goto, env
  <2> QED BY <2>1, <2>2 DEF StageInv, Maps, Mapped, Only, Stage
<1> QED BY <1>1, <1>2, <1>3

LEMMA AuditStage ==
  ASSUME StageInv, NEW r \in Reqs, save_event(r) \/ forward_siem(r)
  PROVE  policy' \in Policies /\ Maps' /\ Only(r) /\ Stage(r)'
<1>1. CASE save_event(r)
  BY <1>1 DEF save_event, Goto, env, StageInv, Maps, Mapped, Only, Stage
<1>2. CASE forward_siem(r)
  <2>1. policy' = policy /\ scan' = scan /\ rscan' = rscan /\ sent' = sent /\ got' = got /\ pc[r] = "forward"
    BY <1>2 DEF forward_siem, env
  <2>2. \/ rscan[r] # Null /\ pc' = [pc EXCEPT ![r] = "deliver"]
        \/ rscan[r] = Null /\ pc' = [pc EXCEPT ![r] = "mcp_enforce"]
        \/ rscan[r] = Null /\ pc' = [pc EXCEPT ![r] = "enforce"]
    <3>1. CASE rscan[r] = Null
      BY <1>2, <3>1 DEF forward_siem, Goto, Leg
    <3>2. CASE rscan[r] # Null
      BY <1>2, <3>2 DEF forward_siem, Goto, Leg
    <3> QED BY <3>1, <3>2
  <2> QED BY <2>1, <2>2 DEF StageInv, Maps, Mapped, Only, Stage
<1> QED BY <1>1, <1>2

LEMMA OutStage ==
  ASSUME StageInv, NEW r \in Reqs, Refuse(r) \/ Send(r) \/ UpstreamReplies(r) \/ UpstreamFails(r)
  PROVE  policy' \in Policies /\ Maps' /\ Only(r) /\ Stage(r)'
<1>1. CASE Refuse(r)
  BY <1>1, ZenonT(60) DEF Refuse, Answer, Goto, env, StageInv, Maps, Mapped, Only, Stage
<1>2. CASE Send(r)
  <2>1. pc[r] = "enforce" /\ pc' = [pc EXCEPT ![r] = "await"] /\ policy' = policy
        /\ sent' = [sent EXCEPT ![r] = Bytes(outgoing_body(r))] /\ scan' = scan /\ rscan' = rscan /\ got' = got
    BY <1>2 DEF Send, Goto, env
  <2>2. Bytes(outgoing_body(r)) # Null
    BY BytesNotNull
  <2>3. rscan[r] = Null /\ got[r] = Null
    BY <2>1 DEF StageInv, Stage
  <2> QED BY <2>1, <2>2, <2>3 DEF StageInv, Maps, Mapped, Only, Stage
<1>3. CASE UpstreamReplies(r)
  BY <1>3 DEF UpstreamReplies, Goto, env, StageInv, Maps, Mapped, Only, Stage
<1>4. CASE UpstreamFails(r)
  BY <1>4 DEF UpstreamFails, Answer, Goto, env, StageInv, Maps, Mapped, Only, Stage
<1> QED BY <1>1, <1>2, <1>3, <1>4

LEMMA BackStage ==
  ASSUME StageInv, NEW r \in Reqs, StreamReply(r) \/ ReplyFails(r) \/ ScanReply(r) \/ Deliver(r)
  PROVE  policy' \in Policies /\ Maps' /\ Only(r) /\ Stage(r)'
<1>1. CASE StreamReply(r)
  BY <1>1 DEF StreamReply, Answer, Goto, env, StageInv, Maps, Mapped, Only, Stage
<1>2. CASE ReplyFails(r)
  BY <1>2, ZenonT(60) DEF ReplyFails, Answer, Goto, env, StageInv, Maps, Mapped, Only, Stage
<1>3. CASE ScanReply(r)
  <2> DEFINE s == inspect(policy, Visible(reply[r]))
  <2>1. s.action \in Actions /\ s # Null
    BY InspectIsScan DEF StageInv
  <2>2. pc[r] = "reply" /\ pc' = [pc EXCEPT ![r] = "save"] /\ rscan' = [rscan EXCEPT ![r] = s]
        /\ policy' = policy /\ scan' = scan /\ sent' = sent /\ got' = got
    BY <1>3 DEF ScanReply, Goto, env
  <2> HIDE DEF s
  <2> QED BY <2>1, <2>2 DEF StageInv, Maps, Mapped, Only, Stage
<1>4. CASE Deliver(r)
  BY <1>4 DEF Deliver, Answer, Goto, env, StageInv, Maps, Mapped, Only, Stage
<1> QED BY <1>1, <1>2, <1>3, <1>4

LEMMA McpStage ==
  ASSUME StageInv, NEW r \in Reqs,
         McpJudge(r) \/ McpUnlicensed(r) \/ McpEnforce(r) \/ McpSend(r) \/ McpReply(r)
  PROVE  policy' \in Policies /\ Maps' /\ Only(r) /\ Stage(r)'
<1>1. CASE McpJudge(r)
  <2>1. pc[r] = "mcp" /\ policy' = policy /\ rscan' = rscan /\ sent' = sent /\ got' = got
    BY <1>1 DEF McpJudge, env
  <2>2. PICK a \in Actions, l \in {"mcp_send", "save"} :
          /\ l = "mcp_send" => a = "Allow"
          /\ scan' = [scan EXCEPT ![r] = [kind |-> "scan", action |-> a, sanitized |-> {}]]
          /\ pc' = [pc EXCEPT ![r] = l]
    BY <1>1 DEF McpJudge, SetScan, Goto, evaluate_tool, Actions
  <2>3. [kind |-> "scan", action |-> a, sanitized |-> {}] # Null
    BY DEF Null
  <2>4. ~ Denied("Allow")
    BY DEF Denied, enforcement_action
  <2> QED BY <2>1, <2>2, <2>3, <2>4 DEF StageInv, Maps, Mapped, Only, Stage
<1>2. CASE McpUnlicensed(r)
  <2>1. pc[r] = "mcp" /\ pc' = [pc EXCEPT ![r] = "done"] /\ policy' = policy
        /\ scan' = scan /\ rscan' = rscan /\ sent' = sent /\ got' = got
    <3>1. pc[r] = "mcp" /\ Goto(r, "done")
      BY <1>2, Zenon DEF McpUnlicensed, Answer
    <3>2. UNCHANGED << env, scan, rscan, sent, got >>
      BY <1>2, Zenon DEF McpUnlicensed
    <3> QED BY <3>1, <3>2 DEF env, Goto
  <2> QED BY <2>1 DEF StageInv, Maps, Mapped, Only, Stage
<1>3. CASE McpEnforce(r)
  <2>1. pc[r] = "mcp_enforce" /\ policy' = policy /\ scan' = scan /\ rscan' = rscan /\ sent' = sent /\ got' = got
    BY <1>3 DEF McpEnforce, env
  <2>2. \/ pc' = [pc EXCEPT ![r] = "done"]
        \/ pc' = [pc EXCEPT ![r] = "mcp_send"] /\ scan[r].action \notin {"Block", "RequireApproval"}
    BY <1>3 DEF McpEnforce, Answer, Goto
  <2>3. scan[r].action \notin {"Block", "RequireApproval"} => ~ Denied(scan[r].action)
    BY DEF Denied, enforcement_action
  <2> QED BY <2>1, <2>2, <2>3 DEF StageInv, Maps, Mapped, Only, Stage
<1>4. CASE McpSend(r)
  <2>1. pc[r] = "mcp_send" /\ policy' = policy /\ scan' = scan /\ rscan' = rscan /\ got' = got
    BY <1>4 DEF McpSend, env
  <2>2. \/ pc' = [pc EXCEPT ![r] = "await"] /\ sent' = [sent EXCEPT ![r] = Bytes(Content(req[r]))]
        \/ pc' = [pc EXCEPT ![r] = "done"] /\ sent' = sent
    BY <1>4 DEF McpSend, Answer, Goto
  <2>3. Bytes(Content(req[r])) # Null
    BY BytesNotNull
  <2>4. rscan[r] = Null /\ got[r] = Null
    BY <2>1 DEF StageInv, Stage
  <2> QED BY <2>1, <2>2, <2>3, <2>4 DEF StageInv, Maps, Mapped, Only, Stage
<1>5. CASE McpReply(r)
  BY <1>5 DEF McpReply, Answer, Goto, env, StageInv, Maps, Mapped, Only, Stage
<1> QED BY <1>1, <1>2, <1>3, <1>4, <1>5

LEMMA NextStage == StageInv /\ [Next]_vars => StageInv'
<1> SUFFICES ASSUME StageInv, [Next]_vars PROVE StageInv'
  OBVIOUS
<1>1. ASSUME NEW r \in Reqs, policy' \in Policies, Maps', Only(r), Stage(r)' PROVE StageInv'
  <2>1. \A q \in Reqs : Stage(q)'
    BY <1>1 DEF StageInv, Only, Stage
  <2> QED BY <1>1, <2>1 DEF StageInv, Maps
<1>2. ASSUME NEW r \in Reqs, Handle(r) PROVE StageInv'
  BY <1>1, <1>2, ScanStage, AuditStage, OutStage, BackStage, McpStage DEF Handle
<1>3. ASSUME NEW r \in Reqs, Arrive(r) PROVE StageInv'
  BY <1>1, <1>3, ArriveStage
<1>4. ASSUME NEW r \in Reqs, UpstreamReplies(r) \/ UpstreamFails(r) PROVE StageInv'
  BY <1>1, <1>4, OutStage
<1>5. ASSUME NEW r \in Reqs, Disconnect(r) PROVE StageInv'
  <2>1. policy' \in Policies /\ Maps' /\ Only(r) /\ Stage(r)'
    BY <1>5 DEF Disconnect, Goto, env, StageInv, Maps, Mapped, Only, Stage
  <2> QED BY <1>1, <2>1
<1>6. CASE ChangePolicy
  BY <1>6 DEF ChangePolicy, StageInv, Mapped, Stage
<1>7. CASE UNCHANGED vars
  BY <1>7 DEF vars, StageInv, Mapped, Stage
<1> QED BY <1>2, <1>3, <1>4, <1>5, <1>6, <1>7 DEF Next

LEMMA StageInvariant == Spec => []StageInv
BY InitStage, NextStage, PTL DEF Spec

\* Two maps that agree everywhere but at r differ by an update at r.
LEMMA DifferAtOne ==
  ASSUME NEW f, NEW g, Mapped(f), Mapped(g), NEW r \in Reqs, \A q \in Reqs \ {r} : g[q] = f[q]
  PROVE  g = [f EXCEPT ![r] = g[r]] /\ (g[r] = f[r] => g = f)
BY DEF Mapped

-----------------------------------------------------------------------------
(* The way out refines Gatekeeper *)

\* How the outgoing leg of one request may change in a step.
OutHeld(r) == verdict_of(scan'[r]) = verdict_of(scan[r]) /\ (sent'[r] = Null <=> sent[r] = Null)

\* The three steps of Gatekeeper, for request r, on the variables of the proxy.
OutStep(r) ==
  \/ OutHeld(r) /\ (sent[r] = Null => (Over(r)' <=> Over(r)))
  \/ OutHeld(r) /\ sent[r] = Null /\ ~ Over(r) /\ Over(r)'
  \/ /\ scan[r] = Null /\ scan'[r] # Null /\ scan'[r].action \in Actions
     /\ sent[r] = Null /\ sent'[r] = Null /\ ~ Over(r) /\ ~ Over(r)'
  \/ /\ scan'[r] = scan[r] /\ scan[r] # Null /\ scan[r].action \in PassingActions
     /\ sent[r] = Null /\ sent'[r] # Null /\ ~ Over(r)

\* An action that is not denied is one that passes.
LEMMA NotDenied == \A a \in Actions : ~ Denied(a) => a \in PassingActions
BY DEF Actions, Denied, enforcement_action, PassingActions

LEMMA HandleOut ==
  ASSUME StageInv, NEW r \in Reqs, Handle(r)
  PROVE  OutStep(r)
<1> USE DEF OutStep, OutHeld, Over
<1>1. CASE ScanBody(r)
  <2> DEFINE s == inspect(policy, Visible(req[r]))
  <2>1. s.action \in Actions /\ s # Null
    BY InspectIsScan DEF StageInv
  <2>2. pc[r] = "scan" /\ pc' = [pc EXCEPT ![r] = "save"] /\ scan' = [scan EXCEPT ![r] = s] /\ sent' = sent
    BY <1>1 DEF ScanBody, SetScan, Goto
  <2> HIDE DEF s
  <2> QED BY <2>1, <2>2 DEF StageInv, Mapped, Stage
<1>2. CASE ScanField(r)
  <2>1. pc[r] = "fields" /\ sent' = sent
    BY <1>2 DEF ScanField
  <2>2. \/ pc' = pc /\ scan' = scan
        \/ pc' = [pc EXCEPT ![r] = "save"] /\ scan' = [scan EXCEPT ![r] = blocked_upload_result]
    BY <1>2 DEF ScanField, SetScan, Goto
  <2>3. blocked_upload_result.action \in Actions /\ blocked_upload_result # Null
    BY DEF blocked_upload_result, Null, Actions
  <2> QED BY <2>1, <2>2, <2>3 DEF StageInv, Mapped, Stage
<1>3. CASE ScanFields(r)
  <2>1. scan_combined(r).action \in Actions /\ scan_combined(r) # Null
    BY CombinedIsScan DEF StageInv
  <2>2. pc[r] = "fields" /\ pc' = [pc EXCEPT ![r] = "save"] /\ scan' = [scan EXCEPT ![r] = scan_combined(r)]
        /\ sent' = sent
    BY <1>3 DEF ScanFields, SetScan, Goto
  <2> QED BY <2>1, <2>2 DEF StageInv, Mapped, Stage
<1>4. CASE save_event(r) \/ ScanReply(r)
  BY <1>4 DEF save_event, ScanReply, Goto, StageInv, Mapped
<1>5. CASE forward_siem(r)
  <2>1. pc[r] = "forward" /\ scan' = scan /\ sent' = sent
    BY <1>5 DEF forward_siem
  <2>2. pc'[r] \in {"deliver", "mcp_enforce", "enforce"}
    BY <1>5 DEF forward_siem, Goto, StageInv, Mapped
  <2> QED BY <2>1, <2>2
<1>6. CASE Refuse(r) \/ StreamReply(r) \/ ReplyFails(r) \/ Deliver(r) \/ McpReply(r) \/ McpUnlicensed(r)
  <2>1. scan' = scan /\ sent' = sent /\ pc[r] \notin {"done", "gone"} /\ pc' = [pc EXCEPT ![r] = "done"]
    BY <1>6, ZenonT(60) DEF Refuse, StreamReply, ReplyFails, Deliver, McpReply, McpUnlicensed, Answer, Goto
  <2> QED BY <2>1 DEF StageInv, Mapped
<1>7. CASE Send(r)
  <2>1. pc[r] = "enforce" /\ ~ Denied(scan[r].action) /\ scan' = scan
        /\ sent' = [sent EXCEPT ![r] = Bytes(outgoing_body(r))]
    BY <1>7 DEF Send
  <2>2. scan[r] # Null /\ sent[r] = Null /\ scan[r].action \in PassingActions
    BY <2>1, NotDenied DEF StageInv, Stage
  <2>3. Bytes(outgoing_body(r)) # Null
    BY BytesNotNull
  <2> QED BY <2>1, <2>2, <2>3 DEF StageInv, Mapped
<1>8. CASE McpJudge(r)
  <2>1. pc[r] = "mcp" /\ sent' = sent
    BY <1>8 DEF McpJudge
  <2>2. PICK a \in Actions, l \in {"mcp_send", "save"} :
          /\ scan' = [scan EXCEPT ![r] = [kind |-> "scan", action |-> a, sanitized |-> {}]]
          /\ pc' = [pc EXCEPT ![r] = l]
    BY <1>8 DEF McpJudge, SetScan, Goto, evaluate_tool, Actions
  <2>3. [kind |-> "scan", action |-> a, sanitized |-> {}] # Null
    BY DEF Null
  <2> QED BY <2>1, <2>2, <2>3 DEF StageInv, Mapped, Stage
<1>9. CASE McpEnforce(r)
  <2>1. pc[r] = "mcp_enforce" /\ scan' = scan /\ sent' = sent
    BY <1>9 DEF McpEnforce
  <2>2. pc' = [pc EXCEPT ![r] = "done"] \/ pc' = [pc EXCEPT ![r] = "mcp_send"]
    BY <1>9 DEF McpEnforce, Answer, Goto
  <2> QED BY <2>1, <2>2 DEF StageInv, Mapped, Stage
<1>10. CASE McpSend(r)
  <2>1. pc[r] = "mcp_send" /\ scan' = scan
    BY <1>10 DEF McpSend
  <2>2. \/ pc' = [pc EXCEPT ![r] = "await"] /\ sent' = [sent EXCEPT ![r] = Bytes(Content(req[r]))]
        \/ pc' = [pc EXCEPT ![r] = "done"] /\ sent' = sent
    BY <1>10 DEF McpSend, Answer, Goto
  <2>3. scan[r] # Null /\ sent[r] = Null /\ scan[r].action \in PassingActions
    BY <2>1, NotDenied DEF StageInv, Stage
  <2>4. Bytes(Content(req[r])) # Null
    BY BytesNotNull
  <2> QED BY <2>1, <2>2, <2>3, <2>4 DEF StageInv, Mapped
<1> QED BY <1>1, <1>2, <1>3, <1>4, <1>5, <1>6, <1>7, <1>8, <1>9, <1>10 DEF Handle

\* A step of one request changes no other.
LEMMA HandleOnly == ASSUME StageInv, NEW r \in Reqs, Handle(r) PROVE Only(r)
BY ScanStage, AuditStage, OutStage, BackStage, McpStage DEF Handle

LEMMA EnvironmentOnly ==
  ASSUME StageInv, NEW r \in Reqs, Arrive(r) \/ UpstreamReplies(r) \/ UpstreamFails(r) \/ Disconnect(r)
  PROVE  Only(r)
<1>1. CASE Arrive(r) \/ UpstreamReplies(r) \/ UpstreamFails(r)
  BY <1>1, ArriveStage, OutStage
<1>2. CASE Disconnect(r)
  BY <1>2 DEF Disconnect, Goto, Only, StageInv, Mapped
<1> QED BY <1>1, <1>2

\* What a step of the proxy does to one request it does to none of the others.
LEMMA OneAtATime ==
  ASSUME StageInv, [Next]_vars
  PROVE  \/ UNCHANGED << pc, scan, rscan, sent, got >>
         \/ \E r \in Reqs : Only(r) /\ (Handle(r) \/ Arrive(r) \/ UpstreamReplies(r) \/ UpstreamFails(r) \/ Disconnect(r))
<1>1. ASSUME NEW r \in Reqs, Handle(r) PROVE Only(r)
  BY <1>1, HandleOnly
<1>2. ASSUME NEW r \in Reqs, Arrive(r) \/ UpstreamReplies(r) \/ UpstreamFails(r) \/ Disconnect(r) PROVE Only(r)
  BY <1>2, EnvironmentOnly
<1>3. CASE ChangePolicy
  BY <1>3 DEF ChangePolicy
<1>4. CASE UNCHANGED vars
  BY <1>4 DEF vars
<1> QED BY <1>1, <1>2, <1>3, <1>4 DEF Next

\* The steps that are not the handler's own end the request or keep its leg.
LEMMA EnvironmentOut ==
  ASSUME StageInv, NEW r \in Reqs, Arrive(r) \/ UpstreamReplies(r) \/ UpstreamFails(r) \/ Disconnect(r)
  PROVE  OutStep(r)
<1>1. scan' = scan /\ sent' = sent
  BY DEF Arrive, UpstreamReplies, UpstreamFails, Disconnect
<1>2. ~ Over(r)
  BY DEF Over, Arrive, UpstreamReplies, UpstreamFails, Disconnect
<1> QED BY <1>1, <1>2 DEF OutStep, OutHeld

LEMMA OutStepRefines ==
  ASSUME NEW r \in Reqs, Only(r), OutStep(r)
  PROVE  Out!Next \/ UNCHANGED Out!gvars
<1> USE DEF out_verdict, out_fate, verdict_of, Over, Only
<1>1. \A q \in Reqs \ {r} : out_verdict'[q] = out_verdict[q] /\ out_fate'[q] = out_fate[q]
  OBVIOUS
<1>0. /\ out_verdict' = [out_verdict EXCEPT ![r] = out_verdict'[r]] /\ (out_verdict'[r] = out_verdict[r] => out_verdict' = out_verdict)
      /\ out_fate' = [out_fate EXCEPT ![r] = out_fate'[r]] /\ (out_fate'[r] = out_fate[r] => out_fate' = out_fate)
  <2>1. Mapped(out_verdict) /\ Mapped(out_verdict') /\ Mapped(out_fate) /\ Mapped(out_fate')
    BY DEF Mapped
  <2> HIDE DEF out_verdict, out_fate, Only
  <2> QED BY <1>1, <2>1, DifferAtOne
<1>2. CASE OutHeld(r) /\ (sent[r] = Null => (Over(r)' <=> Over(r)))
  <2>1. out_verdict'[r] = out_verdict[r] /\ out_fate'[r] = out_fate[r]
    BY <1>2 DEF OutHeld
  <2>2. out_verdict' = out_verdict /\ out_fate' = out_fate
    <3> HIDE DEF out_verdict, out_fate
    <3> QED BY <1>0, <2>1
  <2> HIDE DEF out_verdict, out_fate
  <2> QED BY <2>2 DEF Out!gvars
<1>3. CASE OutHeld(r) /\ sent[r] = Null /\ ~ Over(r) /\ Over(r)'
  <2>1. out_verdict'[r] = out_verdict[r] /\ out_fate[r] = "held" /\ out_fate'[r] = "refused"
    BY <1>3 DEF OutHeld
  <2>2. out_verdict' = out_verdict /\ out_fate' = [out_fate EXCEPT ![r] = "refused"]
    <3> HIDE DEF out_verdict, out_fate
    <3> QED BY <1>0, <2>1
  <2> HIDE DEF out_verdict, out_fate
  <2> QED BY <2>1, <2>2 DEF Out!Next, Out!Refuse
<1>4. CASE /\ scan[r] = Null /\ scan'[r] # Null /\ scan'[r].action \in Actions
           /\ sent[r] = Null /\ sent'[r] = Null /\ ~ Over(r) /\ ~ Over(r)'
  <2>1. out_verdict[r] = "none" /\ out_verdict'[r] \in Actions /\ out_fate[r] = "held" /\ out_fate'[r] = "held"
    BY <1>4
  <2>2. out_fate' = out_fate /\ out_verdict' = [out_verdict EXCEPT ![r] = out_verdict'[r]]
    <3> HIDE DEF out_verdict, out_fate
    <3> QED BY <1>0, <2>1
  <2>3. out_verdict'[r] \in PassingActions \cup DenyingActions
    BY <2>1 DEF PassingActions, DenyingActions, Actions
  <2> HIDE DEF out_verdict, out_fate
  <2> QED BY <2>1, <2>2, <2>3 DEF Out!Next, Out!Judge
<1>5. CASE /\ scan'[r] = scan[r] /\ scan[r] # Null /\ scan[r].action \in PassingActions
           /\ sent[r] = Null /\ sent'[r] # Null /\ ~ Over(r)
  <2>1. out_verdict[r] \in PassingActions /\ out_verdict'[r] = out_verdict[r]
        /\ out_fate[r] = "held" /\ out_fate'[r] = "released"
    BY <1>5
  <2>2. out_verdict' = out_verdict /\ out_fate' = [out_fate EXCEPT ![r] = "released"]
    <3> HIDE DEF out_verdict, out_fate
    <3> QED BY <1>0, <2>1
  <2> HIDE DEF out_verdict, out_fate
  <2> QED BY <2>1, <2>2 DEF Out!Next, Out!Release
<1> QED BY <1>2, <1>3, <1>4, <1>5 DEF OutStep

\* The proxy implements Gatekeeper for everything it sends: prompts and tool
\* calls leave judged, once, and never behind a denying verdict.
THEOREM PromptsAreGated == Spec => PromptsGated
<1>1. Init => Out!Init
  BY DEF Init, Out!Init, out_verdict, out_fate, verdict_of, Over, Null
<1>2. StageInv /\ [Next]_vars => [Out!Next]_Out!gvars
  <2> SUFFICES ASSUME StageInv, [Next]_vars PROVE [Out!Next]_Out!gvars
    OBVIOUS
  <2>1. CASE UNCHANGED << pc, scan, rscan, sent, got >>
    BY <2>1 DEF Out!gvars, out_verdict, out_fate, verdict_of, Over
  <2>2. ASSUME NEW r \in Reqs, Only(r), Handle(r) PROVE [Out!Next]_Out!gvars
    BY <2>2, HandleOut, OutStepRefines
  <2>3. ASSUME NEW r \in Reqs, Only(r), Arrive(r) \/ UpstreamReplies(r) \/ UpstreamFails(r) \/ Disconnect(r)
        PROVE  [Out!Next]_Out!gvars
    BY <2>3, EnvironmentOut, OutStepRefines
  <2> QED BY <2>1, <2>2, <2>3, OneAtATime
<1> QED BY <1>1, <1>2, StageInvariant, PTL DEF Spec, PromptsGated, Out!Spec

-----------------------------------------------------------------------------
(* The way back refines Gatekeeper *)

InStep(r) ==
  \/ rscan'[r] = rscan[r] /\ (rscan[r] # Null => (got'[r] = got[r] /\ (got[r] = Null => (Over(r)' <=> Over(r)))))
  \/ rscan'[r] = rscan[r] /\ rscan[r] # Null /\ got[r] = Null /\ got'[r] = Null /\ ~ Over(r) /\ Over(r)'
  \/ /\ rscan[r] = Null /\ rscan'[r] # Null /\ rscan'[r].action \in Actions
     /\ got'[r] = Null /\ ~ Over(r)'
  \/ /\ rscan'[r] = rscan[r] /\ rscan[r] # Null /\ rscan[r].action \in PassingActions
     /\ got[r] = Null /\ got'[r] # Null /\ ~ Over(r)

LEMMA NextIn ==
  ASSUME StageInv, NEW r \in Reqs,
         Handle(r) \/ Arrive(r) \/ UpstreamReplies(r) \/ UpstreamFails(r) \/ Disconnect(r)
  PROVE  InStep(r)
<1>1. CASE Arrive(r) \/ UpstreamReplies(r) \/ UpstreamFails(r) \/ Disconnect(r)
  <2>1. rscan' = rscan /\ got' = got /\ ~ Over(r)
    BY <1>1 DEF Arrive, UpstreamReplies, UpstreamFails, Disconnect, Over
  <2> QED BY <2>1 DEF InStep
<1>2. CASE ScanBody(r) \/ ScanField(r) \/ ScanFields(r) \/ save_event(r) \/ forward_siem(r)
  <2>1. rscan' = rscan /\ got' = got /\ ~ Over(r)
    BY <1>2 DEF ScanBody, ScanField, ScanFields, save_event, forward_siem, Over
  <2> QED BY <2>1 DEF InStep
<1>3. CASE Refuse(r) \/ Send(r) \/ ReplyFails(r) \/ McpJudge(r) \/ McpUnlicensed(r) \/ McpEnforce(r) \/ McpSend(r)
  <2>1. rscan' = rscan /\ got' = got /\ ~ Over(r)
    BY <1>3 DEF Refuse, Send, ReplyFails, McpJudge, McpUnlicensed, McpEnforce, McpSend, Over
  <2> QED BY <2>1 DEF InStep
<1>4. CASE StreamReply(r) \/ McpReply(r)
  <2>1. rscan' = rscan /\ rscan[r] = Null
    BY <1>4 DEF StreamReply, McpReply, StageInv, Stage
  <2> QED BY <2>1 DEF InStep
<1>5. CASE ScanReply(r)
  <2> DEFINE s == inspect(policy, Visible(reply[r]))
  <2>1. s.action \in Actions /\ s # Null
    BY InspectIsScan DEF StageInv
  <2>2. pc[r] = "reply" /\ pc' = [pc EXCEPT ![r] = "save"] /\ rscan' = [rscan EXCEPT ![r] = s] /\ got' = got
    BY <1>5 DEF ScanReply, Goto
  <2> HIDE DEF s
  <2> QED BY <2>1, <2>2 DEF StageInv, Mapped, Stage, InStep, Over
<1>6. CASE Deliver(r)
  <2>1. pc[r] = "deliver" /\ rscan' = rscan /\ pc' = [pc EXCEPT ![r] = "done"]
    BY <1>6 DEF Deliver, Answer, Goto
  <2>2. rscan[r] # Null /\ got[r] = Null /\ ~ Over(r) /\ Over(r)'
    BY <2>1 DEF StageInv, Stage, Mapped, Over
  <2>3. CASE Denied(rscan[r].action)
    BY <1>6, <2>1, <2>2, <2>3 DEF Deliver, InStep
  <2>4. CASE ~ Denied(rscan[r].action)
    <3>1. rscan[r].action \in PassingActions
      BY <2>2, <2>4, NotDenied DEF StageInv, Stage
    <3>2. \E T : got' = [got EXCEPT ![r] = Bytes(T)]
      BY <1>6, <2>4 DEF Deliver
    <3>3. got'[r] # Null
      BY <3>2, BytesNotNull DEF StageInv, Mapped
    <3> QED BY <2>1, <2>2, <3>1, <3>3 DEF InStep
  <2> QED BY <2>3, <2>4
<1> QED BY <1>1, <1>2, <1>3, <1>4, <1>5, <1>6 DEF Handle

LEMMA InStepRefines ==
  ASSUME NEW r \in Reqs, Only(r), InStep(r)
  PROVE  In!Next \/ UNCHANGED In!gvars
<1> USE DEF in_verdict, in_fate, verdict_of, Over, Only
<1>1. \A q \in Reqs \ {r} : in_verdict'[q] = in_verdict[q] /\ in_fate'[q] = in_fate[q]
  OBVIOUS
<1>0. /\ in_verdict' = [in_verdict EXCEPT ![r] = in_verdict'[r]] /\ (in_verdict'[r] = in_verdict[r] => in_verdict' = in_verdict)
      /\ in_fate' = [in_fate EXCEPT ![r] = in_fate'[r]] /\ (in_fate'[r] = in_fate[r] => in_fate' = in_fate)
  <2>1. Mapped(in_verdict) /\ Mapped(in_verdict') /\ Mapped(in_fate) /\ Mapped(in_fate')
    BY DEF Mapped
  <2> HIDE DEF in_verdict, in_fate, Only
  <2> QED BY <1>1, <2>1, DifferAtOne
<1>2. CASE rscan'[r] = rscan[r] /\ (rscan[r] # Null => (got'[r] = got[r] /\ (got[r] = Null => (Over(r)' <=> Over(r)))))
  <2>1. in_verdict'[r] = in_verdict[r] /\ in_fate'[r] = in_fate[r]
    BY <1>2
  <2>2. in_verdict' = in_verdict /\ in_fate' = in_fate
    <3> HIDE DEF in_verdict, in_fate
    <3> QED BY <1>0, <2>1
  <2> HIDE DEF in_verdict, in_fate
  <2> QED BY <2>2 DEF In!gvars
<1>3. CASE rscan'[r] = rscan[r] /\ rscan[r] # Null /\ got[r] = Null /\ got'[r] = Null /\ ~ Over(r) /\ Over(r)'
  <2>1. in_verdict'[r] = in_verdict[r] /\ in_fate[r] = "held" /\ in_fate'[r] = "refused"
    BY <1>3
  <2>2. in_verdict' = in_verdict /\ in_fate' = [in_fate EXCEPT ![r] = "refused"]
    <3> HIDE DEF in_verdict, in_fate
    <3> QED BY <1>0, <2>1
  <2> HIDE DEF in_verdict, in_fate
  <2> QED BY <2>1, <2>2 DEF In!Next, In!Refuse
<1>4. CASE /\ rscan[r] = Null /\ rscan'[r] # Null /\ rscan'[r].action \in Actions
           /\ got'[r] = Null /\ ~ Over(r)'
  <2>1. in_verdict[r] = "none" /\ in_verdict'[r] \in Actions /\ in_fate[r] = "held" /\ in_fate'[r] = "held"
    BY <1>4
  <2>2. in_fate' = in_fate /\ in_verdict' = [in_verdict EXCEPT ![r] = in_verdict'[r]]
    <3> HIDE DEF in_verdict, in_fate
    <3> QED BY <1>0, <2>1
  <2>3. in_verdict'[r] \in PassingActions \cup DenyingActions
    BY <2>1 DEF PassingActions, DenyingActions, Actions
  <2> HIDE DEF in_verdict, in_fate
  <2> QED BY <2>1, <2>2, <2>3 DEF In!Next, In!Judge
<1>5. CASE /\ rscan'[r] = rscan[r] /\ rscan[r] # Null /\ rscan[r].action \in PassingActions
           /\ got[r] = Null /\ got'[r] # Null /\ ~ Over(r)
  <2>1. in_verdict[r] \in PassingActions /\ in_verdict'[r] = in_verdict[r]
        /\ in_fate[r] = "held" /\ in_fate'[r] = "released"
    BY <1>5
  <2>2. in_verdict' = in_verdict /\ in_fate' = [in_fate EXCEPT ![r] = "released"]
    <3> HIDE DEF in_verdict, in_fate
    <3> QED BY <1>0, <2>1
  <2> HIDE DEF in_verdict, in_fate
  <2> QED BY <2>1, <2>2 DEF In!Next, In!Release
<1> QED BY <1>2, <1>3, <1>4, <1>5 DEF InStep

\* The proxy implements Gatekeeper for every answer it buffers: it reaches the
\* client judged, once, and never behind a denying verdict.
THEOREM AnswersAreGated == Spec => AnswersGated
<1>1. Init => In!Init
  BY DEF Init, In!Init, in_verdict, in_fate, verdict_of, Over, Null
<1>2. StageInv /\ [Next]_vars => [In!Next]_In!gvars
  <2> SUFFICES ASSUME StageInv, [Next]_vars PROVE [In!Next]_In!gvars
    OBVIOUS
  <2>1. CASE UNCHANGED << pc, scan, rscan, sent, got >>
    BY <2>1 DEF In!gvars, in_verdict, in_fate, verdict_of, Over
  <2>2. ASSUME NEW r \in Reqs, Only(r),
               Handle(r) \/ Arrive(r) \/ UpstreamReplies(r) \/ UpstreamFails(r) \/ Disconnect(r)
        PROVE  [In!Next]_In!gvars
    BY <2>2, NextIn, InStepRefines
  <2> QED BY <2>1, <2>2, OneAtATime
<1> QED BY <1>1, <1>2, StageInvariant, PTL DEF Spec, AnswersGated, In!Spec

-----------------------------------------------------------------------------
(* What each handler works on *)

\* The request and the answer of a handler, by the place it has reached; the
\* live policy is among those the scan may use.
Handled(r) ==
  /\ pc[r] # "idle" => req[r] \in Requests[r]
  /\ pc[r] \notin {"idle", "done", "gone"} => req[r].kind # "unreadable"
  /\ pc[r] = "scan" => req[r].kind \in {"json", "text"}
  /\ pc[r] = "fields" => req[r].kind = "multipart"
  /\ pc[r] = "enforce" => req[r].kind # "mcp"
  /\ pc[r] \in {"mcp", "mcp_enforce", "mcp_send", "mcp_reply"} => req[r].kind = "mcp"
  /\ pc[r] \in {"reply", "mcp_reply"} => reply[r] \in Replies[r]
  /\ field[r] \in Nat \ {0} /\ (pc[r] = "idle" => field[r] = 1)
  /\ Scanning(r) => policy \in live[r]

MoreMaps == Mapped(req) /\ Mapped(field) /\ Mapped(seen) /\ Mapped(reply) /\ Mapped(status) /\ Mapped(live)

HandledInv == MoreMaps /\ \A r \in Reqs : Handled(r)

\* A step of request r: no other request changes and the trail only grows.
Frame(r) ==
  /\ config' = config /\ policy' = policy /\ MoreMaps'
  /\ stored \subseteq stored' /\ siem \subseteq siem' /\ lost \subseteq lost'
  /\ \A q \in Reqs \ {r} :
       /\ req'[q] = req[q] /\ field'[q] = field[q] /\ seen'[q] = seen[q]
       /\ reply'[q] = reply[q] /\ status'[q] = status[q] /\ live'[q] = live[q]

\* The steps of a handler that only move it on: what it works on stays.
LEMMA HandleFrame ==
  ASSUME StageInv, HandledInv, NEW r \in Reqs, Handle(r)
  PROVE  Frame(r) /\ Handled(r)'
<1> USE DEF StageInv, HandledInv, MoreMaps, Mapped, Frame, Handled, Scanning, Goto, Answer, SetScan, env
<1>1. CASE ScanBody(r)
  BY <1>1 DEF ScanBody
<1>2. CASE ScanField(r)
  <2>1. pc[r] = "fields" /\ (pc' = pc \/ pc' = [pc EXCEPT ![r] = "save"])
    BY <1>2 DEF ScanField
  <2>2. \/ field' = field /\ seen' = seen
        \/ field' = [field EXCEPT ![r] = field[r] + 1]
           /\ (seen' = seen \/ \E T : seen' = [seen EXCEPT ![r] = T])
    BY <1>2 DEF ScanField
  <2>3. field[r] \in Nat \ {0} /\ field[r] + 1 \in Nat \ {0}
    OBVIOUS
  <2>4. UNCHANGED << config, policy, req, reply, status, stored, siem, lost, live >>
    BY <1>2 DEF ScanField
  <2> QED BY <2>1, <2>2, <2>3, <2>4
<1>3. CASE ScanFields(r)
  BY <1>3 DEF ScanFields
<1>4. CASE save_event(r)
  BY <1>4 DEF save_event
<1>5. CASE forward_siem(r)
  BY <1>5 DEF forward_siem, Leg
<1>6. CASE Refuse(r) \/ Send(r)
  <2>1. CASE Refuse(r)
    <3>1. /\ pc[r] = "enforce" /\ pc' = [pc EXCEPT ![r] = "done"] /\ status' \in {[status EXCEPT ![r] = 403], [status EXCEPT ![r] = 400]}
          /\ UNCHANGED << config, policy, req, field, seen, reply, stored, siem, lost, live >>
      BY <2>1, ZenonT(60) DEF Refuse
    <3> QED BY <3>1
  <2>2. CASE Send(r)
    BY <2>2 DEF Send
  <2> QED BY <1>6, <2>1, <2>2
<1>7. CASE StreamReply(r) \/ ReplyFails(r) \/ ScanReply(r) \/ Deliver(r)
  <2>1. /\ pc[r] \in {"reply", "deliver"}
        /\ UNCHANGED << config, policy, req, field, seen, reply, stored, siem, lost, live >>
    BY <1>7 DEF StreamReply, ReplyFails, ScanReply, Deliver
  <2>2. \/ pc' = [pc EXCEPT ![r] = "save"] /\ status' = status
        \/ pc' = [pc EXCEPT ![r] = "done"] /\ \E code : status' = [status EXCEPT ![r] = code]
    BY <1>7, ZenonT(60) DEF StreamReply, ReplyFails, ScanReply, Deliver
  <2> QED BY <2>1, <2>2
<1>8. CASE McpJudge(r)
  BY <1>8, ZenonT(60) DEF McpJudge
<1>9. CASE McpUnlicensed(r)
  BY <1>9 DEF McpUnlicensed
<1>10. CASE McpEnforce(r)
  BY <1>10 DEF McpEnforce
<1>11. CASE McpSend(r)
  BY <1>11 DEF McpSend
<1>12. CASE McpReply(r)
  BY <1>12 DEF McpReply
<1> QED BY <1>1, <1>2, <1>3, <1>4, <1>5, <1>6, <1>7, <1>8, <1>9, <1>10, <1>11, <1>12 DEF Handle

LEMMA EnvironmentFrame ==
  ASSUME StageInv, HandledInv, NEW r \in Reqs,
         Arrive(r) \/ UpstreamReplies(r) \/ UpstreamFails(r) \/ Disconnect(r)
  PROVE  Frame(r) /\ Handled(r)'
<1> USE DEF StageInv, HandledInv, MoreMaps, Mapped, Frame, Handled, Scanning, Goto, Answer, env
<1>1. CASE Arrive(r)
  <2>1. PICK q \in Requests[r] :
          /\ req' = [req EXCEPT ![r] = q]
          /\ \/ q.kind = "unreadable" /\ pc' = [pc EXCEPT ![r] = "done"] /\ status' = [status EXCEPT ![r] = 400]
             \/ q.kind = "mcp" /\ pc' = [pc EXCEPT ![r] = "mcp"] /\ status' = status
             \/ q.kind = "multipart" /\ pc' = [pc EXCEPT ![r] = "fields"] /\ status' = status
             \/ /\ q.kind \notin {"unreadable", "mcp", "multipart"}
                /\ pc' = [pc EXCEPT ![r] = "scan"] /\ status' = status
    BY <1>1, ZenonT(60) DEF Arrive
  <2>2. /\ live' = [live EXCEPT ![r] = {policy}]
        /\ UNCHANGED << config, policy, field, seen, reply, stored, siem, lost >>
    BY <1>1 DEF Arrive
  <2>3. q.kind \in {"unreadable", "json", "text", "multipart", "mcp"}
    BY RequestsAssumption
  <2>4. pc'[r] # "idle" /\ req'[r] = q
    BY <2>1
  <2> QED BY <2>1, <2>2, <2>3, <2>4, ZenonT(60)
<1>2. CASE UpstreamReplies(r)
  BY <1>2 DEF UpstreamReplies
<1>3. CASE UpstreamFails(r) \/ Disconnect(r)
  BY <1>3 DEF UpstreamFails, Disconnect
<1> QED BY <1>1, <1>2, <1>3

LEMMA HandledInvariant == Spec => []HandledInv
<1>1. Init => HandledInv
  BY DEF Init, HandledInv, MoreMaps, Mapped, Handled, Scanning
<1>2. StageInv /\ HandledInv /\ [Next]_vars => HandledInv'
  <2> SUFFICES ASSUME StageInv, HandledInv, [Next]_vars PROVE HandledInv'
    OBVIOUS
  <2>1. ASSUME NEW r \in Reqs, Only(r), Frame(r), Handled(r)' PROVE HandledInv'
    BY <2>1 DEF HandledInv, Handled, Scanning, Only, Frame
  <2>2. ASSUME NEW r \in Reqs, Handle(r) PROVE HandledInv'
    BY <2>1, <2>2, HandleFrame, HandleOnly
  <2>3. ASSUME NEW r \in Reqs, Arrive(r) \/ UpstreamReplies(r) \/ UpstreamFails(r) \/ Disconnect(r)
        PROVE  HandledInv'
    BY <2>1, <2>3, EnvironmentFrame, EnvironmentOnly
  <2>4. CASE ChangePolicy
    BY <2>4 DEF ChangePolicy, HandledInv, MoreMaps, Mapped, Handled, Scanning
  <2>5. CASE UNCHANGED vars
    BY <2>5 DEF vars, HandledInv, MoreMaps, Mapped, Handled, Scanning
  <2> QED BY <2>2, <2>3, <2>4, <2>5 DEF Next
<1> QED BY <1>1, <1>2, StageInvariant, PTL DEF Spec

-----------------------------------------------------------------------------
(* Types *)

\* A scan of categories is typed, and masks nothing into being.
LEMMA InspectTyped ==
  ASSUME NEW p \in Policies, NEW T \in SUBSET Categories
  PROVE  inspect(p, T) \in Scans
BY PoliciesAssumption, InspectTypes DEF Scans

LEMMA CombinedTyped ==
  ASSUME NEW r \in Reqs, policy \in Policies, seen[r] \subseteq Categories
  PROVE  scan_combined(r) \in Scans
<1> DEFINE T == IF req[r].boundary THEN seen[r] ELSE {}
<1> DEFINE s == inspect(policy, T)
<1>1. s \in Scans
  BY InspectTyped
<1>2. scan_combined(r) = s \/ scan_combined(r) = [s EXCEPT !.action = "Block"]
  BY DEF scan_combined
<1>3. "Block" \in Actions
  BY DEF Actions
<1> HIDE DEF s
<1> QED BY <1>1, <1>2, <1>3 DEF Scans

Typed(r) ==
  /\ pc[r] \in Labels
  /\ scan[r] \in Scans \cup {Null} /\ rscan[r] \in Scans \cup {Null}
  /\ seen[r] \in SUBSET Categories
  /\ pc[r] = "done" <=> status[r] # 0

Trails == Reqs \X Types \X Actions

TypeInv ==
  /\ changes \in 0 .. MaxChanges /\ denied_tools \subseteq Tools
  /\ stored \subseteq Trails /\ siem \subseteq Trails /\ lost \subseteq Trails
  /\ \A r \in Reqs : Typed(r)

\* The event of a scanned request.
LEMMA EventTyped ==
  ASSUME StageInv, NEW r \in Reqs, scan[r] # Null
  PROVE  Event(r) \in Trails
<1>1. Leg(r) \in Types
  BY DEF Leg, Types
<1>2. Leg(r) = "response" => rscan[r] # Null
  BY DEF Leg
<1>3. Recorded(r) \in Actions
  BY <1>2 DEF Recorded, StageInv, Stage, Actions
<1> QED BY <1>1, <1>3 DEF Event, Trails

\* What a step of request r does to its types and to the rest of the state.
Keeps(r) ==
  /\ changes' = changes /\ denied_tools' = denied_tools
  /\ stored' \subseteq Trails /\ siem' \subseteq Trails /\ lost' \subseteq Trails
  /\ Typed(r)'

LEMMA HandleTyped ==
  ASSUME StageInv, HandledInv, TypeInv, NEW r \in Reqs, Handle(r)
  PROVE  Keeps(r)
<1> USE DEF StageInv, HandledInv, MoreMaps, Mapped, TypeInv, Typed, Keeps, Goto, Answer, SetScan, env, Labels
<1>1. CASE ScanBody(r)
  <2> DEFINE s == inspect(policy, Visible(req[r]))
  <2>1. s \in Scans
    <3>1. Visible(req[r]) \subseteq Categories
      BY <1>1, RequestsAssumption DEF ScanBody, Handled, Visible
    <3> QED BY <3>1, InspectTyped
  <2>2. /\ pc[r] = "scan" /\ pc' = [pc EXCEPT ![r] = "save"] /\ scan' = [scan EXCEPT ![r] = s]
        /\ UNCHANGED << changes, denied_tools, seen, rscan, status, stored, siem, lost >>
    BY <1>1 DEF ScanBody
  <2> HIDE DEF s
  <2> QED BY <2>1, <2>2
<1>2. CASE ScanField(r)
  <2>1. /\ pc[r] = "fields" /\ req[r].boundary
        /\ UNCHANGED << changes, denied_tools, rscan, status, stored, siem, lost >>
        /\ field[r] <= Len(req[r].fields)
    BY <1>2 DEF ScanField
  <2>2. \/ pc' = pc /\ scan' = scan
        \/ pc' = [pc EXCEPT ![r] = "save"] /\ scan' = [scan EXCEPT ![r] = blocked_upload_result]
    BY <1>2 DEF ScanField
  <2>3. seen' = seen \/ seen' = [seen EXCEPT ![r] = seen[r] \cup req[r].fields[field[r]].text]
    BY <1>2 DEF ScanField
  <2>4. blocked_upload_result \in Scans
    BY DEF blocked_upload_result, Scans, Actions
  <2>5. req[r].fields[field[r]].text \subseteq Categories
    <3>1. req[r].fields \in Seq(Fields)
      BY <2>1, RequestsAssumption DEF Handled
    <3>2. field[r] \in Nat \ {0}
      BY DEF Handled
    <3>3. req[r].fields[field[r]] \in Fields
      BY <2>1, <3>1, <3>2
    <3> QED BY <3>3 DEF Fields
  <2> QED BY <2>1, <2>2, <2>3, <2>4, <2>5
<1>3. CASE ScanFields(r)
  <2>1. scan_combined(r) \in Scans
    BY CombinedTyped
  <2>2. /\ pc[r] = "fields" /\ pc' = [pc EXCEPT ![r] = "save"] /\ scan' = [scan EXCEPT ![r] = scan_combined(r)]
        /\ UNCHANGED << changes, denied_tools, seen, rscan, status, stored, siem, lost >>
    BY <1>3 DEF ScanFields
  <2> QED BY <2>1, <2>2
<1>4. CASE save_event(r)
  <2>1. Event(r) \in Trails
    BY <1>4, EventTyped DEF save_event, Stage
  <2>2. /\ stored' \subseteq stored \cup {Event(r)} /\ lost' \subseteq lost \cup {Event(r)} /\ siem' = siem
        /\ pc[r] = "save" /\ pc' = [pc EXCEPT ![r] = "forward"]
        /\ UNCHANGED << changes, denied_tools, seen, scan, rscan, status >>
    BY <1>4 DEF save_event
  <2> QED BY <2>1, <2>2
<1>5. CASE forward_siem(r)
  <2>1. Event(r) \in Trails
    BY <1>5, EventTyped DEF forward_siem, Stage
  <2>2. /\ siem' \subseteq siem \cup {Event(r)} /\ pc[r] = "forward"
        /\ UNCHANGED << changes, denied_tools, seen, scan, rscan, status, stored, lost >>
    BY <1>5 DEF forward_siem
  <2>3. \E l \in {"deliver", "mcp_enforce", "enforce"} : pc' = [pc EXCEPT ![r] = l]
    BY <1>5 DEF forward_siem, Leg
  <2> QED BY <2>1, <2>2, <2>3
<1>6. CASE Refuse(r)
  <2>1. pc[r] = "enforce" /\ \E code \in {400, 403} : Answer(r, code)
    BY <1>6, ZenonT(60) DEF Refuse
  <2>2. UNCHANGED << env, seen, scan, rscan, stored, siem, lost >>
    BY <1>6, Zenon DEF Refuse
  <2> QED BY <2>1, <2>2
<1>7. CASE Send(r)
  BY <1>7 DEF Send
<1>8. CASE StreamReply(r) \/ ReplyFails(r) \/ Deliver(r)
  <2>1. Answer(r, 200) \/ Answer(r, 403) \/ Answer(r, 500) \/ Answer(r, 502)
    BY <1>8, ZenonT(60) DEF StreamReply, ReplyFails, Deliver
  <2>2. pc[r] \in {"reply", "deliver"}
    BY <1>8, Zenon DEF StreamReply, ReplyFails, Deliver
  <2>3. UNCHANGED << changes, denied_tools, seen, scan, rscan, stored, siem, lost >>
    BY <1>8 DEF StreamReply, ReplyFails, Deliver
  <2> QED BY <2>1, <2>2, <2>3
<1>9. CASE ScanReply(r)
  <2> DEFINE s == inspect(policy, Visible(reply[r]))
  <2>1. s \in Scans
    <3>1. Visible(reply[r]) \subseteq Categories
      BY <1>9, RepliesAssumption DEF ScanReply, Handled, Visible
    <3> QED BY <3>1, InspectTyped
  <2>2. /\ pc[r] = "reply" /\ pc' = [pc EXCEPT ![r] = "save"] /\ rscan' = [rscan EXCEPT ![r] = s]
        /\ UNCHANGED << changes, denied_tools, seen, scan, status, stored, siem, lost >>
    BY <1>9 DEF ScanReply
  <2> HIDE DEF s
  <2> QED BY <2>1, <2>2
<1>10. CASE McpJudge(r)
  <2>1. /\ pc[r] = "mcp"
        /\ UNCHANGED << changes, denied_tools, seen, rscan, status, stored, siem, lost >>
    BY <1>10 DEF McpJudge
  <2>2. PICK a \in Actions, l \in {"mcp_send", "save"} :
          /\ scan' = [scan EXCEPT ![r] = [kind |-> "scan", action |-> a, sanitized |-> {}]]
          /\ pc' = [pc EXCEPT ![r] = l]
    BY <1>10 DEF McpJudge, evaluate_tool, Actions
  <2>3. [kind |-> "scan", action |-> a, sanitized |-> {}] \in Scans
    BY DEF Scans
  <2> QED BY <2>1, <2>2, <2>3
<1>11. CASE McpUnlicensed(r)
  <2>1. pc[r] = "mcp" /\ Answer(r, NotLicensed)
    BY <1>11, Zenon DEF McpUnlicensed
  <2>2. UNCHANGED << env, seen, scan, rscan, stored, siem, lost >>
    BY <1>11, Zenon DEF McpUnlicensed
  <2> QED BY <2>1, <2>2 DEF NotLicensed
<1>12. CASE McpEnforce(r)
  <2>1. /\ pc[r] = "mcp_enforce"
        /\ UNCHANGED << changes, denied_tools, seen, scan, rscan, stored, siem, lost >>
    BY <1>12 DEF McpEnforce
  <2>2. \/ pc' = [pc EXCEPT ![r] = "done"] /\ \E code \in {ToolBlocked, NeedsApproval} : status' = [status EXCEPT ![r] = code]
        \/ pc' = [pc EXCEPT ![r] = "mcp_send"] /\ status' = status
    BY <1>12 DEF McpEnforce
  <2> QED BY <2>1, <2>2 DEF ToolBlocked, NeedsApproval
<1>13. CASE McpSend(r)
  BY <1>13 DEF McpSend, NoMcpUpstream
<1>14. CASE McpReply(r)
  BY <1>14 DEF McpReply
<1> QED BY <1>1, <1>2, <1>3, <1>4, <1>5, <1>6, <1>7, <1>8, <1>9, <1>10, <1>11, <1>12, <1>13, <1>14 DEF Handle

LEMMA EnvironmentTyped ==
  ASSUME StageInv, HandledInv, TypeInv, NEW r \in Reqs,
         Arrive(r) \/ UpstreamReplies(r) \/ UpstreamFails(r) \/ Disconnect(r)
  PROVE  Keeps(r)
<1> USE DEF StageInv, HandledInv, MoreMaps, Mapped, TypeInv, Typed, Keeps, Goto, Answer, env, Labels
<1>1. CASE Arrive(r)
  <2>1. \/ pc' = [pc EXCEPT ![r] = "done"] /\ status' = [status EXCEPT ![r] = 400]
        \/ (\E l \in {"mcp", "fields", "scan"} : pc' = [pc EXCEPT ![r] = l]) /\ status' = status
    BY <1>1 DEF Arrive
  <2>2. /\ pc[r] = "idle"
        /\ UNCHANGED << changes, denied_tools, seen, scan, rscan, stored, siem, lost >>
    BY <1>1 DEF Arrive
  <2> QED BY <2>1, <2>2
<1>2. CASE UpstreamReplies(r)
  BY <1>2 DEF UpstreamReplies
<1>3. CASE UpstreamFails(r)
  BY <1>3 DEF UpstreamFails
<1>4. CASE Disconnect(r)
  BY <1>4 DEF Disconnect
<1> QED BY <1>1, <1>2, <1>3, <1>4

\* The proxy's state keeps its type, for every policy, request and answer.
LEMMA TypeInvariant == Spec => []TypeInv
<1>1. Init => TypeInv
  BY ChangesAssumption DEF Init, TypeInv, Typed, Labels
<1>2. StageInv /\ HandledInv /\ TypeInv /\ [Next]_vars => TypeInv'
  <2> SUFFICES ASSUME StageInv, HandledInv, TypeInv, [Next]_vars PROVE TypeInv'
    OBVIOUS
  <2>1. ASSUME NEW r \in Reqs, Only(r), Frame(r), Keeps(r) PROVE TypeInv'
    BY <2>1 DEF TypeInv, Typed, Only, Frame, Keeps
  <2>2. ASSUME NEW r \in Reqs, Handle(r) PROVE TypeInv'
    BY <2>1, <2>2, HandleFrame, HandleOnly, HandleTyped
  <2>3. ASSUME NEW r \in Reqs, Arrive(r) \/ UpstreamReplies(r) \/ UpstreamFails(r) \/ Disconnect(r)
        PROVE  TypeInv'
    BY <2>1, <2>3, EnvironmentFrame, EnvironmentOnly, EnvironmentTyped
  <2>4. CASE ChangePolicy
    BY <2>4, ChangesAssumption DEF ChangePolicy, TypeInv, Typed
  <2>5. CASE UNCHANGED vars
    BY <2>5 DEF vars, TypeInv, Typed
  <2> QED BY <2>2, <2>3, <2>4, <2>5 DEF Next
<1> QED BY <1>1, <1>2, StageInvariant, HandledInvariant, PTL DEF Spec

\* Types of the proxy, its scans and its audit trail: a request has a status
\* exactly when its handler has answered.
THEOREM TypeCorrect == Spec => []TypeOK
<1>1. StageInv /\ HandledInv /\ TypeInv => TypeOK
  BY DEF StageInv, HandledInv, MoreMaps, Mapped, TypeInv, Typed, TypeOK, Trails
<1> QED BY <1>1, StageInvariant, HandledInvariant, TypeInvariant, PTL

-----------------------------------------------------------------------------
(* The audit trail *)

\* The event of each leg of a request, and what has been done with it.
OutType(r) == IF req[r].kind = "mcp" THEN "mcp" ELSE "request"

OutEvent(r) ==
  << r, OutType(r),
     IF OutType(r) = "mcp" /\ scan[r].action = "RequireApproval" THEN "Warn" ELSE scan[r].action >>

InEvent(r) == << r, "response", rscan[r].action >>

Saved(e) == config.storage => e \in stored \cup lost
Forwarded(e) == config.siem => e \in siem
Reported(e) == Saved(e) /\ Forwarded(e)

\* Everything that is judged: a prompt, or an MCP message that calls a tool.
Judged(r) == req[r].kind = "mcp" => req[r].tool # ""

\* A leg is reported before it is enforced, and only what passed has crossed.
Trail(r) ==
  /\ sent[r] # Null => ~ Denied(scan[r].action)
  /\ rscan[r] # Null /\ got[r] # Null => ~ Denied(rscan[r].action)
  /\ pc[r] = "forward" => Saved(IF rscan[r] = Null THEN OutEvent(r) ELSE InEvent(r))
  /\ pc[r] \in {"enforce", "mcp_enforce"} => Reported(OutEvent(r))
  /\ Judged(r) /\ (pc[r] = "mcp_send" \/ sent[r] # Null) => Reported(OutEvent(r))
  /\ pc[r] = "deliver" => Reported(InEvent(r))
  /\ got[r] # Null /\ rscan[r] # Null => Reported(InEvent(r))

\* Every event tells the verdict of its leg.
Honest(e) ==
  \E r \in Reqs : \/ scan[r] # Null /\ e = OutEvent(r)
                  \/ rscan[r] # Null /\ e = InEvent(r)

TrailInv ==
  /\ \A r \in Reqs : Trail(r)
  /\ \A e \in stored \cup siem \cup lost : Honest(e)

\* A verdict, and the request it is about, never changes; whatever enters the
\* trail is the event of the leg that is being handled.
Settled(r) ==
  /\ scan[r] # Null => scan'[r] = scan[r] /\ req'[r] = req[r]
  /\ rscan[r] # Null => rscan'[r] = rscan[r]
  /\ \A e \in stored' \cup siem' \cup lost' : e \in stored \cup siem \cup lost \/ (e = Event(r) /\ scan[r] # Null)

LEMMA HandleSettled ==
  ASSUME StageInv, NEW r \in Reqs, Handle(r)
  PROVE  Settled(r)
<1> USE DEF StageInv, Mapped, Stage, Settled, SetScan
<1>1. CASE ScanBody(r) \/ ScanField(r) \/ ScanFields(r) \/ McpJudge(r)
  <2>1. scan[r] = Null
    BY <1>1 DEF ScanBody, ScanField, ScanFields, McpJudge
  <2>2. UNCHANGED << rscan, stored, siem, lost >>
    BY <1>1 DEF ScanBody, ScanField, ScanFields, McpJudge
  <2> QED BY <2>1, <2>2, SMTT(60)
<1>4. CASE save_event(r)
  BY <1>4 DEF save_event
<1>5. CASE forward_siem(r)
  BY <1>5 DEF forward_siem
<1>6. CASE ScanReply(r)
  BY <1>6 DEF ScanReply
<1>8. CASE Refuse(r) \/ Send(r) \/ StreamReply(r) \/ ReplyFails(r) \/ Deliver(r)
  BY <1>8 DEF Refuse, Send, StreamReply, ReplyFails, Deliver
<1>9. CASE McpUnlicensed(r) \/ McpEnforce(r) \/ McpSend(r) \/ McpReply(r)
  <2>1. UNCHANGED << req, scan, rscan, stored, siem, lost >>
    BY <1>9 DEF McpUnlicensed, McpEnforce, McpSend, McpReply
  <2> QED BY <2>1
<1> QED BY <1>1, <1>4, <1>5, <1>6, <1>8, <1>9 DEF Handle

LEMMA EnvironmentSettled ==
  ASSUME StageInv, NEW r \in Reqs, Arrive(r) \/ UpstreamReplies(r) \/ UpstreamFails(r) \/ Disconnect(r)
  PROVE  Settled(r)
<1>1. scan[r] = Null \/ req' = req
  BY DEF StageInv, Stage, Arrive, UpstreamReplies, UpstreamFails, Disconnect
<1>2. UNCHANGED << scan, rscan, stored, siem, lost >>
  BY DEF Arrive, UpstreamReplies, UpstreamFails, Disconnect
<1> QED BY <1>1, <1>2 DEF Settled

\* persist_event reports the leg that is being handled.
LEMMA EventIs == ASSUME NEW r \in Reqs PROVE Event(r) = IF rscan[r] = Null THEN OutEvent(r) ELSE InEvent(r)
BY DEF Event, Leg, Recorded, OutEvent, InEvent, OutType

LEMMA HandleTrail ==
  ASSUME StageInv, HandledInv, TrailInv, NEW r \in Reqs, Handle(r)
  PROVE  Trail(r)'
<1> USE DEF StageInv, HandledInv, MoreMaps, Mapped, Stage, TrailInv, Trail, Goto, Answer, SetScan, env
<1>1. CASE ScanBody(r) \/ ScanFields(r)
  <2>1. /\ pc[r] \in {"scan", "fields"} /\ pc' = [pc EXCEPT ![r] = "save"]
        /\ UNCHANGED << sent, got, rscan >>
    BY <1>1 DEF ScanBody, ScanFields
  <2>2. sent'[r] = Null /\ rscan'[r] = Null /\ got'[r] = Null
    BY <2>1
  <2> QED BY <2>1, <2>2
<1>2. CASE ScanField(r)
  <2>1. /\ pc[r] = "fields" /\ (pc' = pc \/ pc' = [pc EXCEPT ![r] = "save"])
        /\ UNCHANGED << sent, got, rscan >>
    BY <1>2 DEF ScanField
  <2>2. sent'[r] = Null /\ rscan'[r] = Null /\ got'[r] = Null
    BY <2>1
  <2> QED BY <2>1, <2>2
<1>3. CASE save_event(r)
  <2>1. /\ pc[r] = "save" /\ pc' = [pc EXCEPT ![r] = "forward"]
        /\ UNCHANGED << config, req, scan, rscan, sent, got, siem >>
        /\ stored \subseteq stored' /\ lost \subseteq lost'
        /\ config.storage => Event(r) \in stored' \cup lost'
    BY <1>3 DEF save_event
  <2>2. Saved(Event(r))' /\ OutEvent(r)' = OutEvent(r) /\ InEvent(r)' = InEvent(r) /\ Event(r)' = Event(r)
    BY <2>1 DEF Saved, OutEvent, OutType, InEvent, Event, Leg, Recorded
  <2>3. Reported(OutEvent(r)) => Reported(OutEvent(r))'
    BY <2>1, <2>2 DEF Reported, Saved, Forwarded
  <2>4. Judged(r)' <=> Judged(r)
    BY <2>1 DEF Judged
  <2> QED BY <2>1, <2>2, <2>3, <2>4, EventIs
<1>4. CASE forward_siem(r)
  <2>1. /\ pc[r] = "forward"
        /\ UNCHANGED << config, req, scan, rscan, sent, got, stored, lost >>
        /\ siem \subseteq siem' /\ (config.siem => Event(r) \in siem')
    BY <1>4 DEF forward_siem
  <2>2. pc'[r] \in {"deliver", "mcp_enforce", "enforce"} /\ (pc'[r] = "deliver" <=> rscan[r] # Null)
    BY <1>4 DEF forward_siem, Leg
  <2>3. OutEvent(r)' = OutEvent(r) /\ InEvent(r)' = InEvent(r)
    BY <2>1 DEF OutEvent, OutType, InEvent
  <2>4. Reported(Event(r))'
    BY <2>1, EventIs, SMTT(60) DEF Reported, Saved, Forwarded, Event, Leg, Recorded
  <2>5. rscan[r] = Null => Event(r) = OutEvent(r) /\ Event(r)' = OutEvent(r)'
    BY <2>1, EventIs DEF Event, Leg, Recorded, OutEvent, OutType
  <2>6. rscan[r] # Null => Event(r) = InEvent(r) /\ Event(r)' = InEvent(r)'
    BY <2>1, EventIs DEF Event, Leg, Recorded, InEvent
  <2>7. Reported(OutEvent(r)) => Reported(OutEvent(r))'
    BY <2>1, <2>3 DEF Reported, Saved, Forwarded
  <2>8. Judged(r)' <=> Judged(r)
    BY <2>1 DEF Judged
  <2>9. got'[r] = Null
    BY <2>1
  <2> QED BY <2>1, <2>2, <2>4, <2>5, <2>6, <2>7, <2>8, <2>9
<1>5. ASSUME UNCHANGED << config, req, scan, rscan, stored, siem, lost >>
      PROVE  /\ Reported(OutEvent(r))' <=> Reported(OutEvent(r))
             /\ Reported(InEvent(r))' <=> Reported(InEvent(r))
             /\ Judged(r)' <=> Judged(r)
  BY <1>5 DEF Reported, Saved, Forwarded, OutEvent, OutType, InEvent, Judged
<1>6. CASE Refuse(r) \/ ReplyFails(r) \/ McpUnlicensed(r)
  <2>1. UNCHANGED << config, req, scan, rscan, sent, got, stored, siem, lost >> /\ pc' = [pc EXCEPT ![r] = "done"]
    BY <1>6, ZenonT(60) DEF Refuse, ReplyFails, McpUnlicensed
  <2> QED BY <1>5, <2>1
<1>7. CASE Send(r)
  <2>1. /\ UNCHANGED << config, req, scan, rscan, got, stored, siem, lost >> /\ pc' = [pc EXCEPT ![r] = "await"]
        /\ pc[r] = "enforce" /\ ~ Denied(scan[r].action)
    BY <1>7 DEF Send
  <2> QED BY <1>5, <2>1
<1>8. CASE StreamReply(r) \/ McpReply(r)
  <2>1. /\ UNCHANGED << config, req, scan, rscan, sent, stored, siem, lost >> /\ pc' = [pc EXCEPT ![r] = "done"]
        /\ pc[r] \in {"reply", "mcp_reply"}
    BY <1>8 DEF StreamReply, McpReply
  <2> QED BY <1>5, <2>1
<1>9. CASE ScanReply(r)
  <2>1. /\ UNCHANGED << config, req, scan, sent, got, stored, siem, lost >> /\ pc' = [pc EXCEPT ![r] = "save"]
        /\ pc[r] = "reply"
    BY <1>9 DEF ScanReply
  <2>2. Reported(OutEvent(r))' <=> Reported(OutEvent(r))
    BY <2>1 DEF Reported, Saved, Forwarded, OutEvent, OutType
  <2>3. (Judged(r)' <=> Judged(r)) /\ got'[r] = Null
    BY <2>1 DEF Judged
  <2> QED BY <2>1, <2>2, <2>3
<1>10. CASE Deliver(r)
  <2>1. /\ UNCHANGED << config, req, scan, rscan, sent, stored, siem, lost >> /\ pc' = [pc EXCEPT ![r] = "done"]
        /\ pc[r] = "deliver" /\ (Denied(rscan[r].action) => got' = got)
    BY <1>10 DEF Deliver
  <2> QED BY <1>5, <2>1
<1>11. CASE McpJudge(r)
  <2>1. /\ UNCHANGED << req, sent, got, rscan >> /\ pc[r] = "mcp"
        /\ \/ pc' = [pc EXCEPT ![r] = "mcp_send"] /\ req[r].tool = ""
           \/ pc' = [pc EXCEPT ![r] = "save"]
    BY <1>11 DEF McpJudge
  <2>2. pc'[r] = "mcp_send" => ~ Judged(r)'
    BY <2>1 DEF Judged, Handled
  <2>3. sent'[r] = Null /\ rscan'[r] = Null /\ got'[r] = Null /\ pc'[r] \in {"mcp_send", "save"}
    BY <2>1
  <2> QED BY <2>2, <2>3
<1>12. CASE McpEnforce(r)
  <2>1. /\ UNCHANGED << config, req, scan, rscan, sent, got, stored, siem, lost >>
        /\ pc[r] = "mcp_enforce"
    BY <1>12 DEF McpEnforce
  <2>2. pc' = [pc EXCEPT ![r] = "done"] \/ pc' = [pc EXCEPT ![r] = "mcp_send"]
    BY <1>12 DEF McpEnforce
  <2> QED BY <1>5, <2>1, <2>2
<1>13. CASE McpSend(r)
  <2>1. /\ UNCHANGED << config, req, scan, rscan, got, stored, siem, lost >>
        /\ pc[r] = "mcp_send" /\ pc'[r] \in {"await", "done"}
    BY <1>13 DEF McpSend
  <2>2. ~ Denied(scan[r].action) /\ rscan[r] = Null
    BY <2>1
  <2> QED BY <1>5, <2>1, <2>2
<1> QED BY <1>1, <1>2, <1>3, <1>4, <1>6, <1>7, <1>8, <1>9, <1>10, <1>11, <1>12, <1>13 DEF Handle

LEMMA EnvironmentTrail ==
  ASSUME StageInv, HandledInv, TrailInv, NEW r \in Reqs,
         Arrive(r) \/ UpstreamReplies(r) \/ UpstreamFails(r) \/ Disconnect(r)
  PROVE  Trail(r)'
<1> USE DEF StageInv, HandledInv, MoreMaps, Mapped, Stage, TrailInv, Trail, Goto, Answer, env
<1>1. CASE Arrive(r)
  <2>1. pc'[r] \in {"done", "mcp", "fields", "scan"} /\ pc[r] = "idle" /\ UNCHANGED << sent, got, rscan, scan >>
    BY <1>1 DEF Arrive
  <2>2. sent'[r] = Null /\ rscan'[r] = Null
    BY <2>1
  <2> QED BY <2>1, <2>2
<1>2. CASE UpstreamReplies(r) \/ UpstreamFails(r) \/ Disconnect(r)
  <2>1. /\ UNCHANGED << config, req, scan, rscan, sent, got, stored, siem, lost >>
        /\ pc'[r] \in {"mcp_reply", "reply", "done", "gone"}
    BY <1>2, ZenonT(60) DEF UpstreamReplies, UpstreamFails, Disconnect
  <2>2. /\ Reported(OutEvent(r))' <=> Reported(OutEvent(r))
        /\ Reported(InEvent(r))' <=> Reported(InEvent(r))
        /\ Judged(r)' <=> Judged(r)
    BY <2>1 DEF Reported, Saved, Forwarded, OutEvent, OutType, InEvent, Judged
  <2> QED BY <2>1, <2>2
<1> QED BY <1>1, <1>2

\* A step of one request keeps the trail of the others.
LEMMA TrailStep ==
  ASSUME StageInv, TrailInv, NEW r \in Reqs, Only(r), Frame(r), Settled(r), Trail(r)'
  PROVE  TrailInv'
<1>1. ASSUME NEW q \in Reqs \ {r} PROVE Trail(q)'
  <2>1. OutEvent(q)' = OutEvent(q) /\ InEvent(q)' = InEvent(q) /\ (Judged(q)' <=> Judged(q))
    BY DEF Only, Frame, OutEvent, OutType, InEvent, Judged
  <2>2. \A e : (Saved(e) => Saved(e)') /\ (Reported(e) => Reported(e)')
    BY DEF Frame, Reported, Saved, Forwarded
  <2>3. Trail(q)
    BY DEF TrailInv
  <2>4. /\ pc'[q] = pc[q] /\ scan'[q] = scan[q] /\ rscan'[q] = rscan[q]
        /\ sent'[q] = sent[q] /\ got'[q] = got[q]
    BY DEF Only
  <2>5. pc[q] = "forward" => Saved(IF rscan[q] = Null THEN OutEvent(q) ELSE InEvent(q))'
    BY <2>1, <2>2, <2>3, <2>4 DEF Trail
  <2> QED BY <2>1, <2>2, <2>3, <2>4, <2>5 DEF Trail
<1>2. ASSUME NEW q \in Reqs
      PROVE  /\ scan[q] # Null => scan'[q] # Null /\ OutEvent(q)' = OutEvent(q)
             /\ rscan[q] # Null => rscan'[q] # Null /\ InEvent(q)' = InEvent(q)
  <2>1. scan[q] # Null => scan'[q] = scan[q] /\ req'[q] = req[q]
    BY DEF Settled, Only, Frame
  <2>2. rscan[q] # Null => rscan'[q] = rscan[q]
    BY DEF Settled, Only
  <2> QED BY <2>1, <2>2 DEF OutEvent, OutType, InEvent
<1>3. ASSUME NEW e \in stored' \cup siem' \cup lost' PROVE Honest(e)'
  <2>1. Honest(e)
    BY EventIs DEF Settled, TrailInv, Honest
  <2>2. PICK q \in Reqs : (scan[q] # Null /\ e = OutEvent(q)) \/ (rscan[q] # Null /\ e = InEvent(q))
    BY <2>1 DEF Honest
  <2>3. (scan'[q] # Null /\ e = OutEvent(q)') \/ (rscan'[q] # Null /\ e = InEvent(q)')
    BY <1>2, <2>2
  <2> QED BY <2>3 DEF Honest
<1> QED BY <1>1, <1>3 DEF TrailInv

LEMMA TrailInvariant == Spec => []TrailInv
<1>1. Init => TrailInv
  <2> SUFFICES ASSUME Init PROVE TrailInv
    OBVIOUS
  <2>1. stored = {} /\ siem = {} /\ lost = {}
    BY DEF Init
  <2>2. \A r \in Reqs : pc[r] = "idle" /\ sent[r] = Null /\ rscan[r] = Null
    BY DEF Init
  <2> QED BY <2>1, <2>2 DEF TrailInv, Trail
<1>2. StageInv /\ HandledInv /\ TrailInv /\ [Next]_vars => TrailInv'
  <2> SUFFICES ASSUME StageInv, HandledInv, TrailInv, [Next]_vars PROVE TrailInv'
    OBVIOUS
  <2>1. ASSUME NEW r \in Reqs, Handle(r) PROVE TrailInv'
    BY <2>1, HandleOnly, HandleFrame, HandleSettled, HandleTrail, TrailStep
  <2>2. ASSUME NEW r \in Reqs, Arrive(r) \/ UpstreamReplies(r) \/ UpstreamFails(r) \/ Disconnect(r)
        PROVE  TrailInv'
    BY <2>2, EnvironmentOnly, EnvironmentFrame, EnvironmentSettled, EnvironmentTrail, TrailStep
  <2>3. CASE ChangePolicy \/ UNCHANGED vars
    <3>1. UNCHANGED << config, pc, req, scan, rscan, sent, got, stored, siem, lost >>
      BY <2>3 DEF ChangePolicy, vars
    <3>2. \A r \in Reqs : OutEvent(r)' = OutEvent(r) /\ InEvent(r)' = InEvent(r) /\ (Judged(r)' <=> Judged(r))
      BY <3>1 DEF OutEvent, OutType, InEvent, Judged
    <3>3. \A e : (Saved(e) <=> Saved(e)') /\ (Reported(e) <=> Reported(e)')
      BY <3>1 DEF Reported, Saved, Forwarded
    <3>4. \A e : Honest(e) <=> Honest(e)'
      BY <3>1, <3>2 DEF Honest
    <3>5. ASSUME NEW r \in Reqs PROVE Trail(r)'
      <4>1. Trail(r)
        BY DEF TrailInv
      <4>2. pc[r] = "forward" => Saved(IF rscan[r] = Null THEN OutEvent(r) ELSE InEvent(r))'
        BY <3>1, <3>2, <3>3, <4>1 DEF Trail
      <4> QED BY <3>1, <3>2, <3>3, <4>1, <4>2 DEF Trail
    <3> QED BY <3>1, <3>4, <3>5 DEF TrailInv
  <2> QED BY <2>1, <2>2, <2>3 DEF Next
<1> QED BY <1>1, <1>2, StageInvariant, HandledInvariant, PTL DEF Spec

\* Whatever crossed the proxy was on record before it did, in both sinks or
\* lost to a database that failed.
THEOREM CrossingsAreOnRecord == Spec => []CrossedIsOnRecord
<1>1. StageInv /\ TypeInv /\ TrailInv => CrossedIsOnRecord
  <2> SUFFICES ASSUME StageInv, TypeInv, TrailInv, NEW r \in Reqs
               PROVE  /\ sent[r] # Null /\ (req[r].kind = "mcp" => req[r].tool # "") =>
                           OnRecord(r, IF req[r].kind = "mcp" THEN "mcp" ELSE "request")
                      /\ got[r] # Null /\ rscan[r] # Null => OnRecord(r, "response")
    BY DEF CrossedIsOnRecord
  <2>1. ASSUME sent[r] # Null, Judged(r)
        PROVE  OnRecord(r, OutType(r))
    <3>1. scan[r] # Null /\ ~ Denied(scan[r].action) /\ scan[r].action \in Actions
      BY <2>1 DEF StageInv, Stage, TrailInv, Trail
    <3>2. OutEvent(r) = << r, OutType(r), scan[r].action >>
      BY <3>1 DEF OutEvent, Denied, enforcement_action
    <3>3. Reported(OutEvent(r))
      BY <2>1 DEF TrailInv, Trail
    <3> QED BY <3>1, <3>2, <3>3 DEF OnRecord, Reported, Saved, Forwarded
  <2>2. ASSUME got[r] # Null, rscan[r] # Null
        PROVE  OnRecord(r, "response")
    <3>1. ~ Denied(rscan[r].action) /\ rscan[r].action \in Actions
      BY <2>2 DEF StageInv, Stage, TrailInv, Trail
    <3>2. Reported(InEvent(r))
      BY <2>2 DEF TrailInv, Trail
    <3> QED BY <3>1, <3>2 DEF InEvent, OnRecord, Reported, Saved, Forwarded
  <2> QED BY <2>1, <2>2 DEF OutType, Judged
<1> QED BY <1>1, StageInvariant, TypeInvariant, TrailInvariant, PTL

\* The two sinks never contradict each other or the outcome: what they call
\* denied did not cross.
THEOREM RecordsTellOutcome == Spec => []RecordTellsOutcome
<1>1. StageInv /\ TrailInv => RecordTellsOutcome
  <2> SUFFICES ASSUME StageInv, TrailInv PROVE RecordTellsOutcome
    OBVIOUS
  <2>1. \A r \in Reqs : OutType(r) # "response" /\ OutEvent(r)[1] = r /\ OutEvent(r)[2] = OutType(r)
                        /\ InEvent(r)[1] = r /\ InEvent(r)[2] = "response"
    BY DEF OutEvent, OutType, InEvent
  <2>2. ASSUME NEW e \in stored \cup siem \cup lost
        PROVE  \E r \in Reqs :
                 /\ e[1] = r
                 /\ \/ scan[r] # Null /\ e = OutEvent(r) /\ e[2] = OutType(r)
                    \/ rscan[r] # Null /\ e = InEvent(r) /\ e[2] = "response"
    BY <2>1 DEF TrailInv, Honest
  <2>3. \A e, f \in stored \cup siem \cup lost : e[1] = f[1] /\ e[2] = f[2] => e[3] = f[3]
    <3> TAKE e, f \in stored \cup siem \cup lost
    <3> HAVE e[1] = f[1] /\ e[2] = f[2]
    <3>1. e = f
      BY <2>1, <2>2
    <3> QED BY <3>1
  <2>4. ASSUME NEW e \in stored \cup siem, Denied(e[3])
        PROVE  IF e[2] = "response" THEN got[e[1]] = Null ELSE sent[e[1]] = Null
    <3>1. PICK r \in Reqs :
                 /\ e[1] = r
                 /\ \/ scan[r] # Null /\ e = OutEvent(r) /\ e[2] = OutType(r)
                    \/ rscan[r] # Null /\ e = InEvent(r) /\ e[2] = "response"
      BY <2>2
    <3>2. CASE scan[r] # Null /\ e = OutEvent(r) /\ e[2] = OutType(r)
      <4>1. Denied(scan[r].action)
        BY <2>4, <3>2 DEF OutEvent, Denied, enforcement_action
      <4>2. sent[r] = Null
        BY <4>1 DEF TrailInv, Trail
      <4> QED BY <2>1, <3>1, <3>2, <4>2
    <3>3. CASE rscan[r] # Null /\ e = InEvent(r) /\ e[2] = "response"
      <4>1. Denied(rscan[r].action)
        BY <2>4, <3>3 DEF InEvent
      <4>2. got[r] = Null
        BY <3>3, <4>1 DEF TrailInv, Trail
      <4> QED BY <3>1, <3>3, <4>2
    <3> QED BY <3>1, <3>2, <3>3
  <2> QED BY <2>3, <2>4 DEF RecordTellsOutcome
<1> QED BY <1>1, StageInvariant, TrailInvariant, PTL

\* The audit trail is complete and tells the truth, whenever the client hangs
\* up and whichever sink fails.
THEOREM RecordsAreExact == Spec => []RecordExact
BY TypeCorrect, CrossingsAreOnRecord, RecordsTellOutcome, PTL DEF RecordExact

-----------------------------------------------------------------------------
(* What leaves unscanned *)

\* The fields before the n-th have been read, or are exempt.
Covered(r, n) ==
  \A i \in DOMAIN req[r].fields : i < n => req[r].fields[i].text \subseteq seen[r] \cup Exempt(r)

\* What would be sent has no guarded category outside the exempt parts.
Contained(r) ==
  \A c \in outgoing_body(r) : (\A p \in live[r] : Guarded(p, c)) => c \in Exempt(r)

Text(r) ==
  /\ pc[r] = "fields" /\ req[r].boundary => Covered(r, field[r])
  /\ scan[r] # Null /\ req[r].kind # "mcp" /\ ~ Denied(scan[r].action) => Contained(r)
  /\ sent[r] # Null /\ req[r].kind # "mcp" => sent[r] = Bytes(outgoing_body(r))

TextInv == \A r \in Reqs : Text(r)

\* A part that one more policy exempts stays exempt.
LEMMA ExemptGrows ==
  ASSUME NEW r \in Reqs, req'[r] = req[r], live[r] \subseteq live'[r]
  PROVE  Exempt(r) \subseteq Exempt(r)'
BY DEF Exempt

\* A step that leaves a request, its verdict and its policies alone leaves
\* what may be sent alone.
LEMMA TextKept ==
  ASSUME NEW r \in Reqs, Text(r),
         req'[r] = req[r] /\ scan'[r] = scan[r] /\ live'[r] = live[r] /\ sent'[r] = sent[r],
         pc'[r] = "fields" => pc[r] = "fields" /\ field'[r] = field[r] /\ seen'[r] = seen[r]
  PROVE  Text(r)'
<1>1. Exempt(r)' = Exempt(r)
  BY DEF Exempt
<1>2. outgoing_body(r)' = outgoing_body(r)
  BY DEF outgoing_body, Content
<1>3. Contained(r)' <=> Contained(r)
  BY <1>1, <1>2 DEF Contained
<1>4. pc'[r] = "fields" => (Covered(r, field[r])' <=> Covered(r, field[r]))
  BY <1>1 DEF Covered
<1> QED BY <1>2, <1>3, <1>4 DEF Text

\* Where no verdict and nothing sent is, only the fields matter.
LEMMA TextUnscanned ==
  ASSUME NEW r \in Reqs, scan'[r] = Null, sent'[r] = Null,
         pc'[r] = "fields" /\ req'[r].boundary => Covered(r, field[r])'
  PROVE  Text(r)'
BY DEF Text

\* Where a verdict is given, what passes it is contained.
LEMMA TextScanned ==
  ASSUME NEW r \in Reqs, pc'[r] # "fields", sent'[r] = Null,
         req'[r].kind # "mcp" /\ ~ Denied(scan'[r].action) => Contained(r)'
  PROVE  Text(r)'
BY DEF Text

\* The next field is read, or exempt.
LEMMA FieldCovered ==
  ASSUME StageInv, HandledInv, NEW r \in Reqs, ScanField(r), Covered(r, field[r]),
         field' = [field EXCEPT ![r] = @ + 1]
  PROVE  Covered(r, field[r])'
<1> DEFINE f == req[r].fields[field[r]]
<1> DEFINE upload == IF f.ext = "" THEN "Inspect" ELSE upload_action(policy, f.ext)
<1>1. /\ pc[r] = "fields" /\ upload # "Block"
      /\ seen' = IF upload = "Inspect" /\ f.shape = "text" THEN [seen EXCEPT ![r] = @ \cup f.text] ELSE seen
      /\ UNCHANGED << req, live >>
  <2>1. field[r] + 1 # field[r]
    BY DEF HandledInv, Handled
  <2>2. field' # field
    BY <2>1 DEF HandledInv, MoreMaps, Mapped
  <2> QED BY <2>2 DEF ScanField
<1>2. /\ req[r].kind = "multipart" /\ field[r] \in Nat \ {0} /\ policy \in live[r]
      /\ req[r] \in Requests[r] /\ policy \in Policies
  BY <1>1 DEF HandledInv, Handled, Scanning, StageInv
<1>3. Exempt(r)' = Exempt(r)
  <2>1. req' = req /\ live' = live
    BY <1>1
  <2> QED BY <2>1 DEF Exempt
<1>4. field'[r] = field[r] + 1
  BY DEF HandledInv, MoreMaps, Mapped
<1>5. seen[r] \subseteq seen'[r] /\ (upload = "Inspect" /\ f.shape = "text" => f.text \subseteq seen'[r])
  BY <1>1 DEF HandledInv, MoreMaps, Mapped
<1>6. req[r].fields \in Seq(Fields)
  BY <1>2, RequestsAssumption, SMTT(60)
<1>7. ASSUME field[r] \in DOMAIN req[r].fields, ~ (upload = "Inspect" /\ f.shape = "text")
      PROVE  f.text \subseteq Exempt(r)
  <2>1. upload_action(policy, f.ext) \in {"Allow", "Inspect", "Block"}
    BY <1>2, PoliciesAssumption DEF WellTyped, upload_action
  <2>2. f.shape # "text" \/ (f.ext # "" /\ \E p \in live[r] : upload_action(p, f.ext) = "Allow")
    BY <1>1, <1>2, <1>7, <2>1
  <2> QED BY <1>2, <1>7, <2>2 DEF Exempt
<1>8. ASSUME NEW i \in DOMAIN req[r].fields, i < field[r] + 1
      PROVE  req[r].fields[i].text \subseteq seen'[r] \cup Exempt(r)
  <2>1. CASE i < field[r]
    BY <1>5, <2>1 DEF Covered
  <2>2. CASE ~ (i < field[r])
    <3>1. i = field[r]
      BY <1>2, <1>6, <1>8, <2>2
    <3> QED BY <1>5, <1>7, <3>1
  <2> QED BY <2>1, <2>2
<1> HIDE DEF f, upload
<1> QED BY <1>1, <1>3, <1>4, <1>8 DEF Covered

\* The whole upload is read, or exempt, when the loop over its fields ends.
LEMMA UploadCovered ==
  ASSUME StageInv, HandledInv, NEW r \in Reqs, ScanFields(r), Text(r), NEW c \in Content(req[r])
  PROVE  c \in Exempt(r) \/ (req[r].boundary /\ c \in seen[r])
<1>1. /\ pc[r] = "fields"
      /\ \/ ~ req[r].boundary
         \/ field[r] > Len(req[r].fields)
         \/ field[r] <= Len(req[r].fields) /\ req[r].fields[field[r]].shape = "cut"
  BY DEF ScanFields
<1>2. req[r].kind = "multipart" /\ field[r] \in Nat \ {0} /\ req[r].fields \in Seq(Fields)
  BY <1>1, RequestsAssumption DEF HandledInv, Handled
<1>3. PICK i \in DOMAIN req[r].fields : c \in req[r].fields[i].text
  BY <1>2 DEF Content
<1>4. i \in 1 .. Len(req[r].fields)
  BY <1>2
<1>5. CASE ~ req[r].boundary
  BY <1>2, <1>3, <1>5 DEF Exempt
<1>6. CASE req[r].boundary /\ i < field[r]
  BY <1>1, <1>3, <1>6 DEF Text, Covered
<1>7. CASE req[r].boundary /\ ~ (i < field[r])
  <2>1. field[r] \in 1 .. i /\ req[r].fields[field[r]].shape = "cut"
    BY <1>1, <1>2, <1>4, <1>7
  <2> QED BY <1>2, <1>3, <2>1 DEF Exempt
<1> QED BY <1>5, <1>6, <1>7

LEMMA ScanText ==
  ASSUME StageInv, HandledInv, TextInv, NEW r \in Reqs, ScanBody(r) \/ ScanField(r) \/ ScanFields(r)
  PROVE  Text(r)'
<1>1. CASE ScanBody(r)
  <2> DEFINE s == inspect(policy, Visible(req[r]))
  <2>1. /\ pc[r] = "scan" /\ pc' = [pc EXCEPT ![r] = "save"] /\ scan' = [scan EXCEPT ![r] = s]
        /\ UNCHANGED << req, live, sent >>
    BY <1>1 DEF ScanBody, Goto, SetScan
  <2>2. scan'[r] = s /\ pc'[r] = "save" /\ sent'[r] = Null
    BY <2>1 DEF StageInv, Stage, Mapped
  <2>3. policy \in Policies /\ policy \in live[r] /\ req[r].kind \in {"json", "text"}
    BY <2>1 DEF StageInv, HandledInv, Handled, Scanning
  <2>4. Exempt(r)' = Exempt(r)
    <3>1. req' = req /\ live' = live
      BY <2>1
    <3> QED BY <3>1 DEF Exempt
  <2>5. outgoing_body(r)' = IF s.action = "Redact" THEN s.sanitized ELSE req[r].text
    BY <2>1, <2>2, <2>3 DEF outgoing_body, Content
  <2>6. ASSUME ~ Denied(s.action), NEW c \in outgoing_body(r)', \A p \in live[r] : Guarded(p, c)
        PROVE  c \in Exempt(r)
    <3>1. Guarded(policy, c)
      BY <2>3, <2>6
    <3>2. CASE req[r].encoded
      <4>1. Visible(req[r]) = {}
        BY <3>2 DEF Visible
      <4>2. s.action # "Redact"
        BY <2>3, <4>1, PoliciesAssumption, InspectNothing
      <4> QED BY <2>3, <2>5, <2>6, <3>2, <4>2 DEF Exempt
    <3>3. CASE ~ req[r].encoded
      <4>1. Visible(req[r]) = req[r].text
        BY <3>3 DEF Visible
      <4>2. s.sanitized \subseteq req[r].text
        BY <4>1 DEF inspect
      <4>3. c \in req[r].text
        BY <2>5, <2>6, <4>2
      <4>4. s.action = "Redact" /\ c \notin s.sanitized
        BY <2>3, <2>6, <3>1, <4>1, <4>3, PoliciesAssumption, InspectGuards
      <4> QED BY <2>5, <2>6, <4>4
    <3> QED BY <3>2, <3>3
  <2> HIDE DEF s
  <2>7. ~ Denied(scan'[r].action) => Contained(r)'
    BY <2>1, <2>2, <2>4, <2>6 DEF Contained
  <2> QED BY <2>2, <2>7, TextScanned
<1>2. CASE ScanField(r)
  <2>1. /\ pc[r] = "fields" /\ req[r].boundary /\ UNCHANGED << req, live, sent >>
    BY <1>2 DEF ScanField
  <2>2. \/ /\ pc' = [pc EXCEPT ![r] = "save"] /\ scan' = [scan EXCEPT ![r] = blocked_upload_result]
        \/ /\ pc' = pc /\ scan' = scan /\ field' = [field EXCEPT ![r] = @ + 1]
    BY <1>2 DEF ScanField, Goto, SetScan
  <2>3. sent'[r] = Null /\ scan[r] = Null
    BY <2>1 DEF StageInv, Stage
  <2>4. CASE pc' = [pc EXCEPT ![r] = "save"] /\ scan' = [scan EXCEPT ![r] = blocked_upload_result]
    <3>1. pc'[r] = "save" /\ Denied(scan'[r].action)
      BY <2>4 DEF StageInv, Mapped, blocked_upload_result, Denied, enforcement_action
    <3> QED BY <2>3, <3>1, TextScanned
  <2>5. CASE pc' = pc /\ scan' = scan /\ field' = [field EXCEPT ![r] = @ + 1]
    <3>1. Covered(r, field[r])
      BY <2>1 DEF TextInv, Text
    <3>2. Covered(r, field[r])'
      BY <1>2, <2>5, <3>1, FieldCovered
    <3> QED BY <2>3, <2>5, <3>2, TextUnscanned
  <2> QED BY <2>2, <2>4, <2>5
<1>3. CASE ScanFields(r)
  <2> DEFINE T == IF req[r].boundary THEN seen[r] ELSE {}
  <2> DEFINE s == inspect(policy, T)
  <2>1. /\ pc[r] = "fields" /\ pc' = [pc EXCEPT ![r] = "save"] /\ scan' = [scan EXCEPT ![r] = scan_combined(r)]
        /\ UNCHANGED << req, live, sent >>
    BY <1>3 DEF ScanFields, Goto, SetScan
  <2>2. scan'[r] = scan_combined(r) /\ pc'[r] = "save" /\ sent'[r] = Null
    BY <2>1 DEF StageInv, Stage, Mapped
  <2>3. policy \in Policies /\ policy \in live[r] /\ req[r].kind = "multipart"
    BY <2>1 DEF StageInv, HandledInv, Handled, Scanning
  <2>4. Exempt(r)' = Exempt(r)
    <3>1. req' = req /\ live' = live
      BY <2>1
    <3> QED BY <3>1 DEF Exempt
  <2>5. ~ Denied(scan_combined(r).action) => ~ Denied(s.action) /\ s.action # "Redact" /\ scan_combined(r) = s
    <3>1. CASE req[r].boundary /\ s.action = "Redact"
      <4>1. scan_combined(r) = [s EXCEPT !.action = "Block"] /\ "action" \in DOMAIN s
        BY <3>1 DEF scan_combined, inspect
      <4>2. scan_combined(r).action = "Block"
        BY <4>1
      <4> QED BY <4>2 DEF Denied, enforcement_action
    <3>2. CASE ~ (req[r].boundary /\ s.action = "Redact")
      <4>1. scan_combined(r) = s
        BY <3>2 DEF scan_combined
      <4>2. ~ req[r].boundary => s.action # "Redact"
        BY <2>3, PoliciesAssumption, InspectNothing
      <4> QED BY <3>2, <4>1, <4>2
    <3> QED BY <3>1, <3>2
  <2>6. ASSUME ~ Denied(scan_combined(r).action), NEW c \in Content(req[r]), \A p \in live[r] : Guarded(p, c)
        PROVE  c \in Exempt(r)
    <3>1. Guarded(policy, c)
      BY <2>3, <2>6
    <3>2. c \in Exempt(r) \/ (req[r].boundary /\ c \in seen[r])
      BY <1>3, UploadCovered DEF TextInv
    <3>3. ASSUME req[r].boundary, c \in seen[r] PROVE FALSE
      BY <2>3, <2>5, <2>6, <3>1, <3>3, PoliciesAssumption, InspectGuards
    <3> QED BY <3>2, <3>3
  <2> HIDE DEF s
  <2>7. ~ Denied(scan'[r].action) => outgoing_body(r)' = Content(req[r])
    BY <2>1, <2>2, <2>5 DEF outgoing_body
  <2>8. ~ Denied(scan'[r].action) => Contained(r)'
    BY <2>1, <2>2, <2>4, <2>6, <2>7 DEF Contained
  <2> QED BY <2>2, <2>8, TextScanned
<1> QED BY <1>1, <1>2, <1>3

LEMMA HandleText ==
  ASSUME StageInv, HandledInv, TextInv, NEW r \in Reqs, Handle(r)
  PROVE  Text(r)'
<1>1. Text(r)
  BY DEF TextInv
<1>2. CASE ScanBody(r) \/ ScanField(r) \/ ScanFields(r)
  BY <1>2, ScanText
<1>3. CASE Send(r)
  <2>1. /\ pc' = [pc EXCEPT ![r] = "await"] /\ sent' = [sent EXCEPT ![r] = Bytes(outgoing_body(r))]
        /\ UNCHANGED << req, live, scan >>
    BY <1>3 DEF Send, Goto
  <2>2. pc'[r] = "await" /\ sent'[r] = Bytes(outgoing_body(r))
    BY <2>1 DEF StageInv, Mapped
  <2>3. outgoing_body(r)' = outgoing_body(r)
    BY <2>1 DEF outgoing_body
  <2>4. Contained(r)' <=> Contained(r)
    <3>1. req' = req /\ live' = live
      BY <2>1
    <3>2. Exempt(r)' = Exempt(r)
      BY <3>1 DEF Exempt
    <3> QED BY <2>3, <3>1, <3>2 DEF Contained
  <2> QED BY <1>1, <2>1, <2>2, <2>3, <2>4 DEF Text
<1>4. CASE McpJudge(r) \/ McpSend(r)
  <2>1. /\ UNCHANGED << req, live >> /\ pc'[r] # "fields" /\ pc[r] \in {"mcp", "mcp_send"}
    BY <1>4 DEF McpJudge, McpSend, Goto, Answer, StageInv, Mapped
  <2>2. req'[r].kind = "mcp"
    BY <2>1 DEF HandledInv, Handled
  <2> QED BY <2>1, <2>2 DEF Text
<1>5. CASE save_event(r) \/ forward_siem(r) \/ ScanReply(r)
  <2>1. UNCHANGED << req, live, scan, sent >>
    BY <1>5 DEF save_event, forward_siem, ScanReply
  <2>2. pc'[r] # "fields"
    <3>1. CASE save_event(r) \/ ScanReply(r)
      BY <3>1 DEF save_event, ScanReply, Goto, StageInv, Mapped
    <3>2. CASE forward_siem(r)
      BY <3>2 DEF forward_siem, Goto, StageInv, Mapped
    <3> QED BY <1>5, <3>1, <3>2
  <2> QED BY <1>1, <2>1, <2>2, TextKept
<1>6. CASE Refuse(r) \/ StreamReply(r) \/ ReplyFails(r) \/ Deliver(r) \/ McpUnlicensed(r) \/ McpReply(r)
  <2>1. UNCHANGED << req, live, scan, sent >> /\ pc' = [pc EXCEPT ![r] = "done"]
    BY <1>6, ZenonT(60) DEF Refuse, StreamReply, ReplyFails, Deliver, McpUnlicensed, McpReply, Answer, Goto
  <2>2. pc'[r] # "fields"
    BY <2>1 DEF StageInv, Mapped
  <2> QED BY <1>1, <2>1, <2>2, TextKept
<1>7. CASE McpEnforce(r)
  <2>1. UNCHANGED << req, live, scan, sent >>
    BY <1>7 DEF McpEnforce
  <2>2. pc' = [pc EXCEPT ![r] = "done"] \/ pc' = [pc EXCEPT ![r] = "mcp_send"]
    BY <1>7 DEF McpEnforce, Answer, Goto
  <2>3. pc'[r] # "fields"
    BY <2>2 DEF StageInv, Mapped
  <2> QED BY <1>1, <2>1, <2>3, TextKept
<1> QED BY <1>2, <1>3, <1>4, <1>5, <1>6, <1>7 DEF Handle

LEMMA EnvironmentText ==
  ASSUME StageInv, HandledInv, TextInv, NEW r \in Reqs,
         Arrive(r) \/ UpstreamReplies(r) \/ UpstreamFails(r) \/ Disconnect(r)
  PROVE  Text(r)'
<1>1. CASE Arrive(r)
  <2>1. pc[r] = "idle" /\ scan'[r] = Null /\ sent'[r] = Null /\ field'[r] = 1
    BY <1>1 DEF Arrive, StageInv, Stage, HandledInv, Handled
  <2>2. pc'[r] = "fields" => req'[r].fields \in Seq(Fields)
    <3>1. Handled(r)'
      BY <1>1, EnvironmentFrame
    <3> QED BY <3>1, RequestsAssumption DEF Handled
  <2>3. pc'[r] = "fields" => Covered(r, field[r])'
    BY <2>1, <2>2 DEF Covered
  <2> QED BY <2>1, <2>3, TextUnscanned
<1>2. CASE UpstreamReplies(r) \/ UpstreamFails(r) \/ Disconnect(r)
  <2>1. UNCHANGED << req, live, scan, sent >> /\ pc'[r] # "fields"
    BY <1>2, ZenonT(60) DEF UpstreamReplies, UpstreamFails, Disconnect, Answer, Goto, StageInv, Mapped
  <2> QED BY <2>1, TextKept DEF TextInv
<1> QED BY <1>1, <1>2

LEMMA TextInvariant == Spec => []TextInv
<1>1. Init => TextInv
  BY DEF Init, TextInv, Text
<1>2. StageInv /\ HandledInv /\ TextInv /\ [Next]_vars => TextInv'
  <2> SUFFICES ASSUME StageInv, HandledInv, TextInv, [Next]_vars PROVE TextInv'
    OBVIOUS
  <2>1. ASSUME NEW r \in Reqs, Only(r), Frame(r), Text(r)' PROVE TextInv'
    <3>1. ASSUME NEW q \in Reqs \ {r} PROVE Text(q)'
      BY <2>1, TextKept DEF TextInv, Only, Frame
    <3> QED BY <2>1, <3>1 DEF TextInv
  <2>2. ASSUME NEW r \in Reqs, Handle(r) PROVE TextInv'
    BY <2>1, <2>2, HandleOnly, HandleFrame, HandleText
  <2>3. ASSUME NEW r \in Reqs, Arrive(r) \/ UpstreamReplies(r) \/ UpstreamFails(r) \/ Disconnect(r)
        PROVE  TextInv'
    BY <2>1, <2>3, EnvironmentOnly, EnvironmentFrame, EnvironmentText
  <2>4. CASE ChangePolicy
    <3>1. UNCHANGED << pc, req, field, seen, scan, sent >>
      BY <2>4 DEF ChangePolicy
    <3> SUFFICES ASSUME NEW r \in Reqs PROVE Text(r)'
      BY DEF TextInv
    <3>2. Text(r)
      BY DEF TextInv
    <3>3. CASE ~ Scanning(r)
      <4>1. live'[r] = live[r]
        BY <2>4, <3>3 DEF ChangePolicy
      <4> QED BY <3>1, <3>2, <4>1, TextKept
    <3>4. CASE Scanning(r)
      <4>1. live[r] \subseteq live'[r]
        BY <2>4, <3>4 DEF ChangePolicy
      <4>2. scan'[r] = Null /\ sent'[r] = Null
        BY <3>1, <3>4 DEF Scanning, StageInv, Stage
      <4>3. Exempt(r) \subseteq Exempt(r)'
        BY <3>1, <4>1, ExemptGrows
      <4>4. pc[r] = "fields" /\ req[r].boundary => Covered(r, field[r])'
        BY <3>1, <3>2, <4>3 DEF Text, Covered
      <4> QED BY <3>1, <4>2, <4>4, TextUnscanned
    <3> QED BY <3>3, <3>4
  <2>5. CASE UNCHANGED vars
    BY <2>5, TextKept DEF vars, TextInv
  <2> QED BY <2>2, <2>3, <2>4, <2>5 DEF Next
<1> QED BY <1>1, <1>2, StageInvariant, HandledInvariant, PTL DEF Spec

\* What every live policy masks or denies reaches the upstream only in the
\* parts no scan reads, also when the policy changes during an upload.
THEOREM GuardedStaysExempt == Spec => []GuardedOnlyInExemptParts
<1>1. StageInv /\ TrailInv /\ TextInv => GuardedOnlyInExemptParts
  <2> SUFFICES ASSUME StageInv, TrailInv, TextInv, NEW r \in Reqs,
                      sent[r] # Null, req[r].kind # "mcp",
                      NEW c \in sent[r].text, \A p \in live[r] : Guarded(p, c)
               PROVE  c \in Exempt(r)
    BY DEF GuardedOnlyInExemptParts
  <2>1. scan[r] # Null /\ ~ Denied(scan[r].action)
    BY DEF StageInv, Stage, TrailInv, Trail
  <2>2. sent[r] = Bytes(outgoing_body(r)) /\ Contained(r)
    BY <2>1 DEF TextInv, Text
  <2>3. c \in outgoing_body(r)
    BY <2>2 DEF Bytes
  <2> QED BY <2>2, <2>3 DEF Contained
<1> QED BY <1>1, StageInvariant, TrailInvariant, TextInvariant, PTL

-----------------------------------------------------------------------------
(* The streamed answer (StreamScan): for every hold-back length, every body *)
(* length and every set of secrets.                                         *)

USE HoldBackAssumption, LengthAssumption, MatchesAssumption

\* The length flushed is never more than the buffer, is all of it at the end
\* of the upstream, and otherwise leaves exactly the hold-back.
LEMMA FlushLength ==
  ASSUME NEW len \in Nat, NEW done \in BOOLEAN
  PROVE  /\ flush_len(len, done) \in 0 .. len
         /\ done => flush_len(len, done) = len
         /\ ~done => len - flush_len(len, done)
                     = IF len < HoldBack THEN len ELSE HoldBack
  BY DEF flush_len

\* What a window's redaction replaces lies in the window.
LEMMA ReplacedWithin ==
  ASSUME matches \subseteq Span, NEW from \in Nat, NEW to \in Nat, NEW out \in Replaced(from, to)
  PROVE  out \subseteq from .. to
<1>1. PICK D \in SUBSET Findings(from, to) : out = UNION {Positions(m) : m \in D}
  BY DEF Replaced
<1>2. \A m \in Findings(from, to) : Positions(m) \subseteq from .. to
  BY DEF Findings, Positions, Span
<1> QED BY <1>1, <1>2

\* A finding with a replacement is replaced whole, unless one it overlaps is.
LEMMA ReplacedOrOverlapped ==
  ASSUME NEW from \in Nat, NEW to \in Nat, NEW out \in Replaced(from, to),
         NEW m \in Findings(from, to), ~ m.fixed
  PROVE  \/ Positions(m) \subseteq out
         \/ \E k \in Findings(from, to) : Overlap(m, k) /\ Positions(k) \subseteq out
<1>1. PICK D \in SUBSET {x \in Findings(from, to) : ~ x.fixed} :
            /\ out = UNION {Positions(x) : x \in D}
            /\ \A x \in {y \in Findings(from, to) : ~ y.fixed} \ D : \E k \in D : Overlap(x, k)
  BY DEF Replaced
<1>2. \A x \in D : Positions(x) \subseteq out
  BY <1>1
<1>3. CASE m \in D
  BY <1>2, <1>3
<1>4. CASE m \notin D
  <2>1. PICK k \in D : Overlap(m, k)
    BY <1>1, <1>4
  <2> QED BY <2>1, <1>2
<1> QED BY <1>3, <1>4

\* The bytes of a window that are not blocked come out raw or replaced.
LEMMA ForwardedBytes ==
  ASSUME StreamTypeOK, NEW from \in Nat, NEW to \in Nat, Forward(from, to),
         ~ EnforcedBlock(Verdict(from, to))
  PROVE  \E out \in SUBSET (from .. to) :
           /\ raw' = raw \union ((from .. to) \ out)
           /\ masked' = masked \union out
           /\ Verdict(from, to) = "Redact" => out \in Replaced(from, to)
<1>1. matches \subseteq Span
  BY DEF StreamTypeOK
<1>2. PICK out \in IF Verdict(from, to) = "Redact" THEN Replaced(from, to) ELSE {{}} :
           /\ raw' = raw \union ((from .. to) \ out)
           /\ masked' = masked \union out
  BY DEF Forward
<1>3. CASE Verdict(from, to) = "Redact"
  <2>1. out \in Replaced(from, to)
    BY <1>2, <1>3
  <2>2. out \subseteq from .. to
    BY <1>1, <2>1, ReplacedWithin
  <2> QED BY <1>2, <2>1, <2>2
<1>4. CASE Verdict(from, to) # "Redact"
  BY <1>2, <1>4
<1> QED BY <1>3, <1>4

\* One iteration of the loop: the step every read of the upstream ends with.
LEMMA IterationStep ==
  ASSUME StreamTypeOK, [StreamNext]_streamVars, ~UNCHANGED streamVars
  PROVE  \/ \E to \in received .. Length, done \in BOOLEAN :
              Flush(to, done) /\ stream_status = "open"
              /\ (upstream_done => done) /\ (done => to = received)
         \/ /\ UNCHANGED <<matches, received, flushed, upstream_done, raw, masked, windows>>
            /\ \/ action' \in Action /\ UNCHANGED stream_status
               \/ stream_status = "open" /\ stream_status' \in {"failed", "dropped"} /\ UNCHANGED action
<1> USE DEF StreamTypeOK
<1>1. ASSUME NEW n \in 1 .. Length, Chunk(n)
      PROVE  \E to \in received .. Length, done \in BOOLEAN :
               Flush(to, done) /\ stream_status = "open"
              /\ (upstream_done => done) /\ (done => to = received)
  <2>1. received + n \in received .. Length
    BY <1>1 DEF Chunk
  <2> QED BY <1>1, <2>1 DEF Chunk
<1>2. ASSUME UpstreamEnd \/ Finish
      PROVE  \E to \in received .. Length, done \in BOOLEAN :
               Flush(to, done) /\ stream_status = "open"
              /\ (upstream_done => done) /\ (done => to = received)
  <2>1. received \in received .. Length
    OBVIOUS
  <2> QED BY <1>2, <2>1 DEF UpstreamEnd, Finish
<1>3. CASE UpstreamError \/ ClientGone
  BY <1>3 DEF UpstreamError, ClientGone
<1>4. CASE ChangeStreamPolicy
  BY <1>4 DEF ChangeStreamPolicy
<1> QED BY <1>1, <1>2, <1>3, <1>4 DEF StreamNext

-----------------------------------------------------------------------------
(* Type correctness *)

\* Positions, cuts and verdicts stay in their types; in particular the buffer
\* never has negative length and nothing beyond a cut has been delivered.
THEOREM StreamTypeCorrect == StreamSpec => []StreamTypeOK
<1>1. StreamInit => StreamTypeOK
  <2> SUFFICES ASSUME StreamInit PROVE StreamTypeOK
    OBVIOUS
  <2>1. received \in 0 .. Length /\ flushed \in 0 .. received
    BY DEF StreamInit
  <2>2. /\ matches \in MatchSets /\ action \in Action /\ upstream_done \in BOOLEAN
        /\ stream_status \in {"open", "ended", "blocked", "failed", "dropped"}
        /\ raw = {} /\ masked = {} /\ windows = {}
    BY Zenon DEF StreamInit
  <2> QED BY <2>1, <2>2 DEF StreamTypeOK
<1>2. StreamTypeOK /\ [StreamNext]_streamVars => StreamTypeOK'
  <2> SUFFICES ASSUME StreamTypeOK, [StreamNext]_streamVars PROVE StreamTypeOK'
    OBVIOUS
  <2>1. CASE UNCHANGED streamVars
    BY <2>1 DEF StreamTypeOK, streamVars
  <2>2. ASSUME NEW to \in received .. Length, NEW done \in BOOLEAN,
               Flush(to, done), stream_status = "open",
               upstream_done => done, done => to = received
        PROVE  StreamTypeOK'
    <3> DEFINE n == flush_len(to - flushed, done)
    <3>1. n \in 0 .. (to - flushed) /\ flushed \in Nat /\ to \in 0 .. Length
      BY FlushLength DEF StreamTypeOK
    <3> HIDE DEF n
    <3>2. /\ received' = to /\ upstream_done' = done /\ flushed' = flushed + n
          /\ UNCHANGED <<matches, action>>
      BY <2>2 DEF Flush, n
    <3>3. received' \in 0 .. Length /\ flushed' \in 0 .. received'
      BY <3>1, <3>2
    <3>4. CASE n = 0
      <4>1. UNCHANGED <<raw, masked, windows>> /\ stream_status' \in {"ended", "open"}
        BY <2>2, <3>4 DEF Flush, n
      <4> QED BY <3>1, <3>2, <3>3, <3>4, <4>1 DEF StreamTypeOK
    <3>5. CASE n # 0
      <4>1. Forward(flushed + 1, flushed + n)
        BY <2>2, <3>5 DEF Flush, n
      <4>2. Verdict(flushed + 1, flushed + n) \in Action
        BY DEF Verdict, StreamTypeOK, Action
      <4>3. [from |-> flushed + 1, to |-> flushed + n,
             verdict |-> Verdict(flushed + 1, flushed + n)]
              \in [from : 1 .. Length, to : 1 .. Length, verdict : Action]
        BY <3>1, <3>5, <4>2 DEF StreamTypeOK
      <4>4. windows' \subseteq [from : 1 .. Length, to : 1 .. Length, verdict : Action]
        BY <4>1, <4>3 DEF Forward, StreamTypeOK
      <4>5. /\ raw' \subseteq raw \union ((flushed + 1) .. (flushed + n))
            /\ masked' \subseteq masked \union ((flushed + 1) .. (flushed + n))
        <5>1. CASE EnforcedBlock(Verdict(flushed + 1, flushed + n))
          BY <4>1, <5>1 DEF Forward
        <5>2. CASE ~ EnforcedBlock(Verdict(flushed + 1, flushed + n))
          <6>1. flushed + 1 \in Nat /\ flushed + n \in Nat
            BY <3>1
          <6>2. PICK out \in SUBSET ((flushed + 1) .. (flushed + n)) :
                     /\ raw' = raw \union (((flushed + 1) .. (flushed + n)) \ out)
                     /\ masked' = masked \union out
            BY <4>1, <5>2, <6>1, ForwardedBytes
          <6> QED BY <6>2
        <5> QED BY <5>1, <5>2
      <4>6. raw' \subseteq 1 .. flushed' /\ masked' \subseteq 1 .. flushed'
        <5>1. 1 .. flushed \subseteq 1 .. flushed'
          BY <3>1, <3>2
        <5>2. (flushed + 1) .. (flushed + n) \subseteq 1 .. flushed'
          BY <3>1, <3>2
        <5> QED BY <4>5, <5>1, <5>2 DEF StreamTypeOK
      <4>7. stream_status' \in {"open", "blocked"}
        BY <4>1, <2>2 DEF Forward
      <4> QED BY <3>2, <3>3, <4>4, <4>6, <4>7 DEF StreamTypeOK
    <3> QED BY <3>4, <3>5
  <2>3. CASE /\ UNCHANGED <<matches, received, flushed, upstream_done, raw, masked, windows>>
             /\ \/ action' \in Action /\ UNCHANGED stream_status
                \/ stream_status = "open" /\ stream_status' \in {"failed", "dropped"} /\ UNCHANGED action
    BY <2>3 DEF StreamTypeOK
  <2> QED BY <2>1, <2>2, <2>3, IterationStep
<1> QED BY <1>1, <1>2, PTL DEF StreamSpec

-----------------------------------------------------------------------------
(* Delivery *)

\* Exactly the trailing hold-back is withheld while the upstream is open.
THEOREM TailIsHeldBack == StreamSpec => []HoldsBackTail
<1>1. StreamInit => HoldsBackTail
  BY DEF StreamInit, HoldsBackTail
<1>2. StreamTypeOK /\ HoldsBackTail /\ [StreamNext]_streamVars => HoldsBackTail'
  <2> SUFFICES ASSUME StreamTypeOK, HoldsBackTail, [StreamNext]_streamVars PROVE HoldsBackTail'
    OBVIOUS
  <2>1. CASE UNCHANGED streamVars
    BY <2>1 DEF HoldsBackTail, streamVars
  <2>2. ASSUME NEW to \in received .. Length, NEW done \in BOOLEAN,
               Flush(to, done), stream_status = "open",
               upstream_done => done, done => to = received
        PROVE  HoldsBackTail'
    <3> DEFINE n == flush_len(to - flushed, done)
    <3>1. CASE done
      BY <2>2, <3>1 DEF Flush, HoldsBackTail
    <3>2. CASE ~done
      <4>1. flushed \in 0 .. received /\ received \in Nat /\ to - flushed \in Nat
        BY DEF StreamTypeOK
      <4>2. received' = to /\ flushed' = flushed + n
        BY <2>2 DEF Flush
      <4>3. n \in 0 .. (to - flushed)
            /\ (to - flushed) - n = IF to - flushed < HoldBack THEN to - flushed ELSE HoldBack
        BY <3>2, <4>1, FlushLength
      <4>4. to - (flushed + n) = IF to - flushed < HoldBack THEN to - flushed ELSE HoldBack
        BY <4>1, <4>3
      <4>5. received - flushed = IF received < HoldBack THEN received ELSE HoldBack
        BY <2>2, <3>2 DEF HoldsBackTail
      <4>6. to - (flushed + n) = IF to < HoldBack THEN to ELSE HoldBack
        BY <4>1, <4>4, <4>5
      <4> QED BY <4>2, <4>6 DEF HoldsBackTail
    <3> QED BY <3>1, <3>2
  <2>3. CASE /\ UNCHANGED <<matches, received, flushed, upstream_done, raw, masked, windows>>
             /\ \/ action' \in Action /\ UNCHANGED stream_status
                \/ stream_status = "open" /\ stream_status' \in {"failed", "dropped"} /\ UNCHANGED action
    BY <2>3 DEF HoldsBackTail
  <2> QED BY <2>1, <2>2, <2>3, IterationStep
<1> QED BY <1>1, <1>2, StreamTypeCorrect, PTL DEF StreamSpec

\* What the verdict on window w owes the secret m in it.
ContainedIn(w, m) ==
  /\ w.verdict \in {"RequireApproval", "Block"} => Positions(m) \intersect raw = {}
  /\ w.verdict = "Redact" /\ ~ m.fixed =>
       \/ Positions(m) \intersect raw = {}
       \/ \E k \in Findings(w.from, w.to) : Overlap(m, k) /\ Positions(k) \intersect raw = {}

\* What a window with an enforcing verdict contained stays out of the client's
\* raw bytes; no later window reaches back to it.
ContainedInv ==
  /\ \A w \in windows : w.to <= flushed
  /\ \A w \in windows, m \in matches :
       w.from <= m.first /\ m.last <= w.to => ContainedIn(w, m)

\* The two kinds of containment are of different verdicts.
LEMMA EnforcedIsNotRedact == ~ EnforcedBlock("Redact")
  BY DEF EnforcedBlock

\* Of a secret inside a window judged Block or RequireApproval no byte reaches
\* the client; of one in a window judged Redact none does either, unless one it
\* overlaps was replaced before it.
THEOREM ContainedSecretsNeverLeak == StreamSpec => []ContainedNeverLeaks
<1>1. StreamInit => ContainedInv
  BY DEF StreamInit, ContainedInv
<1>2. StreamTypeOK /\ StreamTypeOK' /\ ContainedInv /\ [StreamNext]_streamVars => ContainedInv'
  <2> SUFFICES ASSUME StreamTypeOK, StreamTypeOK', ContainedInv, [StreamNext]_streamVars PROVE ContainedInv'
    OBVIOUS
  <2>1. CASE UNCHANGED streamVars
    BY <2>1 DEF ContainedInv, ContainedIn, Findings, streamVars
  <2>2. ASSUME NEW to \in received .. Length, NEW done \in BOOLEAN,
               Flush(to, done), stream_status = "open",
               upstream_done => done, done => to = received
        PROVE  ContainedInv'
    <3> DEFINE n == flush_len(to - flushed, done)
               v == Verdict(flushed + 1, flushed + n)
               f == Findings(flushed + 1, flushed + n)
               w0 == [from |-> flushed + 1, to |-> flushed + n, verdict |-> v]
    <3>1. n \in 0 .. (to - flushed) /\ flushed \in Nat /\ to - flushed \in Nat
      BY FlushLength DEF StreamTypeOK
    <3>2. flushed' = flushed + n /\ UNCHANGED matches
      BY <2>2 DEF Flush
    <3>3. matches \subseteq Span
      BY DEF StreamTypeOK
    <3>4. CASE n = 0
      <4>1. UNCHANGED <<raw, windows, flushed>>
        BY <2>2, <3>1, <3>4 DEF Flush, StreamTypeOK
      <4> QED BY <3>2, <4>1 DEF ContainedInv, ContainedIn, Findings
    <3>5. CASE n # 0
      <4>1. Forward(flushed + 1, flushed + n)
        BY <2>2, <3>5 DEF Flush
      <4>2. windows' = windows \union {w0}
        BY <4>1 DEF Forward
      <4>3. \A w \in windows' : w.to <= flushed'
        <5>1. \A w \in windows : w.to \in Nat
          BY DEF StreamTypeOK
        <5> QED BY <3>1, <3>2, <4>2, <5>1 DEF ContainedInv
      <4>4. raw' \subseteq raw \union ((flushed + 1) .. (flushed + n))
        BY <4>1 DEF Forward
      <4>5. ASSUME NEW w \in windows, NEW m \in matches,
                   w.from <= m.first, m.last <= w.to, Positions(m) \intersect raw = {}
            PROVE  Positions(m) \intersect raw' = {}
        <5>1. w.to \in Nat /\ w.to <= flushed /\ m.first \in Nat /\ m.last \in Nat
          BY <3>3 DEF ContainedInv, StreamTypeOK, Span
        <5>2. \A p \in Positions(m) : p \notin (flushed + 1) .. (flushed + n)
          BY <4>5, <5>1, <3>1 DEF Positions
        <5> QED BY <4>4, <4>5, <5>2
      <4>6. ASSUME NEW w \in windows, NEW m \in matches, w.from <= m.first, m.last <= w.to
            PROVE  ContainedIn(w, m)'
        <5>1. w.from \in Nat /\ w.to \in Nat
          BY DEF StreamTypeOK
        <5>2. CASE w.verdict \in {"RequireApproval", "Block"}
          BY <4>5, <4>6, <5>2, <3>2 DEF ContainedInv, ContainedIn, Positions
        <5>3. CASE w.verdict = "Redact" /\ ~ m.fixed
          <6>1. CASE Positions(m) \intersect raw = {}
            BY <4>5, <4>6, <5>3, <6>1, EnforcedIsNotRedact DEF ContainedIn, Positions
          <6>2. CASE Positions(m) \intersect raw # {}
            <7>1. PICK k \in Findings(w.from, w.to) : Overlap(m, k) /\ Positions(k) \intersect raw = {}
              BY <4>6, <5>3, <6>2 DEF ContainedInv, ContainedIn
            <7>2. k \in matches /\ w.from <= k.first /\ k.last <= w.to
              BY <7>1 DEF Findings
            <7>3. Positions(k) \intersect raw' = {}
              BY <4>5, <7>1, <7>2
            <7>4. k \in Findings(w.from, w.to)'
              BY <7>2, <3>2 DEF Findings
            <7> QED BY <5>3, <7>1, <7>3, <7>4, EnforcedIsNotRedact DEF ContainedIn, Overlap, Positions
          <6> QED BY <6>1, <6>2
        <5> QED BY <5>2, <5>3 DEF ContainedIn
      <4>7. ASSUME NEW w \in windows', w = w0, NEW m \in matches,
                   flushed + 1 <= m.first, m.last <= flushed + n
            PROVE  ContainedIn(w, m)'
        <5>0. w.from = flushed + 1 /\ w.to = flushed + n /\ w.verdict = v
          BY <4>7
        <5>1. m \in f
          BY <4>7 DEF Findings
        <5>2. \A k \in f : Positions(k) \intersect raw = {}
          <6> SUFFICES ASSUME NEW k \in f PROVE Positions(k) \intersect raw = {}
            OBVIOUS
          <6>1. k.first \in Nat /\ k.last \in Nat /\ flushed + 1 <= k.first
            BY <3>3 DEF Span, Findings
          <6> QED BY <6>1, <3>1 DEF Positions, StreamTypeOK
        <5>3. CASE v \in {"RequireApproval", "Block"}
          <6>1. raw' = raw
            BY <4>1, <5>3 DEF Forward, EnforcedBlock
          <6>2. Positions(m) \intersect raw' = {}
            BY <5>1, <5>2, <6>1
          <6> QED BY <5>0, <5>3, <6>2, EnforcedIsNotRedact DEF ContainedIn, Positions
        <5>4. CASE v = "Redact" /\ ~ m.fixed
          <6>1. flushed + 1 \in Nat /\ flushed + n \in Nat /\ ~ EnforcedBlock(v)
            BY <3>1, <5>4, EnforcedIsNotRedact
          <6>2. PICK out \in SUBSET ((flushed + 1) .. (flushed + n)) :
                     /\ raw' = raw \union (((flushed + 1) .. (flushed + n)) \ out)
                     /\ out \in Replaced(flushed + 1, flushed + n)
            BY <4>1, <5>4, <6>1, ForwardedBytes
          <6>3. \A k \in f : Positions(k) \subseteq out => Positions(k) \intersect raw' = {}
            BY <5>2, <6>2
          <6>4. CASE Positions(m) \subseteq out
            BY <5>0, <5>1, <5>4, <6>3, <6>4, EnforcedIsNotRedact DEF ContainedIn, Positions
          <6>5. CASE ~ (Positions(m) \subseteq out)
            <7>1. PICK k \in f : Overlap(m, k) /\ Positions(k) \subseteq out
              BY <5>1, <5>4, <6>1, <6>2, <6>5, ReplacedOrOverlapped
            <7>2. k \in Findings(w.from, w.to)'
              BY <5>0, <7>1, <3>2 DEF Findings
            <7>3. Positions(k) \intersect raw' = {}
              BY <6>3, <7>1
            <7> QED BY <5>0, <5>4, <7>1, <7>2, <7>3, EnforcedIsNotRedact DEF ContainedIn, Overlap, Positions
          <6> QED BY <6>4, <6>5
        <5> QED BY <5>0, <5>3, <5>4 DEF ContainedIn
      <4>8. \A w \in windows', m \in matches' :
              w.from <= m.first /\ m.last <= w.to => ContainedIn(w, m)'
        <5> SUFFICES ASSUME NEW w \in windows', NEW m \in matches',
                            w.from <= m.first, m.last <= w.to
                     PROVE  ContainedIn(w, m)'
          OBVIOUS
        <5>1. CASE w \in windows
          BY <5>1, <4>6, <3>2
        <5>2. CASE w = w0
          BY <5>2, <4>7, <3>2
        <5> QED BY <5>1, <5>2, <4>2
      <4> QED BY <4>3, <4>8 DEF ContainedInv
    <3> QED BY <3>4, <3>5
  <2>3. CASE /\ UNCHANGED <<matches, received, flushed, upstream_done, raw, masked, windows>>
             /\ \/ action' \in Action /\ UNCHANGED stream_status
                \/ stream_status = "open" /\ stream_status' \in {"failed", "dropped"} /\ UNCHANGED action
    BY <2>3 DEF ContainedInv, ContainedIn, Findings
  <2> QED BY <2>1, <2>2, <2>3, IterationStep
<1>3. ContainedInv => ContainedNeverLeaks
  BY DEF ContainedInv, ContainedNeverLeaks, ContainedIn
<1> QED BY <1>1, <1>2, <1>3, StreamTypeCorrect, PTL DEF StreamSpec

\* Nothing is cut off and lost.
PrefixInv ==
  /\ upstream_done => flushed = received
  /\ stream_status = "ended" => upstream_done
  /\ DeliveredIsPrefix

\* The client gets a gapless prefix of the body, all of it if the stream ends.
LEMMA PrefixInvariant == StreamSpec => []PrefixInv
<1>1. StreamInit => PrefixInv
  BY DEF StreamInit, PrefixInv, DeliveredIsPrefix
<1>2. StreamTypeOK /\ StreamTypeOK' /\ PrefixInv /\ [StreamNext]_streamVars => PrefixInv'
  <2> SUFFICES ASSUME StreamTypeOK, StreamTypeOK', PrefixInv, [StreamNext]_streamVars PROVE PrefixInv'
    OBVIOUS
  <2>1. CASE UNCHANGED streamVars
    BY <2>1 DEF PrefixInv, DeliveredIsPrefix, streamVars
  <2>2. ASSUME NEW to \in received .. Length, NEW done \in BOOLEAN,
               Flush(to, done), stream_status = "open",
               upstream_done => done, done => to = received
        PROVE  PrefixInv'
    <3> DEFINE n == flush_len(to - flushed, done)
    <3>1. /\ n \in 0 .. (to - flushed) /\ flushed \in Nat /\ to \in Nat
          /\ to - flushed \in Nat
          /\ done => n = to - flushed
      BY FlushLength DEF StreamTypeOK
    <3>2. flushed' = flushed + n /\ received' = to /\ upstream_done' = done
      BY <2>2 DEF Flush
    <3>3. done => flushed' = received'
      <4>1. flushed' = flushed + n /\ received' = to
        BY <3>2
      <4> HIDE DEF n
      <4> QED BY <3>1, <4>1
    <3>4. raw \union masked = 1 .. flushed
      BY <2>2 DEF PrefixInv, DeliveredIsPrefix
    <3>5. CASE n = 0
      <4>1. UNCHANGED <<raw, masked, flushed>>
        BY <2>2, <3>1, <3>5 DEF Flush, StreamTypeOK
      <4>2. stream_status' = "ended" => done
        BY <2>2, <3>5 DEF Flush
      <4> QED
        BY <3>2, <3>3, <3>4, <4>1, <4>2 DEF PrefixInv, DeliveredIsPrefix
    <3>6. CASE n # 0
      <4>1. Forward(flushed + 1, flushed + n)
        BY <2>2, <3>6 DEF Flush
      <4>2. stream_status' # "ended"
        BY <4>1, <2>2 DEF Forward
      <4>3. CASE EnforcedBlock(Verdict(flushed + 1, flushed + n))
        <5>1. stream_status' = "blocked" /\ UNCHANGED <<raw, masked>>
          BY <4>1, <4>3 DEF Forward
        <5> QED BY <3>2, <3>3, <3>4, <3>1, <5>1 DEF PrefixInv, DeliveredIsPrefix
      <4>4. CASE ~EnforcedBlock(Verdict(flushed + 1, flushed + n))
        <5> DEFINE cut == (flushed + 1) .. (flushed + n)
        <5>1. flushed + 1 \in Nat /\ flushed + n \in Nat
          BY <3>1
        <5>2. PICK out \in SUBSET cut : raw' = raw \union (cut \ out) /\ masked' = masked \union out
          BY <4>1, <4>4, <5>1, ForwardedBytes
        <5>3. raw' \union masked' = (raw \union masked) \union cut
          BY <5>2
        <5>4. (1 .. flushed) \union cut = 1 .. flushed'
          BY <3>1, <3>2
        <5>5. raw' \union masked' = 1 .. flushed'
          BY <3>4, <5>3, <5>4
        <5> QED
          BY <3>1, <3>2, <3>3, <4>2, <5>5 DEF PrefixInv, DeliveredIsPrefix
      <4> QED BY <4>3, <4>4
    <3> QED BY <3>5, <3>6
  <2>3. CASE /\ UNCHANGED <<matches, received, flushed, upstream_done, raw, masked, windows>>
             /\ \/ action' \in Action /\ UNCHANGED stream_status
                \/ stream_status = "open" /\ stream_status' \in {"failed", "dropped"} /\ UNCHANGED action
    <3>1. stream_status' # "ended" \/ UNCHANGED stream_status
      BY <2>3
    <3>2. stream_status # "blocked" \/ UNCHANGED stream_status
      BY <2>3
    <3> QED BY <2>3, <3>1, <3>2 DEF PrefixInv, DeliveredIsPrefix
  <2> QED BY <2>1, <2>2, <2>3, IterationStep
<1> QED BY <1>1, <1>2, StreamTypeCorrect, PTL DEF StreamSpec

\* The delivered bytes are a prefix of the body, complete at a normal end.
THEOREM DeliveryIsPrefix == StreamSpec => []DeliveredIsPrefix
<1>1. PrefixInv => DeliveredIsPrefix
  BY DEF PrefixInv
<1> QED BY <1>1, PrefixInvariant, PTL

\* A secret in the last HoldBack bytes of the body is judged whole.
THEOREM TailIsJudgedWhole == StreamSpec => []TailJudgedWhole
<1>1. StreamInit => TailJudgedWhole
  BY DEF StreamInit, TailJudgedWhole
<1>2. StreamTypeOK /\ HoldsBackTail /\ PrefixInv /\ TailJudgedWhole /\ [StreamNext]_streamVars
      => TailJudgedWhole'
  <2> SUFFICES ASSUME StreamTypeOK, HoldsBackTail, PrefixInv, TailJudgedWhole, [StreamNext]_streamVars
               PROVE  TailJudgedWhole'
    OBVIOUS
  <2>1. CASE UNCHANGED streamVars
    BY <2>1 DEF TailJudgedWhole, JudgedWhole, streamVars
  <2>2. ASSUME NEW to \in received .. Length, NEW done \in BOOLEAN,
               Flush(to, done), stream_status = "open",
               upstream_done => done, done => to = received
        PROVE  TailJudgedWhole'
    <3> DEFINE n == flush_len(to - flushed, done)
    <3>1. CASE ~done
      BY <2>2, <3>1 DEF Flush, TailJudgedWhole
    <3>2. CASE done
      <4>1. /\ received \in Nat /\ flushed \in Nat /\ to = received
            /\ received - flushed \in Nat
            /\ n = received - flushed
            /\ received' = received /\ matches' = matches
        <5>1. /\ received \in Nat /\ flushed \in Nat /\ received - flushed \in Nat
              /\ to = received
          BY <2>2, <3>2 DEF StreamTypeOK
        <5>2. flush_len(received - flushed, done) = received - flushed
          BY <3>2 DEF flush_len
        <5>3. received' = to /\ matches' = matches
          BY <2>2 DEF Flush
        <5> QED BY <5>1, <5>2, <5>3
      <4> SUFFICES ASSUME NEW m \in matches, m.first <= m.last, m.last <= received,
                          received < m.first + HoldBack
                   PROVE  JudgedWhole(m)'
        BY <4>1 DEF TailJudgedWhole
      <4>2. m.first \in Nat /\ m.last \in Nat /\ m.first >= 1
        BY DEF StreamTypeOK, Span
      <4>3. CASE n = 0
        <5>1. flushed = received /\ windows' = windows
          BY <2>2, <4>1, <4>3 DEF Flush
        <5>2. upstream_done
          BY <2>2, <4>1, <4>2, <5>1 DEF HoldsBackTail
        <5>3. JudgedWhole(m)
          BY <5>2 DEF TailJudgedWhole
        <5> QED BY <5>1, <5>3 DEF JudgedWhole
      <4>4. CASE n # 0
        <5>1. ~upstream_done
          BY <4>1, <4>4 DEF PrefixInv
        <5>2. received - flushed = IF received < HoldBack THEN received ELSE HoldBack
          BY <2>2, <5>1 DEF HoldsBackTail
        <5>3. flushed + 1 <= m.first /\ m.last <= flushed + n
          BY <4>1, <4>2, <5>2
        <5>4. [from |-> flushed + 1, to |-> flushed + n,
               verdict |-> Verdict(flushed + 1, flushed + n)] \in windows'
          BY <2>2, <4>4 DEF Flush, Forward
        <5> QED BY <5>3, <5>4 DEF JudgedWhole
      <4> QED BY <4>3, <4>4
    <3> QED BY <3>1, <3>2
  <2>3. CASE /\ UNCHANGED <<matches, received, flushed, upstream_done, raw, masked, windows>>
             /\ \/ action' \in Action /\ UNCHANGED stream_status
                \/ stream_status = "open" /\ stream_status' \in {"failed", "dropped"} /\ UNCHANGED action
    BY <2>3 DEF TailJudgedWhole, JudgedWhole
  <2> QED BY <2>1, <2>2, <2>3, IterationStep
<1> QED BY <1>1, <1>2, StreamTypeCorrect, TailIsHeldBack, PrefixInvariant, PTL DEF StreamSpec

\* For every body, chunking and hold-back the buffer arithmetic of
\* scan_streaming_response is exact.
THEOREM CutsAreExact == StreamSpec => []CutsExact
  BY StreamTypeCorrect, TailIsHeldBack, DeliveryIsPrefix, TailIsJudgedWhole, PTL DEF CutsExact
=============================================================================
