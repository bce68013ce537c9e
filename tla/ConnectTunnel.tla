---------------------------- MODULE ConnectTunnel ----------------------------
(***************************************************************************)
(* One tunnel through the CONNECT proxy (crates/connect_proxy): a browser  *)
(* asks for a host; a host on the policy's list is intercepted, its        *)
(* requests and answers read, scanned and written on one by one; any other *)
(* is relayed unread.                                                      *)
(*                                                                         *)
(* The tunnel is kept open for several requests, each with an upstream     *)
(* connection of its own. The client may send ahead, stop in the middle of *)
(* a message and close; so may the upstream. The policy may change at any  *)
(* time. A body is a sequence of units: a part of a form (a file of a type *)
(* or a plain field) or a piece of text; a unit's text is its categories.  *)
(* Its shape is text, perhaps ending in an empty line (break); a file      *)
(* nothing can read (unreadable); or a part malformed (cut).               *)
(***************************************************************************)
EXTENDS Verdicts, Http1

CONSTANTS
  Hosts,        \* host names, as sequences of labels
  Scripts,      \* sequences of requests a client may send
  Replies,      \* answers an upstream may give
  Policies,     \* policies with their connect_proxy domains
  MaxChanges

ASSUME PoliciesAssumption == \A p \in Policies : WellTyped(p)
\* A sequence of requests, or of the units of a body.
IsSequence(s) == s \in Seq(Range(s))
IsFramed(m) == m.framing \in {"length", "chunked", "none"} /\ IsSequence(m.body)

\* A client announces the bodies of its requests; a server need not, and closes.
ASSUME ScriptsAssumption ==
  \A s \in Scripts :
    /\ IsSequence(s)
    /\ \A i \in 1 .. Len(s) :
         /\ IsFramed(s[i]) /\ (s[i].framing = "none" => s[i].body = << >>)
         /\ s[i].start_line.spill = {}
ASSUME RepliesAssumption == \A a \in Replies : IsFramed(a)
ASSUME NamesAssumption ==
  Hosts \subseteq Seq(STRING) /\ \A p \in Policies : p.domains \subseteq Seq(STRING)

VARIABLES
  policy, changes,
  host, chained,     \* the CONNECT target; was it reached through another proxy?
  pc,
  script, sent,      \* the client's requests, how many it has sent
  cin, ceof,         \* from the client, not yet read
  uin, ueof,         \* from the upstream, not yet read
  req, reply,        \* the messages in hand
  scan,              \* the verdict on the request
  reads,             \* requests read from the tunnel
  fwd, got,          \* messages written to the upstreams and to the client
  up, down,          \* tokens relayed unread in each direction
  offered,           \* history: everything an unread upstream has sent
  live,              \* history: policies in force since the message was read
  listed             \* history: was the host on the list at CONNECT?

vars == << policy, changes, host, chained, pc, script, sent, cin, ceof, uin, ueof, req, reply,
           scan, reads, fwd, got, up, down, offered, live, listed >>

tunnel == << host, chained, script, up, down, offered, listed >>
world  == << policy, changes, sent, ceof >>

NoMessage == HttpMessage(StartLine("none", {}), {}, << >>)
NoScan == [kind |-> "none"]
Unit(ext, shape, T) == [ext |-> ext, shape |-> shape, text |-> T]

-----------------------------------------------------------------------------
(* Whose TLS is terminated *)

\* Mutant: any host under the same top-level domain.
MatchesLastLabel(name, domains) == \E d \in domains : Last(name) = Last(d)

\* matches_domain_list: the domain itself or a name below it.
matches_domain_list(name, domains) == \E d \in domains : IsSuffix(d, name)

\* AI_DOMAINS is empty, so the policy's list decides alone.
Intercepted == matches_domain_list(host, policy.domains)

-----------------------------------------------------------------------------
(* Scanning *)

AllText(body) == UNION {body[i].text : i \in DOMAIN body}

\* Mutant: only the plain fields of a form are read.
ScanFieldsOnly(p, body) ==
  LET s == inspect(p, UNION {body[i].text : i \in {j \in DOMAIN body : body[j].ext = ""}})
  IN  IF s.action = "Redact" THEN [s EXCEPT !.action = "Block"] ELSE s

\* Where the parts of a form up to a parse error are, and what the policy
\* does with one.
Reached(body) == {i \in DOMAIN body : \A j \in 1 .. i : body[j].shape # "cut"}
Upload(p, u) == IF u.ext = "" THEN "Inspect" ELSE upload_action(p, u.ext)
IsText(u) == u.shape \in {"text", "break"}

\* scan_multipart_request: the parts up to a parse error; a blocked type ends
\* the scan, an exempt or unreadable file is skipped; masked text cannot be
\* put back into a form, so Redact becomes Block.
scan_multipart_request(p, body) ==
  LET reached == Reached(body)
      upload(i) == Upload(p, body[i])
      text == UNION {body[i].text : i \in {j \in reached : upload(j) = "Inspect" /\ IsText(body[j])}}
      s == inspect(p, text)
  IN  IF \E i \in reached : upload(i) = "Block" THEN [kind |-> "scan", action |-> "Block", sanitized |-> {}]
      ELSE IF s.action = "Redact" THEN [s EXCEPT !.action = "Block"] ELSE s

\* The Content-Type of the request whose headers these are.
Multipart(line) == \E i \in DOMAIN script : script[i].start_line.request = line.request /\ script[i].multipart

scan_request(p, m) ==
  IF Multipart(m.start_line) THEN scan_multipart_request(p, m.body) ELSE inspect(p, AllText(m.body))

Masked(m, s) == [m EXCEPT !.body = << Unit("", "text", s.sanitized) >>]

-----------------------------------------------------------------------------
\* A message as its sender frames it.
Framed(m) ==
  << Start(m.start_line) >> \o
  CASE m.framing = "length"  -> << Length(Len(m.body)), Blank >> \o [i \in DOMAIN m.body |-> Data(m.body[i])]
    [] m.framing = "chunked" -> << Chunked, Blank >> \o [i \in DOMAIN m.body |-> Chunk(m.body[i])] \o << Zero >>
    [] m.framing = "none"    -> << Blank >> \o [i \in DOMAIN m.body |-> Data(m.body[i])]

Init ==
  /\ policy \in Policies /\ changes = 0
  /\ host \in Hosts /\ chained = FALSE
  /\ pc = "connect"
  /\ script \in Scripts /\ sent = 0
  /\ cin = << >> /\ ceof = FALSE /\ uin = << >> /\ ueof = FALSE
  /\ req = NoMessage /\ reply = NoMessage /\ scan = NoScan
  /\ reads = 0 /\ fwd = << >> /\ got = << >>
  /\ up = << >> /\ down = << >> /\ offered = << >>
  /\ live = {} /\ listed = FALSE

-----------------------------------------------------------------------------
(* handle_connection *)

\* The target is read, 200 is written, and the list is consulted, once.
handle_connection ==
  /\ pc = "connect"
  /\ pc' = IF Intercepted THEN "read" ELSE "relay_dial"
  /\ listed' = Intercepted
  /\ UNCHANGED << world, host, chained, script, up, down, offered, cin, uin, ueof, req, reply, scan, reads,
                  fwd, got, live >>

\* Mutant: the relay is handed the socket without what was buffered of it.
RelayDialUnbuffered ==
  /\ pc = "relay_dial"
  /\ pc' = "relay" /\ cin' = << >>
  /\ chained' \in BOOLEAN
  /\ UNCHANGED << world, host, script, up, down, offered, listed, uin, ueof, req, reply, scan, reads, fwd, got, live >>

\* relay_opaque, connect_upstream: the file that names another proxy to go
\* through is read on each connection.
RelayDial ==
  /\ pc = "relay_dial"
  /\ pc' \in {"relay", "closed"}
  /\ chained' \in BOOLEAN
  /\ UNCHANGED << world, host, script, up, down, offered, listed, cin, uin, ueof, req, reply, scan, reads, fwd, got, live >>

\* copy_bidirectional, one direction at a time.
RelayUp ==
  /\ pc = "relay" /\ cin # << >>
  /\ up' = up \o cin /\ cin' = << >>
  /\ UNCHANGED << world, host, chained, script, down, offered, listed, pc, uin, ueof, req, reply, scan, reads,
                  fwd, got, live >>

\* The server speaks. Behind another proxy what came with that proxy's own
\* answer stayed in the reader that connect_via_upstream_proxy gives up.
RelayDown ==
  /\ pc = "relay" /\ Len(offered) < 2
  /\ LET tok == Len(offered) + 1
     IN  /\ offered' = Append(offered, tok)
         /\ \/ down' = Append(down, tok)
            \/ chained /\ offered = << >> /\ down' = down
  /\ UNCHANGED << world, host, chained, script, up, listed, pc, cin, uin, ueof, req, reply, scan, reads,
                  fwd, got, live >>

\* Both directions have ended.
RelayEnds ==
  /\ pc = "relay" /\ ceof /\ cin = << >>
  /\ pc' = "closed"
  /\ UNCHANGED << world, tunnel, cin, uin, ueof, req, reply, scan, reads, fwd, got, live >>

-----------------------------------------------------------------------------
(* intercept_and_scan: the loop over the requests of one tunnel *)

exchange == << req, reply, scan, reads, fwd, got >>

\* Mutant: a request without a length is read to the end of the tunnel.
ReadRequestToEnd ==
  /\ pc = "read"
  /\ LET r == read_message(cin, ceof, TRUE)
     IN  /\ r.is # "wait"
         /\ IF r.is = "message"
            THEN /\ pc' = "scan" /\ req' = r.message /\ cin' = r.rest
                 /\ reads' = reads + 1 /\ live' = {policy}
            ELSE pc' = "closed" /\ UNCHANGED << req, cin, reads, live >>
  /\ UNCHANGED << world, tunnel, uin, ueof, reply, scan, fwd, got >>

ReadRequest ==
  /\ pc = "read"
  /\ LET r == read_message(cin, ceof, FALSE)
     IN  /\ r.is # "wait"
         /\ IF r.is = "message"
            THEN /\ pc' = "scan" /\ req' = r.message /\ cin' = r.rest
                 /\ reads' = reads + 1 /\ live' = {policy}
            ELSE pc' = "closed" /\ UNCHANGED << req, cin, reads, live >>
  /\ UNCHANGED << world, tunnel, uin, ueof, reply, scan, fwd, got >>

\* Mutant: a request that needs approval goes through.
ScanWithoutEnforcement ==
  /\ pc = "scan"
  /\ scan' = scan_request(policy, req)
  /\ pc' = IF scan'.action = "Block" THEN "refuse" ELSE "dial"
  /\ UNCHANGED << world, tunnel, cin, uin, ueof, req, reply, reads, fwd, got, live >>

ScanRequest ==
  /\ pc = "scan"
  /\ scan' = scan_request(policy, req)
  /\ pc' = IF Denied(scan'.action) THEN "refuse" ELSE "dial"
  /\ UNCHANGED << world, tunnel, cin, uin, ueof, req, reply, reads, fwd, got, live >>

\* The 403 the proxy writes in place of a blocked request or answer.
Forbidden == HttpMessage(StartLine("403", {}), {}, << >>)

\* A message, as it goes over the wire, and the policies that could judge it.
Out(m) == [message |-> m, wire |-> write_message(m), policies |-> live]

ToClient(m) == got' = Append(got, Out(m))

\* Mutant: a blocked request is dropped and the loop goes on.
RefuseSilently ==
  /\ pc = "refuse"
  /\ pc' = "read" /\ req' = NoMessage /\ scan' = NoScan /\ live' = {}
  /\ UNCHANGED << world, tunnel, cin, uin, ueof, reply, reads, fwd, got >>

\* Mutant: the `continue` behind the 403 is missing.
RefuseFallsThrough ==
  /\ pc = "refuse"
  /\ ToClient(Forbidden)
  /\ pc' = "dial"
  /\ UNCHANGED << world, tunnel, cin, uin, ueof, req, reply, scan, reads, fwd, live >>

\* 403 and `continue`: the tunnel stays open for the next request.
Refuse ==
  /\ pc = "refuse"
  /\ ToClient(Forbidden)
  /\ pc' = "read" /\ req' = NoMessage /\ scan' = NoScan /\ live' = {}
  /\ UNCHANGED << world, tunnel, cin, uin, ueof, reply, reads, fwd >>

\* A fresh upstream connection and the request on it, masked if need be.
Send ==
  /\ pc = "dial"
  /\ fwd' = Append(fwd, Out(IF scan.action = "Redact" THEN Masked(req, scan) ELSE req))
  /\ uin' = << >> /\ ueof' = FALSE
  /\ pc' = "await"
  /\ UNCHANGED << world, tunnel, cin, req, reply, scan, reads, got, live >>

\* No connection, no TLS, or a proxy on the way that refuses.
DialFails ==
  /\ pc = "dial"
  /\ pc' = "closed"
  /\ UNCHANGED << world, tunnel, cin, uin, ueof, exchange, live >>

ReadReply ==
  /\ pc = "await"
  /\ LET r == read_message(uin, ueof, TRUE)
     IN  /\ r.is # "wait"
         /\ IF r.is = "message"
            THEN pc' = "answer" /\ reply' = r.message /\ uin' = r.rest /\ live' = {policy}
            ELSE pc' = "closed" /\ UNCHANGED << reply, uin, live >>
  /\ UNCHANGED << world, tunnel, cin, ueof, req, scan, reads, fwd, got >>

\* inspect_response, and the answer as the policy lets it through.
Respond ==
  /\ pc = "answer"
  /\ LET s == inspect(policy, AllText(reply.body))
     IN  ToClient(IF Denied(s.action) THEN Forbidden
                  ELSE IF s.action = "Redact" THEN Masked(reply, s) ELSE reply)
  /\ pc' = "read" /\ req' = NoMessage /\ reply' = NoMessage /\ scan' = NoScan /\ live' = {}
  /\ UNCHANGED << world, tunnel, cin, uin, ueof, reads, fwd >>

-----------------------------------------------------------------------------
(* The client, the upstream and the policy *)

\* The client sends its next request, the whole of it or a part before it
\* hangs up; it need not wait for the answer to the one before.
ClientSends ==
  /\ ~ceof /\ sent < Len(script) /\ pc # "closed"
  /\ LET tokens == Framed(script[sent + 1])
     IN  \/ cin' = cin \o tokens /\ sent' = sent + 1 /\ UNCHANGED ceof
         \/ \E n \in 0 .. (Len(tokens) - 1) : cin' = cin \o Upto(tokens, n) /\ ceof' = TRUE /\ UNCHANGED sent
  /\ UNCHANGED << policy, changes, tunnel, pc, uin, ueof, exchange, live >>

ClientCloses ==
  /\ ~ceof /\ sent = Len(script)
  /\ ceof' = TRUE
  /\ UNCHANGED << policy, changes, sent, tunnel, pc, cin, uin, ueof, exchange, live >>

\* The upstream answers, and may keep the connection or close it, also before
\* it is done.
UpstreamAnswers ==
  /\ pc = "await" /\ uin = << >> /\ ~ueof
  /\ \E a \in Replies :
       LET tokens == Framed(a)
       IN  \/ uin' = tokens /\ ueof' \in BOOLEAN
           \/ \E n \in 0 .. (Len(tokens) - 1) : uin' = Upto(tokens, n) /\ ueof' = TRUE
  /\ UNCHANGED << world, tunnel, pc, cin, exchange, live >>

\* A connection nothing happens on is closed in the end.
UpstreamCloses ==
  /\ pc = "await" /\ ~ueof
  /\ ueof' = TRUE
  /\ UNCHANGED << world, tunnel, pc, cin, uin, exchange, live >>

ChangePolicy ==
  /\ changes < MaxChanges /\ changes' = changes + 1
  /\ \E p \in Policies \ {policy} :
       policy' = p /\ live' = IF live = {} THEN {} ELSE live \cup {p}
  /\ UNCHANGED << sent, ceof, tunnel, pc, cin, uin, ueof, exchange >>

Proxy == \/ handle_connection \/ RelayDial \/ RelayUp \/ RelayEnds
         \/ ReadRequest \/ ScanRequest \/ Refuse \/ Send \/ ReadReply \/ Respond

Next == \/ Proxy \/ DialFails \/ RelayDown
        \/ ClientSends \/ ClientCloses \/ UpstreamAnswers \/ UpstreamCloses \/ ChangePolicy

Spec == Init /\ [][Next]_vars

\* The proxy's task runs whenever it can, and an upstream connection does not
\* stay open and idle forever. The client owes nothing.
FairSpec == Spec /\ WF_vars(Proxy) /\ WF_vars(UpstreamCloses)

-----------------------------------------------------------------------------
(* Properties *)

Labels == {"connect", "relay_dial", "relay", "read", "scan", "refuse", "dial", "await", "answer", "closed"}

\* The tunnel's state is well formed; no request is forwarded or answered
\* twice, and none is read in a tunnel that is only relayed.
TypeOK ==
  /\ pc \in Labels
  /\ sent \in 0 .. Len(script) /\ reads \in Nat
  /\ Len(got) <= reads /\ Len(fwd) <= reads
  /\ pc \in {"relay_dial", "relay"} => reads = 0

\* At the top of the loop of intercept_and_scan every request read so far has
\* its answer, blocked ones too, so answers and requests stay paired.
AnswersStayPaired == pc = "read" => Len(got) = reads

\* No request has been larger than the limit: such a body is cut, and what is
\* left of it becomes the start of the next message.
WithinLimit == \A i \in 1 .. Len(script) : script[i].framing = "length" => Len(script[i].body) <= MAX_BODY

Written == Range(fwd) \cup Range(got)

Bodies(wire) == Units(Behind(wire, HeadEnd(wire, FALSE)))

\* What goes upstream is a request of this client with the whole of its body,
\* in the order it was sent: never the beginning of one, and never the end of
\* one with the beginning of another (masked, or bodiless when the client hung
\* up inside the headers).
RequestsStayWhole ==
  WithinLimit =>
    \A k \in DOMAIN fwd : \E i \in DOMAIN script :
      /\ fwd[k].wire[1] = Start(script[i].start_line)
      /\ LET body == fwd[k].message.body
         IN  \/ body = script[i].body
             \/ body = << >> /\ ceof /\ i > sent
             \/ \E p \in fwd[k].policies :
                  LET s == inspect(p, AllText(script[i].body))
                  IN  s.action = "Redact" /\ body = << Unit("", "text", s.sanitized) >>

\* A policy lets a part of a message through: a file of a form by its type;
\* else, where there is text to be read, because it guards none of it.
LetsThrough(p, form, u) ==
  LET upload == IF form THEN Upload(p, u) ELSE "Inspect"
  IN  /\ upload # "Block"
      /\ upload = "Inspect" /\ (form => IsText(u)) => \A c \in u.text : ~Guarded(p, c)

\* One policy in force since a message was read lets all of it through, up to
\* a malformed part.
Passed(x, form) ==
  LET body == x.message.body
  IN  \E p \in x.policies : \A i \in IF form THEN Reached(body) ELSE DOMAIN body : LetsThrough(p, form, body[i])

\* What a policy denies, or wants masked, is not in what is written on under
\* it, in either direction, whether the body came in one piece or in chunks,
\* in fields or in files; files the policy exempts or nothing can read, and
\* what lies behind a malformed part, are the exceptions. Nothing of a body
\* goes on in the lines above a body either, which are not scanned, as long
\* as no body is over the limit (BodiesAreFullyBuffered).
GuardedStaysInTunnel ==
  /\ \A x \in Range(fwd) : Passed(x, Multipart(x.message.start_line))
  /\ \A x \in Range(got) : Passed(x, FALSE)
  /\ WithinLimit => \A x \in Range(fwd) : x.message.start_line.spill = {}

\* "a proxy is free to re-frame between the two as long as it fully buffers,
\* which we already do for scanning" (the module comment of http1.rs): no part
\* of a body is ever forwarded but as a body that was scanned. The rest of one
\* over the limit is, as the start line and headers of a message.
BodiesAreFullyBuffered ==
  \A x \in Range(fwd) : x.message.start_line.spill = {}

\* "A connection that closes mid-message still surfaces as an `Err`"
\* (read_message): no more requests are read than were sent in full. One that
\* is cut off inside its headers is read as a request without a body.
CutMessagesAreErrors ==
  WithinLimit => reads <= sent

\* The wire carries the body that was judged, all of it and nothing else, and
\* is framed as what it is: a reader that goes by the same rules takes exactly
\* this message from it (messages that arrived without chunks; see
\* ReframedAsLength).
WrittenReadsBack ==
  \A x \in Written :
    /\ Bodies(x.wire) = x.message.body
    /\ Chunked \notin Range(x.wire) =>
         LET r == read_message(x.wire, FALSE, FALSE)
         IN  r.is = "message" /\ r.rest = << >> /\ r.message.body = x.message.body

\* The module comment of http1.rs: bodies are always re-framed as
\* Content-Length on write, so that the writer never emits chunked.
ReframedAsLength ==
  \A x \in Written : Chunked \notin Range(x.wire)

\* No listed name is the host's own name or a name above it, label by label.
NeverListed ==
  \A d \in UNION {p.domains : p \in Policies} :
    Len(d) > Len(host) \/ SubSeq(host, Len(host) - Len(d) + 1, Len(host)) # d

\* A tunnel to a host that no policy lists is never read: the client's bytes
\* arrive as they were sent, nothing added, lost or reordered, also those sent
\* along with the CONNECT; and so do the server's, but for the first of them
\* behind another proxy (RelayLosesNothing).
RelayedUntouched ==
  /\ NeverListed => reads = 0
  /\ LET sent_on == FlattenSeq([i \in 1 .. sent |-> Framed(script[i])])
     IN  pc = "relay" /\ ~ceof => up \o cin = sent_on
  /\ down = offered \/ (chained /\ IsSuffix(down, offered))

\* "everything else is an opaque byte relay" (the module comment of server.rs).
\* connect_via_upstream_proxy gives up its reader (into_inner) with whatever
\* came right behind the other proxy's answer.
RelayLosesNothing == down = offered

\* A request sent in full down an intercepted tunnel is answered, or the
\* tunnel ends: the proxy does not sit waiting for a body that no header
\* announced. The client has no duty to close.
RequestsGetAnswers ==
  \A n \in 1 .. 2 : (sent >= n /\ listed) ~> (Len(got) >= n \/ pc = "closed")

\* Messages stay whole and in step on a kept-alive tunnel: requests and
\* answers pair up, what is forwarded is one whole request, what is written can
\* be read, and what is only relayed arrives as it was sent.
MessagesStayWhole ==
  TypeOK /\ AnswersStayPaired /\ RequestsStayWhole /\ WrittenReadsBack /\ RelayedUntouched
=============================================================================
