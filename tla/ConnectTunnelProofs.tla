------------------------ MODULE ConnectTunnelProofs ------------------------
(***************************************************************************)
(* Proofs about ConnectTunnel, for every set of policies, hosts, answers   *)
(* and scripts of requests, and any number of changes of the policy:       *)
(* requests and answers stay paired, nothing guarded is written on, and    *)
(* messages stay whole.                                                    *)
(*                                                                         *)
(* The last rests on where the tunnel is in the one stream of tokens that  *)
(* its client's script makes: what has arrived is the stream up to a place *)
(* b, what is unread is what lies between the end of the last request read *)
(* and b, and a read takes one request off, whole or, when the client hung *)
(* up inside it, its head alone.                                           *)
(***************************************************************************)
EXTENDS ConnectTunnel, VerdictsProofs

\* A request has been read and is not answered yet.
InExchange == {"scan", "refuse", "dial", "await", "answer"}

\* Requests read that are not answered, and not forwarded.
Unanswered  == IF pc \in InExchange THEN 1 ELSE 0
Unforwarded == IF pc \in {"scan", "refuse", "dial"} THEN 1 ELSE 0

\* The answers, and the requests forwarded, at each step of the loop.
PairInv ==
  /\ pc \in Labels /\ reads \in Nat
  /\ \E S : got \in Seq(S)
  /\ \E S : fwd \in Seq(S)
  /\ pc \in {"connect", "relay_dial", "relay"} => reads = 0
  /\ pc # "closed" => Len(got) = reads - Unanswered
  /\ Len(got) <= reads
  /\ Len(fwd) <= reads - Unforwarded

\* The client has sent no more than its script.
SentInv == script \in Scripts /\ sent \in 0 .. Len(script)

\* Appending to a history lengthens it by one, whatever it holds.
LEMMA OneMore ==
  ASSUME NEW s, NEW e, \E S : s \in Seq(S)
  PROVE  (\E S : Append(s, e) \in Seq(S)) /\ Len(Append(s, e)) = Len(s) + 1 /\ Len(s) \in Nat
<1>1. PICK S : s \in Seq(S)
  OBVIOUS
<1>2. s \in Seq(S \cup {e}) /\ e \in S \cup {e}
  BY <1>1
<1>3. Append(s, e) \in Seq(S \cup {e}) /\ Len(Append(s, e)) = Len(s) + 1 /\ Len(s) \in Nat
  BY <1>2
<1> QED BY <1>3

LEMMA PairInit == Init => PairInv
<1> SUFFICES ASSUME Init PROVE PairInv
  OBVIOUS
<1>1. << >> \in Seq({}) /\ Len(<< >>) = 0
  OBVIOUS
<1>2. pc = "connect" /\ reads = 0 /\ got = << >> /\ fwd = << >>
  BY DEF Init
<1>3. (\E S : got \in Seq(S)) /\ (\E S : fwd \in Seq(S))
  BY <1>1, <1>2, Zenon
<1>4. Len(got) = 0 /\ Len(fwd) = 0
  BY <1>1, <1>2
<1>5. pc \in Labels /\ pc \notin InExchange /\ reads \in Nat
  BY <1>2 DEF Labels, InExchange
<1>6. Unanswered = 0 /\ Unforwarded = 0
  BY <1>2, <1>5 DEF Unanswered, Unforwarded
<1>7. Len(got) = reads - Unanswered /\ Len(fwd) <= reads - Unforwarded /\ Len(got) <= reads
  BY <1>2, <1>4, <1>6
<1> QED BY <1>2, <1>3, <1>5, <1>7 DEF PairInv

\* Every step of the loop keeps answers and requests paired.
LEMMA PairStep == PairInv /\ [Next]_vars => PairInv'
<1> SUFFICES ASSUME PairInv, [Next]_vars PROVE PairInv'
  OBVIOUS
<1> USE DEF PairInv, Labels, InExchange, Unanswered, Unforwarded
<1>0. Len(got) \in Nat /\ Len(fwd) \in Nat
  BY OneMore
<1>1. CASE UNCHANGED << pc, reads, got, fwd >>
  BY <1>1
<1>2. CASE handle_connection
  BY <1>0, <1>2 DEF handle_connection
<1>3. CASE RelayDial \/ RelayEnds
  BY <1>0, <1>3 DEF RelayDial, RelayEnds, exchange
<1>4. CASE ReadRequest
  <2>1. pc = "read" /\ UNCHANGED << got, fwd >>
    BY <1>4 DEF ReadRequest
  <2>2. \/ pc' = "scan" /\ reads' = reads + 1
        \/ pc' = "closed" /\ reads' = reads
    BY <1>4 DEF ReadRequest
  <2> QED BY <1>0, <2>1, <2>2
<1>5. CASE ScanRequest
  BY <1>0, <1>5 DEF ScanRequest
<1>6. ASSUME NEW m, ToClient(m), pc \in {"refuse", "answer"}, pc' = "read", UNCHANGED << reads, fwd >>
      PROVE  PairInv'
  <2>1. got' = Append(got, Out(m))
    BY <1>6 DEF ToClient
  <2>2. (\E S : got' \in Seq(S)) /\ Len(got') = Len(got) + 1
    BY <2>1, OneMore
  <2> QED BY <1>0, <1>6, <2>2
<1>7. CASE Refuse
  BY <1>6, <1>7 DEF Refuse
<1>8. CASE Send
  <2> DEFINE m == IF scan.action = "Redact" THEN Masked(req, scan) ELSE req
  <2>1. /\ pc = "dial" /\ pc' = "await" /\ UNCHANGED << reads, got >>
        /\ fwd' = Append(fwd, Out(m))
    BY <1>8 DEF Send
  <2>2. (\E S : fwd' \in Seq(S)) /\ Len(fwd') = Len(fwd) + 1
    BY <2>1, OneMore
  <2> QED BY <1>0, <2>1, <2>2
<1>9. CASE DialFails
  BY <1>0, <1>9 DEF DialFails, exchange
<1>10. CASE ReadReply
  BY <1>0, <1>10 DEF ReadReply
<1>11. CASE Respond
  BY <1>6, <1>11 DEF Respond
<1>12. CASE RelayUp \/ RelayDown
  BY <1>1, <1>12 DEF RelayUp, RelayDown
<1>13. CASE ClientSends \/ ClientCloses \/ UpstreamAnswers \/ UpstreamCloses \/ ChangePolicy
  BY <1>1, <1>13 DEF ClientSends, ClientCloses, UpstreamAnswers, UpstreamCloses, ChangePolicy, exchange
<1>14. CASE UNCHANGED vars
  BY <1>1, <1>14 DEF vars
<1> QED BY <1>2, <1>3, <1>4, <1>5, <1>7, <1>8, <1>9, <1>10, <1>11, <1>12, <1>13, <1>14 DEF Next, Proxy

LEMMA SentInit == Init => SentInv
  BY ScriptsAssumption DEF Init, SentInv

LEMMA SentStep == SentInv /\ [Next]_vars => SentInv'
<1> SUFFICES ASSUME SentInv, [Next]_vars PROVE SentInv'
  OBVIOUS
<1> USE DEF SentInv
<1>1. CASE UNCHANGED << script, sent >>
  BY <1>1
<1>2. CASE ClientSends
  <2>1. sent < Len(script) /\ sent' \in {sent, sent + 1} /\ script' = script
    BY <1>2 DEF ClientSends, tunnel
  <2> QED BY <2>1, ScriptsAssumption
<1>3. CASE Next /\ ~ ClientSends
  BY <1>1, <1>3
     DEF Next, Proxy, handle_connection, RelayDial, RelayUp, RelayEnds, ReadRequest, ScanRequest,
         Refuse, Send, ReadReply, Respond, DialFails, RelayDown, ClientCloses, UpstreamAnswers,
         UpstreamCloses, ChangePolicy, world, tunnel
<1>4. CASE UNCHANGED vars
  BY <1>1, <1>4 DEF vars
<1> QED BY <1>2, <1>3, <1>4

\* No request is forwarded or answered twice, and none is read in a tunnel
\* that is only relayed.
THEOREM TypeCorrect == Spec => []TypeOK
<1>1. PairInv /\ SentInv => TypeOK
  <2> SUFFICES ASSUME PairInv, SentInv PROVE TypeOK
    OBVIOUS
  <2>1. Len(fwd) \in Nat
    BY OneMore DEF PairInv
  <2> QED BY <2>1 DEF PairInv, SentInv, TypeOK, Unforwarded
<1> QED BY <1>1, PairInit, PairStep, SentInit, SentStep, PTL DEF Spec

\* Whenever intercept_and_scan waits for the next request every one before it
\* has its answer, refused ones too, however messages are framed, cut off or
\* sent ahead.
THEOREM AnswersArePaired == Spec => []AnswersStayPaired
<1>1. PairInv => AnswersStayPaired
  BY DEF PairInv, AnswersStayPaired, InExchange, Unanswered
<1> QED BY <1>1, PairInit, PairStep, PTL DEF Spec

-----------------------------------------------------------------------------
(* What is written on *)

\* A message that one of some policies lets through, up to a malformed part.
Clean(m, form, policies) ==
  \E p \in policies :
    \A i \in IF form THEN Reached(m.body) ELSE DOMAIN m.body : LetsThrough(p, form, m.body[i])

\* The policy in force may judge the message in hand, the verdict on the
\* request is one that such a policy gives, and what was written is clean.
CleanInv ==
  /\ policy \in Policies /\ live \subseteq Policies
  /\ pc \in InExchange => policy \in live
  /\ pc \in {"refuse", "dial"} => \E p \in live : scan = scan_request(p, req)
  /\ pc = "dial" => ~ Denied(scan.action)
  /\ \A x \in Range(fwd) : Clean(x.message, Multipart(x.message.start_line), x.policies)
  /\ \A x \in Range(got) : Clean(x.message, FALSE, x.policies)

\* A text that one of the policies has inspected and not denied is clean.
LEMMA InspectedIsClean ==
  ASSUME NEW p \in Policies, NEW T, NEW c \in T, Guarded(p, c), ~ Denied(inspect(p, T).action)
  PROVE  inspect(p, T).action = "Redact" /\ c \notin inspect(p, T).sanitized
  BY InspectGuards, PoliciesAssumption

\* A message has a start line, headers and a body.
Whole(m) == m = HttpMessage(m.start_line, m.headers, m.body)

\* What a policy guards nothing of it lets through, but in a form.
LEMMA UnguardedPasses ==
  ASSUME NEW p, NEW u, \A c \in u.text : ~ Guarded(p, c)
  PROVE  LetsThrough(p, FALSE, u)
  BY DEF LetsThrough

\* A masked message is clean.
LEMMA MaskedIsClean ==
  ASSUME NEW p \in Policies, NEW T, ~ Denied(inspect(p, T).action), NEW ps, p \in ps, NEW m, Whole(m)
  PROVE  /\ Clean(Masked(m, inspect(p, T)), FALSE, ps)
         /\ Masked(m, inspect(p, T)).start_line = m.start_line
<1> DEFINE s == inspect(p, T)
           unit == Unit("", "text", s.sanitized)
<1>1. s.sanitized \subseteq T
  BY DEF inspect
<1>2. \A c \in s.sanitized : ~ Guarded(p, c)
  BY <1>1, InspectedIsClean
<1>3. unit.text = s.sanitized
  BY DEF Unit
<1> HIDE DEF unit, s
<1>4. Masked(m, s).body = << unit >> /\ Masked(m, s).start_line = m.start_line
  BY DEF Masked, Whole, HttpMessage, unit
<1>5. ASSUME NEW i \in DOMAIN Masked(m, s).body PROVE Masked(m, s).body[i] = unit
  BY <1>4
<1>6. LetsThrough(p, FALSE, unit)
  BY <1>2, <1>3, UnguardedPasses
<1>7. \A i \in DOMAIN Masked(m, s).body : LetsThrough(p, FALSE, Masked(m, s).body[i])
  BY <1>5, <1>6
<1> QED BY <1>4, <1>7 DEF Clean, s

\* A message that has been inspected whole and let through as it is is clean.
LEMMA AllowedIsClean ==
  ASSUME NEW p \in Policies, NEW m, NEW ps, p \in ps,
         ~ Denied(inspect(p, AllText(m.body)).action), inspect(p, AllText(m.body)).action # "Redact"
  PROVE  Clean(m, FALSE, ps)
<1>1. \A i \in DOMAIN m.body : m.body[i].text \subseteq AllText(m.body)
  BY DEF AllText
<1>2. \A c \in AllText(m.body) : ~ Guarded(p, c)
  BY InspectedIsClean
<1>3. \A i \in DOMAIN m.body : LetsThrough(p, FALSE, m.body[i])
  BY <1>1, <1>2, UnguardedPasses
<1> QED BY <1>3 DEF Clean

\* So is a form: no part of it is of a blocked type, those that can be read
\* were inspected, and what cannot be masked in a form is refused.
LEMMA AllowedFormIsClean ==
  ASSUME NEW p \in Policies, NEW m, NEW ps, p \in ps,
         ~ Denied(scan_multipart_request(p, m.body).action)
  PROVE  /\ scan_multipart_request(p, m.body).action # "Redact"
         /\ Clean(m, TRUE, ps)
<1> DEFINE body == m.body
           reached == Reached(body)
           upload(i) == Upload(p, body[i])
           read == {j \in reached : upload(j) = "Inspect" /\ IsText(body[j])}
           text == UNION {body[i].text : i \in read}
           s == inspect(p, text)
           refused == \E i \in reached : upload(i) = "Block"
<1>1. scan_multipart_request(p, m.body)
      = IF refused THEN [kind |-> "scan", action |-> "Block", sanitized |-> {}]
        ELSE IF s.action = "Redact" THEN [s EXCEPT !.action = "Block"] ELSE s
  BY DEF scan_multipart_request
<1>2. \A i \in read : body[i].text \subseteq text
  OBVIOUS
<1>3. s = [kind |-> "scan", action |-> s.action, sanitized |-> s.sanitized]
  BY DEF inspect
<1> HIDE DEF text, s, refused
<1>4. Denied("Block")
  BY DEF Denied, enforcement_action
<1>5. ~ refused /\ s.action # "Redact" /\ scan_multipart_request(p, m.body) = s
  BY <1>1, <1>3, <1>4
<1>6. \A c \in text : ~ Guarded(p, c)
  BY <1>5, InspectedIsClean DEF s
<1>7. ASSUME NEW i \in Reached(m.body) PROVE LetsThrough(p, TRUE, m.body[i])
  <2>1. Upload(p, m.body[i]) # "Block"
    BY <1>5, <1>7 DEF refused
  <2>2. Upload(p, m.body[i]) = "Inspect" /\ IsText(m.body[i]) => \A c \in m.body[i].text : ~ Guarded(p, c)
    BY <1>2, <1>6, <1>7
  <2> QED BY <2>1, <2>2 DEF LetsThrough
<1> QED BY <1>5, <1>7 DEF Clean

\* What is sent upstream after a scan that did not refuse it.
LEMMA ForwardedIsClean ==
  ASSUME NEW p \in Policies, NEW m, NEW ps, p \in ps, Whole(m), NEW s, s = scan_request(p, m),
         ~ Denied(s.action), NEW out, out = IF s.action = "Redact" THEN Masked(m, s) ELSE m
  PROVE  Clean(out, Multipart(out.start_line), ps)
<1>1. CASE Multipart(m.start_line)
  <2>1. s = scan_multipart_request(p, m.body)
    BY <1>1 DEF scan_request
  <2>2. s.action # "Redact" /\ Clean(m, TRUE, ps)
    BY <2>1, AllowedFormIsClean
  <2>3. Multipart(m.start_line) = TRUE
    BY <1>1 DEF Multipart
  <2> QED BY <2>2, <2>3
<1>2. CASE ~ Multipart(m.start_line)
  <2>1. s = inspect(p, AllText(m.body))
    BY <1>2 DEF scan_request
  <2>2. Clean(out, FALSE, ps) /\ out.start_line = m.start_line
    <3>1. CASE s.action = "Redact"
      <4>1. PICK T : T = AllText(m.body)
        OBVIOUS
      <4>2. s = inspect(p, T) /\ out = Masked(m, inspect(p, T)) /\ ~ Denied(inspect(p, T).action)
        BY <2>1, <3>1, <4>1
      <4>3. Clean(Masked(m, inspect(p, T)), FALSE, ps) /\ Masked(m, inspect(p, T)).start_line = m.start_line
        BY <4>2, MaskedIsClean, ZenonT(60)
      <4> QED BY <4>2, <4>3
    <3>2. CASE s.action # "Redact"
      BY <2>1, <3>2, AllowedIsClean
    <3> QED BY <3>1, <3>2
  <2>3. Multipart(out.start_line) = FALSE
    BY <1>2, <2>2 DEF Multipart
  <2> QED BY <2>2, <2>3
<1> QED BY <1>1, <1>2

\* The 403 has no body.
LEMMA ForbiddenIsClean ==
  ASSUME NEW p, NEW ps, p \in ps
  PROVE  Clean(Forbidden, FALSE, ps)
<1>1. DOMAIN Forbidden.body = {}
  BY DEF Forbidden, HttpMessage
<1> QED BY <1>1 DEF Clean

\* What is written to the client in place of, or as, an answer.
LEMMA AnsweredIsClean ==
  ASSUME NEW p \in Policies, NEW m, NEW ps, p \in ps, Whole(m), NEW s, s = inspect(p, AllText(m.body))
  PROVE  Clean(IF Denied(s.action) THEN Forbidden ELSE IF s.action = "Redact" THEN Masked(m, s) ELSE m,
               FALSE, ps)
  BY ForbiddenIsClean, AllowedIsClean, MaskedIsClean

\* Appending to a history adds one element to what is in it.
LEMMA OneMoreInRange ==
  ASSUME NEW s, \E S : s \in Seq(S), NEW e
  PROVE  Range(Append(s, e)) = Range(s) \cup {e}
<1>1. PICK S : s \in Seq(S)
  OBVIOUS
<1>2. s \in Seq(S \cup {e}) /\ e \in S \cup {e}
  BY <1>1
<1>3. /\ DOMAIN Append(s, e) = 1 .. (Len(s) + 1) /\ DOMAIN s = 1 .. Len(s) /\ Len(s) \in Nat
      /\ Append(s, e)[Len(s) + 1] = e
      /\ \A i \in 1 .. Len(s) : Append(s, e)[i] = s[i]
  BY <1>2
<1>4. 1 .. (Len(s) + 1) = (1 .. Len(s)) \cup {Len(s) + 1}
  BY <1>3
<1> QED BY <1>3, <1>4 DEF Range

\* The reader returns messages.
LEMMA ReadsWhole ==
  ASSUME NEW in, NEW eof, NEW open, read_message(in, eof, open).is = "message"
  PROVE  Whole(read_message(in, eof, open).message)
<1> DEFINE head    == Upto(in, HeadEnd(in, eof))
           rest    == Behind(in, HeadEnd(in, eof))
           headers == {head[i] : i \in Of(head, {"length", "chunked"})}
           lengths == Of(head, {"length"})
           declared == head[First(lengths)].n
           line    == start_line(head)
           m       == HttpMessage(line, headers, << >>)
           r       == read_message(in, eof, open)
<1>0. r.is = "message"
  OBVIOUS
<1>1. Whole(m) /\ \A b : Whole([m EXCEPT !.body = b])
  <2> HIDE DEF line, headers
  <2>1. Whole(m)
    BY DEF Whole, HttpMessage
  <2>2. ASSUME NEW b PROVE Whole([m EXCEPT !.body = b])
    <3>1. [m EXCEPT !.body = b] = [start_line |-> line, headers |-> headers, body |-> b]
      BY DEF HttpMessage
    <3> HIDE DEF m
    <3> QED BY <3>1 DEF Whole, HttpMessage
  <2> QED BY <2>1, <2>2, SMTT(60)
<1>2. \A i, b : /\ Got(i, b).message = i
                /\ Closed.is # "message" /\ Err.is # "message" /\ Wait.is # "message"
  BY DEF Got, Closed, Err, Wait
<1>3. \/ r \in {Closed, Err, Wait} \/ r = Got(m, rest)
      \/ r = read_chunked_body(m, rest, eof) \/ r = read_exact_body(m, declared, rest, eof)
      \/ r = read_to_end(m, rest, eof)
  BY DEF read_message
<1> HIDE DEF m, rest, declared, r
<1>4. \/ read_chunked_body(m, rest, eof) \in {Err, Wait}
      \/ \E b, k : read_chunked_body(m, rest, eof) = Got([m EXCEPT !.body = b], k)
  BY DEF read_chunked_body, Short
<1>5. \/ read_exact_body(m, declared, rest, eof) \in {Err, Wait}
      \/ \E b, k : read_exact_body(m, declared, rest, eof) = Got([m EXCEPT !.body = b], k)
  BY DEF read_exact_body, Short
<1>6. \/ read_to_end(m, rest, eof) = Wait
      \/ \E b, k : read_to_end(m, rest, eof) = Got([m EXCEPT !.body = b], k)
  BY DEF read_to_end
<1>7. Whole(r.message)
  <2>1. \/ r \in {Closed, Err, Wait} \/ r = Got(m, rest)
        \/ \E b, k : r = Got([m EXCEPT !.body = b], k)
    BY <1>3, <1>4, <1>5, <1>6
  <2>2. r \notin {Closed, Err, Wait}
    BY <1>0, <1>2
  <2>3. CASE r = Got(m, rest)
    BY <1>1, <1>2, <2>3
  <2>4. ASSUME NEW b, NEW k, r = Got([m EXCEPT !.body = b], k) PROVE Whole(r.message)
    <3>1. r.message = [m EXCEPT !.body = b]
      BY <2>4 DEF Got
    <3> QED BY <1>1, <3>1, Zenon
  <2> QED BY <2>1, <2>2, <2>3, <2>4
<1> QED BY <1>7 DEF r

\* The messages in hand are whole, and what was written is clean.
HandInv == Whole(req) /\ Whole(reply) /\ CleanInv

LEMMA HandInit == Init => HandInv
<1> SUFFICES ASSUME Init PROVE HandInv
  OBVIOUS
<1>1. policy \in Policies /\ live = {} /\ pc = "connect" /\ req = NoMessage /\ reply = NoMessage
  BY DEF Init
<1>2. Range(fwd) = {} /\ Range(got) = {}
  BY DEF Init, Range
<1>3. Whole(NoMessage)
  BY DEF Whole, NoMessage, HttpMessage
<1> QED BY <1>1, <1>2, <1>3 DEF HandInv, CleanInv, InExchange

\* A step that writes adds a clean message; the policies in force, and the
\* verdict on the request, stay with it until then.
LEMMA HandStep == PairInv /\ HandInv /\ [Next]_vars => HandInv'
<1> SUFFICES ASSUME PairInv, HandInv, [Next]_vars PROVE HandInv'
  OBVIOUS
<1> USE DEF HandInv
<1>0. (\E S : got \in Seq(S)) /\ (\E S : fwd \in Seq(S))
  BY DEF PairInv
<1>1. CASE UNCHANGED << policy, live, pc, req, reply, scan, script, fwd, got >>
  BY <1>1 DEF CleanInv, scan_request, Multipart
<1>2. ASSUME UNCHANGED << policy, live, req, reply, script, fwd, got >>, pc' \notin InExchange PROVE HandInv'
  BY <1>2 DEF CleanInv, Multipart, InExchange
<1>3. CASE handle_connection \/ RelayDial \/ RelayEnds \/ DialFails
  BY <1>2, <1>3 DEF handle_connection, RelayDial, RelayEnds, DialFails, world, tunnel, exchange, InExchange
<1>4. CASE ReadRequest
  <2> DEFINE r == read_message(cin, ceof, FALSE)
  <2>1. UNCHANGED << policy, reply, script, fwd, got >>
    BY <1>4 DEF ReadRequest, world, tunnel
  <2>2. CASE r.is = "message" /\ pc' = "scan" /\ req' = r.message /\ live' = {policy}
    <3>1. Whole(req')
      BY <2>2, ReadsWhole
    <3> HIDE DEF r
    <3> QED BY <2>1, <2>2, <3>1 DEF CleanInv, Multipart, InExchange
  <2>3. CASE pc' = "closed" /\ UNCHANGED << req, live >>
    BY <1>2, <2>1, <2>3 DEF InExchange
  <2> QED BY <1>4, <2>2, <2>3 DEF ReadRequest
<1>5. CASE ScanRequest
  <2>1. /\ pc = "scan" /\ scan' = scan_request(policy, req)
        /\ pc' = IF Denied(scan'.action) THEN "refuse" ELSE "dial"
        /\ UNCHANGED << policy, live, req, reply, fwd, got, script >>
    BY <1>5 DEF ScanRequest, world, tunnel
  <2>2. policy \in live
    BY <2>1 DEF CleanInv, InExchange
  <2>3. \E p \in live' : scan' = scan_request(p, req)'
    BY <2>1, <2>2 DEF scan_request, Multipart
  <2> QED BY <2>1, <2>2, <2>3 DEF CleanInv, Multipart, InExchange
<1>6. ASSUME NEW m, ToClient(m), Clean(m, FALSE, live), pc' = "read", live' = {},
             UNCHANGED << policy, script, fwd >>,
             req' = NoMessage, reply' \in {reply, NoMessage}
      PROVE  HandInv'
  <2>1. Range(got') = Range(got) \cup {Out(m)}
    BY <1>0, <1>6, OneMoreInRange DEF ToClient
  <2>2. Out(m).message = m /\ Out(m).policies = live
    BY DEF Out
  <2>3. \A x \in Range(got') : Clean(x.message, FALSE, x.policies)
    BY <1>6, <2>1, <2>2 DEF CleanInv
  <2>4. Whole(NoMessage)
    BY DEF Whole, NoMessage, HttpMessage
  <2> QED BY <1>6, <2>3, <2>4 DEF CleanInv, Multipart, InExchange
<1>7. CASE Refuse
  <2>1. /\ ToClient(Forbidden) /\ pc' = "read" /\ live' = {} /\ req' = NoMessage
        /\ pc = "refuse" /\ UNCHANGED << policy, script, fwd, reply >>
    BY <1>7 DEF Refuse, world, tunnel
  <2>2. Clean(Forbidden, FALSE, live)
    BY <2>1, ForbiddenIsClean DEF CleanInv, InExchange
  <2> QED BY <1>6, <2>1, <2>2
<1>8. CASE Send
  <2> DEFINE m == IF scan.action = "Redact" THEN Masked(req, scan) ELSE req
  <2>1. /\ pc = "dial" /\ pc' = "await" /\ fwd' = Append(fwd, Out(m))
        /\ UNCHANGED << policy, live, script, req, reply, got >>
    BY <1>8 DEF Send, world, tunnel
  <2>2. PICK p \in live : scan = scan_request(p, req)
    BY <2>1 DEF CleanInv
  <2>3. Clean(m, Multipart(m.start_line), live)
    BY <2>1, <2>2, ForwardedIsClean DEF CleanInv
  <2> HIDE DEF m
  <2>4. Range(fwd') = Range(fwd) \cup {Out(m)}
    BY <1>0, <2>1, OneMoreInRange
  <2>5. Out(m).message = m /\ Out(m).policies = live
    BY DEF Out
  <2>6. \A x \in Range(fwd') : Clean(x.message, Multipart(x.message.start_line), x.policies)
    BY <2>3, <2>4, <2>5 DEF CleanInv
  <2>7. \A x \in Range(fwd') : Clean(x.message, Multipart(x.message.start_line)', x.policies)
    BY <2>1, <2>6 DEF Multipart
  <2> QED BY <2>1, <2>7 DEF CleanInv, InExchange
<1>9. CASE ReadReply
  <2> DEFINE r == read_message(uin, ueof, TRUE)
  <2>1. UNCHANGED << policy, req, script, fwd, got >>
    BY <1>9 DEF ReadReply, world, tunnel
  <2>2. CASE r.is = "message" /\ pc' = "answer" /\ reply' = r.message /\ live' = {policy}
    <3>1. Whole(reply')
      BY <2>2, ReadsWhole
    <3> HIDE DEF r
    <3> QED BY <2>1, <2>2, <3>1 DEF CleanInv, Multipart, InExchange
  <2>3. CASE pc' = "closed" /\ UNCHANGED << reply, live >>
    BY <1>2, <2>1, <2>3 DEF InExchange
  <2> QED BY <1>9, <2>2, <2>3 DEF ReadReply
<1>10. CASE Respond
  <2> DEFINE s == inspect(policy, AllText(reply.body))
             m == IF Denied(s.action) THEN Forbidden ELSE IF s.action = "Redact" THEN Masked(reply, s) ELSE reply
  <2>1. /\ pc = "answer" /\ ToClient(m) /\ pc' = "read" /\ live' = {}
        /\ req' = NoMessage /\ reply' = NoMessage /\ UNCHANGED << policy, script, fwd >>
    BY <1>10 DEF Respond, world, tunnel
  <2>2. policy \in live /\ policy \in Policies
    BY <2>1 DEF CleanInv, InExchange
  <2>3. Clean(m, FALSE, live)
    BY <2>2, AnsweredIsClean
  <2> HIDE DEF m
  <2> QED BY <1>6, <2>1, <2>3
<1>11. CASE ChangePolicy
  <2>1. PICK p \in Policies \ {policy} :
          policy' = p /\ live' = IF live = {} THEN {} ELSE live \cup {p}
    BY <1>11 DEF ChangePolicy
  <2>2. UNCHANGED << pc, req, reply, scan, script, fwd, got >>
    BY <1>11 DEF ChangePolicy, exchange, tunnel
  <2>3. pc \in InExchange => live # {}
    BY DEF CleanInv
  <2>4. pc \in {"refuse", "dial"} => \E q \in live' : scan' = scan_request(q, req)'
    BY <2>1, <2>2, <2>3 DEF CleanInv, scan_request, Multipart, InExchange
  <2> QED BY <2>1, <2>2, <2>3, <2>4 DEF CleanInv, Multipart
<1>12. CASE RelayUp \/ RelayDown \/ ClientSends \/ ClientCloses \/ UpstreamAnswers \/ UpstreamCloses
  BY <1>1, <1>12
     DEF RelayUp, RelayDown, ClientSends, ClientCloses, UpstreamAnswers, UpstreamCloses, world, tunnel, exchange
<1>13. CASE UNCHANGED vars
  BY <1>1, <1>13 DEF vars
<1> QED BY <1>3, <1>4, <1>5, <1>7, <1>8, <1>9, <1>10, <1>11, <1>12, <1>13 DEF Next, Proxy

-----------------------------------------------------------------------------
(* Whose tunnels are read *)

\* A suffix, taken off the end.
LEMMA SuffixIsEnd ==
  ASSUME NEW S, NEW s \in Seq(S), NEW t \in Seq(S), IsSuffix(s, t)
  PROVE  Len(s) <= Len(t) /\ SubSeq(t, Len(t) - Len(s) + 1, Len(t)) = s
<1>1. /\ Reverse(s) \in Seq(S) /\ Len(Reverse(s)) = Len(s)
      /\ \A i \in 1 .. Len(s) : Reverse(s)[i] = s[Len(s) - i + 1]
  BY DEF Reverse
<1>2. /\ Reverse(t) \in Seq(S) /\ Len(Reverse(t)) = Len(t)
      /\ \A i \in 1 .. Len(t) : Reverse(t)[i] = t[Len(t) - i + 1]
  BY DEF Reverse
<1>3. Len(s) \in Nat /\ Len(t) \in Nat
  OBVIOUS
<1>4. Len(s) <= Len(t) /\ SubSeq(Reverse(s), 1, Len(s)) = SubSeq(Reverse(t), 1, Len(s))
  BY <1>1, <1>2 DEF IsSuffix, IsPrefix
<1> HIDE DEF Reverse
<1>5. \A i \in 1 .. Len(s) : Reverse(s)[i] = Reverse(t)[i]
  <2> TAKE i \in 1 .. Len(s)
  <2>1. /\ SubSeq(Reverse(s), 1, Len(s))[i] = Reverse(s)[i]
        /\ SubSeq(Reverse(t), 1, Len(s))[i] = Reverse(t)[i]
    BY <1>1, <1>2, <1>3, <1>4
  <2> QED BY <1>4, <2>1
<1>6. \A k \in 1 .. Len(s) : s[k] = t[Len(t) - Len(s) + k]
  <2> TAKE k \in 1 .. Len(s)
  <2> DEFINE i == Len(s) - k + 1
  <2>1. i \in 1 .. Len(s) /\ i \in 1 .. Len(t)
    BY <1>3, <1>4
  <2>2. s[Len(s) - i + 1] = t[Len(t) - i + 1]
    <3> HIDE DEF i
    <3>1. Reverse(s)[i] = s[Len(s) - i + 1] /\ Reverse(t)[i] = t[Len(t) - i + 1]
      BY <1>1, <1>2, <2>1
    <3> QED BY <1>5, <2>1, <3>1
  <2> QED BY <1>3, <2>2
<1>7. SubSeq(t, Len(t) - Len(s) + 1, Len(t)) = s
  <2> DEFINE u == SubSeq(t, Len(t) - Len(s) + 1, Len(t))
  <2>1. u \in Seq(S) /\ Len(u) = Len(s)
    BY <1>3, <1>4
  <2>2. \A k \in 1 .. Len(s) : u[k] = t[Len(t) - Len(s) + k]
    BY <1>3, <1>4
  <2> HIDE DEF u
  <2>3. u = s
    BY <1>6, <2>1, <2>2
  <2> QED BY <2>3 DEF u
<1> QED BY <1>4, <1>7

\* A tunnel that is read was on the list of a policy.
ListInv ==
  /\ host \in Hosts /\ policy \in Policies
  /\ reads > 0 \/ pc \in {"read", "scan", "refuse", "dial", "await", "answer"} => listed
  /\ listed => \E p \in Policies : matches_domain_list(host, p.domains)

LEMMA ListStep == PairInv /\ ListInv /\ [Next]_vars => ListInv'
<1> SUFFICES ASSUME PairInv, ListInv, [Next]_vars PROVE ListInv'
  OBVIOUS
<1> USE DEF ListInv
<1>1. CASE handle_connection
  <2>1. reads = 0 /\ pc = "connect"
    BY <1>1 DEF PairInv, handle_connection
  <2>2. /\ pc' \in {"read", "relay_dial"} /\ (pc' = "read" => Intercepted)
        /\ listed' = Intercepted /\ UNCHANGED << host, policy, reads >>
    BY <1>1 DEF handle_connection, world
  <2> QED BY <2>1, <2>2 DEF Intercepted
<1>2. CASE ReadRequest
  <2>1. pc = "read" /\ UNCHANGED << host, policy, listed >>
    BY <1>2 DEF ReadRequest, world, tunnel
  <2> QED BY <2>1
<1>3. CASE UNCHANGED << host, listed, reads >> /\ policy' \in Policies
           /\ (pc' \in {"read", "scan", "refuse", "dial", "await", "answer"}
               => pc \in {"read", "scan", "refuse", "dial", "await", "answer"})
  BY <1>3
<1>4. CASE RelayDial \/ RelayUp \/ RelayEnds \/ RelayDown \/ DialFails
  BY <1>3, <1>4 DEF RelayDial, RelayUp, RelayEnds, RelayDown, DialFails, world, tunnel, exchange
<1>5. CASE ScanRequest \/ Refuse \/ Send \/ ReadReply \/ Respond
  BY <1>3, <1>5 DEF ScanRequest, Refuse, Send, ReadReply, Respond, world, tunnel
<1>6. CASE ClientSends \/ ClientCloses \/ UpstreamAnswers \/ UpstreamCloses \/ ChangePolicy
  BY <1>3, <1>6 DEF ClientSends, ClientCloses, UpstreamAnswers, UpstreamCloses, ChangePolicy,
                    world, tunnel, exchange
<1>7. CASE UNCHANGED vars
  BY <1>3, <1>7 DEF vars
<1> QED BY <1>1, <1>2, <1>4, <1>5, <1>6, <1>7 DEF Next, Proxy

\* Not one request is read, let alone changed or refused, in a tunnel to a host
\* that no policy lists, itself or by a name above it, whatever policies come
\* and go while it is open.
THEOREM UnlistedIsNeverRead == Spec => [](NeverListed => reads = 0)
<1>1. Init => ListInv
  BY DEF Init, ListInv
<1>2. PairInv /\ ListInv => (NeverListed => reads = 0)
  <2> SUFFICES ASSUME PairInv, ListInv, NeverListed, reads # 0 PROVE FALSE
    OBVIOUS
  <2>1. PICK p \in Policies : \E d \in p.domains : IsSuffix(d, host)
    BY DEF PairInv, ListInv, matches_domain_list
  <2>2. PICK d \in p.domains : IsSuffix(d, host)
    BY <2>1
  <2>3. d \in Seq(STRING) /\ host \in Seq(STRING)
    BY NamesAssumption DEF ListInv
  <2>4. Len(d) <= Len(host) /\ SubSeq(host, Len(host) - Len(d) + 1, Len(host)) = d
    BY <2>2, <2>3, SuffixIsEnd
  <2>5. Len(d) > Len(host) \/ SubSeq(host, Len(host) - Len(d) + 1, Len(host)) # d
    BY DEF NeverListed
  <2> QED BY <2>3, <2>4, <2>5
<1> QED BY <1>1, <1>2, PairInit, PairStep, ListStep, PTL DEF Spec

-----------------------------------------------------------------------------
(* The reader and the writer *)

IsSeq(s) == \E S : s \in Seq(S)

\* A message with a body that the reader could have read.
Sized(m) == IsSeq(m.body) /\ Len(m.body) <= MAX_BODY

\* Parts of a sequence, and two of them in a row, are sequences.
LEMMA PartsAreSeqs ==
  ASSUME NEW s, IsSeq(s), NEW n \in 0 .. Len(s)
  PROVE  /\ IsSeq(Upto(s, n)) /\ Len(Upto(s, n)) = n /\ \A i \in 1 .. n : Upto(s, n)[i] = s[i]
         /\ IsSeq(Behind(s, n)) /\ Len(Behind(s, n)) = Len(s) - n
         /\ \A i \in 1 .. (Len(s) - n) : Behind(s, n)[i] = s[n + i]
         /\ DOMAIN s = 1 .. Len(s) /\ Len(s) \in Nat
<1>1. PICK S : s \in Seq(S)
  BY DEF IsSeq
<1>2. Upto(s, n) \in Seq(S) /\ Len(Upto(s, n)) = n /\ \A i \in 1 .. n : Upto(s, n)[i] = s[i]
  BY <1>1 DEF Upto
<1>3. Behind(s, n) \in Seq(S) /\ Len(Behind(s, n)) = Len(s) - n
      /\ \A i \in 1 .. (Len(s) - n) : Behind(s, n)[i] = s[n + i]
  BY <1>1 DEF Behind
<1> QED BY <1>1, <1>2, <1>3 DEF IsSeq

LEMMA SomeSeq ==
  ASSUME NEW n \in Nat, NEW F, F = [i \in 1 .. n |-> F[i]]
  PROVE  IsSeq(F) /\ Len(F) = n
<1>1. F \in Seq({F[i] : i \in 1 .. n}) /\ Len(F) = n
  OBVIOUS
<1> QED BY <1>1 DEF IsSeq

\* Two sequences are equal when they have the same length and the same elements.
LEMMA SameSeq ==
  ASSUME NEW s, NEW t, IsSeq(s), IsSeq(t), Len(s) = Len(t), \A i \in 1 .. Len(s) : s[i] = t[i]
  PROVE  s = t
<1>1. PICK S : s \in Seq(S)
  BY DEF IsSeq
<1>2. PICK T : t \in Seq(T)
  BY DEF IsSeq
<1>3. s \in Seq(S \cup T) /\ t \in Seq(S \cup T)
  BY <1>1, <1>2
<1> QED BY <1>3

\* The elements of two sequences in a row.
IsJoin(w, s, t) ==
  /\ IsSeq(w) /\ Len(w) = Len(s) + Len(t) /\ Len(s) \in Nat /\ Len(t) \in Nat
  /\ \A i \in 1 .. Len(s) : w[i] = s[i]
  /\ \A i \in 1 .. Len(t) : w[Len(s) + i] = t[i]

LEMMA JoinedSeqs ==
  ASSUME NEW s, NEW t, IsSeq(s), IsSeq(t)
  PROVE  IsJoin(s \o t, s, t)
<1>1. PICK S : s \in Seq(S)
  BY DEF IsSeq
<1>2. PICK T : t \in Seq(T)
  BY DEF IsSeq
<1>3. s \in Seq(S \cup T) /\ t \in Seq(S \cup T)
  BY <1>1, <1>2
<1>4. s \o t \in Seq(S \cup T) /\ Len(s \o t) = Len(s) + Len(t)
  BY <1>3
<1>5. /\ \A i \in 1 .. Len(s) : (s \o t)[i] = s[i]
      /\ \A i \in 1 .. Len(t) : (s \o t)[Len(s) + i] = t[i]
  BY <1>3
<1>6. IsSeq(s \o t) /\ Len(s) \in Nat /\ Len(t) \in Nat
  BY <1>3, <1>4 DEF IsSeq
<1> QED BY <1>4, <1>5, <1>6 DEF IsJoin

\* The units of a sequence of tokens.
LEMMA UnitsOf ==
  ASSUME NEW s, IsSeq(s)
  PROVE  /\ IsSeq(Units(s)) /\ Len(Units(s)) = Len(s)
         /\ \A i \in 1 .. Len(s) : s[i].t \in {"data", "break", "chunk"} => Units(s)[i] = s[i].unit
<1>1. DOMAIN s = 1 .. Len(s) /\ Len(s) \in Nat
  BY DEF IsSeq
<1>2. Units(s) = [i \in 1 .. Len(s) |-> Units(s)[i]]
  BY <1>1 DEF Units
<1> QED BY <1>1, <1>2, SomeSeq DEF Units

\* Where the tokens of a type end.
LEMMA FirstOther ==
  ASSUME NEW s, IsSeq(s), NEW type
  PROVE  /\ FirstNot(s, type) \in 1 .. (Len(s) + 1)
         /\ \A j \in 1 .. (FirstNot(s, type) - 1) : s[j].t = type
         /\ FirstNot(s, type) <= Len(s) => s[FirstNot(s, type)].t # type
<1>0. Len(s) \in Nat
  BY DEF IsSeq
<1> DEFINE T == {i \in 1 .. Len(s) : s[i].t # type} \cup {Len(s) + 1}
<1>1. T \subseteq Nat /\ T # {}
  BY <1>0
<1> HIDE DEF T
<1>2. PICK x \in T : \A y \in T : x <= y
  BY <1>1, LeastElement
<1>3. /\ x \in 1 .. (Len(s) + 1)
      /\ \A j \in 1 .. (x - 1) : s[j].t = type
      /\ x <= Len(s) => s[x].t # type
  BY <1>0, <1>2 DEF T
<1> QED BY <1>3 DEF FirstNot

LEMMA FirstOtherIs ==
  ASSUME NEW s, IsSeq(s), NEW type, NEW k \in 1 .. (Len(s) + 1),
         \A j \in 1 .. (k - 1) : s[j].t = type, k <= Len(s) => s[k].t # type
  PROVE  FirstNot(s, type) = k
<1>0. Len(s) \in Nat
  BY DEF IsSeq
<1> DEFINE f == FirstNot(s, type)
<1>1. /\ f \in 1 .. (Len(s) + 1)
      /\ \A j \in 1 .. (f - 1) : s[j].t = type
      /\ f <= Len(s) => s[f].t # type
  BY FirstOther
<1> HIDE DEF f
<1>2. ~ (f < k) /\ ~ (k < f)
  BY <1>0, <1>1
<1> QED BY <1>0, <1>1, <1>2 DEF f

\* Where the headers end.
LEMMA HeadEnds ==
  ASSUME NEW s, IsSeq(s), NEW eof
  PROVE  HeadEnd(s, eof) \in 0 .. Len(s)
<1>0. DOMAIN s = 1 .. Len(s) /\ Len(s) \in Nat
  BY DEF IsSeq
<1>1. CASE \E i \in DOMAIN s : s[i].t \in {"blank", "break"}
  <2> DEFINE T == {i \in 1 .. Len(s) : s[i].t \in {"blank", "break"}}
  <2>1. T \subseteq Nat /\ T # {}
    BY <1>0, <1>1
  <2> HIDE DEF T
  <2>2. PICK x \in T : \A y \in T : x <= y
    BY <2>1, LeastElement
  <2>3. x \in DOMAIN s /\ s[x].t \in {"blank", "break"} /\ \A j \in 1 .. (x - 1) : s[j].t \notin {"blank", "break"}
    BY <1>0, <2>2 DEF T
  <2> QED BY <1>0, <1>1, <2>3, SMTT(60) DEF HeadEnd
<1>2. CASE ~ \E i \in DOMAIN s : s[i].t \in {"blank", "break"}
  BY <1>0, <1>2 DEF HeadEnd
<1> QED BY <1>1, <1>2

LEMMA HeadEndIs ==
  ASSUME NEW s, IsSeq(s), NEW eof, NEW k \in 1 .. Len(s), s[k].t \in {"blank", "break"},
         \A j \in 1 .. (k - 1) : s[j].t \notin {"blank", "break"}
  PROVE  HeadEnd(s, eof) = k
<1>0. DOMAIN s = 1 .. Len(s) /\ Len(s) \in Nat
  BY DEF IsSeq
<1> DEFINE P(i) == s[i].t \in {"blank", "break"} /\ \A j \in 1 .. (i - 1) : s[j].t \notin {"blank", "break"}
           h == CHOOSE i \in DOMAIN s : P(i)
<1>1. h \in DOMAIN s /\ P(h)
  BY <1>0
<1>2. h = HeadEnd(s, eof)
  BY <1>0 DEF HeadEnd
<1> HIDE DEF h
<1>3. ~ (h < k) /\ ~ (k < h)
  BY <1>0, <1>1
<1> QED BY <1>0, <1>1, <1>2, <1>3

\* What the reader makes of a head and what lies behind it.
HeadRead(head, rest, eof, open) ==
  LET headers == {head[i] : i \in Of(head, {"length", "chunked"})}
      lengths == Of(head, {"length"})
      m == HttpMessage(start_line(head), headers, << >>)
  IN  IF ~ Legible(head) THEN Err
      ELSE IF Chunked \in headers THEN read_chunked_body(m, rest, eof)
      ELSE IF lengths # {} THEN read_exact_body(m, head[First(lengths)].n, rest, eof)
      ELSE IF open THEN read_to_end(m, rest, eof)
      ELSE Got(m, rest)

LEMMA ReadByHead ==
  ASSUME NEW in, NEW eof, NEW open, in # << >>, in[1] # Blank, HeadEnd(in, eof) # 0
  PROVE  read_message(in, eof, open)
         = HeadRead(Upto(in, HeadEnd(in, eof)), Behind(in, HeadEnd(in, eof)), eof, open)
  BY DEF read_message, HeadRead

\* A head that begins with a start line.
LEMMA HeadStart ==
  ASSUME NEW head, head[1].t = "start"
  PROVE  Legible(head) /\ start_line(head) = head[1].start_line
  BY DEF Legible, start_line

\* The three reads of a body.
LEMMA BodyOf ==
  ASSUME NEW id, NEW headers, NEW b
  PROVE  [HttpMessage(id, headers, << >>) EXCEPT !.body = b] = HttpMessage(id, headers, b)
  BY DEF HttpMessage

LEMMA FieldsOf ==
  ASSUME NEW id, NEW headers, NEW b
  PROVE  /\ HttpMessage(id, headers, b).start_line = id /\ HttpMessage(id, headers, b).headers = headers
         /\ HttpMessage(id, headers, b).body = b
  BY DEF HttpMessage

\* A head with a length, and at least that many tokens behind it.
LEMMA LengthRead ==
  ASSUME NEW in, IsSeq(in), NEW eof, NEW open, NEW id, NEW b, IsSeq(b), Len(b) <= MAX_BODY,
         Len(in) >= 3 + Len(b), in[1] = Start(id), in[2] = Length(Len(b)), in[3] = Blank,
         \A i \in 1 .. Len(b) : in[3 + i] = Data(b[i])
  PROVE  read_message(in, eof, open) = Got(HttpMessage(id, {Length(Len(b))}, b), Behind(in, 3 + Len(b)))
<1>0. Len(b) \in Nat /\ Len(in) \in Nat /\ MAX_BODY \in Nat
  BY BodyAssumption DEF IsSeq
<1> DEFINE n == Len(b)
           head == Upto(in, 3)
           rest == Behind(in, 3)
<1>1. HeadEnd(in, eof) = 3
  <2>1. in[1].t \notin {"blank", "break"} /\ in[2].t \notin {"blank", "break"} /\ in[3].t \in {"blank", "break"}
    BY DEF Start, Length, Blank
  <2>2. \A j \in 1 .. (3 - 1) : in[j].t \notin {"blank", "break"}
    BY <2>1
  <2> QED BY <1>0, <2>1, <2>2, HeadEndIs, SMTT(60)
<1>2. in # << >> /\ in[1] # Blank
  <2>1. in[1].t # Blank.t
    BY DEF Start, Blank
  <2> QED BY <1>0, <2>1
<1>3. read_message(in, eof, open) = HeadRead(head, rest, eof, open)
  BY <1>1, <1>2, ReadByHead
<1>4. /\ DOMAIN head = 1 .. 3 /\ head[1] = Start(id) /\ head[2] = Length(n) /\ head[3] = Blank
      /\ IsSeq(rest) /\ Len(rest) = Len(in) - 3 /\ \A i \in 1 .. n : rest[i] = Data(b[i])
  <2>1. 3 \in 0 .. Len(in)
    BY <1>0
  <2>2. /\ IsSeq(head) /\ Len(head) = 3 /\ \A i \in 1 .. 3 : head[i] = in[i]
        /\ IsSeq(rest) /\ Len(rest) = Len(in) - 3 /\ \A i \in 1 .. (Len(in) - 3) : rest[i] = in[3 + i]
    BY <2>1, PartsAreSeqs, ZenonT(60)
  <2> HIDE DEF head, rest
  <2>3. DOMAIN head = 1 .. 3
    BY <2>2 DEF IsSeq
  <2> QED BY <1>0, <2>2, <2>3
<1> HIDE DEF head, rest
<1>5. Of(head, {"length", "chunked"}) = {2} /\ Of(head, {"length"}) = {2} /\ head[1].t = "start" /\ head[1].start_line = id
      /\ head[2].n = n
  BY <1>4 DEF Of, Start, Length, Blank
<1>6. {head[i] : i \in Of(head, {"length", "chunked"})} = {Length(n)}
  BY <1>4, <1>5
<1>7. Chunked \notin {Length(n)}
  <2>1. Chunked.t # Length(n).t
    BY DEF Chunked, Length
  <2> QED BY <2>1
<1>8. First({2}) = 2
  BY DEF First
<1>9. HeadRead(head, rest, eof, open) = read_exact_body(HttpMessage(id, {Length(n)}, << >>), n, rest, eof)
  BY HeadStart, <1>4, <1>5, <1>6, <1>7, <1>8 DEF HeadRead
<1>10. read_exact_body(HttpMessage(id, {Length(n)}, << >>), n, rest, eof)
       = Got(HttpMessage(id, {Length(n)}, Units(Upto(rest, n))), Behind(rest, n))
  <2>1. ~ (n > MAX_BODY) /\ ~ (n > Len(rest))
    BY <1>0, <1>4
  <2> HIDE DEF n
  <2> QED BY <2>1, BodyOf DEF read_exact_body
<1>11. Units(Upto(rest, n)) = b
  <2>1. n \in 0 .. Len(rest)
    BY <1>0, <1>4
  <2>2. IsSeq(Upto(rest, n)) /\ Len(Upto(rest, n)) = n /\ \A i \in 1 .. n : Upto(rest, n)[i] = rest[i]
    BY <1>4, <2>1, PartsAreSeqs
  <2>3. IsSeq(Units(Upto(rest, n))) /\ Len(Units(Upto(rest, n))) = n
    BY <2>2, UnitsOf
  <2>4. ASSUME NEW i \in 1 .. n PROVE Units(Upto(rest, n))[i] = b[i]
    <3>1. Upto(rest, n)[i] = Data(b[i])
      BY <1>4, <2>2
    <3>2. Upto(rest, n)[i].t \in {"data", "break"} /\ Upto(rest, n)[i].unit = b[i]
      BY <3>1 DEF Data
    <3> QED BY <2>2, <3>2, UnitsOf
  <2> QED BY <2>3, <2>4, SameSeq
<1>12. Behind(rest, n) = Behind(in, 3 + n)
  <2>1. 3 \in 0 .. Len(in) /\ n \in 0 .. Len(rest) /\ 3 + n \in 0 .. Len(in)
    BY <1>0, <1>4
  <2>2. /\ IsSeq(Behind(rest, n)) /\ Len(Behind(rest, n)) = Len(rest) - n
        /\ \A i \in 1 .. (Len(rest) - n) : Behind(rest, n)[i] = rest[n + i]
    BY <1>4, <2>1, PartsAreSeqs
  <2>3. /\ IsSeq(Behind(in, 3 + n)) /\ Len(Behind(in, 3 + n)) = Len(in) - (3 + n)
        /\ \A i \in 1 .. (Len(in) - (3 + n)) : Behind(in, 3 + n)[i] = in[(3 + n) + i]
    BY <2>1, PartsAreSeqs
  <2>4. \A i \in 1 .. (Len(in) - 3) : rest[i] = in[3 + i]
    BY <2>1, PartsAreSeqs DEF rest
  <2>5. ASSUME NEW i \in 1 .. (Len(rest) - n) PROVE Behind(rest, n)[i] = Behind(in, 3 + n)[i]
    <3>1. n + i \in 1 .. (Len(in) - 3) /\ i \in 1 .. (Len(in) - (3 + n)) /\ 3 + (n + i) = (3 + n) + i
      BY <1>0, <1>4
    <3> QED BY <2>2, <2>3, <2>4, <3>1
  <2>6. Len(rest) - n = Len(in) - (3 + n)
    BY <1>0, <1>4
  <2> QED BY <2>2, <2>3, <2>5, <2>6, SameSeq
<1> QED BY <1>3, <1>9, <1>10, <1>11, <1>12

\* A part of a part.
LEMMA BehindTwice ==
  ASSUME NEW s, IsSeq(s), NEW m \in 0 .. Len(s), NEW n \in 0 .. (Len(s) - m)
  PROVE  Behind(Behind(s, m), n) = Behind(s, m + n) /\ m + n \in 0 .. Len(s)
<1>0. Len(s) \in Nat
  BY DEF IsSeq
<1> DEFINE r == Behind(s, m)
<1>1. IsSeq(r) /\ Len(r) = Len(s) - m /\ \A i \in 1 .. (Len(s) - m) : r[i] = s[m + i]
  BY PartsAreSeqs
<1> HIDE DEF r
<1>2. n \in 0 .. Len(r) /\ m + n \in 0 .. Len(s)
  BY <1>0, <1>1
<1>3. /\ IsSeq(Behind(r, n)) /\ Len(Behind(r, n)) = Len(r) - n
      /\ \A i \in 1 .. (Len(r) - n) : Behind(r, n)[i] = r[n + i]
  BY <1>1, <1>2, PartsAreSeqs
<1>4. /\ IsSeq(Behind(s, m + n)) /\ Len(Behind(s, m + n)) = Len(s) - (m + n)
      /\ \A i \in 1 .. (Len(s) - (m + n)) : Behind(s, m + n)[i] = s[(m + n) + i]
  BY <1>2, PartsAreSeqs
<1>5. ASSUME NEW i \in 1 .. (Len(r) - n) PROVE Behind(r, n)[i] = Behind(s, m + n)[i]
  <2>1. n + i \in 1 .. (Len(s) - m) /\ i \in 1 .. (Len(s) - (m + n)) /\ m + (n + i) = (m + n) + i
    BY <1>0, <1>1
  <2> QED BY <1>1, <1>3, <1>4, <2>1
<1>6. Len(r) - n = Len(s) - (m + n)
  BY <1>0, <1>1
<1>7. Behind(r, n) = Behind(s, m + n)
  BY <1>3, <1>4, <1>5, <1>6, SameSeq
<1> QED BY <1>2, <1>7 DEF r

\* A head of k tokens.
IsHead(head, in, k, id) ==
  /\ DOMAIN head = 1 .. k /\ (\A i \in 1 .. k : head[i] = in[i])
  /\ head[1].t = "start" /\ head[1].start_line = id

LEMMA HeadOf ==
  ASSUME NEW in, IsSeq(in), NEW eof, NEW open, NEW id, NEW k \in 1 .. Len(in), in[1] = Start(id),
         HeadEnd(in, eof) = k
  PROVE  \E head : IsHead(head, in, k, id) /\ read_message(in, eof, open) = HeadRead(head, Behind(in, k), eof, open)
<1>0. Len(in) \in Nat /\ k \in 0 .. Len(in)
  BY DEF IsSeq
<1>1. in # << >> /\ in[1] # Blank
  <2>1. in[1].t # Blank.t
    BY DEF Start, Blank
  <2> QED BY <1>0, <2>1
<1>2. read_message(in, eof, open) = HeadRead(Upto(in, k), Behind(in, k), eof, open)
  BY <1>1, ReadByHead
<1>3. IsSeq(Upto(in, k)) /\ Len(Upto(in, k)) = k /\ \A i \in 1 .. k : Upto(in, k)[i] = in[i]
  BY <1>0, PartsAreSeqs
<1>4. DOMAIN Upto(in, k) = 1 .. k
  BY <1>3 DEF IsSeq
<1>5. Upto(in, k)[1].t = "start" /\ Upto(in, k)[1].start_line = id
  BY <1>0, <1>3 DEF Start
<1>6. IsHead(Upto(in, k), in, k, id)
  BY <1>3, <1>4, <1>5 DEF IsHead
<1> QED BY <1>2, <1>6

LEMMA ChunkedRead ==
  ASSUME NEW in, IsSeq(in), NEW eof, NEW open, NEW id, NEW b, IsSeq(b),
         Len(in) >= 4 + Len(b), in[1] = Start(id), in[2] = Chunked, in[3] = Blank,
         \A i \in 1 .. Len(b) : in[3 + i] = Chunk(b[i]), in[4 + Len(b)] = Zero
  PROVE  read_message(in, eof, open) \in {Err, Got(HttpMessage(id, {Chunked}, b), Behind(in, 4 + Len(b)))}
<1> DEFINE n == Len(b)
           rest == Behind(in, 3)
           m == HttpMessage(id, {Chunked}, << >>)
<1>0. n \in Nat /\ Len(in) \in Nat /\ MAX_BODY \in Nat /\ 3 \in 1 .. Len(in) /\ 3 \in 0 .. Len(in)
  BY BodyAssumption DEF IsSeq
<1>1. HeadEnd(in, eof) = 3
  <2>1. in[1].t \notin {"blank", "break"} /\ in[2].t \notin {"blank", "break"} /\ in[3].t \in {"blank", "break"}
    BY DEF Start, Chunked, Blank
  <2>2. \A j \in 1 .. (3 - 1) : in[j].t \notin {"blank", "break"}
    BY <2>1
  <2> QED BY <1>0, <2>1, <2>2, HeadEndIs
<1>11. PICK head : IsHead(head, in, 3, id) /\ read_message(in, eof, open) = HeadRead(head, rest, eof, open)
  <2>1. \A k \in 1 .. Len(in) : HeadEnd(in, eof) = k =>
           \E head : IsHead(head, in, k, id) /\ read_message(in, eof, open) = HeadRead(head, Behind(in, k), eof, open)
    BY HeadOf, ZenonT(60)
  <2> QED BY <1>0, <1>1, <2>1, ZenonT(60)
<1>2. /\ DOMAIN head = 1 .. 3 /\ (\A i \in 1 .. 3 : head[i] = in[i])
      /\ head[1].t = "start" /\ head[1].start_line = id
      /\ IsSeq(rest) /\ Len(rest) = Len(in) - 3 /\ \A i \in 1 .. (Len(in) - 3) : rest[i] = in[3 + i]
  BY <1>0, <1>11, PartsAreSeqs DEF IsHead
<1>3. HeadRead(head, rest, eof, open) = read_chunked_body(m, rest, eof)
  <2>1. head[2] = Chunked /\ head[3] = Blank
    BY <1>2
  <2>2. Of(head, {"length", "chunked"}) = {2}
    BY <1>2, <2>1 DEF Of, Chunked, Blank
  <2>3. {head[i] : i \in Of(head, {"length", "chunked"})} = {Chunked}
    BY <2>1, <2>2
  <2> QED BY HeadStart, <1>2, <2>3 DEF HeadRead
<1> HIDE DEF rest, m
<1>4. FirstNot(rest, "chunk") = n + 1 /\ n + 1 \in 1 .. Len(rest) /\ rest[n + 1].t = "zero"
  <2>1. n + 1 \in 1 .. Len(rest) /\ Len(rest) \in Nat
    BY <1>0, <1>2
  <2>2. rest[n + 1].t = "zero"
    <3>1. n + 1 \in 1 .. (Len(in) - 3) /\ 3 + (n + 1) = 4 + n
      BY <1>0
    <3>2. rest[n + 1] = Zero
      BY <1>2, <3>1
    <3> QED BY <3>2 DEF Zero
  <2>3. ASSUME NEW j \in 1 .. n PROVE rest[j].t = "chunk"
    <3>1. j \in 1 .. (Len(in) - 3)
      BY <1>0
    <3>2. rest[j] = Chunk(b[j])
      BY <1>2, <3>1
    <3> QED BY <3>2 DEF Chunk
  <2>4. (n + 1) - 1 = n /\ n + 1 \in 1 .. (Len(rest) + 1)
    BY <1>0, <2>1
  <2>5. \A j \in 1 .. ((n + 1) - 1) : rest[j].t = "chunk"
    BY <2>3, <2>4
  <2>6. rest[n + 1].t # "chunk"
    BY <2>2
  <2> DEFINE k == n + 1
  <2>7. IsSeq(rest) /\ k \in 1 .. (Len(rest) + 1) /\ (\A j \in 1 .. (k - 1) : rest[j].t = "chunk") /\ rest[k].t # "chunk"
    BY <1>2, <2>4, <2>5, <2>6
  <2> HIDE DEF k
  <2>8. FirstNot(rest, "chunk") = k
    BY <2>7, FirstOtherIs
  <2> QED BY <2>1, <2>2, <2>8 DEF k
<1>5. \/ read_chunked_body(m, rest, eof) = Err
      \/ read_chunked_body(m, rest, eof) = Got([m EXCEPT !.body = Units(Upto(rest, n))], Behind(rest, n + 1))
  <2>1. (n + 1) - 1 = n /\ ~ (n + 1 > Len(rest))
    BY <1>0, <1>2, <1>4
  <2> HIDE DEF n
  <2> QED BY <1>4, <2>1 DEF read_chunked_body
<1>6. Units(Upto(rest, n)) = b
  <2>1. n \in 0 .. Len(rest)
    BY <1>0, <1>2
  <2>2. IsSeq(Upto(rest, n)) /\ Len(Upto(rest, n)) = n /\ \A i \in 1 .. n : Upto(rest, n)[i] = rest[i]
    BY <1>2, <2>1, PartsAreSeqs, ZenonT(60)
  <2>3. IsSeq(Units(Upto(rest, n))) /\ Len(Units(Upto(rest, n))) = n
    BY <2>2, UnitsOf
  <2>4. ASSUME NEW i \in 1 .. n PROVE Units(Upto(rest, n))[i] = b[i]
    <3>0. i \in 1 .. (Len(in) - 3)
      BY <1>0
    <3>1. Upto(rest, n)[i] = Chunk(b[i])
      BY <1>2, <2>2, <3>0
    <3>2. Upto(rest, n)[i].t = "chunk" /\ Upto(rest, n)[i].unit = b[i]
      BY <3>1 DEF Chunk
    <3> QED BY <2>2, <3>2, UnitsOf
  <2> QED BY <2>3, <2>4, SameSeq
<1>7. Behind(rest, n + 1) = Behind(in, 4 + n)
  <2>1. n + 1 \in 0 .. (Len(in) - 3) /\ 3 + (n + 1) = 4 + n
    BY <1>0
  <2> QED BY <1>0, <2>1, BehindTwice DEF rest
<1>8. [m EXCEPT !.body = b] = HttpMessage(id, {Chunked}, b)
  BY BodyOf DEF m
<1> QED BY <1>11, <1>3, <1>5, <1>6, <1>7, <1>8

\* A head without a length, in a tunnel that stays open.
LEMMA BareRead ==
  ASSUME NEW in, IsSeq(in), NEW eof, NEW id, Len(in) >= 2, in[1] = Start(id), in[2] = Blank
  PROVE  read_message(in, eof, FALSE) = Got(HttpMessage(id, {}, << >>), Behind(in, 2))
<1>0. Len(in) \in Nat /\ 2 \in 1 .. Len(in)
  BY DEF IsSeq
<1>1. HeadEnd(in, eof) = 2
  <2>1. in[1].t \notin {"blank", "break"} /\ in[2].t \in {"blank", "break"}
    BY DEF Start, Blank
  <2>2. \A j \in 1 .. (2 - 1) : in[j].t \notin {"blank", "break"}
    BY <2>1
  <2> QED BY <1>0, <2>1, <2>2, HeadEndIs
<1>4. PICK head : IsHead(head, in, 2, id) /\ read_message(in, eof, FALSE) = HeadRead(head, Behind(in, 2), eof, FALSE)
  <2>1. \A k \in 1 .. Len(in) : HeadEnd(in, eof) = k =>
           \E head : IsHead(head, in, k, id) /\ read_message(in, eof, FALSE) = HeadRead(head, Behind(in, k), eof, FALSE)
    BY HeadOf, ZenonT(60)
  <2> QED BY <1>0, <1>1, <2>1, ZenonT(60)
<1>2. /\ DOMAIN head = 1 .. 2 /\ (\A i \in 1 .. 2 : head[i] = in[i])
      /\ head[1].t = "start" /\ head[1].start_line = id
  BY <1>4 DEF IsHead
<1>3. Of(head, {"length", "chunked"}) = {} /\ Of(head, {"length"}) = {}
  <2>1. head[1].t = "start" /\ head[2].t = "blank"
    BY <1>2 DEF Blank
  <2> QED BY <1>2, <2>1 DEF Of
<1> QED BY HeadStart, <1>2, <1>3, <1>4 DEF HeadRead

\* Tokens in a row; a length is a number.
IsStream(s) == IsSeq(s) /\ \A i \in 1 .. Len(s) : s[i].t = "length" => s[i].n \in Nat

\* A read that yields a message yields one with a body within the limit, and
\* leaves a stream behind.
GoodRead(r) == r.is = "message" => Sized(r.message) /\ IsStream(r.rest)

LEMMA PartsAreStreams ==
  ASSUME NEW s, IsStream(s), NEW n \in 0 .. Len(s)
  PROVE  IsStream(Behind(s, n))
<1>1. /\ IsSeq(Behind(s, n)) /\ Len(Behind(s, n)) = Len(s) - n /\ Len(s) \in Nat
      /\ \A i \in 1 .. (Len(s) - n) : Behind(s, n)[i] = s[n + i]
  BY PartsAreSeqs DEF IsStream
<1>2. ASSUME NEW i \in 1 .. (Len(s) - n) PROVE n + i \in 1 .. Len(s)
  BY <1>1
<1> QED BY <1>1, <1>2 DEF IsStream

LEMMA GoodBody ==
  ASSUME NEW rest, IsStream(rest), NEW id, NEW headers, NEW n \in 0 .. Len(rest), n <= MAX_BODY,
         NEW j \in 0 .. Len(rest)
  PROVE  GoodRead(Got([HttpMessage(id, headers, << >>) EXCEPT !.body = Units(Upto(rest, n))], Behind(rest, j)))
<1>1. IsSeq(Upto(rest, n)) /\ Len(Upto(rest, n)) = n
  BY PartsAreSeqs DEF IsStream
<1>2. PICK b : b = Units(Upto(rest, n))
  OBVIOUS
<1>3. IsSeq(b) /\ Len(b) = n
  BY <1>1, <1>2, UnitsOf
<1>4. PICK m : m = HttpMessage(id, headers, b)
  OBVIOUS
<1>5. Sized(m)
  BY <1>3, <1>4, FieldsOf DEF Sized
<1>6. IsStream(Behind(rest, j))
  BY PartsAreStreams
<1>7. GoodRead(Got(m, Behind(rest, j)))
  BY <1>5, <1>6 DEF Got, GoodRead
<1> QED BY <1>2, <1>4, <1>7, BodyOf

LEMMA NoRead == GoodRead(Closed) /\ GoodRead(Err) /\ GoodRead(Wait)
  BY DEF Closed, Err, Wait, GoodRead

LEMMA EmptyIsStream ==
  ASSUME NEW s, s = << >>
  PROVE  IsSeq(s) /\ IsStream(s) /\ Len(s) = 0
<1>1. << >> \in Seq({}) /\ Len(<< >>) = 0
  OBVIOUS
<1> QED BY <1>1 DEF IsSeq, IsStream

LEMMA GoodChunks ==
  ASSUME NEW rest, IsStream(rest), NEW eof, NEW id, NEW headers
  PROVE  GoodRead(read_chunked_body(HttpMessage(id, headers, << >>), rest, eof))
<1> DEFINE m == HttpMessage(id, headers, << >>)
           k == FirstNot(rest, "chunk")
           g == Got([m EXCEPT !.body = Units(Upto(rest, k - 1))], Behind(rest, k))
<1>1. k \in 1 .. (Len(rest) + 1) /\ Len(rest) \in Nat /\ MAX_BODY \in Nat
  BY FirstOther, BodyAssumption DEF IsStream, IsSeq
<1>2. \/ read_chunked_body(m, rest, eof) \in {Err, Wait}
      \/ ~ (k - 1 > MAX_BODY) /\ ~ (k > Len(rest)) /\ read_chunked_body(m, rest, eof) = g
  <2> HIDE DEF m
  <2> QED BY DEF read_chunked_body, Short
<1> HIDE DEF k
<1>3. ASSUME ~ (k - 1 > MAX_BODY), ~ (k > Len(rest)) PROVE GoodRead(g)
  <2>1. k - 1 \in 0 .. Len(rest) /\ k - 1 <= MAX_BODY /\ k \in 0 .. Len(rest)
    BY <1>1, <1>3
  <2> QED BY <2>1, GoodBody
<1> HIDE DEF g, m
<1>4. GoodRead(read_chunked_body(m, rest, eof))
  BY <1>2, <1>3, NoRead
<1> QED BY <1>4 DEF m

LEMMA GoodExact ==
  ASSUME NEW rest, IsStream(rest), NEW eof, NEW id, NEW headers, NEW declared \in Nat
  PROVE  GoodRead(read_exact_body(HttpMessage(id, headers, << >>), declared, rest, eof))
<1> DEFINE m == HttpMessage(id, headers, << >>)
           n == IF declared > MAX_BODY THEN MAX_BODY ELSE declared
           g == Got([m EXCEPT !.body = Units(Upto(rest, n))], Behind(rest, n))
<1>1. n \in Nat /\ n <= MAX_BODY /\ Len(rest) \in Nat
  BY BodyAssumption DEF IsStream, IsSeq
<1>2. \/ read_exact_body(m, declared, rest, eof) \in {Err, Wait}
      \/ ~ (n > Len(rest)) /\ read_exact_body(m, declared, rest, eof) = g
  <2> HIDE DEF m
  <2> QED BY DEF read_exact_body, Short
<1> HIDE DEF n
<1>3. ASSUME ~ (n > Len(rest)) PROVE GoodRead(g)
  <2>1. n \in 0 .. Len(rest)
    BY <1>1, <1>3
  <2> QED BY <1>1, <2>1, GoodBody
<1> HIDE DEF g, m
<1>4. GoodRead(read_exact_body(m, declared, rest, eof))
  BY <1>2, <1>3, NoRead
<1> QED BY <1>4 DEF m

LEMMA GoodToEnd ==
  ASSUME NEW rest, IsStream(rest), NEW eof, NEW id, NEW headers
  PROVE  GoodRead(read_to_end(HttpMessage(id, headers, << >>), rest, eof))
<1> DEFINE m == HttpMessage(id, headers, << >>)
           g(n) == Got([m EXCEPT !.body = Units(Upto(rest, n))], Behind(rest, n))
<1>1. Len(rest) \in Nat /\ MAX_BODY \in Nat
  BY BodyAssumption DEF IsStream, IsSeq
<1>2. Upto(rest, Len(rest)) = rest /\ Behind(rest, Len(rest)) = << >>
  <2>1. PICK S : rest \in Seq(S)
    BY DEF IsStream, IsSeq
  <2> QED BY <2>1 DEF Upto, Behind
<1>3. \/ read_to_end(m, rest, eof) = Wait
      \/ Len(rest) >= MAX_BODY /\ read_to_end(m, rest, eof) = g(MAX_BODY)
      \/ ~ (Len(rest) >= MAX_BODY) /\ read_to_end(m, rest, eof) = g(Len(rest))
  <2> HIDE DEF m
  <2> QED BY <1>2 DEF read_to_end
<1>4. ASSUME NEW n \in 0 .. Len(rest), n <= MAX_BODY PROVE GoodRead(g(n))
  BY <1>4, GoodBody
<1> HIDE DEF g, m
<1>5. GoodRead(read_to_end(m, rest, eof))
  BY <1>1, <1>3, <1>4, NoRead
<1> QED BY <1>5 DEF m

LEMMA ReadsSized ==
  ASSUME NEW in, IsStream(in), NEW eof, NEW open
  PROVE  GoodRead(read_message(in, eof, open))
<1> DEFINE k == HeadEnd(in, eof)
           head == Upto(in, k)
           rest == Behind(in, k)
           headers == {head[i] : i \in Of(head, {"length", "chunked"})}
           lengths == Of(head, {"length"})
           id == start_line(head)
           m == HttpMessage(id, headers, << >>)
<1>0. k \in 0 .. Len(in)
  BY HeadEnds DEF IsStream
<1>1. /\ Len(head) = k /\ DOMAIN head = 1 .. k /\ \A i \in 1 .. k : head[i] = in[i]
      /\ IsStream(rest)
  <2> HIDE DEF k
  <2>1. IsSeq(head) /\ Len(head) = k /\ (\A i \in 1 .. k : head[i] = in[i]) /\ IsStream(rest)
    BY <1>0, PartsAreSeqs, PartsAreStreams DEF IsStream
  <2> QED BY <2>1 DEF IsSeq
<1>2. lengths # {} => head[First(lengths)].n \in Nat
  <2> SUFFICES ASSUME lengths # {} PROVE head[First(lengths)].n \in Nat
    OBVIOUS
  <2> HIDE DEF k, head
  <2>1. lengths \subseteq 1 .. k /\ \A i \in lengths : head[i].t = "length"
    BY <1>1 DEF Of
  <2>2. Len(in) \in Nat
    BY DEF IsStream, IsSeq
  <2>3. \A i \in lengths : head[i].n \in Nat
    BY <1>0, <1>1, <2>1, <2>2 DEF IsStream
  <2> HIDE DEF lengths
  <2>4. \E x \in lengths : \A y \in lengths : x <= y
    <3>1. lengths \subseteq Nat
      BY <2>1, <2>2, <1>0
    <3> QED BY <3>1, LeastElement
  <2>5. First(lengths) \in lengths
    BY <2>4 DEF First
  <2> QED BY <2>3, <2>5
<1>3. GoodRead(Got(m, rest))
  <2>1. Sized(m)
    <3> HIDE DEF id, headers
    <3>0. PICK b : b = << >>
      OBVIOUS
    <3>3. IsSeq(b) /\ Len(b) = 0
      BY <3>0, EmptyIsStream
    <3>4. m = HttpMessage(id, headers, b)
      BY <3>0
    <3>1. m.body = b
      BY <3>4, FieldsOf
    <3>2. 0 <= MAX_BODY
      BY BodyAssumption
    <3> HIDE DEF m
    <3> QED BY <3>1, <3>2, <3>3 DEF Sized
  <2> HIDE DEF m, rest
  <2> QED BY <1>1, <2>1 DEF Got, GoodRead
<1>4. \/ read_message(in, eof, open)
         \in {Closed, Err, Wait, Got(m, rest), read_chunked_body(m, rest, eof), read_to_end(m, rest, eof)}
      \/ lengths # {} /\ read_message(in, eof, open) = read_exact_body(m, head[First(lengths)].n, rest, eof)
  BY DEF read_message
<1> HIDE DEF k, head, headers, lengths, id, rest
<1>5. /\ GoodRead(read_chunked_body(m, rest, eof)) /\ GoodRead(read_to_end(m, rest, eof))
      /\ lengths # {} => GoodRead(read_exact_body(m, head[First(lengths)].n, rest, eof))
  BY <1>1, <1>2, GoodChunks, GoodExact, GoodToEnd
<1> HIDE DEF m
<1> QED BY <1>3, <1>4, <1>5, NoRead

\* A token, a few of a head and those of a body, in a row.
IsHeaded(w, a, h, s) ==
  /\ IsSeq(w) /\ Len(w) = 1 + Len(h) + Len(s) /\ w[1] = a
  /\ \A i \in 1 .. Len(h) : w[1 + i] = h[i]
  /\ \A i \in 1 .. Len(s) : w[1 + Len(h) + i] = s[i]
  /\ Len(h) \in Nat /\ Len(s) \in Nat

LEMMA HeadJoined ==
  ASSUME NEW a, NEW h, NEW s, IsSeq(h), IsSeq(s)
  PROVE  IsHeaded(<< a >> \o h \o s, a, h, s)
<1>1. PICK o : o = << a >>
  OBVIOUS
<1>2. IsSeq(o) /\ Len(o) = 1 /\ o[1] = a
  <2>1. o \in Seq({a}) /\ Len(o) = 1 /\ o[1] = a
    BY <1>1
  <2> QED BY <2>1 DEF IsSeq
<1>3. PICK oh : oh = o \o h
  OBVIOUS
<1>4. IsJoin(oh, o, h)
  BY <1>2, <1>3, JoinedSeqs
<1>5. PICK w : w = oh \o s
  OBVIOUS
<1>6. IsJoin(w, oh, s)
  <2>1. IsSeq(oh)
    BY <1>4 DEF IsJoin
  <2> QED BY <1>5, <2>1, JoinedSeqs
<1>7. IsHeaded(w, a, h, s)
  <2>1. IsSeq(w) /\ Len(w) = 1 + Len(h) + Len(s) /\ Len(h) \in Nat /\ Len(s) \in Nat /\ Len(oh) = 1 + Len(h)
    BY <1>2, <1>4, <1>6 DEF IsJoin
  <2>2. \A i \in 1 .. (1 + Len(h)) : w[i] = oh[i]
    BY <2>1, <1>6 DEF IsJoin
  <2>3. w[1] = a
    <3>1. 1 \in 1 .. (1 + Len(h)) /\ 1 \in 1 .. Len(o)
      BY <1>2, <2>1
    <3> QED BY <1>2, <1>4, <2>2, <3>1 DEF IsJoin
  <2>4. ASSUME NEW i \in 1 .. Len(h) PROVE w[1 + i] = h[i]
    <3>1. 1 + i \in 1 .. (1 + Len(h))
      BY <2>1
    <3>2. oh[1 + i] = h[i]
      BY <1>2, <1>4 DEF IsJoin
    <3> QED BY <2>2, <3>1, <3>2
  <2>5. \A i \in 1 .. Len(s) : w[1 + Len(h) + i] = s[i]
    BY <1>6, <2>1 DEF IsJoin
  <2> QED BY <2>1, <2>3, <2>4, <2>5 DEF IsHeaded
<1> QED BY <1>1, <1>3, <1>5, <1>7

\* What the writer puts on the wire.
HeadLen(m) == IF Chunked \in m.headers THEN 4 ELSE 3

IsWire(w, m) ==
  /\ IsSeq(w) /\ Len(w) = HeadLen(m) + Len(m.body) /\ Len(m.body) \in Nat /\ w[1] = Start(m.start_line)
  /\ Chunked \in m.headers => w[2] = Chunked
  /\ w[HeadLen(m) - 1] = Length(Len(m.body)) /\ w[HeadLen(m)] = Blank
  /\ \A i \in 1 .. Len(m.body) : w[HeadLen(m) + i] = Data(m.body[i])

LEMMA WritesWire ==
  ASSUME NEW m, IsSeq(m.body)
  PROVE  IsWire(write_message(m), m)
<1>1. PICK b : b = m.body
  OBVIOUS
<1>3. IsSeq(b) /\ Len(b) \in Nat /\ DOMAIN b = 1 .. Len(b)
  BY <1>1 DEF IsSeq
<1>4. PICK s : s = [i \in DOMAIN b |-> Data(b[i])]
  OBVIOUS
<1>5. IsSeq(s) /\ Len(s) = Len(b) /\ \A i \in 1 .. Len(b) : s[i] = Data(b[i])
  <2>1. s = [i \in 1 .. Len(b) |-> s[i]]
    BY <1>3, <1>4
  <2> QED BY <1>3, <1>4, <2>1, SomeSeq
<1>7. CASE Chunked \in m.headers
  <2>1. PICK h : h = << Chunked, Length(Len(b)), Blank >>
    OBVIOUS
  <2>2. IsSeq(h) /\ Len(h) = 3 /\ h[1] = Chunked /\ h[2] = Length(Len(b)) /\ h[3] = Blank
    <3>1. h \in Seq({Chunked, Length(Len(b)), Blank})
      BY <2>1
    <3> QED BY <2>1, <3>1 DEF IsSeq
  <2>3. PICK w : w = << Start(m.start_line) >> \o h \o s
    OBVIOUS
  <2>4. write_message(m) = w
    <3>1. << Start(m.start_line) >> \o << Chunked >> \o << Length(Len(b)), Blank >> = << Start(m.start_line) >> \o h
      BY <2>1
    <3> QED BY <1>1, <1>4, <1>7, <2>3, <3>1 DEF write_message
  <2>5. IsHeaded(w, Start(m.start_line), h, s)
    BY <1>5, <2>2, <2>3, HeadJoined
  <2>6. IsWire(w, m)
    BY <1>1, <1>3, <1>5, <1>7, <2>2, <2>5 DEF IsHeaded, IsWire, HeadLen
  <2> QED BY <2>4, <2>6
<1>8. CASE Chunked \notin m.headers
  <2>1. PICK h : h = << Length(Len(b)), Blank >>
    OBVIOUS
  <2>2. IsSeq(h) /\ Len(h) = 2 /\ h[1] = Length(Len(b)) /\ h[2] = Blank
    <3>1. h \in Seq({Length(Len(b)), Blank})
      BY <2>1
    <3> QED BY <2>1, <3>1 DEF IsSeq
  <2>3. PICK w : w = << Start(m.start_line) >> \o h \o s
    OBVIOUS
  <2>4. write_message(m) = w
    <3>1. << Start(m.start_line) >> \o << >> \o << Length(Len(b)), Blank >> = << Start(m.start_line) >> \o h
      BY <2>1
    <3> QED BY <1>1, <1>4, <1>8, <2>3, <3>1 DEF write_message
  <2>5. IsHeaded(w, Start(m.start_line), h, s)
    BY <1>5, <2>2, <2>3, HeadJoined
  <2>6. IsWire(w, m)
    BY <1>1, <1>3, <1>5, <1>8, <2>2, <2>5 DEF IsHeaded, IsWire, HeadLen
  <2> QED BY <2>4, <2>6
<1> QED BY <1>7, <1>8

\* A reader takes what was written for what it is.
ReadsBack(w, m) ==
  /\ Bodies(w) = m.body
  /\ Chunked \notin Range(w) =>
       LET r == read_message(w, FALSE, FALSE)
       IN  r.is = "message" /\ r.rest = << >> /\ r.message.body = m.body

LEMMA WireReadsBack ==
  ASSUME NEW m, Sized(m), NEW w, IsWire(w, m)
  PROVE  ReadsBack(w, m)
<1>b. PICK b : b = m.body
  OBVIOUS
<1>n. PICK n : n = Len(b)
  OBVIOUS
<1>k. PICK k : k = HeadLen(m)
  OBVIOUS
<1>c. k \in {3, 4} /\ (k = 4 => Chunked \in m.headers)
  BY <1>k DEF HeadLen
<1>0. /\ IsSeq(w) /\ Len(w) = k + n /\ n \in Nat /\ w[1] = Start(m.start_line) /\ k \in {3, 4}
      /\ k = 4 => w[2] = Chunked
      /\ w[k - 1] = Length(n) /\ w[k] = Blank /\ (\A i \in 1 .. n : w[k + i] = Data(b[i]))
      /\ IsSeq(b) /\ n <= MAX_BODY
  BY <1>b, <1>n, <1>k, <1>c DEF IsWire, Sized
<1>1. HeadEnd(w, FALSE) = k
  <2>1. w[1].t \notin {"blank", "break"} /\ w[k - 1].t \notin {"blank", "break"} /\ w[k].t \in {"blank", "break"}
    BY <1>0 DEF Start, Length, Blank
  <2>2. k = 4 => w[2].t \notin {"blank", "break"}
    BY <1>0 DEF Chunked
  <2>3. \A j \in 1 .. (k - 1) : w[j].t \notin {"blank", "break"}
    BY <1>0, <2>1, <2>2
  <2>4. k \in 1 .. Len(w)
    BY <1>0
  <2> QED BY <1>0, <2>1, <2>3, <2>4, HeadEndIs
<1>2. Bodies(w) = b
  <2> DEFINE s == Behind(w, k)
  <2>1. k \in 0 .. Len(w) /\ Len(w) - k = n
    BY <1>0
  <2>2. IsSeq(s) /\ Len(s) = n /\ \A i \in 1 .. n : s[i] = w[k + i]
    BY <1>0, <2>1, PartsAreSeqs
  <2> HIDE DEF s
  <2>3. IsSeq(Units(s)) /\ Len(Units(s)) = n
    BY <2>2, UnitsOf
  <2>4. ASSUME NEW i \in 1 .. n PROVE Units(s)[i] = b[i]
    <3>1. s[i] = Data(b[i])
      BY <1>0, <2>2
    <3>2. s[i].t \in {"data", "break"} /\ s[i].unit = b[i]
      BY <3>1 DEF Data
    <3> QED BY <2>2, <3>2, UnitsOf
  <2>5. Units(s) = b
    BY <1>0, <1>n, <2>3, <2>4, SameSeq
  <2> QED BY <1>1, <2>5 DEF Bodies, s
<1>3. ASSUME Chunked \notin Range(w)
      PROVE  read_message(w, FALSE, FALSE) = Got(HttpMessage(m.start_line, {Length(n)}, b), << >>)
  <2>1. k = 3
    <3>1. DOMAIN w = 1 .. Len(w)
      BY <1>0 DEF IsSeq
    <3>2. 2 \in DOMAIN w
      BY <1>0, <3>1
    <3>3. w[2] # Chunked
      BY <1>3, <3>2 DEF Range
    <3> QED BY <1>0, <3>3
  <2>2. w[2] = Length(n) /\ w[3] = Blank /\ Len(w) >= 3 + n /\ \A i \in 1 .. n : w[3 + i] = Data(b[i])
    BY <1>0, <2>1
  <2>3. read_message(w, FALSE, FALSE) = Got(HttpMessage(m.start_line, {Length(Len(b))}, b), Behind(w, 3 + Len(b)))
    <3>1. PICK e : e = FALSE
      OBVIOUS
    <3>2. PICK id : id = m.start_line
      OBVIOUS
    <3>3. /\ w[1] = Start(id) /\ w[2] = Length(Len(b)) /\ w[3] = Blank /\ Len(w) >= 3 + Len(b)
          /\ Len(b) <= MAX_BODY /\ \A i \in 1 .. Len(b) : w[3 + i] = Data(b[i])
      BY <1>0, <1>n, <2>2, <3>2
    <3>4. read_message(w, e, e) = Got(HttpMessage(id, {Length(Len(b))}, b), Behind(w, 3 + Len(b)))
      BY <1>0, <3>3, LengthRead, ZenonT(60)
    <3> QED BY <3>1, <3>2, <3>4
  <2>4. Behind(w, 3 + n) = << >>
    <3>1. Len(w) = 3 + n
      BY <1>0, <2>1
    <3>2. PICK S : w \in Seq(S)
      BY <1>0 DEF IsSeq
    <3> QED BY <1>0, <3>1, <3>2 DEF Behind
  <2> QED BY <1>n, <2>3, <2>4
<1>4. PICK g : g = HttpMessage(m.start_line, {Length(n)}, b)
  OBVIOUS
<1>5. g.body = b
  BY <1>4, FieldsOf
<1>6. Chunked \notin Range(w) => read_message(w, FALSE, FALSE) = Got(g, << >>)
  BY <1>3, <1>4
<1> DEFINE r == read_message(w, FALSE, FALSE)
<1>7. ASSUME Chunked \notin Range(w) PROVE r.is = "message" /\ r.rest = << >> /\ r.message = g
  <2>1. r = Got(g, << >>)
    BY <1>6, <1>7
  <2> HIDE DEF r
  <2> QED BY <2>1 DEF Got
<1>8. Chunked \notin Range(w) => r.is = "message" /\ r.rest = << >> /\ r.message.body = m.body
  BY <1>5, <1>7, <1>b
<1> QED BY <1>2, <1>8, <1>b DEF ReadsBack

\* A message as it is framed.
IsFrame(w, m) ==
  LET b == m.body
  IN  /\ IsSeq(w) /\ IsSeq(b) /\ Len(b) \in Nat /\ w[1] = Start(m.start_line)
      /\ m.framing = "length" =>
           /\ Len(w) = 3 + Len(b) /\ w[2] = Length(Len(b)) /\ w[3] = Blank
           /\ \A i \in 1 .. Len(b) : w[3 + i] = Data(b[i])
      /\ m.framing = "chunked" =>
           /\ Len(w) = 4 + Len(b) /\ w[2] = Chunked /\ w[3] = Blank
           /\ \A i \in 1 .. Len(b) : w[3 + i] = Chunk(b[i])
           /\ w[4 + Len(b)] = Zero
      /\ m.framing = "none" =>
           /\ Len(w) = 2 + Len(b) /\ w[2] = Blank
           /\ \A i \in 1 .. Len(b) : w[2 + i] = Data(b[i])

LEMMA UnitsInTokens ==
  ASSUME NEW b, IsSeq(b)
  PROVE  /\ LET s == [i \in DOMAIN b |-> Data(b[i])]
            IN  IsSeq(s) /\ Len(s) = Len(b) /\ \A i \in 1 .. Len(b) : s[i] = Data(b[i])
         /\ LET s == [i \in DOMAIN b |-> Chunk(b[i])]
            IN  IsSeq(s) /\ Len(s) = Len(b) /\ \A i \in 1 .. Len(b) : s[i] = Chunk(b[i])
<1>1. DOMAIN b = 1 .. Len(b) /\ Len(b) \in Nat
  BY DEF IsSeq
<1>2. ASSUME NEW s, s = [i \in DOMAIN b |-> s[i]] PROVE IsSeq(s) /\ Len(s) = Len(b)
  BY <1>1, <1>2, SomeSeq
<1> QED BY <1>1, <1>2

LEMMA FramedIs ==
  ASSUME NEW m, IsFramed(m)
  PROVE  IsFrame(Framed(m), m)
<1>1. PICK b : b = m.body
  OBVIOUS
<1>2. PICK w : w = Framed(m)
  OBVIOUS
<1>3. IsSeq(b) /\ Len(b) \in Nat /\ DOMAIN b = 1 .. Len(b)
  <2>1. b \in Seq(Range(b))
    BY <1>1 DEF IsFramed, IsSequence
  <2> QED BY <2>1 DEF IsSeq
<1>4. PICK s : s = [i \in DOMAIN b |-> Data(b[i])]
  OBVIOUS
<1>5. IsSeq(s) /\ Len(s) = Len(b) /\ \A i \in 1 .. Len(b) : s[i] = Data(b[i])
  BY <1>3, <1>4, UnitsInTokens
<1>6. CASE m.framing = "length"
  <2>1. PICK h : h = << Length(Len(b)), Blank >>
    OBVIOUS
  <2>2. IsSeq(h) /\ Len(h) = 2 /\ h[1] = Length(Len(b)) /\ h[2] = Blank
    <3>1. h \in Seq({Length(Len(b)), Blank})
      BY <2>1
    <3> QED BY <2>1, <3>1 DEF IsSeq
  <2>3. IsHeaded(<< Start(m.start_line) >> \o h \o s, Start(m.start_line), h, s)
    BY <1>5, <2>2, HeadJoined
  <2>4. w = << Start(m.start_line) >> \o h \o s
    BY <1>1, <1>2, <1>4, <1>6, <2>1 DEF Framed
  <2>5. IsFrame(w, m)
    BY <1>1, <1>3, <1>5, <1>6, <2>2, <2>3, <2>4 DEF IsFrame, IsHeaded
  <2> QED BY <1>2, <2>5
<1>7. CASE m.framing = "chunked"
  <2>1. PICK h : h = << Chunked, Blank >>
    OBVIOUS
  <2>2. IsSeq(h) /\ Len(h) = 2 /\ h[1] = Chunked /\ h[2] = Blank
    <3>1. h \in Seq({Chunked, Blank})
      BY <2>1
    <3> QED BY <2>1, <3>1 DEF IsSeq
  <2>3. PICK c : c = [i \in DOMAIN b |-> Chunk(b[i])]
    OBVIOUS
  <2>4. IsSeq(c) /\ Len(c) = Len(b) /\ \A i \in 1 .. Len(b) : c[i] = Chunk(b[i])
    BY <1>3, <2>3, UnitsInTokens
  <2>5. PICK o : o = << Start(m.start_line) >> \o h \o c
    OBVIOUS
  <2>6. IsHeaded(o, Start(m.start_line), h, c)
    BY <2>2, <2>4, <2>5, HeadJoined
  <2>7. PICK z : z = << Zero >>
    OBVIOUS
  <2>8. IsSeq(z) /\ Len(z) = 1 /\ z[1] = Zero
    <3>1. z \in Seq({Zero})
      BY <2>7
    <3> QED BY <2>7, <3>1 DEF IsSeq
  <2>9. w = o \o z
    <3>1. w = << Start(m.start_line) >> \o (h \o c \o z)
      BY <1>1, <1>2, <1>7, <2>1, <2>3, <2>7 DEF Framed
    <3>2. PICK T : h \in Seq(T) /\ c \in Seq(T) /\ z \in Seq(T) /\ << Start(m.start_line) >> \in Seq(T)
      <4>1. PICK A : h \in Seq(A)
        BY <2>2 DEF IsSeq
      <4>2. PICK B : c \in Seq(B)
        BY <2>4 DEF IsSeq
      <4>3. h \in Seq(A \cup B \cup {Zero, Start(m.start_line)}) /\ c \in Seq(A \cup B \cup {Zero, Start(m.start_line)})
        BY <4>1, <4>2
      <4>4. z \in Seq(A \cup B \cup {Zero, Start(m.start_line)}) /\ << Start(m.start_line) >> \in Seq(A \cup B \cup {Zero, Start(m.start_line)})
        BY <2>7
      <4> QED BY <4>3, <4>4
    <3> QED BY <2>5, <3>1, <3>2, SMTT(60)
  <2>10. IsJoin(w, o, z)
    BY <2>6, <2>8, <2>9, JoinedSeqs DEF IsHeaded
  <2>11. IsFrame(w, m)
    <3>1. /\ Len(o) = 3 + Len(b) /\ o[1] = Start(m.start_line) /\ o[2] = Chunked /\ o[3] = Blank
          /\ \A i \in 1 .. Len(b) : o[3 + i] = Chunk(b[i])
      BY <1>3, <2>2, <2>4, <2>6 DEF IsHeaded
    <3>2. /\ IsSeq(w) /\ Len(w) = 4 + Len(b) /\ w[4 + Len(b)] = Zero
          /\ \A i \in 1 .. (3 + Len(b)) : w[i] = o[i]
      BY <1>3, <2>8, <2>10, <3>1 DEF IsJoin
    <3>3. w[1] = Start(m.start_line) /\ w[2] = Chunked /\ w[3] = Blank
      BY <1>3, <3>1, <3>2
    <3>4. ASSUME NEW i \in 1 .. Len(b) PROVE w[3 + i] = Chunk(b[i])
      <4>1. 3 + i \in 1 .. (3 + Len(b))
        BY <1>3
      <4> QED BY <3>1, <3>2, <4>1
    <3> QED BY <1>1, <1>3, <1>7, <3>2, <3>3, <3>4 DEF IsFrame
  <2> QED BY <1>2, <2>11
<1>8. CASE m.framing = "none"
  <2>1. PICK h : h = << Blank >>
    OBVIOUS
  <2>2. IsSeq(h) /\ Len(h) = 1 /\ h[1] = Blank
    <3>1. h \in Seq({Blank})
      BY <2>1
    <3> QED BY <2>1, <3>1 DEF IsSeq
  <2>3. IsHeaded(<< Start(m.start_line) >> \o h \o s, Start(m.start_line), h, s)
    BY <1>5, <2>2, HeadJoined
  <2>4. w = << Start(m.start_line) >> \o h \o s
    <3>1. PICK T : h \in Seq(T) /\ s \in Seq(T) /\ << Start(m.start_line) >> \in Seq(T)
      <4>1. PICK B : s \in Seq(B)
        BY <1>5 DEF IsSeq
      <4>2. s \in Seq(B \cup {Blank, Start(m.start_line)})
        BY <4>1
      <4>3. h \in Seq(B \cup {Blank, Start(m.start_line)}) /\ << Start(m.start_line) >> \in Seq(B \cup {Blank, Start(m.start_line)})
        BY <2>1
      <4> QED BY <4>2, <4>3
    <3>2. w = << Start(m.start_line) >> \o (h \o s)
      BY <1>1, <1>2, <1>4, <1>8, <2>1 DEF Framed
    <3> QED BY <3>1, <3>2
  <2>5. IsFrame(w, m)
    BY <1>1, <1>3, <1>5, <1>8, <2>2, <2>3, <2>4, SMTT(60) DEF IsFrame, IsHeaded
  <2> QED BY <1>2, <2>5
<1> QED BY <1>6, <1>7, <1>8 DEF IsFramed

LEMMA TokenTypes ==
  /\ \A u : /\ Start(u).t = "start" /\ Start(u).start_line = u /\ Length(u).t = "length" /\ Length(u).n = u
            /\ Data(u).t \in {"data", "break"} /\ Chunk(u).t = "chunk"
  /\ Chunked.t = "chunked" /\ Blank.t = "blank" /\ Zero.t = "zero"
  BY DEF Start, Length, Data, Chunk, Chunked, Blank, Zero

LEMMA FrameIsStream ==
  ASSUME NEW m, IsFramed(m)
  PROVE  IsStream(Framed(m)) /\ \A n \in 0 .. (Len(Framed(m)) - 1) : IsStream(Upto(Framed(m), n))
<1>1. PICK w : w = Framed(m)
  OBVIOUS
<1>2. IsFrame(w, m)
  BY <1>1, FramedIs
<1>3. IsStream(w)
  <2>1. PICK b : b = m.body
    OBVIOUS
  <2>2. IsSeq(w) /\ Len(b) \in Nat /\ w[1].t # "length"
    BY <1>2, <2>1, TokenTypes DEF IsFrame
  <2>3. CASE m.framing = "length"
    <3>1. Len(w) = 3 + Len(b) /\ w[2].n = Len(b) /\ w[3].t # "length" /\ \A i \in 1 .. Len(b) : w[3 + i].t # "length"
      <4>1. Len(w) = 3 + Len(b) /\ w[2] = Length(Len(b)) /\ w[3] = Blank /\ \A i \in 1 .. Len(b) : w[3 + i] = Data(b[i])
        BY <1>2, <2>1, <2>3 DEF IsFrame
      <4> QED BY <4>1, TokenTypes
    <3>2. ASSUME NEW i \in 4 .. Len(w) PROVE w[i].t # "length"
      <4>1. i - 3 \in 1 .. Len(b) /\ 3 + (i - 3) = i
        BY <2>2, <3>1
      <4> QED BY <3>1, <4>1
    <3> QED BY <2>2, <3>1, <3>2 DEF IsStream
  <2>4. CASE m.framing = "chunked"
    <3>1. /\ Len(w) = 4 + Len(b) /\ w[2].t # "length" /\ w[3].t # "length" /\ w[4 + Len(b)].t # "length"
          /\ \A i \in 1 .. Len(b) : w[3 + i].t # "length"
      <4>1. /\ Len(w) = 4 + Len(b) /\ w[2] = Chunked /\ w[3] = Blank /\ w[4 + Len(b)] = Zero
            /\ \A i \in 1 .. Len(b) : w[3 + i] = Chunk(b[i])
        BY <1>2, <2>1, <2>4 DEF IsFrame
      <4> QED BY <4>1, TokenTypes
    <3>2. ASSUME NEW i \in 4 .. (3 + Len(b)) PROVE w[i].t # "length"
      <4>1. i - 3 \in 1 .. Len(b) /\ 3 + (i - 3) = i
        BY <2>2, <3>1
      <4> QED BY <3>1, <4>1
    <3> QED BY <2>2, <3>1, <3>2 DEF IsStream
  <2>5. CASE m.framing = "none"
    <3>1. Len(w) = 2 + Len(b) /\ w[2].t # "length" /\ \A i \in 1 .. Len(b) : w[2 + i].t # "length"
      <4>1. Len(w) = 2 + Len(b) /\ w[2] = Blank /\ \A i \in 1 .. Len(b) : w[2 + i] = Data(b[i])
        BY <1>2, <2>1, <2>5 DEF IsFrame
      <4> QED BY <4>1, TokenTypes
    <3>2. ASSUME NEW i \in 3 .. Len(w) PROVE w[i].t # "length"
      <4>1. i - 2 \in 1 .. Len(b) /\ 2 + (i - 2) = i
        BY <2>2, <3>1
      <4> QED BY <3>1, <4>1
    <3> QED BY <2>2, <3>1, <3>2 DEF IsStream
  <2> QED BY <2>3, <2>4, <2>5 DEF IsFramed
<1>4. ASSUME NEW n \in 0 .. (Len(w) - 1) PROVE IsStream(Upto(w, n))
  <2>1. Len(w) \in Nat
    BY <1>3 DEF IsStream, IsSeq
  <2>2. n \in 0 .. Len(w) /\ \A i \in 1 .. n : i \in 1 .. Len(w)
    BY <2>1
  <2>3. IsSeq(Upto(w, n)) /\ Len(Upto(w, n)) = n /\ \A i \in 1 .. n : Upto(w, n)[i] = w[i]
    BY <1>3, <2>2, PartsAreSeqs DEF IsStream
  <2> QED BY <1>3, <2>2, <2>3 DEF IsStream
<1> QED BY <1>1, <1>3, <1>4

LEMMA JoinedStreams ==
  ASSUME NEW s, NEW t, IsStream(s), IsStream(t)
  PROVE  IsStream(s \o t)
<1>1. PICK w : w = s \o t
  OBVIOUS
<1>2. IsJoin(w, s, t)
  BY <1>1, JoinedSeqs DEF IsStream
<1>3. ASSUME NEW i \in 1 .. Len(w), w[i].t = "length" PROVE w[i].n \in Nat
  <2>1. CASE i <= Len(s)
    BY <1>2, <1>3, <2>1 DEF IsJoin, IsStream
  <2>2. CASE ~ (i <= Len(s))
    <3>1. i - Len(s) \in 1 .. Len(t) /\ Len(s) + (i - Len(s)) = i
      BY <1>2, <2>2 DEF IsJoin
    <3> QED BY <1>2, <1>3, <3>1 DEF IsJoin, IsStream
  <2> QED BY <2>1, <2>2
<1> QED BY <1>1, <1>2, <1>3 DEF IsJoin, IsStream

-----------------------------------------------------------------------------
(* What is written reads back *)

\* A message as it was written.
WrittenRight(x) == Sized(x.message) /\ x.wire = write_message(x.message)

\* The streams are tokens in a row, the messages in hand have bodies within the
\* limit, and so have those that were written.
SizeInv ==
  /\ IsStream(cin) /\ IsStream(uin)
  /\ Sized(req) /\ Sized(reply)
  /\ \A x \in Written : WrittenRight(x)

LEMMA MaskedIsSized ==
  ASSUME NEW m, Whole(m), NEW s
  PROVE  Sized(Masked(m, s))
<1>0. PICK u : u = Unit("", "text", s.sanitized)
  OBVIOUS
<1>1. PICK b : b = << u >>
  OBVIOUS
<1>2. IsSeq(b) /\ Len(b) = 1
  <2>1. b \in Seq({u}) /\ Len(b) = 1
    BY <1>1
  <2> QED BY <2>1 DEF IsSeq
<1>3. Masked(m, s).body = b
  BY <1>0, <1>1 DEF Masked, Whole, HttpMessage
<1>4. 1 <= MAX_BODY
  BY BodyAssumption
<1> QED BY <1>2, <1>3, <1>4 DEF Sized

LEMMA EmptyIsSized ==
  ASSUME NEW id, NEW m, m = HttpMessage(id, {}, << >>)
  PROVE  Sized(m)
<1>1. PICK b : b = << >>
  OBVIOUS
<1>2. IsSeq(b) /\ Len(b) = 0 /\ 0 <= MAX_BODY
  BY <1>1, EmptyIsStream, BodyAssumption
<1>3. m = HttpMessage(id, {}, b)
  BY <1>1
<1>4. m.body = b
  BY <1>3, FieldsOf
<1> QED BY <1>2, <1>4 DEF Sized

LEMMA OutIsRight ==
  ASSUME NEW m, Sized(m)
  PROVE  WrittenRight(Out(m))
  BY DEF WrittenRight, Out

LEMMA SizeInit == Init => SizeInv
<1> SUFFICES ASSUME Init PROVE SizeInv
  OBVIOUS
<1>1. cin = << >> /\ uin = << >> /\ req = NoMessage /\ reply = NoMessage /\ Written = {}
  BY DEF Init, Written, Range
<1>2. IsStream(cin) /\ IsStream(uin)
  BY <1>1, EmptyIsStream
<1>3. Sized(req) /\ Sized(reply)
  BY <1>1, EmptyIsSized DEF NoMessage
<1> QED BY <1>1, <1>2, <1>3 DEF SizeInv

LEMMA SizeStep == PairInv /\ SentInv /\ HandInv /\ SizeInv /\ [Next]_vars => SizeInv'
<1> SUFFICES ASSUME PairInv, SentInv, HandInv, SizeInv, [Next]_vars PROVE SizeInv'
  OBVIOUS
<1>0. /\ (\E S : got \in Seq(S)) /\ (\E S : fwd \in Seq(S))
      /\ IsStream(cin) /\ IsStream(uin) /\ Sized(req) /\ Sized(reply)
      /\ \A x \in Written : WrittenRight(x)
      /\ Whole(req) /\ Whole(reply)
  BY DEF PairInv, HandInv, SizeInv
<1>e. ASSUME NEW s, s = << >> PROVE IsStream(s)
  BY <1>e, EmptyIsStream
<1>n. Sized(NoMessage) /\ Sized(Forbidden)
  BY EmptyIsSized DEF NoMessage, Forbidden
<1>1. CASE UNCHANGED << cin, uin, req, reply, fwd, got >>
  BY <1>0, <1>1 DEF SizeInv, Written
<1>2. ASSUME IsStream(cin'), IsStream(uin'), Sized(req'), Sized(reply'), UNCHANGED << fwd, got >>
      PROVE  SizeInv'
  BY <1>0, <1>2 DEF SizeInv, Written
<1>3. ASSUME NEW m, ToClient(m), Sized(m), UNCHANGED << cin, uin, fwd >>, Sized(req'), Sized(reply')
      PROVE  SizeInv'
  <2>1. Range(got') = Range(got) \cup {Out(m)}
    BY <1>0, <1>3, OneMoreInRange DEF ToClient
  <2>2. \A x \in Written' : WrittenRight(x)
    BY <1>0, <1>3, <2>1, OutIsRight DEF Written
  <2> QED BY <1>0, <1>3, <2>2 DEF SizeInv
<1>4. CASE RelayUp
  <2>1. cin' = << >> /\ UNCHANGED << uin, req, reply, fwd, got >>
    BY <1>4 DEF RelayUp
  <2> QED BY <1>0, <1>e, <1>2, <2>1
<1>5. CASE ReadRequest
  <2> DEFINE r == read_message(cin, ceof, FALSE)
  <2>1. GoodRead(r)
    BY <1>0, ReadsSized
  <2>2. UNCHANGED << uin, reply, fwd, got >>
    BY <1>5 DEF ReadRequest
  <2>3. \/ r.is = "message" /\ req' = r.message /\ cin' = r.rest
        \/ UNCHANGED << req, cin >>
    BY <1>5 DEF ReadRequest
  <2> HIDE DEF r
  <2> QED BY <1>0, <1>2, <2>1, <2>2, <2>3 DEF GoodRead
<1>6. CASE Refuse
  <2>1. ToClient(Forbidden) /\ UNCHANGED << cin, uin, fwd, reply >> /\ req' = NoMessage
    BY <1>6 DEF Refuse
  <2> QED BY <1>0, <1>n, <1>3, <2>1
<1>7. CASE Send
  <2> DEFINE m == IF scan.action = "Redact" THEN Masked(req, scan) ELSE req
  <2>1. fwd' = Append(fwd, Out(m)) /\ uin' = << >> /\ UNCHANGED << cin, req, reply, got >>
    BY <1>7 DEF Send
  <2>2. Sized(m)
    BY <1>0, MaskedIsSized
  <2> HIDE DEF m
  <2>3. Range(fwd') = Range(fwd) \cup {Out(m)}
    BY <1>0, <2>1, OneMoreInRange
  <2>4. \A x \in Written' : WrittenRight(x)
    BY <1>0, <2>1, <2>2, <2>3, OutIsRight DEF Written
  <2>5. IsStream(uin')
    BY <1>e, <2>1
  <2> QED BY <1>0, <2>1, <2>4, <2>5 DEF SizeInv
<1>8. CASE ReadReply
  <2> DEFINE r == read_message(uin, ueof, TRUE)
  <2>1. GoodRead(r)
    BY <1>0, ReadsSized
  <2>2. UNCHANGED << cin, req, fwd, got >>
    BY <1>8 DEF ReadReply
  <2>3. \/ r.is = "message" /\ reply' = r.message /\ uin' = r.rest
        \/ UNCHANGED << reply, uin >>
    BY <1>8 DEF ReadReply
  <2> HIDE DEF r
  <2> QED BY <1>0, <1>2, <2>1, <2>2, <2>3 DEF GoodRead
<1>9. CASE Respond
  <2> DEFINE s == inspect(policy, AllText(reply.body))
             m == IF Denied(s.action) THEN Forbidden ELSE IF s.action = "Redact" THEN Masked(reply, s) ELSE reply
  <2>1. ToClient(m) /\ UNCHANGED << cin, uin, fwd >> /\ req' = NoMessage /\ reply' = NoMessage
    BY <1>9 DEF Respond
  <2> HIDE DEF s
  <2>2. Sized(m)
    BY <1>0, <1>n, MaskedIsSized
  <2> HIDE DEF m
  <2> QED BY <1>n, <1>3, <2>1, <2>2
<1>10. CASE ClientSends
  <2> DEFINE tokens == Framed(script[sent + 1])
  <2>1. script \in Scripts /\ sent + 1 \in 1 .. Len(script)
    <3>1. sent < Len(script)
      BY <1>10 DEF ClientSends
    <3>2. Len(script) \in Nat
      BY ScriptsAssumption DEF SentInv, IsSequence
    <3> QED BY <3>1, <3>2 DEF SentInv
  <2>2. IsFramed(script[sent + 1])
    BY <2>1, ScriptsAssumption
  <2>3. IsStream(tokens) /\ \A n \in 0 .. (Len(tokens) - 1) : IsStream(Upto(tokens, n))
    BY <2>2, FrameIsStream
  <2>4. \/ cin' = cin \o tokens
        \/ \E n \in 0 .. (Len(tokens) - 1) : cin' = cin \o Upto(tokens, n)
    BY <1>10 DEF ClientSends
  <2> HIDE DEF tokens
  <2>5. IsStream(cin')
    BY <1>0, <2>3, <2>4, JoinedStreams
  <2>6. UNCHANGED << uin, req, reply, fwd, got >>
    BY <1>10 DEF ClientSends, exchange
  <2> QED BY <1>0, <1>2, <2>5, <2>6
<1>11. CASE UpstreamAnswers
  <2>1. PICK a \in Replies :
          \/ uin' = Framed(a)
          \/ \E n \in 0 .. (Len(Framed(a)) - 1) : uin' = Upto(Framed(a), n)
    BY <1>11 DEF UpstreamAnswers
  <2>2. IsStream(uin')
    BY <2>1, RepliesAssumption, FrameIsStream
  <2>3. UNCHANGED << cin, req, reply, fwd, got >>
    BY <1>11 DEF UpstreamAnswers, exchange
  <2> QED BY <1>0, <1>2, <2>2, <2>3
<1>12. CASE handle_connection \/ RelayDial \/ RelayEnds \/ ScanRequest \/ DialFails \/ RelayDown
  BY <1>1, <1>12 DEF handle_connection, RelayDial, RelayEnds, ScanRequest, DialFails, RelayDown, exchange
<1>13. CASE ClientCloses \/ UpstreamCloses \/ ChangePolicy
  BY <1>1, <1>13 DEF ClientCloses, UpstreamCloses, ChangePolicy, exchange
<1>14. CASE UNCHANGED vars
  BY <1>1, <1>14 DEF vars
<1> QED BY <1>4, <1>5, <1>6, <1>7, <1>8, <1>9, <1>10, <1>11, <1>12, <1>13, <1>14 DEF Next, Proxy

\* Every message that goes over the wire, in either direction, carries the body
\* that was judged and nothing else; a reader that goes by the same rules takes
\* exactly this message from it, unless it came in chunks.
THEOREM WhatIsWrittenReadsBack == Spec => []WrittenReadsBack
<1>1. SizeInv => WrittenReadsBack
  <2> SUFFICES ASSUME SizeInv, NEW x \in Written PROVE ReadsBack(x.wire, x.message)
    BY DEF WrittenReadsBack, ReadsBack
  <2>1. Sized(x.message) /\ x.wire = write_message(x.message)
    BY DEF SizeInv, WrittenRight
  <2>2. IsWire(x.wire, x.message)
    BY <2>1, WritesWire DEF Sized
  <2> QED BY <2>1, <2>2, WireReadsBack
<1> QED BY <1>1, PairInit, PairStep, SentInit, SentStep, HandInit, HandStep, SizeInit, SizeStep, PTL DEF Spec

-----------------------------------------------------------------------------
(* A tunnel that is only relayed *)

\* What the server has sent is there, but perhaps for its first words.
DownInv ==
  /\ IsSeq(offered) /\ IsSeq(down)
  /\ pc \in {"connect", "relay_dial"} => Len(offered) = 0 /\ down = offered
  /\ \/ down = offered
     \/ /\ chained /\ Len(offered) = Len(down) + 1
        /\ \A i \in 1 .. Len(down) : down[i] = offered[1 + i]

\* A sequence without its first element ends it.
LEMMA TailIsSuffix ==
  ASSUME NEW s, NEW t, IsSeq(s), IsSeq(t),
         s = t \/ (Len(t) = Len(s) + 1 /\ \A i \in 1 .. Len(s) : s[i] = t[1 + i])
  PROVE  IsSuffix(s, t)
<1>0. Len(s) \in Nat /\ Len(t) \in Nat /\ Len(s) <= Len(t)
  BY DEF IsSeq
<1>1. ASSUME NEW i \in 1 .. Len(s) PROVE s[Len(s) - i + 1] = t[Len(t) - i + 1]
  <2>1. CASE s = t
    BY <2>1
  <2>2. CASE Len(t) = Len(s) + 1 /\ \A j \in 1 .. Len(s) : s[j] = t[1 + j]
    <3> DEFINE j == Len(s) - i + 1
    <3>1. j \in 1 .. Len(s) /\ 1 + j = Len(t) - i + 1
      BY <1>0, <2>2
    <3> HIDE DEF j
    <3>2. s[j] = t[1 + j]
      BY <2>2, <3>1
    <3> QED BY <3>1, <3>2 DEF j
  <2> QED BY <2>1, <2>2
<1>2. ASSUME NEW u, IsSeq(u), NEW n \in 0 .. Len(u)
      PROVE  /\ IsSeq(SubSeq(Reverse(u), 1, n)) /\ Len(SubSeq(Reverse(u), 1, n)) = n
             /\ \A i \in 1 .. n : SubSeq(Reverse(u), 1, n)[i] = u[Len(u) - i + 1]
             /\ Len(Reverse(u)) = Len(u)
  <2>1. Len(u) \in Nat
    BY <1>2 DEF IsSeq
  <2>2. Reverse(u) = [i \in 1 .. Len(u) |-> Reverse(u)[i]] /\ \A i \in 1 .. Len(u) : Reverse(u)[i] = u[Len(u) - i + 1]
    BY DEF Reverse
  <2>3. PICK v : v = Reverse(u)
    OBVIOUS
  <2>4. IsSeq(v) /\ Len(v) = Len(u)
    BY <2>1, <2>2, <2>3, SomeSeq
  <2>5. IsSeq(Upto(v, n)) /\ Len(Upto(v, n)) = n /\ \A i \in 1 .. n : Upto(v, n)[i] = v[i]
    BY <2>4, PartsAreSeqs
  <2>6. \A i \in 1 .. n : i \in 1 .. Len(u)
    BY <2>1
  <2> QED BY <2>2, <2>3, <2>4, <2>5, <2>6 DEF Upto
<1>3. Len(s) \in 0 .. Len(s) /\ Len(s) \in 0 .. Len(t)
  BY <1>0
<1>4. SubSeq(Reverse(s), 1, Len(s)) = SubSeq(Reverse(t), 1, Len(s))
  <2>1. PICK v : v = SubSeq(Reverse(s), 1, Len(s))
    OBVIOUS
  <2>2. PICK w : w = SubSeq(Reverse(t), 1, Len(s))
    OBVIOUS
  <2>3. IsSeq(v) /\ Len(v) = Len(s) /\ \A i \in 1 .. Len(s) : v[i] = s[Len(s) - i + 1]
    BY <1>2, <1>3, <2>1
  <2>4. IsSeq(w) /\ Len(w) = Len(s) /\ \A i \in 1 .. Len(s) : w[i] = t[Len(t) - i + 1]
    BY <1>2, <1>3, <2>2
  <2>5. v = w
    BY <1>1, <2>3, <2>4, SameSeq
  <2> QED BY <2>1, <2>2, <2>5
<1>5. Len(Reverse(s)) = Len(s) /\ Len(Reverse(t)) = Len(t)
  BY <1>2, <1>3
<1> QED BY <1>0, <1>4, <1>5 DEF IsSuffix, IsPrefix

LEMMA DownInit == Init => DownInv
<1> SUFFICES ASSUME Init PROVE DownInv
  OBVIOUS
<1>1. offered = << >> /\ down = << >>
  BY DEF Init
<1>2. IsSeq(offered) /\ Len(offered) = 0
  BY <1>1, EmptyIsStream
<1> QED BY <1>1, <1>2 DEF DownInv

LEMMA DownStep == DownInv /\ [Next]_vars => DownInv'
<1> SUFFICES ASSUME DownInv, [Next]_vars PROVE DownInv'
  OBVIOUS
<1> USE DEF DownInv
<1>1. CASE UNCHANGED << offered, down, chained >> /\ (pc' \in {"connect", "relay_dial"} => pc \in {"connect", "relay_dial"})
  BY <1>1
<1>2. CASE RelayDial
  <2>1. pc = "relay_dial" /\ pc' \notin {"connect", "relay_dial"} /\ UNCHANGED << offered, down >>
    BY <1>2 DEF RelayDial
  <2> QED BY <2>1
<1>3. CASE RelayDown
  <2>1. PICK tok : /\ offered' = Append(offered, tok) /\ UNCHANGED << chained, pc >> /\ pc = "relay"
                   /\ \/ down' = Append(down, tok)
                      \/ chained /\ offered = << >> /\ down' = down
    BY <1>3 DEF RelayDown
  <2>2. ASSUME NEW s, IsSeq(s)
        PROVE  /\ IsSeq(Append(s, tok)) /\ Len(Append(s, tok)) = Len(s) + 1 /\ Append(s, tok)[Len(s) + 1] = tok
               /\ \A i \in 1 .. Len(s) : Append(s, tok)[i] = s[i]
               /\ Len(s) \in Nat
    <3>1. PICK S : s \in Seq(S)
      BY <2>2 DEF IsSeq
    <3>2. s \in Seq(S \cup {tok}) /\ tok \in S \cup {tok}
      BY <3>1
    <3>3. Append(s, tok) \in Seq(S \cup {tok})
      BY <3>2
    <3> QED BY <3>2, <3>3 DEF IsSeq
  <2>3. CASE down = offered /\ down' = Append(down, tok)
    BY <2>1, <2>2, <2>3
  <2>4. CASE chained /\ offered = << >> /\ down' = down
    <3>1. Len(offered) = 0
      BY <2>4, EmptyIsStream
    <3>2. CASE down = offered
      <4>0. IsSeq(offered) /\ Len(offered) + 1 = 1
        BY <3>1
      <4>1. IsSeq(offered') /\ Len(offered') = 1
        <5>1. IsSeq(Append(offered, tok)) /\ Len(Append(offered, tok)) = Len(offered) + 1
          BY <2>2, <4>0
        <5> QED BY <2>1, <4>0, <5>1
      <4>2. Len(down') = 0 /\ IsSeq(down')
        BY <2>4, <3>1, <3>2
      <4>3. \A i \in 1 .. Len(down') : down'[i] = offered'[1 + i]
        BY <4>2
      <4> QED BY <2>1, <2>4, <4>1, <4>2, <4>3
    <3>3. CASE Len(offered) = Len(down) + 1
      <4>1. Len(down) \in Nat
        BY DEF IsSeq
      <4> QED BY <3>1, <3>3, <4>1
    <3> QED BY <3>2, <3>3
  <2>5. CASE /\ chained /\ Len(offered) = Len(down) + 1
             /\ \A i \in 1 .. Len(down) : down[i] = offered[1 + i]
             /\ down' = Append(down, tok)
    <3>1. /\ IsSeq(offered') /\ IsSeq(down') /\ Len(offered') = Len(down') + 1 /\ Len(down') = Len(down) + 1
          /\ Len(down) \in Nat
      BY <2>1, <2>2, <2>5
    <3>2. ASSUME NEW i \in 1 .. Len(down') PROVE down'[i] = offered'[1 + i]
      <4>1. CASE i \in 1 .. Len(down)
        <5>1. 1 + i \in 1 .. Len(offered)
          BY <2>5, <3>1, <4>1
        <5> QED BY <2>1, <2>2, <2>5, <4>1, <5>1
      <4>2. CASE i = Len(down) + 1
        <5>1. 1 + i = Len(offered) + 1
          BY <2>5, <3>1, <4>2
        <5> QED BY <2>1, <2>2, <2>5, <4>2, <5>1
      <4> QED BY <3>1, <4>1, <4>2
    <3> QED BY <2>1, <2>5, <3>1, <3>2
  <2> QED BY <2>1, <2>3, <2>4, <2>5
<1>4. CASE handle_connection \/ RelayUp \/ RelayEnds \/ DialFails \/ ReadRequest
  BY <1>1, <1>4 DEF handle_connection, RelayUp, RelayEnds, DialFails, ReadRequest, tunnel
<1>5. CASE ScanRequest \/ Refuse \/ Send \/ ReadReply \/ Respond
  BY <1>1, <1>5 DEF ScanRequest, Refuse, Send, ReadReply, Respond, tunnel
<1>6. CASE ClientSends \/ ClientCloses \/ UpstreamAnswers \/ UpstreamCloses \/ ChangePolicy
  BY <1>1, <1>6 DEF ClientSends, ClientCloses, UpstreamAnswers, UpstreamCloses, ChangePolicy, tunnel
<1>7. CASE UNCHANGED vars
  BY <1>1, <1>7 DEF vars
<1> QED BY <1>2, <1>3, <1>4, <1>5, <1>6, <1>7 DEF Next, Proxy

LEMMA DownIsSuffix == DownInv => down = offered \/ (chained /\ IsSuffix(down, offered))
  BY TailIsSuffix DEF DownInv

-----------------------------------------------------------------------------
(* Requests as they were sent *)

\* The read that a header x calls for.
HeadLeadsTo(r, x, id, rest, eof) ==
  /\ \A n : x = Length(n) => r = read_exact_body(HttpMessage(id, {Length(n)}, << >>), n, rest, eof)
  /\ x = Chunked => r = read_chunked_body(HttpMessage(id, {Chunked}, << >>), rest, eof)

\* A head of a start, one header and perhaps a blank line decides the read.
LEMMA HeadDecides ==
  ASSUME NEW in, NEW h \in {2, 3}, NEW head, NEW id, IsHead(head, in, h, id), h = 3 => in[3] = Blank,
         NEW rest, NEW eof, NEW open
  PROVE  HeadLeadsTo(HeadRead(head, rest, eof, open), in[2], id, rest, eof)
<1>1. /\ DOMAIN head = 1 .. h /\ head[1].t = "start" /\ head[1].start_line = id /\ head[2] = in[2]
      /\ h = 3 => head[3].t = "blank"
  BY TokenTypes DEF IsHead
<1>2. ASSUME in[2].t \in {"length", "chunked"}
      PROVE  Of(head, {"length", "chunked"}) = {2} /\ {head[i] : i \in Of(head, {"length", "chunked"})} = {in[2]}
  <2>1. Of(head, {"length", "chunked"}) = {2}
    BY <1>1, <1>2 DEF Of
  <2> QED BY <1>1, <2>1
<1>3. ASSUME NEW n, in[2] = Length(n)
      PROVE  HeadRead(head, rest, eof, open) = read_exact_body(HttpMessage(id, {Length(n)}, << >>), n, rest, eof)
  <2>1. in[2].t = "length" /\ in[2].n = n /\ Chunked \notin {Length(n)}
    BY <1>3, TokenTypes
  <2>2. Of(head, {"length"}) = {2}
    BY <1>1, <2>1 DEF Of
  <2>3. First({2}) = 2
    BY DEF First
  <2>4. {head[i] : i \in Of(head, {"length", "chunked"})} = {Length(n)}
    BY <1>2, <1>3, <2>1
  <2> QED BY HeadStart, <1>1, <2>1, <2>2, <2>3, <2>4 DEF HeadRead
<1>4. ASSUME in[2] = Chunked
      PROVE  HeadRead(head, rest, eof, open) = read_chunked_body(HttpMessage(id, {Chunked}, << >>), rest, eof)
  <2>1. in[2].t = "chunked"
    BY <1>4, TokenTypes
  <2>2. {head[i] : i \in Of(head, {"length", "chunked"})} = {Chunked}
    BY <1>2, <1>4, <2>1
  <2> QED BY HeadStart, <1>1, <2>2 DEF HeadRead
<1> QED BY <1>3, <1>4 DEF HeadLeadsTo

\* A request that the client announces, with a body within the limit if it
\* comes with its length.
IsRequest(m) ==
  /\ IsFramed(m)
  /\ m.framing = "none" => m.body = << >>
  /\ m.framing = "length" => Len(m.body) <= MAX_BODY

\* A stream that begins with a request, and one that is a part of it.
BeginsWith(in, m) ==
  Len(in) >= Len(Framed(m)) /\ \A i \in 1 .. Len(Framed(m)) : in[i] = Framed(m)[i]
IsCutOff(in, m) ==
  Len(in) < Len(Framed(m)) /\ \A i \in 1 .. Len(in) : in[i] = Framed(m)[i]

\* How a request is read: not to the end of the connection; and when that has come.
ForRequest(open) == open = FALSE
AtEnd(eof) == eof = TRUE

\* A request that has arrived whole is read whole, or not at all.
LEMMA WholeIsRead ==
  ASSUME NEW m, IsRequest(m), NEW in, IsSeq(in), NEW eof, NEW open, ForRequest(open), BeginsWith(in, m),
         read_message(in, eof, open).is = "message"
  PROVE  \E headers :
           read_message(in, eof, open) = Got(HttpMessage(m.start_line, headers, m.body), Behind(in, Len(Framed(m))))
<1>1. PICK w : w = Framed(m)
  OBVIOUS
<1>w. Len(in) >= Len(w) /\ \A i \in 1 .. Len(w) : in[i] = w[i]
  BY <1>1 DEF BeginsWith
<1>2. PICK b : b = m.body
  OBVIOUS
<1>3. IsSeq(b) /\ Len(b) \in Nat /\ w[1] = Start(m.start_line)
  BY <1>1, <1>2, FramedIs DEF IsRequest, IsFrame
<1>4. CASE m.framing = "length"
  <2>1. /\ Len(w) = 3 + Len(b) /\ w[2] = Length(Len(b)) /\ w[3] = Blank
        /\ \A i \in 1 .. Len(b) : w[3 + i] = Data(b[i])
    BY <1>1, <1>2, <1>4, FramedIs DEF IsRequest, IsFrame
  <2>2. in[1] = Start(m.start_line) /\ in[2] = Length(Len(b)) /\ in[3] = Blank /\ Len(in) >= 3 + Len(b)
    BY <1>w, <1>3, <2>1
  <2>3. ASSUME NEW i \in 1 .. Len(b) PROVE in[3 + i] = Data(b[i])
    <3>1. 3 + i \in 1 .. Len(w)
      BY <1>3, <2>1
    <3> QED BY <1>w, <2>1, <3>1
  <2>4. Len(b) <= MAX_BODY
    BY <1>2, <1>4 DEF IsRequest
  <2>5. read_message(in, eof, open) = Got(HttpMessage(m.start_line, {Length(Len(b))}, b), Behind(in, 3 + Len(b)))
    BY <1>3, <2>2, <2>3, <2>4, LengthRead
  <2> QED BY <1>1, <1>2, <2>1, <2>5
<1>5. CASE m.framing = "chunked"
  <2>1. /\ Len(w) = 4 + Len(b) /\ w[2] = Chunked /\ w[3] = Blank /\ w[4 + Len(b)] = Zero
        /\ \A i \in 1 .. Len(b) : w[3 + i] = Chunk(b[i])
    BY <1>1, <1>2, <1>5, FramedIs DEF IsRequest, IsFrame
  <2>2. /\ in[1] = Start(m.start_line) /\ in[2] = Chunked /\ in[3] = Blank /\ in[4 + Len(b)] = Zero
        /\ Len(in) >= 4 + Len(b)
    BY <1>w, <1>3, <2>1
  <2>3. ASSUME NEW i \in 1 .. Len(b) PROVE in[3 + i] = Chunk(b[i])
    <3>1. 3 + i \in 1 .. Len(w)
      BY <1>3, <2>1
    <3> QED BY <1>w, <2>1, <3>1
  <2>4. read_message(in, eof, open) \in {Err, Got(HttpMessage(m.start_line, {Chunked}, b), Behind(in, 4 + Len(b)))}
    BY <1>3, <2>2, <2>3, ChunkedRead
  <2>5. read_message(in, eof, open) # Err
    <3>1. read_message(in, eof, open).is = "message" /\ Err.is = "error"
      BY DEF Err
    <3> QED BY <3>1
  <2> QED BY <1>1, <1>2, <2>1, <2>4, <2>5
<1>6. CASE m.framing = "none"
  <2>1. Len(w) = 2 + Len(b) /\ w[2] = Blank
    BY <1>1, <1>2, <1>6, FramedIs DEF IsRequest, IsFrame
  <2>2. b = << >> /\ Len(b) = 0
    BY <1>2, <1>6, EmptyIsStream DEF IsRequest
  <2>3. in[1] = Start(m.start_line) /\ in[2] = Blank /\ Len(in) >= 2
    BY <1>w, <1>3, <2>1, <2>2
  <2>4. read_message(in, eof, open) = Got(HttpMessage(m.start_line, {}, << >>), Behind(in, 2))
    BY <2>3, BareRead DEF ForRequest
  <2>5. Len(w) = 2
    BY <2>1, <2>2
  <2> QED BY <1>1, <1>2, <2>2, <2>4, <2>5
<1> QED BY <1>4, <1>5, <1>6 DEF IsRequest, IsFramed

LEMMA OneOrMore ==
  ASSUME NEW l \in Nat
  PROVE  (l >= 1 => l = 1 \/ l >= 2) /\ (l >= 2 => l = 2 \/ l >= 3)
  OBVIOUS

\* A read of a head alone.
IsBare(g, m) == \E headers : g = Got(HttpMessage(m.start_line, headers, << >>), << >>)

\* Of a request that was cut off no more is taken than its head: not one unit
\* of its body.
LEMMA CutIsBare ==
  ASSUME NEW m, IsRequest(m), NEW in, IsSeq(in), NEW eof, AtEnd(eof), NEW open, ForRequest(open), IsCutOff(in, m),
         read_message(in, eof, open).is = "message"
  PROVE  IsBare(read_message(in, eof, open), m)
<1>0. PICK r : r = read_message(in, eof, open)
  OBVIOUS
<1>r. r.is = "message" /\ Err.is # "message" /\ Closed.is # "message"
  BY <1>0 DEF Err, Closed
<1>1. PICK w : w = Framed(m)
  OBVIOUS
<1>w. Len(in) < Len(w) /\ \A i \in 1 .. Len(in) : in[i] = w[i]
  BY <1>1 DEF IsCutOff
<1>2. PICK b : b = m.body
  OBVIOUS
<1>3. IsSeq(b) /\ Len(b) \in Nat /\ w[1] = Start(m.start_line) /\ IsSeq(w) /\ Len(in) \in Nat
  BY <1>1, <1>2, FramedIs DEF IsRequest, IsFrame, IsSeq
<1>4. Len(in) >= 1
  <2>1. Len(in) # 0
    <3> SUFFICES ASSUME Len(in) = 0 PROVE FALSE
      OBVIOUS
    <3>1. in = << >>
      <4>1. PICK S : in \in Seq(S)
        BY DEF IsSeq
      <4> QED BY <4>1
    <3>2. r = Closed
      BY <1>0, <3>1 DEF read_message, AtEnd
    <3> QED BY <1>r, <3>2
  <2> QED BY <1>3, <2>1
<1>5. in[1] = Start(m.start_line) /\ in[1].t \notin {"blank", "break"} /\ DOMAIN in = 1 .. Len(in)
  BY <1>w, <1>3, <1>4, TokenTypes DEF IsSeq
<1>e. ASSUME NEW n, n = Len(in) PROVE Behind(in, n) = << >>
  <2>1. PICK S : in \in Seq(S)
    BY DEF IsSeq
  <2> QED BY <1>e, <1>3, <2>1 DEF Behind
<1>6. CASE Len(in) = 1
  <2>1. HeadEnd(in, eof) = 1
    BY <1>5, <1>6 DEF HeadEnd, AtEnd
  <2>2. PICK head : IsHead(head, in, 1, m.start_line) /\ r = HeadRead(head, Behind(in, 1), eof, open)
    <3>1. PICK k : k = 1
      OBVIOUS
    <3>2. in[1] = Start(m.start_line) /\ k \in 1 .. Len(in) /\ HeadEnd(in, eof) = k
      BY <1>5, <1>6, <2>1, <3>1
    <3>3. \E head : IsHead(head, in, k, m.start_line) /\ read_message(in, eof, open) = HeadRead(head, Behind(in, k), eof, open)
      BY <3>2, HeadOf
    <3> QED BY <1>0, <3>1, <3>3
  <2>3. Of(head, {"length", "chunked"}) = {} /\ Of(head, {"length"}) = {} /\ head[1].t = "start" /\ head[1].start_line = m.start_line
    BY <2>2 DEF IsHead, Of
  <2>4. r = Got(HttpMessage(m.start_line, {}, << >>), Behind(in, 1))
    BY HeadStart, <2>2, <2>3 DEF HeadRead, ForRequest
  <2>5. Behind(in, 1) = << >>
    BY <1>6, <1>e
  <2> QED BY <1>0, <2>4, <2>5 DEF IsBare
<1>7. CASE Len(in) >= 2
  <2>1. m.framing # "none"
    <3> SUFFICES ASSUME m.framing = "none" PROVE FALSE
      OBVIOUS
    <3>1. Len(w) = 2 + Len(b)
      BY <1>1, <1>2, FramedIs DEF IsRequest, IsFrame
    <3>2. Len(b) = 0
      BY <1>2, EmptyIsStream DEF IsRequest
    <3> QED BY <1>w, <1>7, <3>1, <3>2
  <2>2. PICK x : x = w[2]
    OBVIOUS
  <2>3. x.t \notin {"blank", "break"} /\ in[2] = x /\ (Len(in) >= 3 => in[3] = Blank)
    <3>1. w[3] = Blank /\ w[2].t \notin {"blank", "break"}
      BY <1>1, <1>2, <2>1, FramedIs, TokenTypes DEF IsRequest, IsFramed, IsFrame
    <3> QED BY <1>w, <1>3, <1>7, <2>2, <3>1
  <2>4. PICK h : h = IF Len(in) >= 3 THEN 3 ELSE 2
    OBVIOUS
  <2>5. h \in {2, 3} /\ h \in 1 .. Len(in) /\ h \in 0 .. Len(in) /\ (h = 3 => in[3] = Blank) /\ (h = 2 => Len(in) = 2)
    <3>1. CASE Len(in) >= 3
      <4>1. h = 3 /\ in[3] = Blank
        BY <2>3, <2>4, <3>1
      <4>2. 3 \in 1 .. Len(in) /\ 3 \in 0 .. Len(in)
        BY <1>3, <3>1
      <4> QED BY <4>1, <4>2
    <3>2. CASE ~ (Len(in) >= 3)
      <4>1. h = 2 /\ Len(in) = 2
        <5>1. PICK l \in Nat : l = Len(in)
          BY <1>3
        <5>2. l = 2
          BY <1>7, <3>2, <5>1, OneOrMore
        <5> QED BY <2>4, <3>2, <5>1, <5>2
      <4>2. 2 \in 1 .. Len(in) /\ 2 \in 0 .. Len(in)
        BY <4>1
      <4> QED BY <4>1, <4>2
    <3> QED BY <3>1, <3>2
  <2>6. HeadEnd(in, eof) = h
    <3>1. CASE h = 3
      <4>1. in[3].t \in {"blank", "break"} /\ \A j \in 1 .. (3 - 1) : in[j].t \notin {"blank", "break"}
        BY <1>5, <2>3, <2>5, <3>1, TokenTypes
      <4> QED BY <2>5, <3>1, <4>1, HeadEndIs
    <3>2. CASE h = 2
      <4>0. DOMAIN in = 1 .. 2 /\ in[2].t \notin {"blank", "break"}
        BY <1>5, <2>3, <2>5, <3>2
      <4>1. \A j \in DOMAIN in : in[j].t \notin {"blank", "break"}
        <5> TAKE j \in DOMAIN in
        <5>1. j = 1 \/ j = 2
          BY <4>0
        <5> QED BY <1>5, <4>0, <5>1
      <4> QED BY <2>5, <3>2, <4>1 DEF HeadEnd, AtEnd
    <3> QED BY <2>5, <3>1, <3>2
  <2>7. PICK rest : rest = Behind(in, h)
    OBVIOUS
  <2>8. PICK head : IsHead(head, in, h, m.start_line) /\ r = HeadRead(head, rest, eof, open)
    <3>1. in[1] = Start(m.start_line) /\ h \in 1 .. Len(in) /\ HeadEnd(in, eof) = h
      BY <1>5, <2>5, <2>6
    <3>2. \E head : IsHead(head, in, h, m.start_line) /\ read_message(in, eof, open) = HeadRead(head, Behind(in, h), eof, open)
      BY <3>1, HeadOf
    <3> QED BY <1>0, <2>7, <3>2
  <2>13. HeadLeadsTo(r, in[2], m.start_line, rest, eof)
    <3>1. HeadLeadsTo(HeadRead(head, rest, eof, open), in[2], m.start_line, rest, eof)
      BY <2>5, <2>8, HeadDecides
    <3> QED BY <2>8, <3>1
  <2>9. IsSeq(rest) /\ Len(rest) = Len(in) - h /\ \A i \in 1 .. (Len(in) - h) : rest[i] = in[h + i]
    BY <2>5, <2>7, PartsAreSeqs
  <2>10. CASE m.framing = "length"
    <3>1. PICK n : n = Len(b)
      OBVIOUS
    <3>2. x = Length(n) /\ Len(w) = 3 + n /\ n <= MAX_BODY /\ n \in Nat
      BY <1>1, <1>2, <1>3, <2>2, <2>10, <3>1, FramedIs DEF IsRequest, IsFrame
    <3>3. PICK g : g = HttpMessage(m.start_line, {Length(n)}, << >>)
      OBVIOUS
    <3>4. r = read_exact_body(g, n, rest, eof)
      BY <2>3, <2>13, <3>2, <3>3 DEF HeadLeadsTo
    <3>5. n <= Len(rest)
      <4> SUFFICES ASSUME ~ (n <= Len(rest)) PROVE FALSE
        OBVIOUS
      <4>1. ~ (n > MAX_BODY) /\ n > Len(rest)
        BY <1>3, <2>5, <2>9, <3>2, BodyAssumption
      <4>2. r = Err
        BY <3>4, <4>1 DEF read_exact_body, Short, AtEnd
      <4> QED BY <1>r, <4>2
    <3>6. h = 2 /\ n = 0 /\ Len(rest) = 0
      BY <1>w, <1>3, <2>5, <2>9, <3>2, <3>5
    <3>7. rest = << >>
      <4>1. PICK S : rest \in Seq(S)
        BY <2>9 DEF IsSeq
      <4> QED BY <3>6, <4>1
    <3>8. PICK u : u = Units(Upto(rest, 0))
      OBVIOUS
    <3>9. u = << >>
      <4>1. IsSeq(Upto(rest, 0)) /\ Len(Upto(rest, 0)) = 0
        BY <2>9, <3>6, PartsAreSeqs
      <4>2. IsSeq(u) /\ Len(u) = 0
        BY <3>8, <4>1, UnitsOf
      <4>3. PICK S : u \in Seq(S)
        BY <4>2 DEF IsSeq
      <4> QED BY <4>2, <4>3
    <3>10. r = Got([g EXCEPT !.body = u], Behind(rest, 0))
      <4>1. ~ (0 > MAX_BODY) /\ ~ (0 > Len(rest))
        BY <3>6, BodyAssumption
      <4> QED BY <3>4, <3>6, <3>8, <4>1 DEF read_exact_body
    <3>11. [g EXCEPT !.body = u] = HttpMessage(m.start_line, {Length(n)}, << >>)
      BY <3>3, <3>9, BodyOf
    <3>12. Behind(rest, 0) = << >>
      BY <3>7 DEF Behind
    <3> QED BY <1>0, <3>10, <3>11, <3>12 DEF IsBare
  <2>11. CASE m.framing = "chunked"
    <3>2. /\ x = Chunked /\ Len(w) = 4 + Len(b) /\ \A i \in 1 .. Len(b) : w[3 + i] = Chunk(b[i])
      BY <1>1, <1>2, <1>3, <2>2, <2>11, FramedIs DEF IsRequest, IsFrame
    <3>3. PICK g : g = HttpMessage(m.start_line, {Chunked}, << >>)
      OBVIOUS
    <3>4. r = read_chunked_body(g, rest, eof)
      BY <2>3, <2>13, <3>2, <3>3 DEF HeadLeadsTo
    <3>5. ASSUME NEW i \in 1 .. Len(rest) PROVE rest[i].t = "chunk"
      <4>1. h = 3 /\ 3 + i \in 1 .. Len(in) /\ i \in 1 .. Len(b)
        BY <1>w, <1>3, <2>5, <2>9, <3>2
      <4>2. rest[i] = Chunk(b[i])
        BY <1>w, <2>9, <3>2, <4>1
      <4> QED BY <4>2, TokenTypes
    <3>6. PICK k : k = Len(rest) + 1
      OBVIOUS
    <3>7. k \in 1 .. (Len(rest) + 1) /\ ~ (k <= Len(rest)) /\ k > Len(rest) /\ \A j \in 1 .. (k - 1) : rest[j].t = "chunk"
      <4>1. Len(rest) \in Nat
        BY <2>9 DEF IsSeq
      <4> QED BY <3>5, <3>6, <4>1
    <3>8. FirstNot(rest, "chunk") = k
      BY <2>9, <3>7, FirstOtherIs
    <3>9. r = Err
      BY <3>4, <3>7, <3>8 DEF read_chunked_body, Short, AtEnd
    <3> QED BY <1>r, <3>9
  <2> QED BY <2>1, <2>10, <2>11 DEF IsRequest, IsFramed
<1>8. Len(in) = 1 \/ Len(in) >= 2
  <2> PICK l \in Nat : l = Len(in)
    BY <1>3
  <2> QED BY <1>4, OneOrMore
<1> QED BY <1>6, <1>7, <1>8

-----------------------------------------------------------------------------
(* The client's requests as one stream of tokens *)

FlatUpTo(q, flat) == flat = [i \in 1 .. Len(q) |-> IF i = 1 THEN q[i] ELSE flat[i - 1] \o q[i]]

\* The recursion of FlattenSeq has a value, and at each position it is a sequence.
LEMMA FlatDefined ==
  ASSUME NEW X, NEW q \in Seq(Seq(X)), Len(q) # 0
  PROVE  \E flat : FlatUpTo(q, flat) /\ flat \in [1 .. Len(q) -> Seq(X)] /\ FlattenSeq(q) = flat[Len(q)]
<1> DEFINE N == Len(q)
           Step == [p \in Seq(X) \X (1 .. N) |-> IF p[2] = 1 THEN q[p[2]] ELSE p[1] \o q[p[2]]]
<1>0. N \in Nat /\ N # 0 /\ (\A i \in 1 .. N : q[i] \in Seq(X)) /\ << >> \in Seq(X)
  OBVIOUS
<1>1. ForwardStep(Step, Seq(X), N)
  <2>1. ASSUME NEW p \in Seq(X) \X (1 .. N) PROVE (IF p[2] = 1 THEN q[p[2]] ELSE p[1] \o q[p[2]]) \in Seq(X)
    BY <1>0
  <2> QED BY <2>1 DEF ForwardStep
<1>2. PICK g : Recurs(g, Seq(X), << >>, N, Step)
  <2> HIDE DEF Step, N
  <2> QED BY <1>0, <1>1, Recursion
<1> DEFINE f == [i \in 1 .. N |-> g[i]]
<1>3. ASSUME NEW i \in 1 .. N
      PROVE  f[i] \in Seq(X) /\ f[i] = IF i = 1 THEN q[i] ELSE f[i - 1] \o q[i]
  <2>1. i - 1 \in 0 .. N /\ i \in 0 .. N
    OBVIOUS
  <2>2. g[i] = Step[<< g[i - 1], i >>] /\ g[i - 1] \in Seq(X) /\ g[i] \in Seq(X)
    <3> HIDE DEF Step
    <3> QED BY <2>1, <1>2 DEF Recurs
  <2>3. << g[i - 1], i >> \in Seq(X) \X (1 .. N)
    BY <2>2
  <2>4. g[i] = IF i = 1 THEN q[i] ELSE g[i - 1] \o q[i]
    BY <2>2, <2>3
  <2>5. i # 1 => i - 1 \in 1 .. N /\ f[i - 1] = g[i - 1]
    OBVIOUS
  <2> QED BY <2>2, <2>4, <2>5
<1>4. FlatUpTo(q, f)
  BY <1>3 DEF FlatUpTo
<1> DEFINE flat == CHOOSE k : FlatUpTo(q, k)
<1>5. FlatUpTo(q, flat)
  BY <1>4
<1>6. FlattenSeq(q) = flat[N]
  BY <1>0 DEF FlattenSeq, FlatUpTo
<1>7. flat \in [1 .. N -> Seq(X)]
  <2> HIDE DEF flat
  <2>0. \A i \in 1 .. N : flat[i] = IF i = 1 THEN q[i] ELSE flat[i - 1] \o q[i]
    BY <1>5 DEF FlatUpTo
  <2> DEFINE T == {n \in 1 .. N : flat[n] \in Seq(X)}
  <2>1. ASSUME NEW n \in 1 .. N, \A k \in 1 .. (n - 1) : k \in T PROVE n \in T
    <3>1. CASE n = 1
      BY <1>0, <2>0, <3>1
    <3>2. CASE n # 1
      <4>1. n - 1 \in 1 .. (n - 1)
        BY <3>2
      <4>2. flat[n - 1] \in Seq(X)
        BY <2>1, <4>1
      <4>3. flat[n] = flat[n - 1] \o q[n] /\ q[n] \in Seq(X)
        BY <1>0, <2>0, <3>2
      <4>4. flat[n - 1] \o q[n] \in Seq(X)
        BY <4>2, <4>3
      <4> QED BY <4>3, <4>4
    <3> QED BY <3>1, <3>2
  <2> HIDE DEF T
  <2>2. \A n \in 1 .. N : n \in T
    <3> HIDE DEF N
    <3> QED BY <1>0, <2>1, AllBefore
  <2>3. \A n \in 1 .. N : flat[n] \in Seq(X)
    BY <2>2 DEF T
  <2> QED BY <1>5, <2>3 DEF FlatUpTo
<1> QED BY <1>5, <1>6, <1>7

\* One more sequence is flattened by joining it to the ones before.
LEMMA FlatMore ==
  ASSUME NEW X, NEW q \in Seq(Seq(X)), NEW e \in Seq(X)
  PROVE  FlattenSeq(q) \in Seq(X) /\ FlattenSeq(Append(q, e)) = FlattenSeq(q) \o e
<1> DEFINE r == Append(q, e)
           N == Len(q)
<1>0. r \in Seq(Seq(X)) /\ Len(r) = N + 1 /\ N \in Nat /\ r[N + 1] = e /\ \A i \in 1 .. N : r[i] = q[i]
  OBVIOUS
<1>1. PICK h : FlatUpTo(r, h) /\ FlattenSeq(r) = h[N + 1]
  <2> HIDE DEF r
  <2>1. Len(r) # 0
    BY <1>0
  <2> QED BY <1>0, <2>1, FlatDefined
<1> HIDE DEF r
<1>2. \A i \in 1 .. (N + 1) : h[i] = IF i = 1 THEN r[i] ELSE h[i - 1] \o r[i]
  BY <1>0, <1>1 DEF FlatUpTo
<1>3. CASE N = 0
  <2>1. q = << >>
    BY <1>3
  <2>2. FlattenSeq(q) = << >>
    BY <1>3, <2>1 DEF FlattenSeq
  <2>3. h[1] = e
    BY <1>0, <1>2, <1>3
  <2> QED BY <1>1, <1>3, <2>2, <2>3 DEF r
<1>4. CASE N # 0
  <2>1. PICK f : FlatUpTo(q, f) /\ f \in [1 .. N -> Seq(X)] /\ FlattenSeq(q) = f[N]
    BY <1>4, FlatDefined
  <2>2. \A i \in 1 .. N : f[i] = IF i = 1 THEN q[i] ELSE f[i - 1] \o q[i]
    BY <2>1 DEF FlatUpTo
  <2> DEFINE T == {n \in 1 .. N : h[n] = f[n]}
  <2>3. ASSUME NEW n \in 1 .. N, \A k \in 1 .. (n - 1) : k \in T PROVE n \in T
    <3>0. n \in 1 .. (N + 1) /\ r[n] = q[n]
      BY <1>0
    <3>1. CASE n = 1
      BY <1>2, <2>2, <3>0, <3>1
    <3>2. CASE n # 1
      <4>1. n - 1 \in 1 .. (n - 1)
        BY <3>2
      <4>2. h[n - 1] = f[n - 1]
        BY <2>3, <4>1
      <4>3. h[n] = h[n - 1] \o r[n] /\ f[n] = f[n - 1] \o q[n]
        BY <1>2, <2>2, <3>0, <3>2
      <4> QED BY <3>0, <4>2, <4>3
    <3> QED BY <3>1, <3>2
  <2> HIDE DEF T
  <2>4. \A n \in 1 .. N : n \in T
    <3> HIDE DEF N
    <3> QED BY <1>0, <2>3, AllBefore
  <2>5. h[N] = f[N]
    BY <1>0, <1>4, <2>4 DEF T
  <2>6. h[N + 1] = h[N] \o e
    <3>1. N + 1 \in 1 .. (N + 1) /\ N + 1 # 1 /\ (N + 1) - 1 = N
      BY <1>0, <1>4
    <3>2. h[N + 1] = h[(N + 1) - 1] \o r[N + 1]
      BY <1>2, <3>1
    <3> QED BY <1>0, <3>1, <3>2
  <2>7. f[N] \in Seq(X)
    <3>1. N \in 1 .. N
      BY <1>0, <1>4
    <3> QED BY <2>1, <3>1
  <2> QED BY <1>1, <2>1, <2>5, <2>6, <2>7 DEF r
<1> QED BY <1>3, <1>4

\* A part of a sequence, from behind a to b.
Slice(w, a, b) == SubSeq(w, a + 1, b)

LEMMA SliceIs ==
  ASSUME NEW w, IsSeq(w), NEW b \in 0 .. Len(w), NEW a \in 0 .. b
  PROVE  /\ IsSeq(Slice(w, a, b)) /\ Len(Slice(w, a, b)) = b - a
         /\ \A i \in 1 .. (b - a) : Slice(w, a, b)[i] = w[a + i]
<1>1. PICK S : w \in Seq(S)
  BY DEF IsSeq
<1>2. Len(w) \in Nat
  BY <1>1
<1>3. Slice(w, a, b) \in Seq(S) /\ Len(Slice(w, a, b)) = b - a
  BY <1>1, <1>2 DEF Slice
<1>4. \A i \in 1 .. (b - a) : Slice(w, a, b)[i] = w[a + i]
  BY <1>1, <1>2 DEF Slice
<1> QED BY <1>3, <1>4 DEF IsSeq

LEMMA SlicesJoin ==
  ASSUME NEW w, IsSeq(w), NEW c \in 0 .. Len(w), NEW b \in 0 .. c, NEW a \in 0 .. b
  PROVE  Slice(w, a, b) \o Slice(w, b, c) = Slice(w, a, c)
<1>0. Len(w) \in Nat
  BY DEF IsSeq
<1>1. PICK s : s = Slice(w, a, b)
  OBVIOUS
<1>2. PICK t : t = Slice(w, b, c)
  OBVIOUS
<1>3. PICK u : u = Slice(w, a, c)
  OBVIOUS
<1>4. IsSeq(s) /\ Len(s) = b - a /\ \A i \in 1 .. (b - a) : s[i] = w[a + i]
  <2>1. b \in 0 .. Len(w)
    BY <1>0
  <2> QED BY <1>1, <2>1, SliceIs
<1>5. IsSeq(t) /\ Len(t) = c - b /\ \A i \in 1 .. (c - b) : t[i] = w[b + i]
  BY <1>2, SliceIs
<1>6. IsSeq(u) /\ Len(u) = c - a /\ \A i \in 1 .. (c - a) : u[i] = w[a + i]
  <2>1. a \in 0 .. c
    BY <1>0
  <2> QED BY <1>3, <2>1, SliceIs
<1>7. PICK v : v = s \o t
  OBVIOUS
<1>8. IsJoin(v, s, t)
  BY <1>4, <1>5, <1>7, JoinedSeqs
<1>9. Len(v) = Len(u) /\ IsSeq(v)
  BY <1>0, <1>4, <1>5, <1>6, <1>8 DEF IsJoin
<1>10. ASSUME NEW i \in 1 .. (c - a) PROVE v[i] = u[i]
  <2>1. CASE i <= b - a
    <3>1. i \in 1 .. (b - a)
      BY <1>0, <2>1
    <3> QED BY <1>4, <1>6, <1>8, <3>1 DEF IsJoin
  <2>2. CASE ~ (i <= b - a)
    <3>1. PICK j : j = i - (b - a)
      OBVIOUS
    <3>2. j \in 1 .. (c - b) /\ (b - a) + j = i /\ b + j = a + i
      BY <1>0, <2>2, <3>1
    <3>3. v[(b - a) + j] = t[j]
      BY <1>4, <1>5, <1>8, <3>2 DEF IsJoin
    <3> QED BY <1>5, <1>6, <3>2, <3>3
  <2> QED BY <2>1, <2>2
<1>11. v = u
  BY <1>6, <1>9, <1>10, SameSeq
<1> QED BY <1>1, <1>2, <1>3, <1>7, <1>11

LEMMA SliceBehind ==
  ASSUME NEW w, IsSeq(w), NEW b \in 0 .. Len(w), NEW a \in 0 .. b, NEW n \in 0 .. (b - a)
  PROVE  Behind(Slice(w, a, b), n) = Slice(w, a + n, b)
<1>0. Len(w) \in Nat
  BY DEF IsSeq
<1>1. PICK s : s = Slice(w, a, b)
  OBVIOUS
<1>2. IsSeq(s) /\ Len(s) = b - a /\ \A i \in 1 .. (b - a) : s[i] = w[a + i]
  BY <1>1, SliceIs
<1>3. PICK t : t = Behind(s, n)
  OBVIOUS
<1>4. IsSeq(t) /\ Len(t) = (b - a) - n /\ \A i \in 1 .. ((b - a) - n) : t[i] = s[n + i]
  <2>1. n \in 0 .. Len(s)
    BY <1>2
  <2>2. IsSeq(t) /\ Len(t) = Len(s) - n /\ \A i \in 1 .. (Len(s) - n) : t[i] = s[n + i]
    BY <1>2, <1>3, <2>1, PartsAreSeqs
  <2> QED BY <1>2, <2>2
<1>5. PICK u : u = Slice(w, a + n, b)
  OBVIOUS
<1>6. IsSeq(u) /\ Len(u) = b - (a + n) /\ \A i \in 1 .. (b - (a + n)) : u[i] = w[(a + n) + i]
  <2>1. a + n \in 0 .. b
    BY <1>0
  <2> QED BY <1>5, <2>1, SliceIs
<1>7. ASSUME NEW i \in 1 .. ((b - a) - n) PROVE t[i] = u[i]
  <2>1. n + i \in 1 .. (b - a) /\ i \in 1 .. (b - (a + n)) /\ a + (n + i) = (a + n) + i
    BY <1>0
  <2> QED BY <1>2, <1>4, <1>6, <2>1
<1>8. Len(t) = Len(u)
  BY <1>0, <1>4, <1>6
<1>9. t = u
  BY <1>4, <1>6, <1>7, <1>8, SameSeq
<1> QED BY <1>1, <1>3, <1>5, <1>9

\* What the client has sent of its script s after n requests, how long that is,
\* and all of it.
Sends(s, n) == FlattenSeq([i \in 1 .. n |-> Framed(s[i])])
Offset(s, n) == Len(Sends(s, n))
Stream(s) == Sends(s, Len(s))

\* One request after another.
LEMMA SendsJoin ==
  ASSUME NEW s \in Scripts
  PROVE  /\ IsSeq(Sends(s, 0)) /\ Len(Sends(s, 0)) = 0
         /\ \A n \in 0 .. (Len(s) - 1) : IsJoin(Sends(s, n + 1), Sends(s, n), Framed(s[n + 1]))
<1>0. Len(s) \in Nat
  <2>1. s \in Seq(Range(s))
    BY ScriptsAssumption DEF IsSequence
  <2> QED BY <2>1
<1>1. \A i \in 1 .. Len(s) : IsSeq(Framed(s[i]))
  BY ScriptsAssumption, FramedIs DEF IsFrame
<1> DEFINE X == UNION {{Framed(s[i])[j] : j \in 1 .. Len(Framed(s[i]))} : i \in 1 .. Len(s)}
<1>2. ASSUME NEW i \in 1 .. Len(s) PROVE Framed(s[i]) \in Seq(X)
  <2>1. PICK f : f = Framed(s[i])
    OBVIOUS
  <2>2. PICK A : f \in Seq(A)
    BY <1>1, <2>1 DEF IsSeq
  <2>3. \A j \in 1 .. Len(f) : f[j] \in X
    BY <2>1
  <2> HIDE DEF X
  <2>4. f \in Seq(X)
    BY <2>2, <2>3
  <2> QED BY <2>1, <2>4
<1> HIDE DEF X
<1> DEFINE q(n) == [i \in 1 .. n |-> Framed(s[i])]
<1>3. ASSUME NEW n \in 0 .. Len(s) PROVE q(n) \in Seq(Seq(X))
  <2>1. \A i \in 1 .. n : Framed(s[i]) \in Seq(X)
    BY <1>0, <1>2
  <2> QED BY <2>1
<1>4. IsSeq(Sends(s, 0)) /\ Len(Sends(s, 0)) = 0
  <2>1. PICK e : e = q(0)
    OBVIOUS
  <2>2. e = << >> /\ Len(e) = 0
    BY <2>1
  <2>3. PICK f : f = Sends(s, 0)
    OBVIOUS
  <2>4. f = << >>
    BY <2>1, <2>2, <2>3 DEF Sends, FlattenSeq
  <2> QED BY <2>3, <2>4, EmptyIsStream
<1>5. ASSUME NEW n \in 0 .. (Len(s) - 1) PROVE IsJoin(Sends(s, n + 1), Sends(s, n), Framed(s[n + 1]))
  <2>1. n \in 0 .. Len(s) /\ n + 1 \in 1 .. Len(s) /\ n \in Nat
    BY <1>0
  <2>2. PICK e : e = Framed(s[n + 1])
    OBVIOUS
  <2>3. q(n) \in Seq(Seq(X)) /\ e \in Seq(X)
    BY <1>2, <1>3, <2>1, <2>2
  <2>4. q(n + 1) = Append(q(n), e)
    <3>1. PICK p : p = q(n)
      OBVIOUS
    <3>2. PICK r : r = q(n + 1)
      OBVIOUS
    <3>3. p \in Seq(Seq(X)) /\ Len(p) = n /\ \A i \in 1 .. n : p[i] = Framed(s[i])
      BY <2>1, <2>3, <3>1
    <3>4. r = [i \in 1 .. (n + 1) |-> Framed(s[i])]
      BY <3>2
    <3>5. PICK a : a = Append(p, e)
      OBVIOUS
    <3>6. IsSeq(a) /\ Len(a) = n + 1 /\ a[n + 1] = e /\ \A i \in 1 .. n : a[i] = p[i]
      <4>1. a \in Seq(Seq(X)) /\ Len(a) = n + 1 /\ a[n + 1] = e /\ \A i \in 1 .. n : a[i] = p[i]
        BY <2>1, <2>3, <3>3, <3>5
      <4> QED BY <4>1 DEF IsSeq
    <3>7. IsSeq(r) /\ Len(r) = n + 1 /\ \A i \in 1 .. (n + 1) : r[i] = Framed(s[i])
      <4>1. r = [i \in 1 .. (n + 1) |-> r[i]] /\ n + 1 \in Nat
        BY <2>1, <3>4
      <4> QED BY <3>4, <4>1, SomeSeq
    <3>8. ASSUME NEW i \in 1 .. (n + 1) PROVE a[i] = r[i]
      <4>1. i \in 1 .. n \/ i = n + 1
        BY <2>1
      <4> QED BY <2>2, <3>3, <3>6, <3>7, <4>1
    <3>9. a = r
      BY <3>6, <3>7, <3>8, SameSeq
    <3> QED BY <3>1, <3>2, <3>5, <3>9
  <2> HIDE DEF q
  <2>5. FlattenSeq(q(n)) \in Seq(X) /\ FlattenSeq(q(n + 1)) = FlattenSeq(q(n)) \o e
    BY <2>3, <2>4, FlatMore
  <2>6. Sends(s, n) \in Seq(X) /\ Sends(s, n + 1) = Sends(s, n) \o e
    BY <2>5 DEF Sends, q
  <2>7. IsSeq(Sends(s, n)) /\ IsSeq(e)
    BY <2>3, <2>6 DEF IsSeq
  <2> QED BY <2>2, <2>6, <2>7, JoinedSeqs
<1> QED BY <1>4, <1>5

\* What has been sent by one request is there by every later one.
IsBeginning(u, w) == IsSeq(u) /\ IsSeq(w) /\ Len(u) <= Len(w) /\ \A i \in 1 .. Len(u) : u[i] = w[i]

LEMMA SendsGrow ==
  ASSUME NEW s \in Scripts, NEW m \in 0 .. Len(s), NEW n \in 0 .. m
  PROVE  IsBeginning(Sends(s, n), Sends(s, m))
<1>0. Len(s) \in Nat
  <2>1. s \in Seq(Range(s))
    BY ScriptsAssumption DEF IsSequence
  <2> QED BY <2>1
<1> DEFINE S == {k \in 0 .. Len(s) : IsSeq(Sends(s, k))}
<1>1. \A k \in 0 .. Len(s) : k \in S
  <2>1. 0 \in S
    BY <1>0, SendsJoin
  <2>2. ASSUME NEW k \in 0 .. (Len(s) - 1), k \in S PROVE k + 1 \in S
    <3>1. IsJoin(Sends(s, k + 1), Sends(s, k), Framed(s[k + 1]))
      BY SendsJoin
    <3>2. IsSeq(Sends(s, k + 1))
      BY <3>1 DEF IsJoin
    <3>3. k + 1 \in 0 .. Len(s)
      BY <1>0
    <3> QED BY <3>2, <3>3
  <2> HIDE DEF S
  <2> QED BY <1>0, <2>1, <2>2, UpTo
<1>2. \A k \in 0 .. Len(s) : IsSeq(Sends(s, k))
  BY <1>1 DEF S
<1> HIDE DEF S
<1> DEFINE T == {k \in 0 .. (m - n) : IsBeginning(Sends(s, n), Sends(s, n + k))}
<1>3. 0 \in T
  <2>1. n \in 0 .. Len(s) /\ n + 0 = n /\ 0 \in 0 .. (m - n)
    BY <1>0
  <2>2. IsSeq(Sends(s, n))
    BY <1>2, <2>1
  <2>3. Len(Sends(s, n)) \in Nat
    BY <2>2 DEF IsSeq
  <2>4. IsBeginning(Sends(s, n), Sends(s, n))
    BY <2>2, <2>3 DEF IsBeginning
  <2> QED BY <2>1, <2>4
<1>4. ASSUME NEW k \in 0 .. ((m - n) - 1), k \in T PROVE k + 1 \in T
  <2>1. n + k \in 0 .. (Len(s) - 1) /\ (n + k) + 1 = n + (k + 1) /\ k + 1 \in 0 .. (m - n)
    BY <1>0
  <2>2. PICK u : u = Sends(s, n)
    OBVIOUS
  <2>3. PICK v : v = Sends(s, n + k)
    OBVIOUS
  <2>4. PICK w : w = Sends(s, n + (k + 1))
    OBVIOUS
  <2>5. PICK f : f = Framed(s[(n + k) + 1])
    OBVIOUS
  <2>6. IsJoin(w, v, f)
    <3>1. IsJoin(Sends(s, (n + k) + 1), Sends(s, n + k), Framed(s[(n + k) + 1]))
      BY <2>1, SendsJoin
    <3> QED BY <2>1, <2>3, <2>4, <2>5, <3>1
  <2>7. IsBeginning(u, v)
    BY <1>4, <2>2, <2>3
  <2>8. IsBeginning(u, w)
    <3>1. Len(u) \in Nat /\ IsSeq(u)
      BY <2>7 DEF IsBeginning, IsSeq
    <3>2. IsSeq(w) /\ Len(u) <= Len(v) /\ Len(v) <= Len(w) /\ Len(v) \in Nat /\ Len(w) \in Nat
      BY <2>6, <2>7 DEF IsBeginning, IsJoin
    <3>3. ASSUME NEW i \in 1 .. Len(u) PROVE u[i] = w[i]
      <4>1. i \in 1 .. Len(v)
        BY <3>1, <3>2
      <4> QED BY <2>6, <2>7, <4>1 DEF IsBeginning, IsJoin
    <3> QED BY <3>1, <3>2, <3>3 DEF IsBeginning
  <2> QED BY <2>1, <2>2, <2>4, <2>8
<1> HIDE DEF T
<1>5. m - n \in T
  <2>1. m - n \in Nat /\ m - n \in 0 .. (m - n)
    BY <1>0
  <2> QED BY <1>3, <1>4, <2>1, UpTo
<1>6. n + (m - n) = m
  BY <1>0
<1> QED BY <1>5, <1>6 DEF T

\* Where the requests are in the stream.
LEMMA Offsets ==
  ASSUME NEW s \in Scripts, NEW m \in 0 .. Len(s), NEW n \in 0 .. m
  PROVE  /\ IsSeq(Stream(s)) /\ Len(Stream(s)) \in Nat
         /\ Offset(s, n) \in 0 .. Offset(s, m) /\ Offset(s, m) \in 0 .. Len(Stream(s))
         /\ Offset(s, 0) = 0 /\ Offset(s, Len(s)) = Len(Stream(s))
         /\ Sends(s, n) = Slice(Stream(s), 0, Offset(s, n))
<1>0. Len(s) \in Nat
  <2>1. s \in Seq(Range(s))
    BY ScriptsAssumption DEF IsSequence
  <2> QED BY <2>1
<1>1. Len(s) \in 0 .. Len(s) /\ n \in 0 .. Len(s)
  BY <1>0
<1>2. PICK u : u = Sends(s, n)
  OBVIOUS
<1>3. PICK v : v = Sends(s, m)
  OBVIOUS
<1>4. PICK w : w = Stream(s)
  OBVIOUS
<1>5. IsBeginning(u, v) /\ IsBeginning(v, w) /\ IsBeginning(u, w)
  BY <1>1, <1>2, <1>3, <1>4, SendsGrow DEF Stream
<1>6. IsSeq(w) /\ Len(w) \in Nat /\ Len(u) \in 0 .. Len(v) /\ Len(v) \in 0 .. Len(w) /\ Len(u) \in 0 .. Len(w)
  BY <1>5 DEF IsBeginning, IsSeq
<1>7. u = Slice(w, 0, Len(u))
  <2>1. PICK t : t = Slice(w, 0, Len(u))
    OBVIOUS
  <2>2. PICK l : l = Len(u)
    OBVIOUS
  <2>3. l \in 0 .. Len(w) /\ 0 \in 0 .. l /\ l \in Nat
    BY <1>6, <2>2
  <2>4. IsSeq(t) /\ Len(t) = l - 0 /\ \A i \in 1 .. (l - 0) : t[i] = w[0 + i]
    BY <1>6, <2>1, <2>2, <2>3, SliceIs
  <2>5. Len(t) = Len(u) /\ \A i \in 1 .. Len(u) : t[i] = w[i]
    BY <2>2, <2>3, <2>4
  <2>6. ASSUME NEW i \in 1 .. Len(u) PROVE u[i] = t[i]
    BY <1>5, <2>5 DEF IsBeginning
  <2>7. u = t
    BY <1>5, <2>4, <2>5, <2>6, SameSeq DEF IsBeginning
  <2> QED BY <2>1, <2>7
<1>8. Offset(s, 0) = 0 /\ Offset(s, Len(s)) = Len(w)
  BY <1>4, SendsJoin DEF Offset, Stream
<1> QED BY <1>2, <1>3, <1>4, <1>6, <1>7, <1>8 DEF Offset

\* The next request is the part of the stream between two of the offsets.
LEMMA FrameInStream ==
  ASSUME NEW s \in Scripts, NEW n \in 0 .. (Len(s) - 1)
  PROVE  /\ Offset(s, n + 1) = Offset(s, n) + Len(Framed(s[n + 1])) /\ Len(Framed(s[n + 1])) \in Nat
         /\ IsSeq(Framed(s[n + 1]))
         /\ \A i \in 1 .. Len(Framed(s[n + 1])) : Stream(s)[Offset(s, n) + i] = Framed(s[n + 1])[i]
<1>0. Len(s) \in Nat
  <2>1. s \in Seq(Range(s))
    BY ScriptsAssumption DEF IsSequence
  <2> QED BY <2>1
<1>1. PICK u : u = Sends(s, n)
  OBVIOUS
<1>2. PICK v : v = Sends(s, n + 1)
  OBVIOUS
<1>3. PICK w : w = Stream(s)
  OBVIOUS
<1>4. PICK f : f = Framed(s[n + 1])
  OBVIOUS
<1>5. IsJoin(v, u, f)
  BY <1>1, <1>2, <1>4, SendsJoin
<1>6. IsBeginning(v, w)
  <2>1. Len(s) \in 0 .. Len(s) /\ n + 1 \in 0 .. Len(s)
    BY <1>0
  <2> QED BY <1>2, <1>3, <2>1, SendsGrow DEF Stream
<1>7. Len(v) = Len(u) + Len(f) /\ Len(u) \in Nat /\ Len(f) \in Nat
  BY <1>5 DEF IsJoin
<1>8. ASSUME NEW i \in 1 .. Len(f) PROVE w[Len(u) + i] = f[i]
  <2>1. Len(u) + i \in 1 .. Len(v)
    BY <1>7
  <2> QED BY <1>5, <1>6, <2>1 DEF IsJoin, IsBeginning
<1>9. IsSeq(f)
  <2>1. n + 1 \in 1 .. Len(s)
    BY <1>0
  <2> QED BY <1>4, <2>1, ScriptsAssumption, FramedIs DEF IsFrame
<1> QED BY <1>1, <1>2, <1>3, <1>4, <1>7, <1>8, <1>9 DEF Offset

LEMMA FrameIsSlice ==
  ASSUME NEW s \in Scripts, NEW n \in 0 .. (Len(s) - 1), NEW k \in 0 .. Len(Framed(s[n + 1]))
  PROVE  /\ Upto(Framed(s[n + 1]), k) = Slice(Stream(s), Offset(s, n), Offset(s, n) + k)
         /\ Framed(s[n + 1]) = Slice(Stream(s), Offset(s, n), Offset(s, n + 1))
<1>0. Len(s) \in Nat
  <2>1. s \in Seq(Range(s))
    BY ScriptsAssumption DEF IsSequence
  <2> QED BY <2>1
<1>1. PICK f : f = Framed(s[n + 1])
  OBVIOUS
<1>2. PICK w : w = Stream(s)
  OBVIOUS
<1>3. PICK o : o = Offset(s, n)
  OBVIOUS
<1>4. /\ Offset(s, n + 1) = o + Len(f) /\ Len(f) \in Nat /\ IsSeq(f)
      /\ \A i \in 1 .. Len(f) : w[o + i] = f[i]
  BY <1>1, <1>2, <1>3, FrameInStream
<1>5. IsSeq(w) /\ Len(w) \in Nat /\ o \in Nat /\ o + Len(f) \in 0 .. Len(w)
  <2>1. n + 1 \in 0 .. Len(s) /\ n \in 0 .. (n + 1)
    BY <1>0
  <2> QED BY <1>2, <1>3, <1>4, <2>1, Offsets
<1>6. ASSUME NEW j \in 0 .. Len(f) PROVE Upto(f, j) = Slice(w, o, o + j)
  <2>1. PICK u : u = Upto(f, j)
    OBVIOUS
  <2>2. IsSeq(u) /\ Len(u) = j /\ \A i \in 1 .. j : u[i] = f[i]
    BY <1>4, <2>1, PartsAreSeqs
  <2>3. PICK t : t = Slice(w, o, o + j)
    OBVIOUS
  <2>4. PICK b : b = o + j
    OBVIOUS
  <2>5. b \in 0 .. Len(w) /\ o \in 0 .. b /\ b - o = j /\ j \in Nat
    BY <1>4, <1>5, <2>4
  <2>6. IsSeq(t) /\ Len(t) = b - o /\ \A i \in 1 .. (b - o) : t[i] = w[o + i]
    BY <1>5, <2>3, <2>4, <2>5, SliceIs
  <2>7. ASSUME NEW i \in 1 .. j PROVE u[i] = t[i]
    <3>1. i \in 1 .. Len(f) /\ i \in 1 .. (b - o)
      BY <1>4, <2>5
    <3> QED BY <1>4, <2>2, <2>6, <3>1
  <2>8. u = t
    BY <2>2, <2>5, <2>6, <2>7, SameSeq
  <2> QED BY <2>1, <2>3, <2>8
<1>7. f = Upto(f, Len(f)) /\ Len(f) \in 0 .. Len(f)
  <2>1. PICK S : f \in Seq(S)
    BY <1>4 DEF IsSeq
  <2> QED BY <2>1 DEF Upto
<1>8. f = Slice(w, o, o + Len(f))
  BY <1>6, <1>7
<1> QED BY <1>1, <1>2, <1>3, <1>4, <1>6, <1>8

-----------------------------------------------------------------------------
(* What a read takes off the stream *)

\* No request of a script is larger than the limit (WithinLimit).
Limited(s) == \A i \in 1 .. Len(s) : s[i].framing = "length" => Len(s[i].body) <= MAX_BODY

LEMMA ScriptIs ==
  ASSUME NEW s \in Scripts
  PROVE  /\ IsSeq(s) /\ Len(s) \in Nat /\ DOMAIN s = 1 .. Len(s)
         /\ Limited(s) => \A i \in 1 .. Len(s) : IsRequest(s[i])
<1>1. s \in Seq(Range(s))
  BY ScriptsAssumption DEF IsSequence
<1>2. \A i \in 1 .. Len(s) : IsFramed(s[i]) /\ (s[i].framing = "none" => s[i].body = << >>)
  BY ScriptsAssumption
<1>3. Limited(s) => \A i \in 1 .. Len(s) : IsRequest(s[i])
  BY <1>2 DEF Limited, IsRequest
<1> QED BY <1>1, <1>3 DEF IsSeq

\* The client has sent n of its requests, and of the next one, when it hangs
\* up, a part: the stream up to b.
Arrived(s, n, eof, b) ==
  /\ b \in Offset(s, n) .. Len(Stream(s))
  /\ ~ eof => b = Offset(s, n)
  /\ eof /\ n < Len(s) => b < Offset(s, n + 1)

\* What is left of it when r requests have been read: all behind the r-th, or
\* nothing, when the last one was cut off.
Left(in, s, r, n, b, eof) ==
  \/ r <= n /\ in = Slice(Stream(s), Offset(s, r), b)
  \/ eof /\ in = << >>

\* A request of the script, whole or without its body.
IsOf(m, s, n, eof) ==
  \E i \in DOMAIN s :
    /\ m.start_line = s[i].start_line
    /\ m.body = s[i].body \/ (m.body = << >> /\ eof /\ i > n)

ReadsOn(g, s, r, n, b, eof) ==
  \E m, rest : g = Got(m, rest) /\ IsOf(m, s, n, eof) /\ Left(rest, s, r + 1, n, b, eof)

\* A read takes one request of the script off the stream.
LEMMA ReadsOneRequest ==
  ASSUME NEW s \in Scripts, Limited(s), NEW n \in 0 .. Len(s), NEW r \in Nat, NEW eof \in BOOLEAN,
         NEW b, Arrived(s, n, eof, b), NEW in, Left(in, s, r, n, b, eof), NEW open, ForRequest(open),
         read_message(in, eof, open).is = "message"
  PROVE  ReadsOn(read_message(in, eof, open), s, r, n, b, eof)
<1>0. Len(s) \in Nat /\ DOMAIN s = 1 .. Len(s) /\ \A i \in 1 .. Len(s) : IsRequest(s[i])
  BY ScriptIs
<1>1. PICK g : g = read_message(in, eof, open)
  OBVIOUS
<1>2. g.is = "message"
  BY <1>1
<1>3. in # << >>
  <2> SUFFICES ASSUME in = << >> PROVE FALSE
    OBVIOUS
  <2>1. g \in {Closed, Wait}
    BY <1>1 DEF read_message
  <2> QED BY <1>2, <2>1 DEF Closed, Wait
<1>4. r <= n /\ in = Slice(Stream(s), Offset(s, r), b)
  BY <1>3 DEF Left
<1>5. PICK w : w = Stream(s)
  OBVIOUS
<1>6. PICK o : o = Offset(s, r)
  OBVIOUS
<1>7. /\ IsSeq(w) /\ Len(w) \in Nat /\ o \in 0 .. Offset(s, n) /\ Offset(s, n) \in 0 .. Len(w)
      /\ Offset(s, Len(s)) = Len(w)
  <2>1. r \in 0 .. n
    BY <1>4
  <2> QED BY <1>5, <1>6, <2>1, Offsets
<1>8. b \in 0 .. Len(w) /\ o \in 0 .. b /\ Offset(s, n) <= b
  BY <1>5, <1>7 DEF Arrived
<1>9. IsSeq(in) /\ Len(in) = b - o /\ \A i \in 1 .. (b - o) : in[i] = w[o + i]
  BY <1>4, <1>5, <1>6, <1>7, <1>8, SliceIs, ZenonT(60)
<1>10. b # o
  <2> SUFFICES ASSUME b = o PROVE FALSE
    OBVIOUS
  <2>1. Len(in) = 0
    BY <1>7, <1>8, <1>9
  <2>2. PICK S : in \in Seq(S)
    BY <1>9 DEF IsSeq
  <2> QED BY <1>3, <2>1, <2>2
<1>11. r < Len(s) /\ r \in 0 .. (Len(s) - 1) /\ r + 1 \in 1 .. Len(s)
  <2>1. r # Len(s)
    <3> SUFFICES ASSUME r = Len(s) PROVE FALSE
      OBVIOUS
    <3>1. o = Len(w)
      BY <1>6, <1>7, SMTT(60)
    <3> QED BY <1>8, <1>10, <3>1
  <2>2. PICK l \in Nat : l = Len(s)
    BY <1>0
  <2>3. r <= n /\ n \in 0 .. l /\ r # l
    BY <1>4, <2>1, <2>2
  <2>4. r < l /\ r \in 0 .. (l - 1) /\ r + 1 \in 1 .. l
    BY <2>3
  <2> QED BY <2>2, <2>4
<1>12. PICK m : m = s[r + 1]
  OBVIOUS
<1>13. IsRequest(m) /\ r + 1 \in DOMAIN s
  BY <1>0, <1>11, <1>12
<1>14. PICK f : f = Framed(m)
  OBVIOUS
<1>15. /\ Offset(s, r + 1) = o + Len(f) /\ Len(f) \in Nat
       /\ \A i \in 1 .. Len(f) : w[o + i] = f[i]
  BY <1>5, <1>6, <1>11, <1>12, <1>14, FrameInStream
<1>16. CASE r < n
  <2>1. o + Len(f) <= b
    <3>1. r + 1 \in 0 .. n
      BY <1>16
    <3>2. Offset(s, r + 1) <= Offset(s, n) /\ Offset(s, r + 1) \in Nat
      BY <3>1, Offsets
    <3> QED BY <1>7, <1>8, <1>15, <3>2
  <2>2. BeginsWith(in, m)
    <3>1. Len(in) >= Len(f)
      BY <1>7, <1>8, <1>9, <1>15, <2>1
    <3>2. ASSUME NEW i \in 1 .. Len(f) PROVE in[i] = f[i]
      <4>1. i \in 1 .. (b - o)
        BY <1>7, <1>8, <1>15, <2>1
      <4> QED BY <1>9, <1>15, <4>1
    <3> QED BY <1>14, <3>1, <3>2 DEF BeginsWith
  <2>3. PICK headers : g = Got(HttpMessage(m.start_line, headers, m.body), Behind(in, Len(f)))
    BY <1>1, <1>9, <1>13, <1>14, <2>2, WholeIsRead
  <2>4. Behind(in, Len(f)) = Slice(w, o + Len(f), b)
    <3>1. Len(f) \in 0 .. (b - o)
      BY <1>7, <1>8, <1>15, <2>1
    <3> QED BY <1>4, <1>5, <1>6, <1>7, <1>8, <3>1, SliceBehind
  <2>5. PICK rest : rest = Behind(in, Len(f))
    OBVIOUS
  <2>6. Left(rest, s, r + 1, n, b, eof)
    <3>1. r + 1 <= n
      BY <1>16
    <3> QED BY <1>5, <1>15, <2>4, <2>5, <3>1 DEF Left
  <2>7. PICK k : k = HttpMessage(m.start_line, headers, m.body)
    OBVIOUS
  <2>8. IsOf(k, s, n, eof)
    <3>1. k.start_line = m.start_line /\ k.body = m.body
      BY <2>7, FieldsOf
    <3> QED BY <1>12, <1>13, <3>1 DEF IsOf
  <2> QED BY <1>1, <2>3, <2>5, <2>6, <2>7, <2>8 DEF ReadsOn
<1>17. CASE ~ (r < n)
  <2>1. r = n
    BY <1>4, <1>17
  <2>2. eof /\ AtEnd(eof)
    <3>1. eof
      BY <1>6, <1>10, <2>1 DEF Arrived
    <3> QED BY <3>1 DEF AtEnd
  <2>3. b < o + Len(f)
    BY <1>11, <1>15, <2>1, <2>2 DEF Arrived
  <2>4. IsCutOff(in, m)
    <3>1. Len(in) < Len(f)
      BY <1>7, <1>8, <1>9, <1>15, <2>3
    <3>2. ASSUME NEW i \in 1 .. Len(in) PROVE in[i] = f[i]
      <4>1. i \in 1 .. (b - o) /\ i \in 1 .. Len(f)
        BY <1>7, <1>8, <1>9, <1>15, <3>1
      <4> QED BY <1>9, <1>15, <4>1
    <3> QED BY <1>14, <3>1, <3>2 DEF IsCutOff
  <2>5. PICK headers : g = Got(HttpMessage(m.start_line, headers, << >>), << >>)
    <3>1. AtEnd(eof) /\ IsSeq(in) /\ IsRequest(m)
      BY <1>9, <1>13, <2>2
    <3>2. IsBare(read_message(in, eof, open), m)
      BY <2>4, <3>1, CutIsBare
    <3> QED BY <1>1, <3>2 DEF IsBare
  <2>6. PICK e : e = << >>
    OBVIOUS
  <2>7. PICK k : k = HttpMessage(m.start_line, headers, e)
    OBVIOUS
  <2>8. IsOf(k, s, n, eof)
    <3>1. k.start_line = m.start_line /\ k.body = << >>
      BY <2>6, <2>7, FieldsOf
    <3>2. eof /\ r + 1 > n
      BY <1>4, <2>1, <2>2 DEF AtEnd
    <3> QED BY <1>12, <1>13, <3>1, <3>2 DEF IsOf
  <2>9. Left(e, s, r + 1, n, b, eof)
    BY <2>2, <2>6 DEF Left
  <2> QED BY <1>1, <2>5, <2>6, <2>7, <2>8, <2>9 DEF ReadsOn
<1> QED BY <1>16, <1>17

-----------------------------------------------------------------------------
(* The client sends on *)

\* Some tokens that take a stream from b to c.
Extends(w, b, c, t) == c \in b .. Len(w) /\ t = Slice(w, b, c)

LEMMA WholeSent ==
  ASSUME NEW s \in Scripts, NEW n \in 0 .. (Len(s) - 1), NEW b, b = Offset(s, n), NEW eof, ~ eof,
         NEW c, c = Offset(s, n + 1)
  PROVE  Arrived(s, n + 1, eof, c) /\ Extends(Stream(s), b, c, Framed(s[n + 1]))
<1>1. Len(s) \in Nat
  BY ScriptIs
<1>2. n + 1 \in 0 .. Len(s) /\ n \in 0 .. (n + 1)
  BY <1>1
<1>3. b \in 0 .. c /\ c \in 0 .. Len(Stream(s)) /\ Len(Stream(s)) \in Nat
  BY <1>2, Offsets
<1>4. PICK k : k = 0
  OBVIOUS
<1>5. Framed(s[n + 1]) = Slice(Stream(s), b, c)
  <2>1. k \in 0 .. Len(Framed(s[n + 1]))
    BY <1>4, FrameInStream
  <2> QED BY <2>1, FrameIsSlice
<1> QED BY <1>3, <1>5 DEF Arrived, Extends

LEMMA PartSent ==
  ASSUME NEW s \in Scripts, NEW n \in 0 .. (Len(s) - 1), NEW b, b = Offset(s, n), NEW eof, eof,
         NEW k \in 0 .. (Len(Framed(s[n + 1])) - 1), NEW c, c = b + k
  PROVE  Arrived(s, n, eof, c) /\ Extends(Stream(s), b, c, Upto(Framed(s[n + 1]), k))
<1>1. Len(s) \in Nat
  BY ScriptIs
<1>2. n + 1 \in 0 .. Len(s) /\ n \in 0 .. (n + 1)
  BY <1>1
<1>3. PICK l : l = Len(Framed(s[n + 1]))
  OBVIOUS
<1>4. /\ b \in 0 .. Offset(s, n + 1) /\ Offset(s, n + 1) \in 0 .. Len(Stream(s)) /\ Len(Stream(s)) \in Nat
      /\ Offset(s, n + 1) = b + l /\ l \in Nat
  BY <1>2, <1>3, Offsets, FrameInStream
<1>5. k \in 0 .. l /\ k \in 0 .. (l - 1)
  BY <1>3, <1>4
<1>6. c \in b .. Len(Stream(s)) /\ c < Offset(s, n + 1)
  BY <1>4, <1>5, SMTT(60)
<1>7. Upto(Framed(s[n + 1]), k) = Slice(Stream(s), b, c)
  BY <1>3, <1>5, FrameIsSlice
<1> QED BY <1>6, <1>7 DEF Arrived, Extends

LEMMA LeftExtends ==
  ASSUME NEW s \in Scripts, NEW n \in 0 .. Len(s), NEW b, NEW eof, ~ eof, Arrived(s, n, eof, b),
         NEW r \in Nat, NEW in, Left(in, s, r, n, b, eof),
         NEW m \in n .. Len(s), NEW c, NEW t, Extends(Stream(s), b, c, t), NEW e
  PROVE  Left(in \o t, s, r, m, c, e)
<1>1. r <= n /\ in = Slice(Stream(s), Offset(s, r), b) /\ b = Offset(s, n)
  BY DEF Left, Arrived
<1>2. r \in 0 .. n /\ r <= m
  BY <1>1, ScriptIs
<1>3. /\ IsSeq(Stream(s)) /\ Len(Stream(s)) \in Nat
      /\ Offset(s, r) \in 0 .. b /\ b \in 0 .. Len(Stream(s))
  BY <1>1, <1>2, Offsets
<1>4. c \in 0 .. Len(Stream(s)) /\ b \in 0 .. c /\ t = Slice(Stream(s), b, c)
  BY <1>3 DEF Extends
<1>5. in \o t = Slice(Stream(s), Offset(s, r), c)
  BY <1>1, <1>3, <1>4, SlicesJoin
<1> QED BY <1>2, <1>5 DEF Left

JoinsAlike(u, v, t) == u \o (v \o t) = (u \o v) \o t

LEMMA JoinAssociates ==
  ASSUME NEW u, NEW v, NEW t, IsSeq(u), IsSeq(v), IsSeq(t)
  PROVE  JoinsAlike(u, v, t)
<1>1. PICK A : u \in Seq(A)
  BY DEF IsSeq
<1>2. PICK B : v \in Seq(B)
  BY DEF IsSeq
<1>3. PICK C : t \in Seq(C)
  BY DEF IsSeq
<1>4. u \in Seq(A \cup B \cup C) /\ v \in Seq(A \cup B \cup C) /\ t \in Seq(A \cup B \cup C)
  BY <1>1, <1>2, <1>3
<1> QED BY <1>4 DEF JoinsAlike

\* What has been relayed, u, and what is still to be, v, are the stream up to b.
IsRelay(u, v, w, b) == u \o v = Slice(w, 0, b)

LEMMA RelayedExtends ==
  ASSUME NEW s \in Scripts, NEW n \in 0 .. Len(s), NEW b, NEW eof, ~ eof, Arrived(s, n, eof, b),
         NEW u, NEW v, IsSeq(u), IsSeq(v), IsRelay(u, v, Stream(s), b),
         NEW c, NEW t, Extends(Stream(s), b, c, t)
  PROVE  IsRelay(u, v \o t, Stream(s), c)
<1>1. b = Offset(s, n)
  BY DEF Arrived
<1>2. IsSeq(Stream(s)) /\ Len(Stream(s)) \in Nat /\ b \in 0 .. Len(Stream(s))
  <2>1. n \in 0 .. n
    BY ScriptIs
  <2> QED BY <1>1, <2>1, Offsets
<1>3. c \in 0 .. Len(Stream(s)) /\ b \in 0 .. c /\ 0 \in 0 .. b /\ t = Slice(Stream(s), b, c)
  BY <1>2 DEF Extends
<1>4. IsSeq(t)
  BY <1>2, <1>3, SliceIs
<1>5. (u \o v) \o t = Slice(Stream(s), 0, c)
  <2>1. PICK z : z = 0
    OBVIOUS
  <2>2. Slice(Stream(s), z, b) \o Slice(Stream(s), b, c) = Slice(Stream(s), z, c)
    BY <1>2, <1>3, <2>1, SlicesJoin
  <2> QED BY <1>3, <2>1, <2>2 DEF IsRelay
<1>6. u \o (v \o t) = (u \o v) \o t
  <2>1. JoinsAlike(u, v, t)
    BY <1>4, JoinAssociates
  <2> QED BY <2>1 DEF JoinsAlike
<1> QED BY <1>5, <1>6 DEF IsRelay

\* A request that is forwarded: its first token, and the body it is judged by.
IsForwarded(x, s, n, eof) ==
  \E i \in DOMAIN s :
    /\ x.wire[1] = Start(s[i].start_line)
    /\ \/ x.message.body = s[i].body
       \/ x.message.body = << >> /\ eof /\ i > n
       \/ \E p \in x.policies :
            LET v == inspect(p, AllText(s[i].body))
            IN  v.action = "Redact" /\ x.message.body = << Unit("", "text", v.sanitized) >>

IsRead == {"read", "scan", "refuse", "dial", "await", "answer"}
IsRelayed == {"connect", "relay_dial", "relay"}

\* The position of the tunnel in the stream of its client: up to b has arrived.
\* A relayed tunnel has all of it, an intercepted one what is behind the
\* requests it has read.
Position(b) ==
  /\ Arrived(script, sent, ceof, b)
  /\ pc \in IsRelayed => up \o cin = Slice(Stream(script), 0, b)
  /\ Limited(script) /\ pc \in IsRead => Left(cin, script, reads, sent, b, ceof)

StreamInv ==
  /\ ceof \in BOOLEAN
  /\ IsSeq(up) /\ (pc \in {"connect", "relay_dial"} => up = << >>)
  /\ \E b : Position(b)
  /\ Limited(script) /\ pc \in InExchange => IsOf(req, script, sent, ceof)

LEMMA StreamInit == Init => StreamInv
<1> SUFFICES ASSUME Init PROVE StreamInv
  OBVIOUS
<1>1. /\ ceof = FALSE /\ up = << >> /\ cin = << >> /\ pc = "connect" /\ sent = 0 /\ reads = 0
      /\ script \in Scripts
  BY DEF Init
<1>2. IsSeq(up) /\ Len(up) = 0
  BY <1>1, EmptyIsStream
<1>3. PICK z : z = 0
  OBVIOUS
<1>4. z \in 0 .. Len(script) /\ z \in 0 .. z
  BY <1>1, <1>3, ScriptIs
<1>5. /\ IsSeq(Stream(script)) /\ Len(Stream(script)) \in Nat /\ Offset(script, z) = z
      /\ Sends(script, z) = Slice(Stream(script), 0, Offset(script, z))
  BY <1>1, <1>3, <1>4, Offsets
<1>6. Arrived(script, sent, ceof, z)
  BY <1>1, <1>3, <1>5 DEF Arrived
<1>7. up \o cin = Slice(Stream(script), 0, z)
  <2>1. PICK t : t = Slice(Stream(script), 0, z)
    OBVIOUS
  <2>2. z \in 0 .. Len(Stream(script)) /\ z \in 0 .. z /\ z - z = 0
    BY <1>3, <1>5
  <2>3. IsSeq(t) /\ Len(t) = z - z
    BY <1>3, <1>5, <2>1, <2>2, SliceIs
  <2>4. t = << >>
    <3>1. PICK S : t \in Seq(S)
      BY <2>3 DEF IsSeq
    <3> QED BY <2>2, <2>3, <3>1
  <2>5. up \o cin = << >>
    BY <1>1
  <2> QED BY <2>1, <2>4, <2>5
<1>8. Position(z)
  BY <1>1, <1>6, <1>7 DEF Position, IsRead
<1> QED BY <1>1, <1>2, <1>8 DEF StreamInv, InExchange

\* What the tunnel has taken of the stream.
LEMMA StreamStep ==
  PairInv /\ SentInv /\ SizeInv /\ StreamInv /\ [Next]_vars => StreamInv'
<1> SUFFICES ASSUME PairInv, SentInv, SizeInv, StreamInv, [Next]_vars PROVE StreamInv'
  OBVIOUS
<1>0. /\ script \in Scripts /\ sent \in 0 .. Len(script) /\ reads \in Nat /\ IsSeq(cin) /\ IsSeq(up)
      /\ ceof \in BOOLEAN
  BY DEF PairInv, SentInv, SizeInv, StreamInv, IsStream
<1>b. PICK b : Position(b)
  BY DEF StreamInv
<1>1. CASE UNCHANGED << script, sent, ceof, cin, up, pc, reads, req >>
  BY <1>1, <1>b DEF StreamInv, Position
<1>2. ASSUME UNCHANGED << script, sent, ceof, cin, up, reads >>,
             pc' \in IsRelayed => pc \in IsRelayed,
             pc' \in {"connect", "relay_dial"} => pc \in {"connect", "relay_dial"},
             pc' \in IsRead => pc \in IsRead,
             pc' \in InExchange => pc \in InExchange /\ req' = req
      PROVE  StreamInv'
  <2>1. Position(b)'
    BY <1>2, <1>b DEF Position
  <2> QED BY <1>2, <2>1 DEF StreamInv
<1>3. CASE handle_connection
  <2>1. /\ UNCHANGED << script, sent, ceof, cin, up, reads >>
        /\ pc = "connect" /\ pc' \in {"read", "relay_dial"}
    BY <1>3 DEF handle_connection, world
  <2>2. reads = 0 /\ up = << >>
    BY <2>1 DEF PairInv, StreamInv
  <2>3. Left(cin, script, reads, sent, b, ceof)
    <3>1. up \o cin = cin
      <4>1. PICK S : cin \in Seq(S)
        BY <1>0 DEF IsSeq
      <4> QED BY <2>2, <4>1
    <3>2. cin = Slice(Stream(script), 0, b)
      BY <1>b, <2>1, <3>1 DEF Position, IsRelayed
    <3>3. Offset(script, 0) = 0 /\ reads <= sent
      BY <1>0, <2>2, SendsJoin DEF Offset
    <3> QED BY <2>2, <3>2, <3>3 DEF Left
  <2>4. Position(b)'
    BY <1>b, <2>1, <2>3 DEF Position, IsRelayed
  <2>5. pc' \notin InExchange /\ (pc' \in {"connect", "relay_dial"} => up' = << >>)
    BY <2>1, <2>2 DEF InExchange
  <2> QED BY <1>0, <2>1, <2>4, <2>5 DEF StreamInv
<1>4. CASE RelayDial \/ RelayEnds \/ DialFails
  <2>1. /\ UNCHANGED << script, sent, ceof, cin, up, reads >>
        /\ pc' = "closed" \/ (pc = "relay_dial" /\ pc' = "relay")
    BY <1>4 DEF RelayDial, RelayEnds, DialFails, world, tunnel, exchange
  <2> QED BY <1>2, <2>1 DEF IsRelayed, IsRead, InExchange
<1>5. CASE RelayUp
  <2>1. /\ pc = "relay" /\ up' = up \o cin /\ cin' = << >> /\ UNCHANGED << script, sent, ceof, pc, reads, req >>
    BY <1>5 DEF RelayUp, world
  <2>2. IsSeq(up') /\ up' \o cin' = up'
    <3>1. IsSeq(up')
      BY <1>0, <2>1, JoinedSeqs DEF IsJoin
    <3>2. PICK S : up' \in Seq(S)
      BY <3>1 DEF IsSeq
    <3> QED BY <2>1, <3>1, <3>2
  <2>3. Position(b)'
    BY <1>b, <2>1, <2>2 DEF Position, IsRead, IsRelayed
  <2> QED BY <1>0, <2>1, <2>2, <2>3 DEF StreamInv, InExchange
<1>6. CASE ReadRequest
  <2> DEFINE r == read_message(cin, ceof, FALSE)
  <2>1. UNCHANGED << script, sent, ceof, up >> /\ pc = "read"
    BY <1>6 DEF ReadRequest, world, tunnel
  <2>2. CASE r.is = "message" /\ pc' = "scan" /\ req' = r.message /\ cin' = r.rest /\ reads' = reads + 1
    <3>1. ASSUME Limited(script)
          PROVE  IsOf(req', script, sent, ceof) /\ Left(cin', script, reads + 1, sent, b, ceof)
      <4>1. PICK open : open = FALSE
        OBVIOUS
      <4>2. Left(cin, script, reads, sent, b, ceof) /\ Arrived(script, sent, ceof, b)
        BY <1>b, <2>1, <3>1 DEF Position, IsRead
      <4>3. read_message(cin, ceof, open).is = "message" /\ ForRequest(open)
        BY <2>2, <4>1 DEF ForRequest
      <4>4. ReadsOn(read_message(cin, ceof, open), script, reads, sent, b, ceof)
        BY <1>0, <3>1, <4>2, <4>3, ReadsOneRequest
      <4>5. ReadsOn(r, script, reads, sent, b, ceof)
        BY <4>1, <4>4
      <4> HIDE DEF r
      <4>6. PICK m, rest : r = Got(m, rest) /\ IsOf(m, script, sent, ceof) /\ Left(rest, script, reads + 1, sent, b, ceof)
        BY <4>5 DEF ReadsOn
      <4>7. r.message = m /\ r.rest = rest
        BY <4>6 DEF Got
      <4> QED BY <2>2, <4>6, <4>7
    <3> HIDE DEF r
    <3>2. Position(b)'
      BY <1>b, <2>1, <2>2, <3>1 DEF Position, IsRelayed
    <3> QED BY <1>0, <2>1, <2>2, <3>1, <3>2 DEF StreamInv
  <2>3. CASE pc' = "closed" /\ UNCHANGED << req, cin, reads >>
    BY <1>2, <2>1, <2>3 DEF IsRelayed, IsRead, InExchange
  <2> QED BY <1>6, <2>2, <2>3 DEF ReadRequest
<1>7. CASE ScanRequest \/ Refuse \/ Send \/ ReadReply \/ Respond
  <2>1. /\ UNCHANGED << script, sent, ceof, cin, up, reads >>
        /\ pc \in IsRead /\ pc' \in {"refuse", "dial", "read", "await", "answer", "closed"}
        /\ pc' \in InExchange => pc \in InExchange /\ req' = req
    BY <1>7 DEF ScanRequest, Refuse, Send, ReadReply, Respond, world, tunnel, IsRead, InExchange
  <2> QED BY <1>2, <2>1 DEF IsRelayed
<1>8. CASE ClientSends
  <2> DEFINE f == Framed(script[sent + 1])
  <2>1. /\ ~ ceof /\ sent < Len(script) /\ UNCHANGED << script, up, pc, reads, req >>
        /\ \/ cin' = cin \o f /\ sent' = sent + 1 /\ ceof' = ceof
           \/ \E k \in 0 .. (Len(f) - 1) : cin' = cin \o Upto(f, k) /\ ceof' = TRUE /\ sent' = sent
    BY <1>8 DEF ClientSends, tunnel, exchange
  <2>2. PICK l \in Nat : l = Len(script)
    BY <1>0, ScriptIs
  <2>3. sent \in 0 .. (Len(script) - 1) /\ sent + 1 \in sent .. Len(script) /\ sent \in sent .. Len(script)
    <3>1. sent \in 0 .. l /\ sent < l
      BY <1>0, <2>1, <2>2
    <3>2. sent \in 0 .. (l - 1) /\ sent + 1 \in sent .. l /\ sent \in sent .. l
      BY <3>1
    <3> QED BY <2>2, <3>2
  <2>4. b = Offset(script, sent) /\ Arrived(script, sent, ceof, b)
    BY <1>b, <2>1 DEF Position, Arrived
  <2>5. PICK t, c : /\ cin' = cin \o t /\ Extends(Stream(script), b, c, t)
                    /\ Arrived(script, sent', ceof', c) /\ sent' \in sent .. Len(script) /\ ceof' \in BOOLEAN
    <3>1. CASE cin' = cin \o f /\ sent' = sent + 1 /\ ceof' = ceof
      <4>1. PICK c : c = Offset(script, sent + 1)
        OBVIOUS
      <4>2. Arrived(script, sent + 1, ceof, c) /\ Extends(Stream(script), b, c, f)
        BY <1>0, <2>1, <2>3, <2>4, <4>1, WholeSent
      <4> HIDE DEF f
      <4> QED BY <1>0, <2>3, <3>1, <4>2
    <3>2. ASSUME NEW k \in 0 .. (Len(f) - 1), cin' = cin \o Upto(f, k), ceof' = TRUE, sent' = sent
          PROVE  \E t, c : /\ cin' = cin \o t /\ Extends(Stream(script), b, c, t)
                           /\ Arrived(script, sent', ceof', c) /\ sent' \in sent .. Len(script) /\ ceof' \in BOOLEAN
      <4>1. PICK c : c = b + k
        OBVIOUS
      <4>2. PICK e : e = ceof'
        OBVIOUS
      <4>3. e
        BY <3>2, <4>2
      <4>4. Arrived(script, sent, e, c) /\ Extends(Stream(script), b, c, Upto(f, k))
        BY <1>0, <2>3, <2>4, <4>1, <4>3, PartSent
      <4> HIDE DEF f
      <4> QED BY <2>3, <3>2, <4>2, <4>4
    <3> HIDE DEF f
    <3> QED BY <2>1, <3>1, <3>2
  <2> HIDE DEF f
  <2>6. pc \in IsRelayed => up' \o cin' = Slice(Stream(script), 0, c)
    <3> SUFFICES ASSUME pc \in IsRelayed PROVE up' \o cin' = Slice(Stream(script), 0, c)
      OBVIOUS
    <3>1. IsRelay(up, cin, Stream(script), b)
      BY <1>b DEF Position, IsRelay
    <3>2. IsRelay(up, cin \o t, Stream(script), c)
      BY <1>0, <2>1, <2>4, <2>5, <3>1, RelayedExtends
    <3> QED BY <2>1, <2>5, <3>2 DEF IsRelay
  <2>7. Limited(script) /\ pc \in IsRead => Left(cin', script, reads, sent', c, ceof')
    <3> SUFFICES ASSUME Limited(script), pc \in IsRead PROVE Left(cin', script, reads, sent', c, ceof')
      OBVIOUS
    <3>1. Left(cin, script, reads, sent, b, ceof)
      BY <1>b DEF Position
    <3>2. PICK m \in sent .. Len(script) : m = sent'
      BY <2>5
    <3>3. PICK e : e = ceof'
      OBVIOUS
    <3>4. Left(cin \o t, script, reads, m, c, e)
      BY <1>0, <2>1, <2>4, <2>5, <3>1, LeftExtends
    <3> QED BY <2>5, <3>2, <3>3, <3>4
  <2>8. Position(c)'
    BY <2>1, <2>5, <2>6, <2>7 DEF Position
  <2>9. Limited(script) /\ pc \in InExchange => IsOf(req, script, sent', ceof')
    BY <2>1 DEF StreamInv, IsOf
  <2> QED BY <1>0, <2>1, <2>5, <2>8, <2>9 DEF StreamInv
<1>9. CASE ClientCloses
  <2>1. /\ ~ ceof /\ sent = Len(script) /\ ceof' = TRUE /\ UNCHANGED << script, sent, cin, up, pc, reads, req >>
    BY <1>9 DEF ClientCloses, tunnel, exchange
  <2>2. Arrived(script, sent, ceof', b)
    BY <1>0, <1>b, <2>1 DEF Position, Arrived
  <2>3. Left(cin, script, reads, sent, b, ceof) => Left(cin, script, reads, sent, b, ceof')
    BY <2>1 DEF Left
  <2>4. Position(b)'
    BY <1>b, <2>1, <2>2, <2>3 DEF Position
  <2>5. Limited(script) /\ pc \in InExchange => IsOf(req, script, sent, ceof')
    BY <2>1 DEF StreamInv, IsOf
  <2> QED BY <2>1, <2>4, <2>5 DEF StreamInv
<1>10. CASE RelayDown \/ UpstreamAnswers \/ UpstreamCloses \/ ChangePolicy
  BY <1>1, <1>10 DEF RelayDown, UpstreamAnswers, UpstreamCloses, ChangePolicy, world, tunnel, exchange
<1>11. CASE UNCHANGED vars
  BY <1>1, <1>11 DEF vars
<1> QED BY <1>3, <1>4, <1>5, <1>6, <1>7, <1>8, <1>9, <1>10, <1>11 DEF Next, Proxy

\* The requests that have been forwarded are the client's.
ForwardedInv == Limited(script) => \A k \in DOMAIN fwd : IsForwarded(fwd[k], script, sent, ceof)

\* What is sent after a scan is one of the client's requests.
LEMMA SendsOne ==
  ASSUME NEW m, Whole(m), Sized(m), NEW n, NEW eof, IsOf(m, script, n, eof), NEW p \in Policies, NEW ps, p \in ps,
         NEW s, s = scan_request(p, m), ~ Denied(s.action), NEW o,
         o = (IF s.action = "Redact" THEN Masked(m, s) ELSE m), Sized(o),
         NEW x, x = [message |-> o, wire |-> write_message(o), policies |-> ps]
  PROVE  IsForwarded(x, script, n, eof)
<1>1. PICK i \in DOMAIN script :
        /\ m.start_line = script[i].start_line
        /\ m.body = script[i].body \/ (m.body = << >> /\ eof /\ i > n)
  BY DEF IsOf
<1>2. x.message = o /\ x.wire = write_message(o) /\ x.policies = ps
  OBVIOUS
<1>3. x.wire[1] = Start(o.start_line)
  BY <1>2, WritesWire DEF Sized, IsWire
<1>4. CASE s.action # "Redact"
  <2>1. o = m
    BY <1>4
  <2> QED BY <1>1, <1>2, <1>3, <2>1 DEF IsForwarded
<1>5. CASE s.action = "Redact"
  <2>1. ~ Multipart(m.start_line)
    BY <1>5, AllowedFormIsClean DEF scan_request
  <2>2. s = inspect(p, AllText(m.body))
    BY <2>1 DEF scan_request
  <2>3. m.body # << >>
    <3> SUFFICES ASSUME m.body = << >> PROVE FALSE
      OBVIOUS
    <3>1. AllText(m.body) = {}
      BY DEF AllText
    <3> QED BY <1>5, <2>2, <3>1, InspectNothing, PoliciesAssumption
  <2>4. m.body = script[i].body
    BY <1>1, <2>3
  <2>5. PICK b : b = << Unit("", "text", s.sanitized) >>
    OBVIOUS
  <2>6. o.start_line = m.start_line /\ o.body = b
    <3>1. o = [HttpMessage(m.start_line, m.headers, m.body) EXCEPT !.body = b]
      BY <1>5, <2>5 DEF Masked, Whole
    <3> QED BY <3>1 DEF HttpMessage
  <2>7. x.wire[1] = Start(script[i].start_line)
    BY <1>1, <1>3, <2>6
  <2>8. LET v == inspect(p, AllText(script[i].body))
        IN  v.action = "Redact" /\ x.message.body = << Unit("", "text", v.sanitized) >>
    BY <1>2, <1>5, <2>2, <2>4, <2>5, <2>6
  <2> QED BY <1>2, <2>7, <2>8 DEF IsForwarded
<1> QED BY <1>4, <1>5

LEMMA ForwardedStep ==
  PairInv /\ HandInv /\ SizeInv /\ StreamInv /\ ForwardedInv /\ [Next]_vars => ForwardedInv'
<1> SUFFICES ASSUME PairInv, HandInv, SizeInv, StreamInv, ForwardedInv, [Next]_vars PROVE ForwardedInv'
  OBVIOUS
<1>1. CASE UNCHANGED << script, fwd, sent, ceof >>
  BY <1>1 DEF ForwardedInv
<1>2. CASE Send
  <2> DEFINE m == IF scan.action = "Redact" THEN Masked(req, scan) ELSE req
  <2>1. pc = "dial" /\ fwd' = Append(fwd, Out(m)) /\ UNCHANGED << script, live, sent, ceof >>
    BY <1>2 DEF Send, tunnel, world
  <2>2. PICK p \in live : scan = scan_request(p, req)
    BY <2>1 DEF HandInv, CleanInv
  <2>3. p \in Policies /\ ~ Denied(scan.action) /\ Whole(req) /\ Sized(req)
    BY <2>1, <2>2 DEF HandInv, CleanInv, SizeInv
  <2>4. Sized(m)
    BY <2>3, MaskedIsSized
  <2>5. PICK x : x = Out(m)
    OBVIOUS
  <2>6. x = [message |-> m, wire |-> write_message(m), policies |-> live]
    BY <2>5 DEF Out
  <2>7. Limited(script) => IsForwarded(x, script, sent, ceof)
    <3> SUFFICES ASSUME Limited(script) PROVE IsForwarded(x, script, sent, ceof)
      OBVIOUS
    <3>1. IsOf(req, script, sent, ceof)
      BY <2>1 DEF StreamInv, InExchange
    <3>2. PICK s : s = scan
      OBVIOUS
    <3>3. PICK r : r = req
      OBVIOUS
    <3>4. PICK ps : ps = live
      OBVIOUS
    <3>5. PICK o : o = m
      OBVIOUS
    <3>8. PICK n : n = sent
      OBVIOUS
    <3>9. PICK eof : eof = ceof
      OBVIOUS
    <3>6. o = IF s.action = "Redact" THEN Masked(r, s) ELSE r
      BY <3>2, <3>3, <3>5
    <3> HIDE DEF m
    <3>7. /\ Whole(r) /\ Sized(r) /\ IsOf(r, script, n, eof) /\ p \in ps /\ s = scan_request(p, r) /\ ~ Denied(s.action)
          /\ Sized(o) /\ x = [message |-> o, wire |-> write_message(o), policies |-> ps]
      BY <2>2, <2>3, <2>4, <2>6, <3>1, <3>2, <3>3, <3>4, <3>5, <3>8, <3>9
    <3>10. IsForwarded(x, script, n, eof)
      BY <2>3, <3>6, <3>7, SendsOne
    <3> QED BY <3>8, <3>9, <3>10
  <2> HIDE DEF m
  <2>8. PICK q : q = fwd
    OBVIOUS
  <2>9. PICK S : q \in Seq(S)
    BY <2>8 DEF PairInv
  <2>10. q \in Seq(S \cup {x}) /\ x \in S \cup {x}
    BY <2>9
  <2>11. /\ DOMAIN Append(q, x) = 1 .. (Len(q) + 1) /\ DOMAIN q = 1 .. Len(q) /\ Len(q) \in Nat
         /\ Append(q, x)[Len(q) + 1] = x /\ \A k \in 1 .. Len(q) : Append(q, x)[k] = q[k]
    BY <2>10
  <2>12. fwd' = Append(q, x)
    BY <2>1, <2>5, <2>8
  <2>13. ASSUME NEW k \in DOMAIN fwd', Limited(script) PROVE IsForwarded(fwd'[k], script, sent, ceof)
    <3>1. k = Len(q) + 1 \/ k \in DOMAIN q
      BY <2>11, <2>12
    <3> QED BY <2>7, <2>8, <2>11, <2>12, <2>13, <3>1 DEF ForwardedInv
  <2> QED BY <2>1, <2>13 DEF ForwardedInv
<1>3. CASE handle_connection \/ RelayDial \/ RelayUp \/ RelayEnds \/ ReadRequest \/ ScanRequest \/ Refuse
  BY <1>1, <1>3 DEF handle_connection, RelayDial, RelayUp, RelayEnds, ReadRequest, ScanRequest, Refuse,
                    world, tunnel, exchange
<1>4. CASE ReadReply \/ Respond \/ DialFails \/ RelayDown
  BY <1>1, <1>4 DEF ReadReply, Respond, DialFails, RelayDown, world, tunnel, exchange
<1>5. CASE UpstreamAnswers \/ UpstreamCloses \/ ChangePolicy
  BY <1>1, <1>5 DEF UpstreamAnswers, UpstreamCloses, ChangePolicy, world, tunnel, exchange
<1>7. CASE ClientSends \/ ClientCloses
  <2>1. ~ ceof /\ UNCHANGED << script, fwd >>
    BY <1>7 DEF ClientSends, ClientCloses, tunnel, exchange
  <2>2. ASSUME NEW k \in DOMAIN fwd, Limited(script) PROVE IsForwarded(fwd[k], script, sent', ceof')
    BY <2>1, <2>2 DEF ForwardedInv, IsForwarded
  <2> QED BY <2>1, <2>2 DEF ForwardedInv
<1>6. CASE UNCHANGED vars
  BY <1>1, <1>6 DEF vars
<1> QED BY <1>2, <1>3, <1>4, <1>5, <1>6, <1>7 DEF Next, Proxy

\* A request goes upstream whole, masked or without a body, and in no other way:
\* never the beginning of one, never the end of one with the beginning of
\* another, wherever the client stops.
THEOREM WholeIsForwarded == Spec => []RequestsStayWhole
<1>1. Init => ForwardedInv
  BY DEF Init, ForwardedInv
<1>2. ForwardedInv => RequestsStayWhole
  BY DEF ForwardedInv, Limited, IsForwarded, RequestsStayWhole, WithinLimit
<1> QED BY <1>1, <1>2, PairInit, PairStep, SentInit, SentStep, HandInit, HandStep, SizeInit, SizeStep,
           StreamInit, StreamStep, ForwardedStep, PTL DEF Spec

\* A tunnel that is not intercepted passes on what its client sends, all of it
\* and in its order, with what came along with the CONNECT; what the server
\* says arrives too, but for its first words behind another proxy.
THEOREM RelayIsTransparent == Spec => []RelayedUntouched
<1>1. SentInv /\ StreamInv => LET sent_on == FlattenSeq([i \in 1 .. sent |-> Framed(script[i])])
                              IN  pc = "relay" /\ ~ceof => up \o cin = sent_on
  <2> SUFFICES ASSUME SentInv, StreamInv, pc = "relay", ~ ceof PROVE up \o cin = Sends(script, sent)
    BY DEF Sends
  <2>1. PICK b : Position(b)
    BY DEF StreamInv
  <2>2. up \o cin = Slice(Stream(script), 0, Offset(script, sent))
    BY <2>1 DEF Position, Arrived, IsRelayed
  <2>3. script \in Scripts /\ sent \in 0 .. Len(script) /\ sent \in 0 .. sent
    BY ScriptIs DEF SentInv
  <2>4. Sends(script, sent) = Slice(Stream(script), 0, Offset(script, sent))
    BY <2>3, Offsets
  <2> QED BY <2>2, <2>4
<1>2. DownInv => down = offered \/ (chained /\ IsSuffix(down, offered))
  BY DownIsSuffix
<1>3. (NeverListed => reads = 0) /\ SentInv /\ StreamInv /\ DownInv => RelayedUntouched
  BY <1>1, <1>2 DEF RelayedUntouched
<1> QED BY <1>3, UnlistedIsNeverRead, PairInit, PairStep, SentInit, SentStep, HandInit, HandStep, SizeInit, SizeStep,
           StreamInit, StreamStep, DownInit, DownStep, PTL DEF Spec

\* Whatever requests the client sends, sends ahead or cuts short, however they
\* are framed and answered and whatever becomes of the policy: requests and
\* answers stay paired, what is forwarded is one whole request, what is written
\* can be read back, and what is only relayed arrives as it was sent.
THEOREM MessagesAreWhole == Spec => []MessagesStayWhole
<1>1. TypeOK /\ AnswersStayPaired /\ RequestsStayWhole /\ WrittenReadsBack /\ RelayedUntouched => MessagesStayWhole
  BY DEF MessagesStayWhole
<1> QED BY <1>1, TypeCorrect, AnswersArePaired, WholeIsForwarded, WhatIsWrittenReadsBack, RelayIsTransparent, PTL

\* What a policy in force since a message was read denies, or wants masked, is
\* not written on under it, in either direction, in whatever pieces it came, in
\* fields and in files: but in files that it exempts or nothing can read, and
\* behind a malformed part. While no body is over the limit nothing of one is
\* written on in the lines of a head.
THEOREM GuardedIsContained == Spec => []GuardedStaysInTunnel
<1>1. ASSUME SentInv, HandInv, SizeInv, RequestsStayWhole PROVE GuardedStaysInTunnel
  <2>1. /\ \A x \in Range(fwd) : Passed(x, Multipart(x.message.start_line))
        /\ \A x \in Range(got) : Passed(x, FALSE)
    BY <1>1 DEF HandInv, CleanInv, Clean, Passed
  <2>2. ASSUME WithinLimit, NEW x \in Range(fwd) PROVE x.message.start_line.spill = {}
    <3>1. PICK k \in DOMAIN fwd : x = fwd[k]
      BY DEF Range
    <3>2. PICK i \in DOMAIN script : x.wire[1] = Start(script[i].start_line)
      BY <1>1, <2>2, <3>1 DEF RequestsStayWhole
    <3>3. WrittenRight(x)
      BY <1>1 DEF SizeInv, Written
    <3>4. x.wire[1] = Start(x.message.start_line)
      <4>1. PICK m : m = x.message
        OBVIOUS
      <4>2. IsWire(write_message(m), m) /\ x.wire = write_message(m)
        BY <3>3, <4>1, WritesWire DEF WrittenRight, Sized
      <4> QED BY <4>1, <4>2 DEF IsWire
    <3>5. x.message.start_line = script[i].start_line
      <4>1. PICK u : u = x.message.start_line
        OBVIOUS
      <4>2. PICK v : v = script[i].start_line
        OBVIOUS
      <4>3. Start(u).start_line = u /\ Start(v).start_line = v
        BY DEF Start
      <4>4. Start(u) = Start(v)
        BY <3>2, <3>4, <4>1, <4>2
      <4> QED BY <4>1, <4>2, <4>3, <4>4
    <3>6. i \in 1 .. Len(script) /\ script \in Scripts
      BY <1>1, ScriptsAssumption DEF SentInv, IsSequence
    <3> QED BY <3>5, <3>6, ScriptsAssumption
  <2> QED BY <2>1, <2>2 DEF GuardedStaysInTunnel
<1> QED BY <1>1, WholeIsForwarded, PairInit, PairStep, SentInit, SentStep, HandInit, HandStep, SizeInit, SizeStep,
           PTL DEF Spec
=============================================================================
