-------------------------------- MODULE Http1 --------------------------------
(***************************************************************************)
(* The HTTP/1.1 reader and writer of the CONNECT proxy                     *)
(* (crates/connect_proxy/src/http1.rs), on a connection that is a sequence *)
(* of tokens:                                                              *)
(*                                                                         *)
(*   start    a request or status line, for the headers of no interest too *)
(*   length   a Content-Length header, chunked  a Transfer-Encoding one    *)
(*   blank    the empty line behind the headers                            *)
(*   data     one unit of a body                                           *)
(*   break    one that ends in an empty line                               *)
(*   chunk    one chunk of a body with its size line                       *)
(*   zero     the last, empty chunk with its trailer                       *)
(*                                                                         *)
(* Units of a body found where a head is expected are lines of that head,  *)
(* the last of them running into the line behind it (a header line without *)
(* a colon would be dropped: all are taken to have one).                   *)
(***************************************************************************)
EXTENDS Integers, SequencesExt

CONSTANT MAX_BODY     \* MAX_BODY_BYTES, in units

ASSUME BodyAssumption == MAX_BODY \in Nat \ {0}

\* A start line says which request or answer it begins. One that is made of
\* what was left unread of a body holds, with the headers behind it, those
\* units as its spill.
StartLine(request, spill) == [request |-> request, spill |-> spill]

Start(line) == [t |-> "start", start_line |-> line]
Length(n) == [t |-> "length", n |-> n]
Chunked == [t |-> "chunked"]
Blank == [t |-> "blank"]
Data(u) == [t |-> IF u.shape = "break" THEN "break" ELSE "data", unit |-> u]
Chunk(u) == [t |-> "chunk", unit |-> u]
Zero == [t |-> "zero"]

\* Where tokens of some types are, and the first of some places.
Of(tokens, types) == {i \in DOMAIN tokens : tokens[i].t \in types}
First(places) == CHOOSE i \in places : \A j \in places : i <= j

\* The headers are a set: no two are told apart by their order, but for the
\* first length.
HttpMessage(start_line, headers, body) == [start_line |-> start_line, headers |-> headers, body |-> body]

\* The units of some tokens; a line read as part of a body is junk.
Junk == [ext |-> "", shape |-> "text", text |-> {}]
Units(tokens) == [i \in DOMAIN tokens |-> IF tokens[i].t \in {"data", "break", "chunk"} THEN tokens[i].unit ELSE Junk]
FirstNot(tokens, type) ==
  CHOOSE i \in 1 .. (Len(tokens) + 1) :
    /\ \A j \in 1 .. (i - 1) : tokens[j].t = type
    /\ i <= Len(tokens) => tokens[i].t # type
Upto(tokens, n) == SubSeq(tokens, 1, n)
Behind(tokens, n) == SubSeq(tokens, n + 1, Len(tokens))

\* What a read comes to: a message and the tokens behind it, a clean end, an
\* error, or a wait for more.
Got(m, rest) == [is |-> "message", message |-> m, rest |-> rest]
Closed == [is |-> "closed"]
Err == [is |-> "error"]
Wait == [is |-> "wait"]

\* A read that needs more than there is waits, or fails when there is no more.
Short(eof) == IF eof THEN Err ELSE Wait

\* read_chunked_body
read_chunked_body(m, in, eof) ==
  LET k == FirstNot(in, "chunk")
  IN  IF k - 1 > MAX_BODY THEN Err
      ELSE IF k > Len(in) THEN Short(eof)
      ELSE IF in[k].t = "zero" THEN Got([m EXCEPT !.body = Units(Upto(in, k - 1))], Behind(in, k))
      ELSE Err

\* Mutant: what there is of a body is taken for all of it.
ReadWhatIsThere(m, declared, in, eof) ==
  LET n == IF declared > MAX_BODY THEN MAX_BODY ELSE declared
  IN  IF n > Len(in) /\ ~eof THEN Wait
      ELSE LET k == IF n > Len(in) THEN Len(in) ELSE n
           IN  Got([m EXCEPT !.body = Units(Upto(in, k))], Behind(in, k))

\* Content-Length, clamped to the limit: what is over stays unread.
read_exact_body(m, declared, in, eof) ==
  LET n == IF declared > MAX_BODY THEN MAX_BODY ELSE declared
  IN  IF n > Len(in) THEN Short(eof)
      ELSE Got([m EXCEPT !.body = Units(Upto(in, n))], Behind(in, n))

\* A body that runs to the end of the connection, or to the limit.
read_to_end(m, in, eof) ==
  IF Len(in) >= MAX_BODY THEN Got([m EXCEPT !.body = Units(Upto(in, MAX_BODY))], Behind(in, MAX_BODY))
  ELSE IF eof THEN Got([m EXCEPT !.body = Units(in)], << >>)
  ELSE Wait

\* The headers end at the blank line; the end of the connection is taken for
\* one (read_line returns an empty line there).
HeadEnd(in, eof) ==
  IF \E i \in DOMAIN in : in[i].t \in {"blank", "break"}
  THEN CHOOSE i \in DOMAIN in :
         in[i].t \in {"blank", "break"} /\ \A j \in 1 .. (i - 1) : in[j].t \notin {"blank", "break"}
  ELSE IF eof THEN Len(in) ELSE 0

\* The units of a body that stand in a head.
Spill(head) == {head[i].unit : i \in Of(head, {"data", "break"})}

\* The start line of a head: as it was sent, or the rest of a body with what
\* it runs into.
start_line(head) ==
  IF head[1].t = "start" THEN head[1].start_line
  ELSE StartLine(IF Of(head, {"start"}) = {} THEN "none" ELSE head[First(Of(head, {"start"}))].start_line.request,
                 Spill(head))

\* read_line fails on bytes that are not UTF-8.
Legible(head) == head[1].t = "start" \/ \A u \in Spill(head) : u.shape # "unreadable"

\* read_message
read_message(in, eof, allow_close_delimited) ==
  IF in = << >> THEN IF eof THEN Closed ELSE Wait
  ELSE IF in[1] = Blank THEN Err
  ELSE IF HeadEnd(in, eof) = 0 THEN Wait
  ELSE LET head    == Upto(in, HeadEnd(in, eof))
           rest    == Behind(in, HeadEnd(in, eof))
           headers == {head[i] : i \in Of(head, {"length", "chunked"})}
           lengths == Of(head, {"length"})
           m       == HttpMessage(start_line(head), headers, << >>)
       IN  IF ~ Legible(head) THEN Err
           ELSE IF Chunked \in headers THEN read_chunked_body(m, rest, eof)
           ELSE IF lengths # {} THEN read_exact_body(m, head[First(lengths)].n, rest, eof)
           ELSE IF allow_close_delimited THEN read_to_end(m, rest, eof)
           ELSE Got(m, rest)

\* Mutant: the length that came with the message is kept.
WriteOldLength(m) ==
  << Start(m.start_line) >> \o SetToSeq(m.headers) \o << Blank >> \o [i \in DOMAIN m.body |-> Data(m.body[i])]

\* write_message: the length is computed anew, every other header is kept.
write_message(m) ==
  << Start(m.start_line) >> \o (IF Chunked \in m.headers THEN << Chunked >> ELSE << >>)
    \o << Length(Len(m.body)), Blank >>
    \o [i \in DOMAIN m.body |-> Data(m.body[i])]
=============================================================================
