----------------------------- MODULE StreamScan -----------------------------
(***************************************************************************)
(* scan_streaming_response of crates/proxy: a response is scanned and      *)
(* forwarded while it streams.  Bytes are positions 1, 2, ...; a secret is *)
(* a span of positions.  Everything but the last HoldBack bytes of the     *)
(* buffer is cut off, scanned as one window and forwarded; the rest waits  *)
(* for more bytes or for the end of the upstream.                          *)
(*                                                                         *)
(* A scan sees only its window: a span that a cut divides is no finding in *)
(* either part.  What happens to a finding is the live policy's action,    *)
(* which the console or the sync may change between two windows.           *)
(* Redaction replaces the findings of a window one after the other, so one *)
(* that overlaps a finding replaced earlier is no longer found and keeps   *)
(* what is left of it.                                                     *)
(*                                                                         *)
(* A window is decoded on its own (from_utf8_lossy): in a redacted window  *)
(* a character that a cut divides becomes U+FFFD.  Positions do not tell   *)
(* such a character from the original.                                     *)
(*                                                                         *)
(* Names are prefixed where ProxyPipeline has them too:                    *)
(* ProxyPipelineProofs is about both.                                      *)
(***************************************************************************)
EXTENDS Integers

CONSTANTS
  HoldBack,   \* HOLD_BACK_BYTES
  Length,     \* bound: bytes the upstream sends
  MatchSets   \* the sets of secrets the body may contain

Action == {"Allow", "Audit", "Warn", "Redact", "RequireApproval", "Block"}
\* fixed: nothing replaces it (a guardrail's finding without a replacement, or
\* one of a window that is JSON that lies in no single string, as a number).
Span   == [first : Nat \ {0}, last : Nat \ {0}, fixed : BOOLEAN]

ASSUME HoldBackAssumption == HoldBack \in Nat
ASSUME LengthAssumption   == Length \in Nat
ASSUME MatchesAssumption  == \A M \in MatchSets : M \subseteq Span

VARIABLES
  matches,       \* the secrets in the body
  action,        \* the live policy's action for them
  received,      \* bytes read from the upstream
  flushed,       \* bytes split off the buffer: the buffer is flushed+1 .. received
  upstream_done,
  stream_status, \* "open", "ended" and "blocked" (None), "failed" (upstream error), "dropped" (client gone)
  raw,           \* positions the client got as they were
  masked,        \* positions the client got redacted
  windows        \* history: the windows scanned and their verdicts

streamVars == <<matches, action, received, flushed, upstream_done, stream_status, raw, masked, windows>>

Positions(m) == m.first .. m.last

StreamInit ==
  /\ matches \in MatchSets
  /\ action \in Action
  /\ received = 0 /\ flushed = 0
  /\ upstream_done = FALSE
  /\ stream_status = "open"
  /\ raw = {} /\ masked = {} /\ windows = {}

-----------------------------------------------------------------------------
(* One window *)

Findings(from, to) == {m \in matches : from <= m.first /\ m.last <= to}

\* inspect_response: the action of the findings, Allow without any.
Verdict(from, to) == IF Findings(from, to) = {} THEN "Allow" ELSE action

\* Mutant: scan.action == Block, without enforcement_action.
OnlyBlockBlocks(v) == v = "Block"

\* Action::enforcement_action() == Block
EnforcedBlock(v) == v \in {"Block", "RequireApproval"}

Overlap(m, k) == Positions(m) \intersect Positions(k) # {}

\* Mutant: the replacement begins after the finding's first byte.
ReplacedFromSecond(from, to) ==
  {UNION {(m.first + 1) .. m.last : m \in D} : D \in SUBSET {m \in Findings(from, to) : ~ m.fixed}}

\* apply_redactions: in whatever order the detectors report them, a finding is
\* replaced unless one replaced before it has taken some of its text.
Replaced(from, to) ==
  LET found == {m \in Findings(from, to) : ~ m.fixed}
  IN  {UNION {Positions(m) : m \in D} :
         D \in {E \in SUBSET found :
                 /\ \A m, k \in E : m # k => ~ Overlap(m, k)
                 /\ \A m \in found \ E : \E k \in E : Overlap(m, k)}}

\* What the client gets of a window, or the end of the stream.
Forward(from, to) ==
  LET v == Verdict(from, to)
  IN  /\ windows' = windows \union {[from |-> from, to |-> to, verdict |-> v]}
      /\ IF EnforcedBlock(v)
         THEN stream_status' = "blocked" /\ UNCHANGED <<raw, masked>>
         ELSE /\ \E out \in IF v = "Redact" THEN Replaced(from, to) ELSE {{}} :
                   /\ raw' = raw \union ((from .. to) \ out)
                   /\ masked' = masked \union out
              /\ UNCHANGED stream_status

\* Mutant: the saturating subtraction is a plain one.
FlushUnderflow(len, done) == IF done THEN len ELSE len - HoldBack

\* Mutant: nothing is held back.
FlushAll(len, done) == len

\* Mutant: the held-back tail is not flushed at the end.
FlushForgetsTail(len, done) == IF len > HoldBack THEN len - HoldBack ELSE 0

flush_len(len, done) ==
  IF done THEN len ELSE IF len > HoldBack THEN len - HoldBack ELSE 0

\* The rest of a loop iteration, once the buffer ends at `to`.
Flush(to, done) ==
  LET n == flush_len(to - flushed, done)
  IN  /\ received' = to /\ upstream_done' = done
      /\ flushed' = flushed + n
      /\ IF n = 0
         THEN /\ stream_status' = IF done THEN "ended" ELSE stream_status
              /\ UNCHANGED <<raw, masked, windows>>
         ELSE Forward(flushed + 1, flushed + n)
      /\ UNCHANGED <<matches, action>>

-----------------------------------------------------------------------------
(* Iterations of the loop, by what upstream.next() returns *)

Chunk(n) ==
  /\ stream_status = "open" /\ ~upstream_done
  /\ received + n <= Length
  /\ Flush(received + n, FALSE)

UpstreamEnd ==
  /\ stream_status = "open" /\ ~upstream_done
  /\ Flush(received, TRUE)

\* Mutant: None is returned only if nothing was ever flushed.
FinishOnlyIfEmpty ==
  /\ stream_status = "open" /\ upstream_done /\ flushed = 0
  /\ Flush(received, TRUE)

\* The upstream is not polled again once it is done.
Finish ==
  /\ stream_status = "open" /\ upstream_done
  /\ Flush(received, TRUE)

\* A read error ends the stream; the buffer is dropped.
UpstreamError ==
  /\ stream_status = "open" /\ ~upstream_done
  /\ stream_status' = "failed"
  /\ UNCHANGED <<matches, action, received, flushed, upstream_done, raw, masked, windows>>

-----------------------------------------------------------------------------
(* The environment *)

\* The client hangs up and the body stream is dropped.
ClientGone ==
  /\ stream_status = "open"
  /\ stream_status' = "dropped"
  /\ UNCHANGED <<matches, action, received, flushed, upstream_done, raw, masked, windows>>

\* A console edit or a sync replaces the policy between two scans.
ChangeStreamPolicy ==
  /\ stream_status = "open"
  /\ \E a \in Action \ {action} : action' = a
  /\ UNCHANGED <<matches, received, flushed, upstream_done, stream_status, raw, masked, windows>>

StreamNext ==
  \/ \E n \in 1 .. Length : Chunk(n)
  \/ UpstreamEnd \/ Finish \/ UpstreamError
  \/ ClientGone \/ ChangeStreamPolicy

\* A polling client makes the body advance once the upstream has ended; the
\* upstream itself may stay silent for ever.
StreamSpec == StreamInit /\ [][StreamNext]_streamVars /\ WF_streamVars(Finish)
-----------------------------------------------------------------------------
(* What holds *)

\* Types, and the buffer never has negative length.
StreamTypeOK ==
  /\ matches \in MatchSets
  /\ action \in Action
  /\ received \in 0 .. Length
  /\ flushed \in 0 .. received
  /\ upstream_done \in BOOLEAN
  /\ stream_status \in {"open", "ended", "blocked", "failed", "dropped"}
  /\ raw \subseteq 1 .. flushed
  /\ masked \subseteq 1 .. flushed
  /\ windows \subseteq [from : 1 .. Length, to : 1 .. Length, verdict : Action]

\* Memory and latency: a stream that has not ended holds back exactly its
\* last HoldBack bytes (all of them while there are no more).
HoldsBackTail ==
  stream_status = "open" /\ ~upstream_done
  => received - flushed = IF received < HoldBack THEN received ELSE HoldBack

\* The client gets a gapless prefix: everything cut off unless the last cut
\* was blocked, and the whole body if the stream ended normally.
DeliveredIsPrefix ==
  /\ stream_status # "blocked" => raw \union masked = 1 .. flushed
  /\ stream_status = "ended" => flushed = received
  /\ \A p \in raw \union masked : 1 .. p \subseteq raw \union masked

\* What a window's verdict contained, the client never gets, whatever the policy
\* becomes later: of a secret in a blocked window no byte; of one in a redacted
\* window no byte, or a rest beside another secret it overlapped, of which then
\* no byte came through.  (What nothing replaces stays.)
ContainedNeverLeaks ==
  \A w \in windows, m \in matches :
    w.from <= m.first /\ m.last <= w.to =>
      /\ w.verdict \in {"RequireApproval", "Block"} => Positions(m) \intersect raw = {}
      /\ w.verdict = "Redact" /\ ~ m.fixed =>
           \/ Positions(m) \intersect raw = {}
           \/ \E k \in Findings(w.from, w.to) : Overlap(m, k) /\ Positions(k) \intersect raw = {}

\* Everything judged whole: one window holds all of m.
JudgedWhole(m) == \E w \in windows : w.from <= m.first /\ m.last <= w.to

\* A secret within the last HoldBack bytes of the body (so any secret of a
\* body no longer than that) is judged whole when the upstream ends.
TailJudgedWhole ==
  upstream_done =>
    \A m \in matches :
      m.first <= m.last /\ m.last <= received /\ received < m.first + HoldBack
      => JudgedWhole(m)

\* The cuts are exact: nothing is skipped, repeated, kept for longer or given
\* out sooner than the hold-back, and the last HoldBack bytes are one window.
CutsExact == StreamTypeOK /\ HoldsBackTail /\ DeliveredIsPrefix /\ TailJudgedWhole

\* Once the upstream has ended the client's stream ends.
StreamTerminates == upstream_done ~> stream_status # "open"

-----------------------------------------------------------------------------
(* What the comment on HOLD_BACK_BYTES claims *)

\* "a match split across two upstream chunks still lands inside one scan
\* window" if it is no longer than HoldBack.
ShortMatchJudgedWhole ==
  \A m \in matches :
    m.first <= m.last /\ m.last - m.first < HoldBack /\ m.last <= flushed
    => JudgedWhole(m)

\* "Applies every finding's `redacted_replacement` to `text`"
\* (common/src/lib.rs:179): nothing is left of a finding that has one.
RedactedLeaveNothing ==
  \A w \in windows, m \in matches :
    w.from <= m.first /\ m.last <= w.to /\ w.verdict = "Redact" /\ ~ m.fixed
    => Positions(m) \intersect raw = {}
=============================================================================
