------------------------------ MODULE LocalApi ------------------------------
(***************************************************************************)
(* The local API behind its request gate (module RequestGate): the scan    *)
(* routes of the browser extension, the extension's heartbeat, and the     *)
(* console's history.                                                      *)
(*                                                                         *)
(* Handlers run in parallel on the threads of the runtime. A handler locks *)
(* the policy anew each time it consults it, so an edit may fall between   *)
(* two looks; it waits only for the verifier and for the database, and a   *)
(* client that hangs up there drops it. The heartbeat file is read,        *)
(* truncated and written without a lock.                                   *)
(***************************************************************************)
EXTENDS Verdicts, FileInspector

CONSTANTS
  Reqs,        \* requests
  Workloads,   \* what the clients may do, each beside the others (field offered:
               \* the requests each of Reqs may be; policies; limits: page sizes the
               \* console asks for; table and file: what they hold at the start)
  Configs,     \* server configurations
  MaxLimit,    \* 200, the largest page
  MaxChanges,  \* bound: edits of the policy
  MaxExpiries  \* bound: rows that leave the console's window

ASSUME LimitAssumption == MaxLimit \in Nat \ {0} /\ MaxChanges \in Nat

\* A page that is blank holds nothing, an image has a page, bytes that parse
\* as a PDF or an image do not begin with the other's signature, and a plain
\* text shows what is in it.
FileAssumption(f) ==
  /\ f.layer \subseteq Categories /\ f.raw \subseteq Categories
  /\ f.format = "plain" => f.raw = f.layer
  /\ \A i \in DOMAIN f.pages : f.pages[i].text \subseteq Categories /\ (f.pages[i].blank => f.pages[i].text = {})
  /\ f.format = "image" => 1 \in DOMAIN f.pages /\ f.head # "pdf"
  /\ f.format = "pdf" => f.head \in {"pdf", ""}

ASSUME WorkloadsAssumption ==
  \A w \in Workloads :
    /\ \A p \in w.policies : WellTyped(p) /\ p.unmaskable \in Actions
    /\ w.file.kind \in {"absent", "torn", "whole"}
    /\ w.table \in Seq({w.table[i] : i \in DOMAIN w.table})
    /\ w.limits \subseteq 1 .. MaxLimit
    /\ \A r \in Reqs : \A q \in w.offered[r] :
         /\ q.kind \in {"inspect", "response", "file", "heartbeat"}
         /\ q.kind \in {"inspect", "response"} => q.text \subseteq Categories
         /\ q.kind = "file" => FileAssumption(q)

VARIABLES
  work,        \* the workload
  config,      \* what the server was built with
  policy,      \* the Inspector's live policy
  changes, expiries,
  pc,          \* where each handler stands
  req,         \* the request
  text,        \* the text that was scanned
  scan,        \* the verdict so far
  answer,      \* what the client got
  shown,       \* what the verifier was sent
  live,        \* ghost: policies that were live while the request was judged
  table,       \* audit_events, oldest first
  lost,        \* ghost: events whose save_event failed
  file,        \* extension-status.json
  mine,        \* the profiles a heartbeat is about to write
  alone,       \* ghost: heartbeats that no other one overlapped
  before,      \* ghost: the profiles in the file when a heartbeat began
  latest,      \* ghost: the heartbeat that wrote last, "" while one is busy
  view         \* the console's History tab

scanVars == << text, scan, answer, shown >>
beatVars == << file, mine, alone, before, latest >>
histVars == << table, lost, expiries, view >>
vars == << work, config, policy, changes, pc, req, live, scanVars, beatVars, histVars >>

Null == [kind |-> "null"]
NoView == [open |-> FALSE, action |-> "", limit |-> 1, offset |-> 0, rows |-> << >>, more |-> FALSE,
           must |-> {}, seen |-> {}, disturbed |-> FALSE]

Init ==
  /\ work \in Workloads /\ config \in Configs /\ policy \in work.policies /\ changes = 0 /\ expiries = 0
  /\ pc = [r \in Reqs |-> "idle"] /\ req = [r \in Reqs |-> Null]
  /\ text = [r \in Reqs |-> {}] /\ scan = [r \in Reqs |-> Null]
  /\ answer = [r \in Reqs |-> Null] /\ shown = [r \in Reqs |-> Null]
  /\ live = [r \in Reqs |-> {}]
  /\ table = work.table /\ lost = {}
  /\ file = work.file /\ mine = [r \in Reqs |-> {}] /\ alone = {} /\ before = [r \in Reqs |-> {}] /\ latest = ""
  /\ view = NoView

Goto(r, l) == pc' = [pc EXCEPT ![r] = l]

Judge(r, s, l) == scan' = [scan EXCEPT ![r] = s] /\ Goto(r, l)

-----------------------------------------------------------------------------
(* Requests *)

\* The gate lets a request in (or answers 403 or 429, module RequestGate); a
\* payload that is not base64 is a 400.
Arrive(r) ==
  /\ pc[r] = "idle"
  /\ \E q \in work.offered[r] :
       /\ req' = [req EXCEPT ![r] = q]
       /\ \/ Goto(r, "refused")
          \/ Goto(r, CASE q.kind = "file" -> IF q.decodes THEN "upload" ELSE "refused"
                       [] q.kind = "heartbeat" -> "beat_read"
                       [] OTHER -> "scan")
  /\ live' = [live EXCEPT ![r] = {policy}]
  /\ UNCHANGED << work, config, policy, changes, scanVars, beatVars, histVars >>

\* Mutant: the signature is not looked at.
ExtensionOfName(f) == f.name

\* A known signature overrides the name, whatever the name says.
effective_extension(f) == IF sniff_extension(f) \notin {"", f.name} THEN sniff_extension(f) ELSE f.name

file_result(action) == [kind |-> "scan", action |-> action, sanitized |-> {}]

\* Mutant: Inspect is taken for a verdict.
CheckUploadFinal(r) ==
  /\ pc[r] = "upload"
  /\ Judge(r, file_result(upload_action(policy, effective_extension(req[r]))), "save")
  /\ UNCHANGED << work, config, policy, changes, req, live, text, answer, shown, beatVars, histVars >>

\* inspect_file_request, the policy's say on the file's type.
CheckUpload(r) ==
  LET u == upload_action(policy, effective_extension(req[r]))
  IN  /\ pc[r] = "upload"
      /\ IF u = "Inspect" THEN Goto(r, "scan") /\ UNCHANGED scan ELSE Judge(r, file_result(u), "save")
      /\ UNCHANGED << work, config, policy, changes, req, live, text, answer, shown, beatVars, histVars >>

is_text_redactable_extension(ext) == ext \in PlainText

\* inspect_file_request, extraction and scan; what cannot be read is allowed.
ScanFile(r) ==
  LET ext == effective_extension(req[r])
      out == extract_text(ext, req[r], config.ocr)
      s   == inspect(policy, out.text)
  IN  /\ pc[r] = "scan" /\ req[r].kind = "file"
      /\ IF out = Unsupported THEN Judge(r, file_result("Allow"), "save") /\ UNCHANGED text
         ELSE /\ text' = [text EXCEPT ![r] = out.text]
              /\ Judge(r, s, IF s.action = "Redact" /\ ~ is_text_redactable_extension(ext) THEN "fallback" ELSE "verify")
      /\ UNCHANGED << work, config, policy, changes, req, live, answer, shown, beatVars, histVars >>

\* Mutant: Redact as a fallback stands.
FallbackAsIs(r) ==
  /\ pc[r] = "fallback"
  /\ Judge(r, [scan[r] EXCEPT !.action = enforcement_action(policy.unmaskable)], "verify")
  /\ UNCHANGED << work, config, policy, changes, req, live, text, answer, shown, beatVars, histVars >>

\* A file that cannot be masked: unmaskable_file_action, Redact read as Block.
Fallback(r) ==
  LET a == enforcement_action(policy.unmaskable)
  IN  /\ pc[r] = "fallback"
      /\ Judge(r, [scan[r] EXCEPT !.action = IF a = "Redact" THEN "Block" ELSE a], "verify")
      /\ UNCHANGED << work, config, policy, changes, req, live, text, answer, shown, beatVars, histVars >>

\* inspect_request and inspect_response; only the first asks the verifier.
ScanText(r) ==
  /\ pc[r] = "scan" /\ req[r].kind \in {"inspect", "response"}
  /\ text' = [text EXCEPT ![r] = req[r].text]
  /\ Judge(r, inspect(policy, req[r].text), IF req[r].kind = "inspect" THEN "verify" ELSE "save")
  /\ UNCHANGED << work, config, policy, changes, req, live, answer, shown, beatVars, histVars >>

\* Mutant: the verifier is asked about every text.
AskAlways(r) ==
  /\ pc[r] = "verify"
  /\ shown' = [shown EXCEPT ![r] = IF config.verifier THEN [kind |-> "text", text |-> text[r]] ELSE @]
  /\ Goto(r, IF config.verifier THEN "verdict" ELSE "save")
  /\ UNCHANGED << work, config, policy, changes, req, live, text, scan, answer, beatVars, histVars >>

\* apply_llm_verify up to its await: only a text that was allowed is sent.
Ask(r) ==
  LET asks == config.verifier /\ scan[r].action = "Allow"
  IN  /\ pc[r] = "verify"
      /\ shown' = [shown EXCEPT ![r] = IF asks THEN [kind |-> "text", text |-> text[r]] ELSE @]
      /\ Goto(r, IF asks THEN "verdict" ELSE "save")
      /\ UNCHANGED << work, config, policy, changes, req, live, text, scan, answer, beatVars, histVars >>

\* The verifier (external) finds something in the text or nothing.
Verdict(r) ==
  /\ pc[r] = "verdict"
  /\ \E found \in SUBSET text[r] :
       Judge(r, IF found = {} THEN scan[r]
                ELSE [kind |-> "scan", action |-> IF req[r].kind = "file" THEN "Block" ELSE "Redact",
                      sanitized |-> text[r] \ (found \ Unmaskable)], "save")
  /\ UNCHANGED << work, config, policy, changes, req, live, text, answer, shown, beatVars, histVars >>

Event(r) == [id |-> r, action |-> scan[r].action]

\* persist_inspect_event; a failure is logged and forgotten.
save_event(r) ==
  \/ config.audit /\ table' = Append(table, Event(r)) /\ UNCHANGED lost
  \/ config.audit /\ lost' = lost \cup {Event(r)} /\ UNCHANGED table
  \/ ~ config.audit /\ UNCHANGED << table, lost >>

\* Mutant: the answer goes out when there is nothing to report, unrecorded.
AnswerQuietly(r) ==
  /\ pc[r] = "save"
  /\ IF scan[r].action = "Allow" THEN UNCHANGED << table, lost >> ELSE save_event(r)
  /\ answer' = [answer EXCEPT ![r] = scan[r]]
  /\ Goto(r, "done")
  /\ UNCHANGED << work, config, policy, changes, req, live, text, scan, shown, beatVars, expiries, view >>

Answer(r) ==
  /\ pc[r] = "save"
  /\ save_event(r)
  /\ answer' = [answer EXCEPT ![r] = scan[r]]
  /\ Goto(r, "done")
  /\ UNCHANGED << work, config, policy, changes, req, live, text, scan, shown, beatVars, expiries, view >>

\* The client hangs up while the handler waits; the insert may be under way.
Disconnect(r) ==
  /\ pc[r] \in {"verdict", "save"}
  /\ \/ pc[r] = "save" /\ save_event(r)
     \/ UNCHANGED << table, lost >>
  /\ Goto(r, "gone")
  /\ UNCHANGED << work, config, policy, changes, req, live, scanVars, beatVars, expiries, view >>

-----------------------------------------------------------------------------
(* The heartbeat file: a record when it is whole *)

Whole(f) == f.kind = "whole"
Known(f) == IF Whole(f) THEN f.profiles ELSE {}

\* Mutant: what the file held is not carried over.
BeatReadAfresh(r) ==
  /\ pc[r] = "beat_read"
  /\ mine' = [mine EXCEPT ![r] = {req[r].profile} \ {""}]
  /\ before' = [before EXCEPT ![r] = Known(file)]
  /\ alone' = (IF \E o \in Reqs \ {r} : pc[o] \in {"beat_truncate", "beat_write"} THEN {} ELSE alone \cup {r})
  /\ latest' = ""
  /\ Goto(r, "beat_truncate")
  /\ UNCHANGED << work, config, policy, changes, req, live, scanVars, file, histVars >>

\* The time is taken and the file read; one that is missing or does not parse
\* counts as empty. Two heartbeats that overlap are both no longer alone.
BeatRead(r) ==
  /\ pc[r] = "beat_read"
  /\ mine' = [mine EXCEPT ![r] = Known(file) \cup ({req[r].profile} \ {""})]
  /\ before' = [before EXCEPT ![r] = Known(file)]
  /\ alone' = (IF \E o \in Reqs \ {r} : pc[o] \in {"beat_truncate", "beat_write"} THEN {} ELSE alone \cup {r})
  /\ latest' = ""
  /\ Goto(r, "beat_truncate")
  /\ UNCHANGED << work, config, policy, changes, req, live, scanVars, file, histVars >>

\* fs::write opens the file, which empties it ...
BeatTruncate(r) ==
  /\ pc[r] = "beat_truncate"
  /\ file' = [kind |-> "empty"]
  /\ Goto(r, "beat_write")
  /\ UNCHANGED << work, config, policy, changes, req, live, scanVars, mine, alone, before, latest, histVars >>

\* ... and writes from its start: over a longer text that another heartbeat
\* has put there meanwhile, the end of that text stays.
BeatWrite(r) ==
  LET own  == [kind |-> "whole", by |-> r, profiles |-> mine[r]]
      torn == [kind |-> "torn"]
      more == Cardinality(Known(file)) - Cardinality(mine[r])
  IN  /\ pc[r] = "beat_write"
      /\ \/ (file.kind = "empty" \/ (Whole(file) /\ more <= 0)) /\ file' = own
         \/ (file.kind = "torn" \/ (Whole(file) /\ more >= 0)) /\ file' = torn
      /\ latest' = r
      /\ Goto(r, "done")
      /\ UNCHANGED << work, config, policy, changes, req, live, scanVars, mine, alone, before, histVars >>

\* The file cannot be opened: logged, and the extension gets its 204.
BeatFails(r) ==
  /\ pc[r] = "beat_truncate"
  /\ Goto(r, "done")
  /\ UNCHANGED << work, config, policy, changes, req, live, scanVars, beatVars, histVars >>

-----------------------------------------------------------------------------
(* The console *)

\* query_events: the rows of the window, the most recent first.
query_events == [i \in DOMAIN table |-> table[Len(table) + 1 - i]]

Backwards(s) == [i \in DOMAIN s |-> s[Len(s) + 1 - i]]
clamp(n) == IF n < 1 THEN 1 ELSE IF n > MaxLimit THEN MaxLimit ELSE n
Least(m, n) == IF m < n THEN m ELSE n
Cut(s, skip, take) == SubSeq(s, skip + 1, Least(Len(s), skip + take))

Matches(e, action) == action \in {"", e.action}
Wanted(rows, action) == {e \in Elements(rows) : Matches(e, action)}
matching(action) == LET rows == Backwards(query_events) IN Filter(rows, Wanted(rows, action))

\* Mutant: the page is cut before the filter is applied.
PageOfAll(action, offset, limit) ==
  LET page == Cut(Backwards(query_events), offset, clamp(limit))
      rows == Filter(page, Wanted(page, action))
  IN  [rows |-> rows, has_more |-> offset + Len(rows) < Len(matching(action))]

\* ui_audit_recent: reversed, filtered, then skip and take.
ui_audit_recent(action, offset, limit) ==
  LET all  == matching(action)
      rows == Cut(all, offset, clamp(limit))
  IN  [rows |-> rows, has_more |-> offset + Len(rows) < Len(all)]

Load(v, first) ==
  LET page == ui_audit_recent(v.action, v.offset, v.limit)
      ids  == {page.rows[i] : i \in DOMAIN page.rows}
      all  == matching(v.action)
  IN  view' = [v EXCEPT !.rows = page.rows, !.more = page.has_more, !.seen = @ \cup ids,
                        !.must = IF first THEN {all[i] : i \in DOMAIN all} ELSE @]

\* The tab is opened with a filter, which is page one ...
OpenHistory ==
  /\ ~ view.open /\ config.audit
  /\ \E a \in Actions \cup {""}, n \in work.limits :
       Load([NoView EXCEPT !.open = TRUE, !.action = a, !.limit = n], TRUE)
  /\ UNCHANGED << work, config, policy, changes, pc, req, live, scanVars, beatVars, table, lost, expiries >>

\* ... Next goes on by HISTORY_PAGE_SIZE while the answer said there is more ...
NextPage ==
  /\ view.open /\ view.more
  /\ Load([view EXCEPT !.offset = @ + view.limit], FALSE)
  /\ UNCHANGED << work, config, policy, changes, pc, req, live, scanVars, beatVars, table, lost, expiries >>

\* ... and Prev goes back by it.
PrevPage ==
  /\ view.open /\ view.offset > 0
  /\ Load([view EXCEPT !.offset = IF @ > view.limit THEN @ - view.limit ELSE 0], FALSE)
  /\ UNCHANGED << work, config, policy, changes, pc, req, live, scanVars, beatVars, table, lost, expiries >>

CloseHistory ==
  /\ view.open
  /\ view' = NoView
  /\ UNCHANGED << work, config, policy, changes, pc, req, live, scanVars, beatVars, table, lost, expiries >>

\* The oldest row leaves the window of days, or the retention loop deletes it.
Expire ==
  /\ table # << >> /\ expiries < MaxExpiries
  /\ table' = Tail(table) /\ expiries' = expiries + 1
  /\ view' = [view EXCEPT !.disturbed = view.open]
  /\ UNCHANGED << work, config, policy, changes, pc, req, live, scanVars, beatVars, lost >>

Judging(r) == pc[r] \in {"upload", "scan", "fallback"}

\* ui_apply_policy (also hot reload and policy sync): the policy is replaced.
ApplyPolicy ==
  /\ changes < MaxChanges /\ changes' = changes + 1
  /\ \E p \in work.policies \ {policy} :
       /\ policy' = p
       /\ live' = [r \in Reqs |-> IF Judging(r) THEN live[r] \cup {p} ELSE live[r]]
  /\ UNCHANGED << work, config, pc, req, scanVars, beatVars, histVars >>

Handle(r) ==
  \/ CheckUpload(r) \/ ScanFile(r) \/ Fallback(r) \/ ScanText(r) \/ Ask(r) \/ Answer(r)
  \/ BeatRead(r) \/ BeatTruncate(r) \/ BeatWrite(r) \/ BeatFails(r)

Next ==
  \/ \E r \in Reqs : Arrive(r) \/ Handle(r) \/ Verdict(r) \/ Disconnect(r)
  \/ OpenHistory \/ NextPage \/ PrevPage \/ CloseHistory \/ Expire \/ ApplyPolicy

Spec == Init /\ [][Next]_vars

-----------------------------------------------------------------------------
(* Properties *)

Labels == {"idle", "refused", "upload", "scan", "fallback", "verify", "verdict", "save", "done", "gone",
           "beat_read", "beat_truncate", "beat_write"}
Scans == [kind : {"scan"}, action : Actions, sanitized : SUBSET Categories]

\* The types. What a handler answers is a verdict some route can give: its
\* action is one of Action's, its masked text one of known categories.
TypeOK ==
  /\ policy \in work.policies /\ changes \in 0 .. MaxChanges /\ pc \in [Reqs -> Labels]
  /\ scan \in [Reqs -> Scans \cup {Null}] /\ answer \in [Reqs -> Scans \cup {Null}]
  /\ text \in [Reqs -> SUBSET Categories]
  /\ file.kind \in {"absent", "empty", "torn", "whole"}

\* What reaches the AI site once the extension has the answer.
Delivered(r) ==
  IF Denied(answer[r].action) THEN {}
  ELSE IF answer[r].action = "Redact" THEN answer[r].sanitized
  ELSE IF req[r].kind = "file" THEN Everything(req[r])
  ELSE req[r].text

\* A category that every policy of the request's time guards, in text that was
\* scanned, gets out in one way only: in a file that cannot be masked, when a
\* policy of that time lets such files pass. A type the policy exempts and a
\* file that could not be read were not scanned.
GuardedStaysIn ==
  \A r \in Reqs : answer[r] # Null =>
    \A c \in Delivered(r) \cap text[r] :
      \/ \E p \in live[r] : ~ Guarded(p, c)
      \/ /\ req[r].kind = "file" /\ effective_extension(req[r]) \notin PlainText
         /\ \E p \in live[r] : p.unmaskable \in {"Allow", "Audit", "Warn"}

\* The pages OCR can get at: a picture, or those of a PDF that is mostly pictures.
ReadablePages(f) ==
  {i \in DOMAIN f.pages : /\ f.pages[i].ok /\ f.head \in Signatures /\ config.ocr.engine
                         /\ \/ f.format = "image" /\ i = 1
                            \/ f.format = "pdf" /\ ~ f.dense /\ config.ocr.pdfium /\ i <= MAX_OCR_PAGES}

\* A picture or a scanned PDF is read however it is named (the upload that is
\* called "blob"): a category that every policy of the request's time guards
\* gets out on such a page only if one of them exempts the type of the bytes or
\* lets a file that cannot be masked pass.
PicturesAreRead ==
  \A r \in Reqs : answer[r] # Null /\ req[r].kind = "file" =>
    \A i \in ReadablePages(req[r]) : \A c \in req[r].pages[i].text \cap Delivered(r) :
      \E p \in live[r] :
        ~ Guarded(p, c) \/ upload_action(p, req[r].head) = "Allow" \/ p.unmaskable \in {"Allow", "Audit", "Warn"}

\* Masked text replaces the bytes of an upload only where these were read as
\* text as they are, and is then all that this text showed but what was masked:
\* bytes with a signature, and what a parser took out of a document, are never
\* answered with Redact. A document under the name of a text is; see
\* MaskedFilesAreText.
MaskedFilesArePlain ==
  \A r \in Reqs : answer[r] # Null /\ req[r].kind = "file" /\ answer[r].action = "Redact" =>
    /\ effective_extension(req[r]) \in PlainText /\ req[r].head \notin Signatures
    /\ text[r] = req[r].raw
    /\ \E p \in live[r] : answer[r] = inspect(p, req[r].raw)

\* The verifier, which is another party, is sent no category that every policy
\* of the request's time guards, except out of a file that a policy of that
\* time let pass although it could not be masked (VerifierNeverSeesFindings
\* says that the code's comment denies this). Answers it never sees.
VerifierSeesNoGuarded ==
  \A r \in Reqs : shown[r] # Null =>
    /\ req[r].kind # "response"
    /\ \A c \in shown[r].text :
         \/ \E p \in live[r] : ~ Guarded(p, c)
         \/ req[r].kind = "file" /\ \E p \in live[r] : p.unmaskable = "Allow"

\* Whoever has an answer left an event with the same action, unless the save
\* failed or there is no database; one that expired was there.
AnswersAreOnRecord ==
  \A r \in Reqs : answer[r] # Null /\ config.audit /\ expiries = 0 =>
    [id |-> r, action |-> answer[r].action] \in lost \cup {table[i] : i \in DOMAIN table}

\* A heartbeat that overlaps no other leaves a whole file with its own profile
\* and every profile that was there, also when it found the file torn.
LoneBeatLands ==
  latest # "" /\ latest \in alone =>
    /\ Whole(file) /\ file.by = latest
    /\ file.profiles = before[latest] \cup ({req[latest].profile} \ {""})

\* Who pages to the end of the history has seen every row that matched when it
\* was opened, while events arrive, as long as none leaves the window.
PagesMissNothing ==
  view.open /\ ~ view.more /\ ~ view.disturbed => view.must \subseteq view.seen

\* The comment in ui_audit_recent: "Newest-first": the first row of the first
\* page is the latest matching event. The code reverses what query_events
\* already returns with the most recent first, and shows the oldest.
HistoryNewestFirst ==
  [][LET late == {i \in DOMAIN table : Matches(table[i], view'.action)}
     IN  ~ view.open /\ view'.open /\ late # {}
           => view'.rows[1] = table[CHOOSE i \in late : \A j \in late : j <= i]]_vars

\* The comment on is_text_redactable_extension: for the extensions it names
\* extract_text is "a lossless read, not a structural extraction", so masked
\* text is a complete replacement for the bytes. Bytes of any format under such
\* a name are read with from_utf8_lossy, and replaced.
MaskedFilesAreText ==
  \A r \in Reqs : answer[r] # Null /\ req[r].kind = "file" /\ answer[r].action = "Redact"
    => req[r].format = "plain"

\* The comment on apply_llm_verify: "if local detection found anything at all
\* ... this never gets a chance to see whatever text local detection
\* redacted/blocked". With unmaskable_file_action Allow the verdict Redact on
\* a file becomes Allow, and its text is sent.
VerifierNeverSeesFindings ==
  \A r \in Reqs : shown[r] # Null => \E p \in live[r] : inspect(p, shown[r].text).action = "Allow"

\* Nothing guarded gets past the local API: not in a verdict, not in a picture
\* under another name, not in a file masked in part, not to the language model
\* (inspect, inspect_response, inspect_file_request, verify).
GuardedNeverEscapes ==
  TypeOK /\ GuardedStaysIn /\ PicturesAreRead /\ MaskedFilesArePlain /\ VerifierSeesNoGuarded

\* The console's history has every answer that was given, on some page.
HistoryComplete == AnswersAreOnRecord /\ PagesMissNothing
=============================================================================
