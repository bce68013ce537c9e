---------------------------- MODULE MCExtension -----------------------------
(* Three pages and a service worker: a composer whose submissions overlap,  *)
(* uploads and telemetry of every form, answers, and the sync of sites.     *)
EXTENDS Extension

File(T, plain) == [Part(T, TRUE, TRUE) EXCEPT !.plain = plain]
Keyed(T) == [File(T, TRUE) EXCEPT !.key = 1]    \* of the field that takes several files
Field == [Part({"Pii"}, FALSE, TRUE) EXCEPT !.key = 2]
Body(form, parts) == [form |-> form, parts |-> parts]
Req(via, form, parts) == [via |-> via, body |-> Body(form, parts)]
Shape(via, form, top, more) == [via |-> via, form |-> form, top |-> top, more |-> more]

Default == default_policy
Strict == [default_policy EXCEPT !.actions["Pii"] = "RequireApproval", !.actions["Secret"] = "Redact", !.unmaskable = "Allow"]
Lax == [default_policy EXCEPT !.actions["Pii"] = "Audit", !.detectors["Secret"] = FALSE, !.unmaskable = "Redact"]

Empty ==
  [policies |-> {Default}, texts |-> {}, edits |-> 0, presses |-> 0, stale |-> FALSE, buttons |-> {}, shapes |-> {},
   calls |-> 0, requests |-> {}, replies |-> {}, lists |-> {}, cap |-> 0, fails |-> 1]

Opaque == Body("opaque", << >>)

\* Two submissions of one composer, edited while the first is being scanned.
Chat ==
  [Empty EXCEPT !.policies = {Strict}, !.fails = 0, !.texts = {{"Secret"}, {"Pii", "Secret"}}, !.edits = 2, !.presses = 2,
     !.buttons = {"sends", "other", "disabled"}, !.replies = {Opaque},
     !.shapes = {Shape("fetch", "json", TRUE, << Part({"Pii"}, TRUE, FALSE) >>)}]

\* One submission on a page whose selectors may be out of date, in every shape.
Sites ==
  [Empty EXCEPT !.policies = {Default, Strict, Lax}, !.texts = {{"Secret"}, {"Pii", "Toxicity"}}, !.edits = 1, !.presses = 1,
     !.stale = TRUE, !.buttons = {"sends"}, !.replies = {Opaque},
     !.shapes = {Shape("fetch", "json", FALSE, << Part({"Pii"}, TRUE, FALSE) >>), Shape("fetch", "text", TRUE, << >>),
                 Shape("fetch", "gzip", TRUE, << Part({}, FALSE, FALSE) >>), Shape("xhr", "json", TRUE, << >>)}]

\* What else a page sends.
Uploads ==
  [Empty EXCEPT !.policies = {Default, Strict, Lax}, !.calls = 1,
     !.replies = {Body("json", << Part({"Pii"}, TRUE, FALSE), Part({"Secret"}, TRUE, FALSE) >>),
                  Body("text", << Part({"Secret", "Toxicity"}, FALSE, FALSE) >>), Body("json", << >>), Opaque},
     !.requests = {Req("fetch", "form", << File({"Secret"}, FALSE), Field, Keyed({"Pii"}) >>),
                   Req("xhr", "form", << File({"Secret"}, TRUE), [Keyed({"Pii"}) EXCEPT !.fits = FALSE] >>),
                   Req("fetch", "bytes", << File({"Pii"}, FALSE) >>), Req("request", "bytes", << File({"Secret"}, TRUE) >>),
                   Req("xhr", "form", << Keyed({"Secret"}), Keyed({}), Keyed({"Pii"}), File({}, TRUE) >>),
                   Req("request", "json", << Part({"Pii"}, TRUE, TRUE) >>),
                   Req("request", "text", << Part({"Secret"}, FALSE, FALSE) >>),
                   Req("xhr", "gzip", << Part({"Secret"}, TRUE, TRUE), Part({}, FALSE, FALSE) >>),
                   Req("fetch", "gzip", << Part({"Pii"}, FALSE, FALSE) >>), Req("fetch", "json", << Part({}, FALSE, FALSE) >>),
                   Req("fetch", "opaque", << >>)}]

\* Two requests at a time, so that an answer may come late.
Overlap ==
  [Empty EXCEPT !.calls = 2, !.replies = {Body("text", << Part({"Pii"}, FALSE, FALSE) >>)},
     !.requests = {Req("fetch", "json", << Part({"Secret"}, TRUE, TRUE) >>), Req("xhr", "text", << Part({}, FALSE, FALSE) >>)}]

\* Edits of the list while two syncs run.
Syncing ==
  [Empty EXCEPT !.cap = 3, !.lists = {<< "claude.ai", "a", "b" >>, << "a", "c", "n", "b" >>, << "b" >>}]

MCWorkloads == {Chat, Sites, Uploads, Overlap, Syncing}
MCBuiltin == {"claude.ai"}
MCPermitted == {"a", "b", "c", "claude.ai"}
=============================================================================
