---------------------------- MODULE MCLocalApi ------------------------------
(* Two scans and three heartbeats in any order, over files of every format  *)
(* under right and wrong names, beside a console that pages the history.    *)
EXTENDS LocalApi

NoPages == << >>
Page(T) == [text |-> T, blank |-> FALSE, ok |-> TRUE]
File(name, head, format, layer, pages) ==
  [kind |-> "file", decodes |-> TRUE, name |-> name, head |-> head, format |-> format,
   layer |-> layer, raw |-> IF format = "plain" THEN layer ELSE {}, split |-> {}, dense |-> TRUE, pages |-> pages]

Uploads ==
  { File("txt", "", "plain", {"Secret", "Toxicity"}, NoPages),
    File("txt", "bmp", "plain", {"Secret"}, NoPages),
    [File("docx", "", "docx", {"Pii", "Secret"}, NoPages) EXCEPT !.split = {"Pii"}],
    [File("txt", "", "docx", {"Pii"}, NoPages) EXCEPT !.raw = {"Secret"}],
    File("bin", "jpg", "image", {}, << Page({"Pii"}) >>),
    File("jpeg", "jpg", "image", {}, << [Page({"Pii"}) EXCEPT !.ok = FALSE] >>),
    [File("pdf", "pdf", "pdf", {"Secret"}, << Page({"Pii"}), Page({"Secret"}) >>) EXCEPT !.dense = FALSE],
    [File("pdf", "pdf", "pdf", {}, << Page({"Pii"}), Page({"Secret"}) >>) EXCEPT !.dense = FALSE],
    File("xlsx", "", "office", {"Toxicity"}, NoPages),
    [File("txt", "", "plain", {}, NoPages) EXCEPT !.decodes = FALSE] }

Prompt(kind, T) == [kind |-> kind, text |-> T]
Prompts == {Prompt("inspect", T) : T \in {{}, {"Secret"}, {"Toxicity", "Pii"}}} \cup {Prompt("response", {"Pii"})}
Beat(p) == [kind |-> "heartbeat", profile |-> p]

Default == default_policy
Lax == [default_policy EXCEPT !.actions["Secret"] = "Block", !.unmaskable = "Allow", !.detectors["Pii"] = FALSE,
                              !.uploads = [e \in {"jpg", "xlsx"} |-> IF e = "jpg" THEN "Allow" ELSE "Block"]]
Odd == [default_policy EXCEPT !.unmaskable = "Redact", !.detectors["Toxicity"] = FALSE]

C(audit, verifier, engine) ==
  [audit |-> audit, verifier |-> verifier, ocr |-> [engine |-> engine, pdfium |-> engine]]
MCConfigs == {C(TRUE, TRUE, TRUE), C(FALSE, FALSE, FALSE)}

E(i, a) == [id |-> i, action |-> a]
NoFile == [kind |-> "absent"]

\* Uploads and prompts while the policy changes.
Scanning ==
  [offered |-> [r \in Reqs |-> CASE r = "r1" -> Uploads \cup Prompts [] r = "r2" -> {Prompt("inspect", {"Pii"})} [] OTHER -> {}],
   policies |-> {Default, Lax, Odd}, limits |-> {}, table |-> << >>, file |-> NoFile]

\* Three heartbeats, of two profiles and of a build that sends none.
Beating3(f) ==
  [offered |-> [r \in Reqs |-> CASE r = "r1" -> {Beat("A")} [] r = "r2" -> {Beat("B")} [] OTHER -> {Beat("")}],
   policies |-> {Default}, limits |-> {}, table |-> << >>, file |-> f]

\* A console beside two prompts.
Browsing ==
  [offered |-> [r \in Reqs |-> IF r = "r3" THEN {} ELSE {Prompt("inspect", {}), Prompt("response", {"Pii"})}],
   policies |-> {Default}, limits |-> {1, 2}, file |-> NoFile,
   table |-> << E("e1", "Allow"), E("e2", "Allow"), E("e3", "Redact") >>]

MCWorkloads == {Scanning, Browsing}
   \cup {Beating3(f) : f \in {NoFile, [kind |-> "torn"], [kind |-> "whole", by |-> "old", profiles |-> {"Z"}]}}
=============================================================================
