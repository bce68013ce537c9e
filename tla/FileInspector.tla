---------------------------- MODULE FileInspector ---------------------------
(***************************************************************************)
(* crates/file_inspector and crates/ocr: the text that is pulled out of an *)
(* uploaded file.                                                          *)
(*                                                                         *)
(* A file is what its bytes hold: its format, the categories in its text   *)
(* layer (split names those whose characters lie in two w:t runs), those   *)
(* that show when the bytes are taken for text as they are (raw), whether  *)
(* the layer has MIN_MEANINGFUL_PDF_TEXT_CHARS alphanumerics (dense), its  *)
(* page images, the signature it begins with, and the extension of its     *)
(* name, which the client chose.                                           *)
(***************************************************************************)
EXTENDS Integers, Sequences

CONSTANT MAX_OCR_PAGES

ASSUME PagesAssumption == MAX_OCR_PAGES \in Nat \ {0}

PlainText == {"txt", "md", "csv", "json", "log", "yaml", "yml", "xml", "html", "htm"}
IMAGE_EXTENSIONS == {"png", "jpg", "jpeg", "bmp", "tiff", "tif", "webp", "gif"}
AnyDoc == {"doc", "ppt", "pptx", "xls", "xlsx", "odt", "ods", "odp", "rtf", "epub"}

\* The leading bytes decide. A bmp's are the two letters BM, so a text that
\* happens to begin with them counts as an image.
Signatures == {"png", "jpg", "gif", "pdf", "bmp", "tif", "webp"}
sniff_extension(f) == IF f.head \in Signatures THEN f.head ELSE ""

Text(T) == [kind |-> "Text", text |-> T]
Unsupported == [kind |-> "Unsupported"]

\* Each w:t run is followed by a space, which breaks what two runs hold.
extract_docx(f) == f.layer \ f.split

\* OcrEngine::extract_text on a page: what it reads, nothing when the page
\* cannot be rendered or recognised.
ocr_page(page) == IF page.ok THEN page.text ELSE {}
ocr_blank(page) == page.blank \/ ~ page.ok

\* The text layer, or, when it is sparse and there is an engine, what OCR
\* reads on the first pages, unless that is nothing.
extract_pdf(f, ocr) ==
  LET read == {i \in DOMAIN f.pages : i <= MAX_OCR_PAGES /\ ~ ocr_blank(f.pages[i])}
  IN  IF f.dense \/ ~ ocr.engine \/ ~ ocr.pdfium \/ read = {} THEN f.layer
      ELSE UNION {ocr_page(f.pages[i]) : i \in read}

\* The extension picks the parser; a parser fails on another format's bytes,
\* except that any bytes can be read as text (String::from_utf8_lossy).
extract_text(ext, f, ocr) ==
  CASE ext \in PlainText -> Text(f.raw)
    [] ext \in {"docx", "docm"} /\ f.format = "docx" -> Text(extract_docx(f))
    [] ext = "pdf" /\ f.format = "pdf" -> Text(extract_pdf(f, ocr))
    [] ext \in IMAGE_EXTENSIONS /\ f.format = "image" /\ ocr.engine /\ f.pages[1].ok -> Text(f.pages[1].text)
    [] ext \in AnyDoc /\ f.format = "office" -> Text(f.layer)
    [] OTHER -> Unsupported

\* Everything a reader of the file can see.
Everything(f) == f.layer \cup f.raw \cup UNION {f.pages[i].text : i \in DOMAIN f.pages}
=============================================================================
