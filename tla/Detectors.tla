----------------------------- MODULE Detectors ------------------------------
(***************************************************************************)
(* The scanners that turn a text into findings: secrets, prompt injection, *)
(* PII, content safety, entropy and the tenant's own keywords.             *)
(*                                                                         *)
(* A text is a sequence of atoms, an atom a run of characters no pattern   *)
(* divides. What the regular expressions accept is a constant: Regex gives *)
(* for each pattern the atom sequences it matches (for a pattern that ends *)
(* in \S+ the part before it), Checked the ones whose checksum or entropy  *)
(* is accepted. What the code does with the matches is modelled: word      *)
(* boundaries, greedy tails, checksum and context gates, severities, the   *)
(* order of the findings, and the arithmetic of the keyword scan.          *)
(***************************************************************************)
EXTENDS Filtering

CONSTANTS
  Regex,      \* [pattern name -> set of atom sequences]
  Checked,    \* atom sequences that pass their checksum or entropy test
  Context,    \* [keyword list -> set of atoms]
  Window,     \* WINDOW, in atoms
  Spaces,     \* atoms that are white space
  Newline,    \* the one of them that ends a line
  Words,      \* atoms that begin and end with a word character
  Lower,      \* [atom -> its lower-case form, a sequence of atoms]
  Upper       \* [atom -> its upper-case form, an atom]

\* One pattern: what it reports, where it must stand, and what it asks for.
\* edge: "word" for \b...\b, "free" for none, "tail" for \b...\S+,
\*       "wordtail" for \b...\S+\b, "line" for (?m)^...$
\* gate: "always", "checked", a keyword list that must be near, or a list
\*       that raises MEDIUM to HIGH when near ("boost"), or "first" match only
P(name, category, severity, edge, gate, list, mask) ==
  [name |-> name, category |-> category, severity |-> severity, edge |-> edge,
   gate |-> gate, list |-> list, mask |-> mask]

Plain(name, category, severity, mask) == P(name, category, severity, "word", "always", "", mask)

secret_patterns ==
  LET S(name, severity, edge, mask) == P(name, "Secret", severity, edge, "always", "", mask)
  IN << S("AWS_ACCESS_KEY", "CRITICAL", "word", "[AWS_KEY]"),   \* and _TEMPORARY
        S("AWS_SECRET_ACCESS_KEY", "CRITICAL", "tail", "[AWS_SECRET]"),
        S("AWS_SESSION_TOKEN", "CRITICAL", "tail", "[AWS_SESSION_TOKEN]"),
        S("OPENAI_API_KEY", "CRITICAL", "word", "[API_KEY]"),
        S("JWT_BEARER_TOKEN", "HIGH", "word", "[JWT]"),
        S("PRIVATE_RSA_KEY", "CRITICAL", "free", "[PRIVATE_KEY]"),
        S("ANTHROPIC_API_KEY", "CRITICAL", "word", "[API_KEY]"),
        S("GCP_API_KEY", "CRITICAL", "word", "[API_KEY]"),
        S("AZURE_SECRET", "HIGH", "wordtail", "[SECRET]"),
        S("PASSWORD_CONTEXT", "HIGH", "wordtail", "[PASSWORD]"),
        S("DB_CONNECTION_STRING", "CRITICAL", "wordtail", "[DB_CONNECTION]"),
        S("CRYPTO_WALLET", "HIGH", "word", "[WALLET]") >>

\* Every injection phrase is HIGH and has no replacement.
prompt_patterns == << P("INJECTION", "PromptInjection", "HIGH", "free", "always", "", "") >>

\* identity numbers, checksums and internal names
pii_patterns_1 ==
  << P("EMAIL_ADDRESS", "Pii", "MEDIUM", "free", "always", "", "[EMAIL]"),
     Plain("PHONE_NUMBER", "Pii", "MEDIUM", "[PHONE]"),
     Plain("PAN_CARD", "Pii", "HIGH", "[PAN]"),
     P("AADHAAR_NUMBER", "Pii", "HIGH", "word", "checked", "", "[AADHAAR]"),
     Plain("US_SSN", "Pii", "HIGH", "[SSN]"),
     P("CREDIT_CARD", "Financial", "HIGH", "word", "checked", "", "[CARD]"),
     P("IBAN_CODE", "Financial", "HIGH", "word", "checked", "", "[IBAN]"),
     P("ABA_ROUTING_NUMBER", "Financial", "MEDIUM", "word", "checked", "", "[ROUTING]"),
     Plain("INTERNAL_URL", "Internal", "LOW", "[INTERNAL_URL]") >>

\* the passport registry and the machine-readable zone
passport_patterns ==
  LET Weak(name) == P(name, "Pii", "HIGH", "word", "context", "passport", "[PASSPORT]")
  IN << P("PASSPORT_NUMBER_IN", "Pii", "MEDIUM", "word", "boost", "passport", "[PASSPORT]"),
        Weak("PASSPORT_NUMBER_US"), Weak("PASSPORT_NUMBER_GB"), Weak("PASSPORT_NUMBER_KR"),
        Weak("PASSPORT_NUMBER_CA"), Weak("PASSPORT_NUMBER_AU"),
        P("PASSPORT_MRZ", "Pii", "HIGH", "line", "checked", "", "[MRZ]") >>

pii_patterns_2 ==
  << P("GSTIN", "Financial", "HIGH", "word", "checked", "", "[GSTIN]"),
     P("DATE_OF_BIRTH", "Pii", "HIGH", "word", "context", "dob", "[DOB]"),
     P("US_EIN", "Pii", "HIGH", "word", "context", "ein", "[EIN]"),
     P("US_DRIVER_LICENSE", "Pii", "HIGH", "word", "context", "driver", "[DRIVER_LICENSE]"),
     P("MEDICARE_MBI", "Pii", "MEDIUM", "word", "boost", "medicare", "[MEDICARE_ID]"),
     P("MEDICARE_MBI_NODASH", "Pii", "HIGH", "word", "context", "medicare", "[MEDICARE_ID]"),   \* reported as MEDICARE_MBI
     Plain("US_STREET_ADDRESS", "Pii", "MEDIUM", "[ADDRESS]") >>

pii_patterns == pii_patterns_1 \o passport_patterns \o pii_patterns_2

\* Content safety: the first match of each expression, never a replacement.
guardrail_patterns ==
  LET T(name, severity) == P(name, "Toxicity", severity, "word", "first", "", "")
  IN << T("THREAT_OF_VIOLENCE", "CRITICAL"), T("SELF_HARM_IDEATION", "CRITICAL"),
        T("HARASSMENT", "HIGH"), T("PROFANITY", "LOW") >>

\* A hexadecimal run is never judged a second time as base64.
entropy_patterns ==
  << P("HIGH_ENTROPY_HEX", "Secret", "MEDIUM", "word", "checked", "", "[HIGH_ENTROPY]"),
     P("HIGH_ENTROPY_BASE64", "Secret", "MEDIUM", "free", "checked", "", "[HIGH_ENTROPY]") >>

-----------------------------------------------------------------------------
\* is_word_boundary: position i holds no word character (or lies outside).
is_word_boundary(t, i) == i \notin DOMAIN t \/ t[i] \notin Words

is_line_end(t, i) == i \notin DOMAIN t \/ t[i] = Newline

\* The window reaches over the match and both its sides.
has_context_keyword(t, i, j, list) ==
  \E k \in DOMAIN t : k + Window >= i /\ k <= j + Window /\ t[k] \in Context[list]

\* Ends of the regular expression's own matches that start at position i.
body_ends(p, t, i) ==
  {i + Len(w) - 1 : w \in {v \in Regex[p.name] : i + Len(v) - 1 <= Len(t) /\ SubSeq(t, i, i + Len(v) - 1) = v}}

\* \S+ takes everything up to white space; \b then gives back what follows
\* the last word character.
tail_ends(p, t, i) ==
  {e \in i .. Len(t) :
     \E j \in body_ends(p, t, i) :
       /\ e > j
       /\ \A k \in (j + 1) .. e : t[k] \notin Spaces
       /\ p.edge = "wordtail" => t[e] \in Words}

\* Where a match that starts at i ends: the longest, 0 if there is none.
match_end(p, t, i) ==
  LET tailed == p.edge \in {"tail", "wordtail"}
      ends   == {e \in IF tailed THEN tail_ends(p, t, i) ELSE body_ends(p, t, i) :
                   /\ p.edge = "line" => is_line_end(t, i - 1) /\ is_line_end(t, e + 1)
                   /\ p.edge \notin {"free", "line"} => is_word_boundary(t, i - 1)
                   /\ p.edge = "word" => is_word_boundary(t, e + 1)}
  IN  CHOOSE e \in ends \cup {0} : \A f \in ends : f <= e

\* find_iter continues behind a match, so none starts inside another.
starts_match(p, t, i) ==
  /\ match_end(p, t, i) # 0
  /\ \A k \in 1 .. (i - 1) : match_end(p, t, k) < i

passes_gate(p, t, i) ==
  LET snippet == SubSeq(t, i, match_end(p, t, i))
  IN CASE p.gate = "checked" -> snippet \in Checked
       [] p.gate = "context" -> has_context_keyword(t, i, match_end(p, t, i), p.list)
       [] p.gate = "first"   -> \A k \in 1 .. (i - 1) : SubSeq(t, k, match_end(p, t, k)) # snippet
       [] OTHER -> TRUE

finding_at(p, t, i) ==
  LET j == match_end(p, t, i)
  IN [category |-> p.category, match_name |-> p.name, snippet |-> SubSeq(t, i, j),
      severity |-> IF p.gate = "boost" /\ has_context_keyword(t, i, j, p.list)
                   THEN "HIGH" ELSE p.severity,
      redacted_replacement |-> IF p.mask = "" THEN << >> ELSE << p.mask >>]

\* Findings pattern by pattern, within a pattern from left to right.
scan(patterns, t) ==
  LET at(p) == Filter(Indices(t), {i \in DOMAIN t : starts_match(p, t, i) /\ passes_gate(p, t, i)})
      of    == [p \in {patterns[k] : k \in DOMAIN patterns} |->
                  [h \in 1 .. Len(at(p)) |-> finding_at(p, t, at(p)[h])]]
      upto[k \in 0 .. Len(patterns)] == IF k = 0 THEN << >> ELSE upto[k - 1] \o of[patterns[k]]
  IN  upto[Len(patterns)]

-----------------------------------------------------------------------------
(* The tenant's keywords *)

\* to_lowercase: a character may become several.
to_lowercase(t) ==
  LET upto[i \in 0 .. Len(t)] == IF i = 0 THEN << >> ELSE upto[i - 1] \o Lower[t[i]]
  IN  upto[Len(t)]

haystack(t, r) == IF r.case_sensitive THEN t ELSE to_lowercase(t)
needle(r) == IF r.case_sensitive THEN << r.pattern >> ELSE Lower[r.pattern]

\* Where the keyword stands as a word of its own.
keyword_starts(t, r) ==
  LET h == haystack(t, r)
      stands(i) == LET e == i + Len(needle(r)) - 1
                   IN  /\ e <= Len(h) /\ SubSeq(h, i, e) = needle(r)
                       /\ is_word_boundary(h, i - 1) /\ is_word_boundary(h, e + 1)
  IN  Filter(Indices(h), {i \in DOMAIN h : stands(i)})

\* Some character has another length in lower case.
Shifts(t) == \E i \in DOMAIN t : Len(Lower[t[i]]) # 1

\* Offsets found in the lower-cased text are used to cut the text itself:
\* text[start..end] panics beyond its end.
keyword_scan_panics(t, rules) ==
  \E k \in DOMAIN rules : \E s \in DOMAIN keyword_starts(t, rules[k]) :
    keyword_starts(t, rules[k])[s] + Len(needle(rules[k])) - 1 > Len(t)

\* So does a cut inside a character, which no atom shows: with offsets that
\* have shifted it may happen or not.
keyword_scan_may_panic(t, rules) ==
  \E k \in DOMAIN rules : Shifts(t) /\ ~ rules[k].case_sensitive /\ keyword_starts(t, rules[k]) # << >>

\* Mutant: the snippet starts at the character before the keyword.
KeywordCutEarly(t, r, i) ==
  [category |-> "CustomKeyword", match_name |-> r.pattern,
   snippet |-> SubSeq(t, IF i > 1 THEN i - 1 ELSE i, i + Len(needle(r)) - 1), severity |-> "MEDIUM",
   redacted_replacement |-> << "[", Upper[r.pattern], "]" >>]

keyword_finding(t, r, i) ==
  [category |-> "CustomKeyword", match_name |-> r.pattern,
   snippet |-> SubSeq(t, i, i + Len(needle(r)) - 1), severity |-> "MEDIUM",
   redacted_replacement |-> << "[", Upper[r.pattern], "]" >>]

scan_custom_keywords(t, rules) ==
  LET of(r) == LET s == keyword_starts(t, r) IN [i \in 1 .. Len(s) |-> keyword_finding(t, r, s[i])]
      upto[k \in 0 .. Len(rules)] == IF k = 0 THEN << >> ELSE upto[k - 1] \o of(rules[k])
  IN  upto[Len(rules)]
=============================================================================
