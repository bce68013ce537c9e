----------------------------- MODULE Inspection -----------------------------
(***************************************************************************)
(* One inspection of one body: Inspector::inspect and inspect_response     *)
(* (with and without a risk context), from the detectors through the       *)
(* policy engine to the masked body that is forwarded instead.             *)
(*                                                                         *)
(* A body is plain text or JSON. JSON is its leaves in document order;     *)
(* wire(b) is the text the scanners see, with the leaves' escapes and the  *)
(* punctuation and keys between them, and apply_redactions works on the    *)
(* parsed string leaves. The policy is fixed: the read lock is held from   *)
(* the first scan to the masked body (module PolicyStore).                 *)
(***************************************************************************)
EXTENDS PolicyEngine, Detectors

CONSTANTS
  Policies,          \* the policies an installation may have
  Bodies,            \* the bodies that are inspected
  Contexts,          \* the risk contexts callers pass
  Escape,            \* [atom -> how a JSON string spells it]
  ner_patterns,      \* the licensed NER scanner's patterns, << >> without it
  attack_patterns,   \* the advanced attack scanner's, << >> without it
  EntropyLicensed,   \* whether the entropy scanner was configured
  ResponseLicences,  \* values of response_scanning_enabled
  MaxClock           \* bound: the clock only matters to the pause

-----------------------------------------------------------------------------
(* What the constants are *)

IsSequence(s) == s \in Seq(Elements(s))

\* Post-order: a node comes behind its children.
IsNode(n, k) ==
  \/ n.kind \in {"And", "Or"} /\ n.of \subseteq 1 .. (k - 1)
  \/ n.kind = "Not" /\ n.of \in 1 .. (k - 1)
  \/ n.kind \in {"CategoryDetected", "PublicAiApp"}
  \/ /\ n.kind \in {"CategoryCountAtLeast", "RiskScoreAtLeast", "RiskBandAtLeast",
                     "DeviceViolationsAtLeast", "UserViolationsAtLeast"}
     /\ n.min \in Nat

IsCondition(nodes) == IsSequence(nodes) /\ nodes # << >> /\ \A k \in DOMAIN nodes : IsNode(nodes[k], k)

\* The atoms there are: those with a lower-case form.
Vocabulary == DOMAIN Lower

\* Empty keywords are skipped, and lower-casing empties none.
IsKeyword(r) == r.action \in Actions /\ r.pattern \in Vocabulary /\ Lower[r.pattern] # << >>

IsPolicy(p) ==
  /\ p.default_action \in Actions /\ \A c \in DOMAIN p.actions : p.actions[c] \in Actions
  /\ IsSequence(p.keywords) /\ \A k \in DOMAIN p.keywords : IsKeyword(p.keywords[k])
  /\ IsSequence(p.rules)
  /\ \A r \in DOMAIN p.rules : p.rules[r].action \in Actions /\ IsCondition(p.rules[r].nodes)

\* The counters are u32, the sensitivity a percentage.
IsContext(ctx) ==
  /\ ctx.device \in 0 .. U32Max /\ ctx.user \in 0 .. U32Max
  /\ ctx.sensitivity \in 0 .. 100 /\ ctx.public_ai_app \in BOOLEAN

\* A text is its only leaf; JSON may have none.
IsBody(b) ==
  /\ IsSequence(b.leaves) /\ (~ b.json => Len(b.leaves) > 0)
  /\ \A i \in DOMAIN b.leaves : b.leaves[i] \in [kind : STRING, text : Seq(Vocabulary)]

\* No scanner is the keyword scan.
IsScanner(patterns) ==
  IsSequence(patterns) /\ \A p \in Elements(patterns) : p.category # "CustomKeyword"

ASSUME PolicyAssumption == \A p \in Policies : IsPolicy(p)
ASSUME ContextAssumption == \A ctx \in Contexts : IsContext(ctx)
ASSUME BodyAssumption == \A b \in Bodies : IsBody(b)
ASSUME VocabularyAssumption ==
  /\ Lower \in [Vocabulary -> Seq(Vocabulary)] /\ Escape \in [Vocabulary -> Vocabulary]
  /\ {"punct", "key", "sp"} \subseteq Vocabulary
ASSUME ScannerAssumption == IsScanner(ner_patterns) /\ IsScanner(attack_patterns)
ASSUME InstallationAssumption == ResponseLicences \subseteq BOOLEAN /\ MaxClock \in Nat

VARIABLES
  engine,                      \* the live policy
  response_scanning_enabled,
  clock,                       \* wall clock, for is_paused
  last                         \* the inspection just answered, or Idle

inspectionVars == << engine, response_scanning_enabled, clock, last >>

Idle == [dir |-> "none"]

-----------------------------------------------------------------------------
(* Bodies *)

IsString(leaf) == leaf.kind \in {"string", "text"}

leaf_wire(leaf) ==
  IF leaf.kind = "string" THEN [i \in 1 .. Len(leaf.text) |-> Escape[leaf.text[i]]] ELSE leaf.text

\* {"k":leaf,"k":leaf}, with or without spaces.
wire(b) ==
  LET open == IF b.compact THEN << "punct", "key", "punct" >> ELSE << "punct", "sp", "key", "punct", "sp" >>
      upto[i \in 0 .. Len(b.leaves)] == IF i = 0 THEN << >> ELSE upto[i - 1] \o open \o leaf_wire(b.leaves[i])
  IN  IF b.json THEN upto[Len(b.leaves)] \o << "punct" >> ELSE b.leaves[1].text

StandsAt(s, t, k) == k + Len(s) - 1 <= Len(t) /\ SubSeq(t, k, k + Len(s) - 1) = s

\* str::replace
replace(t, snippet, by) ==
  LET from[i \in 1 .. (Len(t) + 1)] ==
        IF i > Len(t) THEN << >>
        ELSE IF StandsAt(snippet, t, i) THEN by \o from[i + Len(snippet)]
        ELSE << t[i] >> \o from[i + 1]
  IN  from[1]

\* Mutant: a finding without a replacement ends the loop.
RedactUntilUnmaskable(t, fs) ==
  LET after[k \in 0 .. Len(fs)] ==
        IF k = 0 THEN t
        ELSE IF \E j \in 1 .. k : fs[j].redacted_replacement = << >> THEN after[k - 1]
        ELSE replace(after[k - 1], fs[k].snippet, fs[k].redacted_replacement)
  IN  after[Len(fs)]

\* One finding after the other, each on what the ones before it left.
redact_string(t, fs) ==
  LET after[k \in 0 .. Len(fs)] ==
        IF k = 0 THEN t
        ELSE IF fs[k].redacted_replacement = << >> THEN after[k - 1]
        ELSE replace(after[k - 1], fs[k].snippet, fs[k].redacted_replacement)
  IN  after[Len(fs)]

\* Mutant: numbers are redacted too.
RedactEveryLeaf(b, fs) ==
  [b EXCEPT !.leaves = [i \in DOMAIN b.leaves |-> [b.leaves[i] EXCEPT !.text = redact_string(@, fs)]]]

\* String leaves only; JSON is written again without spaces.
apply_redactions(b, fs) ==
  [json |-> b.json, compact |-> TRUE,
   leaves |-> [i \in DOMAIN b.leaves |->
     IF IsString(b.leaves[i]) THEN [b.leaves[i] EXCEPT !.text = redact_string(@, fs)] ELSE b.leaves[i]]]

-----------------------------------------------------------------------------
(* Detection *)

\* Each scanner runs over the whole text, in this order.
entropy_scanner == IF EntropyLicensed THEN entropy_patterns ELSE << >>

request_scanners ==
  secret_patterns \o prompt_patterns \o attack_patterns \o pii_patterns
    \o guardrail_patterns \o ner_patterns \o entropy_scanner

\* ResponseFilter looks for secrets and PII; injections do not apply.
response_filter == secret_patterns \o pii_patterns

response_scanners == response_filter \o guardrail_patterns \o ner_patterns \o entropy_scanner

\* What a pattern matches is not empty.
ASSUME RegexAssumption ==
  \A p \in Elements(request_scanners) \cup Elements(response_scanners) :
    \A w \in Regex[p.name] : IsSequence(w) /\ w # << >>

collect_request_findings(t) == scan(request_scanners, t) \o scan_custom_keywords(t, engine.keywords)

collect_response_findings(t) == scan(response_scanners, t) \o scan_custom_keywords(t, engine.keywords)

-----------------------------------------------------------------------------
(* Verdicts *)

NoDecision == [action |-> "Allow", risk |-> 0, matched_rules |-> {0}]

\* What an inspection answers; raw is the detectors' whole list.
Answer(dir, b, ctx, raw, decision, findings, sanitized) ==
  [dir |-> dir, scanned |-> decision # NoDecision, body |-> b, ctx |-> ctx, raw |-> raw,
   action |-> decision.action, risk |-> decision.risk, matched |-> decision.matched_rules,
   findings |-> findings, sanitized |-> sanitized]

paused_result(dir, b, ctx) == Answer(dir, b, ctx, << >>, NoDecision, << >>, b)

finish_request_scan(b, ctx, raw) ==
  LET d  == evaluate_with_context(engine, raw, ctx)
      fs == active_findings(engine, raw)
  IN  Answer("request", b, ctx, raw, d, fs, IF d.action = "Redact" THEN apply_redactions(b, fs) ELSE b)

\* A response is masked whatever the action is.
finish_response_scan(b, ctx, raw) ==
  LET d  == evaluate_with_context(engine, raw, ctx)
      fs == active_findings(engine, raw)
  IN  Answer("response", b, ctx, raw, d, fs, apply_redactions(b, fs))

Panic(dir, b) == [dir |-> "panic", body |-> b]

InspectionInit ==
  /\ engine \in Policies
  /\ response_scanning_enabled \in ResponseLicences
  /\ clock = 0
  /\ last = Idle

\* inspect (the default context) and inspect_with_context
Inspect(b, ctx) ==
  /\ last = Idle
  /\ \/ /\ is_paused(engine, clock)
        /\ last' = paused_result("request", b, ctx)
     \/ /\ ~ is_paused(engine, clock)
        /\ \E text \in {wire(b)} :
             \/ /\ keyword_scan_panics(text, engine.keywords) \/ keyword_scan_may_panic(text, engine.keywords)
                /\ last' = Panic("request", b)
             \/ /\ ~ keyword_scan_panics(text, engine.keywords)
                /\ \E raw \in {collect_request_findings(text)} : last' = finish_request_scan(b, ctx, raw)
  /\ UNCHANGED << engine, response_scanning_enabled, clock >>

\* inspect_response and inspect_response_with_context
InspectResponse(b, ctx) ==
  /\ last = Idle
  /\ \/ /\ ~ response_scanning_enabled \/ is_paused(engine, clock)
        /\ last' = paused_result("response", b, ctx)
     \/ /\ response_scanning_enabled /\ ~ is_paused(engine, clock)
        /\ \E text \in {wire(b)} :
             \/ /\ keyword_scan_panics(text, engine.keywords) \/ keyword_scan_may_panic(text, engine.keywords)
                /\ last' = Panic("response", b)
             \/ /\ ~ keyword_scan_panics(text, engine.keywords)
                /\ \E raw \in {collect_response_findings(text)} : last' = finish_response_scan(b, ctx, raw)
  /\ UNCHANGED << engine, response_scanning_enabled, clock >>

\* The caller has the answer.
Answered == last # Idle /\ last' = Idle /\ UNCHANGED << engine, response_scanning_enabled, clock >>

ClockTick ==
  /\ last = Idle /\ clock < MaxClock /\ clock' = clock + 1
  /\ UNCHANGED << engine, response_scanning_enabled, last >>

InspectionNext ==
  \/ \E b \in Bodies, ctx \in Contexts : Inspect(b, ctx) \/ InspectResponse(b, ctx)
  \/ Answered
  \/ ClockTick

InspectionSpec == InspectionInit /\ [][InspectionNext]_inspectionVars

-----------------------------------------------------------------------------
(* Properties *)

Judged == last.dir \in {"request", "response"} /\ last.scanned

InspectionTypeOK ==
  /\ engine \in Policies /\ response_scanning_enabled \in BOOLEAN /\ clock \in 0 .. MaxClock
  /\ Judged => last.action \in Actions /\ last.risk \in 0 .. 100

\* The worst action wins: no active finding and no matched rule asks for more
\* than the verdict, and one of them asked for exactly it.
VerdictIsWorst ==
  Judged =>
    LET asked == {finding_action(engine, last.findings[i]) : i \in DOMAIN last.findings}
                   \cup {engine.rules[r].action : r \in last.matched}
    IN  /\ \A a \in asked : action_rank(a) <= action_rank(last.action)
        /\ last.action \in asked \cup {"Allow"}

Negation(p) == \E r \in DOMAIN p.rules : \E k \in DOMAIN p.rules[r].nodes : p.rules[r].nodes[k].kind = "Not"

\* Findings appended to others never make the verdict milder (for policies whose
\* rules have no Not) nor the score lower: no prefix of the findings, in the order
\* the detectors report them, decides worse.  A finding inserted before others of
\* its category may: repeat_decay then discounts those, which may be severer.
MoreFindingsNeverMilder ==
  Judged =>
    \A n \in 0 .. Len(last.raw) :
      LET d == evaluate_with_context(engine, SubSeq(last.raw, 1, n), last.ctx)
      IN  /\ d.risk <= last.risk
          /\ ~ Negation(engine) => action_rank(d.action) <= action_rank(last.action)

\* History, destination and file alone never make a request High: without a
\* finding the score stays below the High band, whatever the counters are.
HistoryAloneNeverHigh == Judged /\ last.raw = << >> => band(last.risk) < 2

\* A category that is switched off has an effect on the action only through a
\* rule: it would be the same without its findings unless they made a rule match.
FootprintOnlyThroughRules ==
  Judged =>
    LET active == evaluate_with_context(engine, last.findings, last.ctx)
    IN  last.action # active.action => last.matched # active.matched_rules

Atoms(b) == UNION {{b.leaves[i].text[k] : k \in DOMAIN b.leaves[i].text} : i \in DOMAIN b.leaves}
AtomsOf(s) == {s[k] : k \in DOMAIN s} \ Spaces
Maskable(fs) == {i \in DOMAIN fs : fs[i].redacted_replacement # << >>}

\* Masking changes nothing it was not asked to: the document keeps its leaves,
\* leaves that are not strings are untouched, and an atom that belongs to no
\* active finding is still there.
OnlyFindingsMasked ==
  Judged =>
    LET A     == active_findings(engine, last.raw)
        asked == UNION {AtomsOf(A[i].snippet) : i \in Maskable(A)}
    IN  /\ DOMAIN last.sanitized.leaves = DOMAIN last.body.leaves
        /\ \A i \in DOMAIN last.body.leaves :
             ~ IsString(last.body.leaves[i]) => last.sanitized.leaves[i] = last.body.leaves[i]
        /\ Atoms(last.body) \ (asked \cup Spaces) \subseteq Atoms(last.sanitized)

\* A snippet that is found whole in some string leaf.
Stands(s, t) == \E k \in DOMAIN t : StandsAt(s, t, k)
InOneString(b, s) == \E i \in DOMAIN b.leaves : IsString(b.leaves[i]) /\ Stands(s, b.leaves[i].text)

MaskedBody == Judged /\ (last.dir = "response" \/ last.action = "Redact")

\* What the active findings have cut out stands in no string of the body that
\* is forwarded instead, whatever the findings after it put there: unless a
\* placeholder is made of the same.
SnippetsGone ==
  MaskedBody =>
    \A i \in Maskable(last.findings) :
      LET s == last.findings[i].snippet
      IN  (\A j \in Maskable(last.findings) : Elements(last.findings[j].redacted_replacement) \cap Elements(s) = {})
            => ~ InOneString(last.sanitized, s)

Placeholders(fs) == UNION {Elements(fs[i].redacted_replacement) : i \in Maskable(fs)}

Repeats(s) == \E i, j \in DOMAIN s : i < j /\ s[i] = s[j]

\* An atom of the snippet is in the document without the snippet around it
\* (a part of it, or the whole across leaves or escapes), or in a number.
StandsAlone(b, s) ==
  \E l \in DOMAIN b.leaves : \E k \in DOMAIN b.leaves[l].text :
    /\ b.leaves[l].text[k] \in AtomsOf(s)
    /\ ~ (IsString(b.leaves[l]) /\ \E i \in 1 .. k : k < i + Len(s) /\ StandsAt(s, b.leaves[l].text, i))

\* Nothing the active findings point at is left in the body that is forwarded,
\* not even a part, except in a placeholder, and with exactly these reasons:
\* an earlier finding overlaps the snippet and replaced a part of it; a part of
\* it stands elsewhere by itself; the snippet can overlap its own next one.
MaskedOrExplained ==
  MaskedBody =>
    \A i \in Maskable(last.findings) :
      LET s == last.findings[i].snippet
      IN  \/ AtomsOf(s) \cap Atoms(last.sanitized) \subseteq Placeholders(last.findings)
          \/ \E j \in Maskable(last.findings) : j < i /\ Elements(last.findings[j].snippet) \cap Elements(s) # {}
          \/ StandsAlone(last.body, s)
          \/ Repeats(s)

\* What crates/pii/src/lib.rs:500 promises, "Masks the *entire* two-line block".
\* It does not hold when an earlier finding lies within the zone.
MrzMaskedWhole ==
  Judged /\ last.action = "Redact" =>
    \A i \in DOMAIN last.findings :
      last.findings[i].match_name = "PASSPORT_MRZ" =>
        AtomsOf(last.findings[i].snippet) \cap Atoms(last.sanitized) = {}

\* A keyword's snippet is the keyword, and the scan does not panic, as long as
\* lower-casing leaves every character's length alone.
KeywordCutExact ==
  /\ last.dir = "panic" => Shifts(wire(last.body))
  /\ Judged =>
       \A i \in DOMAIN last.findings :
         last.findings[i].category = "CustomKeyword" =>
           \/ to_lowercase(last.findings[i].snippet) = Lower[last.findings[i].match_name]
           \/ Shifts(wire(last.body))

\* A verdict follows from the findings and the rules: it is the worst that was
\* asked for, findings appended never make it milder, history alone never makes
\* it High, and what is switched off acts through a rule or not at all (evaluate,
\* evaluate_with_context, score).
VerdictSound ==
  InspectionTypeOK /\ VerdictIsWorst /\ MoreFindingsNeverMilder /\ HistoryAloneNeverHigh /\ FootprintOnlyThroughRules

\* Masking takes out what the findings point at and nothing else, and a
\* keyword is cut where it stands (apply_redactions, scan_custom_keywords).
MaskingExact == KeywordCutExact /\ OnlyFindingsMasked /\ SnippetsGone /\ MaskedOrExplained

\* "a disabled category's findings are filtered out before
\* `PolicyEngine::evaluate` ever sees them" (policy/src/lib.rs:115): the decision
\* is the one about the active findings.  inspect evaluates all of them and
\* filters afterwards.
DisabledNeverEvaluated ==
  Judged =>
    LET active == evaluate_with_context(engine, last.findings, last.ctx)
    IN  last.action = active.action /\ last.risk = active.risk
=============================================================================
