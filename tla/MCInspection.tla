---------------------------- MODULE MCInspection ----------------------------
(* Instances of Inspection: a small vocabulary with one word for each way   *)
(* the detectors, the gates and the masking can interact.                   *)
EXTENDS Inspection

MCWords == {"acme", "ACME", "hunter", "card", "badcard", "passIN", "passCA", "kwPassport",
            "awskey", "hex", "key", "escnl", "clean", "threat", "inject", "kel1", "kel2", "k"}
MCSpaces == {"sp", "nl"}
MCAtoms == MCWords \cup MCSpaces \cup
           {"punct", "email", "pwd", "mrz1", "mrz2", "grow", "dot", "[", "]", "[AWS_KEY]", "[AWS_SECRET]"}

MCRegex ==
  [n \in {secret_patterns[i].name : i \in DOMAIN secret_patterns}
           \cup {pii_patterns[i].name : i \in DOMAIN pii_patterns}
           \cup {guardrail_patterns[i].name : i \in DOMAIN guardrail_patterns}
           \cup {entropy_patterns[i].name : i \in DOMAIN entropy_patterns}
           \cup {"INJECTION", "PERSON"} |->
     CASE n = "EMAIL_ADDRESS" -> {<< "email" >>}
       [] n = "CREDIT_CARD" -> {<< "card" >>, << "badcard" >>}
       [] n = "AWS_ACCESS_KEY" -> {<< "awskey" >>}
       [] n = "PASSWORD_CONTEXT" -> {<< "pwd" >>}
       [] n = "PASSPORT_NUMBER_IN" -> {<< "passIN" >>}
       [] n = "PASSPORT_NUMBER_CA" -> {<< "passCA" >>}
       [] n = "PASSPORT_MRZ" -> {<< "mrz1", "nl", "passIN", "mrz2" >>, << "mrz1", "nl", "passCA", "mrz2" >>}
       [] n = "HIGH_ENTROPY_HEX" -> {<< "hex" >>}
       [] n = "HIGH_ENTROPY_BASE64" -> {<< "hex", "punct" >>}
       [] n = "THREAT_OF_VIOLENCE" -> {<< "threat" >>}
       [] n = "INJECTION" -> {<< "inject" >>}
       [] OTHER -> {}]

MCChecked == {<< "card" >>, << "hex" >>, << "mrz1", "nl", "passIN", "mrz2" >>, << "mrz1", "nl", "passCA", "mrz2" >>}
MCContext == [l \in {"passport", "dob", "ein", "driver", "medicare"} |->
                IF l = "passport" THEN {"kwPassport"} ELSE {}]
MCLower == [a \in MCAtoms |-> CASE a = "ACME" -> << "acme" >> [] a = "grow" -> << "grow", "dot" >>
                                   [] a = "kel1" -> << "k" >> [] a = "kel2" -> << >> [] OTHER -> << a >>]
MCUpper == [a \in MCAtoms |-> IF a = "acme" THEN "ACME" ELSE a]
MCEscape == [a \in MCAtoms |-> IF a = "nl" THEN "escnl" ELSE a]

-----------------------------------------------------------------------------
Phrases == {<< "clean" >>, << "acme" >>, << "ACME" >>, << "email" >>, << "awskey" >>,
            << "badcard" >>, << "card" >>, << "pwd", "hunter" >>, << "inject" >>, << "threat" >>,
            << "mrz1", "nl", "passIN", "mrz2" >>, << "kwPassport", "sp", "passCA" >>,
            << "grow" >>, << "kel1", "kel2" >>, << "hex" >>}

Text(t) == [json |-> FALSE, compact |-> TRUE, leaves |-> << [kind |-> "text", text |-> t] >>]
Json(k, t, u, compact) ==
  [json |-> TRUE, compact |-> compact,
   leaves |-> << [kind |-> k, text |-> t], [kind |-> "string", text |-> u] >>]

MCBodies ==
  {Text(s \o << "sp" >> \o t) : s \in Phrases, t \in Phrases}
    \cup {Text(s \o t) : s \in {<< "acme" >>, << "grow" >>, << "clean" >>}, t \in {<< "acme" >>, << "passCA" >>}}
    \cup {Text(s \o << "nl" >> \o s \o << "sp", "clean" >>) : s \in Phrases}
    \cup {Text(<< "kwPassport", "nl", "mrz1", "nl", "passCA", "mrz2" >>),
          Text(<< "clean", "nl", "mrz1", "nl", "passIN", "mrz2", "nl", "clean" >>),
          Text(<< "passCA", "sp", "clean", "sp", "clean", "sp", "kwPassport" >>)}
    \cup {Json(k, t, u, c) : k \in {"string", "number"}, t \in {<< "card" >>, << "clean" >>},
                             u \in Phrases, c \in BOOLEAN}
    \cup {Json("string", t, u, c) : t \in {<< "pwd", "hunter" >>, << "email" >>, << "acme" >>},
                                    u \in {<< "clean" >>, << "awskey" >>, << "email" >>}, c \in BOOLEAN}

\* Policies: detectors that are off, per-category actions, keywords, rules.
Leaf(k, c) == [kind |-> k, category |-> c]
AtLeast(k, n) == [kind |-> k, min |-> n]
Rule(nodes, a) == [nodes |-> nodes, action |-> a]
Keyword(w, a, cs) == [pattern |-> w, action |-> a, case_sensitive |-> cs]

BlockMixed == Rule(<< Leaf("CategoryDetected", "Secret"), Leaf("CategoryDetected", "Pii"),
                      [kind |-> "And", of |-> {1, 2}] >>, "Block")
ApproveRisky == Rule(<< AtLeast("RiskScoreAtLeast", 60), AtLeast("RiskBandAtLeast", 3),
                        [kind |-> "Or", of |-> {1, 2}] >>, "RequireApproval")
AuditPublic == Rule(<< [kind |-> "PublicAiApp"] >>, "Audit")
WarnRepeat == Rule(<< [kind |-> "CategoryCountAtLeast", category |-> "Pii", min |-> 2] >>, "Warn")
BlockHistory == Rule(<< AtLeast("DeviceViolationsAtLeast", 2), AtLeast("UserViolationsAtLeast", 2),
                        [kind |-> "And", of |-> {1, 2}] >>, "Block")
WarnClean == Rule(<< Leaf("CategoryDetected", "Pii"), [kind |-> "Not", of |-> 1] >>, "Warn")

MCPolicies ==
  { default_policy, pci_dss_v1,
    [default_policy EXCEPT !.keywords = << Keyword("acme", "Redact", FALSE) >>],
    [default_policy EXCEPT !.keywords = << Keyword("acme", "Allow", TRUE), Keyword("acme", "Block", FALSE) >>],
    [default_policy EXCEPT !.detectors["Pii"] = FALSE],
    [default_policy EXCEPT !.detectors["Pii"] = FALSE, !.rules = << BlockMixed >>],
    [default_policy EXCEPT !.actions["Pii"] = "Block", !.rules = << AuditPublic, WarnRepeat >>],
    [default_policy EXCEPT !.rules = << ApproveRisky, BlockHistory >>],
    [default_policy EXCEPT !.rules = << WarnClean >>, !.paused_until = 1],
    [default_policy EXCEPT !.actions = [c \in {"Secret"} |-> "Warn"], !.default_action = "Redact"] }

MCContexts == { default_context,
                [public_ai_app |-> TRUE, device |-> 200, user |-> 100, sensitivity |-> 100] }

Person == << P("PERSON", "Pii", "MEDIUM", "word", "always", "", "[PERSON]") >>
NoPatterns == << >>
Licensed == {TRUE, FALSE}
=============================================================================
