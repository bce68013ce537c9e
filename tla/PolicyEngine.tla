---------------------------- MODULE PolicyEngine ----------------------------
(***************************************************************************)
(* The decision an Agent takes about a list of findings: risk score,       *)
(* conditional rules and per-category actions, combined by "the worst      *)
(* action wins", and the look-up that says what happens to an upload.      *)
(*                                                                         *)
(* Everything here is a pure operator. A finding is a record with fields   *)
(* category, match_name and severity; a policy is a record of the fields   *)
(* of PolicyConfig and SecurityPolicy that decide anything. HashMaps are   *)
(* functions on a subset of their keys.                                    *)
(***************************************************************************)
EXTENDS Filtering, FiniteSets

CONSTANT U32Max    \* u32::MAX; the counters of prior violations are u32

ASSUME U32Assumption == U32Max \in Nat /\ U32Max >= 15

Actions == {"Allow", "Audit", "Warn", "Redact", "RequireApproval", "Block"}

Categories == {"Pii", "Secret", "PromptInjection", "CustomKeyword",
               "Financial", "Internal", "Toxicity"}

action_rank(a) ==
  CASE a = "Allow" -> 0 [] a = "Audit" -> 1 [] a = "Warn" -> 2
    [] a = "Redact" -> 3 [] a = "RequireApproval" -> 4 [] a = "Block" -> 5

\* What an enforcement point does: nothing can approve yet, so it denies.
enforcement_action(a) == IF a = "RequireApproval" THEN "Block" ELSE a

\* max_by_key(action_rank), and the running "worst" of category_action.
Worst(S) == CHOOSE a \in S : \A b \in S : action_rank(b) <= action_rank(a)

-----------------------------------------------------------------------------
(* The default policy document *)

default_actions ==
  [c \in Categories |-> CASE c = "PromptInjection" -> "Block"
                          [] c = "Toxicity" -> "Warn"
                          [] OTHER -> "Redact"]

default_policy ==
  [default_action |-> "Allow",
   detectors      |-> [c \in Categories |-> TRUE],
   actions        |-> default_actions,
   unmaskable     |-> "Block",        \* unmaskable_file_action
   paused_until   |-> 0,              \* 0 is None: the clock is never before it
   keywords       |-> << >>,
   rules          |-> << >>,
   uploads        |-> << >>]          \* a function: here the empty one

\* The PCI-DSS pack: the category and a rule of its own, both Block.
pci_dss_v1 ==
  [default_policy EXCEPT
     !.actions["Financial"] = "Block",
     !.rules = << [nodes  |-> << [kind |-> "CategoryDetected", category |-> "Financial"] >>,
                   action |-> "Block"] >>]

is_paused(p, now) == now < p.paused_until

\* What happens to a file of this type; scanned when the policy does not say.
upload_action(p, ext) ==
  IF ext \in DOMAIN p.uploads THEN p.uploads[ext] ELSE "Inspect"

-----------------------------------------------------------------------------
(* Risk: points per finding, decayed per repetition, plus context *)

category_weight(c) ==
  CASE c \in {"PromptInjection", "Toxicity"} -> 45 [] c = "Secret" -> 40
    [] c = "Financial" -> 35 [] c = "Pii" -> 25 [] OTHER -> 20

\* In quarters: 0.5, 1.0, 1.25, and 0.75 for MEDIUM and unknown text.
severity_multiplier(s) ==
  CASE s = "LOW" -> 2 [] s = "HIGH" -> 4 [] s = "CRITICAL" -> 5 [] OTHER -> 3

\* round(base * multiplier / (1 + occurrence / 2)), halves away from zero.
finding_points(fs, i) ==
  LET n == Cardinality({j \in 1 .. (i - 1) : fs[j].category = fs[i].category})
      x == category_weight(fs[i].category) * severity_multiplier(fs[i].severity)
  IN  (x + n + 2) \div (2 * (n + 2))

\* Mutant: the violations are not capped.
ViolationPointsUncapped(ctx) == 3 * (ctx.device + ctx.user)

\* saturating_add, a product that wraps in a release build, and the cap.
violation_points(ctx) ==
  LET sum   == ctx.device + ctx.user
      prior == IF sum > U32Max THEN U32Max ELSE sum
      wide  == (prior * 3) % (U32Max + 1)
  IN  IF wide > 15 THEN 15 ELSE wide

\* 15 percent of the sensitivity (0 when there is no classifier), rounded.
sensitivity_points(ctx) == (ctx.sensitivity * 15 + 50) \div 100

findings_points(fs) ==
  LET upto[i \in 0 .. Len(fs)] == IF i = 0 THEN 0 ELSE upto[i - 1] + finding_points(fs, i)
  IN  upto[Len(fs)]

\* Mutant: no cap at 100.
ScoreUncapped(fs, ctx) ==
  findings_points(fs) + (IF ctx.public_ai_app THEN 10 ELSE 0) + violation_points(ctx) + sensitivity_points(ctx)

score(fs, ctx) ==
  LET raw == findings_points(fs) + (IF ctx.public_ai_app THEN 10 ELSE 0)
               + violation_points(ctx) + sensitivity_points(ctx)
  IN  IF raw > 100 THEN 100 ELSE raw

\* RiskBand::from_score: Low, Medium, High, Critical.
band(total) == IF total <= 24 THEN 0 ELSE IF total <= 49 THEN 1 ELSE IF total <= 74 THEN 2 ELSE 3

default_context == [public_ai_app |-> FALSE, device |-> 0, user |-> 0, sensitivity |-> 0]

-----------------------------------------------------------------------------
(* Rules: a condition is its syntax tree in post-order, the root last; the *)
(* node kinds And, Or and Not name their children by position.             *)

count(fs, c) == Cardinality({i \in DOMAIN fs : fs[i].category = c})

leaf_matches(n, fs, ctx, risk) ==
  CASE n.kind = "CategoryDetected" -> count(fs, n.category) > 0
    [] n.kind = "CategoryCountAtLeast" -> count(fs, n.category) >= n.min
    [] n.kind = "PublicAiApp" -> ctx.public_ai_app
    [] n.kind = "RiskScoreAtLeast" -> risk >= n.min
    [] n.kind = "RiskBandAtLeast" -> band(risk) >= n.min
    [] n.kind = "DeviceViolationsAtLeast" -> ctx.device >= n.min
    [] n.kind = "UserViolationsAtLeast" -> ctx.user >= n.min

condition_matches(nodes, fs, ctx, risk) ==
  LET val[k \in DOMAIN nodes] ==
        CASE nodes[k].kind = "And" -> \A c \in nodes[k].of : val[c]
          [] nodes[k].kind = "Or"  -> \E c \in nodes[k].of : val[c]
          [] nodes[k].kind = "Not" -> ~ val[nodes[k].of]
          [] OTHER -> leaf_matches(nodes[k], fs, ctx, risk)
  IN  val[Len(nodes)]

matched_rules(p, fs, ctx, risk) ==
  {r \in DOMAIN p.rules : condition_matches(p.rules[r].nodes, fs, ctx, risk)}

-----------------------------------------------------------------------------
(* The decision *)

\* Whether the tenant left the finding's category on; on when not mentioned.
Active(p, f) == f.category \in DOMAIN p.detectors => p.detectors[f.category]

active_findings(p, fs) == Filter(fs, {f \in Elements(fs) : Active(p, f)})

category_setting(p, c) == IF c \in DOMAIN p.actions THEN p.actions[c] ELSE p.default_action

\* The first keyword rule with the finding's pattern, or 0.
keyword_rule(p, f) ==
  LET hits == {k \in DOMAIN p.keywords : p.keywords[k].pattern = f.match_name}
  IN  IF f.category # "CustomKeyword" \/ hits = {} THEN 0
      ELSE CHOOSE k \in hits : \A j \in hits : k <= j

finding_action(p, f) ==
  IF keyword_rule(p, f) # 0 THEN p.keywords[keyword_rule(p, f)].action
  ELSE category_setting(p, f.category)

\* Mutant: findings of a category that is switched off count too.
CategoryActionOfAll(p, fs) == Worst({"Allow"} \cup {finding_action(p, fs[i]) : i \in DOMAIN fs})

category_action(p, fs) ==
  Worst({"Allow"} \cup {finding_action(p, fs[i]) : i \in {j \in DOMAIN fs : Active(p, fs[j])}})

\* Mutant: a matched rule replaces the category's action.
RuleOverrides(p, fs, ctx) ==
  LET risk    == score(fs, ctx)
      matched == matched_rules(p, fs, ctx, risk)
  IN  [action |-> IF matched = {} THEN category_action(p, fs) ELSE Worst({p.rules[r].action : r \in matched}),
       risk |-> risk, matched_rules |-> matched]

\* Detection -> Risk -> Rules -> Policy -> Action.
evaluate_with_context(p, fs, ctx) ==
  LET risk    == score(fs, ctx)
      matched == matched_rules(p, fs, ctx, risk)
  IN  [action |-> Worst({category_action(p, fs)} \cup {p.rules[r].action : r \in matched}),
       risk |-> risk, matched_rules |-> matched]

evaluate(p, fs) == evaluate_with_context(p, fs, default_context).action
=============================================================================
