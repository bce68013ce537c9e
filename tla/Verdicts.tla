------------------------------ MODULE Verdicts ------------------------------
(***************************************************************************)
(* What Inspector::inspect answers, as the callers of the Inspector see    *)
(* it: a text is the set of finding categories its detectors report        *)
(* (module Inspection has the detectors themselves). A paused policy is    *)
(* one whose detectors are all off.                                        *)
(***************************************************************************)
EXTENDS PolicyEngine

\* The types of the fields of a policy that an inspection reads.
WellTyped(p) ==
  /\ p.default_action \in Actions /\ \A c \in DOMAIN p.actions : p.actions[c] \in Actions
  /\ \A e \in DOMAIN p.uploads : p.uploads[e] \in {"Allow", "Inspect", "Block"}

ActiveCategory(p, c) == Active(p, [category |-> c])
Unmaskable == {"PromptInjection", "Toxicity"}     \* findings without a replacement

inspect(p, T) ==
  LET asked  == {category_setting(p, c) : c \in {d \in T : ActiveCategory(p, d)}}
      action == Worst({"Allow"} \cup asked)
  IN  [kind |-> "scan", action |-> action,
       sanitized |-> {c \in T : ActiveCategory(p, c) => c \in Unmaskable}]

Denied(action) == enforcement_action(action) = "Block"

\* The policy lets a text of this category pass neither as it is nor at all.
Guarded(p, c) ==
  /\ ActiveCategory(p, c)
  /\ \/ Denied(category_setting(p, c))
     \/ category_setting(p, c) = "Redact" /\ c \notin Unmaskable
=============================================================================
