----------------------------- MODULE Gatekeeper -----------------------------
(***************************************************************************)
(* What an enforcement point promises about the items that cross it (a     *)
(* prompt on its way out, a tool call, an answer on its way in): an item   *)
(* is judged at most once, leaves at most once, and leaves only behind a   *)
(* verdict that lets it pass. It may be refused at any time.               *)
(***************************************************************************)
CONSTANTS Items, Passing, Denying

VARIABLES verdict, fate

gvars == << verdict, fate >>

Init ==
  /\ verdict = [i \in Items |-> "none"]
  /\ fate = [i \in Items |-> "held"]

Judge(i) ==
  /\ verdict[i] = "none" /\ fate[i] = "held"
  /\ \E v \in Passing \cup Denying : verdict' = [verdict EXCEPT ![i] = v]
  /\ UNCHANGED fate

Release(i) ==
  /\ verdict[i] \in Passing /\ fate[i] = "held"
  /\ fate' = [fate EXCEPT ![i] = "released"]
  /\ UNCHANGED verdict

Refuse(i) ==
  /\ fate[i] = "held"
  /\ fate' = [fate EXCEPT ![i] = "refused"]
  /\ UNCHANGED verdict

Next == \E i \in Items : Judge(i) \/ Release(i) \/ Refuse(i)

Spec == Init /\ [][Next]_gvars
=============================================================================
