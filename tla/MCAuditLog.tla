----------------------------- MODULE MCAuditLog -----------------------------
(* Small instances of AuditLog.  Agents that share a table are alike.        *)
EXTENDS AuditLog, TLC

Symmetry == Permutations(Agents)
=============================================================================
