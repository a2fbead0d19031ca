------------------------------ MODULE MCAuditLog ------------------------------
(* The audit log with concrete processes, threads and events, for TLC.      *)
EXTENDS AuditLog, TLC

\* Events are interchangeable (used where only invariants are checked).
BodySymmetry == Permutations(Bodies)
===============================================================================
