----------------------------- MODULE MCDispatch -----------------------------
(***************************************************************************)
(* Dispatch with three principals (no role, non-production, production),   *)
(* one queue manager of each environment and calls that interleave.        *)
(***************************************************************************)
EXTENDS Dispatch, TLC

CONSTANTS guest, dev, ops, QMD, QMP

MCRoles == (guest :> {"viewer"}) @@ (dev :> {"nonprod-read", "viewer"}) @@ (ops :> {"prod-read"})

Ask(s, tool, qm) ==
  [subject |-> s, tool |-> tool, qm |-> qm, sample_int |-> TRUE, encodable |-> TRUE]

\* Every well-formed request, and one of each malformed kind.
MCRequests ==
  {Ask(s, tool, qm) : s \in Subjects \cup {None}, tool \in {"diagnose"},
                      qm \in QMs \cup {UnknownQM}}
    \cup {Ask(s, "health", NotAString) : s \in Subjects}
    \cup {Ask(dev, "unknown", QMD), Ask(ops, "diagnose", NotAString),
          [Ask(dev, "sample", QMD) EXCEPT !.sample_int = FALSE],
          [Ask(ops, "sample", QMP) EXCEPT !.encodable = FALSE]}
=============================================================================
