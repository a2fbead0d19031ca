----------------------------- MODULE AuditLedger -----------------------------
(***************************************************************************)
(* What the audit log promises its callers: a ledger that only grows at    *)
(* its end, in which no event appears twice, and from which write()        *)
(* returns to its caller only once the caller's event is in it.            *)
(***************************************************************************)
EXTENDS Naturals, Sequences

CONSTANT Events

VARIABLES
  ledger,   \* the events recorded, oldest first
  acked     \* the events whose writer was told so

ledgerVars == <<ledger, acked>>

Recorded == {ledger[i] : i \in DOMAIN ledger}

LedgerInit == ledger = <<>> /\ acked = {}

Enter(e) ==
  /\ e \notin Recorded
  /\ ledger' = Append(ledger, e)
  /\ UNCHANGED acked

Acknowledge(e) ==
  /\ e \in Recorded
  /\ acked' = acked \cup {e}
  /\ UNCHANGED ledger

LedgerNext == \E e \in Events : Enter(e) \/ Acknowledge(e)

LedgerSpec == LedgerInit /\ [][LedgerNext]_ledgerVars
=============================================================================
