------------------------- MODULE MCApprovalWithdrawal -------------------------
(***************************************************************************)
(* Instances of ApprovalWithdrawal for TLC.                                *)
(***************************************************************************)
EXTENDS ApprovalWithdrawal

\* the interference of one scenario: each of these kinds at most once
Budget(once) == [m \in Mishaps |-> IF m \in once THEN 1 ELSE 0]

MCBudgets == {
  Budget({"plan"}),
  Budget({"sibling", "overlap", "ended"}),
  Budget({"sibling", "crash", "outage"}),
  Budget({"sibling", "overlap", "stall"}),
  Budget({"overlap", "stall", "alter"}),
  Budget({"stray", "outage"}),
  Budget({"sibling", "alter", "requeue"})}
=============================================================================
