--------------------------- MODULE MCLicenceDelivery ---------------------------
(***************************************************************************)
(* Instances of LicenceDelivery for TLC: two versions of a lineage, the    *)
(* second bound to one of the targets.  Every behaviour is one scenario.   *)
(***************************************************************************)
EXTENDS LicenceDelivery, TLC

CONSTANTS t1, t2

MCBound == [i \in Issuances |-> IF i = 2 THEN t1 ELSE None]

Budget(once, twice) == [k \in Kinds |-> IF k \in twice THEN 2 ELSE IF k \in once THEN 1 ELSE 0]

MCBudgets == {
  Budget({"stage", "resume", "apply", "ack"}, {}),
  Budget({}, {"intent", "apply", "ack"}),
  Budget({"overlap", "crash", "stage"}, {}),
  Budget({}, {"stage"}),
  Budget({"stage", "crash"}, {"export"}),
  Budget({"resume", "apply", "ack"}, {}),
  Budget({"fleet", "resume", "export"}, {}),
  Budget({"overlap", "stage", "export"}, {}),
  Budget({"intent", "apply"}, {"report"})}

\* scenarios that stage nothing start with a row of before the registry, the
\* ones in which the fleet changes with targets still to be reconciled
MCInit ==
  /\ Init /\ row[2] = NoRow
  /\ IF left["stage"] > 0 THEN row[1] = NoRow
     ELSE row[1] \in {ParkedByMigration(1, t2), ParkedByMigration(2, t1)}
  /\ \A t \in Targets : (target[t] = NoTarget) <=> (left["fleet"] > 0)

\* passes and callers are alike
Alike == Permutations(Workers) \cup Permutations(Sessions)

MCSpec == MCInit /\ [][Next]_vars

\* One legacy row, acknowledged and then mapped.
LegacyBudgets == {Budget({"ack"}, {})}
=============================================================================
