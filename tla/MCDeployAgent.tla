--------------------------- MODULE MCDeployAgent ---------------------------
(***************************************************************************)
(* TLC instance of DeployAgent.                                            *)
(***************************************************************************)
EXTENDS DeployAgent, TLC
CONSTANT k1

\* An initial campaign and the repeatability run that follows it.
Initial == [run |-> "r1", prior |-> "none", host |-> k1, actors |-> Actors,
            candidates |-> Images, opens |-> 0, deadline |-> MaxTime]
Again == [Initial EXCEPT !.run = "r2", !.prior = "r1", !.opens = 1]
Campaigns == {Initial, Again}

Most == [key |-> 3, desired |-> 2, applied |-> 2, quarantine |-> 1, gate |-> 2]
\* Bound: a ledger of seven commits is only followed while two reports settle
\* two desired states; with quarantine or gate evidence it ends at six.
Followed == \/ Tip < MaxEvents
            \/ Events("quarantine", Tip) \cup Events("gate", Tip) = {}
Symmetry == Permutations(Commands) \cup Permutations(Reports)
=============================================================================
