------------------------- MODULE MCHeldTransitions -------------------------
(***************************************************************************)
(* TLC instance of HeldTransitions.                                        *)
(***************************************************************************)
EXTENDS HeldTransitions, TLC

\* Command ids, requests and handlers are told apart only by what they do.
Symmetry == Permutations(Commands) \cup Permutations(Requests) \cup Permutations(Sessions)

\* The chains of the two owners meet only in requests, command ids and
\* handlers, so the run follows at most one of them past its proposal, and an
\* agreement to its end and no further.
Early == {"none", "draft", "proposed"}
OneChain ==
  /\ (\A x \in Agreements : status[x] \in Early) \/ (\A x \in Plans : status[x] \in Early)
  /\ \A x \in Agreements : status[x] # "ended"

=============================================================================
