------------------------------ MODULE MCGate0 -------------------------------
(***************************************************************************)
(* TLC instance of Gate0Ceremony.                                          *)
(***************************************************************************)
EXTENDS Gate0Ceremony, TLC

\* A process that has exited is not followed further.
StillRunning == worker.exit = None

\* Sessions are told apart only by what they do.
Symmetry == Permutations(Sessions)
=============================================================================
