--------------------------- MODULE MCGate0Custody ---------------------------
(***************************************************************************)
(* TLC instance of Gate0Custody.                                           *)
(***************************************************************************)
EXTENDS Gate0Custody

\* What the custody owner publishes later: a newer record that revokes the
\* key, and, by mistake, other content under the first version.
Later == {[ver |-> 2, ok |-> FALSE], [ver |-> 1, ok |-> FALSE]}
=============================================================================
