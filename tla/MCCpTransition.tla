--------------------------- MODULE MCCpTransition ---------------------------
(***************************************************************************)
(* TLC instance of CpTransition.  Requests of one schema family are told   *)
(* apart only by what they do, so they are consumed in a fixed order: one  *)
(* transition and the whole chain of its recoveries, or two transitions    *)
(* and two recoveries.                                                     *)
(***************************************************************************)
EXTENDS CpTransition, Sequences

CONSTANTS t1, t2, r1, r2, r3, r4, r5

Used(r) == kind[r] # "unused"

Consecutive(reqs) == \A i \in 1 .. Len(reqs) - 1 : Used(reqs[i + 1]) => Used(reqs[i])

InOrder ==
  /\ Consecutive(<<t1, t2>>) /\ Consecutive(<<r1, r2, r3, r4, r5>>)
  /\ ~(Used(t2) /\ Used(r3))

MCSpec == Init /\ [][Next /\ InOrder']_vars /\ Fairness

=============================================================================
