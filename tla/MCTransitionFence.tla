------------------------- MODULE MCTransitionFence -------------------------
(***************************************************************************)
(* TLC instances of TransitionFence: the bounds are those of the .cfg.     *)
(***************************************************************************)
EXTENDS TransitionFence
=============================================================================
