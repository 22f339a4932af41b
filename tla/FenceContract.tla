---------------------------- MODULE FenceContract ----------------------------
(***************************************************************************)
(* What transition_fence.py promises its callers: each call is one step    *)
(* between three states of the database's CONNECT gate.  Nobody else edits *)
(* the ACL.  TransitionFence implements it; CpTransition uses its steps.   *)
(***************************************************************************)

VARIABLES
  gate,   \* "open": the original ACL; "fenced": no effective role can connect;
          \* "partial": anything between
  held    \* the caller's proof: "none", "exact" (records the original ACL) or
          \* "narrow" (records less than it)

Gates  == {"open", "fenced", "partial"}
Helds  == {"none", "exact", "narrow"}

\* fence_writers returned a proof.  Without an earlier proof it records the ACL
\* it found, with one it carries the earlier record.
FenceReturns ==
  /\ held = "none" => gate # "fenced"
  /\ gate' = "fenced"
  /\ held' = IF held # "none" THEN held
             ELSE IF gate = "open" THEN "exact" ELSE "narrow"

\* fence_writers died between its first REVOKE and its return, or could not
\* compensate: never more open than it was found.
FenceLost ==
  /\ gate' \in {"fenced", "partial", gate}
  /\ gate = "fenced" => gate' = "fenced"
  /\ UNCHANGED held

\* restore_writers returned.
RestoreReturns ==
  /\ held # "none"
  /\ gate' = IF held = "exact" THEN "open" ELSE "partial"
  /\ UNCHANGED held

\* restore_writers raised after it re-fenced and verified the re-fence.
RestoreKeepsFence ==
  /\ held # "none"
  /\ gate' = "fenced"
  /\ UNCHANGED held

\* restore_writers died, or its re-fence failed.
RestoreLost ==
  /\ held # "none"
  /\ gate' \in Gates
  /\ held # "exact" => gate' # "open"
  /\ UNCHANGED held

\* A call was refused before any change, or compensated to the ACL it found.
CallRefused == UNCHANGED <<gate, held>>

Init == gate = "open" /\ held = "none"

Next == FenceReturns \/ FenceLost \/ RestoreReturns \/ RestoreKeepsFence \/ RestoreLost

Spec == Init /\ [][Next]_<<gate, held>>

=============================================================================
