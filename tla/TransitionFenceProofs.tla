------------------------ MODULE TransitionFenceProofs ------------------------
(***************************************************************************)
(* Theorems about TransitionFence, for every set of roles and every bound. *)
(***************************************************************************)
EXTENDS TransitionFence, FiniteSetTheorems, TLAPS

\* Every call, statement and environment step keeps the types.
THEOREM TypeCorrect == Spec => []TypeOK
<1>1. Init => TypeOK
  <2> SUFFICES ASSUME Init PROVE TypeOK
    OBVIOUS
  <2>1. [to : Grantees, by : {Owner}] \subseteq Entries
    BY DEF Entries
  <2>2. NoProof \in Proofs
    BY DEF NoProof, Proofs
  <2> QED
    BY <2>1, <2>2 DEF Init, TypeOK, Phases, Results
<1>2. TypeOK /\ [Next]_vars => TypeOK'
  <2> SUFFICES ASSUME TypeOK, [Next]_vars PROVE TypeOK'
    OBVIOUS
  <2> USE DEF TypeOK, Phases, Results, db, conns, args, work, hist
  <2> DEFINE Counters == tries' \in Nat /\ calls' \in Nat /\ drifts' \in Nat
  <2>1. CASE UNCHANGED vars
    BY <2>1 DEF vars
  <2>2. ASSUME NEW r \in Logins, Authenticate(r) \/ Appear(r) \/ Disconnect(r)
        PROVE  TypeOK'
    BY <2>2 DEF Authenticate, Appear, Disconnect
  <2>3. ASSUME NEW e \in Entries, EditAcl(e) PROVE TypeOK'
    <3>1. Counters
      BY <2>3 DEF EditAcl
    <3> QED
      BY <2>3, <3>1 DEF EditAcl
  <2>4. ASSUME NEW m \in Outsiders, EditMembers(m) PROVE TypeOK'
    <3>1. Counters
      BY <2>4 DEF EditMembers
    <3> QED
      BY <2>4, <3>1 DEF EditMembers
  <2>5. CASE BeginFence
    <3>1. Counters
      BY <2>5 DEF BeginFence, Effective, Recorded, Grantees, Logins, Proofs
    <3> QED
      BY <2>5, <3>1 DEF BeginFence, Effective, Recorded, Grantees, Logins, Proofs
  <2>6. CASE RefuseFence
    BY <2>6 DEF RefuseFence
  <2>7. CASE BeginRestore
    <3>1. Counters
      BY <2>7 DEF BeginRestore, Missing, Proofs, Logins
    <3> QED
      BY <2>7, <3>1, WritersAssumption DEF BeginRestore, Missing, Proofs, Logins
  <2>8. CASE RefuseRestore
    BY <2>8 DEF RefuseRestore
  <2>9. CASE Revoke \/ Rerevoke
    BY <2>9 DEF Revoke, Rerevoke, RevokeOne
  <2>10. CASE Verify \/ Reverify
    <3>1. Counters
      BY <2>10 DEF Verify, Reverify, StartDrain
    <3> QED
      BY <2>10, <3>1 DEF Verify, Reverify, StartDrain
  <2>11. CASE FirstZeroPoll
    <3>1. unseen' \in SUBSET Logins
      BY <2>11 DEF FirstZeroPoll
    <3> QED
      BY <2>11, <3>1 DEF FirstZeroPoll
  <2>12. CASE Terminate
    <3>1. Counters
      BY <2>12 DEF Terminate
    <3>2. sessions' \in SUBSET Logins
      BY <2>12 DEF Terminate
    <3> QED
      BY <2>12, <3>1, <3>2 DEF Terminate
  <2>13. CASE FenceDone
    BY <2>13, WritersAssumption DEF FenceDone, MemberRoles, Proofs, Logins
  <2>14. CASE Grant
    BY <2>14 DEF Grant
  <2>15. CASE RestoreDone
    BY <2>15 DEF RestoreDone
  <2>16. CASE RestoreFails
    BY <2>16 DEF RestoreFails, Grantees
  <2>17. CASE RedrainDone \/ RedrainMissed \/ RefenceFails \/ CompensationFails \/ Crash
    BY <2>17 DEF RedrainDone, RedrainMissed, RefenceFails, CompensationFails, Crash, EndCall
  <2>18. CASE Compensate
    BY <2>18 DEF Compensate, Missing, CompensationTarget
  <2> QED
    BY <2>1, <2>2, <2>3, <2>4, <2>5, <2>6, <2>7, <2>8, <2>9, <2>10, <2>11, <2>12,
       <2>13, <2>14, <2>15, <2>16, <2>17, <2>18
       DEF Next, Environment, Call, Statement, Abort
<1> QED
  BY <1>1, <1>2, PTL DEF Spec

-----------------------------------------------------------------------------
(* The fence is quiet, and no outcome is half open.                        *)

\* Phases and outcomes that rest on a passed privilege check.
Shut ==
  \/ Draining
  \/ pc = "idle" /\ result \in {"fenced", "not_restored", "sessions_survived"}

\* FencedMeansQuiet is not inductive: the drain needs to know that a backend
\* still on its way when the confirming poll is taken was on its way at the first
\* one, and a compensation that it restores to the ACL its call found.
QuietInv ==
  /\ calm /\ Shut => Unreachable
  /\ calm /\ Draining /\ zero => arriving \cap eff \subseteq unseen
  /\ calm /\ pc = "idle" /\ result \in {"fenced", "not_restored"} =>
       eff \cap (sessions \cup arriving) \subseteq unseen
  /\ calm /\ pc = "idle" /\ result \in {"refused", "compensated"} => acl = before
  /\ pc = "grant" /\ comp => target = before

\* While nobody edits the ACL or the memberships, what a role can do is fixed.
LEMMA UnreachableStable ==
  ASSUME UNCHANGED <<acl, members, eff>>
  PROVE  Unreachable' <=> Unreachable
BY DEF Unreachable, CanConnect, Connects

\* QuietInv is inductive.
LEMMA QuietStep == QuietInv /\ [Next]_vars => QuietInv'
<1> SUFFICES ASSUME QuietInv, [Next]_vars PROVE QuietInv'
  OBVIOUS
<1> USE DEF QuietInv, Shut, Draining, db, conns, args, work, hist
<1>1. CASE UNCHANGED vars
  BY <1>1, UnreachableStable DEF vars
<1>2. ASSUME NEW r \in Logins, Authenticate(r) PROVE QuietInv'
  <2>1. Unreachable => r \notin eff
    BY <1>2 DEF Authenticate, Unreachable
  <2> QED
    BY <1>2, <2>1, UnreachableStable DEF Authenticate
<1>3. ASSUME NEW r \in Logins, Appear(r) PROVE QuietInv'
  BY <1>3, UnreachableStable DEF Appear
<1>4. ASSUME NEW r \in Logins, Disconnect(r) PROVE QuietInv'
  BY <1>4, UnreachableStable DEF Disconnect
<1>5. ASSUME NEW e \in Entries, EditAcl(e) PROVE QuietInv'
  BY <1>5 DEF EditAcl
<1>6. ASSUME NEW m \in Outsiders, EditMembers(m) PROVE QuietInv'
  BY <1>6 DEF EditMembers
<1>7. CASE Call
  BY <1>7 DEF Call, BeginFence, RefuseFence, BeginRestore, RefuseRestore
<1>8. CASE Revoke \/ Rerevoke
  BY <1>8 DEF Revoke, Rerevoke, RevokeOne
<1>9. CASE Verify \/ Reverify
  BY <1>9, UnreachableStable DEF Verify, Reverify, StartDrain
<1>10. CASE FirstZeroPoll \/ Terminate
  BY <1>10, UnreachableStable DEF FirstZeroPoll, Terminate
<1>11. CASE FenceDone
  BY <1>11, UnreachableStable DEF FenceDone, Confirmed
<1>12. CASE Grant
  BY <1>12 DEF Grant
<1>13. CASE RestoreDone
  BY <1>13 DEF RestoreDone, RereadMatches
<1>14. CASE RestoreFails
  BY <1>14 DEF RestoreFails
<1>15. CASE RedrainDone \/ RedrainMissed
  BY <1>15, UnreachableStable DEF RedrainDone, RedrainMissed, EndCall, Confirmed
<1>16. CASE RefenceFails \/ CompensationFails \/ Crash
  BY <1>16 DEF RefenceFails, CompensationFails, Crash, EndCall
<1>17. CASE Compensate
  BY <1>17 DEF Compensate, CompensationTarget
<1> QED
  BY <1>1, <1>2, <1>3, <1>4, <1>5, <1>6, <1>7, <1>8, <1>9, <1>10, <1>11, <1>12,
     <1>13, <1>14, <1>15, <1>16, <1>17
     DEF Next, Environment, Statement, Abort

\* The inductive form of FencedMeansQuiet holds throughout.
LEMMA QuietAlways == Spec => []QuietInv
<1>1. Init => QuietInv
  BY DEF Init, QuietInv, Shut, Draining
<1> QED
  BY <1>1, QuietStep, PTL DEF Spec

\* A fence that returned its proof holds: no effective role can connect, and the
\* only backends of one are those the drain's two polls could not show, for any
\* number of writers and members.
THEOREM FenceIsQuiet == Spec => []FencedMeansQuiet
<1>1. QuietInv => FencedMeansQuiet
  BY DEF QuietInv, Shut, FencedMeansQuiet, Unreachable
<1> QED
  BY <1>1, QuietAlways, PTL

\* A refused or compensated call leaves the ACL it found; one that could not
\* restore leaves it fenced and, unless it says sessions survived, drained of every
\* backend its polls could show.
THEOREM OutcomesAreWhole == Spec => []NoHalfOpenOutcome
<1>1. QuietInv => NoHalfOpenOutcome
  BY DEF QuietInv, Shut, NoHalfOpenOutcome, Unreachable
<1> QED
  BY <1>1, QuietAlways, PTL

-----------------------------------------------------------------------------
(* Nothing is ever granted beyond the original ACL.                        *)

\* Every copy of an ACL the fencer works with stays within the original one.
WidthInv ==
  drifts = 0 =>
    /\ acl \subseteq orig /\ proof.grants \subseteq orig
    /\ keep \subseteq orig /\ before \subseteq orig
    /\ target \subseteq orig /\ toGrant \subseteq orig

\* WidthInv is inductive, given the types.
LEMMA WidthAlways == Spec => []WidthInv
<1>1. Init => WidthInv
  BY DEF Init, WidthInv, NoProof
<1>2. TypeOK /\ WidthInv /\ [Next]_vars => WidthInv'
  <2> SUFFICES ASSUME TypeOK, WidthInv, [Next]_vars PROVE WidthInv'
    OBVIOUS
  <2> USE DEF WidthInv, db, conns, args, work, hist
  <2>1. CASE UNCHANGED vars
    BY <2>1 DEF vars
  <2>2. ASSUME NEW r \in Logins, Authenticate(r) \/ Appear(r) \/ Disconnect(r)
        PROVE  WidthInv'
    BY <2>2 DEF Authenticate, Appear, Disconnect
  <2>3. ASSUME NEW e \in Entries, EditAcl(e) PROVE drifts' # 0
    BY <2>3 DEF EditAcl, TypeOK
  <2>4. ASSUME NEW m \in Outsiders, EditMembers(m) PROVE drifts' # 0
    BY <2>4 DEF EditMembers, TypeOK
  <2>5. CASE Call
    BY <2>5 DEF Call, BeginFence, RefuseFence, BeginRestore, RefuseRestore,
                Recorded, Missing
  <2>6. CASE Statement
    BY <2>6 DEF Statement, Revoke, Rerevoke, RevokeOne, Verify, Reverify, StartDrain,
                FirstZeroPoll, Terminate, FenceDone, Grant, RestoreDone, RedrainDone, EndCall
  <2>7. CASE Abort \/ Crash
    BY <2>7 DEF Abort, Crash, RestoreFails, RedrainMissed, RefenceFails, Compensate,
                CompensationFails, EndCall, CompensationTarget, Missing
  <2> QED
    BY <2>1, <2>2, <2>3, <2>4, <2>5, <2>6, <2>7 DEF Next, Environment
<1> QED
  BY <1>1, <1>2, TypeCorrect, PTL DEF Spec

\* Through crashes, re-fences and failed compensations no proof and no ACL grows.
THEOREM NothingWidens == Spec => []NeverWidens
<1>1. WidthInv => NeverWidens
  BY DEF WidthInv, NeverWidens
<1> QED
  BY <1>1, WidthAlways, PTL

\* A restore's pending grants are entries of the ACL it restores, and that ACL is
\* the one its own call found or the one the caller's proof records.
GrantInv ==
  pc = "grant" =>
    /\ toGrant \subseteq target
    /\ target \subseteq before \cup proof.grants

\* Only a restore grants, and only what the call found or the proof records.
THEOREM GrantsAreRecorded == Spec => GrantsOnlyWhatWasRecorded
<1>1. Init => GrantInv
  BY DEF Init, GrantInv
<1>2. GrantInv /\ [Next]_vars => GrantInv'
  <2> SUFFICES ASSUME GrantInv, [Next]_vars PROVE GrantInv'
    OBVIOUS
  <2> USE DEF GrantInv, db, conns, args, work, hist
  <2>1. CASE UNCHANGED vars
    BY <2>1 DEF vars
  <2>2. CASE Environment
    BY <2>2 DEF Environment, Authenticate, Appear, Disconnect, EditAcl, EditMembers
  <2>3. CASE Call
    BY <2>3 DEF Call, BeginFence, RefuseFence, BeginRestore, RefuseRestore, Missing
  <2>4. CASE Statement
    BY <2>4 DEF Statement, Revoke, Rerevoke, RevokeOne, Verify, Reverify, StartDrain,
                FirstZeroPoll, Terminate, Draining, FenceDone, Grant, RestoreDone,
                RedrainDone, EndCall
  <2>5. CASE Abort \/ Crash
    BY <2>5 DEF Abort, Crash, RestoreFails, RedrainMissed, RefenceFails, Compensate,
                CompensationFails, EndCall, CompensationTarget, Missing
  <2> QED
    BY <2>1, <2>2, <2>3, <2>4, <2>5 DEF Next
<1>3. TypeOK /\ GrantInv /\ [Next]_vars =>
        [drifts' = drifts => acl' \ acl \subseteq target \cap (before \cup proof.grants)]_vars
  <2> SUFFICES ASSUME TypeOK, GrantInv, Next, drifts' = drifts
               PROVE  acl' \ acl \subseteq target \cap (before \cup proof.grants)
    OBVIOUS
  <2> USE DEF db, conns, args, work, hist
  <2>1. CASE Grant
    BY <2>1 DEF Grant, GrantInv
  <2>2. CASE Revoke \/ Rerevoke
    BY <2>2 DEF Revoke, Rerevoke, RevokeOne
  <2>3. ASSUME NEW e \in Entries, EditAcl(e) PROVE FALSE
    BY <2>3 DEF EditAcl, TypeOK
  <2>4. CASE ~Grant /\ ~Revoke /\ ~Rerevoke /\ ~\E e \in Entries : EditAcl(e)
    <3>1. acl' = acl
      BY <2>4 DEF Next, Environment, Authenticate, Appear, Disconnect, EditMembers,
                  Call, BeginFence, RefuseFence, BeginRestore, RefuseRestore,
                  Statement, Verify, Reverify, StartDrain, FirstZeroPoll, Terminate,
                  FenceDone, RestoreDone, RedrainDone, Abort, Crash, RestoreFails,
                  RedrainMissed, RefenceFails, Compensate, CompensationFails, EndCall
    <3> QED
      BY <3>1
  <2> QED
    BY <2>1, <2>2, <2>3, <2>4
<1> QED
  BY <1>1, <1>2, <1>3, TypeCorrect, PTL DEF Spec, GrantsOnlyWhatWasRecorded

-----------------------------------------------------------------------------
(* A successful restore leaves the original ACL.                           *)

Fencing   == pc \in {"revoke", "verify", "drain"}
Restoring == pc \in {"grant", "rerevoke", "reverify", "redrain"}

\* Undamaged, a proof records the original ACL; while there is none yet, every
\* call starts from the original ACL and compensates to it.
BaselineInv ==
  /\ pc # "idle" => result = "none" /\ calls > 0
  /\ Restoring /\ ~comp => proof # NoProof /\ target = proof.grants
  /\ Restoring /\ comp => target = before
  /\ ~damaged /\ drifts = 0 =>
       /\ proof # NoProof => proof.grants = orig
       /\ proof = NoProof /\ pc = "idle" => acl = orig
       /\ proof = NoProof /\ (Fencing \/ Restoring) => before = orig
       /\ Fencing => keep = orig
       /\ result = "restored" => acl = orig

\* BaselineInv is inductive, given the types.
LEMMA BaselineAlways == Spec => []BaselineInv
<1>1. Init => BaselineInv
  BY DEF Init, BaselineInv, Restoring, Fencing
<1>2. TypeOK /\ BaselineInv /\ [Next]_vars => BaselineInv'
  <2> SUFFICES ASSUME TypeOK, BaselineInv, [Next]_vars PROVE BaselineInv'
    OBVIOUS
  <2> USE DEF BaselineInv, Restoring, Fencing, db, conns, args, work, hist
  <2>1. CASE UNCHANGED vars
    BY <2>1 DEF vars
  <2>2. ASSUME NEW r \in Logins, Authenticate(r) \/ Appear(r) \/ Disconnect(r)
        PROVE  BaselineInv'
    BY <2>2 DEF Authenticate, Appear, Disconnect
  <2>3. ASSUME NEW e \in Entries, EditAcl(e) PROVE BaselineInv'
    <3>1. drifts' # 0
      BY <2>3 DEF EditAcl, TypeOK
    <3> QED
      BY <2>3, <3>1 DEF EditAcl
  <2>4. ASSUME NEW m \in Outsiders, EditMembers(m) PROVE BaselineInv'
    <3>1. drifts' # 0
      BY <2>4 DEF EditMembers, TypeOK
    <3> QED
      BY <2>4, <3>1 DEF EditMembers
  <2>5. CASE BeginFence \/ BeginRestore
    <3>1. calls' > 0
      BY <2>5 DEF BeginFence, BeginRestore, TypeOK
    <3> QED
      BY <2>5, <3>1 DEF BeginFence, BeginRestore, Recorded
  <2>6. CASE RefuseFence \/ RefuseRestore
    BY <2>6 DEF RefuseFence, RefuseRestore
  <2>7. CASE Revoke \/ Rerevoke
    BY <2>7 DEF Revoke, Rerevoke, RevokeOne
  <2>8. CASE Verify \/ Reverify \/ FirstZeroPoll \/ Terminate
    BY <2>8 DEF Verify, Reverify, StartDrain, FirstZeroPoll, Terminate, Draining
  <2>9. CASE FenceDone
    <3>1. proof' # NoProof /\ proof'.grants = keep
      BY <2>9 DEF FenceDone, NoProof
    <3> QED
      BY <2>9, <3>1 DEF FenceDone
  <2>10. CASE Grant \/ RestoreFails
    BY <2>10 DEF Grant, RestoreFails
  <2>11. CASE RestoreDone
    BY <2>11 DEF RestoreDone, RereadMatches
  <2>12. CASE RedrainDone \/ RedrainMissed \/ RefenceFails \/ CompensationFails \/ Crash
    BY <2>12 DEF RedrainDone, RedrainMissed, RefenceFails, CompensationFails, Crash,
                 EndCall, Draining, DeadlineMissed
  <2>13. CASE Compensate
    BY <2>13 DEF Compensate, CompensationTarget
  <2> QED
    BY <2>1, <2>2, <2>3, <2>4, <2>5, <2>6, <2>7, <2>8, <2>9, <2>10, <2>11, <2>12, <2>13
       DEF Next, Environment, Call, Statement, Abort
<1> QED
  BY <1>1, <1>2, TypeCorrect, PTL DEF Spec

\* Through any re-fences, refusals, compensated fences and failed restores, a
\* restore that reports success left the ACL that stood before the first fence.
THEOREM RestoreIsExact == Spec => []RestoredIsOriginal
<1>1. BaselineInv => RestoredIsOriginal
  BY DEF BaselineInv, RestoredIsOriginal
<1> QED
  BY <1>1, BaselineAlways, PTL

-----------------------------------------------------------------------------
(* A call is one step of FenceContract.                                    *)

\* Some writer can connect under the ACL a.
Open(a) == \E r \in Writers : Connects(a, r)

\* With no other administrator at work: what a proof records lets a writer in,
\* so a restore never leaves the gate fenced; a call works on the effective set;
\* a fence and its compensation stay within the ACL they found, and a restore
\* within the one it restores, so a call that is lost opens nothing.
ContractInv ==
  /\ drifts = 0 /\ calm
  /\ Open(orig) /\ (proof # NoProof => Open(proof.grants))
  /\ pc # "idle" => eff = Effective
  /\ Fencing => /\ acl \subseteq before
                /\ proof = NoProof => Open(before) /\ keep = before
                /\ proof # NoProof => keep = proof.grants
  /\ Restoring => acl \subseteq target
  /\ pc = "grant" => toGrant \subseteq target

\* What an ACL allows depends on the memberships alone.
LEMMA ReachKept ==
  ASSUME NEW a, members' = members
  PROVE  Open(a)' <=> Open(a)
BY DEF Open, Connects

\* ContractInv is inductive when nobody else edits the database.
LEMMA ContractStep ==
  ASSUME MaxDrift = 0, TypeOK, BaselineInv, ContractInv, [Next]_vars
  PROVE  ContractInv' /\ UNCHANGED <<members, orig>>
<1> USE DEF Fencing, Restoring, db, conns, args, work, hist
<1>1. UNCHANGED <<members, orig>> /\ drifts' = 0 /\ calm'
  <2>0. ASSUME NEW x, EditAcl(x) \/ EditMembers(x) PROVE FALSE
    BY <2>0 DEF EditAcl, EditMembers, ContractInv
  <2>1. CASE UNCHANGED vars \/ Environment
    <3>1. UNCHANGED <<members, orig, drifts, calm>>
      BY <2>0, <2>1 DEF vars, Environment, Authenticate, Appear, Disconnect
    <3> QED BY <3>1 DEF ContractInv
  <2>2. CASE Call
    BY <2>2 DEF Call, BeginFence, RefuseFence, BeginRestore, RefuseRestore, ContractInv
  <2>3. CASE Statement
    BY <2>3 DEF Statement, Revoke, Rerevoke, RevokeOne, Verify, Reverify, StartDrain, FirstZeroPoll,
                Terminate, FenceDone, Grant, RestoreDone, RedrainDone, EndCall, ContractInv
  <2>4. CASE Abort \/ Crash
    BY <2>4 DEF Abort, Crash, RestoreFails, RedrainMissed, RefenceFails, Compensate,
                CompensationFails, EndCall, ContractInv
  <2> QED BY <2>1, <2>2, <2>3, <2>4 DEF Next
<1>2. Effective' = Effective /\ \A a : Open(a)' <=> Open(a)
  BY <1>1, ReachKept DEF Effective
<1>3. CASE UNCHANGED vars \/ Environment
  BY <1>1, <1>2, <1>3
     DEF vars, Environment, Authenticate, Appear, Disconnect, EditAcl, EditMembers, ContractInv
<1>4. CASE BeginFence
  <2>1. proof = NoProof => Open(acl)
    BY <1>4, WritersAssumption DEF BeginFence, MayFence, OpenBaseline, CanConnect, Open
  <2> QED
    BY <1>1, <1>2, <1>4, <2>1 DEF BeginFence, Recorded, ContractInv
<1>5. CASE RefuseFence \/ RefuseRestore
  BY <1>1, <1>2, <1>5 DEF RefuseFence, RefuseRestore, ContractInv
<1>6. CASE BeginRestore
  BY <1>1, <1>2, <1>6 DEF BeginRestore, MayRestore, Missing, Effective, ContractInv
<1>7. CASE Revoke \/ Rerevoke
  BY <1>1, <1>2, <1>7 DEF Revoke, Rerevoke, RevokeOne, ContractInv
<1>8. CASE Verify \/ Reverify \/ FirstZeroPoll \/ Terminate
  BY <1>1, <1>2, <1>8 DEF Verify, Reverify, StartDrain, FirstZeroPoll, Terminate, Draining, ContractInv
<1>9. CASE FenceDone
  <2>1. proof'.grants = keep /\ Open(keep)
    BY <1>9 DEF FenceDone, ContractInv
  <2> QED
    BY <1>1, <1>2, <1>9, <2>1 DEF FenceDone, ContractInv
<1>10. CASE Grant \/ RestoreFails
  BY <1>1, <1>2, <1>10 DEF Grant, RestoreFails, ContractInv
<1>11. CASE RestoreDone \/ RedrainDone \/ RedrainMissed \/ RefenceFails \/ CompensationFails \/ Crash
  BY <1>1, <1>2, <1>11 DEF RestoreDone, RedrainDone, RedrainMissed, RefenceFails, CompensationFails,
                           Crash, EndCall, ContractInv
<1>12. CASE Compensate
  BY <1>1, <1>2, <1>12 DEF Compensate, CompensationTarget, Missing, MayRestore, ContractInv
<1> QED
  BY <1>1, <1>3, <1>4, <1>5, <1>6, <1>7, <1>8, <1>9, <1>10, <1>11, <1>12
     DEF Next, Call, Statement, Abort

\* The gate an ACL leaves: fenced exactly when no effective role connects, and
\* a smaller ACL is no more open.
LEMMA GateFacts ==
  /\ \A a : GateOf(a) \in {"fenced", "open", "partial"}
  /\ \A a : GateOf(a) = "fenced" <=> \A r \in Effective : ~Connects(a, r)
  /\ \A a : GateOf(a) = "open" => a = orig
  /\ \A a : Open(a) => GateOf(a) # "fenced"
  /\ \A a : Open(a) /\ a = orig => GateOf(a) = "open"
  /\ \A a, b : a \subseteq b /\ GateOf(b) = "fenced" => GateOf(a) = "fenced"
<1>1. \A a : GateOf(a) = "fenced" <=> \A r \in Effective : ~Connects(a, r)
  BY DEF GateOf
<1>2. \A a : Open(a) => GateOf(a) # "fenced"
  BY <1>1 DEF Open, Effective
<1>3. \A a, b, r : a \subseteq b /\ Connects(a, r) => Connects(b, r)
  BY DEF Connects
<1>4. \A a, b : a \subseteq b /\ GateOf(b) = "fenced" => GateOf(a) = "fenced"
  BY <1>1, <1>3
<1> QED
  BY <1>1, <1>2, <1>4 DEF GateOf

\* A step of a call that ends it, in the terms of the contract: the gate the call
\* found, the one it leaves, and the proof before and after.
LEMMA ContractRefined ==
  ASSUME MaxDrift = 0, TypeOK, QuietInv, WidthInv, BaselineInv, ContractInv, [Next]_vars
  PROVE  [Contract!Next]_<<GateSeen, HeldSeen>>
<1> USE DEF Fencing, Restoring, db, conns, args, work, hist
<1>1. ContractInv' /\ UNCHANGED <<members, orig>>
  BY ContractStep
<1>2. \A a : GateOf(a)' = GateOf(a)
  BY <1>1 DEF GateOf, Effective, Connects
<1>3. PICK a0, a1 : a0 = acl /\ a1 = acl'
  OBVIOUS
<1>4. PICK b0, b1 : b0 = before /\ b1 = before'
  OBVIOUS
<1>5. /\ GateSeen = IF pc = "idle" THEN GateOf(a0) ELSE GateOf(b0)
      /\ GateSeen' = IF pc' = "idle" THEN GateOf(a1) ELSE GateOf(b1)
  BY <1>2, <1>3, <1>4 DEF GateSeen
<1>6. proof' = proof => HeldSeen' = HeldSeen
  BY <1>1 DEF HeldSeen
<1>7. /\ pc # "idle" => pc \in Phases \ {"idle"} /\ (Fencing \/ Restoring)
      /\ HeldSeen = "none" <=> proof = NoProof
      /\ HeldSeen = "exact" <=> proof # NoProof /\ proof.grants = orig
      /\ HeldSeen \in {"none", "exact", "narrow"}
  BY DEF TypeOK, Phases, HeldSeen
<1>8. CASE (UNCHANGED <<acl, pc, proof>> /\ (pc # "idle" => before' = before))
           \/ (pc = "idle" /\ UNCHANGED <<acl, proof>> /\ before' = acl)
           \/ (pc # "idle" /\ pc' # "idle" /\ UNCHANGED <<before, proof>>)
  <2>1. GateSeen' = GateSeen /\ HeldSeen' = HeldSeen
    BY <1>3, <1>4, <1>5, <1>6, <1>8
  <2> QED BY <2>1
<1>9. CASE FenceDone
  <2>1. pc = "drain" /\ pc' = "idle" /\ a1 = a0 /\ proof'.grants = keep /\ proof' # NoProof
    BY <1>3, <1>9 DEF FenceDone, NoProof, BaselineInv
  <2>2. GateOf(a1) = "fenced"
    BY <1>3, <2>1, GateFacts DEF QuietInv, ContractInv, Shut, Draining, Unreachable, CanConnect
  <2>3. /\ proof = NoProof => GateOf(b0) # "fenced" /\ keep = b0
        /\ proof # NoProof => keep = proof.grants
    BY <1>4, <2>1, GateFacts DEF ContractInv
  <2>4. HeldSeen' = IF keep = orig THEN "exact" ELSE "narrow"
    BY <1>1, <2>1 DEF HeldSeen
  <2>5. proof = NoProof => (GateOf(b0) = "open" <=> keep = orig)
    BY <2>3, GateFacts DEF GateOf
  <2>6. Contract!FenceReturns
    BY <1>5, <1>7, <2>1, <2>2, <2>3, <2>4, <2>5 DEF Contract!FenceReturns, HeldSeen
  <2> QED BY <2>6 DEF Contract!Next
<1>10. CASE RestoreDone
  <2>1. pc = "grant" /\ pc' = "idle" /\ a1 = a0 /\ proof' = proof /\ a0 = target
    BY <1>3, <1>10 DEF RestoreDone, RereadMatches
  <2>2. CASE comp
    <3>1. a1 = b0
      BY <1>4, <2>1, <2>2 DEF BaselineInv
    <3> QED BY <1>5, <1>6, <2>1, <3>1
  <2>3. CASE ~comp
    <3>1. proof # NoProof /\ a1 = proof.grants /\ Open(a1)
      BY <2>1, <2>3 DEF BaselineInv, ContractInv
    <3>2. GateOf(a1) = IF HeldSeen = "exact" THEN "open" ELSE "partial"
      BY <1>7, <3>1, GateFacts
    <3>3. Contract!RestoreReturns
      BY <1>5, <1>6, <1>7, <2>1, <3>1, <3>2 DEF Contract!RestoreReturns
    <3> QED BY <3>3 DEF Contract!Next
  <2> QED BY <2>2, <2>3
<1>11. CASE \E r, bad : EndCall(r, bad) /\ pc # "idle"
  <2>1. pc # "idle" /\ pc' = "idle" /\ a1 = a0 /\ proof' = proof
    BY <1>3, <1>11 DEF EndCall
  <2>2. CASE Fencing \/ comp
    <3>1. a1 \subseteq b0 /\ b0 \subseteq orig
      BY <1>3, <1>4, <1>7, <2>1, <2>2 DEF BaselineInv, ContractInv, WidthInv
    <3>2. GateOf(a1) = "open" => a1 = b0
      BY <3>1, GateFacts
    <3>3. Contract!FenceLost
      BY <1>5, <1>6, <2>1, <3>1, <3>2, GateFacts DEF Contract!FenceLost
    <3> QED BY <3>3 DEF Contract!Next
  <2>3. CASE Restoring /\ ~comp
    <3>1. proof # NoProof /\ a1 \subseteq proof.grants /\ proof.grants \subseteq orig
      BY <1>3, <2>1, <2>3 DEF BaselineInv, ContractInv, WidthInv
    <3>2. GateOf(a1) = "open" => HeldSeen = "exact"
      BY <1>7, <3>1, GateFacts
    <3>3. Contract!RestoreLost
      BY <1>5, <1>6, <1>7, <2>1, <3>1, <3>2, GateFacts DEF Contract!RestoreLost, Contract!Gates
    <3> QED BY <3>3 DEF Contract!Next
  <2> QED BY <1>7, <2>1, <2>2, <2>3
<1>12. CASE UNCHANGED vars \/ Environment \/ Call
  <2>1. ASSUME NEW x, EditAcl(x) \/ EditMembers(x) PROVE FALSE
    BY <2>1 DEF EditAcl, EditMembers, ContractInv
  <2>2. CASE UNCHANGED vars \/ Environment
    BY <1>8, <2>1, <2>2 DEF vars, Environment, Authenticate, Appear, Disconnect
  <2>3. CASE Call
    BY <1>8, <2>3 DEF Call, BeginFence, RefuseFence, BeginRestore, RefuseRestore
  <2> QED BY <1>12, <2>2, <2>3
<1>13. CASE Statement
  BY <1>8, <1>9, <1>10, <1>11, <1>13 DEF Statement, Revoke, Rerevoke, RevokeOne, Verify, Reverify,
     StartDrain, FirstZeroPoll, Terminate, Draining, Grant, RedrainDone
<1>14. CASE Abort \/ Crash
  BY <1>8, <1>11, <1>14 DEF Abort, Crash, RestoreFails, RedrainMissed, RefenceFails, Compensate,
     CompensationFails
<1> QED
  BY <1>12, <1>13, <1>14 DEF Next

\* Statement by statement, with raised statements, compensations and kills, the
\* fencer implements FenceContract whenever nobody else edits the database.
THEOREM FenceRefines ==
  ASSUME MaxDrift = 0
  PROVE  Spec => ImplementsContract
<1>1. Init => ContractInv /\ Contract!Init
  <2> SUFFICES ASSUME Init PROVE ContractInv /\ Contract!Init
    OBVIOUS
  <2>1. Open(acl) /\ Open(orig)
    BY WritersAssumption DEF Init, Open, CanConnect
  <2> QED
    BY <2>1, GateFacts DEF Init, ContractInv, Fencing, Restoring, Contract!Init, GateSeen, HeldSeen
<1>2. TypeOK /\ BaselineInv /\ ContractInv /\ [Next]_vars => ContractInv'
  BY ContractStep
<1>3. TypeOK /\ QuietInv /\ WidthInv /\ BaselineInv /\ ContractInv /\ [Next]_vars =>
        [Contract!Next]_<<GateSeen, HeldSeen>>
  BY ContractRefined
<1> QED
  BY <1>1, <1>2, <1>3, TypeCorrect, QuietAlways, WidthAlways, BaselineAlways, PTL
     DEF Spec, ImplementsContract, Contract!Spec

-----------------------------------------------------------------------------
(* No call goes on for ever.                                               *)

\* How far a call is from its end, and how much the statement it is at still has
\* to do: grantees to revoke, entries to grant, polls and termination requests.
Level == [idle |-> 0, redrain |-> 1, reverify |-> 2, rerevoke |-> 3,
          grant |-> 4, drain |-> 5, verify |-> 6, revoke |-> 7][pc]
Work == IF pc \in {"revoke", "rerevoke"} THEN Cardinality(toRevoke)
        ELSE IF pc = "grant" THEN Cardinality(toGrant)
        ELSE IF Draining THEN 2 * (MaxTries - tries) + (IF zero THEN 0 ELSE 1)
        ELSE 0
Shrinks == Level' < Level \/ (Level' = Level /\ Work' < Work)

\* A drain never asks for more terminations than its deadline leaves time for.
DrainBounded == Draining => tries <= MaxTries

\* Every set a call works through is finite.
LEMMA WorkIsFinite ==
  ASSUME TypeOK
  PROVE  IsFiniteSet(toRevoke) /\ IsFiniteSet(toGrant)
<1>1. IsFiniteSet(Grantees)
  BY WritersAssumption, FS_AddElement DEF Grantees
<1>2. IsFiniteSet({Owner, Stranger})
  <2>1. IsFiniteSet({Owner}) /\ IsFiniteSet({Stranger})
    BY FS_Singleton
  <2>2. {Owner, Stranger} = {Owner} \cup {Stranger}
    OBVIOUS
  <2> QED BY <2>1, <2>2, FS_Union
<1>3. IsFiniteSet(Grantees \X {Owner, Stranger})
  BY <1>1, <1>2, FS_Product
<1>4. IsFiniteSet(Entries)
  <2> DEFINE f == [x \in Grantees \X {Owner, Stranger} |-> [to |-> x[1], by |-> x[2]]]
  <2>1. f \in [Grantees \X {Owner, Stranger} -> Entries]
    <3> SUFFICES ASSUME NEW x \in Grantees \X {Owner, Stranger} PROVE [to |-> x[1], by |-> x[2]] \in Entries
      OBVIOUS
    <3> QED BY DEF Entries
  <2>2. ASSUME NEW e \in Entries PROVE \E x \in Grantees \X {Owner, Stranger} : f[x] = e
    <3>1. e.to \in Grantees /\ e.by \in {Owner, Stranger} /\ e = [to |-> e.to, by |-> e.by]
      BY DEF Entries
    <3>2. <<e.to, e.by>> \in Grantees \X {Owner, Stranger}
      BY <3>1
    <3>3. f[<<e.to, e.by>>] = e
      BY <3>1, <3>2
    <3> QED BY <3>2, <3>3
  <2>3. f \in Surjection(Grantees \X {Owner, Stranger}, Entries)
    BY <2>1, <2>2 DEF Surjection
  <2> QED BY <1>3, <2>3, FS_Surjection
<1> QED BY <1>1, <1>4, FS_Subset DEF TypeOK

\* Every step the fencer takes by itself ends the call or brings it nearer its end,
\* no client or administrator takes it back, and what is left is a natural number:
\* what makes a call return once its thread keeps executing (fence_writers,
\* restore_writers, _terminate_and_drain).
THEOREM CallsRunOut ==
  Spec => /\ [](DrainBounded /\ Level \in Nat /\ Work \in Nat)
          /\ [][/\ Statement \/ Abort \/ Crash => Shrinks
                /\ Environment => UNCHANGED <<Level, Work>>]_vars
<1>1. Init => DrainBounded
  BY DEF Init, DrainBounded, Draining
<1>2. TypeOK /\ DrainBounded /\ [Next]_vars => DrainBounded'
  <2> SUFFICES ASSUME TypeOK, DrainBounded, [Next]_vars PROVE DrainBounded'
    OBVIOUS
  <2> USE DEF DrainBounded, Draining, db, conns, args, work, hist
  <2>1. MaxTries \in Nat /\ tries \in Nat
    BY BoundsAssumption DEF TypeOK
  <2>2. CASE UNCHANGED vars \/ Environment \/ Call
    BY <2>2 DEF vars, Environment, Authenticate, Appear, Disconnect, EditAcl, EditMembers, Call, BeginFence,
       RefuseFence, BeginRestore, RefuseRestore
  <2>3. CASE Statement
    BY <2>1, <2>3 DEF Statement, Revoke, Rerevoke, RevokeOne, Verify, Reverify, StartDrain, FirstZeroPoll,
       Terminate, FenceDone, Grant, RestoreDone, RedrainDone, EndCall
  <2>4. CASE Abort \/ Crash
    BY <2>4 DEF Abort, Crash, RestoreFails, RedrainMissed, RefenceFails, Compensate, CompensationFails, EndCall
  <2> QED BY <2>2, <2>3, <2>4 DEF Next
<1>3. TypeOK /\ DrainBounded => Work \in Nat
  <2> SUFFICES ASSUME TypeOK, DrainBounded PROVE Work \in Nat
    OBVIOUS
  <2>1. Cardinality(toRevoke) \in Nat /\ Cardinality(toGrant) \in Nat
    BY WorkIsFinite, FS_CardinalityType
  <2>2. Draining => 2 * (MaxTries - tries) \in Nat
    BY BoundsAssumption DEF DrainBounded, TypeOK
  <2> QED BY <2>1, <2>2 DEF Work
<1>4. TypeOK => Level \in Nat
  BY DEF TypeOK, Phases, Level
<1>5. Environment => UNCHANGED <<Level, Work>>
  BY DEF Environment, Authenticate, Appear, Disconnect, EditAcl, EditMembers, Level, Work, Draining, args, work
<1>6. TypeOK /\ TypeOK' /\ DrainBounded /\ DrainBounded' /\ [Next]_vars => [Statement \/ Abort \/ Crash => Shrinks]_vars
  <2> SUFFICES ASSUME TypeOK, TypeOK', DrainBounded, DrainBounded', Statement \/ Abort \/ Crash PROVE Shrinks
    OBVIOUS
  <2> USE DEF db, conns, args, work, hist, Shrinks
  <2>1. CASE pc' # pc
    <3>1. \/ pc' = "idle" /\ pc # "idle"
          \/ pc = "revoke" /\ pc' = "verify"
          \/ pc = "verify" /\ pc' = "drain"
          \/ pc \in {"revoke", "verify", "drain"} /\ pc' = "grant"
          \/ pc = "grant" /\ pc' = "rerevoke"
          \/ pc = "rerevoke" /\ pc' = "reverify"
          \/ pc = "reverify" /\ pc' = "redrain"
      <4>1. CASE Revoke \/ Rerevoke
        <5>1. ASSUME NEW here, NEW next, RevokeOne(here, next) PROVE pc = here /\ pc' \in {here, next}
          <6>1. pc = here /\ pc' = IF toRevoke' = {} THEN next ELSE here
            BY <5>1, Zenon DEF RevokeOne
          <6> QED BY <6>1
        <5>2. CASE Revoke
          <6>1. pc = "revoke" /\ pc' \in {"revoke", "verify"}
            BY <5>1, <5>2, Zenon DEF Revoke
          <6> QED BY <2>1, <6>1
        <5>3. CASE Rerevoke
          <6>1. pc = "rerevoke" /\ pc' \in {"rerevoke", "reverify"}
            BY <5>1, <5>3, Zenon DEF Rerevoke
          <6> QED BY <2>1, <6>1
        <5> QED BY <4>1, <5>2, <5>3
      <4>2. CASE Verify \/ Reverify
        BY <2>1, <4>2 DEF Verify, Reverify, StartDrain
      <4>3. CASE FirstZeroPoll \/ Terminate \/ Grant
        BY <2>1, <4>3 DEF FirstZeroPoll, Terminate, Grant
      <4>4. CASE FenceDone \/ RestoreDone \/ RedrainDone
        BY <2>1, <4>4 DEF FenceDone, RestoreDone, RedrainDone, EndCall
      <4>5. CASE RestoreFails \/ Compensate
        <5>1. CASE RestoreFails
          <6>1. pc = "grant" /\ pc' = "rerevoke"
            BY <5>1, Zenon DEF RestoreFails
          <6> QED BY <6>1
        <5>2. CASE Compensate
          BY <5>2, Zenon DEF Compensate
        <5> QED BY <4>5, <5>1, <5>2
      <4>6. CASE RedrainMissed \/ RefenceFails \/ CompensationFails \/ Crash
        BY <2>1, <4>6 DEF RedrainMissed, RefenceFails, CompensationFails, Crash, EndCall
      <4> QED BY <4>1, <4>2, <4>3, <4>4, <4>5, <4>6 DEF Statement, Abort
    <3> QED BY <3>1 DEF Level, TypeOK, Phases
  <2>2. CASE pc' = pc
    <3>1. Level' = Level
      BY <2>2 DEF Level
    <3>2. CASE Revoke \/ Rerevoke
      <4>1. PICK g \in toRevoke : toRevoke' = toRevoke \ {g}
        BY <3>2 DEF Revoke, Rerevoke, RevokeOne
      <4>2. Cardinality(toRevoke') = Cardinality(toRevoke) - 1 /\ Cardinality(toRevoke) \in Nat
        BY <4>1, WorkIsFinite, FS_RemoveElement, FS_CardinalityType
      <4>3. pc \in {"revoke", "rerevoke"}
        BY <3>2 DEF Revoke, Rerevoke, RevokeOne
      <4> QED BY <2>2, <3>1, <4>2, <4>3 DEF Work
    <3>3. CASE Grant
      <4>1. PICK e \in toGrant : toGrant' = toGrant \ {e}
        BY <3>3 DEF Grant
      <4>2. Cardinality(toGrant') = Cardinality(toGrant) - 1 /\ Cardinality(toGrant) \in Nat
        BY <4>1, WorkIsFinite, FS_RemoveElement, FS_CardinalityType
      <4>3. pc = "grant"
        BY <3>3 DEF Grant
      <4> QED BY <2>2, <3>1, <4>2, <4>3 DEF Work
    <3>4. CASE FirstZeroPoll
      BY <2>2, <3>1, <3>4, BoundsAssumption DEF FirstZeroPoll, Work, Draining, TypeOK
    <3>5. CASE Terminate
      BY <2>2, <3>1, <3>5, BoundsAssumption DEF Terminate, Work, Draining, TypeOK
    <3> QED
      BY <2>2, <3>2, <3>3, <3>4, <3>5 DEF Statement, Verify, Reverify, StartDrain, FenceDone, RestoreDone,
         RedrainDone, EndCall, Abort, Crash, RestoreFails, RedrainMissed, RefenceFails, Compensate,
         CompensationFails
  <2> QED BY <2>1, <2>2
<1>7. TypeOK /\ TypeOK' /\ DrainBounded /\ DrainBounded' /\ [Next]_vars =>
        [/\ Statement \/ Abort \/ Crash => Shrinks
         /\ Environment => UNCHANGED <<Level, Work>>]_vars
  BY <1>5, <1>6
<1> QED BY <1>1, <1>2, <1>3, <1>4, <1>7, TypeCorrect, PTL DEF Spec

=============================================================================
