-------------------------- MODULE CpTransitionProofs --------------------------
(***************************************************************************)
(* Theorems about CpTransition, for every set of requests.                 *)
(***************************************************************************)
EXTENDS CpTransition, TLAPS

\* The types of the host, of the stores and of the process.
WorldOK ==
  /\ route \in {"public", "maintenance"} /\ gate \in Fence!Gates
  /\ heads \in {"source", "target"} /\ image \in {"source", "target"}
  /\ sessions \in BOOLEAN /\ up \in BOOLEAN /\ touched \in BOOLEAN /\ saved \in Bundles
  /\ cand \in {"none", "roles", "open", "running"} /\ beats \in 0..MaxBeats
StoreOK ==
  /\ kind \in [Requests -> Kinds \cup {"unused"}]
  /\ prior \in [Requests -> Requests \cup {None}]
  /\ original \in [Requests -> Requests \cup {None}]
  /\ kept \in [Requests -> SUBSET Documents]
  /\ claim \in [Requests -> Requests \cup {None}]
  /\ stored \in [Requests -> Fence!Helds]
  /\ quiesced \in [Requests -> BOOLEAN]
ProcOK ==
  /\ cur \in Requests \cup {None}
  /\ stage \in Stages \cup Containment \cup {"claim", "idle"}
  /\ held \in Fence!Helds /\ created \in BOOLEAN /\ errors \in BOOLEAN
  /\ ended \in {"none", "running", "complete", "refused", "failed", "died"}

\* TypeOK splits into the types of the host, the stores and the process.
LEMMA TypeParts == TypeOK <=> WorldOK /\ StoreOK /\ ProcOK
BY DEF TypeOK, WorldOK, StoreOK, ProcOK

\* Every stage is followed by a stage.
LEMMA NextStageType ==
  ASSUME NEW k, NEW s PROVE NextStage(k, s) \in Stages \cup {"idle"}
BY DEF NextStage, TransitionNext, ContinuationNext, FailedCandidateNext, PostAclNext, SuffixNext,
       Stages, PreMigration, Rebinding, Candidate, Release

\* The steps a fence or restore call can take keep its types.
LEMMA FenceTypes ==
  ASSUME gate \in Fence!Gates, held \in Fence!Helds,
         \/ Fence!FenceReturns \/ Fence!FenceLost \/ Fence!CallRefused
         \/ Fence!RestoreReturns \/ Fence!RestoreKeepsFence \/ Fence!RestoreLost
  PROVE  gate' \in Fence!Gates /\ held' \in Fence!Helds
BY DEF Fence!Gates, Fence!Helds, Fence!FenceReturns, Fence!FenceLost, Fence!CallRefused,
       Fence!RestoreReturns, Fence!RestoreKeepsFence, Fence!RestoreLost

\* Whatever a failed removal leaves is one of the candidate's states.
LEMMA AtMostType ==
  ASSUME NEW c \in {"none", "roles", "open", "running"}
  PROVE  AtMost[c] \subseteq {"none", "roles", "open", "running"}
<1>1. CASE c = "none"    BY <1>1 DEF AtMost
<1>2. CASE c = "roles"   BY <1>2 DEF AtMost
<1>3. CASE c = "open"    BY <1>3 DEF AtMost
<1>4. CASE c = "running" BY <1>4 DEF AtMost
<1> QED BY <1>1, <1>2, <1>3, <1>4

\* The host's own variables stay in their types.
LEMMA WorldStep == TypeOK /\ [Next]_vars => WorldOK'
<1> SUFFICES ASSUME WorldOK, held \in Fence!Helds, [Next]_vars PROVE WorldOK'
  BY TypeParts DEF ProcOK
<1> USE DEF WorldOK, world
<1>1. CASE UNCHANGED vars
  BY <1>1 DEF vars
<1>2. CASE Environment
  <2>1. beats' \in 0..MaxBeats
    BY <1>2, BeatsAssumption DEF Environment, WriterConnects, WriterLeaves, WriterWrites,
       CandidateWrites
  <2> QED
    BY <1>2, <2>1 DEF Environment, WriterConnects, WriterLeaves, WriterWrites, CandidateWrites, Bundles
<1>3. CASE Admit
  BY <1>3 DEF Admit, StartTransition, StartHeldFence, StartRecovery, Start
<1>4. CASE FenceWriters
  BY <1>4, FenceTypes DEF FenceWriters, FenceHolds, FenceFails
<1>5. CASE RestoreAcl
  BY <1>5, FenceTypes DEF RestoreAcl
<1>6. CASE FailFence
  BY <1>6, FenceTypes DEF FailFence, FenceHolds, FenceFails
<1>7. CASE Claim \/ Record \/ Measure
  BY <1>7 DEF Claim, Record, Measure
<1>13. CASE Maintenance \/ StopWriters
  BY <1>13 DEF Maintenance, MaintenanceOn, StopWriters, WritersStopped
<1>8. CASE CaptureAndRestore \/ Migrate
  BY <1>8 DEF CaptureAndRestore, BundlePublished, BundleRestored, Bundles, Migrate, NativeUpgrade
<1>9. CASE CandidateReady \/ RemoveCandidate
  BY <1>9, AtMostType DEF CandidateReady, CandidateRuns, CandidatePrepared, RolesCreated,
     RolesActivated, StagedVerified, RemoveCandidate, CandidateClosed,
     CandidateNotClosed, RolesDropped, RolesLeft
<1>10. CASE FullReady \/ VerifyPreRouting \/ RestoreRouting
  BY <1>10 DEF FullReady, TargetRuntime, VerifyPreRouting, RestoreRouting
<1>11. CASE FailAdmit \/ FailMaintenance \/ FailRetain
  BY <1>11 DEF FailAdmit, FailMaintenance, FailRetain
<1>12. CASE FailCandidate
  BY <1>12, AtMostType DEF FailCandidate, CandidateClosed, CandidateNotClosed,
     RolesDropped, RolesLeft, NoCandidate
<1> QED
  BY <1>1, <1>2, <1>3, <1>4, <1>5, <1>6, <1>7, <1>8, <1>9, <1>10, <1>11, <1>12, <1>13
     DEF Next, Execute, FailClosed

\* A request is being executed whenever the process is not idle.
LEMMA RunningStep ==
  TypeOK /\ (stage # "idle" => cur \in Requests) /\ [Next]_vars =>
    (stage # "idle" => cur \in Requests)'
<1> SUFFICES ASSUME TypeOK, stage # "idle" => cur \in Requests, [Next]_vars
             PROVE  (stage # "idle" => cur \in Requests)'
  OBVIOUS
<1> USE DEF proc
<1>1. CASE UNCHANGED vars \/ Environment
  BY <1>1 DEF vars, Environment, WriterConnects, WriterLeaves, WriterWrites, CandidateWrites
<1>2. CASE Admit
  BY <1>2 DEF Admit, StartTransition, StartHeldFence, StartRecovery, Start, Requests
<1>3. CASE Execute
  <2>1. stage # "idle" /\ cur' = cur
    BY <1>3 DEF Execute, Claim, Record, Inspection, Authorization, Receipt, Maintenance,
       FenceWriters, StopWriters, Measure,
       CaptureAndRestore, Migrate, NativeUpgrade, CandidateReady, RemoveCandidate, RestoreAcl,
       FullReady, VerifyPreRouting, RestoreRouting, Retain, Fault, Raise, Die
  <2> QED
    BY <2>1
<1>4. CASE FailClosed
  <2>1. stage # "idle" /\ cur' = cur
    BY <1>4 DEF FailClosed, FailAdmit, FailMaintenance, FailCandidate, FailFence,
       FailRetain, Goto, Quit
  <2> QED
    BY <2>1
<1> QED
  BY <1>1, <1>2, <1>3, <1>4 DEF Next

\* The artifact stores stay in their types.
LEMMA StoreStep ==
  TypeOK /\ (stage # "idle" => cur \in Requests) /\ [Next]_vars => StoreOK'
<1> SUFFICES ASSUME StoreOK, held \in Fence!Helds, gate \in Fence!Gates,
                    stage # "idle" => cur \in Requests, [Next]_vars
             PROVE  StoreOK'
  BY TypeParts DEF ProcOK, WorldOK
<1> USE DEF StoreOK, store, Identity
<1>1. CASE UNCHANGED vars \/ Environment
  BY <1>1 DEF vars, Environment, WriterConnects, WriterLeaves, WriterWrites, CandidateWrites
<1>2. ASSUME NEW r \in Requests, NEW p \in Requests \cup {None}, NEW k \in Kinds, NEW f,
             Start(r, k, p, f)
      PROVE  StoreOK'
  BY <1>2 DEF Start, Root
<1>3. CASE Admit
  BY <1>2, <1>3 DEF Admit, StartTransition, StartHeldFence, StartRecovery, Requests, Kinds
<1>4. ASSUME NEW s \in Stages, Retain(s) \/ Fault, cur \in Requests
      PROVE  kept' \in [Requests -> SUBSET Documents]
  BY <1>4 DEF Retain, Fault, Raise, Die, Documents
<1>5. CASE Claim
  BY <1>5 DEF Claim, ReserveFrontier, Fault, Raise, Die
<1>6. CASE Record \/ Measure
  BY <1>4, <1>6 DEF Record, Inspection, Authorization, Receipt, Measure, Stages,
     PreMigration, Rebinding, Candidate, Release
<1>7. CASE Maintenance \/ StopWriters \/ CaptureAndRestore \/ Migrate
  BY <1>4, <1>7 DEF Maintenance, StopWriters, CaptureAndRestore, Migrate, NativeUpgrade, Stages, PreMigration
<1>8. CASE FenceWriters
  <2>1. held' \in Fence!Helds
    BY <1>8, FenceTypes DEF FenceWriters, FenceHolds, FenceFails
  <2> QED
    BY <1>4, <1>8, <2>1 DEF FenceWriters, RetainProof, Stages, PreMigration, Rebinding
<1>9. CASE CandidateReady \/ RestoreAcl \/ FullReady \/ VerifyPreRouting \/ RestoreRouting
  BY <1>4, <1>9 DEF CandidateReady, RestoreAcl, FullReady, VerifyPreRouting, RestoreRouting,
                    Stages, Candidate, Release
<1>10. CASE RemoveCandidate
  BY <1>4, <1>10 DEF RemoveCandidate, CandidateClosed, CandidateNotClosed, RolesDropped, RolesLeft, Stages, Candidate
<1>11. CASE FailAdmit \/ FailMaintenance \/ FailFence
  BY <1>11 DEF FailAdmit, FailMaintenance, FailFence
<1>12. CASE FailCandidate
  BY <1>12 DEF FailCandidate, CandidateClosed, CandidateNotClosed, RolesDropped, RolesLeft, NoCandidate
<1>13. CASE FailRetain
  BY <1>13 DEF FailRetain, FailureDocument, Documents
<1> QED
  BY <1>1, <1>3, <1>5, <1>6, <1>7, <1>8, <1>9, <1>10, <1>11, <1>12, <1>13
     DEF Next, Execute, FailClosed

\* The process's own variables stay in their types.
LEMMA ProcStep == TypeOK /\ [Next]_vars => ProcOK'
<1> SUFFICES ASSUME ProcOK, gate \in Fence!Gates, \A r \in Requests : stored[r] \in Fence!Helds,
                    [Next]_vars
             PROVE  ProcOK'
  BY TypeParts DEF StoreOK, WorldOK
<1> USE DEF ProcOK, proc
<1>1. CASE UNCHANGED vars \/ Environment
  BY <1>1 DEF vars, Environment, WriterConnects, WriterLeaves, WriterWrites, CandidateWrites
<1>2. CASE Admit
  BY <1>2 DEF Admit, StartTransition, StartHeldFence, StartRecovery, Start, Requests,
              Fence!Helds, Stages, PreMigration
<1>3. ASSUME NEW s, Retain(s) \/ Fault
      PROVE  /\ stage' \in Stages \cup Containment \cup {"claim", "idle"}
             /\ errors' \in BOOLEAN
             /\ cur' \in Requests \cup {None}
             /\ ended' \in {"none", "running", "complete", "refused", "failed", "died"}
  BY <1>3, NextStageType DEF Retain, Fault, Raise, Die, Containment
<1>4. CASE Claim \/ Record \/ Maintenance \/ StopWriters \/ Measure
  BY <1>3, <1>4 DEF Claim, Record, Inspection, Authorization, Receipt, Maintenance,
     StopWriters, Measure, Stages, PreMigration
<1>5. CASE CaptureAndRestore \/ Migrate \/ CandidateReady \/ FullReady \/ VerifyPreRouting
           \/ RestoreRouting
  BY <1>3, <1>5 DEF CaptureAndRestore, Migrate, NativeUpgrade, CandidateReady, FullReady, VerifyPreRouting,
                    RestoreRouting
<1>6. CASE FenceWriters \/ RestoreAcl
  <2>1. held' \in Fence!Helds
    BY <1>6, FenceTypes DEF FenceWriters, FenceHolds, FenceFails, RestoreAcl
  <2> QED
    BY <1>3, <1>6, <2>1 DEF FenceWriters, RestoreAcl
<1>7. CASE RemoveCandidate
  BY <1>3, <1>7 DEF RemoveCandidate, CandidateClosed, CandidateNotClosed, RolesDropped, RolesLeft
<1>8. CASE FailAdmit \/ FailMaintenance \/ FailRetain
  BY <1>8 DEF FailAdmit, FailMaintenance, FailRetain, Goto, Quit, Containment
<1>9. CASE FailCandidate
  BY <1>9 DEF FailCandidate, CandidateClosed, CandidateNotClosed, RolesDropped, RolesLeft, NoCandidate, Goto, Quit,
              Containment
<1>10. CASE FailFence
  <2>1. held' \in Fence!Helds
    BY <1>10, FenceTypes DEF FailFence, FenceHolds, FenceFails
  <2> QED
    BY <1>10, <2>1 DEF FailFence, Goto, Quit, Containment
<1> QED
  BY <1>1, <1>2, <1>4, <1>5, <1>6, <1>7, <1>8, <1>9, <1>10 DEF Next, Execute, FailClosed

\* The types, and that a busy process executes a request.
Typed == TypeOK /\ (stage # "idle" => cur \in Requests)

\* The types hold throughout.
LEMMA TypedAlways == Spec => []Typed
<1>1. Init => Typed
  <2> SUFFICES ASSUME Init PROVE Typed
    OBVIOUS
  <2>1. WorldOK
    <3>1. beats \in 0..MaxBeats
      BY BeatsAssumption DEF Init
    <3> QED
      BY <3>1 DEF Init, WorldOK, Fence!Gates, Bundles
  <2>2. StoreOK
    BY DEF Init, StoreOK, Fence!Helds
  <2>3. ProcOK
    BY DEF Init, ProcOK, Fence!Helds
  <2> QED
    BY <2>1, <2>2, <2>3, TypeParts DEF Init, Typed
<1>2. Typed /\ [Next]_vars => Typed'
  <2> SUFFICES ASSUME Typed, [Next]_vars PROVE Typed'
    OBVIOUS
  <2>1. WorldOK' /\ StoreOK' /\ ProcOK'
    BY WorldStep, StoreStep, ProcStep DEF Typed
  <2>2. TypeOK'
    BY <2>1 DEF TypeOK, WorldOK, StoreOK, ProcOK
  <2> QED
    BY <2>2, RunningStep DEF Typed
<1> QED
  BY <1>1, <1>2, PTL DEF Spec

\* Host, stores and process keep their types through every stage and failure.
THEOREM TypeCorrect == Spec => []TypeOK
<1>1. Typed => TypeOK
  BY DEF Typed
<1> QED
  BY <1>1, TypedAlways, PTL

-----------------------------------------------------------------------------
(* A frontier has one successor.                                           *)

\* OneSuccessor is not inductive: it holds because a recovery retains nothing
\* before the frontier it names is reserved for it, and a reservation is never
\* overwritten.
ClaimInv ==
  /\ \A r \in Requests : kind[r] = "unused" => kept[r] = {}
  /\ stage # "idle" => kind[cur] # "unused"
  /\ \A r \in Requests : prior[r] # None /\ kept[r] # {} => claim[prior[r]] = r
  /\ stage \notin {"idle", "claim"} /\ prior[cur] # None => claim[prior[cur]] = cur
  /\ stage = "claim" => kind[cur] \in RecoveryKinds /\ prior[cur] \in Requests

\* A stage or a raised exception changes only what is kept under the request
\* being executed, and after the claim never goes back to it.
LEMMA StageFrame ==
  ASSUME Typed, stage # "idle", NEW s, Retain(s) \/ Fault
  PROVE  /\ cur' = cur /\ stage' # "claim"
         /\ \A r \in Requests : r # cur => kept'[r] = kept[r]
BY NextStageType DEF Typed, TypeOK, Retain, Fault, Raise, Die, Stages, PreMigration,
   Rebinding, Candidate, Release

\* Every stage but the claim ends in its retained document or in an exception.
LEMMA ExecuteFrame ==
  ASSUME Execute, ~Claim
  PROVE  /\ \E s \in Stages : stage = s /\ (Retain(s) \/ Fault)
         /\ UNCHANGED <<Identity, claim>>
<1>1. \E s \in Stages : stage = s /\ (Retain(s) \/ Fault)
  BY DEF Execute, Record, Inspection, Authorization, Receipt, Maintenance, FenceWriters,
     StopWriters, Measure,
     CaptureAndRestore, Migrate, NativeUpgrade, CandidateReady, RemoveCandidate, RestoreAcl,
     FullReady, VerifyPreRouting, RestoreRouting, Stages, PreMigration, Rebinding,
     Candidate, Release
<1>2. UNCHANGED <<Identity, claim>>
  BY DEF Execute, Record, Inspection, Authorization, Receipt, Maintenance, FenceWriters,
     StopWriters, Measure,
     CaptureAndRestore, Migrate, NativeUpgrade, CandidateReady, RemoveCandidate, RestoreAcl,
     FullReady, VerifyPreRouting, RestoreRouting
<1> QED
  BY <1>1, <1>2

\* Every step keeps the agreement of claims and documents.
LEMMA ClaimStep == Typed /\ ClaimInv /\ [Next]_vars => ClaimInv'
<1> SUFFICES ASSUME Typed, ClaimInv, [Next]_vars PROVE ClaimInv'
  OBVIOUS
<1>0. /\ None \notin Requests /\ kept \in [Requests -> SUBSET Documents]
      /\ claim \in [Requests -> Requests \cup {None}]
      /\ prior \in [Requests -> Requests \cup {None}]
      /\ kind \in [Requests -> Kinds \cup {"unused"}]
  BY RequestsAssumption DEF Typed, TypeOK
<1>1. CASE UNCHANGED vars \/ Environment
  BY <1>1 DEF ClaimInv, vars, Environment, WriterConnects, WriterLeaves, WriterWrites,
     CandidateWrites, store, proc
<1>2. ASSUME NEW r \in Requests, NEW p \in Requests \cup {None}, NEW k \in Kinds,
             NEW f \in {"inspection", "claim"}, Start(r, k, p, f),
             f = "claim" => k \in RecoveryKinds /\ p # None,
             f # "claim" => p = None
      PROVE  ClaimInv'
  BY <1>0, <1>2 DEF ClaimInv, Start, Kinds, RecoveryKinds, CandidateKinds, PostAclKinds
<1>3. CASE Admit
  BY <1>0, <1>2, <1>3 DEF Admit, StartTransition, StartHeldFence, StartRecovery, Requests, Kinds
<1>4. ASSUME stage \notin {"idle", "claim"}, cur' = cur, stage' # "claim",
             UNCHANGED <<Identity, claim>>,
             \A r \in Requests : r # cur => kept'[r] = kept[r]
      PROVE  ClaimInv'
  BY <1>0, <1>4 DEF ClaimInv, Identity
<1>5. CASE Claim
  <2>1. stage = "claim" /\ cur \in Requests /\ ~Guarded
    BY <1>5 DEF Claim, Guarded, ClaimInv, Typed, RecoveryKinds, CandidateKinds, PostAclKinds
  <2>2. /\ cur' = cur /\ kept' = kept
        /\ stage' \in {"inspection", "idle"}
        /\ \/ claim' = claim /\ stage' = "idle"
           \/ claim[prior[cur]] = None /\ claim' = [claim EXCEPT ![prior[cur]] = cur]
    BY <1>5, <2>1 DEF Claim, ReserveFrontier, Fault, Raise, Die
  <2> QED
    BY <1>0, <1>5, <2>1, <2>2 DEF ClaimInv, Claim, Identity
<1>6. CASE Execute /\ ~Claim
  <2>1. stage \notin {"idle", "claim"}
    BY <1>6, ExecuteFrame DEF Stages, PreMigration, Rebinding, Candidate, Release
  <2> QED
    BY <1>4, <1>6, <2>1, ExecuteFrame, StageFrame
<1>7. CASE FailClosed
  <2>1. /\ stage \notin {"idle", "claim"} /\ stage' # "claim" /\ cur' = cur
        /\ UNCHANGED <<Identity, claim>>
        /\ kept' = kept \/ kept' = [kept EXCEPT ![cur] = @ \cup {"failure"}]
    BY <1>7 DEF FailClosed, FailAdmit, FailMaintenance, FailCandidate, FailFence,
       FailRetain, FailureDocument, Goto, Quit, Identity, store
  <2> QED
    BY <1>0, <1>4, <2>1
<1> QED
  BY <1>1, <1>3, <1>5, <1>6, <1>7 DEF Next

\* Claims and documents always agree.
LEMMA ClaimAlways == Spec => []ClaimInv
<1>1. Init => ClaimInv
  BY DEF Init, ClaimInv
<1> QED
  BY <1>1, ClaimStep, TypedAlways, PTL DEF Spec

\* Of the recoveries that name one failed request, at most one ever retained a
\* document, whatever the number of requests and however they were interrupted.
THEOREM SingleSuccessor == Spec => []OneSuccessor
<1>1. ClaimInv => OneSuccessor
  BY DEF ClaimInv, OneSuccessor
<1> QED
  BY <1>1, ClaimAlways, PTL

-----------------------------------------------------------------------------
(* A recorded failure is a contained one.                                  *)

\* FailureIsContained holds because each step of fail_closed establishes its part
\* or leaves an error behind, and because a process whose created flag is off
\* has no candidate to leave behind.
ContainInv ==
  /\ heads = "source" => cand = "none"
  /\ stage # "idle" /\ ~created => cand = "none"
  /\ stage # "idle" /\ created => heads = "target"
  /\ stage = "candidate-removed-fenced" => created
  /\ stage # "idle" => "failure" \notin kept[cur]
  /\ stage \in {"fc-candidate", "fc-fence", "fc-retain"} /\ ~errors => route = "maintenance"
  /\ stage \in {"fc-fence", "fc-retain"} /\ ~errors => cand = "none"
  /\ stage = "fc-retain" /\ ~errors => Strict
  /\ FailureIsContained

\* A stage never retains the failure document, and never enters fail_closed
\* past its first step.
LEMMA StageKeepsFailureOut ==
  ASSUME Typed, NEW s \in Stages, stage = s, Retain(s) \/ Fault,
         "failure" \notin kept[cur]
  PROVE  /\ "failure" \notin kept'[cur]
         /\ cur' = cur
         /\ stage' \notin {"fc-maintenance", "fc-candidate", "fc-fence", "fc-retain"}
BY NextStageType DEF Typed, TypeOK, Retain, Fault, Raise, Die, Stages, PreMigration,
   Rebinding, Candidate, Release

\* Only a ready candidate is removed.
LEMMA CandidateFollows ==
  ASSUME NEW s \in Stages, stage = s, Retain(s) \/ Fault,
         stage' = "candidate-removed-fenced"
  PROVE  s = "candidate-ready" /\ Retain(s)
BY DEF Retain, Fault, Raise, Die, NextStage, TransitionNext, ContinuationNext, FailedCandidateNext, PostAclNext,
       SuffixNext

\* Every step keeps what containment promises.
LEMMA ContainStep == Typed /\ ClaimInv /\ ContainInv /\ [Next]_vars => ContainInv'
<1> SUFFICES ASSUME Typed, ClaimInv, ContainInv, [Next]_vars PROVE ContainInv'
  OBVIOUS
<1> USE DEF ContainInv, FailureIsContained
<1>1. CASE UNCHANGED vars
  BY <1>1 DEF vars, Strict
<1>2. CASE Environment
  BY <1>2 DEF Environment, WriterConnects, WriterLeaves, WriterWrites, CandidateWrites,
     store, proc, Strict
<1>3. CASE Admit
  <2>1. cand = "none"
    BY <1>3 DEF Admit, StartTransition, StartHeldFence, StartRecovery, LiveAdmission, SourceBound,
       PostAclAdmission, ContinuationAdmission
  <2>2. /\ kept' = kept /\ kept[cur'] = {} /\ UNCHANGED world
        /\ stage' \in {"inspection", "claim"} /\ ended' = "running"
    BY <1>3 DEF Admit, StartTransition, StartHeldFence, StartRecovery, Start, ClaimInv, Requests
  <2>3. ~created'
    BY <1>3 DEF Admit, StartTransition, StartHeldFence, StartRecovery, Start
  <2> QED
    BY <2>1, <2>2, <2>3 DEF world
<1>4. CASE Claim
  <2>1. /\ UNCHANGED <<world, kept, cur, created>> /\ stage = "claim"
        /\ stage' \in {"inspection", "idle", "fc-admit"}
        /\ ended' = "failed" => stage' # "idle"
    BY <1>4 DEF Claim, Fault, Raise, Die
  <2> QED
    BY <2>1 DEF world
<1>5. CASE Execute /\ ~Claim
  <2>1. /\ cur' = cur /\ "failure" \notin kept'[cur]
        /\ stage # "idle"
        /\ stage' \notin {"fc-maintenance", "fc-candidate", "fc-fence", "fc-retain"}
    BY <1>5, ExecuteFrame, StageKeepsFailureOut
       DEF Stages, PreMigration, Rebinding, Candidate, Release
  <2>2. heads' = "source" => heads = "source"
    BY <1>5 DEF Typed, TypeOK, Execute, Record, Inspection, Authorization, Receipt,
       Maintenance, FenceWriters, StopWriters,
       Measure, CaptureAndRestore, Migrate, NativeUpgrade, CandidateReady, RemoveCandidate, RestoreAcl,
       FullReady, VerifyPreRouting, RestoreRouting, world
  <2>3. \/ CandidateReady \/ RemoveCandidate
        \/ UNCHANGED <<cand, created>> /\ stage # "candidate-ready"
    BY <1>5 DEF Execute, Record, Inspection, Authorization, Receipt, Maintenance,
       FenceWriters, StopWriters, Measure,
       CaptureAndRestore, Migrate, NativeUpgrade, RestoreAcl, FullReady, VerifyPreRouting,
       RestoreRouting, world
  <2>4. stage' = "candidate-removed-fenced" => stage = "candidate-ready" /\ Retain("candidate-ready")
    BY <1>5, ExecuteFrame, CandidateFollows
  <2>5. CASE CandidateReady
    <3>1. /\ heads' = heads
          /\ \/ created' = TRUE /\ heads = "target"
             \/ UNCHANGED <<cand, created>> /\ Fault
      BY <2>5 DEF CandidateReady
    <3>2. Fault => stage' # "candidate-removed-fenced"
      BY DEF Fault, Raise, Die
    <3> QED
      BY <2>1, <3>1, <3>2
  <2>6. CASE RemoveCandidate
    <3>1. stage = "candidate-removed-fenced" /\ heads' = heads /\ created /\ heads = "target"
      BY <2>6 DEF RemoveCandidate
    <3>2. ~created' => cand' = "none"
      BY <2>6, <3>1 DEF RemoveCandidate, CandidateClosed, CandidateNotClosed, RolesDropped, RolesLeft
    <3> QED
      BY <2>1, <2>4, <3>1, <3>2
  <2>7. CASE UNCHANGED <<cand, created>> /\ stage # "candidate-ready"
    <3>1. created => heads' = "target"
      BY <2>1, <2>2, <2>7, <1>5 DEF Typed, TypeOK, Execute, Record, Inspection,
         Authorization, Receipt, Maintenance, FenceWriters,
         StopWriters, Measure, CaptureAndRestore, Migrate, NativeUpgrade, RestoreAcl, FullReady,
         VerifyPreRouting, RestoreRouting, CandidateReady, RemoveCandidate, world
    <3> QED
      BY <2>1, <2>2, <2>4, <2>7, <3>1
  <2> QED
    BY <2>3, <2>5, <2>6, <2>7
<1>6. CASE FailAdmit
  BY <1>6 DEF FailAdmit, Goto, Quit, world, store
<1>7. CASE FailMaintenance
  BY <1>7 DEF FailMaintenance, Goto, Quit, store
<1>8. CASE FailCandidate
  <2>1. /\ UNCHANGED <<route, heads, kept, cur>> /\ stage = "fc-candidate"
        /\ \/ stage' = "fc-fence"
           \/ stage' = "idle" /\ ended' = "died"
    BY <1>8 DEF FailCandidate, Goto, Quit
  <2>2. heads = "source" => cand' = "none"
    BY <1>8, <2>1 DEF FailCandidate, CandidateClosed, CandidateNotClosed, RolesDropped, RolesLeft, NoCandidate
  <2>3. stage' = "fc-fence" =>
          /\ ~errors' => ~errors /\ cand' = "none"
          /\ ~created' => cand' = "none"
          /\ created' => created
    BY <1>8, <2>1 DEF FailCandidate, CandidateClosed, CandidateNotClosed, RolesDropped, RolesLeft, NoCandidate, Goto,
       Quit
  <2> QED
    BY <2>1, <2>2, <2>3
<1>9. CASE FailFence
  BY <1>9 DEF FailFence, FenceHolds, Fence!FenceReturns, Goto, Quit, store, Strict
<1>10. CASE FailRetain
  <2>1. cur \in Requests /\ kept \in [Requests -> SUBSET Documents]
    BY <1>10 DEF FailRetain, Typed, TypeOK
  <2> QED
    BY <1>10, <2>1 DEF FailRetain, FailureDocument, Quit, world, Strict
<1> QED
  BY <1>1, <1>2, <1>3, <1>4, <1>5, <1>6, <1>7, <1>8, <1>9, <1>10 DEF Next, FailClosed

\* Whenever an execution recorded its failure, the public name answers 503, the
\* fence holds with no backend and no candidate is left.
THEOREM RecordedFailureIsContained == Spec => []FailureIsContained
<1>1. Init => ContainInv
  BY DEF Init, ContainInv, FailureIsContained
<1>2. ContainInv => FailureIsContained
  BY DEF ContainInv
<1> QED
  BY <1>1, <1>2, ContainStep, ClaimAlways, TypedAlways, PTL DEF Spec

-----------------------------------------------------------------------------
(* The migration is contained, and released only behind its gate.          *)

\* The stages that run behind the maintenance page: all but a transition's first
\* three and the receipt that follows the release.
Walled(k, s) ==
  /\ s \in (Stages \ {"receipt-complete"}) \cup {"claim"}
  /\ k = "transition" => s \notin {"inspection", "authorization", "maintenance"}

\* The documents of the release gate that are retained once stage s is reached.
Passed(s) ==
  CASE s = "candidate-removed-fenced" -> {"candidate-ready"}
    [] s = "receipt-pre-acl"          -> {"candidate-ready", "candidate-removed-fenced"}
    [] s = "acl-restored"             -> Candidate
    [] s = "full-ready"               -> Candidate \cup {"acl-restored"}
    [] s = "receipt-routing-gate"     -> Candidate \cup {"acl-restored", "full-ready"}
    [] s = "pre-routing-verified"     -> Candidate \cup {"acl-restored", "full-ready",
                                                        "receipt-routing-gate"}
    [] s = "routing-restored"         -> Candidate \cup {"acl-restored", "full-ready",
                                           "receipt-routing-gate", "pre-routing-verified"}
    [] OTHER                          -> {}

\* What each stage of a transition inherits from the ones before it.
PathInv ==
  /\ Walled(kind[cur], stage) => route = "maintenance"
  /\ stage \in {"source-genesis", "recovery-restored", "fence-source-rechecked", "migrate"} => ~up
  /\ stage \in {"fence-source-rechecked", "migrate"} /\ heads = "source" => saved = "restored"
  /\ stage # "idle" => Passed(stage) \subseteq kept[cur]
  /\ PublicOnlyBehindGate

\* What a stage establishes, its successor inherits.
LEMMA PassedGrows ==
  ASSUME NEW k, NEW s \in Stages
  PROVE  Passed(NextStage(k, s)) \subseteq Passed(s) \cup {s}
BY DEF Passed, NextStage, TransitionNext, ContinuationNext, FailedCandidateNext, PostAclNext, SuffixNext,
       Stages, PreMigration, Rebinding, Candidate, Release

\* A stage that runs behind maintenance follows another one, or maintenance itself.
LEMMA WalledGrows ==
  ASSUME NEW k, NEW s \in Stages, Walled(k, NextStage(k, s))
  PROVE  Walled(k, s) \/ s = "maintenance"
BY DEF Walled, NextStage, TransitionNext, ContinuationNext, FailedCandidateNext, PostAclNext, SuffixNext,
       Stages, PreMigration, Rebinding, Candidate, Release

\* Nothing retained is ever removed.
LEMMA KeptGrows ==
  ASSUME Typed, [Next]_vars PROVE \A r \in Requests : kept[r] \subseteq kept'[r]
<1>0. kept \in [Requests -> SUBSET Documents] /\ (stage # "idle" => cur \in Requests)
  BY DEF Typed, TypeOK
<1>1. CASE UNCHANGED vars \/ Environment \/ Admit
  BY <1>1 DEF vars, Environment, WriterConnects, WriterLeaves, WriterWrites, CandidateWrites,
     store, Admit, StartTransition, StartHeldFence, StartRecovery, Start
<1>2. CASE Claim
  BY <1>2 DEF Claim, Fault, Raise, Die
<1>3. CASE Execute /\ ~Claim
  BY <1>0, <1>3, ExecuteFrame DEF Retain, Fault, Raise, Die
<1>4. CASE FailClosed
  <2>1. kept' = kept \/ kept' = [kept EXCEPT ![cur] = @ \cup {"failure"}]
    BY <1>4 DEF FailClosed, FailAdmit, FailMaintenance, FailCandidate, FailFence,
       FailRetain, FailureDocument, store
  <2> QED
    BY <1>0, <2>1
<1> QED
  BY <1>1, <1>2, <1>3, <1>4 DEF Next

\* A public route stays behind its gate as long as no step opens it or migrates.
LEMMA GateStable ==
  ASSUME Typed, [Next]_vars, PublicOnlyBehindGate,
         route' = "public" => route = "public", heads' = "target" => heads = "target"
  PROVE  PublicOnlyBehindGate'
BY KeptGrows DEF PublicOnlyBehindGate

\* Writers are stopped before the measurements, and the bundle is captured
\* between them and the migration.
LEMMA StopAndCaptureFollow ==
  ASSUME NEW k, NEW s \in Stages
  PROVE  /\ NextStage(k, s) \in {"source-genesis", "recovery-restored",
                                 "fence-source-rechecked", "migrate"} =>
              s \in {"writers-stopped", "source-genesis", "recovery-restored",
                     "fence-source-rechecked"}
         /\ NextStage(k, s) \in {"fence-source-rechecked", "migrate"} =>
              s \in {"recovery-restored", "fence-source-rechecked"}
BY DEF NextStage, TransitionNext, ContinuationNext, FailedCandidateNext, PostAclNext, SuffixNext,
       Stages, PreMigration, Rebinding, Candidate, Release

\* Which stages touch the route, the writers, the heads and the bundle.
LEMMA ExecuteEffects ==
  ASSUME Execute, ~Claim
  PROVE  /\ stage \notin {"maintenance", "routing-restored"} => route' = route
         /\ stage \notin {"writers-stopped", "full-ready"} => up' = up
         /\ stage # "migrate" => heads' = heads
         /\ stage # "recovery-restored" => saved' = saved
BY DEF Execute, Record, Inspection, Authorization, Receipt, Maintenance, FenceWriters,
   StopWriters, Measure,
   CaptureAndRestore, Migrate, NativeUpgrade, CandidateReady, RemoveCandidate, RestoreAcl,
   FullReady, VerifyPreRouting, RestoreRouting, world

\* What the four stages that touch them do when they succeed.
LEMMA ExecuteSuccess ==
  ASSUME Execute, ~Claim
  PROVE  /\ stage = "maintenance" => Fault \/ route' = "maintenance"
         /\ stage = "maintenance" => route' \in {route, "maintenance"}
         /\ stage = "writers-stopped" => Fault \/ up' = FALSE
         /\ stage = "recovery-restored" => Fault \/ saved' = "restored"
         /\ stage = "migrate" => heads' \in {heads, "target"}
BY DEF Execute, Record, Inspection, Authorization, Receipt, Maintenance, MaintenanceOn,
   FenceWriters, StopWriters, WritersStopped,
   Measure, CaptureAndRestore, BundleRestored, Migrate, NativeUpgrade, CandidateReady, RemoveCandidate, RestoreAcl,
   FullReady, VerifyPreRouting, RestoreRouting

\* Every step keeps the path facts of the running command.
LEMMA PathStep ==
  Typed /\ ClaimInv /\ ContainInv /\ PathInv /\ [Next]_vars => PathInv'
<1> SUFFICES ASSUME Typed, ClaimInv, ContainInv, PathInv, [Next]_vars PROVE PathInv'
  OBVIOUS
<1>1. CASE UNCHANGED vars
  BY <1>1 DEF vars, PathInv, PublicOnlyBehindGate
<1>2. CASE Environment
  <2>1. UNCHANGED <<route, heads, up, kind, kept, cur, stage>>
    BY <1>2 DEF Environment, WriterConnects, WriterLeaves, WriterWrites, CandidateWrites,
       store, proc
  <2>2. saved' = saved \/ up \/ cand = "running"
    BY <1>2 DEF Environment, WriterConnects, WriterLeaves, WriterWrites, CandidateWrites
  <2> QED
    BY <2>1, <2>2 DEF PathInv, ContainInv, PublicOnlyBehindGate
<1>3. CASE Admit
  <2>1. /\ UNCHANGED <<route, heads>> /\ stage' \in {"inspection", "claim"}
        /\ \/ kind'[cur'] = "transition" /\ stage' = "inspection"
           \/ route = "maintenance"
    BY <1>3 DEF Admit, StartTransition, StartHeldFence, StartRecovery, Start, LiveAdmission,
       PostAclAdmission, ContinuationAdmission, world, Typed, TypeOK, Requests
  <2>2. PublicOnlyBehindGate'
    BY <2>1, GateStable DEF PathInv
  <2> QED
    BY <2>1, <2>2 DEF PathInv, Walled, Passed
<1>4. CASE Claim
  <2>1. /\ UNCHANGED <<route, heads, kind, cur>> /\ stage = "claim"
        /\ stage' \in {"inspection", "idle", "fc-admit"}
    BY <1>4 DEF Claim, Fault, Raise, Die, world, Identity
  <2>2. PublicOnlyBehindGate'
    BY <2>1, GateStable DEF PathInv
  <2>3. route = "maintenance"
    BY <2>1 DEF PathInv, Walled
  <2> QED
    BY <2>1, <2>2, <2>3 DEF PathInv, Passed
<1>5. CASE Execute /\ ~Claim
  <2>1. PICK s \in Stages : stage = s /\ (Retain(s) \/ Fault)
    BY <1>5, ExecuteFrame
  <2>2. UNCHANGED <<kind, cur>> /\ cur \in Requests /\ stage # "idle"
    BY <1>5, <2>1, ExecuteFrame DEF Identity, Retain, Fault, Raise, Die, Typed, Stages,
       PreMigration, Rebinding, Candidate, Release
  <2>3. PublicOnlyBehindGate'
    <3>1. CASE stage = "routing-restored"
      <4>1. route' = "public" /\ heads' = "target" => Passed("routing-restored") \subseteq kept'[cur]
        BY <2>2, <3>1, KeptGrows DEF PathInv
      <4> QED
        BY <2>2, <4>1 DEF PublicOnlyBehindGate, Passed
    <3>2. CASE stage = "migrate"
      BY <1>5, <3>2, ExecuteEffects DEF PathInv, Walled, PublicOnlyBehindGate, Stages
    <3>3. CASE stage \notin {"routing-restored", "migrate"}
      <4>1. (route' = "public" => route = "public") /\ (heads' = "target" => heads = "target")
        BY <1>5, <3>3, ExecuteEffects, ExecuteSuccess
      <4> QED
        BY <4>1, GateStable DEF PathInv
    <3> QED
      BY <3>1, <3>2, <3>3
  <2>4. CASE Fault
    <3>1. stage' \in {"idle", "fc-admit"}
      BY <2>4 DEF Fault, Raise, Die
    <3> QED
      BY <2>3, <3>1 DEF PathInv, Walled, Passed, Stages, PreMigration, Rebinding, Candidate,
         Release
  <2>5. CASE ~Fault
    <3>1. stage' = NextStage(kind[cur], s) /\ kept'[cur] = kept[cur] \cup {s}
      BY <2>1, <2>2, <2>5 DEF Retain, Typed, TypeOK
    <3>2. Passed(stage') \subseteq kept'[cur]
      BY <2>1, <2>2, <3>1, PassedGrows DEF PathInv
    <3>3. Walled(kind[cur], stage') => route' = "maintenance"
      <4>1. Walled(kind[cur], stage') => s # "routing-restored"
        BY <3>1 DEF Walled, NextStage, SuffixNext, Release
      <4> QED
        BY <1>5, <2>1, <2>5, <3>1, <4>1, WalledGrows, ExecuteEffects, ExecuteSuccess DEF PathInv
    <3>4. stage' \in {"source-genesis", "recovery-restored", "fence-source-rechecked", "migrate"}
            => ~up'
      BY <1>5, <2>1, <2>5, <3>1, StopAndCaptureFollow, ExecuteEffects, ExecuteSuccess DEF
         PathInv
    <3>5. stage' \in {"fence-source-rechecked", "migrate"} /\ heads' = "source" => saved' = "restored"
      BY <1>5, <2>1, <2>5, <3>1, StopAndCaptureFollow, ExecuteEffects, ExecuteSuccess DEF
         PathInv
    <3> QED
      BY <2>2, <2>3, <3>2, <3>3, <3>4, <3>5 DEF PathInv
  <2> QED
    BY <2>4, <2>5
<1>6. CASE FailClosed
  <2>1. /\ stage' \in {"idle"} \cup Containment /\ heads' = heads
        /\ route' \in {route, "maintenance"}
    BY <1>6 DEF FailClosed, FailAdmit, FailMaintenance, FailCandidate, FailFence, FailRetain,
       Goto, Quit, world, Containment
  <2>2. PublicOnlyBehindGate'
    BY <2>1, GateStable DEF PathInv
  <2> QED
    BY <2>1, <2>2 DEF PathInv, Walled, Passed, Containment, Stages, PreMigration, Rebinding,
       Candidate, Release
<1> QED
  BY <1>1, <1>2, <1>3, <1>4, <1>5, <1>6 DEF Next

\* The four invariants hold together, throughout.
LEMMA PathAlways == Spec => [](Typed /\ ClaimInv /\ ContainInv /\ PathInv)
<1>1. Init => ContainInv /\ PathInv
  BY DEF Init, ContainInv, FailureIsContained, PathInv, Walled, Stages, PreMigration,
     Rebinding, Candidate, Release, PublicOnlyBehindGate
<1> QED
  BY <1>1, ContainStep, PathStep, ClaimAlways, TypedAlways, PTL DEF Spec

\* A migrated database is public only behind a fully retained routing gate.
THEOREM ReleasedBehindGate == Spec => []PublicOnlyBehindGate
<1>1. PathInv => PublicOnlyBehindGate
  BY DEF PathInv
<1> QED
  BY <1>1, PathAlways, PTL

\* The schema changes only behind the maintenance page and the fence, with the
\* writers stopped and the restored bundle equal to the rows.
THEOREM MigrationIsContained == Spec => MigratesOnlyContained
<1>1. Typed /\ ClaimInv /\ ContainInv /\ PathInv /\ [Next]_vars =>
        [heads' # heads => /\ route = "maintenance" /\ Strict /\ ~up /\ saved = "restored"
                           /\ PreMigration \subseteq kept[cur]]_vars
  <2> SUFFICES ASSUME PathInv, Next, heads' # heads
               PROVE  /\ route = "maintenance" /\ Strict /\ ~up /\ saved = "restored"
                      /\ PreMigration \subseteq kept[cur]
    OBVIOUS
  <2>1. Migrate
    BY DEF Next, Admit, StartTransition, StartHeldFence, StartRecovery, Start, Execute, Claim,
       Record, Inspection, Authorization, Receipt, Maintenance, FenceWriters, StopWriters,
          Measure, CaptureAndRestore,
       CandidateReady, RemoveCandidate, RestoreAcl, FullReady, VerifyPreRouting,
       RestoreRouting, FailClosed, FailAdmit, FailMaintenance, FailCandidate, FailFence,
       FailRetain, Environment, WriterConnects, WriterLeaves, WriterWrites, CandidateWrites, world
  <2>2. stage = "migrate" /\ heads = "source" /\ Strict /\ PreMigration \subseteq kept[cur]
    BY <2>1 DEF Migrate, NativeUpgrade, TransitionObserved, PrefixRetained
  <2> QED
    BY <2>2 DEF PathInv, Walled, Stages
<1> QED
  BY <1>1, PathAlways, PTL DEF Spec, MigratesOnlyContained

-----------------------------------------------------------------------------
(* What a candidate did is never released, and the way back is kept.       *)

\* The stages of an execution with no candidate of its own on the host.
Alone == (Stages \ {"candidate-removed-fenced"}) \cup {"claim"}

\* MutationNeverReleased holds because a candidate lives only behind the fence
\* and the maintenance page, and because no execution goes past the removal of a
\* candidate that changed anything.
MutationInv ==
  /\ heads = "source" => ~touched
  /\ cand # "none" => route = "maintenance" /\ gate = "fenced"
  /\ stage \in Alone => ~touched /\ ~created
  /\ MutationNeverReleased

\* Which stages touch the candidate, the gate and the fence proofs.
LEMMA CandidateEffects ==
  ASSUME Execute, ~Claim
  PROVE  /\ stage \notin {"candidate-ready", "candidate-removed-fenced"} => UNCHANGED <<cand, created>>
         /\ stage # "candidate-ready" => touched' = touched
         /\ stage # "candidate-removed-fenced" => quiesced' = quiesced
         /\ stage \notin {"strict-fence-reconnect", "rebound", "acl-restored"} => UNCHANGED <<gate, sessions>>
         /\ stage \notin {"strict-fence-reconnect", "rebound"} => stored' = stored
BY DEF Execute, Record, Inspection, Authorization, Receipt, Maintenance, FenceWriters,
   StopWriters, Measure,
   CaptureAndRestore, Migrate, NativeUpgrade, CandidateReady, RemoveCandidate, RestoreAcl,
   FullReady, VerifyPreRouting, RestoreRouting, world

\* A stage is the action of its name.
LEMMA StageActions ==
  ASSUME Execute, ~Claim
  PROVE  /\ stage = "candidate-ready" => CandidateReady
         /\ stage = "candidate-removed-fenced" => RemoveCandidate
         /\ stage \in {"strict-fence-reconnect", "rebound"} => FenceWriters
         /\ stage = "acl-restored" => RestoreAcl
         /\ stage = "migrate" => Migrate
         /\ stage = "recovery-restored" => CaptureAndRestore
BY DEF Execute, Record, Inspection, Authorization, Receipt, Maintenance, FenceWriters,
   StopWriters, Measure,
   CaptureAndRestore, Migrate, CandidateReady, RemoveCandidate, RestoreAcl,
   FullReady, VerifyPreRouting, RestoreRouting

\* A candidate is made behind the fence, and a stage that made it is followed by
\* its removal.
LEMMA CandidateMade ==
  ASSUME CandidateReady
  PROVE  /\ touched' => touched
         /\ cand' # "none" => cand # "none" \/ (Strict /\ heads = "target")
         /\ stage' \in {"candidate-removed-fenced", "idle", "fc-admit"}
BY DEF CandidateReady, Retain, Fault, Raise, Die, NextStage, SuffixNext, Candidate

\* A removal that leads on leaves no trace.
LEMMA CandidateGone ==
  ASSUME Typed, RemoveCandidate
  PROVE  /\ cand' # "none" => cand # "none"
         /\ stage' \notin {"idle", "fc-admit"} => ~touched /\ ~created' /\ cand' = "none"
BY DEF RemoveCandidate, CandidateClosed, CandidateNotClosed, RolesDropped, RolesLeft, Quiescent,
       AtMost, Retain, Fault, Raise, Die

\* A call of the fence leaves a fenced gate fenced and opens no session.
LEMMA FenceKeepsGate ==
  ASSUME FenceHolds \/ FenceFails
  PROVE  (gate = "fenced" => gate' = "fenced") /\ (sessions' => sessions)
BY DEF FenceHolds, FenceFails, Fence!FenceReturns, Fence!FenceLost, Fence!CallRefused

\* Every step keeps the candidate, and what it did, behind the fence.
LEMMA MutationStep ==
  Typed /\ ContainInv /\ PathInv /\ MutationInv /\ [Next]_vars => MutationInv'
<1> SUFFICES ASSUME Typed, ContainInv, PathInv, MutationInv, [Next]_vars PROVE MutationInv'
  OBVIOUS
<1> USE DEF MutationInv, MutationNeverReleased
<1>1. CASE UNCHANGED vars
  BY <1>1 DEF vars
<1>2. CASE Environment
  BY <1>2 DEF Environment, WriterConnects, WriterLeaves, WriterWrites, CandidateWrites,
     store, proc, ContainInv, Alone, Stages, PreMigration, Rebinding, Candidate, Release
<1>3. CASE Admit
  <2>1. UNCHANGED world /\ ~created' /\ ~touched
    BY <1>3 DEF Admit, StartTransition, StartHeldFence, StartRecovery, Start, SourceBound, Measured
  <2> QED BY <2>1 DEF world
<1>4. CASE Claim
  BY <1>4 DEF Claim, world, Alone
<1>5. CASE Execute /\ ~Claim
  <2>1. PICK s \in Stages : stage = s /\ (Retain(s) \/ Fault)
    BY <1>5, ExecuteFrame
  <2>2. (heads' = "source" => heads = "source") /\ (Fault => stage' \in {"idle", "fc-admit"})
    BY <1>5, ExecuteEffects, ExecuteSuccess DEF Typed, TypeOK, Fault, Raise, Die
  <2>3. stage' \in Alone => stage' \notin {"idle", "fc-admit", "candidate-removed-fenced"}
    BY DEF Alone, Stages, PreMigration, Rebinding, Candidate, Release
  <2>4. CASE stage = "candidate-ready"
    <3>1. CandidateReady /\ UNCHANGED <<route, gate>> /\ route = "maintenance"
      BY <1>5, <2>4, StageActions, ExecuteEffects, CandidateEffects DEF PathInv, Walled, Stages, Candidate
    <3> QED BY <2>2, <2>3, <3>1, CandidateMade DEF Strict
  <2>5. CASE stage = "candidate-removed-fenced"
    <3>1. RemoveCandidate /\ UNCHANGED <<route, gate, touched>>
      BY <1>5, <2>5, StageActions, ExecuteEffects, CandidateEffects
    <3> QED BY <2>2, <2>3, <3>1, CandidateGone
  <2>6. CASE stage \in {"strict-fence-reconnect", "rebound"}
    <3>1. /\ UNCHANGED <<route, cand, created, touched>> /\ (gate = "fenced" => gate' = "fenced")
          /\ stage \in Alone
      BY <1>5, <2>1, <2>6, StageActions, ExecuteEffects, CandidateEffects, FenceKeepsGate DEF FenceWriters, Alone
    <3> QED BY <2>2, <3>1
  <2>7. CASE stage \notin {"strict-fence-reconnect", "rebound", "candidate-ready", "candidate-removed-fenced"}
    <3>1. UNCHANGED <<cand, created, touched>> /\ stage \in Alone
      BY <1>5, <2>1, <2>7, CandidateEffects DEF Alone
    <3>2. cand = "none"
      BY <3>1, <2>1 DEF ContainInv, Stages, PreMigration, Rebinding, Candidate, Release
    <3> QED BY <2>2, <3>1, <3>2
  <2> QED BY <2>4, <2>5, <2>6, <2>7
<1>6. CASE FailCandidate
  <2>1. /\ UNCHANGED <<route, gate, touched, heads>> /\ stage' \in {"fc-fence", "idle"}
        /\ cand' # "none" => cand # "none"
    BY <1>6, AtMostType DEF FailCandidate, CandidateClosed, CandidateNotClosed, RolesDropped, RolesLeft,
       NoCandidate, AtMost, Goto, Quit
  <2> QED BY <2>1 DEF Alone, Stages, PreMigration, Rebinding, Candidate, Release
<1>7. CASE FailAdmit \/ FailMaintenance \/ FailFence \/ FailRetain
  <2>1. /\ UNCHANGED <<cand, touched, heads>> /\ route' \in {route, "maintenance"}
        /\ gate = "fenced" => gate' = "fenced"
        /\ stage' \in {"idle"} \cup Containment
    BY <1>7, FenceKeepsGate DEF FailAdmit, FailMaintenance, FailFence, FailRetain, Goto, Quit, world, Containment
  <2> QED BY <2>1 DEF Containment, Alone, Stages, PreMigration, Rebinding, Candidate, Release
<1> QED
  BY <1>1, <1>2, <1>3, <1>4, <1>5, <1>6, <1>7 DEF Next, FailClosed

LEMMA MutationAlways == Spec => [](Typed /\ ContainInv /\ PathInv /\ MutationInv)
<1>1. Init => MutationInv
  BY DEF Init, MutationInv, MutationNeverReleased, Alone, Stages, PreMigration, Rebinding, Candidate, Release
<1> QED BY <1>1, MutationStep, PathAlways, PTL DEF Spec

\* Rows a candidate changed are never released: the public name answers 503 and no
\* writer connects from the change on (close_candidate_and_refence, fail_closed).
THEOREM CandidateMutationsStay == Spec => []MutationNeverReleased
<1>1. MutationInv => MutationNeverReleased
  BY DEF MutationInv
<1> QED BY <1>1, MutationAlways, PTL

\* No request has passed its candidate.
Unreleased == \A r \in Requests : "receipt-pre-acl" \notin kept[r]

\* RollbackPointKept holds because nobody can write to an unreleased database but
\* the candidate, and because the migration follows the retained fence proof.
RollbackInv ==
  /\ \A r \in Requests : "strict-fence-reconnect" \in kept[r] => stored[r] # "none"
  /\ stage = "migrate" => kind[cur] = "transition"
  /\ heads = "target" /\ Unreleased => Strict
  /\ RollbackPointKept

\* A retained proof stays, and so does the schema of a consumed request.
LEMMA ProofsKept ==
  ASSUME Typed, [Next]_vars, NEW r \in Requests
  PROVE  /\ stored[r] # "none" => stored'[r] # "none"
         /\ kind[r] # "unused" => kind'[r] = kind[r]
<1>0. /\ stored \in [Requests -> Fence!Helds] /\ kind \in [Requests -> Kinds \cup {"unused"}]
      /\ stage # "idle" => cur \in Requests
  BY DEF Typed, TypeOK
<1>1. CASE UNCHANGED vars \/ Environment \/ Admit
  BY <1>0, <1>1 DEF vars, Environment, WriterConnects, WriterLeaves, WriterWrites, CandidateWrites,
     store, Admit, StartTransition, StartHeldFence, StartRecovery, Start
<1>2. CASE FailClosed \/ Claim
  BY <1>2 DEF FailClosed, FailAdmit, FailMaintenance, FailCandidate, FailFence, FailRetain, Claim, store, Identity
<1>3. CASE FenceWriters
  <2>1. stored' = stored \/ (stored' = [stored EXCEPT ![cur] = held'] /\ held' # "none")
    BY <1>3 DEF FenceWriters, RetainProof, FenceHolds, Fence!FenceReturns
  <2> QED BY <1>0, <1>3, <2>1 DEF FenceWriters, Identity
<1>4. CASE Execute /\ ~Claim /\ ~FenceWriters
  <2>1. stored' = stored /\ UNCHANGED Identity
    BY <1>4, ExecuteFrame, CandidateEffects, StageActions
  <2> QED BY <2>1 DEF Identity
<1> QED BY <1>1, <1>2, <1>3, <1>4 DEF Next, Execute

\* A step leaves an unreleased, migrated database strictly fenced, and only the
\* candidate and the capture of a source database touch the saved bundle.
LEMMA UnreleasedStep ==
  ASSUME Typed, ContainInv, PathInv, MutationInv, [Next]_vars, heads = "target", Unreleased, Strict
  PROVE  Strict' /\ (saved' = saved \/ touched') /\ (touched => touched')
<1> USE DEF Strict
<1>1. CASE UNCHANGED vars
  BY <1>1 DEF vars
<1>2. CASE Environment
  BY <1>2 DEF Environment, WriterConnects, WriterLeaves, WriterWrites, CandidateWrites
<1>3. CASE Admit \/ Claim
  BY <1>3 DEF Admit, StartTransition, StartHeldFence, StartRecovery, Start, Claim, world
<1>4. CASE Execute /\ ~Claim
  <2>0. stage \in Stages /\ cur \in Requests
    BY <1>4, ExecuteFrame DEF Typed, Stages, PreMigration, Rebinding, Candidate, Release
  <2>1. stage # "acl-restored"
    BY <2>0 DEF PathInv, Passed, Unreleased, Candidate
  <2>2. saved' = saved
    BY <1>4, StageActions, ExecuteEffects DEF CaptureAndRestore, Captures
  <2>3. touched => touched'
    BY <1>4, <2>0, CandidateEffects DEF MutationInv, Alone
  <2>4. CASE stage \in {"strict-fence-reconnect", "rebound"}
    BY <1>4, <2>2, <2>3, <2>4, StageActions, FenceKeepsGate DEF FenceWriters
  <2>5. CASE stage \notin {"strict-fence-reconnect", "rebound"}
    BY <1>4, <2>1, <2>2, <2>3, <2>5, CandidateEffects
  <2> QED BY <2>4, <2>5
<1>5. CASE FailFence
  BY <1>5, FenceKeepsGate DEF FailFence
<1>6. CASE FailAdmit \/ FailMaintenance \/ FailCandidate \/ FailRetain
  <2>1. UNCHANGED <<gate, sessions, saved, touched>>
    BY <1>6 DEF FailAdmit, FailMaintenance, FailCandidate, FailRetain, world
  <2> QED BY <2>1
<1> QED BY <1>1, <1>2, <1>3, <1>4, <1>5, <1>6 DEF Next, FailClosed

LEMMA RollbackStep ==
  Typed /\ ContainInv /\ PathInv /\ MutationInv /\ RollbackInv /\ [Next]_vars => RollbackInv'
<1> SUFFICES ASSUME Typed, ContainInv, PathInv, MutationInv, RollbackInv, [Next]_vars PROVE RollbackInv'
  OBVIOUS
<1>0. /\ kept \in [Requests -> SUBSET Documents] /\ stored \in [Requests -> Fence!Helds]
      /\ stage # "idle" => cur \in Requests
  BY DEF Typed, TypeOK
<1>1. ASSUME NEW r \in Requests, "strict-fence-reconnect" \in kept'[r] PROVE stored'[r] # "none"
  <2>1. CASE "strict-fence-reconnect" \in kept[r]
    BY <2>1, ProofsKept DEF RollbackInv
  <2>2. CASE "strict-fence-reconnect" \notin kept[r]
    <3>1. Execute /\ ~Claim
      <4>1. CASE UNCHANGED vars \/ Environment \/ Admit \/ Claim
        BY <1>1, <2>2, <4>1 DEF vars, Environment, WriterConnects, WriterLeaves, WriterWrites,
           CandidateWrites, store, Admit, StartTransition, StartHeldFence, StartRecovery, Start, Claim,
           Fault, Raise, Die
      <4>2. CASE FailClosed
        <5>1. kept' = kept \/ kept' = [kept EXCEPT ![cur] = @ \cup {"failure"}]
          BY <4>2 DEF FailClosed, FailAdmit, FailMaintenance, FailCandidate, FailFence,
             FailRetain, FailureDocument, store
        <5> QED BY <1>0, <1>1, <2>2, <5>1
      <4> QED BY <4>1, <4>2 DEF Next
    <3>2. PICK s \in Stages : stage = s /\ (Retain(s) \/ Fault)
      BY <3>1, ExecuteFrame
    <3>3. ~Fault /\ s = "strict-fence-reconnect" /\ r = cur
      BY <1>0, <1>1, <2>2, <3>2 DEF Retain, Fault, Raise, Die
    <3>4. FenceWriters
      BY <3>1, <3>2, <3>3, StageActions
    <3>5. stored' = [stored EXCEPT ![cur] = held'] /\ held' # "none"
      BY <3>3, <3>4 DEF FenceWriters, RetainProof, FenceHolds, Fence!FenceReturns
    <3> QED BY <1>0, <3>3, <3>5
  <2> QED BY <2>1, <2>2
<1>2. ASSUME stage' = "migrate" PROVE kind'[cur'] = "transition"
  <2>1. CASE UNCHANGED vars \/ Environment
    BY <1>2, <2>1 DEF vars, Environment, WriterConnects, WriterLeaves, WriterWrites, CandidateWrites,
       store, proc, RollbackInv
  <2>2. CASE Execute /\ ~Claim
    <3>1. PICK s \in Stages : stage = s /\ (Retain(s) \/ Fault)
      BY <2>2, ExecuteFrame
    <3>2. cur' = cur /\ NextStage(kind[cur], s) = "migrate"
      BY <1>2, <3>1 DEF Retain, Fault, Raise, Die
    <3>3. kind[cur] = "transition"
      BY <3>2 DEF NextStage, ContinuationNext, FailedCandidateNext, PostAclNext, SuffixNext
    <3> QED BY <2>2, <3>2, <3>3, ExecuteFrame DEF Identity
  <2>3. ~Admit /\ ~Claim /\ ~FailClosed
    BY <1>2 DEF Admit, StartTransition, StartHeldFence, StartRecovery, Start, Claim, Fault, Raise, Die,
       FailClosed, FailAdmit, FailMaintenance, FailCandidate, FailFence, FailRetain, Goto, Quit
  <2> QED BY <2>1, <2>2, <2>3 DEF Next
<1>3. ASSUME heads' = "target", Unreleased'
      PROVE  /\ Strict' /\ (saved' = "restored" \/ touched')
             /\ \E r \in Requests : kind'[r] = "transition" /\ stored'[r] # "none"
  <2>1. Unreleased
    BY <1>3, KeptGrows DEF Unreleased
  <2>2. CASE heads = "target"
    BY <2>1, <2>2, UnreleasedStep, ProofsKept DEF RollbackInv, RollbackPointKept, Unreleased
  <2>3. CASE heads # "target"
    <3>1. Migrate
      <4>1. CASE Execute /\ ~Claim
        BY <1>3, <2>3, <4>1, ExecuteEffects, StageActions
      <4>2. ~Admit /\ ~Claim /\ ~FailClosed /\ ~Environment /\ ~UNCHANGED vars
        BY <1>3, <2>3 DEF Admit, StartTransition, StartHeldFence, StartRecovery, Start, Claim, world, vars,
           FailClosed, FailAdmit, FailMaintenance, FailCandidate, FailFence, FailRetain,
           Environment, WriterConnects, WriterLeaves, WriterWrites, CandidateWrites
      <4> QED BY <4>1, <4>2 DEF Next
    <3>2. /\ stage = "migrate" /\ heads = "source" /\ Strict /\ PreMigration \subseteq kept[cur]
          /\ UNCHANGED <<gate, sessions, saved, Identity, stored>>
      BY <1>3, <2>3, <3>1 DEF Migrate, NativeUpgrade, TransitionObserved, PrefixRetained
    <3>3. cur \in Requests /\ saved = "restored" /\ kind[cur] = "transition" /\ stored[cur] # "none"
      BY <1>0, <3>2 DEF PathInv, RollbackInv, PreMigration
    <3> QED BY <3>2, <3>3 DEF Strict, Identity
  <2> QED BY <2>2, <2>3
<1> QED BY <1>1, <1>2, <1>3 DEF RollbackInv, RollbackPointKept, Unreleased

\* While a migrated database is unreleased, its bundle equals the rows but for what
\* the candidate did, and a proof that records the ACL to restore is retained
\* (capture, fence_and_negative_reconnect, native_upgrade).
THEOREM WayBackIsKept == Spec => []RollbackPointKept
<1>1. Init => RollbackInv
  BY DEF Init, RollbackInv, RollbackPointKept
<1>2. RollbackInv => RollbackPointKept
  BY DEF RollbackInv
<1> QED BY <1>1, <1>2, RollbackStep, MutationAlways, PTL DEF Spec

-----------------------------------------------------------------------------
(* The receipt of an execution verifies.                                   *)

\* The stages of a kind before the migrated heads are measured, and after.
Opening(k) ==
  IF k = "transition" THEN PreMigration \cup {"migrate"}
  ELSE {"inspection", "authorization", "rebound"}
       \cup (IF k \in PostAclKinds THEN {"writers-stopped"} ELSE {})
Suffix == {"migrated-target-heads"} \cup Candidate \cup Release

\* The documents retained when a stage before the migrated heads is reached.
OpeningDue(k, s) ==
  CASE s = "inspection"             -> {}
    [] s = "authorization"          -> {"inspection"}
    [] s = "maintenance"            -> {"inspection", "authorization"}
    [] s = "strict-fence-reconnect" -> {"inspection", "authorization", "maintenance"}
    [] s = "writers-stopped"        ->
         IF k = "transition" THEN {"inspection", "authorization", "maintenance", "strict-fence-reconnect"}
                             ELSE {"inspection", "authorization"}
    [] s = "source-genesis"         -> {"inspection", "authorization", "maintenance",
                                        "strict-fence-reconnect", "writers-stopped"}
    [] s = "recovery-restored"      -> {"inspection", "authorization", "maintenance",
                                        "strict-fence-reconnect", "writers-stopped", "source-genesis"}
    [] s = "fence-source-rechecked" -> PreMigration \ {"fence-source-rechecked"}
    [] s = "migrate"                -> PreMigration
    [] OTHER                        -> Opening(k) \ {"rebound"}

\* And after.
SuffixDue(s) ==
  CASE s = "migrated-target-heads"    -> {}
    [] s = "candidate-ready"          -> {"migrated-target-heads"}
    [] s = "candidate-removed-fenced" -> {"migrated-target-heads", "candidate-ready"}
    [] s = "receipt-pre-acl"          -> Proved
    [] s = "acl-restored"             -> Proved
    [] s = "full-ready"               -> Proved \cup {"acl-restored"}
    [] s = "receipt-routing-gate"     -> Proved \cup {"acl-restored", "full-ready"}
    [] s = "pre-routing-verified"     -> Proved \cup {"acl-restored", "full-ready"}
    [] s = "routing-restored"         -> Proved \cup {"acl-restored", "full-ready", "pre-routing-verified"}
    [] OTHER -> Proved \cup {"acl-restored", "full-ready", "pre-routing-verified", "routing-restored"}

Due(k, s) == IF s \in Suffix THEN Opening(k) \cup SuffixDue(s) ELSE OpeningDue(k, s)

\* The record a failed request left: nothing touches it again.
Failed(p) == p \in Requests /\ "failure" \in kept[p]

\* A request that was started: a recovery was admitted on a context that still
\* verifies, and its ancestry ends in a transition that failed.
AncestryOK(r) ==
  /\ kind[r] = "transition" => original[r] = r
  /\ kind[r] \in RecoveryKinds =>
       Failed(prior[r]) /\ Failed(original[r]) /\ Context(kind[r], prior[r])

\* ReceiptNeverRefused holds because a stage is reached only with the documents of
\* the stages before it, and because the stores of the ancestors are final.
ReceiptInv ==
  /\ stage \in Stages => stage \in Opening(kind[cur]) \cup Suffix /\ Due(kind[cur], stage) \subseteq kept[cur]
  /\ \A r \in Requests : AncestryOK(r)

\* A stage leads to the next one of its kind, whose documents are retained by then.
LEMMA DueGrows ==
  ASSUME NEW k \in Kinds, NEW s \in Opening(k) \cup Suffix, NextStage(k, s) # "idle"
  PROVE  /\ NextStage(k, s) \in Opening(k) \cup Suffix
         /\ Due(k, NextStage(k, s)) \subseteq Due(k, s) \cup {s}
<1> USE DEF Due, OpeningDue, SuffixDue, NextStage, Suffix, Opening, Proved, Candidate, Release, PreMigration
<1>1. CASE s \in Suffix
  BY <1>1 DEF SuffixNext
<1>2. CASE s \notin Suffix /\ k = "transition"
  BY <1>2 DEF TransitionNext
<1>3. CASE s \notin Suffix /\ k \in PostAclKinds
  BY <1>3 DEF PostAclNext, PostAclKinds
<1>4. CASE s \notin Suffix /\ k # "transition" /\ k \notin PostAclKinds
  BY <1>4 DEF ContinuationNext, FailedCandidateNext
<1> QED BY <1>1, <1>2, <1>3, <1>4

\* The documents due at a receipt are the evidence it names.
LEMMA DueIsEvidence ==
  ASSUME NEW k \in Kinds, NEW s \in {"receipt-pre-acl", "receipt-routing-gate", "receipt-complete"}
  PROVE  s \in Suffix /\ ReceiptEvidence(k, s) \subseteq Due(k, s)
BY DEF ReceiptEvidence, PreAclEvidence, TransitionEvidence, CommittedEvidence, FailedCandidateEvidence,
       PostAclEvidence, AdjudicatedEvidence, Due, SuffixDue, Suffix, Opening, Proved, Rebinding, Candidate,
       Release, Kinds, RecoveryKinds, CandidateKinds, PostAclKinds

\* The stores of a failed request are final, and a claim is never overwritten.
LEMMA FailedIsFinal ==
  ASSUME Typed, ClaimInv, ContainInv, [Next]_vars, NEW p \in Requests
  PROVE  /\ Failed(p) => UNCHANGED <<kept[p], stored[p], quiesced[p]>>
         /\ kind[p] # "unused" => UNCHANGED <<kind[p], prior[p], original[p]>>
         /\ claim[p] # None => UNCHANGED claim[p]
<1>0. /\ kept \in [Requests -> SUBSET Documents] /\ stored \in [Requests -> Fence!Helds]
      /\ quiesced \in [Requests -> BOOLEAN] /\ claim \in [Requests -> Requests \cup {None}]
      /\ kind \in [Requests -> Kinds \cup {"unused"}] /\ prior \in [Requests -> Requests \cup {None}]
      /\ original \in [Requests -> Requests \cup {None}]
      /\ stage # "idle" => cur \in Requests /\ (Failed(p) => p # cur)
      /\ stage = "claim" => prior[cur] \in Requests
  BY DEF Typed, TypeOK, ContainInv, ClaimInv, Failed
<1>1. CASE UNCHANGED vars \/ Environment
  BY <1>1 DEF vars, Environment, WriterConnects, WriterLeaves, WriterWrites, CandidateWrites, store
<1>2. CASE Admit
  BY <1>0, <1>2 DEF Admit, StartTransition, StartHeldFence, StartRecovery, Start
<1>3. CASE Claim
  <2>1. claim' = claim \/ (claim[prior[cur]] = None /\ claim' = [claim EXCEPT ![prior[cur]] = cur])
    BY <1>3 DEF Claim, ReserveFrontier
  <2> QED BY <1>0, <1>3, <2>1 DEF Claim, Identity, Fault, Raise, Die
<1>4. CASE Execute /\ ~Claim
  <2>1. UNCHANGED <<Identity, claim>> /\ stage # "idle"
        /\ \A r \in Requests : r # cur => kept'[r] = kept[r]
    BY <1>4, ExecuteFrame, StageFrame DEF Stages, PreMigration, Rebinding, Candidate, Release
  <2>2. stored' = stored \/ stored' = [stored EXCEPT ![cur] = held']
    BY <1>4, CandidateEffects, StageActions DEF FenceWriters, RetainProof
  <2>3. quiesced' = quiesced \/ quiesced' = [quiesced EXCEPT ![cur] = TRUE]
    BY <1>4, CandidateEffects, StageActions DEF RemoveCandidate, CandidateClosed, CandidateNotClosed
  <2> QED BY <1>0, <2>1, <2>2, <2>3 DEF Identity
<1>5. CASE FailClosed
  <2>1. /\ UNCHANGED <<Identity, claim, stored>> /\ stage # "idle"
        /\ kept' = kept \/ kept' = [kept EXCEPT ![cur] = @ \cup {"failure"}]
        /\ quiesced' = quiesced \/ quiesced' = [quiesced EXCEPT ![cur] = TRUE]
    BY <1>5 DEF FailClosed, FailAdmit, FailMaintenance, FailCandidate, FailFence, FailRetain, FailureDocument,
       CandidateClosed, CandidateNotClosed, NoCandidate, store, Identity
  <2> QED BY <1>0, <2>1 DEF Identity
<1> QED BY <1>1, <1>2, <1>3, <1>4, <1>5 DEF Next

\* So the context a recovery was admitted on verifies for good, one ancestor at a
\* time.
LEMMA ContextIsFinal ==
  ASSUME Typed, ClaimInv, ContainInv, \A r \in Requests : AncestryOK(r), [Next]_vars,
         NEW k, NEW p \in Requests, Context(k, p)
  PROVE  Context(k, p)'
<1>0. /\ None \notin Requests
      /\ \A q \in Requests : kind[q] \in Kinds \cup {"unused"}
  BY RequestsAssumption DEF Typed, TypeOK
<1>1. ASSUME NEW q \in Requests, CommittedContext(q) PROVE CommittedContext(q)'
  <2>1. Failed(q) /\ kind[q] # "unused"
    BY <1>1 DEF CommittedContext, CommittedFrontier, Failed
  <2> QED BY <1>1, <2>1, FailedIsFinal DEF CommittedContext, CommittedFrontier, FailedRun, WasAuthorized
<1>2. ASSUME NEW j \in {"failed-1", "failed-2"}, NEW q \in Requests,
             FailedCandidateFrontier(j, q) /\ FailedRun(q) /\ Lineage(q)
      PROVE  /\ (FailedCandidateFrontier(j, q) /\ FailedRun(q) /\ Lineage(q))'
             /\ prior[q] \in Requests /\ prior'[q] = prior[q]
  <2>1. Failed(q) /\ kind[q] \in RecoveryKinds /\ kind[q] # "unused"
    BY <1>2 DEF FailedCandidateFrontier, Failed, RecoveryKinds, CandidateKinds
  <2>2. prior[q] \in Requests /\ Failed(original[q]) /\ original[q] \in Requests
    BY <2>1 DEF AncestryOK, Failed
  <2>3. UNCHANGED <<kept[q], stored[q], quiesced[q], kind[q], prior[q], original[q]>>
        /\ stored'[original[q]] = stored[original[q]]
    BY <2>1, <2>2, FailedIsFinal
  <2>4. claim'[prior[q]] = claim[prior[q]]
    BY <1>0, <1>2, <2>2, FailedIsFinal DEF Lineage
  <2> QED BY <1>2, <2>2, <2>3, <2>4 DEF FailedCandidateFrontier, FailedRun, WasAuthorized, Lineage
<1>3. ASSUME NEW j \in {"failed-1", "failed-2"}, NEW q \in Requests, FailedCandidateContext(j, q)
      PROVE  FailedCandidateContext(j, q)'
  <2>1. /\ (FailedCandidateFrontier(j, q) /\ FailedRun(q) /\ Lineage(q))'
        /\ prior[q] \in Requests /\ prior'[q] = prior[q]
    BY <1>2, <1>3 DEF FailedCandidateContext
  <2>2. CASE j = "failed-1"
    BY <1>1, <1>3, <2>1, <2>2 DEF FailedCandidateContext
  <2>3. CASE j = "failed-2"
    <3>0. PICK t \in Requests : t = prior[q]
      BY <2>1
    <3>1. /\ (FailedCandidateFrontier("failed-1", t) /\ FailedRun(t) /\ Lineage(t))'
          /\ prior[t] \in Requests /\ prior'[t] = prior[t]
      BY <1>2, <1>3, <2>3, <3>0 DEF FailedCandidateContext
    <3>2. PICK u \in Requests : u = prior[t]
      BY <3>1
    <3>3. CommittedContext(u)'
      BY <1>1, <1>3, <2>3, <3>0, <3>2 DEF FailedCandidateContext
    <3> QED BY <2>1, <2>3, <3>0, <3>1, <3>2, <3>3 DEF FailedCandidateContext
  <2> QED BY <2>2, <2>3
<1>4. ASSUME PostAclContext(p) PROVE PostAclContext(p)'
  <2>1. Failed(p) /\ kind[p] \in RecoveryKinds /\ kind[p] # "unused"
    BY <1>4 DEF PostAclContext, PostAclFrontier, Failed, RecoveryKinds, CandidateKinds
  <2>2. prior[p] \in Requests /\ Failed(original[p]) /\ original[p] \in Requests
    BY <2>1 DEF AncestryOK, Failed
  <2>3. UNCHANGED <<kept[p], stored[p], quiesced[p], kind[p], prior[p], original[p]>>
        /\ stored'[original[p]] = stored[original[p]]
    BY <2>1, <2>2, FailedIsFinal
  <2>4. claim'[prior[p]] = claim[prior[p]]
    BY <1>0, <1>4, <2>2, FailedIsFinal DEF Lineage, PostAclContext
  <2>5. PICK q \in Requests : q = prior[p]
    BY <2>2
  <2>6. FailedCandidateContext("failed-2", q)'
    BY <1>3, <1>4, <2>5 DEF PostAclContext
  <2> QED BY <1>4, <2>2, <2>3, <2>4, <2>5, <2>6 DEF PostAclContext, PostAclFrontier, FailedRun, WasAuthorized, Lineage
<1> QED BY <1>1, <1>3, <1>4 DEF Context

\* What admission checked of a request's ancestors.
LEMMA AdmittedOn ==
  ASSUME NEW k, NEW p \in Requests, Context(k, p)
  PROVE  Failed(p) /\ kind[p] \in {"transition"} \cup RecoveryKinds
BY DEF Context, CommittedContext, CommittedFrontier, FailedCandidateContext, FailedCandidateFrontier,
       PostAclContext, PostAclFrontier, Failed, RecoveryKinds, CandidateKinds

\* Every step keeps the documents due and the ancestry of every request.
LEMMA ReceiptStep ==
  Typed /\ ClaimInv /\ ContainInv /\ ReceiptInv /\ [Next]_vars => ReceiptInv'
<1> SUFFICES ASSUME Typed, ClaimInv, ContainInv, ReceiptInv, [Next]_vars PROVE ReceiptInv'
  OBVIOUS
<1>0. /\ kept \in [Requests -> SUBSET Documents] /\ kind \in [Requests -> Kinds \cup {"unused"}]
      /\ prior \in [Requests -> Requests \cup {None}] /\ original \in [Requests -> Requests \cup {None}]
      /\ stage # "idle" => cur \in Requests /\ kind[cur] \in Kinds
      /\ None \notin Requests
  BY RequestsAssumption DEF Typed, TypeOK, ClaimInv
<1>1. ASSUME stage' \in Stages
      PROVE  stage' \in Opening(kind'[cur']) \cup Suffix /\ Due(kind'[cur'], stage') \subseteq kept'[cur']
  <2>1. CASE UNCHANGED vars \/ Environment
    BY <1>1, <2>1 DEF vars, Environment, WriterConnects, WriterLeaves, WriterWrites, CandidateWrites,
       store, proc, ReceiptInv
  <2>2. CASE Admit
    <3>1. stage' = "inspection"
      BY <1>1, <2>2 DEF Admit, StartTransition, StartHeldFence, StartRecovery, Start, Stages, PreMigration,
         Rebinding, Candidate, Release
    <3> QED BY <3>1 DEF Opening, PreMigration, Due, OpeningDue, Suffix, Candidate, Release
  <2>3. CASE Claim
    <3>1. stage' = "inspection"
      BY <1>1, <2>3 DEF Claim, Fault, Raise, Die, Stages, PreMigration, Rebinding, Candidate, Release
    <3> QED BY <3>1 DEF Opening, PreMigration, Due, OpeningDue, Suffix, Candidate, Release
  <2>4. CASE Execute /\ ~Claim
    <3>1. PICK s \in Stages : stage = s /\ (Retain(s) \/ Fault)
      BY <2>4, ExecuteFrame
    <3>2. Retain(s) /\ stage # "idle"
      BY <1>1, <3>1 DEF Fault, Raise, Die, Stages, PreMigration, Rebinding, Candidate, Release
    <3>3. /\ cur' = cur /\ kind' = kind /\ cur \in Requests /\ kind[cur] \in Kinds
          /\ stage' = NextStage(kind[cur], s) /\ kept'[cur] = kept[cur] \cup {s}
      BY <1>0, <2>4, <3>2, ExecuteFrame DEF Retain, Identity
    <3>4. s \in Opening(kind[cur]) \cup Suffix /\ Due(kind[cur], s) \subseteq kept[cur] /\ stage' # "idle"
      BY <1>1, <3>1 DEF ReceiptInv, Stages, PreMigration, Rebinding, Candidate, Release
    <3> QED BY <3>3, <3>4, DueGrows
  <2>5. CASE FailClosed
    <3>1. stage' \in {"idle"} \cup Containment
      BY <2>5 DEF FailClosed, FailAdmit, FailMaintenance, FailCandidate, FailFence, FailRetain, Goto, Quit,
         Containment
    <3> QED BY <1>1, <3>1 DEF Containment, Stages, PreMigration, Rebinding, Candidate, Release
  <2> QED BY <2>1, <2>2, <2>3, <2>4, <2>5 DEF Next
<1>2. ASSUME NEW r \in Requests PROVE AncestryOK(r)'
  <2>1. ASSUME NEW p \in Requests, Failed(p) PROVE Failed(p)'
    BY <2>1, FailedIsFinal DEF Failed
  <2>2. ASSUME kind[r] # "unused" PROVE AncestryOK(r)'
    <3>1. UNCHANGED <<kind[r], prior[r], original[r]>> /\ AncestryOK(r)
      BY <2>2, FailedIsFinal DEF ReceiptInv
    <3>2. CASE kind[r] \in RecoveryKinds
      <4>1. PICK p \in Requests, o \in Requests : p = prior[r] /\ o = original[r]
        BY <3>1, <3>2 DEF AncestryOK, Failed
      <4>2. PICK k : k = kind[r]
        OBVIOUS
      <4>3. Failed(p)' /\ Failed(o)' /\ Context(k, p)'
        BY <2>1, <3>1, <3>2, <4>1, <4>2, ContextIsFinal DEF AncestryOK, ReceiptInv
      <4> QED BY <3>1, <3>2, <4>1, <4>2, <4>3 DEF AncestryOK, RecoveryKinds, CandidateKinds, PostAclKinds
    <3> QED BY <3>1, <3>2 DEF AncestryOK
  <2>3. CASE kind[r] = "unused" /\ kind'[r] = "unused"
    BY <2>3 DEF AncestryOK, RecoveryKinds, CandidateKinds, PostAclKinds
  <2>4. CASE kind[r] = "unused" /\ kind'[r] # "unused"
    <3>1. \/ \E t \in Transitions : StartTransition(t)
          \/ \E t, p \in Transitions : StartHeldFence(t, p)
          \/ \E t \in Recoveries, p \in Requests, k \in RecoveryKinds : StartRecovery(t, p, k)
      <4>1. ~UNCHANGED vars /\ ~Environment /\ ~Claim /\ ~FailClosed
        BY <2>4 DEF vars, Environment, WriterConnects, WriterLeaves, WriterWrites, CandidateWrites, store,
           Claim, FailClosed, FailAdmit, FailMaintenance, FailCandidate, FailFence, FailRetain, Identity
      <4>2. ~Execute
        BY <2>4, <4>1, ExecuteFrame DEF Identity
      <4> QED BY <4>1, <4>2 DEF Next, Admit
    <3>2. CASE \/ \E t \in Transitions : StartTransition(t)
               \/ \E t, p \in Transitions : StartHeldFence(t, p)
      <4>1. kind'[r] = "transition" /\ original'[r] = r
        BY <1>0, <2>4, <3>2 DEF StartTransition, StartHeldFence, Start, Root, Requests
      <4> QED BY <4>1 DEF AncestryOK, RecoveryKinds, CandidateKinds, PostAclKinds
    <3>3. CASE \E t \in Recoveries, p \in Requests, k \in RecoveryKinds : StartRecovery(t, p, k)
      <4>1. PICK t \in Recoveries, p \in Requests, k \in RecoveryKinds : StartRecovery(t, p, k)
        BY <3>3
      <4>2. t = r /\ kind'[r] = k /\ prior'[r] = p /\ original'[r] = original[p] /\ Context(k, p)
        BY <1>0, <2>4, <4>1 DEF StartRecovery, Start, Root, Frontier, Requests
      <4>3. Failed(p) /\ kind[p] \in {"transition"} \cup RecoveryKinds
        BY <4>2, AdmittedOn
      <4>4. PICK o \in Requests : o = original[p] /\ Failed(o)
        BY <4>3 DEF ReceiptInv, AncestryOK, Failed
      <4>5. Failed(p)' /\ Failed(o)' /\ Context(k, p)'
        BY <2>1, <4>2, <4>3, <4>4, ContextIsFinal DEF ReceiptInv
      <4> QED BY <4>2, <4>4, <4>5 DEF AncestryOK, RecoveryKinds, CandidateKinds, PostAclKinds
    <3> QED BY <3>1, <3>2, <3>3
  <2> QED BY <2>2, <2>3, <2>4
<1> QED BY <1>1, <1>2 DEF ReceiptInv

\* An executor is never refused by its own receipt: its evidence is retained and the
\* context of its admission verifies with its own claim, whatever failed before
\* (verify_any_receipt, and the operator's contexts of failed requests).
THEOREM ReceiptsVerify == Spec => []ReceiptNeverRefused
<1>1. Init => ReceiptInv
  BY DEF Init, ReceiptInv, AncestryOK, Stages, PreMigration, Rebinding, Candidate, Release, RecoveryKinds,
     CandidateKinds, PostAclKinds
<1>2. Typed /\ ClaimInv /\ ReceiptInv => ReceiptNeverRefused
  <2> SUFFICES ASSUME Typed, ClaimInv, ReceiptInv,
                      NEW s \in {"receipt-pre-acl", "receipt-routing-gate", "receipt-complete"}, stage = s
               PROVE  ReceiptVerifies(kind[cur], s)
    BY DEF ReceiptNeverRefused
  <2>1. cur \in Requests /\ kind[cur] \in Kinds /\ s \in Stages
    BY DEF Typed, TypeOK, ClaimInv, Stages, Candidate, Release
  <2>2. ReceiptEvidence(kind[cur], s) \subseteq kept[cur]
    BY <2>1, DueIsEvidence DEF ReceiptInv
  <2>3. kind[cur] # "transition" => claim[prior[cur]] = cur /\ Context(kind[cur], prior[cur])
    BY <2>1, RequestsAssumption DEF ReceiptInv, AncestryOK, Failed, ClaimInv, Kinds
  <2> QED BY <2>2, <2>3 DEF ReceiptVerifies
<1> QED BY <1>1, <1>2, ReceiptStep, PathAlways, PTL DEF Spec

=============================================================================
