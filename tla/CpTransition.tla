----------------------------- MODULE CpTransition -----------------------------
(***************************************************************************)
(* The fenced migration transition: the executors of cp_transition.py, the *)
(* host stages of cp_transition_host.py, the create-only artifact store    *)
(* and the finite chain of recoveries, for one upgrade of one database.    *)
(*                                                                         *)
(* A request is executed once, under the host's deployment lock.  Every    *)
(* stage may raise, before or after its effect, and the process may die    *)
(* there; writers, the relay's heartbeat and the candidate act in between. *)
(* The fence is used through the steps of FenceContract.                   *)
(***************************************************************************)
EXTENDS Naturals

CONSTANTS
  Transitions,  \* authorized transition/1 requests, each with its store and nonce
  Recoveries,   \* authorized recovery requests, each with its store and nonce
  None,         \* no request
  MaxBeats      \* bound: heartbeat updates the measurement tells apart

Requests == Transitions \cup Recoveries

ASSUME RequestsAssumption == None \notin Requests /\ Transitions \cap Recoveries = {}
ASSUME BeatsAssumption    == MaxBeats \in Nat

\* The request schemas: a transition, and the recoveries in the order in which
\* each may follow the failure of the one before it.
PostAclKinds   == {"post-acl", "adjudicated"}
CandidateKinds == {"committed", "failed-1", "failed-2"}
RecoveryKinds  == CandidateKinds \cup PostAclKinds
Kinds          == RecoveryKinds \cup {"transition"}

PreMigration == {"inspection", "authorization", "maintenance",
                 "strict-fence-reconnect", "writers-stopped", "source-genesis",
                 "recovery-restored", "fence-source-rechecked"}
Rebinding    == {"inspection", "authorization", "rebound", "migrated-target-heads"}
Candidate    == {"candidate-ready", "candidate-removed-fenced", "receipt-pre-acl"}
Release      == {"acl-restored", "full-ready", "receipt-routing-gate",
                 "pre-routing-verified", "routing-restored", "receipt-complete"}
Stages       == PreMigration \cup Rebinding \cup {"migrate"} \cup Candidate \cup Release
Documents    == Stages \cup {"failure"}
Containment  == {"fc-admit", "fc-maintenance", "fc-candidate", "fc-fence", "fc-retain"}

VARIABLES
  (* the production host *)
  route,      \* what the public name answers: "public" (200) or "maintenance" (503)
  gate,       \* the database's CONNECT gate (FenceContract)
  sessions,   \* some writer backend is open
  heads,      \* migration heads of the database: "source" or "target"
  image,      \* image of the app and relay containers
  up,         \* some writer container runs
  cand,       \* the candidate: "none", "roles" without LOGIN, "open", "running"
  touched,    \* the candidate changed production rows
  beats,      \* heartbeat updates since the candidate's measurement
  saved,      \* the recovery bundle of the present rows: "none", "published" or "restored"
  (* the artifact stores *)
  kind,       \* schema of a consumed request, or "unused"
  prior,      \* the failed request a recovery names
  original,   \* the transition at the root of its ancestry
  kept,       \* documents retained under a request
  claim,      \* the request that consumed a failed request's frontier
  stored,     \* the fence proof retained in its store (FenceContract's held)
  quiesced,   \* its candidate was removed and proved to have left no trace
  (* the operator process *)
  cur,        \* the request executed last, or being executed
  stage,      \* its next stage, or a step of fail_closed, or "idle"
  held,       \* host.proof
  created,    \* host._candidate_created
  errors,     \* fail_closed collected an error
  ended       \* how the last execution ended

world == <<route, gate, sessions, heads, image, up, cand, touched, beats, saved>>
store == <<kind, prior, original, kept, claim, stored, quiesced>>
proc  == <<cur, stage, held, created, errors, ended>>
vars  == <<route, gate, sessions, heads, image, up, cand, touched, beats, saved,
           kind, prior, original, kept, claim, stored, quiesced,
           cur, stage, held, created, errors, ended>>

Fence == INSTANCE FenceContract

\* fence_is_holding and a negative reconnect per role
Strict == gate = "fenced" /\ ~sessions

\* _check_fence_baseline: with no proof every writer must still connect, with
\* one the fence it describes must hold.
Baseline == IF held = "none" THEN gate # "fenced" ELSE Strict

-----------------------------------------------------------------------------
(* The environment of the process.                                         *)

WriterConnects ==
  /\ up /\ gate # "fenced" /\ ~sessions
  /\ sessions' = TRUE
  /\ UNCHANGED <<route, gate, heads, image, up, cand, touched, beats, saved, store, proc>>

WriterLeaves ==
  /\ sessions
  /\ sessions' = FALSE
  /\ UNCHANGED <<route, gate, heads, image, up, cand, touched, beats, saved, store, proc>>

\* A connected writer commits rows; on the target image the relay's heartbeat
\* is the write the measurement can name.
WriterWrites ==
  /\ sessions /\ up
  /\ saved' = "none"
  /\ beats' = IF image = "target" /\ beats < MaxBeats THEN beats + 1 ELSE beats
  /\ UNCHANGED <<route, gate, sessions, heads, image, up, cand, touched, store, proc>>

CandidateWrites ==
  /\ cand = "running"
  /\ touched' = TRUE /\ saved' = "none"
  /\ UNCHANGED <<route, gate, sessions, heads, image, up, cand, beats, store, proc>>

-----------------------------------------------------------------------------
(* Admission: everything checked under the lock before the request is      *)
(* reserved.                                                               *)

\* The transition at the root of the ancestry the request's frontier binds
Root(r, p) == IF p = None THEN r ELSE original[p]

Start(r, k, p, first) ==
  /\ stage = "idle" /\ kind[r] = "unused"
  /\ kind' = [kind EXCEPT ![r] = k]
  /\ prior' = [prior EXCEPT ![r] = p]
  /\ original' = [original EXCEPT ![r] = Root(r, p)]
  /\ cur' = r /\ stage' = first
  /\ created' = FALSE /\ errors' = FALSE /\ ended' = "running"
  /\ UNCHANGED <<world, kept, claim, stored, quiesced>>

\* _bound and _image: the host, the images and the heads are the source's.
SourceBound == heads = "source" /\ image = "source"

\* execute_transition, no fence held
StartTransition(r) ==
  /\ gate # "fenced"
  /\ SourceBound
  /\ held' = "none"
  /\ Start(r, "transition", None, "inspection")

\* The pinned failure of a HeldFenceContinuation: a transition that stopped
\* before its recovery point and whose retained proof names the fence.
HeldFence(p) ==
  /\ kind[p] = "transition" /\ "failure" \in kept[p] /\ stored[p] # "none"
  /\ kept[p] \subseteq (PreMigration \ {"recovery-restored", "fence-source-rechecked"})
                       \cup {"failure"}

\* execute_transition with a HeldFenceContinuation, whose fence must still hold
StartHeldFence(r, p) ==
  /\ HeldFence(p) /\ Strict
  /\ SourceBound
  /\ held' = stored[p]
  /\ Start(r, "transition", None, "inspection")

(* The exact record a failed request must have left for each recovery.     *)

\* A transition that migrated and failed before its candidate was ready
CommittedFrontier(p) ==
  /\ kind[p] = "transition"
  /\ kept[p] = PreMigration \cup {"migrate", "migrated-target-heads", "failure"}

\* A continuation, or the first recovery of one, whose candidate failed
FailedCandidateFrontier(k, p) ==
  /\ kind[p] = IF k = "failed-1" THEN "committed" ELSE "failed-1"
  /\ kept[p] = Rebinding \cup {"failure"}

\* The second recovery, failed once its ACL was restored
PostAclFrontier(p) ==
  /\ kind[p] = "failed-2"
  /\ kept[p] = Rebinding \cup Candidate \cup {"acl-restored", "failure"}

(* The ancestry of a failed request, which the operator loads from the     *)
(* protected stores of every request in it.                                *)

\* HistoricalAuthorization.verify: the run that spent the request was authorized.
WasAuthorized(p) == "authorization" \in kept[p]

\* The records of the failed run: authorized, and a fence left in its store.
FailedRun(p) == WasAuthorized(p) /\ stored[p] # "none" /\ quiesced[p]

\* Its frontier claim is in its predecessor's store, and its proof records the
\* ACL that the original fence recorded.
Lineage(p) == claim[prior[p]] = p /\ stored[p] = stored[original[p]]

CommittedContext(p) == CommittedFrontier(p) /\ FailedRun(p)

FailedCandidateContext(k, p) ==
  /\ FailedCandidateFrontier(k, p) /\ FailedRun(p) /\ Lineage(p)
  /\ LET q == prior[p] IN
     IF k = "failed-1" THEN CommittedContext(q)
     ELSE /\ FailedCandidateFrontier("failed-1", q) /\ FailedRun(q) /\ Lineage(q)
          /\ CommittedContext(prior[q])

PostAclContext(p) ==
  /\ PostAclFrontier(p) /\ FailedRun(p) /\ Lineage(p)
  /\ FailedCandidateContext("failed-2", prior[p])

Context(k, p) ==
  \/ k = "committed" /\ CommittedContext(p)
  \/ k \in {"failed-1", "failed-2"} /\ FailedCandidateContext(k, p)
  \/ k \in PostAclKinds /\ PostAclContext(p)

\* The context, and nobody's claim on it yet
Frontier(k, p) == claim[p] = None /\ Context(k, p)

(* What the host must look like now.                                       *)

\* _continuation_admission: contained, migrated, and nothing left running
ContinuationAdmission ==
  /\ route = "maintenance" /\ Strict
  /\ heads = "target" /\ cand = "none"
  /\ image = "source" /\ ~up

\* inspect_post_acl: contained and migrated, the target runtime may be up
PostAclAdmission ==
  /\ route = "maintenance" /\ Strict
  /\ heads = "target" /\ cand = "none"
  /\ image = "target"

LiveAdmission(k) == IF k \in PostAclKinds THEN PostAclAdmission ELSE ContinuationAdmission

\* validate_heartbeat_drift_adjudication: exactly the heartbeat counter grew,
\* to the value that the signed adjudication names.
Adjudicated(signed) == signed > 0 /\ beats = signed

\* The rows as the failed attempt measured them, but for what is adjudicated.
Measured(k, signed) ==
  /\ ~touched
  /\ IF k = "adjudicated" THEN Adjudicated(signed) ELSE beats = 0

StartRecovery(r, p, k) ==
  /\ Frontier(k, p)
  /\ LiveAdmission(k)
  /\ \E signed \in 0..MaxBeats : Measured(k, signed)
  /\ held' = stored[p]
  /\ Start(r, k, p, "claim")

-----------------------------------------------------------------------------
(* How a stage ends.                                                       *)

\* execute_transition up to its migration
TransitionNext(s) ==
  CASE s = "inspection"               -> "authorization"
    [] s = "authorization"            -> "maintenance"
    [] s = "maintenance"              -> "strict-fence-reconnect"
    [] s = "strict-fence-reconnect"   -> "writers-stopped"
    [] s = "writers-stopped"          -> "source-genesis"
    [] s = "source-genesis"           -> "recovery-restored"
    [] s = "recovery-restored"        -> "fence-source-rechecked"
    [] s = "fence-source-rechecked"   -> "migrate"
    [] OTHER                          -> "migrated-target-heads"

\* execute_committed_continuation
ContinuationNext(s) ==
  CASE s = "inspection"               -> "authorization"
    [] s = "authorization"            -> "rebound"
    [] OTHER                          -> "migrated-target-heads"

\* execute_failed_candidate_recovery takes the same steps
FailedCandidateNext(s) == ContinuationNext(s)

\* execute_post_acl_recovery and the adjudicated one: they stop the target
\* runtime before they fence again
PostAclNext(s) ==
  CASE s = "inspection"               -> "authorization"
    [] s = "authorization"            -> "writers-stopped"
    [] s = "writers-stopped"          -> "rebound"
    [] OTHER                          -> "migrated-target-heads"

\* _execute_common_suffix, then the receipt
SuffixNext(s) ==
  CASE s = "migrated-target-heads"    -> "candidate-ready"
    [] s = "candidate-ready"          -> "candidate-removed-fenced"
    [] s = "candidate-removed-fenced" -> "receipt-pre-acl"
    [] s = "receipt-pre-acl"          -> "acl-restored"
    [] s = "acl-restored"             -> "full-ready"
    [] s = "full-ready"               -> "receipt-routing-gate"
    [] s = "receipt-routing-gate"     -> "pre-routing-verified"
    [] s = "pre-routing-verified"     -> "routing-restored"
    [] s = "routing-restored"         -> "receipt-complete"
    [] OTHER                          -> "idle"

NextStage(k, s) ==
  IF s \in {"migrated-target-heads"} \cup Candidate \cup Release THEN SuffixNext(s)
  ELSE IF k = "transition" THEN TransitionNext(s)
  ELSE IF k \in PostAclKinds THEN PostAclNext(s)
  ELSE IF k = "committed" THEN ContinuationNext(s)
  ELSE FailedCandidateNext(s)

\* The stage's document is validated and retained; the executor moves on.
Retain(s) ==
  /\ kept' = [kept EXCEPT ![cur] = @ \cup {s}]
  /\ stage' = NextStage(kind[cur], s)
  /\ ended' = IF s = "receipt-complete" THEN "complete" ELSE ended
  /\ UNCHANGED <<cur, errors>>

\* Exceptions reach fail_closed once the executor is inside its guarded part.
Guarded ==
  \/ kind[cur] = "transition"
  \/ kind[cur] \in CandidateKinds /\ stage # "claim"
  \/ kind[cur] \in PostAclKinds /\ stage \notin {"claim", "inspection", "authorization"}

Raise ==
  /\ IF Guarded THEN stage' = "fc-admit" /\ UNCHANGED ended
                ELSE stage' = "idle" /\ ended' = "refused"
  /\ UNCHANGED <<cur, kept, errors>>

Die == stage' = "idle" /\ ended' = "died" /\ UNCHANGED <<cur, kept, errors>>

Fault == Raise \/ Die

Identity == <<kind, prior, original>>

-----------------------------------------------------------------------------
(* The stages.                                                             *)

\* The reservation of a frontier in the prior store: exclusive creation,
\* consumed even by a write that fails.
MutReservesNothing(p) == UNCHANGED claim
\* Mutant: the claim names the failed request instead of its successor.
MutClaimsForFailed(p) ==
  /\ claim[p] = None
  /\ claim' = [claim EXCEPT ![p] = p]
ReserveFrontier(p) ==
  /\ claim[p] = None
  /\ claim' = [claim EXCEPT ![p] = cur]

Claim ==
  /\ stage = "claim"
  /\ \/ /\ ReserveFrontier(prior[cur])
        /\ \/ stage' = "inspection" /\ UNCHANGED <<cur, ended, kept, errors>>
           \/ Fault
     \/ UNCHANGED claim /\ Fault
  /\ UNCHANGED <<world, Identity, stored, quiesced, held, created>>

\* The pre-reservation inspection is retained.
Inspection == stage = "inspection" /\ (Retain("inspection") \/ Fault)

\* The verified attestation report is retained with the claims read from it.
Authorization == stage = "authorization" /\ (Retain("authorization") \/ Fault)

(* The evidence each schema's receipt must name before the ACL is restored. *)
Proved == {"migrated-target-heads", "candidate-ready", "candidate-removed-fenced"}
TransitionEvidence      == PreMigration \cup {"migrate"} \cup Proved
CommittedEvidence       == Rebinding \cup Proved
FailedCandidateEvidence == CommittedEvidence
PostAclEvidence         == FailedCandidateEvidence \cup {"writers-stopped"}
AdjudicatedEvidence     == PostAclEvidence

PreAclEvidence(k) ==
  CASE k = "transition"              -> TransitionEvidence
    [] k = "committed"               -> CommittedEvidence
    [] k \in {"failed-1", "failed-2"} -> FailedCandidateEvidence
    [] k = "post-acl"                -> PostAclEvidence
    [] OTHER                         -> AdjudicatedEvidence

ReceiptEvidence(k, s) ==
  PreAclEvidence(k)
    \cup (IF s = "receipt-pre-acl" THEN {} ELSE {"acl-restored", "full-ready"})
    \cup (IF s = "receipt-complete" THEN {"pre-routing-verified", "routing-restored"} ELSE {})

\* verify_any_receipt: the evidence of its phase is retained and, for a
\* recovery, the context verifies again with the executor's own claim on it.
ReceiptVerifies(k, s) ==
  /\ ReceiptEvidence(k, s) \subseteq kept[cur]
  /\ k # "transition" => claim[prior[cur]] = cur /\ Context(k, prior[cur])

\* A receipt is verified against the evidence, then retained.
Receipt ==
  \E s \in {"receipt-pre-acl", "receipt-routing-gate", "receipt-complete"} :
    stage = s /\ ((ReceiptVerifies(kind[cur], s) /\ Retain(s)) \/ Fault)

\* Store writes only.
Record ==
  /\ Inspection \/ Authorization \/ Receipt
  /\ UNCHANGED <<world, Identity, claim, stored, quiesced, held, created>>

\* maintenance_on and the probe that the public name answers 503
MutProbeIgnored == route' \in {route, "maintenance"}
MaintenanceOn == route' = "maintenance"

Maintenance ==
  /\ stage = "maintenance"
  /\ \/ /\ Baseline
        /\ MaintenanceOn
        /\ Retain("maintenance") \/ Fault
     \/ UNCHANGED route /\ Fault
  /\ UNCHANGED <<gate, sessions, heads, image, up, cand, touched, beats, saved,
                 Identity, claim, stored, quiesced, held, created>>

\* One call of fence_writers that returned: drained, its proof not yet retained.
FenceHolds == Fence!FenceReturns /\ sessions' = FALSE

\* One that did not return.
FenceFails == (Fence!FenceLost \/ Fence!CallRefused) /\ UNCHANGED sessions

\* What a rebind re-checks before it fences again: the whole admission and the
\* measurement, with no writer running.
Rebindable ==
  /\ LiveAdmission(kind[cur])
  /\ ~up /\ ~touched
  /\ kind[cur] # "adjudicated" => beats = 0

\* The proof is written before the stage's document.
MutProofStaysInMemory == UNCHANGED stored
RetainProof == stored' = [stored EXCEPT ![cur] = held']

\* fence_and_negative_reconnect, and the rebind of every recovery
FenceWriters ==
  /\ \E s \in {"strict-fence-reconnect", "rebound"} :
       /\ stage = s
       /\ \/ /\ IF s = "rebound" THEN Rebindable ELSE Baseline
             /\ FenceHolds
             /\ \/ RetainProof /\ (Retain(s) \/ Fault)
                \/ UNCHANGED stored /\ Fault
          \/ FenceFails /\ UNCHANGED stored /\ Fault
  /\ UNCHANGED <<route, heads, image, up, cand, touched, beats, saved,
                 Identity, claim, quiesced, created>>

\* docker compose stop, and the readback that no writer container runs
WritersStopped == up' = FALSE

StopWriters ==
  /\ stage = "writers-stopped"
  /\ \/ Strict /\ WritersStopped /\ (Retain("writers-stopped") \/ Fault)
     \/ UNCHANGED up /\ Fault
  /\ UNCHANGED <<route, gate, sessions, heads, image, cand, touched, beats, saved,
                 Identity, claim, stored, quiesced, held, created>>

\* Measurements under a strict fence.
SourceGenesis == stage = "source-genesis" /\ Strict /\ heads = "source"
RecheckSource == stage = "fence-source-rechecked" /\ Strict /\ heads = "source"
TargetHeads   == stage = "migrated-target-heads" /\ Strict /\ heads = "target"

Measure ==
  /\ \E s \in {"source-genesis", "fence-source-rechecked", "migrated-target-heads"} :
       /\ stage = s
       /\ \/ (SourceGenesis \/ RecheckSource \/ TargetHeads) /\ Retain(s)
          \/ Fault
  /\ UNCHANGED <<world, Identity, claim, stored, quiesced, held, created>>

Bundles == {"none", "published", "restored"}

\* capture: the database is dumped only while it has the source's heads.
Captures == heads = "source"

\* The dump gets its name before it is verified; what is left by a failed
\* verification or restore stays there.
BundlePublished == saved' = "published"

\* The published bundle is restored into a scratch cluster and compared.
BundleRestored == saved' = "restored"

CaptureAndRestore ==
  /\ stage = "recovery-restored"
  /\ \/ /\ Strict /\ Captures
        /\ \/ BundleRestored /\ (Retain("recovery-restored") \/ Fault)
           \/ BundlePublished /\ Fault
     \/ UNCHANGED saved /\ Fault
  /\ UNCHANGED <<route, gate, sessions, heads, image, up, cand, touched, beats,
                 Identity, claim, stored, quiesced, held, created>>

\* verify_transition_prefix: every pre-migration document, in this store
PrefixRetained == PreMigration \subseteq kept[cur]

\* _observe_transition_connection: on the connections that migrate and observe,
\* immediately before the upgrade
TransitionObserved == Strict /\ heads = "source"

\* native_upgrade: the whole graph in the caller's transaction
NativeUpgrade == PrefixRetained /\ TransitionObserved /\ heads' = "target"

\* One transaction: it commits or leaves the source heads; the strict check and
\* the retention that follow the commit may still raise.
Migrate ==
  /\ stage = "migrate"
  /\ \/ NativeUpgrade /\ (Retain("migrate") \/ Fault)
     \/ UNCHANGED heads /\ Fault
  /\ UNCHANGED <<route, gate, sessions, image, up, cand, touched, beats, saved,
                 Identity, claim, stored, quiesced, held, created>>

\* Its roles get passwords, it connects through its own transport and answers.
CandidateRuns == cand' = "running"

\* Its environment and mounts are written while none of its resources exist.
CandidatePrepared == cand = "none"

\* create_roles: one statement makes both roles, without LOGIN, or neither.
RolesCreated == Strict /\ cand' \in {"none", "roles"}

\* activate: CONNECT and LOGIN role by role; a failure closes both again, and a
\* failure of that, or a kill, leaves one open.
RolesActivated == cand' \in {"roles", "open"}

\* verify_staged_database: only the candidate was let through the fence.
StagedVerified == Strict /\ cand' = "running"

\* candidate_ready sets its flags before each step they compensate.
CandidateReady ==
  /\ stage = "candidate-ready"
  /\ \/ /\ Strict /\ heads = "target"
        /\ touched' = FALSE
        /\ CandidatePrepared
        /\ created' = TRUE
        /\ \/ CandidateRuns /\ StagedVerified /\ Retain("candidate-ready")
           \/ (RolesCreated \/ RolesActivated \/ CandidateRuns) /\ Fault
     \/ UNCHANGED <<touched, created, cand>> /\ Fault
  /\ UNCHANGED <<route, gate, sessions, heads, image, up, beats, saved,
                 Identity, claim, stored, quiesced, held>>

\* close_candidate_and_refence: remove it, then compare the measurements.
MutQuiescenceUnmeasured == TRUE
Quiescent == ~touched

\* cleanup_before_restore: one statement drops the roles that are present.
RolesDropped == cand' = "none" /\ created' = FALSE

\* The container goes first, then LOGIN and CONNECT of each role, then the roles.
AtMost ==
  [none    |-> {"none"},
   roles   |-> {"none", "roles"},
   open    |-> {"none", "roles", "open"},
   running |-> {"none", "roles", "open", "running"}]

\* deactivate, or a step before or after it, raised.
RolesLeft == cand' \in AtMost[cand] /\ UNCHANGED created

CandidateClosed ==
  /\ RolesDropped
  /\ Strict /\ Quiescent
  /\ quiesced' = [quiesced EXCEPT ![cur] = TRUE]

CandidateNotClosed ==
  /\ RolesDropped \/ RolesLeft
  /\ UNCHANGED quiesced

RemoveCandidate ==
  /\ stage = "candidate-removed-fenced"
  /\ \/ CandidateClosed /\ (Retain("candidate-removed-fenced") \/ Fault)
     \/ CandidateNotClosed /\ Fault
  /\ UNCHANGED <<route, gate, sessions, heads, image, up, touched, beats, saved,
                 Identity, claim, stored, held>>

\* restore_after_candidate refuses while a role of the candidate exists.
RolesAbsent == cand = "none"

RestoreAcl ==
  /\ stage = "acl-restored"
  /\ \/ /\ Strict /\ ~created /\ quiesced[cur] /\ RolesAbsent
        /\ \/ Fence!RestoreReturns /\ (Retain("acl-restored") \/ Fault)
           \/ (Fence!RestoreKeepsFence \/ Fence!RestoreLost) /\ Fault
     \/ Fence!CallRefused /\ Fault
  /\ UNCHANGED <<route, sessions, heads, image, up, cand, touched, beats, saved,
                 Identity, claim, stored, quiesced, created>>

\* The containers run the target image with the inputs the plan specifies.
TargetRuntime == image' = "target" /\ up' = TRUE

\* docker compose up app relay, then the readiness of the whole runtime
FullReady ==
  /\ stage = "full-ready"
  /\ \/ TargetRuntime /\ (Retain("full-ready") \/ Fault)
     \/ UNCHANGED <<image, up>> /\ Fault
  /\ UNCHANGED <<route, gate, sessions, heads, cand, touched, beats, saved,
                 Identity, claim, stored, quiesced, held, created>>

VerifyPreRouting ==
  /\ stage = "pre-routing-verified"
  /\ \/ image = "target" /\ up /\ Retain("pre-routing-verified")
     \/ Fault
  /\ UNCHANGED <<world, Identity, claim, stored, quiesced, held, created>>

\* restore_routing verifies the retained gate receipt once more.
RestoreRouting ==
  /\ stage = "routing-restored"
  /\ \/ /\ {"receipt-routing-gate", "pre-routing-verified"} \subseteq kept[cur]
        /\ image = "target" /\ up
        /\ route' = "public"
        /\ Retain("routing-restored") \/ Fault
     \/ UNCHANGED route /\ Fault
  /\ UNCHANGED <<gate, sessions, heads, image, up, cand, touched, beats, saved,
                 Identity, claim, stored, quiesced, held, created>>

-----------------------------------------------------------------------------
(* fail_closed: maintenance, candidate and fence are each attempted even   *)
(* when another failed; the failure is recorded only if none did.          *)

Quit(how) == stage' = "idle" /\ ended' = how /\ UNCHANGED cur

MutLastErrorWins(s, failed) == stage' = s /\ errors' = failed /\ UNCHANGED <<cur, ended>>
Goto(s, failed) ==
  /\ stage' = s
  /\ errors' = (errors \/ failed)
  /\ UNCHANGED <<cur, ended>>

\* The binding, and without a proof the baseline, are checked before anything is
\* touched; a refusal here skips the whole containment.
FailAdmit ==
  /\ stage = "fc-admit"
  /\ \/ (held = "none" => Baseline) /\ Goto("fc-maintenance", FALSE)
     \/ (Quit("failed") \/ Quit("died")) /\ UNCHANGED errors
  /\ UNCHANGED <<world, store, held, created>>

FailMaintenance ==
  /\ stage = "fc-maintenance"
  /\ \/ route' = "maintenance" /\ Goto("fc-candidate", FALSE)
     \/ route' \in {route, "maintenance"} /\ Goto("fc-candidate", TRUE)
     \/ UNCHANGED route /\ Quit("died") /\ UNCHANGED errors
  /\ UNCHANGED <<gate, sessions, heads, image, up, cand, touched, beats, saved,
                 store, held, created>>

\* No candidate was created: nothing to remove.
MutWaitsForCandidate == FALSE
NoCandidate == ~created /\ UNCHANGED <<cand, created, quiesced>>

FailCandidate ==
  /\ stage = "fc-candidate"
  /\ \/ created /\ CandidateClosed /\ Goto("fc-fence", FALSE)
     \/ created /\ CandidateNotClosed /\ Goto("fc-fence", TRUE)
     \/ NoCandidate /\ Goto("fc-fence", FALSE)
     \/ CandidateNotClosed /\ created /\ Quit("died") /\ UNCHANGED errors
  /\ UNCHANGED <<route, gate, sessions, heads, image, up, touched, beats, saved,
                 Identity, kept, claim, stored, held>>

FailFence ==
  /\ stage = "fc-fence"
  /\ \/ /\ held = "none" => Baseline
        /\ FenceHolds
        /\ \/ Goto("fc-retain", FALSE) \/ Goto("fc-retain", TRUE)
           \/ Quit("died") /\ UNCHANGED errors
     \/ /\ FenceFails
        /\ \/ Goto("fc-retain", TRUE)
           \/ Quit("died") /\ UNCHANGED errors
  /\ UNCHANGED <<route, heads, image, up, cand, touched, beats, saved, store, created>>

FailureDocument == {"failure"}

FailRetain ==
  /\ stage = "fc-retain"
  /\ \/ ~errors /\ kept' = [kept EXCEPT ![cur] = @ \cup FailureDocument] /\ Quit("failed")
     \/ UNCHANGED kept /\ (Quit("failed") \/ Quit("died"))
  /\ UNCHANGED <<world, Identity, claim, stored, quiesced, held, created, errors>>

-----------------------------------------------------------------------------
Init ==
  /\ route = "public" /\ gate = "open" /\ heads = "source" /\ image = "source"
  /\ sessions = FALSE /\ up = TRUE /\ cand = "none" /\ touched = FALSE
  /\ beats = 0 /\ saved = "none"
  /\ kind = [r \in Requests |-> "unused"]
  /\ prior = [r \in Requests |-> None]
  /\ original = [r \in Requests |-> None]
  /\ kept = [r \in Requests |-> {}]
  /\ claim = [r \in Requests |-> None]
  /\ stored = [r \in Requests |-> "none"]
  /\ quiesced = [r \in Requests |-> FALSE]
  /\ cur = None /\ stage = "idle" /\ held = "none" /\ created = FALSE
  /\ errors = FALSE /\ ended = "none"

Admit ==
  \/ \E r \in Transitions : StartTransition(r)
  \/ \E r, p \in Transitions : StartHeldFence(r, p)
  \/ \E r \in Recoveries, p \in Requests, k \in RecoveryKinds : StartRecovery(r, p, k)

Execute ==
  \/ Claim \/ Record \/ Maintenance \/ FenceWriters \/ StopWriters \/ Measure
  \/ CaptureAndRestore \/ Migrate \/ CandidateReady \/ RemoveCandidate
  \/ RestoreAcl \/ FullReady \/ VerifyPreRouting \/ RestoreRouting

FailClosed ==
  FailAdmit \/ FailMaintenance \/ FailCandidate \/ FailFence \/ FailRetain

Environment == WriterConnects \/ WriterLeaves \/ WriterWrites \/ CandidateWrites

Next == Admit \/ Execute \/ FailClosed \/ Environment

Spec == Init /\ [][Next]_vars

\* The process keeps executing: every stage is bounded by its timeouts.
Fairness == WF_vars(Execute \/ FailClosed)

FairSpec == Spec /\ Fairness
-----------------------------------------------------------------------------
(* Properties.                                                             *)

\* Type invariant: the process, the stores and the host stay within the states
\* the code distinguishes.
TypeOK ==
  /\ route \in {"public", "maintenance"} /\ gate \in Fence!Gates
  /\ heads \in {"source", "target"} /\ image \in {"source", "target"}
  /\ sessions \in BOOLEAN /\ up \in BOOLEAN /\ touched \in BOOLEAN /\ saved \in Bundles
  /\ cand \in {"none", "roles", "open", "running"} /\ beats \in 0..MaxBeats
  /\ kind \in [Requests -> Kinds \cup {"unused"}]
  /\ prior \in [Requests -> Requests \cup {None}]
  /\ original \in [Requests -> Requests \cup {None}]
  /\ kept \in [Requests -> SUBSET Documents]
  /\ claim \in [Requests -> Requests \cup {None}]
  /\ stored \in [Requests -> Fence!Helds]
  /\ quiesced \in [Requests -> BOOLEAN]
  /\ cur \in Requests \cup {None}
  /\ stage \in Stages \cup Containment \cup {"claim", "idle"}
  /\ held \in Fence!Helds /\ created \in BOOLEAN /\ errors \in BOOLEAN
  /\ ended \in {"none", "running", "complete", "refused", "failed", "died"}

\* Public traffic never reaches a migrated database unless some request retained
\* the whole routing gate: whatever raised, died or could not be contained, the
\* migrated database answers 503 until a verified receipt says otherwise.
PublicOnlyBehindGate ==
  route = "public" /\ heads = "target" =>
    \E r \in Requests :
      Candidate \cup {"acl-restored", "full-ready", "receipt-routing-gate",
                     "pre-routing-verified"} \subseteq kept[r]

\* The schema changes only while the public name answers 503, the fence holds
\* with no writer backend or container left, and the retained recovery bundle
\* still equals the database: no write can fall between backup and migration.
MigratesOnlyContained ==
  [][heads' # heads => /\ route = "maintenance" /\ Strict /\ ~up /\ saved = "restored"
                       /\ PreMigration \subseteq kept[cur]]_vars

\* A failed request has at most one successor that touched the host: sibling
\* recoveries of one frontier, the strict and the adjudicated one included, are
\* told apart by the create-only claim even when the first of them crashed.
OneSuccessor ==
  \A r, q \in Requests :
    /\ r # q /\ prior[r] = prior[q] /\ prior[r] # None
    /\ kept[r] # {}
    => kept[q] = {}

\* The record of a failure is true: when the last execution retained one, the
\* public name answers 503, the fence holds with no writer backend, and no
\* candidate is left.
FailureIsContained ==
  ended = "failed" /\ "failure" \in kept[cur] =>
    route = "maintenance" /\ Strict /\ cand = "none"

\* Rows a candidate changed are never released: from the change on, the public
\* name answers 503 and no writer can connect.
MutationNeverReleased == touched => route = "maintenance" /\ gate = "fenced"

\* While the database is migrated and not yet released, the way back exists: the
\* bundle equals the rows except for what the candidate did, and a proof that
\* records the ACL to restore is retained.
RollbackPointKept ==
  heads = "target" /\ (\A r \in Requests : "receipt-pre-acl" \notin kept[r]) =>
    /\ saved = "restored" \/ touched
    /\ \E r \in Requests : kind[r] = "transition" /\ stored[r] # "none"

\* An executor is never refused by its own receipt: whatever failed before it and
\* in its ancestors, the context it was admitted on still verifies, with its own
\* claim, after the ACL and then the routing are restored.
ReceiptNeverRefused ==
  stage \in {"receipt-pre-acl", "receipt-routing-gate", "receipt-complete"} =>
    ReceiptVerifies(kind[cur], stage)

\* Every execution ends, by completion, refusal, contained failure or death: no
\* stage and no step of the containment waits for another.
ExecutionEnds == stage # "idle" ~> stage = "idle"

=============================================================================
