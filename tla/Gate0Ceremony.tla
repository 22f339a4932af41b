--------------------------- MODULE Gate0Ceremony ----------------------------
(***************************************************************************)
(* A Gate 0 rehearsal ceremony: attester sessions, in which a controller   *)
(* proves possession of its key and gets a signed proof, and one issuer    *)
(* process, which serves a bounded sequence of commands.  A command admits *)
(* the workload against the window frozen in the plan, registers a proof,  *)
(* and issues or consumes a rehearsal authorization in one transaction of  *)
(* the Control database, which also serves the withdrawal of approvals.    *)
(***************************************************************************)
EXTENDS Gate0Clocks, FiniteSets

CONSTANTS Sessions,     \* attester sessions, one process each
          Decisions,    \* approval decisions the plan may carry
          First,        \* the decision the window was approved under
          WindowLife,   \* length of the frozen window
          ProofLife,    \* lifetime of a challenge and of a proof (30 s)
          AuthLife,     \* authorization_ttl
          MaxProofs,    \* proofs the verifier retains (4)
          MaxCommands,  \* commands of one issuer process (8)
          None

ASSUME CeremonyAssumption ==
  /\ First \in Decisions /\ WindowLife \in Nat \ {0} /\ ProofLife \in Nat \ {0}
  /\ MaxProofs \in Nat /\ MaxCommands \in Nat /\ AuthLife \in Nat \ {0}
  /\ None \notin Decisions \cup {0, 3, 5}

VARIABLES eligible,    \* eligible[r]: the issuer process's trust state of role r
          approvals,   \* approvals[d]: "approved" or "withdrawn"
          carried,     \* the decision the plan's approval_decision_ref names
          session,     \* session[s]: an AttesterSession
          bundles,     \* the proof bundles the sessions have sent
          entries,     \* BoundedHarnessVerifier._entries: digest -> proof
          worker,      \* the IssuerWorker and its current command
          auths,       \* Control: the committed authorizations
          consumed,    \* Control: the ids of the consumed ones
          delivered,   \* the authorization documents sent to the client
          muts,        \* every committed mutation, with what it was based on
          answered     \* how many commands were answered

planVars == <<approvals, carried>>
dbVars == <<auths, consumed, muts>>
vars == <<clockVars, eligible, planVars, session, bundles, entries, worker,
          dbVars, delivered, answered>>

\* The wall instant the frozen window ends.
WindowEnd == Started + WindowLife
InWindow == wall >= Started /\ wall < WindowEnd

\* WindowFreshness.deadline: the window's absolute end on the monotonic clock,
\* mapped with the two readings taken when the process started (_origin and
\* _started), so that it is the same whenever the window is first read.
FreshnessDeadline == Least(Life, WindowEnd - Started)
WindowFresh == mono < FreshnessDeadline

\* BoundedHarnessVerifier._require_open.
VerifierOpen == wall >= Started /\ wall < Expires /\ mono < Life

\* The owner's canonical evidence holds the lease, the controller, the target
\* and these two instants: proofs made at one instant share a digest.
EvidenceDigest(p) == <<p.issued, p.validUntil>>

Idle == [at |-> "idle", op |-> None, proof |-> None, auth |-> None,
         decision |-> None, new |-> None, staged |-> 0, served |-> 0, exit |-> None,
         poisoned |-> FALSE]

Init ==
  /\ ClocksStart
  /\ eligible = [r \in Roles |-> TRUE]
  /\ approvals = [d \in Decisions |-> "approved"] /\ carried = First
  /\ session = [s \in Sessions |-> [at |-> "new"]]
  /\ bundles = {} /\ entries = <<>> /\ auths = {} /\ consumed = {}
  /\ delivered = {} /\ muts = {} /\ answered = 0
  /\ worker = Idle

-----------------------------------------------------------------------------
(* The clocks, trust, and approvals.                                       *)

Tick == /\ ClocksTick
        /\ UNCHANGED <<eligible, planVars, session, bundles, entries,
                       worker, dbVars, delivered, answered>>

StepWall == /\ ClockStep
            /\ UNCHANGED <<eligible, planVars, session, bundles, entries,
                           worker, dbVars, delivered, answered>>

\* A revocation, a failed refresh or close() ends a key's eligibility for
\* good (Gate0Custody).
LoseTrust(r) == /\ eligible[r] /\ eligible' = [eligible EXCEPT ![r] = FALSE]
                /\ UNCHANGED <<clockVars, planVars, session, bundles, entries, worker,
                               dbVars, delivered, answered>>

\* A withdrawal waits for a transaction that holds the decision.
Holds(d) == worker.at \in {"staged", "commit"} /\ worker.decision = d

Withdraw(d) == /\ approvals[d] = "approved" /\ ~Holds(d)
               /\ approvals' = [approvals EXCEPT ![d] = "withdrawn"]
               /\ UNCHANGED <<clockVars, eligible, carried, session, bundles,
                              entries, worker, dbVars, delivered, answered>>

\* The plan is approved again under another decision; Control locks the plan
\* row while a mutation of it is in flight.
Recarry(d) == /\ carried # d /\ approvals[d] = "approved" /\ ~Holds(carried)
              /\ carried' = d
              /\ UNCHANGED <<clockVars, eligible, approvals, session, bundles,
                             entries, worker, dbVars, delivered, answered>>

-----------------------------------------------------------------------------
(* AttesterSession.run and AttesterProofProducer.                          *)

\* AttesterProofProducer._clock, and _current for a pending challenge.
Current(s) == /\ wall >= session[s].from
              /\ wall < session[s].expires /\ mono < session[s].deadline

SessionMoves ==
  UNCHANGED <<clockVars, eligible, planVars, entries, worker, dbVars,
              delivered, answered>>

\* ApprovedAtStartAdmission.admit: the token's window is the one approved when
\* the process started, and consume needs an authorization document.
ApprovedAtStart(a) == InWindow /\ (a = None \/ a \in delivered)

\* AttesterProofProducer: a challenge is bounded by its own life, the window
\* and the monotonic instant the wall bound maps to.
NewChallenge(a) ==
  LET until == Least(wall + ProofLife, WindowEnd) IN
  [at |-> "pending", auth |-> a, from |-> wall, expires |-> until,
   deadline |-> mono + (until - wall)]

\* One challenge per session, after the workload token is admitted.
BeginChallenge(s, a) ==
  /\ session[s].at = "new" /\ ApprovedAtStart(a)
  /\ session' = [session EXCEPT ![s] = NewChallenge(a)]
  /\ bundles' = bundles
  /\ SessionMoves

\* complete_challenge takes the challenge, once and before anything
\* irreversible; the controller's signature verifies and the owner
\* statement gets its instants.
\* A consume proof must be made after its authorization was issued.
VerifyPossession(s) ==
  /\ session[s].at = "pending" /\ Current(s)
  /\ session[s].auth # None => wall > session[s].auth.issued
  /\ session' = [session EXCEPT ![s] =
       [at |-> "verified", auth |-> @.auth, from |-> @.from, expires |-> @.expires,
        deadline |-> @.deadline, issued |-> wall,
        validUntil |-> Least(wall + ProofLife, WindowEnd), made |-> mono]]
  /\ bundles' = bundles
  /\ SessionMoves

\* The proof and the observation of the session that made it.
Bundle(s) ==
  [by |-> s, auth |-> session[s].auth, issued |-> session[s].issued,
   validUntil |-> session[s].validUntil, made |-> session[s].made,
   from |-> session[s].from, until |-> wall]

\* Both statements are signed, the session observed and the bundle sent, with
\* the clocks and the trust checked around every signature.
SendBundle(s) ==
  /\ session[s].at = "verified" /\ Current(s)
  /\ bundles' = bundles \cup {Bundle(s)}
  /\ session' = [session EXCEPT ![s] = [at |-> "terminal"]]
  /\ SessionMoves

\* Any failed check, an attester key that lost its eligibility, a dropped
\* channel or the session's deadline ends it; a taken challenge is never
\* pending again.
RefuseSession(s) == /\ session[s].at \in {"pending", "verified"}
                    /\ session' = [session EXCEPT ![s] = [at |-> "terminal"]]
                    /\ bundles' = bundles
                    /\ SessionMoves

-----------------------------------------------------------------------------
(* IssuerWorker.run and Gate0Composition.                                  *)

WorkerMoves == UNCHANGED <<clockVars, eligible, planVars, session, bundles>>
Kept == UNCHANGED <<entries, dbVars, delivered, answered>>

Running == worker.exit = None

\* Exit 3 says refused, 5 says incomplete, cancelled or failed.
Exit(code) == worker' = [worker EXCEPT !.at = "idle", !.exit = code]

\* parse_bundle: what is submitted is a bundle some session signed.
Parsed(p) == p \in bundles

\* A command: issue and consume carry a proof, consume and standing an
\* authorization; standing names evidence the verifier has retained.
ReceiveCommand(op, p, a) ==
  /\ Running /\ worker.at = "idle" /\ worker.served < MaxCommands /\ VerifierOpen
  /\ Parsed(p) /\ (op = "issue") = (a = None) /\ a \in delivered \cup {None}
  /\ op = "standing" => p \in {entries[k] : k \in DOMAIN entries}
  /\ worker' = [worker EXCEPT !.at = "received", !.op = op, !.proof = p, !.auth = a,
                              !.served = @ + 1]
  /\ Kept /\ WorkerMoves

\* Standing is admitted in the phase of its evidence.
Phase == IF worker.op # "standing" THEN worker.op
         ELSE IF worker.proof.auth = None THEN "issue" ELSE "consume"

\* OwnerWindowReader.read: the plan's window by both clocks, read while the
\* approval the plan carries is held; the hold ends with the read.
WindowRead == InWindow /\ WindowFresh /\ approvals[carried] = "approved"

\* The expectation is built from the plan, and with it the decision it carries.
ExpectedDecision == carried

\* derive_consume_expectation: the authorization verifies under the issuer's
\* trust and lies in the window.
Derived(a) == eligible["issuer"] /\ a.issued >= Started /\ a.validUntil <= WindowEnd

\* AttestationContext: the proof was made for the admitted operation.
SameOperation(p) == p.auth = worker.auth

\* OwnerWorkloadAdmission.admit.
Admit ==
  /\ Running /\ worker.at = "received" /\ ~worker.poisoned
  /\ VerifierOpen /\ WindowRead
  /\ Phase = "consume" => /\ Derived(worker.auth)
                          /\ worker.op = "standing" => SameOperation(worker.proof)
  /\ worker' = [worker EXCEPT !.at = "admitted", !.decision = ExpectedDecision]
  /\ Kept /\ WorkerMoves

\* A refused admission (a token whose claims, keys or lifetime are not accepted,
\* or a window read that fails) poisons the provider and ends the process.
AdmitFails == /\ Running /\ worker.at = "received"
              /\ worker' = [worker EXCEPT !.at = "idle", !.poisoned = TRUE, !.exit = 3]
              /\ Kept /\ WorkerMoves

\* Gate0Composition._check_plan: the plan as it is now carries the decision
\* the expectation was built from, and its window is still fresh.
PlanMatches == carried = worker.decision /\ WindowFresh /\ InWindow

Preflight == /\ Running /\ worker.at = "admitted" /\ PlanMatches
             /\ worker.op # "standing"
             /\ worker' = [worker EXCEPT !.at = "preflighted"]
             /\ Kept /\ WorkerMoves

\* standing(): the same preflight, then one read of Control; nothing is written.
AnswerStanding == /\ Running /\ worker.at = "admitted" /\ worker.op = "standing"
                  /\ PlanMatches /\ VerifierOpen
                  /\ worker' = [Idle EXCEPT !.served = worker.served]
                  /\ Kept /\ WorkerMoves

\* verify_observation: recent, not from the future, and around the instant at
\* which the proof says it was issued.
Observed(p) ==
  /\ p.from <= p.until /\ p.until <= wall /\ wall - p.until <= ProofLife
  /\ p.from <= p.issued /\ p.issued <= p.until

\* _prepare: signed by an eligible attester, alive, not outliving the process,
\* and for consume made after the authorization was issued.
Prepared(p) ==
  /\ eligible["attester"]
  /\ wall < p.validUntil /\ p.validUntil <= Expires
  /\ worker.auth # None => p.issued > worker.auth.issued

\* Mutant: the context of the proof is not compared with the operation.
MutAnyContext(p) == Observed(p) /\ Prepared(p)

\* IssuerWorker._proof and Gate0Composition._proof.
Acceptable(p) == Observed(p) /\ SameOperation(p) /\ Prepared(p)

\* _register: the bounded cache never rebinds a digest.
Retain(p) ==
  LET k == EvidenceDigest(p) IN
  IF k \in DOMAIN entries
    THEN entries[k] = p /\ UNCHANGED entries
    ELSE /\ Cardinality(DOMAIN entries) < MaxProofs
         /\ entries' = [d \in DOMAIN entries \cup {k} |->
                          IF d = k THEN p ELSE entries[d]]

Register == /\ Running /\ worker.at = "preflighted"
            /\ VerifierOpen /\ Acceptable(worker.proof)
            /\ Retain(worker.proof)
            /\ worker' = [worker EXCEPT !.at = "registered"]
            /\ UNCHANGED <<dbVars, delivered, answered>> /\ WorkerMoves

\* The registration may pass its lock and be refused by the clock right after:
\* the proof stays retained, the command is refused.
RegisterLate == /\ Running /\ worker.at = "preflighted"
                /\ VerifierOpen /\ Acceptable(worker.proof)
                /\ Retain(worker.proof)
                /\ Exit(3)
                /\ UNCHANGED <<dbVars, delivered, answered>> /\ WorkerMoves

\* Mutant: the expiry of the evidence was checked when it was registered.
MutNotAgain(p) == eligible["attester"]

\* ProtectedHarnessVerifier: what the owner asks of the evidence again, inside
\* its transaction.
EvidenceVerifies(p) == eligible["attester"] /\ wall < p.validUntil

\* Mutant: the mutation trusts the hold of its admission.
MutStagesUnheld ==
  /\ Running /\ worker.at = "registered"
  /\ PlanMatches /\ VerifierOpen
  /\ eligible["issuer"] /\ eligible["attester"] /\ wall < worker.proof.validUntil
  /\ worker.op = "issue"
  /\ worker' = [worker EXCEPT !.at = "staged", !.staged = mono, !.new =
        [id |-> Cardinality(auths), issued |-> wall, validUntil |-> wall + AuthLife,
         made |-> mono]]
  /\ Kept /\ WorkerMoves

\* _mutate, up to the owner's writes: the approval is held, the evidence is
\* verified again and the authorization signed under both trust states, or a
\* standing authorization is taken for its single use.
Stage ==
  /\ Running /\ worker.at = "registered"
  /\ PlanMatches /\ VerifierOpen
  /\ approvals[worker.decision] = "approved"
  /\ eligible["issuer"] /\ EvidenceVerifies(worker.proof)
  /\ \/ /\ worker.op = "issue" /\ wall + AuthLife <= WindowEnd
        /\ worker' = [worker EXCEPT !.at = "staged", !.staged = mono, !.new =
             [id |-> Cardinality(auths), issued |-> wall, validUntil |-> wall + AuthLife,
              made |-> mono]]
     \/ /\ worker.op = "consume" /\ worker.auth.id \notin consumed
        /\ wall < worker.auth.validUntil
        /\ worker' = [worker EXCEPT !.at = "staged", !.staged = mono]
  /\ Kept /\ WorkerMoves

\* The plan and both clocks are checked again before the commit is started.
Recheck == /\ Running /\ worker.at = "staged" /\ PlanMatches /\ VerifierOpen
           /\ worker' = [worker EXCEPT !.at = "commit"]
           /\ Kept /\ WorkerMoves

\* What the transaction leaves in Control's tables.
Persist ==
  /\ IF worker.op = "issue" THEN auths' = auths \cup {worker.new} /\ UNCHANGED consumed
                            ELSE consumed' = consumed \cup {worker.auth.id} /\ UNCHANGED auths
  /\ muts' = muts \cup
       {[n |-> Cardinality(muts), op |-> worker.op, staged |-> worker.staged,
         proof |-> worker.proof, auth |-> worker.auth,
         standing |-> approvals[worker.decision] = "approved" /\ carried = worker.decision]}

Commit == /\ Running /\ worker.at = "commit" /\ Persist
          /\ worker' = [worker EXCEPT !.at = "committed"]
          /\ UNCHANGED <<entries, delivered, answered>> /\ WorkerMoves

\* The commit was sent and its answer lost: the database may hold it or not.
CommitUnknown == /\ Running /\ worker.at = "commit"
                 /\ Persist \/ UNCHANGED dbVars
                 /\ Exit(5)
                 /\ UNCHANGED <<entries, delivered, answered>> /\ WorkerMoves

\* A check or an owner call before the commit refuses: rolled back.  A
\* rollback or close that fails leaves the outcome unconfirmed.
RefuseCommand == /\ Running /\ worker.at \in {"admitted", "preflighted", "registered", "staged"}
                 /\ Exit(3)
                 /\ Kept /\ WorkerMoves

CleanupFails == /\ Running /\ worker.at \in {"registered", "staged", "committed"}
                /\ Exit(5)
                /\ Kept /\ WorkerMoves

\* The result is sent; a send that fails after the commit is incomplete.
Answer == /\ Running /\ worker.at = "committed" /\ mono < Life
          /\ answered' = answered + 1
          /\ delivered' = IF worker.op = "issue" THEN delivered \cup {worker.new} ELSE delivered
          /\ worker' = [Idle EXCEPT !.served = worker.served]
          /\ UNCHANGED <<entries, dbVars>> /\ WorkerMoves

\* Mutant: a failed send is refused like any other channel error.
MutSendRefused == /\ Running /\ worker.at = "committed"
                  /\ Exit(3) /\ Kept /\ WorkerMoves

SendFails == /\ Running /\ worker.at = "committed"
             /\ Exit(5) /\ Kept /\ WorkerMoves

\* End of input, the command budget, or the verifier's end between commands:
\* run() lets that refusal through and issuer_run knows no code for it.
EndOfInput == /\ Running /\ worker.at = "idle"
              /\ \/ Exit(0)
                 \/ ~VerifierOpen /\ Exit(5)
                 \/ worker.served = MaxCommands /\ Exit(3)
              /\ Kept /\ WorkerMoves

\* process_deadline: a signal, or the timer at the deadline, at any point.
Cancel == /\ Running /\ Exit(5) /\ Kept /\ WorkerMoves

-----------------------------------------------------------------------------

SessionStep(s) == (\E a \in delivered \cup {None} : BeginChallenge(s, a))
                  \/ VerifyPossession(s) \/ SendBundle(s)
                  \/ RefuseSession(s)

Receive == \E op \in {"issue", "consume", "standing"}, p \in bundles, a \in delivered \cup {None} :
             ReceiveCommand(op, p, a)

WorkerStep == Receive \/ Admit \/ AdmitFails \/ Preflight \/ Register \/ RegisterLate
              \/ AnswerStanding \/ Stage \/ Recheck \/ Commit \/ CommitUnknown \/ RefuseCommand
              \/ CleanupFails \/ Answer \/ SendFails \/ EndOfInput \/ Cancel

Next == \/ Tick \/ StepWall \/ (\E r \in Roles : LoseTrust(r))
        \/ (\E d \in Decisions : Withdraw(d) \/ Recarry(d))
        \/ (\E s \in Sessions : SessionStep(s))
        \/ WorkerStep

Spec == Init /\ [][Next]_vars

-----------------------------------------------------------------------------
(* Properties.                                                             *)

\* What a mutation rests on is recent in elapsed time: the possession it was given
\* is less than a proof's life old and the authorization it consumes less than its
\* ttl, when the owner verifies them, although both documents are dated by the wall
\* clock of another process.  Stepping that clock back extends them by no more than
\* the step (Gate0Composition._mutate, verify_rehearsal_harness_evidence).
EvidenceIsRecent ==
  \A m \in muts :
    /\ m.staged - m.proof.made < ProofLife + stepped
    /\ m.op = "consume" => m.staged - m.auth.made < AuthLife + stepped

\* A mutation is committed only while the decision it was admitted under is
\* approved and is the one the plan carries, although the hold of the
\* admission is given back before the mutation's own transaction begins.
MutationIsStanding == \A m \in muts : m.standing

\* An authorization is consumed with a proof of possession that was made after
\* the authorization was issued, in elapsed time and not only by the wall
\* clock the documents carry.
FreshPossession ==
  \A m \in muts : m.op = "consume" => m.proof.made >= m.auth.made /\ m.proof.auth = m.auth

\* The exit status is honest: a process that exits 0 or says "refused" (3) has
\* answered every mutation it committed; a committed mutation whose answer was
\* lost, and a commit or a clean-up of unknown outcome, exit with 5.
RefusedMeansUncommitted ==
  worker.exit \in {0, 3} => Cardinality(muts) = answered

=============================================================================
