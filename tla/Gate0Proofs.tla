----------------------------- MODULE Gate0Proofs -----------------------------
(***************************************************************************)
(* Proofs about Gate0Ceremony: what a mutation was based on when it was    *)
(* staged and checked still holds when it commits, because the decision is *)
(* held, the checks are made on the monotonic clock, and a proof is bound  *)
(* to the authorization its session was begun for.  Then about what the    *)
(* ceremony uses: Gate0Custody, the role custody two threads share, and    *)
(* DeployAgent, whose ledger a campaign's evidence is admitted to.         *)
(***************************************************************************)
EXTENDS Gate0Ceremony, Gate0Custody, DeployAgent, FiniteSetTheorems, SequenceTheorems, WellFoundedInduction, TLAPS

-----------------------------------------------------------------------------
(* The inductive invariant.                                                 *)

WorkerFields == {"at", "op", "proof", "auth", "decision", "new", "staged", "served", "exit", "poisoned"}

TypeOK ==
  /\ wall \in Int /\ mono \in Nat /\ stepped \in Nat /\ answered \in Nat
  /\ approvals \in [Decisions -> {"approved", "withdrawn"}] /\ carried \in Decisions
  /\ DOMAIN session = Sessions /\ DOMAIN worker = WorkerFields
  /\ IsFiniteSet(muts) /\ IsFiniteSet(auths)

\* A document valid for at most life, dated by the wall clock when the monotonic one
\* read d.made: since then the wall has lost no more than it was stepped.
Dated(d, life) ==
  /\ d.issued \in Int /\ d.validUntil \in Int /\ d.made \in Nat
  /\ d.validUntil <= d.issued + life
  /\ mono - d.made <= (wall - d.issued) + stepped

\* Whatever was issued was issued by now, in elapsed time.
Past(a) == Dated(a, AuthLife) /\ a.made <= mono
DeliveredOK == \A a \in delivered : Past(a)

\* A challenge is for an authorization that exists, and possession is proved later.
SessionOK(c) ==
  /\ c.at \in {"pending", "verified"} => (c.auth # None => Past(c.auth))
  /\ c.at = "verified" => Dated(c, ProofLife) /\ (c.auth # None => c.made >= c.auth.made)
SessionsOK == \A s \in Sessions : SessionOK(session[s])
BundlesOK == \A p \in bundles : Dated(p, ProofLife) /\ (p.auth # None => p.made >= p.auth.made)

\* What EvidenceIsRecent says of one mutation, or of the one under way.
RecentAt(m) ==
  /\ m.staged \in Nat /\ m.proof.made \in Nat
  /\ m.staged - m.proof.made < ProofLife + stepped
  /\ m.op = "consume" => m.auth.made \in Nat /\ m.staged - m.auth.made < AuthLife + stepped

\* What the command under way has established, step by step.
Loaded == {"received", "admitted", "preflighted", "registered", "staged", "commit"}
WorkerOK ==
  /\ worker.exit # None => worker.at = "idle"
  /\ worker.at \in Loaded => /\ worker.proof \in bundles
                             /\ worker.op = "consume" => worker.auth \in delivered /\ worker.auth # None
  /\ worker.at \in {"registered", "staged", "commit"} => worker.proof.auth = worker.auth
  /\ worker.at \in {"staged", "commit"} =>
       approvals[worker.decision] = "approved" /\ carried = worker.decision
  /\ worker.at \in {"staged", "commit", "committed"} /\ worker.op = "issue" => Past(worker.new)
  /\ worker.at \in {"staged", "commit"} => RecentAt(worker)

\* Every mutation is answered but the one whose answer is due.
CountOK ==
  /\ \A m \in muts : m.n \in Nat /\ m.n < Cardinality(muts)
  /\ Running /\ worker.at # "committed" => Cardinality(muts) = answered
  /\ Running /\ worker.at = "committed" => Cardinality(muts) = answered + 1
  /\ RefusedMeansUncommitted

IInv == /\ TypeOK /\ DeliveredOK /\ SessionsOK /\ BundlesOK /\ WorkerOK /\ CountOK
        /\ (\A m \in muts : RecentAt(m)) /\ MutationIsStanding /\ FreshPossession

-----------------------------------------------------------------------------
(* One step of the ceremony keeps the invariant.                            *)

LEMMA Initially == Init => IInv
<1> SUFFICES ASSUME Init PROVE IInv
  OBVIOUS
<1>1. TypeOK
  BY CeremonyAssumption, FS_EmptySet DEF Init, ClocksStart, TypeOK, Idle, WorkerFields, Started
<1>2. DeliveredOK /\ SessionsOK /\ BundlesOK
  BY DEF Init, DeliveredOK, SessionsOK, SessionOK, BundlesOK, Dated
<1>3. WorkerOK
  BY DEF Init, WorkerOK, RecentAt, Idle, Loaded
<1>4. CountOK
  BY FS_EmptySet DEF Init, CountOK, RefusedMeansUncommitted, Running, Idle
<1>5. (\A m \in muts : RecentAt(m)) /\ MutationIsStanding /\ FreshPossession
  BY DEF Init, MutationIsStanding, FreshPossession
<1> QED BY <1>1, <1>2, <1>3, <1>4, <1>5 DEF IInv

\* A tick moves both clocks, a step costs one of stepped.
ClocksForward ==
  /\ wall' \in Int /\ mono' \in Nat /\ stepped' \in Nat
  /\ mono' >= mono /\ stepped' >= stepped
  /\ mono' - mono <= (wall' - wall) + (stepped' - stepped)

LEMMA Moved ==
  ASSUME NEW w \in Int, NEW ww \in Int, NEW t \in Int, NEW tt \in Int, NEW n \in Int, NEW nn \in Int,
         NEW i \in Int, NEW k \in Int,
         t - k <= (w - i) + n, tt - t <= (ww - w) + (nn - n)
  PROVE  tt - k <= (ww - i) + nn
OBVIOUS

\* What was dated stays so, and what was recent too, while the clocks move.
LEMMA DatedKept ==
  ASSUME IInv, ClocksForward, NEW d, NEW life \in Nat, Dated(d, life)
  PROVE  Dated(d, life)'
<1>1. wall \in Int /\ mono \in Int /\ stepped \in Int
  BY DEF IInv, TypeOK
<1>2. wall' \in Int /\ mono' \in Int /\ stepped' \in Int
  BY DEF ClocksForward
<1>3. d.issued \in Int /\ d.made \in Int
  BY DEF Dated
<1>4. mono' - d.made <= (wall' - d.issued) + stepped'
  BY <1>1, <1>2, <1>3, Moved DEF Dated, ClocksForward
<1> QED BY <1>4 DEF Dated

LEMMA RecentKept ==
  ASSUME IInv, ClocksForward, NEW m, RecentAt(m)
  PROVE  RecentAt(m)'
BY CeremonyAssumption DEF IInv, TypeOK, ClocksForward, RecentAt

LEMMA PastKept ==
  ASSUME IInv, ClocksForward, NEW a, Past(a)
  PROVE  Past(a)'
<1>1. Dated(a, AuthLife)'
  BY DatedKept, CeremonyAssumption DEF Past
<1> QED BY <1>1 DEF Past, Dated, IInv, TypeOK, ClocksForward

\* The mutations committed so far are untouched by a step that commits none.
LEMMA MutationsKept ==
  ASSUME IInv, UNCHANGED muts, ClocksForward
  PROVE  (\A m \in muts' : RecentAt(m)') /\ MutationIsStanding' /\ FreshPossession'
<1>1. ASSUME NEW m \in muts PROVE RecentAt(m)'
  BY RecentKept DEF IInv
<1> QED BY <1>1 DEF IInv, MutationIsStanding, FreshPossession

LEMMA MutationsStay ==
  ASSUME IInv, UNCHANGED <<muts, wall, mono, stepped>>
  PROVE  (\A m \in muts' : RecentAt(m)') /\ MutationIsStanding' /\ FreshPossession'
<1>1. ClocksForward
  BY DEF IInv, TypeOK, ClocksForward
<1> QED BY <1>1, MutationsKept

\* Time only passes: what was issued in the past stays so.
LEMMA ClocksKeep ==
  ASSUME IInv, Tick \/ StepWall \/ (\E r \in Roles : LoseTrust(r)) \/ UNCHANGED vars
  PROVE  IInv'
<1>1. /\ ClocksForward
      /\ UNCHANGED <<planVars, session, bundles, worker, dbVars, delivered, answered>>
  BY DEF IInv, TypeOK, Tick, ClocksTick, StepWall, ClockStep, LoseTrust, vars, clockVars, ClocksForward
<1>2. TypeOK'
  BY <1>1 DEF IInv, TypeOK, planVars, dbVars, ClocksForward
<1>3. DeliveredOK' /\ SessionsOK' /\ BundlesOK'
  <2>1. DeliveredOK'
    BY <1>1, PastKept DEF IInv, DeliveredOK
  <2>3. SessionsOK'
    <3> SUFFICES ASSUME NEW s \in Sessions PROVE SessionOK(session[s])'
      BY DEF SessionsOK
    <3>1. SessionOK(session[s]) /\ session'[s] = session[s]
      BY <1>1 DEF IInv, SessionsOK
    <3> QED BY <1>1, <3>1, PastKept, DatedKept, CeremonyAssumption DEF SessionOK
  <2>4. BundlesOK'
    BY <1>1, DatedKept, CeremonyAssumption DEF IInv, BundlesOK
  <2> QED BY <2>1, <2>3, <2>4
<1>4. WorkerOK'
  <2>1. Past(worker.new) => Past(worker.new)'
    BY <1>1, PastKept DEF Past, Dated
  <2>2. RecentAt(worker) => RecentAt(worker)'
    BY <1>1, RecentKept DEF RecentAt
  <2> QED BY <1>1, <2>1, <2>2 DEF IInv, WorkerOK, planVars
<1>5. CountOK'
  BY <1>1 DEF IInv, CountOK, RefusedMeansUncommitted, Running, dbVars
<1> QED BY <1>1, <1>2, <1>3, <1>4, <1>5, MutationsKept DEF IInv, dbVars, ClocksForward

\* A withdrawal or another decision waits for the transaction that holds its own.
LEMMA PlanKeeps ==
  ASSUME IInv, NEW d \in Decisions, Withdraw(d) \/ Recarry(d)
  PROVE  IInv'
<1>1. UNCHANGED <<clockVars, session, bundles, worker, dbVars, delivered, answered>>
  BY DEF Withdraw, Recarry
<1>2. TypeOK'
  BY <1>1 DEF Withdraw, Recarry, IInv, TypeOK, clockVars, dbVars
<1>3. DeliveredOK' /\ SessionsOK' /\ BundlesOK'
  BY <1>1 DEF IInv, DeliveredOK, SessionsOK, SessionOK, BundlesOK, Past, Dated, clockVars
<1>4. WorkerOK'
  <2>1. ASSUME worker.at \in {"staged", "commit"}
        PROVE  approvals'[worker.decision] = "approved" /\ carried' = worker.decision
    <3>1. approvals[worker.decision] = "approved" /\ carried = worker.decision
      BY <2>1 DEF IInv, WorkerOK, RecentAt
    <3>2. ~Withdraw(worker.decision) /\ ~Recarry(d)
      BY <2>1, <3>1 DEF Withdraw, Recarry, Holds
    <3> QED BY <3>1, <3>2 DEF Withdraw, IInv, TypeOK
  <2> QED BY <1>1, <2>1 DEF IInv, WorkerOK, RecentAt, Past, Dated, clockVars
<1>5. CountOK'
  BY <1>1 DEF IInv, CountOK, RefusedMeansUncommitted, Running, dbVars
<1> QED BY <1>1, <1>2, <1>3, <1>4, <1>5, MutationsStay DEF IInv, dbVars, clockVars

\* A session proves possession after its challenge was made for an authorization
\* that had been issued.
LEMMA SessionKeeps ==
  ASSUME IInv, NEW s \in Sessions, SessionStep(s)
  PROVE  IInv'
<1>1. SessionMoves
  BY DEF SessionStep, BeginChallenge, VerifyPossession, SendBundle, RefuseSession
<1>0. UNCHANGED <<wall, mono, stepped>>
  BY <1>1 DEF SessionMoves, clockVars
<1>2. /\ DOMAIN session' = Sessions /\ \A t \in Sessions : t # s => session'[t] = session[t]
      /\ SessionOK(session'[s])
      /\ BundlesOK' /\ bundles \subseteq bundles'
  <2> USE DEF IInv, TypeOK
  <2>0. ASSUME bundles' = bundles PROVE BundlesOK'
    BY <1>0, <2>0 DEF BundlesOK, Dated
  <2>1. ASSUME NEW a \in delivered \cup {None}, BeginChallenge(s, a) PROVE <1>2!1 /\ <1>2!2 /\ <1>2!3
    <3>1. session' = [session EXCEPT ![s] = NewChallenge(a)] /\ bundles' = bundles
      BY <2>1 DEF BeginChallenge
    <3>2. NewChallenge(a).at = "pending" /\ NewChallenge(a).auth = a
      BY DEF NewChallenge
    <3>3. SessionOK(session'[s])
      BY <3>1, <3>2 DEF SessionOK, DeliveredOK
    <3> QED BY <2>0, <3>1, <3>3
  <2>2. CASE VerifyPossession(s)
    <3>1. bundles' = bundles /\ session[s].at = "pending" /\ SessionOK(session[s])
      BY <2>2 DEF VerifyPossession, SessionsOK
    <3>2. /\ DOMAIN session' = Sessions /\ \A t \in Sessions : t # s => session'[t] = session[t]
          /\ session'[s].at = "verified" /\ session'[s].auth = session[s].auth /\ session'[s].made = mono
          /\ session'[s].issued = wall /\ session'[s].validUntil = Least(wall + ProofLife, WindowEnd)
      BY <2>2 DEF VerifyPossession
    <3>3. Dated(session'[s], ProofLife)
      BY <3>2, CeremonyAssumption DEF Dated, Least, WindowEnd, Started
    <3>4. SessionOK(session'[s])
      BY <3>1, <3>2, <3>3 DEF SessionOK, Past, Dated
    <3> QED BY <2>0, <3>1, <3>2, <3>4
  <2>3. CASE SendBundle(s)
    <3>1. session' = [session EXCEPT ![s] = [at |-> "terminal"]] /\ bundles' = bundles \cup {Bundle(s)}
          /\ SessionOK(session[s]) /\ session[s].at = "verified"
      BY <2>3 DEF SendBundle, SessionsOK
    <3>2. /\ Bundle(s).auth = session[s].auth /\ Bundle(s).made = session[s].made
          /\ Bundle(s).issued = session[s].issued /\ Bundle(s).validUntil = session[s].validUntil
      BY DEF Bundle
    <3> DEFINE b == Bundle(s)
    <3>3. Dated(b, ProofLife) /\ (b.auth # None => b.made >= b.auth.made)
      BY <3>1, <3>2 DEF SessionOK, Dated
    <3> HIDE DEF b
    <3>4. BundlesOK'
      BY <1>0, <3>1, <3>3 DEF BundlesOK, Dated, b
    <3> QED BY <3>1, <3>4 DEF SessionOK
  <2>4. CASE RefuseSession(s)
    BY <2>0, <2>4 DEF RefuseSession, SessionOK
  <2> QED BY <2>1, <2>2, <2>3, <2>4 DEF SessionStep
<1>3. UNCHANGED <<wall, mono, stepped, approvals, carried, worker, auths, muts, delivered, answered>>
  BY <1>1 DEF SessionMoves, clockVars, planVars, dbVars
<1>4. TypeOK'
  BY <1>2, <1>3 DEF IInv, TypeOK
<1>5. SessionsOK' /\ DeliveredOK'
  BY <1>2, <1>3 DEF IInv, SessionsOK, SessionOK, DeliveredOK, Past, Dated
<1>6. WorkerOK'
  BY <1>2, <1>3 DEF IInv, WorkerOK, RecentAt, Past, Dated
<1>7. CountOK'
  BY <1>3 DEF IInv, CountOK, RefusedMeansUncommitted, Running
<1> QED BY <1>2, <1>3, <1>4, <1>5, <1>6, <1>7, MutationsStay DEF IInv

-----------------------------------------------------------------------------
(* The steps of the issuer's worker.                                        *)

\* A step of the worker leaves the clocks, the plan and the sessions alone.
LEMMA WorkerFrame ==
  ASSUME IInv, WorkerMoves
  PROVE  /\ UNCHANGED <<wall, mono, stepped, approvals, carried, session, bundles>>
         /\ SessionsOK' /\ BundlesOK'
BY DEF IInv, WorkerMoves, SessionsOK, SessionOK, BundlesOK, Past, Dated, clockVars, planVars

\* A step that commits, delivers and answers nothing.
LEMMA QuietStep ==
  ASSUME IInv, WorkerMoves, UNCHANGED <<dbVars, delivered, answered>>,
         DOMAIN worker' = WorkerFields, WorkerOK',
         Running, worker'.at = "committed" <=> worker.at = "committed" /\ worker'.exit = None,
         worker'.exit \in {0, 3} => worker.at # "committed"
  PROVE  IInv'
<1>1. TypeOK'
  BY WorkerFrame DEF IInv, TypeOK, dbVars
<1>2. DeliveredOK'
  BY WorkerFrame DEF IInv, DeliveredOK, Past, Dated
<1>3. CountOK'
  BY CeremonyAssumption DEF IInv, CountOK, RefusedMeansUncommitted, Running, dbVars
<1> QED BY <1>1, <1>2, <1>3, WorkerFrame, MutationsStay DEF IInv, dbVars

\* The command is received, admitted, preflighted, staged and checked again: each
\* step adds what it established.
LEMMA AdvanceKeeps ==
  ASSUME IInv, Receive \/ Admit \/ Preflight \/ Register \/ AnswerStanding \/ Stage \/ Recheck
  PROVE  IInv'
<1>1. /\ WorkerMoves /\ UNCHANGED <<dbVars, delivered, answered>> /\ Running
  BY DEF Receive, ReceiveCommand, Admit, Preflight, Register, AnswerStanding, Stage, Recheck, Kept
<1>2. UNCHANGED <<wall, mono, stepped, approvals, carried, session, bundles>>
  BY <1>1, WorkerFrame
<1> DEFINE Good == /\ DOMAIN worker' = WorkerFields /\ WorkerOK' /\ worker'.exit = None
                   /\ worker'.at # "committed" /\ worker.at # "committed"
<1>3. SUFFICES Good
  <2>1. ASSUME Good PROVE IInv'
    BY <1>1, <2>1, QuietStep, CeremonyAssumption
  <2> QED BY <2>1
<1> USE DEF IInv, TypeOK, WorkerOK, RecentAt, Loaded, Running, WorkerFields
<1>4. ASSUME NEW op \in {"issue", "consume", "standing"}, NEW p \in bundles, NEW a \in delivered \cup {None},
             ReceiveCommand(op, p, a)
      PROVE  Good
  BY <1>1, <1>2, <1>4 DEF ReceiveCommand
<1>5. CASE Admit
  BY <1>1, <1>2, <1>5 DEF Admit
<1>6. CASE Preflight
  BY <1>1, <1>2, <1>6 DEF Preflight
<1>7. CASE Register
  BY <1>1, <1>2, <1>7 DEF Register, Acceptable, SameOperation
<1>8. CASE AnswerStanding
  BY <1>1, <1>2, <1>8 DEF AnswerStanding, Idle
<1>9. CASE Stage
  <2>1. PICK n : /\ \/ worker' = [worker EXCEPT !.at = "staged", !.staged = mono, !.new = n]
                    \/ worker' = [worker EXCEPT !.at = "staged", !.staged = mono] /\ worker.op = "consume"
                 /\ worker.op = "issue" =>
                      /\ n = [id |-> Cardinality(auths), issued |-> wall, validUntil |-> wall + AuthLife,
                              made |-> mono]
                      /\ worker' = [worker EXCEPT !.at = "staged", !.staged = mono, !.new = n]
    BY <1>9 DEF Stage
  <2>2. worker.at = "registered" /\ approvals[worker.decision] = "approved" /\ carried = worker.decision
    BY <1>9 DEF Stage, PlanMatches
  <2>3. /\ DOMAIN worker' = WorkerFields /\ worker'.at = "staged" /\ worker'.staged = mono
        /\ \A f \in WorkerFields \ {"at", "new", "staged"} : worker'[f] = worker[f]
        /\ worker.op = "issue" => worker'.new = n
    BY <2>1
  <2>4. worker.op = "issue" => Past(worker'.new)
    BY <2>1, <2>3, CeremonyAssumption DEF Past, Dated
  <2>5. RecentAt(worker')
    <3>1. Dated(worker.proof, ProofLife) /\ wall < worker.proof.validUntil
      BY <1>9, <2>2 DEF Stage, EvidenceVerifies, BundlesOK
    <3>2. ASSUME worker.op = "consume" PROVE Dated(worker.auth, AuthLife) /\ wall < worker.auth.validUntil
      BY <1>9, <2>2, <3>2 DEF Stage, DeliveredOK, Past
    <3> QED BY <2>3, <3>1, <3>2, CeremonyAssumption DEF RecentAt, Dated
  <2> QED BY <1>1, <1>2, <2>2, <2>3, <2>4, <2>5 DEF Past, Dated, RecentAt
<1>10. CASE Recheck
  <2>1. /\ worker' = [worker EXCEPT !.at = "commit"] /\ worker.at = "staged"
    BY <1>10 DEF Recheck
  <2>2. /\ DOMAIN worker' = WorkerFields /\ worker'.at = "commit"
        /\ \A f \in WorkerFields \ {"at"} : worker'[f] = worker[f]
    BY <2>1
  <2> QED BY <1>1, <1>2, <2>1, <2>2 DEF Past, Dated, RecentAt
<1> QED BY <1>4, <1>5, <1>6, <1>7, <1>8, <1>9, <1>10 DEF Receive

\* The process ends before a commit, with what the exit status says.
LEMMA ExitKeeps ==
  ASSUME IInv, AdmitFails \/ RegisterLate \/ RefuseCommand \/ CleanupFails \/ SendFails \/ EndOfInput \/ Cancel
  PROVE  IInv'
<1>1. /\ WorkerMoves /\ UNCHANGED <<dbVars, delivered, answered>> /\ Running
  BY DEF AdmitFails, RegisterLate, RefuseCommand, CleanupFails, SendFails, EndOfInput, Cancel, Kept
<1>2. /\ DOMAIN worker' = WorkerFields /\ worker'.at = "idle" /\ worker'.exit \in {0, 3, 5}
      /\ worker'.exit \in {0, 3} => worker.at # "committed"
  <2>1. DOMAIN worker = WorkerFields
    BY DEF IInv, TypeOK
  <2>2. ASSUME NEW code \in {0, 3, 5}, Exit(code)
        PROVE  DOMAIN worker' = WorkerFields /\ worker'.at = "idle" /\ worker'.exit = code
    BY <2>1, <2>2 DEF Exit, WorkerFields
  <2>3. CASE AdmitFails
    BY <2>1, <2>3 DEF AdmitFails, WorkerFields
  <2>4. CASE CleanupFails \/ SendFails \/ Cancel
    <3>1. Exit(5)
      BY <2>4 DEF CleanupFails, SendFails, Cancel
    <3> QED BY <2>2, <3>1
  <2>5. CASE RegisterLate \/ RefuseCommand
    <3>1. Exit(3) /\ worker.at # "committed"
      BY <2>5 DEF RegisterLate, RefuseCommand
    <3> QED BY <2>2, <3>1
  <2>6. CASE EndOfInput
    <3>1. (Exit(0) \/ Exit(3) \/ Exit(5)) /\ worker.at # "committed"
      BY <2>6 DEF EndOfInput
    <3> QED BY <2>2, <3>1
  <2> QED BY <2>3, <2>4, <2>5, <2>6
<1>3. WorkerOK'
  BY <1>2 DEF WorkerOK, RecentAt, Loaded
<1> HIDE DEF Running
<1>4. TypeOK'
  BY <1>1, <1>2, WorkerFrame DEF IInv, TypeOK, dbVars
<1>5. DeliveredOK'
  BY <1>1, WorkerFrame DEF IInv, DeliveredOK, Past, Dated
<1>6. CountOK'
  BY <1>1, <1>2, CeremonyAssumption DEF IInv, CountOK, RefusedMeansUncommitted, Running, dbVars
<1> QED BY <1>1, <1>3, <1>4, <1>5, <1>6, WorkerFrame, MutationsStay DEF IInv, dbVars

\* The commit writes one mutation, of a decision that stands, checked in time, with
\* a proof made for the authorization it uses.
LEMMA PersistKeeps ==
  ASSUME IInv, worker.at = "commit", Persist, UNCHANGED stepped
  PROVE  /\ IsFiniteSet(muts') /\ IsFiniteSet(auths') /\ Cardinality(muts') = Cardinality(muts) + 1
         /\ Cardinality(muts) \in Nat /\ \A m \in muts' : m.n \in Nat /\ m.n < Cardinality(muts')
         /\ (\A m \in muts' : RecentAt(m)') /\ MutationIsStanding' /\ FreshPossession'
<1> DEFINE new == [n |-> Cardinality(muts), op |-> worker.op, staged |-> worker.staged,
                   proof |-> worker.proof, auth |-> worker.auth,
                   standing |-> approvals[worker.decision] = "approved" /\ carried = worker.decision]
<1>1. muts' = muts \cup {new}
  BY DEF Persist
<1>2. /\ new.n = Cardinality(muts) /\ new.staged = worker.staged /\ new.op = worker.op
      /\ new.proof = worker.proof /\ new.auth = worker.auth
      /\ new.standing = (approvals[worker.decision] = "approved" /\ carried = worker.decision)
  OBVIOUS
<1> HIDE DEF new
<1>3. IsFiniteSet(muts) /\ Cardinality(muts) \in Nat
  BY FS_CardinalityType DEF IInv, TypeOK
<1>4. new \notin muts
  BY <1>2, <1>3 DEF IInv, CountOK
<1>5. IsFiniteSet(muts') /\ Cardinality(muts') = Cardinality(muts) + 1
  BY <1>1, <1>3, <1>4, FS_AddElement
<1>6. IsFiniteSet(auths')
  BY FS_AddElement DEF Persist, IInv, TypeOK
<1>7. \A m \in muts' : m.n \in Nat /\ m.n < Cardinality(muts')
  <2>1. \A m \in muts : m.n \in Nat /\ m.n < Cardinality(muts)
    BY DEF IInv, CountOK
  <2> QED BY <1>1, <1>2, <1>3, <1>5, <2>1
<1>8. \A m \in muts' : RecentAt(m)'
  BY <1>1, <1>2 DEF IInv, RecentAt, WorkerOK
<1>9. new.standing
  BY <1>2 DEF IInv, WorkerOK, RecentAt
<1>10. MutationIsStanding'
  BY <1>1, <1>9 DEF IInv, MutationIsStanding
<1>11. FreshPossession'
  BY <1>1, <1>2 DEF IInv, FreshPossession, WorkerOK, RecentAt, Loaded, BundlesOK, Dated
<1> QED BY <1>3, <1>5, <1>6, <1>7, <1>8, <1>10, <1>11

LEMMA CommitKeeps ==
  ASSUME IInv, Commit \/ CommitUnknown
  PROVE  IInv'
<1>1. WorkerMoves /\ UNCHANGED <<delivered, answered>> /\ Running /\ worker.at = "commit"
  BY DEF Commit, CommitUnknown
<1>2. UNCHANGED <<wall, mono, stepped, approvals, carried, session, bundles>> /\ SessionsOK' /\ BundlesOK'
  BY <1>1, WorkerFrame
<1>3. DeliveredOK'
  BY <1>1, <1>2 DEF IInv, DeliveredOK, Past, Dated
<1>4. CASE Commit
  <2>1. /\ worker' = [worker EXCEPT !.at = "committed"] /\ Persist
    BY <1>4 DEF Commit
  <2>2. DOMAIN worker' = WorkerFields /\ worker'.at = "committed" /\ worker'.exit = worker.exit
        /\ worker'.op = worker.op /\ worker'.new = worker.new
    BY <2>1 DEF IInv, TypeOK, WorkerFields
  <2>3. WorkerOK'
    BY <1>1, <1>2, <2>2 DEF IInv, WorkerOK, RecentAt, Loaded, Running, Past, Dated
  <2>4. TypeOK'
    BY <1>1, <1>2, <2>1, <2>2, PersistKeeps DEF IInv, TypeOK
  <2>5. CountOK'
    BY <1>1, <1>2, <2>1, <2>2, PersistKeeps, CeremonyAssumption DEF IInv, CountOK, Running, RefusedMeansUncommitted
  <2> QED BY <1>1, <1>2, <1>3, <2>1, <2>3, <2>4, <2>5, PersistKeeps DEF IInv
<1>5. CASE CommitUnknown
  <2>1. /\ worker' = [worker EXCEPT !.at = "idle", !.exit = 5] /\ (Persist \/ UNCHANGED dbVars)
    BY <1>5 DEF CommitUnknown, Exit
  <2>2. DOMAIN worker' = WorkerFields /\ worker'.at = "idle" /\ worker'.exit = 5
    BY <2>1 DEF IInv, TypeOK, WorkerFields
  <2>3. WorkerOK'
    BY <2>2 DEF WorkerOK, RecentAt, Loaded
  <2>4. /\ IsFiniteSet(muts') /\ IsFiniteSet(auths')
        /\ \A m \in muts' : m.n \in Nat /\ m.n < Cardinality(muts')
        /\ (\A m \in muts' : RecentAt(m)') /\ MutationIsStanding' /\ FreshPossession'
    <3>1. CASE Persist
      BY <1>1, <1>2, <3>1, PersistKeeps
    <3>2. CASE UNCHANGED dbVars
      BY <1>2, <3>2, MutationsStay DEF dbVars, IInv, TypeOK, CountOK
    <3> QED BY <2>1, <3>1, <3>2
  <2>5. TypeOK'
    BY <1>1, <1>2, <2>2, <2>4 DEF IInv, TypeOK
  <2>6. CountOK'
    BY <2>2, <2>4, CeremonyAssumption DEF CountOK, Running, RefusedMeansUncommitted
  <2> QED BY <1>2, <1>3, <2>3, <2>4, <2>5, <2>6 DEF IInv
<1> QED BY <1>4, <1>5

LEMMA AnswerKeeps ==
  ASSUME IInv, Answer
  PROVE  IInv'
<1>1. /\ WorkerMoves /\ UNCHANGED dbVars /\ Running /\ worker.at = "committed" /\ answered' = answered + 1
      /\ delivered' = IF worker.op = "issue" THEN delivered \cup {worker.new} ELSE delivered
      /\ worker' = [Idle EXCEPT !.served = worker.served]
  BY DEF Answer
<1>2. UNCHANGED <<wall, mono, stepped, approvals, carried, session, bundles>> /\ SessionsOK' /\ BundlesOK'
  BY <1>1, WorkerFrame
<1>3. DOMAIN worker' = WorkerFields /\ worker'.at = "idle" /\ worker'.exit = None
  BY <1>1 DEF Idle, WorkerFields
<1>4. WorkerOK'
  BY <1>3 DEF WorkerOK, RecentAt, Loaded
<1>5. DeliveredOK'
  BY <1>1, <1>2 DEF IInv, DeliveredOK, WorkerOK, RecentAt, Past, Dated
<1>6. CountOK'
  BY <1>1, <1>3 DEF IInv, CountOK, Running, RefusedMeansUncommitted, dbVars
<1>7. TypeOK'
  BY <1>1, <1>2, <1>3 DEF IInv, TypeOK, dbVars
<1> QED BY <1>1, <1>2, <1>4, <1>5, <1>6, <1>7, MutationsStay DEF IInv, dbVars

LEMMA Always == Spec => []IInv
<1>1. IInv /\ [Next]_vars => IInv'
  BY ClocksKeep, PlanKeeps, SessionKeeps, AdvanceKeeps, ExitKeeps, CommitKeeps, AnswerKeeps DEF Next, WorkerStep
<1> QED BY <1>1, Initially, PTL DEF Spec

-----------------------------------------------------------------------------
(* Theorems.                                                                *)

\* A mutation rests on a proof of possession and an authorization that are younger,
\* in elapsed time, than their lives plus what the wall clock was stepped
\* (BoundedHarnessVerifier.verify_rehearsal_harness_evidence inside _mutate).
THEOREM EvidenceStaysRecent == Spec => []EvidenceIsRecent
<1>1. IInv => EvidenceIsRecent
  BY DEF IInv, EvidenceIsRecent, RecentAt
<1> QED BY <1>1, Always, PTL

\* A mutation commits while its decision is approved and is the plan's
\* (Gate0Composition._mutate holds what its admission had given back).
THEOREM MutationsStand == Spec => []MutationIsStanding
<1>1. IInv => MutationIsStanding
  BY DEF IInv
<1> QED BY <1>1, Always, PTL

\* An authorization is consumed with a proof made for it and after it
\* (AttesterProofProducer, AttestationContext).
THEOREM PossessionIsFresh == Spec => []FreshPossession
<1>1. IInv => FreshPossession
  BY DEF IInv
<1> QED BY <1>1, Always, PTL

\* A process that exits 0 or 3 has answered every mutation it committed
\* (IssuerWorker.run).
THEOREM ExitIsHonest == Spec => []RefusedMeansUncommitted
<1>1. IInv => RefusedMeansUncommitted
  BY DEF IInv, CountOK
<1> QED BY <1>1, Always, PTL

-----------------------------------------------------------------------------
(* The custody of the issuer process (Gate0Custody), which shares its two   *)
(* clocks and its lifetime with the ceremony.                               *)

CustodyShape ==
  /\ DOMAIN trust = Roles /\ \A r \in Roles : DOMAIN trust[r] = {"avail", "rec"}
  /\ DOMAIN lock = Roles /\ DOMAIN call = Callers
  /\ DOMAIN custody = {"at", "closed", "material", "uses", "deadline"}
  /\ \A c \in Callers : /\ call[c].role \in Roles
                        /\ call[c].op \in {"idle", "refresh", "read", "install", "close"}

\* Role r is closed for good: the gate is down and nobody is about to lift it.
Dead(r) == /\ custody.closed /\ ~trust[r].avail
           /\ \A c \in Callers : call[c].op = "install" => call[c].role # r

\* A thread between the gate and the record holds the role's refresh lock.
GateHeld == \A c \in Callers : call[c].op \in {"read", "install"} => lock[call[c].role] = c

\* Nobody calls before the bootstrap has returned.
UpOK == /\ custody.at # "up" => \A c \in Callers : call[c].op = "idle"
        /\ custody.material => custody.at = "up"

\* close() sets the flag first and has poisoned the issuer's state before it
\* turns to the attester's.
ClosersOK == \A c \in Callers : call[c].op = "close" =>
               custody.closed /\ (call[c].role = "attester" => Dead("issuer"))
GoneOK == custody.at = "up" /\ ~custody.material => \A r \in Roles : Dead(r)

CustodyInv == CustodyShape /\ GateHeld /\ UpOK /\ ClosersOK /\ GoneOK

LEMMA CustodyInitially == CustodyInit => CustodyInv
BY DEF CustodyInit, CustodyInv, CustodyShape, GateHeld, UpOK, ClosersOK, GoneOK, Roles

\* The clocks and the publisher touch none of the custody's own state, and before
\* it is up nobody calls.
LEMMA BootKeeps ==
  ASSUME CustodyInv, Environment \/ Bootstrap \/ UNCHANGED processVars
  PROVE  CustodyInv'
<1> USE DEF CustodyInv, CustodyShape, GateHeld, UpOK, ClosersOK, GoneOK, Dead
<1>1. CASE UNCHANGED <<trust, lock, custody, call>>
  BY <1>1
<1>2. CASE Environment \/ UNCHANGED processVars
  BY <1>1, <1>2 DEF Environment, CustodyTick, CustodyStepWall, Publish, custodyVars,
                    processVars
<1>3. ASSUME UNCHANGED <<lock, call, trust>>, custody.at # "up",
             DOMAIN custody' = DOMAIN custody, custody'.at # "up", custody'.material <=> custody.material
      PROVE  CustodyInv'
  BY <1>3
<1>4. CASE LookupWrap \/ Unwrap \/ Login
  BY <1>3, <1>4 DEF LookupWrap, Unwrap, Login
<1>5. CASE LookupSelf \/ ReadSeed \/ BootFails
  BY <1>3, <1>5 DEF LookupSelf, ReadSeed, BootFails, Boot
<1>6. ASSUME NEW r \in Roles, StartTrust(r) PROVE CustodyInv'
  BY <1>6 DEF StartTrust, Roles
<1> QED BY <1>2, <1>4, <1>5, <1>6 DEF Bootstrap, Roles

\* One call moves, and nobody else's.
Moves(c, op, r) == /\ DOMAIN call' = Callers /\ call'[c].op = op /\ call'[c].role = r
                   /\ \A d \in Callers : d # c => call'[d] = call[d]

LEMMA MovesCall ==
  ASSUME CustodyShape, NEW c \in Callers, NEW op, NEW r, NEW rec, Goto(c, op, r, rec)
  PROVE  Moves(c, op, r)
BY DEF Goto, Moves, CustodyShape

\* Once a role is closed for good, only its gate can be closed again.
LEMMA CallKeeps ==
  ASSUME CustodyInv, NEW c \in Callers, CallStep(c)
  PROVE  CustodyInv'
<1> USE DEF CustodyInv, CustodyShape
<1> DEFINE here == call[c].role
<1>0. NoOne \notin Callers
  BY CustodyAssumption
<1>1. here \in Roles /\ \A op, r, rec : Goto(c, op, r, rec) => Moves(c, op, r)
  BY MovesCall
<1>2. CASE CallRefresh(c)
  <2>1. /\ Moves(c, "refresh", "issuer") /\ UNCHANGED <<trust, lock, custody>>
        /\ custody.material /\ ~custody.closed
    BY <1>1, <1>2 DEF CallRefresh
  <2> QED BY <2>1 DEF Moves, GateHeld, UpOK, ClosersOK, GoneOK, Dead, Roles
<1>3. CASE CallClose(c)
  <2>1. /\ Moves(c, "close", "issuer") /\ UNCHANGED <<trust, lock>> /\ custody.at = "up" /\ ~custody.closed
        /\ DOMAIN custody' = DOMAIN custody /\ custody'.closed
        /\ custody'.at = custody.at /\ custody'.material = custody.material
    BY <1>1, <1>3 DEF CallClose
  <2>2. custody.material /\ \A d \in Callers : call[d].op # "close"
    BY <2>1 DEF GoneOK, Dead, ClosersOK, Roles
  <2> QED BY <2>1, <2>2 DEF Moves, GateHeld, UpOK, ClosersOK, GoneOK, Dead, Roles
<1>4. CASE CloseGate(c)
  <2>1. /\ Moves(c, "read", here) /\ UNCHANGED custody /\ lock[here] = NoOne /\ custody.at = "up"
        /\ DOMAIN lock' = Roles /\ lock'[here] = c /\ \A r \in Roles : r # here => lock'[r] = lock[r]
        /\ DOMAIN trust' = Roles /\ ~trust'[here].avail /\ DOMAIN trust'[here] = DOMAIN trust[here]
        /\ \A r \in Roles : r # here => trust'[r] = trust[r]
    BY <1>1, <1>4 DEF CloseGate, At, UpOK
  <2> QED BY <1>0, <1>1, <2>1 DEF Moves, GateHeld, UpOK, ClosersOK, GoneOK, Dead, Roles
<1>5. CASE ReadRecord(c)
  <2>1. /\ Moves(c, "install", here) /\ UNCHANGED <<trust, lock>> /\ ~custody.closed /\ call[c].op = "read"
        /\ DOMAIN custody' = DOMAIN custody /\ custody'.closed = custody.closed
        /\ custody'.at = custody.at /\ custody'.material = custody.material
    BY <1>1, <1>5 DEF ReadRecord, MayUseToken, MayRequest, At
  <2>2. custody.material /\ custody.at = "up" /\ \A d \in Callers : call[d].op # "close"
    BY <2>1 DEF GoneOK, Dead, ClosersOK, UpOK, Roles
  <2> QED BY <1>1, <2>1, <2>2 DEF Moves, GateHeld, UpOK, ClosersOK, GoneOK, Dead, Roles
<1>6. CASE InstallRecord(c)
  <2>1. /\ Moves(c, "refresh", "attester") \/ Moves(c, "idle", "issuer")
        /\ call[c].op = "install" /\ UNCHANGED custody
        /\ DOMAIN lock' = Roles /\ \A r \in Roles : r # here => lock'[r] = lock[r]
        /\ DOMAIN trust' = Roles /\ DOMAIN trust'[here] = {"avail", "rec"}
        /\ \A r \in Roles : r # here => trust'[r] = trust[r]
    BY <1>1, <1>6 DEF InstallRecord, At
  <2>2. ~Dead(here) /\ custody.at = "up" /\ lock[here] = c
    BY <2>1 DEF Dead, UpOK, GateHeld
  <2>3. \A r \in Roles : Dead(r) => Dead(r)'
    BY <2>1, <2>2 DEF Dead, Moves
  <2>4. GateHeld'
    BY <1>1, <2>1, <2>2 DEF GateHeld, Moves
  <2>5. ClosersOK' /\ GoneOK'
    BY <1>1, <2>1, <2>3 DEF ClosersOK, GoneOK, Moves, Roles
  <2> QED BY <1>1, <2>1, <2>2, <2>4, <2>5 DEF Moves, UpOK, Roles
<1>7. CASE RefreshFails(c)
  <2>1. /\ Moves(c, "close", "issuer") /\ UNCHANGED trust /\ call[c].op \in {"read", "install"}
        /\ DOMAIN lock' = Roles /\ \A r \in Roles : r # here => lock'[r] = lock[r]
        /\ DOMAIN custody' = DOMAIN custody /\ custody'.closed
        /\ custody'.at = custody.at /\ custody'.material = custody.material
    BY <1>1, <1>7 DEF RefreshFails, At
  <2>2. custody.at = "up" /\ lock[here] = c
    BY <2>1 DEF UpOK, GateHeld
  <2>3. \A r \in Roles : Dead(r) => Dead(r)'
    BY <2>1 DEF Dead, Moves
  <2>4. GateHeld'
    BY <1>1, <2>1, <2>2 DEF GateHeld, Moves
  <2>5. ClosersOK' /\ GoneOK'
    BY <1>1, <2>1, <2>3 DEF ClosersOK, GoneOK, Moves, Roles
  <2> QED BY <1>1, <2>1, <2>2, <2>4, <2>5 DEF Moves, UpOK, Roles
<1>8. CASE Poison(c)
  <2>1. /\ call[c].op = "close" /\ lock[here] = NoOne /\ UNCHANGED lock
        /\ here = "issuer" => Moves(c, "close", "attester") /\ UNCHANGED custody
        /\ here # "issuer" => /\ Moves(c, "idle", "issuer") /\ ~custody'.material
                              /\ custody'.at = custody.at /\ custody'.closed = custody.closed
        /\ DOMAIN custody' = DOMAIN custody /\ DOMAIN trust' = Roles
        /\ ~trust'[here].avail /\ DOMAIN trust'[here] = DOMAIN trust[here]
        /\ \A r \in Roles : r # here => trust'[r] = trust[r]
    BY <1>1, <1>8 DEF Poison, At
  <2>2. custody.at = "up" /\ custody.closed /\ custody'.closed /\ custody'.at = custody.at
        /\ \A d \in Callers : call[d].op = "install" => call[d].role # here
    BY <1>0, <1>1, <2>1 DEF UpOK, GateHeld, ClosersOK
  <2>3. \A r \in Roles : Dead(r) \/ r = here => Dead(r)'
    BY <1>1, <2>1, <2>2 DEF Dead, Moves
  <2>4. GateHeld'
    BY <1>1, <2>1 DEF GateHeld, Moves
  <2>5. ClosersOK' /\ GoneOK'
    BY <1>1, <2>1, <2>2, <2>3 DEF ClosersOK, GoneOK, Moves, Roles
  <2> QED BY <1>1, <2>1, <2>2, <2>4, <2>5 DEF Moves, UpOK, Roles
<1> QED BY <1>2, <1>3, <1>4, <1>5, <1>6, <1>7, <1>8 DEF CallStep, CallEnds

\* Once close() has returned, neither trust state is available again, although a
\* refresh() of another thread was under way (RoleCustody.close and refresh).
THEOREM ClosedForGood == CustodySpec => []ClosedMeansUnavailable
<1>1. CustodyInv /\ [CustodyNext]_processVars => CustodyInv'
  BY BootKeeps, CallKeeps DEF CustodyNext
<1>2. CustodyInv => ClosedMeansUnavailable
  BY DEF CustodyInv, GoneOK, Dead, ClosedMeansUnavailable, Roles
<1> QED BY <1>1, <1>2, CustodyInitially, PTL DEF CustodySpec

-----------------------------------------------------------------------------
(* The ledger the evidence of a campaign is admitted to (DeployAgent).      *)

\* A set of positions that is not empty has a last one.
LEMMA HasLast ==
  ASSUME NEW n \in Nat, NEW S \in SUBSET (1..n), S # {}
  PROVE  \E i \in S : \A j \in S : j <= i
<1> DEFINE T == {n - i : i \in S}
           R == {ss \in Nat \X Nat : ss[1] < ss[2]}
<1>1. T \subseteq Nat
  <2>1. \A i \in S : i \in Nat /\ i <= n
    OBVIOUS
  <2> QED BY <2>1
<1>2. T # {}
  BY Zenon
<1>3. IsWellFoundedOn(R, Nat)
  BY NatLessThanWellFounded, Zenon DEF OpToRel
<1>4. PICK x \in T : \A y \in T : ~(<<y, x>> \in R)
  <2> HIDE DEF R, T
  <2> QED BY <1>1, <1>2, <1>3, WFMin
<1>5. \A y \in T : x <= y
  <2>1. SUFFICES ASSUME NEW y \in T PROVE x <= y
    BY Zenon
  <2>2. x \in Nat /\ y \in Nat /\ <<y, x>> \notin R
    BY <1>1, <1>4, <2>1
  <2> QED BY <2>2
<1>6. PICK i \in S : x = n - i
  BY <1>4
<1>7. \A j \in S : n - i <= n - j
  BY <1>5, <1>6
<1> QED BY <1>7

\* Latest returns it, and 0 for the empty set.
LEMMA LatestIs ==
  ASSUME NEW n \in Nat, NEW S \in SUBSET (1..n)
  PROVE  /\ Latest(S) = 0 <=> S = {}
         /\ S # {} => Latest(S) \in S /\ \A j \in S : j <= Latest(S)
<1>1. CASE S = {}
  BY <1>1 DEF Latest
<1>2. CASE S # {}
  <2>1. \E i \in S : \A j \in S : j <= i
    BY <1>2, HasLast
  <2>2. Latest(S) \in S /\ \A j \in S : j <= Latest(S)
    BY <1>2, <2>1, Zenon DEF Latest
  <2>3. Latest(S) \in 1..n
    BY <2>2
  <2> QED BY <1>2, <2>2, <2>3
<1> QED BY <1>1, <1>2

\* The ledger is a sequence of commits.
IsLedger == \E S : ledger \in Seq(S)

\* A commit goes to the end and leaves the rest.
LEMMA Appended ==
  ASSUME IsLedger, NEW e, ledger' = Append(ledger, e)
  PROVE  /\ IsLedger' /\ Len(ledger) \in Nat /\ Len(ledger') = Len(ledger) + 1
         /\ ledger'[Len(ledger) + 1] = e
         /\ \A i \in 1..Len(ledger) : ledger'[i] = ledger[i]
<1>1. PICK S : ledger \in Seq(S)
  BY DEF IsLedger
<1>2. ledger \in Seq(S \cup {e})
  BY <1>1
<1>3. ledger' \in Seq(S \cup {e})
  BY <1>2, AppendProperties, e \in S \cup {e}
<1> QED BY <1>2, <1>3, AppendProperties, e \in S \cup {e} DEF IsLedger
\* The records of the host keys.
KeyEvents == [kind : {"key"}, key : Keys, pub : Pubs, state : {"pending", "active", "revoked"},
              chal : Nat, expires : Nat, received : Nat, base : RunningImages \cup {"none"}]

LedgerOK == /\ IsLedger
            /\ \A i \in 1..Tip : ledger[i].kind = "key" => ledger[i] \in KeyEvents

\* One command id is one desired state.
CommandOnce ==
  \A i, j \in Events("desired", Tip) : ledger[i].cmd = ledger[j].cmd => i = j

\* What the call that makes an event has checked of it after n commits.
KeyFits(e, n) ==
  LET p == KeyAt(e.key, n)
  IN IF p = 0
     THEN e.state = "pending" /\ \A j \in Events("key", n) : ledger[j].pub # e.pub
     ELSE /\ ledger[p].pub = e.pub
          /\ ledger[p].state = "pending" \/ e.state = "revoked"
          /\ e.state = "active" => e.chal = ledger[p].chal
AppliedFits(e, n) ==
  /\ Active(e.key, n) /\ e.nonce \in Events("desired", n)
  /\ Settled(e.nonce, n) = {} /\ e.says \in {"applied", "refused"}
GateFits(e, n) ==
  Authorized(e, e.scope) /\ VerifyProofs(e, e.scope, n) /\ VerifyPrior(e, e.scope, n)
Fits(e) ==
  /\ e.kind = "key" => e \in KeyEvents /\ KeyFits(e, Tip)
  /\ e.kind = "desired" => \A i \in Events("desired", Tip) : ledger[i].cmd # e.cmd
  /\ e.kind = "applied" => AppliedFits(e.env, Tip)
  /\ e.kind = "quarantine" => Active(e.env.key, Tip)
  /\ e.kind = "gate" => GateFits(e, Tip) /\ Evidence(e.run, Tip) = {}

\* The challenge had not expired when an activation was received.
InTime(e) == e.state = "active" => e.received < e.expires

\* A transaction before its commit, and after it.
Ahead == tx.pc \in {"stamp", "write", "commit"}
Behind == tx.pc \in {"push", "validate", "project", "answer"}
TxOK ==
  /\ Ahead \/ Behind => DOMAIN tx = {"pc", "event", "to", "at"}
  /\ Ahead => /\ tx.at = Tip + 1 /\ remote = Tip /\ Fits(tx.event)
              /\ tx.pc = "stamp" => tx.event.kind = "key"
              /\ tx.event.kind = "desired" => tx.to = tx.event.cmd
  /\ Behind => /\ tx.at \in 1..Tip
               /\ tx.pc # "push" => remote = Tip
               /\ ledger[tx.at].kind = "desired" => tx.to = ledger[tx.at].cmd

CountersOK ==
  /\ remote \in 0..Tip /\ db \in 0..remote /\ served.at \in 0..remote /\ clock \in Nat
  /\ served.at # 0 /\ ledger[served.at].kind = "desired" =>
       served.to \in {"host", ledger[served.at].cmd}

AgentInv == LedgerOK /\ CommandOnce /\ TxOK /\ CountersOK /\ OnlyLateActivationsRefused

\* A key id's last event and a cited report are events of their kind.
LEMMA ReadsAreEvents ==
  ASSUME NEW n \in Nat
  PROVE  /\ \A k : KeyAt(k, n) # 0 => /\ KeyAt(k, n) \in Events("key", n)
                                      /\ ledger[KeyAt(k, n)].key = k
         /\ \A rid : Stored(rid, n) # 0 => /\ Stored(rid, n) \in Events("applied", n)
                                           /\ ledger[Stored(rid, n)].env.rid = rid
         /\ \A rid, m : m \in 0..n /\ Stored(rid, m) # 0 => Stored(rid, n) # 0
         /\ \A g : Cited(g, n) # 0 => Cited(g, n) \in Events("applied", n)
<1>1. \A kind : Events(kind, n) \subseteq 1..n
  BY DEF Events
<1>2. ASSUME NEW k, KeyAt(k, n) # 0
      PROVE  KeyAt(k, n) \in Events("key", n) /\ ledger[KeyAt(k, n)].key = k
  <2> DEFINE S == {i \in Events("key", n) : ledger[i].key = k}
  <2>1. S \in SUBSET (1..n) /\ KeyAt(k, n) = Latest(S)
    BY <1>1 DEF KeyAt
  <2>2. Latest(S) \in S
    <3> HIDE DEF S
    <3> QED BY <1>2, <2>1, LatestIs
  <2> QED BY <2>1, <2>2
<1>3. ASSUME NEW rid
      PROVE  /\ Stored(rid, n) # 0 => /\ Stored(rid, n) \in Events("applied", n)
                                      /\ ledger[Stored(rid, n)].env.rid = rid
             /\ \A m \in 0..n : Stored(rid, m) # 0 => Stored(rid, n) # 0
  <2> DEFINE S(m) == {i \in Events("applied", m) : ledger[i].env.rid = rid}
  <2>1. \A m \in 0..n : m \in Nat /\ S(m) \in SUBSET (1..m) /\ S(m) \subseteq S(n)
    BY DEF Events
  <2>2. \A m : Stored(rid, m) = Latest(S(m))
    BY DEF Stored
  <2> HIDE DEF S
  <2>3. \A m \in 0..n : Latest(S(m)) = 0 <=> S(m) = {}
    BY <2>1, LatestIs
  <2>4. S(n) # {} => Latest(S(n)) \in S(n)
    <3>1. n \in Nat /\ S(n) \in SUBSET (1..n)
      BY <2>1
    <3> QED BY <3>1, LatestIs
  <2>5. Stored(rid, n) # 0 => Stored(rid, n) \in S(n)
    BY <2>2, <2>3, <2>4
  <2>6. \A m \in 0..n : Stored(rid, m) # 0 => Stored(rid, n) # 0
    BY <2>1, <2>2, <2>3
  <2> QED BY <2>5, <2>6 DEF S
<1> QED BY <1>2, <1>3 DEF Cited

\* What is read of the first n commits does not change when one is appended.
LEMMA PrefixKept ==
  ASSUME IsLedger, NEW e, ledger' = Append(ledger, e), NEW n \in 0..Len(ledger)
  PROVE  /\ \A kind : Events(kind, n)' = Events(kind, n)
         /\ \A k : KeyAt(k, n)' = KeyAt(k, n) /\ (Active(k, n)' <=> Active(k, n))
         /\ \A rid : Stored(rid, n)' = Stored(rid, n)
         /\ \A nonce : Settled(nonce, n)' = Settled(nonce, n)
         /\ \A run : Evidence(run, n)' = Evidence(run, n)
         /\ \A g : Cited(g, n)' = Cited(g, n)
<1>1. Len(ledger) \in Nat /\ \A i \in 1..n : i \in 1..Len(ledger) /\ ledger'[i] = ledger[i]
  BY Appended
<1>2. \A kind : Events(kind, n)' = Events(kind, n)
  BY <1>1 DEF Events
<1>3. \A kind : Events(kind, n) \subseteq 1..n
  BY DEF Events
<1>4. ASSUME NEW k
      PROVE  KeyAt(k, n)' = KeyAt(k, n) /\ (Active(k, n)' <=> Active(k, n))
  <2> DEFINE S == {i \in Events("key", n) : ledger[i].key = k}
  <2>1. S' = S
    BY <1>1, <1>2, <1>3
  <2>2. KeyAt(k, n)' = KeyAt(k, n)
    BY <2>1 DEF KeyAt
  <2>3. KeyAt(k, n) # 0 => KeyAt(k, n) \in 1..n
    BY <1>1, <1>3, ReadsAreEvents
  <2> QED BY <1>1, <2>2, <2>3 DEF Active
<1>5. ASSUME NEW rid PROVE Stored(rid, n)' = Stored(rid, n)
  <2> DEFINE S == {i \in Events("applied", n) : ledger[i].env.rid = rid}
  <2>1. S' = S
    BY <1>1, <1>2, <1>3
  <2> QED BY <2>1 DEF Stored
<1>6. \A nonce : Settled(nonce, n)' = Settled(nonce, n)
  BY <1>1, <1>2, <1>3 DEF Settled
<1>7. \A run : Evidence(run, n)' = Evidence(run, n)
  BY <1>1, <1>2, <1>3 DEF Evidence
<1>8. \A g : Cited(g, n)' = Cited(g, n)
  BY <1>5 DEF Cited
<1> QED BY <1>2, <1>4, <1>5, <1>6, <1>7, <1>8

\* Reports and evidence that were committed passed their own checks.
LEMMA Readable ==
  ASSUME OnlyLateActivationsRefused, NEW i \in 1..Tip
  PROVE  /\ ledger[i].kind = "applied" => AppliedAdmissible(i)
         /\ ledger[i].kind = "gate" => GateAdmissible(i)
         /\ ledger[i].kind = "key" /\ ~KeyAdmissible(i) =>
              ledger[i].state = "active" /\ ledger[i].received >= ledger[i].expires
         /\ ledger[i].kind = "quarantine" => QuarantineAdmissible(i)
BY DEF OnlyLateActivationsRefused, Admissible

\* Evidence that was admitted keeps verifying: nothing it cites is replaced, and
\* no second evidence of its prior run can be retained.
LEMMA EvidenceKept ==
  ASSUME IsLedger, OnlyLateActivationsRefused,
         NEW e, ledger' = Append(ledger, e), e.kind = "gate" => Evidence(e.run, Tip) = {},
         NEW g, NEW s, NEW n \in 0..Tip, VerifyProofs(g, s, n), VerifyPrior(g, s, n)
  PROVE  VerifyProofs(g, s, n)' /\ VerifyPrior(g, s, n)'
<1>0. PICK t \in Nat : t = Tip /\ t = Len(ledger) /\ Len(ledger') = t + 1 /\ n \in 0..t
  BY Appended DEF Tip
<1>1. ledger'[t + 1] = e /\ \A i \in 1..t : ledger'[i] = ledger[i]
  BY <1>0, Appended
<1>2. /\ \A kind : Events(kind, n) \subseteq 1..n
      /\ \A i \in 1..t : ledger[i].kind = "applied" => ledger[i].env.nonce \in 1..t
  <2>1. ASSUME NEW i \in 1..t, ledger[i].kind = "applied" PROVE ledger[i].env.nonce \in 1..t
    BY <1>0, <2>1, Readable DEF AppliedAdmissible, Events
  <2> QED BY <2>1 DEF Events
\* A report that is cited, and its desired state, read the same.
<1>3. ASSUME NEW h, Cited(h, n) # 0
      PROVE  /\ Cited(h, n)' = Cited(h, n) /\ Cited(h, n) \in 1..t
             /\ ledger'[Cited(h, n)] = ledger[Cited(h, n)]
             /\ ledger[Cited(h, n)].env.nonce \in 1..t
             /\ ledger'[ledger[Cited(h, n)].env.nonce] = ledger[ledger[Cited(h, n)].env.nonce]
  <2>1. Cited(h, n) \in Events("applied", n)
    BY <1>0, <1>3, ReadsAreEvents
  <2>2. Cited(h, n) \in 1..t /\ ledger[Cited(h, n)].kind = "applied"
    BY <1>0, <2>1 DEF Events
  <2> QED BY <1>0, <1>1, <1>2, <2>2, PrefixKept
<1>4. Active(s.host, n)' <=> Active(s.host, n)
  BY <1>0, PrefixKept
<1>5. g.rid # "none" => Cited(g, n) # 0
  BY DEF VerifyProofs, VerifyTransition, ReportReference
<1>6. VerifyProofs(g, s, n)'
  <2>1. CASE g.rid = "none"
    BY <1>4, <2>1 DEF VerifyProofs
  <2>2. CASE g.rid # "none"
    <3>1. ReportReference(g, s, n)'
      BY <1>3, <1>5, <2>2 DEF VerifyProofs, VerifyTransition, ReportReference
    <3>2. VerifyTransition(g, s, n)'
      BY <1>3, <1>5, <2>2, <3>1 DEF VerifyProofs, VerifyTransition, Succeeded
    <3> QED BY <1>4, <2>2, <3>2 DEF VerifyProofs
  <2> QED BY <2>1, <2>2
<1>7. CASE s.prior # "none"
  <2>1. PICK p \in Evidence(s.prior, Tip) :
          /\ Evidence(s.prior, Tip) = {p} /\ p <= n
          /\ ledger[p].verdict = "PASS" /\ ledger[p].scope.prior = "none"
          /\ ledger[p].scope.host = s.host
          /\ g.verdict = "PASS" =>
               LET old == ledger[Cited(ledger[p], n)].env.nonce
                   new == ledger[Cited(g, n)].env.nonce
               IN /\ new # old /\ ledger[new].image # ledger[old].image
                  /\ ledger[new].from = ledger[old].image
    BY <1>7 DEF VerifyPrior
  <2>2. p \in 1..t /\ ledger[p].kind = "gate" /\ ledger[p].run = s.prior /\ ledger'[p] = ledger[p]
    BY <1>0, <1>1, <2>1 DEF Evidence, Events
  <2>3. Evidence(s.prior, Tip)' = {p}
    <3>1. \A i \in 1..t : i \in Evidence(s.prior, Tip) <=>
                           ledger[i].kind = "gate" /\ ledger[i].run = s.prior
      BY <1>0 DEF Evidence, Events
    <3>2. e.kind = "gate" => e.run # s.prior
      BY <2>1
    <3>3. Evidence(s.prior, Tip)' =
            {i \in 1..(t + 1) : ledger'[i].kind = "gate" /\ ledger'[i].run = s.prior}
      BY <1>0 DEF Evidence, Events, Tip
    <3>4. \A i \in 1..(t + 1) : ledger'[i].kind = "gate" /\ ledger'[i].run = s.prior <=> i = p
      <4>1. ASSUME NEW i \in 1..t
            PROVE  ledger'[i].kind = "gate" /\ ledger'[i].run = s.prior <=> i = p
        BY <1>1, <2>1, <3>1, <4>1
      <4>2. ASSUME NEW i \in 1..(t + 1), i \notin 1..t
            PROVE  ~(ledger'[i].kind = "gate" /\ ledger'[i].run = s.prior) /\ i # p
        <5>1. i = t + 1
          BY <1>0, <4>2
        <5> QED BY <1>1, <2>2, <3>2, <4>2, <5>1
      <4> QED BY <4>1, <4>2
    <3>5. p \in 1..(t + 1)
      BY <1>0, <2>2
    <3> QED BY <3>3, <3>4, <3>5, Zenon
  <2>4. PICK h : h = ledger[p]
    OBVIOUS
  <2>5. Cited(h, n) # 0
    <3>1. VerifyProofs(h, h.scope, p - 1)
      BY <1>0, <2>2, <2>4, Readable DEF GateAdmissible
    <3>2. h.rid # "none" /\ Stored(h.rid, p - 1) # 0
      BY <2>1, <2>4, <3>1 DEF VerifyProofs, VerifyTransition, ReportReference, Cited
    <3>3. p - 1 \in 0..n /\ n \in Nat
      BY <1>0, <2>1, <2>2
    <3> QED BY <3>2, <3>3, ReadsAreEvents DEF Cited
  <2>6. g.verdict = "PASS" => Cited(g, n) # 0
    BY <1>5 DEF VerifyProofs
  <2>7. ASSUME g.verdict = "PASS"
        PROVE  LET old == ledger'[Cited(h, n)'].env.nonce
                   new == ledger'[Cited(g, n)'].env.nonce
               IN /\ new # old /\ ledger'[new].image # ledger'[old].image
                  /\ ledger'[new].from = ledger'[old].image
    <3>1. PICK o, w : o = ledger[Cited(h, n)].env.nonce /\ w = ledger[Cited(g, n)].env.nonce
      OBVIOUS
    <3>2. w # o /\ ledger[w].image # ledger[o].image /\ ledger[w].from = ledger[o].image
      BY <2>1, <2>4, <2>7, <3>1
    <3>3. ledger'[Cited(h, n)'].env.nonce = o /\ ledger'[o] = ledger[o]
      BY <1>3, <2>5, <3>1
    <3>4. ledger'[Cited(g, n)'].env.nonce = w /\ ledger'[w] = ledger[w]
      BY <1>3, <2>6, <2>7, <3>1
    <3> QED BY <3>2, <3>3, <3>4
  <2>8. /\ p \in Evidence(s.prior, Tip)' /\ Evidence(s.prior, Tip)' = {p} /\ p <= n
        /\ ledger'[p].verdict = "PASS" /\ ledger'[p].scope.prior = "none" /\ ledger'[p].scope.host = s.host
    BY <2>1, <2>2, <2>3
  <2>9. h = ledger'[p]
    BY <2>2, <2>4
  <2>10. PICK E, c, d : E = Evidence(s.prior, Tip)' /\ c = Cited(h, n)' /\ d = Cited(g, n)'
    OBVIOUS
  <2>11. Cited(ledger[p], n)' = c
    BY <2>9, <2>10 DEF Cited
  <2>12. VerifyPrior(g, s, n)'
    BY <2>7, <2>8, <2>10, <2>11 DEF VerifyPrior
  <2> QED BY <1>6, <2>12
<1>8. CASE s.prior = "none"
  BY <1>6, <1>8 DEF VerifyPrior
<1> QED BY <1>7, <1>8

\* validate_history judges a commit by what its call checked, and by its time.
LEMMA Judged ==
  ASSUME IsLedger, NEW i \in 1..Len(ledger), NEW f, f = ledger[i]
  PROVE  /\ f.kind = "key" => (Admissible(i) <=> KeyFits(f, i - 1) /\ InTime(f))
         /\ f.kind = "applied" => (Admissible(i) <=> AppliedFits(f.env, i - 1))
         /\ f.kind = "quarantine" => (Admissible(i) <=> Active(f.env.key, i - 1))
         /\ f.kind = "gate" => (Admissible(i) <=> GateFits(f, i - 1))
         /\ f.kind \notin {"key", "applied", "quarantine", "gate"} => Admissible(i)
<1>1. f.kind = "key" => (Admissible(i) <=> KeyFits(f, i - 1) /\ InTime(f))
  BY DEF Admissible, KeyAdmissible, KeyFits, InTime
<1>2. f.kind = "applied" => (Admissible(i) <=> AppliedFits(f.env, i - 1))
  BY DEF Admissible, AppliedAdmissible, AppliedFits
<1>3. f.kind = "quarantine" => (Admissible(i) <=> Active(f.env.key, i - 1))
  BY DEF Admissible, QuarantineAdmissible
<1>4. f.kind = "gate" => (Admissible(i) <=> GateFits(f, i - 1))
  BY DEF Admissible, GateAdmissible, GateFits
<1>5. f.kind \notin {"key", "applied", "quarantine", "gate"} => Admissible(i)
  BY DEF Admissible
<1> QED BY <1>1, <1>2, <1>3, <1>4, <1>5

\* The same after a commit, in terms of what was read before it.
LEMMA JudgedNext ==
  ASSUME IsLedger, NEW e, ledger' = Append(ledger, e),
         NEW i \in 1..(Len(ledger) + 1), NEW f, f = ledger'[i]
  PROVE  /\ f.kind = "key" => (Admissible(i)' <=> KeyFits(f, i - 1) /\ InTime(f))
         /\ f.kind = "applied" => (Admissible(i)' <=> AppliedFits(f.env, i - 1))
         /\ f.kind = "quarantine" => (Admissible(i)' <=> Active(f.env.key, i - 1))
         /\ f.kind = "gate" => (Admissible(i)' <=> GateFits(f, i - 1)')
         /\ f.kind \notin {"key", "applied", "quarantine", "gate"} => Admissible(i)'
<1>0. Len(ledger) \in Nat /\ IsLedger' /\ Len(ledger') = Len(ledger) + 1 /\ i - 1 \in 0..Len(ledger) /\ i - 1 \in Nat
  BY Appended
<1>1. \A j \in 1..(i - 1) : ledger'[j] = ledger[j]
  BY <1>0, Appended
<1>2. /\ f.kind = "key" => (Admissible(i)' <=> KeyFits(f, i - 1)' /\ InTime(f))
      /\ f.kind = "applied" => (Admissible(i)' <=> AppliedFits(f.env, i - 1)')
      /\ f.kind = "quarantine" => (Admissible(i)' <=> Active(f.env.key, i - 1)')
      /\ f.kind = "gate" => (Admissible(i)' <=> GateFits(f, i - 1)')
      /\ f.kind \notin {"key", "applied", "quarantine", "gate"} => Admissible(i)'
  <2>1. f.kind = "key" => (Admissible(i)' <=> KeyFits(f, i - 1)' /\ InTime(f))
    BY DEF Admissible, KeyAdmissible, KeyFits, InTime, KeyAt
  <2>2. f.kind = "applied" => (Admissible(i)' <=> AppliedFits(f.env, i - 1)')
    BY DEF Admissible, AppliedAdmissible, AppliedFits, Active, KeyAt, Settled
  <2>3. f.kind = "quarantine" => (Admissible(i)' <=> Active(f.env.key, i - 1)')
    BY DEF Admissible, QuarantineAdmissible, Active, KeyAt
  <2>4. f.kind = "gate" => (Admissible(i)' <=> GateFits(f, i - 1)')
    BY DEF Admissible, GateAdmissible, GateFits
  <2>5. f.kind \notin {"key", "applied", "quarantine", "gate"} => Admissible(i)'
    BY DEF Admissible
  <2> QED BY <2>1, <2>2, <2>3, <2>4, <2>5
<1>3. KeyFits(f, i - 1)' <=> KeyFits(f, i - 1)
  <2>1. KeyAt(f.key, i - 1)' = KeyAt(f.key, i - 1)
    BY <1>0, PrefixKept
  <2>2. KeyAt(f.key, i - 1) # 0 => KeyAt(f.key, i - 1) \in 1..(i - 1)
    BY <1>0, ReadsAreEvents DEF Events
  <2>3. Events("key", i - 1)' = Events("key", i - 1) /\ Events("key", i - 1) \subseteq 1..(i - 1)
    BY <1>0, PrefixKept DEF Events
  <2> QED BY <1>1, <2>1, <2>2, <2>3 DEF KeyFits
<1>4. AppliedFits(f.env, i - 1)' <=> AppliedFits(f.env, i - 1)
  BY <1>0, PrefixKept DEF AppliedFits
<1>5. Active(f.env.key, i - 1)' <=> Active(f.env.key, i - 1)
  BY <1>0, PrefixKept
<1> QED BY <1>2, <1>3, <1>4, <1>5

\* A commit that its call checked is admissible where it lands, and what was
\* admissible before it still is.
LEMMA HistoryGrows ==
  ASSUME LedgerOK, CommandOnce, OnlyLateActivationsRefused,
         NEW e, ledger' = Append(ledger, e), Fits(e)
  PROVE  LedgerOK' /\ CommandOnce' /\ OnlyLateActivationsRefused'
<1>0. PICK t \in Nat : t = Tip /\ t = Len(ledger) /\ Tip' = t + 1 /\ IsLedger /\ IsLedger'
  BY Appended DEF Tip, LedgerOK
<1>1. ledger'[t + 1] = e /\ \A i \in 1..t : ledger'[i] = ledger[i]
  BY <1>0, Appended
<1>2. \A i \in 1..(t + 1) : i \in 1..t \/ i = t + 1
  BY <1>0
<1>3. LedgerOK'
  <2>1. \A i \in 1..(t + 1) : ledger'[i].kind = "key" => ledger'[i] \in KeyEvents
    BY <1>0, <1>1, <1>2 DEF LedgerOK, Fits
  <2> QED BY <1>0, <2>1 DEF LedgerOK
<1>4. CommandOnce'
  <2>1. SUFFICES ASSUME NEW i \in 1..(t + 1), NEW j \in 1..(t + 1), ledger'[i].kind = "desired",
                        ledger'[j].kind = "desired", ledger'[i].cmd = ledger'[j].cmd
                 PROVE  i = j
    BY <1>0 DEF CommandOnce, Events
  <2>2. \A x \in 1..t : ledger[x].kind = "desired" => x \in Events("desired", Tip)
    BY <1>0 DEF Events
  <2>3. e.kind = "desired" => \A x \in 1..t : ledger[x].kind = "desired" => ledger[x].cmd # e.cmd
    BY <2>2 DEF Fits
  <2>4. \A x, y \in 1..t :
          ledger[x].kind = "desired" /\ ledger[y].kind = "desired" /\ ledger[x].cmd = ledger[y].cmd => x = y
    BY <2>2 DEF CommandOnce
  <2> QED BY <1>1, <1>2, <2>1, <2>3, <2>4
<1>5. ASSUME NEW i \in 1..(t + 1)
      PROVE  \/ Admissible(i)'
             \/ ledger'[i].kind = "key" /\ ledger'[i].state = "active" /\ ledger'[i].received >= ledger'[i].expires
  <2>1. PICK f : f = ledger'[i]
    OBVIOUS
  <2>2. /\ i \in 1..(Len(ledger) + 1) /\ i - 1 \in 0..Tip
        /\ e.kind = "gate" => Evidence(e.run, Tip) = {}
    BY <1>0, <1>5 DEF Fits
  <2>3. f.kind = "gate" /\ GateFits(f, i - 1) => GateFits(f, i - 1)'
    BY <1>0, <2>2, EvidenceKept DEF GateFits, Authorized
  <2>4. f.kind = "key" => f \in KeyEvents /\ (InTime(f) \/ (f.state = "active" /\ f.received >= f.expires))
    BY <1>0, <1>3, <1>5, <2>1 DEF LedgerOK, KeyEvents, InTime
  <2>5. CASE i \in 1..t
    <3>1. f = ledger[i] /\ i \in 1..Len(ledger) /\ i \in 1..Tip
      BY <1>0, <1>1, <2>1, <2>5
    <3>2. Admissible(i) \/ (f.kind = "key" /\ f.state = "active" /\ f.received >= f.expires)
      BY <3>1 DEF OnlyLateActivationsRefused
    <3>3. CASE Admissible(i)
      BY <1>0, <2>1, <2>2, <2>3, <3>1, <3>3, Judged, JudgedNext
    <3> QED BY <2>1, <3>2, <3>3
  <2>6. CASE i = t + 1
    <3>1. f = e /\ i - 1 = t
      BY <1>0, <1>1, <2>1, <2>6
    <3>2. /\ f.kind = "key" => KeyFits(f, i - 1)
          /\ f.kind = "applied" => AppliedFits(f.env, i - 1)
          /\ f.kind = "quarantine" => Active(f.env.key, i - 1)
          /\ f.kind = "gate" => GateFits(f, i - 1)
      BY <1>0, <3>1 DEF Fits
    <3> QED BY <1>0, <2>1, <2>2, <2>3, <2>4, <3>2, JudgedNext
  <2> QED BY <1>2, <2>5, <2>6
<1>6. OnlyLateActivationsRefused'
  BY <1>0, <1>5 DEF OnlyLateActivationsRefused
<1> QED BY <1>3, <1>4, <1>6

\* Only a commit changes the history.
LEMMA LedgerStill ==
  ASSUME ledger' = ledger
  PROVE  /\ LedgerOK' <=> LedgerOK
         /\ CommandOnce' <=> CommandOnce
         /\ OnlyLateActivationsRefused' <=> OnlyLateActivationsRefused
         /\ \A e : Fits(e)' <=> Fits(e)
<1>1. LedgerOK' <=> LedgerOK
  BY DEF LedgerOK, IsLedger, Tip
<1>2. CommandOnce' <=> CommandOnce
  BY DEF CommandOnce, Events, Tip
<1>3. /\ \A e, n : KeyFits(e, n)' <=> KeyFits(e, n)
      /\ \A e, n : AppliedFits(e, n)' <=> AppliedFits(e, n)
      /\ \A k, n : Active(k, n)' <=> Active(k, n)
  BY DEF KeyFits, AppliedFits, KeyAt, Active, Events, Settled
<1>4. \A e, n : GateFits(e, n)' <=> GateFits(e, n)
  <2>1. \A g, n : Cited(g, n)' = Cited(g, n)
    BY DEF Cited, Stored, Events
  <2>2. \A g, s, n : VerifyProofs(g, s, n)' <=> VerifyProofs(g, s, n)
    BY <1>3, <2>1 DEF VerifyProofs, VerifyTransition, ReportReference, Succeeded
  <2>3. \A g, s, n : VerifyPrior(g, s, n)' <=> VerifyPrior(g, s, n)
    BY <2>1 DEF VerifyPrior, Evidence, Events, Tip, Cited, Stored
  <2> QED BY <2>2, <2>3 DEF GateFits, Authorized
<1>5. ASSUME NEW i PROVE Admissible(i)' <=> Admissible(i)
  <2>1. GateAdmissible(i)' <=> GateAdmissible(i)
    <3>1. PICK g : g = ledger[i] /\ g = ledger'[i]
      OBVIOUS
    <3>2. GateAdmissible(i) <=> GateFits(g, i - 1)
      BY <3>1 DEF GateAdmissible, GateFits
    <3>3. GateAdmissible(i)' <=> GateFits(g, i - 1)'
      BY <3>1 DEF GateAdmissible, GateFits
    <3> QED BY <1>4, <3>2, <3>3
  <2> QED
    BY <2>1 DEF Admissible, KeyAdmissible, AppliedAdmissible, QuarantineAdmissible,
       KeyAt, Active, Settled, Events
<1>6. OnlyLateActivationsRefused' <=> OnlyLateActivationsRefused
  BY <1>5 DEF OnlyLateActivationsRefused, Tip
<1>7. ASSUME NEW e PROVE Fits(e)' <=> Fits(e)
  <2>1. PICK n : n = Tip /\ n = Tip'
    BY DEF Tip
  <2> QED BY <1>3, <1>4, <2>1 DEF Fits, Events, Evidence
<1> QED BY <1>1, <1>2, <1>6, <1>7

\* A call that begins records an event it has checked.
LEMMA RecordStep ==
  ASSUME AgentInv, Open, UNCHANGED still,
         NEW e, NEW to, Record(e, to), Fits(e), e.kind = "desired" => to = e.cmd
  PROVE  AgentInv'
<1>1. /\ ledger' = ledger /\ Tip' = Tip /\ remote' = remote /\ db' = db /\ clock' = clock
      /\ served' = Nobody /\ remote = Tip
      /\ tx' = [pc |-> "write", event |-> e, to |-> to, at |-> Tip + 1]
  BY DEF Record, Open, still, Tip
<1>2. Fits(e)'
  BY <1>1, LedgerStill
<1>3. TxOK'
  BY <1>1, <1>2 DEF TxOK, Ahead, Behind
<1>4. CountersOK'
  BY <1>1 DEF CountersOK, AgentInv, Nobody
<1> QED BY <1>1, <1>3, <1>4, LedgerStill DEF AgentInv

\* A call that finds its commit answers with it.
LEMMA ReplayStep ==
  ASSUME AgentInv, Open, UNCHANGED still,
         NEW step \in {"validate", "project"}, NEW i \in 1..Tip, NEW to, Replay(step, i, to),
         ledger[i].kind = "desired" => to = ledger[i].cmd
  PROVE  AgentInv'
<1>1. /\ ledger' = ledger /\ Tip' = Tip /\ remote' = remote /\ db' = db /\ clock' = clock
      /\ served' = Nobody /\ remote = Tip
      /\ tx' = [pc |-> step, event |-> NoEvent, to |-> to, at |-> i]
  BY DEF Replay, Open, still, Tip
<1>2. TxOK'
  BY <1>1 DEF TxOK, Ahead, Behind
<1>3. CountersOK'
  BY <1>1 DEF CountersOK, AgentInv, Nobody
<1> QED BY <1>1, <1>2, <1>3, LedgerStill DEF AgentInv

\* The steps of a transaction under way.
LEMMA ContinueStep ==
  ASSUME AgentInv, Continue
  PROVE  AgentInv'
<1>0. LedgerOK /\ CommandOnce /\ TxOK /\ CountersOK /\ OnlyLateActivationsRefused /\ Tip \in Nat
  BY DEF AgentInv, LedgerOK, IsLedger, Tip
<1>1. CASE CommitFiles
  <2>1. PICK e, t : e = tx.event /\ t = Tip
    OBVIOUS
  <2>2. /\ ledger' = Append(ledger, e) /\ Fits(e) /\ remote' = remote /\ db' = db /\ clock' = clock
        /\ served' = served /\ tx' = [tx EXCEPT !.pc = "push"] /\ remote = t /\ tx.at = t + 1
        /\ DOMAIN tx = {"pc", "event", "to", "at"} /\ (e.kind = "desired" => tx.to = e.cmd)
    BY <1>0, <1>1, <2>1 DEF CommitFiles, still, TxOK, Ahead
  <2>3. Tip' = t + 1 /\ ledger'[t + 1] = e /\ t \in Nat /\ \A i \in 1..t : ledger'[i] = ledger[i]
    BY <1>0, <2>1, <2>2, Appended DEF Tip, LedgerOK
  <2>4. tx'.pc = "push" /\ tx'.at = t + 1 /\ tx'.to = tx.to /\ DOMAIN tx' = {"pc", "event", "to", "at"}
    BY <2>2
  <2>5. TxOK'
    <3>1. ~Ahead' /\ Behind' /\ t + 1 \in 1..(t + 1)
      BY <2>3, <2>4 DEF Ahead, Behind
    <3>2. ledger'[tx'.at].kind = "desired" => tx'.to = ledger'[tx'.at].cmd
      BY <2>2, <2>3, <2>4
    <3> QED BY <2>3, <2>4, <3>1, <3>2 DEF TxOK
  <2>6. CountersOK'
    <3>1. served.at # 0 => served.at \in 1..t
      BY <1>0, <2>2, <2>3 DEF CountersOK
    <3>2. remote \in 0..(t + 1)
      BY <2>2, <2>3
    <3> QED BY <1>0, <2>2, <2>3, <3>1, <3>2 DEF CountersOK
  <2> QED BY <1>0, <2>2, <2>5, <2>6, HistoryGrows DEF AgentInv
<1>2. CASE ~CommitFiles
  <2>1. ledger' = ledger /\ Tip' = Tip /\ clock' = clock
    BY <1>2 DEF Continue, Stamp, WriteFiles, Push, PushFails, Validate,
       Project, Reply, still, Tip
  <2>2. CASE Stamp
    <3>1. PICK e : e = tx.event
      OBVIOUS
    <3>2. PICK f : f = [e EXCEPT !.received = clock]
      OBVIOUS
    <3>3. /\ tx.pc = "stamp" /\ e \in KeyEvents /\ KeyFits(e, Tip) /\ e.kind = "key"
          /\ DOMAIN tx = {"pc", "event", "to", "at"} /\ tx.at = Tip + 1 /\ remote = Tip
          /\ tx' = [tx EXCEPT !.pc = "write", !.event.received = clock] /\ remote' = remote
          /\ served' = served /\ db' = db
      BY <1>0, <2>2, <3>1 DEF Stamp, TxOK, Ahead, Fits
    <3>4. /\ f \in KeyEvents /\ f.kind = "key" /\ f.key = e.key /\ f.pub = e.pub /\ f.state = e.state
          /\ f.chal = e.chal
      BY <1>0, <3>2, <3>3 DEF KeyEvents, CountersOK
    <3>5. Fits(f)
      BY <3>3, <3>4 DEF Fits, KeyFits
    <3>6. tx'.pc = "write" /\ tx'.event = f /\ tx'.at = tx.at /\ DOMAIN tx' = {"pc", "event", "to", "at"}
      BY <3>1, <3>2, <3>3
    <3>7. Fits(f)'
      BY <2>1, <3>5, LedgerStill
    <3>8. TxOK'
      BY <2>1, <3>3, <3>4, <3>6, <3>7 DEF TxOK, Ahead, Behind
    <3>9. CountersOK'
      BY <1>0, <2>1, <3>3 DEF CountersOK
    <3> QED BY <1>0, <2>1, <3>8, <3>9, LedgerStill DEF AgentInv
  <2>3. CASE WriteFiles
    <3>1. PICK e : e = tx.event
      OBVIOUS
    <3>2. /\ tx.pc = "write" /\ tx' = [tx EXCEPT !.pc = "commit"] /\ UNCHANGED <<remote, db, served>>
          /\ DOMAIN tx = {"pc", "event", "to", "at"} /\ Fits(e)
      BY <1>0, <2>3, <3>1 DEF WriteFiles, TxOK, Ahead
    <3>3. tx'.pc = "commit" /\ tx'.event = e /\ tx'.at = tx.at /\ tx'.to = tx.to /\ DOMAIN tx' = DOMAIN tx
      BY <3>1, <3>2
    <3>4. Fits(e)'
      BY <2>1, <3>2, LedgerStill
    <3>5. TxOK'
      BY <1>0, <2>1, <3>1, <3>2, <3>3, <3>4 DEF TxOK, Ahead, Behind
    <3>6. CountersOK'
      BY <1>0, <2>1, <3>2 DEF CountersOK
    <3> QED BY <1>0, <2>1, <3>5, <3>6, LedgerStill DEF AgentInv
  <2>4. CASE Push \/ Validate \/ Project
    <3>1. /\ Behind /\ (tx.pc # "push" => remote = Tip) /\ remote' = Tip /\ served' = served
          /\ db' \in {db, Tip}
          /\ tx' = NoTx \/ \E pc \in {"validate", "project", "answer"} : tx' = [tx EXCEPT !.pc = pc]
      BY <1>0, <2>4 DEF Push, Validate, Project, TxOK, Behind
    <3>2. TxOK'
      <4>1. CASE tx' = NoTx
        BY <4>1 DEF NoTx, TxOK, Ahead, Behind
      <4>2. ASSUME NEW pc \in {"validate", "project", "answer"}, tx' = [tx EXCEPT !.pc = pc] PROVE TxOK'
        <5>1. DOMAIN tx = {"pc", "event", "to", "at"}
          BY <1>0, <3>1 DEF TxOK
        <5>2. tx'.pc = pc /\ tx'.at = tx.at /\ tx'.to = tx.to /\ DOMAIN tx' = DOMAIN tx
          BY <4>2, <5>1
        <5> QED BY <1>0, <2>1, <3>1, <5>1, <5>2 DEF TxOK, Ahead, Behind
      <4> QED BY <3>1, <4>1, <4>2
    <3>3. CountersOK'
      BY <1>0, <2>1, <3>1 DEF CountersOK
    <3> QED BY <1>0, <2>1, <3>2, <3>3, LedgerStill DEF AgentInv
  <2>5. CASE PushFails \/ Reply
    <3>1. TxOK'
      BY <2>5 DEF PushFails, Reply, NoTx, TxOK, Ahead, Behind
    <3>2. CountersOK'
      BY <1>0, <2>1, <2>5 DEF PushFails, Reply, CountersOK, TxOK, Behind
    <3> QED BY <1>0, <2>1, <3>1, <3>2, LedgerStill DEF AgentInv
  <2> QED BY <1>2, <2>2, <2>3, <2>4, <2>5 DEF Continue
<1> QED BY <1>1, <1>2

\* The calls that change a host key.
LEMMA KeyStep ==
  ASSUME AgentInv, NEW k \in Keys,
         \/ \E p \in Pubs : RegisterKey(k, p)
         \/ Revoke(k) \/ Challenge(k)
         \/ \E image \in RunningImages : Activate(k, image)
  PROVE  AgentInv'
<1>0. Tip \in Nat /\ LedgerOK /\ CountersOK
  BY DEF AgentInv, LedgerOK, IsLedger, Tip
<1>1. ASSUME NEW p \in Pubs, RegisterKey(k, p) PROVE AgentInv'
  <2>1. PICK e : e = [kind |-> "key", key |-> k, pub |-> p, state |-> "pending", chal |-> 0,
                      expires |-> 0, received |-> 0, base |-> "none"]
    OBVIOUS
  <2>2. Open /\ UNCHANGED still /\ Record(e, k)
    BY <1>1, <2>1 DEF RegisterKey
  <2>3. Fits(e)
    BY <1>1, <2>1 DEF RegisterKey, Fits, KeyFits, KeyEvents
  <2> QED BY <2>1, <2>2, <2>3, RecordStep
<1>2. ASSUME ~\E p \in Pubs : RegisterKey(k, p) PROVE AgentInv'
  <2>1. PICK q : q = KeyAt(k, Tip)
    OBVIOUS
  <2>2. PICK o : o = ledger[q]
    OBVIOUS
  <2>3. Open /\ q # 0 /\ UNCHANGED still
    BY <1>2, <2>1 DEF Revoke, Challenge, Activate
  <2>4. o \in KeyEvents /\ o.key = k /\ q \in 1..Tip
    BY <1>0, <2>1, <2>2, <2>3, ReadsAreEvents DEF LedgerOK, Events
  <2>5. ASSUME NEW e \in KeyEvents, e.key = k, e.pub = o.pub, e.state = "revoked" \/ o.state = "pending",
               e.state = "active" => e.chal = o.chal
        PROVE  Fits(e) /\ e.kind = "key"
    BY <2>1, <2>2, <2>3, <2>5 DEF Fits, KeyFits, KeyEvents
  <2>6. CASE Revoke(k)
    <3>1. PICK e : e = [o EXCEPT !.state = "revoked"]
      OBVIOUS
    <3>2. e \in KeyEvents /\ e.key = k /\ e.pub = o.pub /\ e.state = "revoked"
      BY <2>4, <3>1 DEF KeyEvents
    <3>3. Record(e, k)
      BY <2>1, <2>2, <2>6, <3>1 DEF Revoke
    <3> QED BY <2>3, <2>5, <3>2, <3>3, RecordStep
  <2>7. CASE Challenge(k)
    <3>1. PICK e : e = [o EXCEPT !.chal = Tip + 1, !.expires = clock + ChalLife]
      OBVIOUS
    <3>2. o.state = "pending" /\ Record(e, k)
      BY <2>1, <2>2, <2>7, <3>1 DEF Challenge
    <3>3. e \in KeyEvents /\ e.key = k /\ e.pub = o.pub /\ e.state = "pending"
      <4>1. Tip + 1 \in Nat /\ clock + ChalLife \in Nat
        BY <1>0, AgentAssumption DEF CountersOK
      <4> QED BY <2>4, <3>1, <3>2, <4>1 DEF KeyEvents
    <3> QED BY <2>3, <2>5, <3>2, <3>3, RecordStep
  <2>8. ASSUME NEW image \in RunningImages, Activate(k, image) PROVE AgentInv'
    <3>1. PICK e : e = [o EXCEPT !.state = "active", !.base = image]
      OBVIOUS
    <3>2. /\ o.state = "pending" /\ ledger' = ledger /\ Tip' = Tip /\ UNCHANGED <<remote, db, clock>>
          /\ served' = Nobody /\ remote = Tip
          /\ tx' = [pc |-> "stamp", to |-> k, at |-> Tip + 1, event |-> e]
      BY <2>1, <2>2, <2>3, <2>8, <3>1 DEF Activate, still, Tip, Open
    <3>3. e \in KeyEvents /\ e.key = k /\ e.pub = o.pub /\ e.chal = o.chal
      BY <2>4, <3>1 DEF KeyEvents
    <3>4. Fits(e) /\ e.kind = "key" /\ Fits(e)'
      BY <2>5, <3>2, <3>3, LedgerStill
    <3>5. TxOK'
      BY <3>2, <3>4 DEF TxOK, Ahead, Behind
    <3>6. CountersOK'
      BY <1>0, <3>2 DEF CountersOK, Nobody
    <3> QED BY <3>2, <3>5, <3>6, LedgerStill DEF AgentInv
  <2> QED BY <1>2, <2>6, <2>7, <2>8
<1> QED BY <1>1, <1>2

\* issue: a command id is new, or its envelope is found.
LEMMA IssueStep ==
  ASSUME AgentInv, NEW cmd \in Commands, NEW actor, NEW image, Issue(cmd, actor, image)
  PROVE  AgentInv'
<1> DEFINE S == {i \in Events("desired", Tip) : ledger[i].cmd = cmd}
<1>0. Tip \in Nat /\ Open /\ UNCHANGED still
  BY DEF AgentInv, LedgerOK, IsLedger, Tip, Issue
<1>1. S \in SUBSET (1..Tip) /\ CommandAt(cmd) = Latest(S)
  BY DEF Events, CommandAt
<1>2. /\ CommandAt(cmd) = 0 <=> S = {}
      /\ S # {} => CommandAt(cmd) \in S
  <2> HIDE DEF S
  <2> QED BY <1>0, <1>1, LatestIs
<1>3. CASE CommandAt(cmd) # 0 /\ Replay("project", CommandAt(cmd), cmd)
  <2>1. PICK i : i = CommandAt(cmd)
    OBVIOUS
  <2>2. i \in 1..Tip /\ ledger[i].cmd = cmd
    BY <1>1, <1>2, <1>3, <2>1
  <2> QED BY <1>0, <1>3, <2>1, <2>2, ReplayStep
<1>4. CASE /\ CommandAt(cmd) = 0
           /\ Record([kind |-> "desired", cmd |-> cmd, actor |-> actor, image |-> image,
                            from |-> Baseline, issued |-> clock], cmd)
  <2>1. PICK e : e = [kind |-> "desired", cmd |-> cmd, actor |-> actor, image |-> image,
                      from |-> Baseline, issued |-> clock]
    OBVIOUS
  <2>2. Record(e, cmd) /\ e.kind = "desired" /\ e.cmd = cmd
    BY <1>4, <2>1
  <2>3. Fits(e)
    BY <1>2, <1>4, <2>2 DEF Fits
  <2> QED BY <1>0, <2>2, <2>3, RecordStep
<1> QED BY <1>3, <1>4 DEF Issue

\* ingest: accepted, replayed or quarantined.
LEMMA IngestStep ==
  ASSUME AgentInv,
         NEW e \in Envelopes, Ingest(e)
  PROVE  AgentInv'
<1> DEFINE S == {i \in Events("quarantine", Tip) : ledger[i].env = e}
           code == Verdict(e)
<1>0. /\ Tip \in Nat /\ Open /\ UNCHANGED still /\ Active(e.key, Tip)
      /\ e.says \in {"applied", "refused", "dishonest", "foreign", "mismatch"}
  <2>1. Tip \in Nat
    BY DEF AgentInv, LedgerOK, IsLedger, Tip
  <2>2. e.says \in Says
    BY DEF Envelopes
  <2> QED BY <2>1, <2>2, AgentAssumption DEF Ingest
<1>1. S \in SUBSET (1..Tip) /\ QuarantinedAt(e) = Latest(S)
  BY DEF Events, QuarantinedAt
<1>2. QuarantinedAt(e) # 0 => QuarantinedAt(e) \in S
  <2> HIDE DEF S
  <2> QED BY <1>0, <1>1, LatestIs
<1>3. CASE code = "accepted" /\ Record([kind |-> "applied", env |-> e], e.rid)
  <2>1. PICK f : f = [kind |-> "applied", env |-> e]
    OBVIOUS
  <2>2. f.kind = "applied" /\ f.env = e /\ Record(f, e.rid)
    BY <1>3, <2>1
  <2>3. AppliedFits(e, Tip)
    BY <1>0, <1>3 DEF AppliedFits, Verdict
  <2>4. Fits(f)
    BY <2>2, <2>3 DEF Fits
  <2> QED BY <1>0, <2>2, <2>4, RecordStep
<1>4. CASE code = "idempotent_replay" /\ Replay("project", Stored(e.rid, Tip), e.rid)
  <2>1. PICK i : i = Stored(e.rid, Tip)
    OBVIOUS
  <2>2. i # 0
    BY <1>4, <2>1 DEF Verdict
  <2>3. i \in 1..Tip /\ ledger[i].kind = "applied"
    BY <1>0, <2>1, <2>2, ReadsAreEvents DEF Events
  <2> QED BY <1>0, <1>4, <2>1, <2>3, ReplayStep
<1>5. CASE Record([kind |-> "quarantine", env |-> e, code |-> code], "quarantined")
  <2>1. PICK f : f = [kind |-> "quarantine", env |-> e, code |-> code]
    OBVIOUS
  <2>2. f.kind = "quarantine" /\ f.env = e /\ Record(f, "quarantined")
    BY <1>5, <2>1
  <2>3. Fits(f)
    BY <1>0, <2>2 DEF Fits
  <2> QED BY <1>0, <2>2, <2>3, RecordStep
<1>6. CASE QuarantinedAt(e) # 0 /\ Replay("validate", QuarantinedAt(e), "quarantined")
  <2>1. PICK i : i = QuarantinedAt(e)
    OBVIOUS
  <2>2. i \in 1..Tip /\ ledger[i].kind = "quarantine"
    BY <1>1, <1>2, <1>6, <2>1 DEF Events
  <2> QED BY <1>0, <1>6, <2>1, <2>2, ReplayStep
<1> QED BY <1>3, <1>4, <1>5, <1>6 DEF Ingest

\* admit: the evidence is new and verified, or found.
LEMMA AdmitStep ==
  ASSUME AgentInv, NEW cmd, NEW actor, NEW rid, NEW verdict, NEW claims,
         AdmitEvidence(cmd, actor, rid, verdict, claims)
  PROVE  AgentInv'
<1> DEFINE S == {i \in Events("gate", Tip) : ledger[i].cmd = cmd}
<1>0. PICK g : g = [kind |-> "gate", cmd |-> cmd, actor |-> actor, run |-> scope.run, rid |-> rid,
                    verdict |-> verdict, scope |-> scope]
  OBVIOUS
<1>1. g.kind = "gate" /\ g.scope = scope /\ g.run = scope.run
  BY <1>0
<1>2. PICK i : i = Latest(S)
  OBVIOUS
<1>3. /\ Tip \in Nat /\ Open /\ UNCHANGED still /\ Authorized(g, scope)
      /\ \/ i # 0 /\ Replay("validate", i, cmd)
         \/ /\ Evidence(scope.run, Tip) = {}
            /\ VerifyProofs(g, scope, Tip) /\ VerifyPrior(g, scope, Tip)
            /\ Record(g, cmd)
  BY <1>0, <1>2 DEF AgentInv, LedgerOK, IsLedger, Tip, AdmitEvidence
<1>4. CASE i # 0 /\ Replay("validate", i, cmd)
  <2>1. S \in SUBSET (1..Tip)
    BY DEF Events
  <2>2. i \in S
    <3> HIDE DEF S
    <3> QED BY <1>2, <1>3, <1>4, <2>1, LatestIs
  <2>3. i \in 1..Tip /\ ledger[i].kind = "gate"
    BY <2>2 DEF Events
  <2> QED BY <1>3, <1>4, <2>3, ReplayStep
<1>5. CASE /\ Evidence(scope.run, Tip) = {}
           /\ VerifyProofs(g, scope, Tip) /\ VerifyPrior(g, scope, Tip)
           /\ Record(g, cmd)
  <2>1. Fits(g)
    BY <1>1, <1>3, <1>5 DEF Fits, GateFits
  <2> QED BY <1>1, <1>3, <1>5, <2>1, RecordStep
<1> QED BY <1>3, <1>4, <1>5

\* Crashes, restarts, recovery, reads and the clock.
LEMMA OutsideStep ==
  ASSUME AgentInv, \/ Crash \/ RecoverPush \/ LedgerRebuild \/ FetchLatest
                   \/ ClockTicks \/ UNCHANGED agentVars \/ \E s \in Scopes : Restart(s)
  PROVE  AgentInv'
<1>0. Tip \in Nat /\ LedgerOK /\ CommandOnce /\ TxOK /\ CountersOK /\ OnlyLateActivationsRefused
  BY DEF AgentInv, LedgerOK, IsLedger, Tip
<1>1. ledger' = ledger /\ Tip' = Tip
  BY DEF Crash, RecoverPush, LedgerRebuild, FetchLatest, ClockTicks, agentVars,
     Restart, Tip
<1>2. tx' = tx \/ tx' = NoTx
  BY DEF Crash, RecoverPush, LedgerRebuild, FetchLatest, ClockTicks, agentVars,
     Restart
<1>3. /\ remote' = remote \/ (remote' = Tip /\ tx = NoTx)
      /\ db' = db \/ (db' = Tip /\ remote = Tip /\ remote' = remote)
      /\ clock' = clock \/ clock' = clock + 1
  BY DEF Crash, RecoverPush, LedgerRebuild, FetchLatest, ClockTicks, agentVars,
     Restart, Open, still
<1>4. TxOK'
  <2>1. CASE tx' = tx
    <3>1. PICK e : e = tx.event
      OBVIOUS
    <3>2. Fits(e)' <=> Fits(e)
      BY <1>1, LedgerStill
    <3>3. Ahead' <=> Ahead
      BY <2>1 DEF Ahead
    <3>4. Behind' <=> Behind
      BY <2>1 DEF Behind
    <3>5. Ahead \/ Behind => remote' = remote
      BY <1>3 DEF NoTx, Ahead, Behind
    <3> QED BY <1>0, <1>1, <2>1, <3>1, <3>2, <3>3, <3>4, <3>5 DEF TxOK
  <2>2. CASE tx' = NoTx
    BY <2>2 DEF TxOK, Ahead, Behind, NoTx
  <2> QED BY <1>2, <2>1, <2>2
<1>5. CountersOK'
  <2>1. remote' \in 0..Tip /\ db' \in 0..remote' /\ remote' >= remote /\ clock' \in Nat
    BY <1>0, <1>3 DEF CountersOK
  <2>2. CASE served' = served
    BY <1>0, <1>1, <2>1, <2>2 DEF CountersOK
  <2>3. CASE FetchLatest
    <3>1. /\ Target \in Events("desired", Tip)
          /\ Events("desired", Tip) \subseteq 1..Tip
      <4>1. Events("desired", Tip) \subseteq 1..Tip /\ Target # 0
        BY <2>3 DEF Events, FetchLatest
      <4> QED BY <1>0, <4>1, LatestIs DEF Target
    <3>2. served' = [to |-> "host", at |-> Target] /\ remote' = Tip
      BY <2>3 DEF FetchLatest, Open
    <3> QED BY <1>0, <1>1, <2>1, <3>1, <3>2 DEF CountersOK
  <2> QED
    BY <2>2, <2>3 DEF Crash, RecoverPush, LedgerRebuild, ClockTicks, agentVars, Restart
<1> QED BY <1>0, <1>1, <1>4, <1>5, LedgerStill DEF AgentInv

\* Every call, fault and restart keeps the ledger in order, for any keys,
\* commands, reports and scopes.
LEMMA AgentAlways == AgentSpec => []AgentInv
<1>1. AgentInit => AgentInv
  <2> SUFFICES ASSUME AgentInit PROVE AgentInv
    OBVIOUS
  <2>1. IsLedger /\ Tip = 0
    BY EmptySeq DEF AgentInit, IsLedger, Tip
  <2>2. 1..Tip = {}
    BY <2>1
  <2> QED
    BY <2>1, <2>2 DEF AgentInit, AgentInv, LedgerOK, CommandOnce, TxOK, Ahead, Behind, CountersOK,
       OnlyLateActivationsRefused, Events, NoTx, Nobody
<1>2. AgentInv /\ [AgentNext]_agentVars => AgentInv'
  <2> SUFFICES ASSUME AgentInv, [AgentNext]_agentVars PROVE AgentInv'
    OBVIOUS
  <2>1. CASE Continue
    BY <2>1, ContinueStep
  <2>2. ASSUME NEW k \in Keys, Revoke(k) \/ Challenge(k) PROVE AgentInv'
    BY <2>2, KeyStep
  <2>3. ASSUME NEW k \in Keys, NEW p \in Pubs, RegisterKey(k, p) PROVE AgentInv'
    BY <2>3, KeyStep
  <2>4. ASSUME NEW k \in Keys, NEW image \in RunningImages, Activate(k, image) PROVE AgentInv'
    BY <2>4, KeyStep
  <2>5. ASSUME NEW cmd \in Commands, NEW actor \in Actors, NEW image \in Images, Issue(cmd, actor, image)
        PROVE  AgentInv'
    BY <2>5, IssueStep
  <2>6. ASSUME NEW e \in Envelopes, Ingest(e) PROVE AgentInv'
    BY <2>6, IngestStep
  <2>7. ASSUME NEW cmd \in Commands, NEW actor \in Actors, NEW rid \in Reports \cup {"none"},
               NEW verdict \in {"PASS", "FAIL"}, NEW claims \in SUBSET Claims,
               AdmitEvidence(cmd, actor, rid, verdict, claims)
        PROVE  AgentInv'
    BY <2>7, AdmitStep
  <2>8. CASE \/ Crash \/ RecoverPush \/ LedgerRebuild \/ FetchLatest
             \/ ClockTicks \/ UNCHANGED agentVars \/ \E s \in Scopes : Restart(s)
    BY <2>8, OutsideStep
  <2> QED BY <2>1, <2>2, <2>3, <2>4, <2>5, <2>6, <2>7, <2>8 DEF AgentNext
<1> QED BY <1>1, <1>2, PTL DEF AgentSpec

\* Nothing is served to a host or an administrator, and no receipt is shown, that
\* the remote branch does not hold, wherever a push failed or the process died
\* (DeployAgentService._record, GitLedger.append_many).
THEOREM ServedIsPublished == AgentSpec => []PublishedBeforeServed
<1>1. AgentInv => PublishedBeforeServed
  <2> SUFFICES ASSUME AgentInv PROVE PublishedBeforeServed
    OBVIOUS
  <2>1. Tip \in Nat /\ remote \in 0..Tip /\ db \in 0..remote /\ served.at \in 0..remote
    BY DEF AgentInv, LedgerOK, IsLedger, Tip, CountersOK
  <2> QED BY <2>1 DEF PublishedBeforeServed, Receipts, Events
<1> QED BY <1>1, AgentAlways, PTL

\* One command id is one signed desired state, and whoever retries it gets that
\* envelope (DeployAgentService.issue); "host" is who latest() answers.
THEOREM CommandsAreOnce == AgentSpec => []CommandIsOneEnvelope
<1>1. AgentInv => CommandIsOneEnvelope
  BY AgentAssumption DEF AgentInv, CommandOnce, CountersOK, CommandIsOneEnvelope, Events
<1> QED BY <1>1, AgentAlways, PTL

\* Whatever the service commits validate_history accepts, but for an activation
\* whose challenge expired between the two readings of the clock.
THEOREM HistoryReadsBack == AgentSpec => []OnlyLateActivationsRefused
<1>1. AgentInv => OnlyLateActivationsRefused
  BY DEF AgentInv
<1> QED BY <1>1, AgentAlways, PTL

\* The report the baseline rests on is a successful one, of the desired state
\* issued last among those that succeeded.
Successes == {i \in Events("applied", Tip) : Succeeded(i)}
ReportOK ==
  /\ LatestReport(TRUE) = 0 <=> Successes = {}
  /\ Successes # {} =>
       /\ LatestReport(TRUE) \in Successes
       /\ \A i \in Successes : ledger[i].env.nonce <= ledger[LatestReport(TRUE)].env.nonce
  /\ \A i \in Successes : i \in 1..Tip /\ ledger[i].env.nonce \in 1..Tip

\* A history that reads back has such a report whenever one succeeded.
LEMMA LatestReportIs ==
  ASSUME LedgerOK, OnlyLateActivationsRefused
  PROVE  ReportOK
<1> DEFINE el == Successes
           order == {ledger[i].env.nonce : i \in el}
           best == {i \in el : ledger[i].env.nonce = Latest(order)}
<1>0. Tip \in Nat
  BY DEF LedgerOK, IsLedger, Tip
<1>1. \A i \in el : i \in 1..Tip /\ ledger[i].env.nonce \in 1..Tip
  <2> SUFFICES ASSUME NEW i \in el PROVE i \in 1..Tip /\ ledger[i].env.nonce \in 1..Tip
    OBVIOUS
  <2>1. i \in 1..Tip /\ ledger[i].kind = "applied"
    BY DEF Events, Successes
  <2> QED BY <1>0, <2>1, Readable DEF AppliedAdmissible, Events
<1>2. LatestReport(TRUE) = Latest(best)
  BY DEF LatestReport, Successes
<1> HIDE DEF el
<1>3. order \in SUBSET (1..Tip) /\ best \in SUBSET (1..Tip) /\ (el = {} <=> order = {})
  BY <1>1
<1>4. /\ order # {} => Latest(order) \in order /\ \A n \in order : n <= Latest(order)
      /\ Latest(best) = 0 <=> best = {}
      /\ best # {} => Latest(best) \in best
  <2> HIDE DEF order, best
  <2> QED BY <1>0, <1>3, LatestIs
<1>5. el # {} => best # {}
  BY <1>3, <1>4
<1>6. el = {} => best = {}
  OBVIOUS
<1>7. el # {} => /\ Latest(best) \in el
                 /\ \A i \in el : ledger[i].env.nonce <= ledger[Latest(best)].env.nonce
  BY <1>3, <1>4, <1>5
<1> QED BY <1>1, <1>2, <1>4, <1>5, <1>6, <1>7 DEF el, ReportOK

\* The desired state the baseline rests on is never replaced by one issued earlier
\* (DeployAgentService._baseline).
THEOREM BaselineStands == AgentSpec => BaselineNeverRegresses
<1>1. AgentInv => ReportOK
  BY LatestReportIs DEF AgentInv
<1>2. AgentInv /\ ReportOK /\ ReportOK' /\ [AgentNext]_agentVars =>
        [LatestReport(TRUE) # 0 =>
           /\ LatestReport(TRUE)' # 0
           /\ ledger'[LatestReport(TRUE)'].env.nonce >= ledger[LatestReport(TRUE)].env.nonce]_agentVars
  <2> SUFFICES ASSUME AgentInv, ReportOK, ReportOK', [AgentNext]_agentVars, LatestReport(TRUE) # 0
               PROVE  /\ LatestReport(TRUE)' # 0
                      /\ ledger'[LatestReport(TRUE)'].env.nonce >= ledger[LatestReport(TRUE)].env.nonce
    OBVIOUS
  <2>1. PICK r : r = LatestReport(TRUE)
    OBVIOUS
  <2>2. PICK t : t = Tip
    OBVIOUS
  <2>3. t \in Nat /\ t = Len(ledger) /\ IsLedger
    BY <2>2 DEF AgentInv, LedgerOK, IsLedger, Tip
  <2>4. r \in 1..t /\ ledger[r].kind = "applied" /\ ledger[r].env.says = "applied" /\ ledger[r].env.nonce \in 1..t
    BY <2>1, <2>2 DEF ReportOK, Successes, Events, Succeeded
  <2>5. Tip' \in Nat /\ t <= Tip' /\ ledger'[r] = ledger[r]
    <3>1. CASE ledger' = ledger
      BY <2>2, <2>3, <3>1 DEF Tip
    <3>2. ASSUME NEW e, ledger' = Append(ledger, e) PROVE Tip' = t + 1 /\ ledger'[r] = ledger[r]
      BY <2>3, <2>4, <3>2, Appended DEF Tip
    <3>3. ledger' = ledger \/ \E e : ledger' = Append(ledger, e)
      <4>1. CASE CommitFiles
        <5>1. PICK e : e = tx.event
          OBVIOUS
        <5> QED BY <4>1, <5>1 DEF CommitFiles
      <4>2. CASE Continue /\ ~CommitFiles
        BY <4>2 DEF Continue, Stamp, WriteFiles, Push, PushFails, Validate,
           Project, Reply
      <4>3. CASE \/ Crash \/ RecoverPush \/ LedgerRebuild \/ FetchLatest
                 \/ ClockTicks \/ UNCHANGED agentVars \/ \E s \in Scopes : Restart(s)
        BY <4>3 DEF Crash, RecoverPush, LedgerRebuild, FetchLatest, ClockTicks, agentVars,
           Restart
      <4>4. CASE \/ \E k \in Keys : Revoke(k) \/ Challenge(k)
                 \/ \E k \in Keys, p \in Pubs : RegisterKey(k, p)
                 \/ \E k \in Keys, image \in RunningImages : Activate(k, image)
        BY <4>4 DEF Revoke, Challenge, RegisterKey, Activate, Record
      <4>5. ASSUME NEW cmd, NEW actor, NEW image, Issue(cmd, actor, image) PROVE ledger' = ledger
        BY <4>5 DEF Issue, Record, Replay
      <4>6. ASSUME NEW e, Ingest(e) PROVE ledger' = ledger
        BY <4>6 DEF Ingest, Record, Replay
      <4>7. ASSUME NEW cmd, NEW actor, NEW rid, NEW verdict, NEW claims, AdmitEvidence(cmd, actor, rid, verdict, claims)
            PROVE  ledger' = ledger
        BY <4>7 DEF AdmitEvidence, Record, Replay
      <4> QED BY <4>1, <4>2, <4>3, <4>4, <4>5, <4>6, <4>7 DEF AgentNext
    <3> QED BY <2>3, <3>1, <3>2, <3>3
  <2>6. r \in Successes'
    BY <2>2, <2>3, <2>4, <2>5 DEF Successes, Events, Succeeded
  <2>7. /\ LatestReport(TRUE)' # 0 /\ LatestReport(TRUE)' \in Successes'
        /\ ledger'[r].env.nonce <= ledger'[LatestReport(TRUE)'].env.nonce
        /\ ledger'[LatestReport(TRUE)'].env.nonce \in Nat
    <3>1. LatestReport(TRUE)' # 0 /\ LatestReport(TRUE)' \in Successes'
      BY <2>6 DEF ReportOK
    <3>2. ledger'[r].env.nonce <= ledger'[LatestReport(TRUE)'].env.nonce
      BY <2>6 DEF ReportOK
    <3>3. ledger'[LatestReport(TRUE)'].env.nonce \in 1..Tip'
      BY <3>1 DEF ReportOK
    <3>4. PICK q : q = ledger'[LatestReport(TRUE)'].env.nonce
      OBVIOUS
    <3>5. PICK u : u = Tip'
      OBVIOUS
    <3>6. u \in Nat /\ q \in 1..u
      BY <2>5, <3>3, <3>4, <3>5
    <3>7. q \in Nat
      BY <3>6
    <3> QED BY <3>1, <3>2, <3>4, <3>7
  <2> QED BY <2>1, <2>3, <2>4, <2>5, <2>7
<1> QED BY <1>1, <1>2, AgentAlways, PTL DEF AgentSpec, BaselineNeverRegresses

==============================================================================
