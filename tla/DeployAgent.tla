---------------------------- MODULE DeployAgent ----------------------------
(***************************************************************************)
(* The deploy agent's control plane: DeployAgentService keeps an append    *)
(* only git ledger of host keys, signed desired states, applied reports,   *)
(* quarantined reports and Gate 0 evidence, and a PostgreSQL projection of *)
(* it.  Every call runs under one mutex and one file lock, so one          *)
(* transaction is in flight at a time; what can go wrong is where it       *)
(* stops: the process dies, or the push fails, between the file writes,    *)
(* the commit, the push, the history validation and the projection.  A     *)
(* call that is refused changes nothing and is not a step.                 *)
(***************************************************************************)
EXTENDS Integers, Sequences, FiniteSets

CONSTANTS Keys,       \* host key ids
          Pubs,       \* public keys
          Images,     \* image digests
          RunningImages, \* the images an activating host may be running
          Commands,   \* the command ids of desired states and gate evidence
          Reports,    \* report ids
          Actors,     \* administrators
          Says,       \* what a host's report says
          Scopes,     \* the campaign scopes a start up may load
          ChalLife,   \* lifetime of a challenge, in ticks (10 min)
          MaxTime,    \* bound: the last instant of the clock
          MaxEvents,  \* bound: commits in the ledger
          MaxOf,      \* bound: MaxOf[kind], how many of them are of a kind
          MaxFaults   \* bound: crashes and failed pushes

Kinds == {"key", "desired", "applied", "quarantine", "gate"}

ASSUME AgentAssumption ==
  /\ RunningImages \subseteq Images
  /\ "host" \notin Commands  \* who is served by latest()
  /\ Says \subseteq {"applied", "refused", "dishonest", "foreign", "mismatch"}
  /\ ChalLife \in Nat \ {0} /\ MaxTime \in Nat
  /\ MaxEvents \in Nat /\ MaxOf \in [Kinds -> Nat] /\ MaxFaults \in Nat

VARIABLES ledger,  \* the commits at HEAD, in commit order
          remote,  \* how many of them the remote branch holds
          dirty,   \* files written and not committed
          db,      \* how many of them are projected
          tx,      \* the transaction that holds the locks
          served,  \* the answer just given: [to |-> whom, at |-> which commit]
          scope,   \* the campaign scope loaded at start up
          clock, faults

agentVars == <<ledger, remote, dirty, db, tx, served, scope, clock, faults>>
still == <<scope, clock, faults>>

NoTx == [pc |-> "none"]
Nobody == [to |-> "nobody", at |-> 0]
NoEvent == [kind |-> "none"]

-----------------------------------------------------------------------------
(* Reading the ledger.  n bounds the history that is read.                 *)

Latest(S) == IF S = {} THEN 0 ELSE CHOOSE i \in S : \A j \in S : j <= i
Earliest(S) == IF S = {} THEN 0 ELSE CHOOSE i \in S : \A j \in S : i <= j
Events(kind, n) == {i \in 1..n : ledger[i].kind = kind}
Tip == Len(ledger)

\* The last event of a key id, 0 if it was never registered.
KeyAt(k, n) == Latest({i \in Events("key", n) : ledger[i].key = k})
Active(k, n) == KeyAt(k, n) # 0 /\ ledger[KeyAt(k, n)].state = "active"

\* The accepted report stored under a report id, and the one of a nonce.
Stored(rid, n) == Latest({i \in Events("applied", n) : ledger[i].env.rid = rid})
Settled(nonce, n) == {i \in Events("applied", n) : ledger[i].env.nonce = nonce}
Succeeded(i) == ledger[i].env.says = "applied"

\* Mutant: the report that arrived last is the latest one.
MutLatestByArrival(successful) ==
  Latest({i \in Events("applied", Tip) : successful => Succeeded(i)})

\* _latest_report: the report of the desired state issued last, among all of
\* them or among the successful ones.  A nonce is the commit of its envelope.
LatestReport(successful) ==
  LET eligible == {i \in Events("applied", Tip) : successful => Succeeded(i)}
      order == {ledger[i].env.nonce : i \in eligible}
  IN Latest({i \in eligible : ledger[i].env.nonce = Latest(order)})

\* _baseline: the image of the latest successful report, or else the image
\* that the first registered active key proved at its activation.
ActiveKeys == {i \in Events("key", Tip) : /\ ledger[i].state = "pending" /\ ledger[i].chal = 0
                                          /\ Active(ledger[i].key, Tip)}
HasBaseline == LatestReport(TRUE) # 0 \/ ActiveKeys # {}

Baseline ==
  IF LatestReport(TRUE) # 0
  THEN ledger[ledger[LatestReport(TRUE)].env.nonce].image
  ELSE ledger[KeyAt(ledger[Earliest(ActiveKeys)].key, Tip)].base

\* drift(): the last desired state has no successful report yet.
Target == Latest(Events("desired", Tip))
Drift == /\ Target # 0
         /\ \/ LatestReport(FALSE) = 0
            \/ ledger[LatestReport(FALSE)].env.nonce # Target
            \/ ~Succeeded(LatestReport(FALSE))

-----------------------------------------------------------------------------
(* validate_history: what every commit must satisfy, read in order.        *)

KeyAdmissible(i) ==
  LET e == ledger[i]
      p == KeyAt(e.key, i - 1)
  IN IF p = 0
     THEN /\ e.state = "pending"
          /\ \A j \in Events("key", i - 1) : ledger[j].pub # e.pub
     ELSE /\ ledger[p].pub = e.pub
          /\ ledger[p].state = "pending" \/ e.state = "revoked"
          /\ e.state = "active" => e.chal = ledger[p].chal /\ e.received < e.expires

AppliedAdmissible(i) ==
  LET e == ledger[i].env
  IN /\ Active(e.key, i - 1)
     /\ e.nonce \in Events("desired", i - 1)
     /\ Settled(e.nonce, i - 1) = {}
     /\ e.says \in {"applied", "refused"}

QuarantineAdmissible(i) == Active(ledger[i].env.key, i - 1)

-----------------------------------------------------------------------------
(* gate_admission: the joins of Gate 0 evidence with the ledger.           *)

\* The evidence of a run, and the report its transition cites (0: none).
Evidence(run, n) == {i \in Events("gate", n) : ledger[i].run = run}
Cited(g, n) == IF g.rid = "none" THEN 0 ELSE Stored(g.rid, n)

\* report_reference and signed_interval: the exact accepted report of the
\* enrolled host, of a desired state issued inside the campaign.
ReportReference(g, s, n) ==
  LET r == Cited(g, n)
  IN /\ r # 0
     /\ ledger[r].env.key = s.host
     /\ ledger[ledger[r].env.nonce].image \in s.candidates
     /\ ledger[ledger[r].env.nonce].issued >= s.opens

\* verify_transition: a PASS is a genuine change of image that the host
\* applied.
VerifyTransition(g, s, n) ==
  /\ ReportReference(g, s, n)
  /\ g.verdict = "PASS" =>
       /\ Succeeded(Cited(g, n))
       /\ LET d == ledger[ledger[Cited(g, n)].env.nonce] IN d.from # d.image

\* The submitter's own observations are compared with the scope: the refusals
\* of proof 2, the egress of proof 4, the OIDC and restore joins of 1 and 5.
Claims == {"refusals", "egress", "joins"}
VerifyRefusals(g, claims) == g.verdict = "PASS" => "refusals" \in claims
VerifyEgress(g, claims)   == g.verdict = "PASS" => "egress" \in claims
ClaimsBearOut(g, claims)  ==
  /\ VerifyRefusals(g, claims) /\ VerifyEgress(g, claims)
  /\ g.verdict = "PASS" => "joins" \in claims

\* verify_proofs: a PASS needs the transition; a FAIL may come without one.
VerifyProofs(g, s, n) ==
  /\ Active(s.host, n)
  /\ g.rid = "none" => g.verdict = "FAIL"
  /\ g.rid # "none" => VerifyTransition(g, s, n)

\* verify_prior: a repeatability run continues the one retained initial PASS of
\* its prior run, from the image it left, with a fresh nonce and target.  The
\* prior evidence is looked for at HEAD, whatever commit is verified.
VerifyPrior(g, s, n) ==
  s.prior # "none" =>
    \E p \in Evidence(s.prior, Tip) :
      /\ Evidence(s.prior, Tip) = {p} /\ p <= n
      /\ ledger[p].verdict = "PASS" /\ ledger[p].scope.prior = "none"
      /\ ledger[p].scope.host = s.host
      /\ g.verdict = "PASS" =>
           LET old == ledger[Cited(ledger[p], n)].env.nonce
               new == ledger[Cited(g, n)].env.nonce
           IN /\ new # old /\ ledger[new].image # ledger[old].image
              /\ ledger[new].from = ledger[old].image

\* authorize: the actor is enrolled and the request is the campaign's own.
Authorized(g, s) == g.actor \in s.actors /\ g.run = s.run

\* history(): retained evidence is verified again as of its own commit.
GateAdmissible(i) ==
  LET g == ledger[i]
  IN /\ Authorized(g, g.scope)
     /\ VerifyProofs(g, g.scope, i - 1)
     /\ VerifyPrior(g, g.scope, i - 1)

Admissible(i) ==
  CASE ledger[i].kind = "key" -> KeyAdmissible(i)
    [] ledger[i].kind = "applied" -> AppliedAdmissible(i)
    [] ledger[i].kind = "quarantine" -> QuarantineAdmissible(i)
    [] ledger[i].kind = "gate" -> GateAdmissible(i)
    [] OTHER -> TRUE

ValidHistory == \A i \in 1..Tip : Admissible(i)

-----------------------------------------------------------------------------
(* GitLedger.transaction and append_many.                                  *)


\* transaction(): the locks are free, the tree is clean and HEAD is what the
\* remote holds.
Open == tx = NoTx /\ ~dirty /\ remote = Tip

Room(kind) == Tip < MaxEvents /\ Cardinality(Events(kind, Tip)) < MaxOf[kind]

\* _record: append the event, then validate, project and answer.
Record(event, to) ==
  /\ Room(event.kind)
  /\ tx' = [pc |-> "write", event |-> event, to |-> to, at |-> Tip + 1]
  /\ served' = Nobody
  /\ UNCHANGED <<ledger, remote, dirty, db>>

\* An identical retry finds its commit and appends nothing.
Replay(step, i, to) ==
  /\ tx' = [pc |-> step, event |-> NoEvent, to |-> to, at |-> i]
  /\ served' = Nobody
  /\ UNCHANGED <<ledger, remote, dirty, db>>

WriteFiles == /\ tx.pc = "write"
              /\ dirty' = TRUE
              /\ tx' = [tx EXCEPT !.pc = "commit"]
              /\ UNCHANGED <<ledger, remote, db, served, still>>

CommitFiles == /\ tx.pc = "commit"
               /\ dirty' = FALSE
               /\ ledger' = Append(ledger, tx.event)
               /\ tx' = [tx EXCEPT !.pc = "push"]
               /\ UNCHANGED <<remote, db, served, still>>

\* Mutant: a push that fails is taken for one that landed.
MutIgnoresPush == /\ tx.pc = "push"
                  /\ remote' \in {remote, Tip}
                  /\ tx' = [tx EXCEPT !.pc = "validate"]
                  /\ UNCHANGED <<ledger, dirty, db, served, still>>

Push == /\ tx.pc = "push"
        /\ remote' = Tip
        /\ tx' = [tx EXCEPT !.pc = "validate"]
        /\ UNCHANGED <<ledger, dirty, db, served, still>>

\* The push is rejected, or lands and its acknowledgement is lost: the call
\* fails either way and the local commit stays.
PushFails == /\ tx.pc = "push" /\ faults < MaxFaults
             /\ remote' \in {remote, Tip}
             /\ tx' = NoTx /\ faults' = faults + 1
             /\ UNCHANGED <<ledger, dirty, db, served, scope, clock>>

\* validate_history after the push: a refusal fails the call, and the commit
\* is already published.
Validate == /\ tx.pc = "validate"
            /\ tx' = IF ValidHistory THEN [tx EXCEPT !.pc = "project"] ELSE NoTx
            /\ UNCHANGED <<ledger, remote, dirty, db, served, still>>

\* rebuild: one database transaction brings the projection to HEAD.
Project == /\ tx.pc = "project"
           /\ db' = Tip
           /\ tx' = [tx EXCEPT !.pc = "answer"]
           /\ UNCHANGED <<ledger, remote, dirty, served, still>>

Reply == /\ tx.pc = "answer"
         /\ served' = [to |-> tx.to, at |-> tx.at]
         /\ tx' = NoTx
         /\ UNCHANGED <<ledger, remote, dirty, db, still>>

-----------------------------------------------------------------------------
(* DeployAgentService: host keys.                                          *)

\* register: a fresh key id with a fresh public key is pending.  The same
\* registration again returns the existing record and changes nothing.
RegisterKey(k, p) ==
  /\ Open /\ KeyAt(k, Tip) = 0
  /\ \A i \in Events("key", Tip) : ledger[i].pub # p
  /\ Record([kind |-> "key", key |-> k, pub |-> p, state |-> "pending", chal |-> 0,
             expires |-> 0, received |-> 0, base |-> "none"], k)
  /\ UNCHANGED still

\* revoke: any known key, whatever its state.
Revoke(k) ==
  /\ Open /\ KeyAt(k, Tip) # 0
  /\ Record([ledger[KeyAt(k, Tip)] EXCEPT !.state = "revoked"], k)
  /\ UNCHANGED still

\* challenge: replaces any earlier challenge of a pending key.
Challenge(k) ==
  /\ Open /\ KeyAt(k, Tip) # 0 /\ ledger[KeyAt(k, Tip)].state = "pending"
  /\ Record([ledger[KeyAt(k, Tip)] EXCEPT !.chal = Tip + 1,
                                          !.expires = clock + ChalLife], k)
  /\ UNCHANGED still

\* activate: the host answers the current challenge before it expires and
\* proves the image it observed.  received_at is read from the clock again
\* afterwards (Stamp).
Activate(k, image) ==
  /\ Open /\ KeyAt(k, Tip) # 0 /\ ledger[KeyAt(k, Tip)].state = "pending"
  /\ ledger[KeyAt(k, Tip)].chal # 0
  /\ clock < ledger[KeyAt(k, Tip)].expires
  /\ Room("key")
  /\ tx' = [pc |-> "stamp", to |-> k, at |-> Tip + 1,
            event |-> [ledger[KeyAt(k, Tip)] EXCEPT !.state = "active", !.base = image]]
  /\ served' = Nobody
  /\ UNCHANGED <<ledger, remote, dirty, db, still>>

Stamp == /\ tx.pc = "stamp"
         /\ tx' = [tx EXCEPT !.pc = "write", !.event.received = clock]
         /\ UNCHANGED <<ledger, remote, dirty, db, served, still>>

-----------------------------------------------------------------------------
(* DeployAgentService: desired states and reports.                         *)

\* Mutant: the command is looked up in the projection.
MutCommandFromProjection(cmd) ==
  Latest({i \in Events("desired", db) : ledger[i].cmd = cmd})

\* The desired state a command id was recorded with, in the same commit.
CommandAt(cmd) == Latest({i \in Events("desired", Tip) : ledger[i].cmd = cmd})

\* issue: a command id seen before returns its envelope (the same actor and
\* the same request); a new one must start from the present baseline.
Issue(cmd, actor, image) ==
  /\ Open
  /\ \/ /\ CommandAt(cmd) # 0
        /\ ledger[CommandAt(cmd)].actor = actor /\ ledger[CommandAt(cmd)].image = image
        /\ Replay("project", CommandAt(cmd), cmd)
     \/ /\ CommandAt(cmd) = 0 /\ HasBaseline
        /\ Record([kind |-> "desired", cmd |-> cmd, actor |-> actor, image |-> image,
                   from |-> Baseline, issued |-> clock], cmd)
  /\ UNCHANGED still

\* latest: hosts fetch the last signed desired state.
FetchLatest ==
  /\ Open /\ Target # 0
  /\ served' = [to |-> "host", at |-> Target]
  /\ UNCHANGED <<ledger, remote, dirty, db, tx, still>>

\* receipt: an administrator reads, without the locks, the accepted reports
\* that are projected.
Receipts == Events("applied", db)

\* What a host reports: on which nonce (0: one never issued), and whether it
\* names this deployment, repeats the desired fields and, when it claims
\* success, observed what was desired.
Envelopes == [key : Keys, rid : Reports, nonce : Events("desired", Tip) \cup {0}, says : Says]

\* Mutant: a nonce may be settled again.
MutVerdict(e) ==
  IF e.says = "foreign" THEN "deployment_mismatch"
  ELSE IF Stored(e.rid, Tip) # 0
       THEN IF ledger[Stored(e.rid, Tip)].env = e THEN "idempotent_replay" ELSE "report_reused"
  ELSE IF e.nonce \notin Events("desired", Tip) THEN "desired_unknown"
  ELSE IF e.says = "dishonest" THEN "observed_mismatch"
  ELSE IF e.says = "mismatch" THEN "desired_mismatch"
  ELSE "accepted"

\* ingest's checks, in order: the first that fails names the quarantine.
Verdict(e) ==
  IF e.says = "foreign" THEN "deployment_mismatch"
  ELSE IF Stored(e.rid, Tip) # 0
       THEN IF ledger[Stored(e.rid, Tip)].env = e THEN "idempotent_replay" ELSE "report_reused"
  ELSE IF e.nonce \notin Events("desired", Tip) THEN "desired_unknown"
  ELSE IF e.says = "dishonest" THEN "observed_mismatch"
  ELSE IF e.says = "mismatch" THEN "desired_mismatch"
  ELSE IF Settled(e.nonce, Tip) # {} THEN "nonce_replay"
  ELSE "accepted"

\* The commit that quarantined an envelope; its path is the envelope's digest.
QuarantinedAt(e) == Latest({i \in Events("quarantine", Tip) : ledger[i].env = e})

\* ingest: accept, replay or quarantine the report of an active key.  A
\* quarantine path that holds another code refuses the call.
Ingest(e) ==
  /\ Open /\ Active(e.key, Tip)
  /\ LET code == Verdict(e)
     IN \/ /\ code = "accepted"
           /\ Record([kind |-> "applied", env |-> e], e.rid)
        \/ /\ code = "idempotent_replay"
           /\ Replay("project", Stored(e.rid, Tip), e.rid)
        \/ /\ code \notin {"accepted", "idempotent_replay"} /\ QuarantinedAt(e) = 0
           /\ Record([kind |-> "quarantine", env |-> e, code |-> code], "quarantined")
        \/ /\ QuarantinedAt(e) # 0 /\ ledger[QuarantinedAt(e)].code = code
           /\ Replay("validate", QuarantinedAt(e), "quarantined")
  /\ UNCHANGED still

-----------------------------------------------------------------------------
(* gate_admission.admit and the operator's commands.                       *)

\* admit: the history must be valid first; an identical retry returns the
\* same receipt, even after the campaign's deadline.  The path of the evidence
\* is made of the run and the day of the deadline, and must be free.
AdmitEvidence(cmd, actor, rid, verdict, claims) ==
  LET g == [kind |-> "gate", cmd |-> cmd, actor |-> actor, run |-> scope.run, rid |-> rid,
            verdict |-> verdict, scope |-> scope]
      at == Latest({i \in Events("gate", Tip) : ledger[i].cmd = cmd})
  IN /\ Open /\ Authorized(g, scope) /\ ValidHistory
     /\ \/ at # 0 /\ ledger[at] = g /\ Replay("validate", at, cmd)
        \/ /\ at = 0 /\ Evidence(scope.run, Tip) = {}
           /\ scope.opens <= clock /\ clock <= scope.deadline
           /\ VerifyProofs(g, scope, Tip) /\ ClaimsBearOut(g, claims)
           /\ VerifyPrior(g, scope, Tip)
           /\ Record(g, cmd)
     /\ UNCHANGED still

\* admin deploy-ledger-rebuild.
LedgerRebuild ==
  /\ Open /\ ValidHistory /\ db # Tip
  /\ db' = Tip
  /\ UNCHANGED <<ledger, remote, dirty, tx, served, still>>

-----------------------------------------------------------------------------
(* Faults, restarts and the environment.                                   *)

\* The process dies inside a transaction: the locks go, the rest stays.
Crash == /\ tx # NoTx /\ faults < MaxFaults
         /\ tx' = NoTx /\ faults' = faults + 1
         /\ UNCHANGED <<ledger, remote, dirty, db, served, scope, clock>>

\* install_runtime: start up opens one transaction and loads the scope.
Restart(s) == /\ Open /\ s # scope
              /\ scope' = s
              /\ UNCHANGED <<ledger, remote, dirty, db, tx, served, clock, faults>>

\* The documented recovery of a failed push: the stopped service's history is
\* validated and pushed again, never forced.
RecoverPush == /\ tx = NoTx /\ ~dirty /\ remote < Tip /\ ValidHistory
               /\ remote' = Tip
               /\ UNCHANGED <<ledger, dirty, db, tx, served, still>>

ClockTicks == /\ clock < MaxTime
              /\ clock' = clock + 1
              /\ UNCHANGED <<ledger, remote, dirty, db, tx, served, scope, faults>>
-----------------------------------------------------------------------------
AgentInit ==
  /\ ledger = <<>> /\ remote = 0 /\ dirty = FALSE /\ db = 0
  /\ tx = NoTx /\ served = Nobody /\ scope \in Scopes
  /\ clock = 0 /\ faults = 0

\* The steps of a transaction that has begun.
Continue == \/ Stamp \/ WriteFiles \/ CommitFiles \/ Push \/ PushFails
            \/ Validate \/ Project \/ Reply

AgentNext ==
  \/ Continue \/ Crash \/ RecoverPush \/ LedgerRebuild \/ FetchLatest \/ ClockTicks
  \/ \E s \in Scopes : Restart(s)
  \/ \E k \in Keys : Revoke(k) \/ Challenge(k)
  \/ \E k \in Keys, p \in Pubs : RegisterKey(k, p)
  \/ \E k \in Keys, image \in RunningImages : Activate(k, image)
  \/ \E cmd \in Commands, actor \in Actors, image \in Images : Issue(cmd, actor, image)
  \/ \E e \in Envelopes : Ingest(e)
  \/ \E cmd \in Commands, actor \in Actors, rid \in Reports \cup {"none"},
        verdict \in {"PASS", "FAIL"}, claims \in SUBSET Claims :
       AdmitEvidence(cmd, actor, rid, verdict, claims)

AgentSpec == AgentInit /\ [][AgentNext]_agentVars

-----------------------------------------------------------------------------
\* The counters stay in step with the ledger, and a transaction that holds
\* the locks is at one of its steps.
AgentTypeOK ==
  /\ Tip <= MaxEvents /\ remote \in 0..Tip /\ db \in 0..Tip /\ dirty \in BOOLEAN
  /\ tx.pc \in {"none", "stamp", "write", "commit", "push", "validate", "project", "answer"}
  /\ scope \in Scopes /\ clock \in 0..MaxTime /\ faults \in 0..MaxFaults

\* Nothing is handed to a host or an administrator, and no receipt is shown,
\* that the remote does not hold: not after a rejected push, a lost
\* acknowledgement, a crash at any step or a retry of the same command.
PublishedBeforeServed ==
  /\ \A i \in Receipts : i <= remote
  /\ served.at <= remote

\* One command id is one signed desired state, whatever crashed in between,
\* and whoever retries it gets that envelope.
CommandIsOneEnvelope ==
  /\ \A i, j \in Events("desired", Tip) : ledger[i].cmd = ledger[j].cmd => i = j
  /\ served.at \in Events("desired", Tip) /\ served.to \in Commands
       => ledger[served.at].cmd = served.to

\* What the service publishes it can read back: the only commit that
\* validate_history may refuse is an activation whose challenge expired
\* between the two readings of the clock.
OnlyLateActivationsRefused ==
  \A i \in 1..Tip : Admissible(i) \/ /\ ledger[i].kind = "key"
                                     /\ ledger[i].state = "active"
                                     /\ ledger[i].received >= ledger[i].expires

\* The desired state the baseline rests on is never replaced by one issued
\* earlier, and once a report has settled the baseline, keys no longer do.
BaselineNeverRegresses ==
  [][LatestReport(TRUE) # 0 =>
       /\ LatestReport(TRUE)' # 0
       /\ ledger'[LatestReport(TRUE)'].env.nonce >= ledger[LatestReport(TRUE)].env.nonce]_agentVars
=============================================================================
