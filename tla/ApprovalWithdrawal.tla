-------------------------- MODULE ApprovalWithdrawal --------------------------
(***************************************************************************)
(* What happens to an approved rehearsal-issuer plan when its approval is  *)
(* withdrawn.  Callers carry an approval into Control, issue and consume   *)
(* authorizations, each in one transaction that holds the approval request *)
(* FOR SHARE until it ends (approval_barrier.py).  A withdrawal takes the  *)
(* request FOR UPDATE and enqueues an event in the same transaction; relay *)
(* workers lease the event, classify it against the plan, revoke the       *)
(* plan's approval and its authorizations, and record an append-only       *)
(* outcome (approval_router.py, withdrawal_outcomes.py).  An administrator *)
(* resolves the conflicts, and relay health reports what is not done.      *)
(***************************************************************************)
EXTENDS Naturals, FiniteSets

CONSTANTS
  Plans,        \* issuer plans of Control
  Requests,     \* approval requests; a withdrawal's event has its request's id
  Commands,     \* command ids of callers; an authorization is named by its own
  Sessions,     \* callers' transactions
  Workers,      \* relay workers: the running one and an operator's drain_once
  Payloads,     \* payload digests an event may carry
  Genuine,      \* the payload Approvals' trigger enqueues
  Sound,        \* payloads that pass the classifier's binding checks
  None,         \* no request, command, plan, digest or worker
  MaxAttempts,  \* bound: failed deliveries before the dead letter
  Budgets       \* bounds: how often the environment may interfere

Mishaps == {"plan", "sibling", "stray", "ended", "outage", "overlap", "crash",
            "stall", "alter", "requeue"}

ASSUME SetsAssumption ==
  /\ Plans \subseteq Nat /\ Requests \subseteq Nat
  /\ None \notin Plans \cup Requests \cup Commands \cup Payloads \cup Workers
  /\ Genuine \in Sound /\ Sound \subseteq Payloads

\* issuer_command_receipts: consumption leaves none
Receipts == [verb: {"approve", "issue"}, plan: Plans, arg: Requests \cup {None}]

ASSUME ReceiptsAssumption == None \notin Receipts
ASSUME BoundsAssumption ==
  /\ MaxAttempts \in Nat \ {0}
  /\ Budgets \subseteq [Mishaps -> Nat]

Proof     == {"applied", "already_applied", "superseded_by_revocation"}
Undone    == Proof \cup {"cancelled_before_execution", "plan_superseded"}
Conflicts == {"digest_mismatch", "policy_mismatch", "payload_changed",
              "revocation_refused"}
Reasons   == Undone \cup Conflicts \cup {"decision_not_carried", "never_approved"}
\* the conflicts whose row names the approval request
Named     == {"policy_mismatch", "revocation_refused"}

VARIABLES
  req,        \* Approvals: state, subject and policy match of every request
  plan,       \* Control: status, carried decision and revocation of every plan
  auth,       \* Control: the authorization issued under a command
  receipt,    \* issuer_command_receipts, by command
  ses,        \* the callers' transactions
  outbox,     \* the kernel's outbox row of every withdrawal
  payload,    \* the payload digest that row carries
  wrk,        \* the relay workers
  outcome,    \* approval_withdrawal_outcomes, by event and digest
  clock,      \* rows recorded so far: orders recorded_at
  resolution, \* approval_withdrawal_conflict_resolutions, by outcome
  left        \* interference left

control == <<plan, auth, receipt>>
relay   == <<outbox, payload, wrk>>
ledger  == <<outcome, clock, resolution>>
vars    == <<req, plan, auth, receipt, ses, outbox, payload, wrk, outcome, clock,
             resolution, left>>

Rows     == Requests \X Payloads
NoPlan   == [status |-> "absent", ref |-> None, revokedBy |-> None]
NoAuth   == [st |-> "none", plan |-> None]
IdleSes  == [pc |-> "idle", verb |-> "none", cmd |-> None, plan |-> None, req |-> None]
IdleWrk  == [pc |-> "idle", ev |-> None, dig |-> None, found |-> "none", at |-> 0]
NoRow    == [reason |-> "none", at |-> 0]

Spend(m) == left[m] > 0 /\ left' = [left EXCEPT ![m] = @ - 1]

\* an approval stands for Control: approved, and not revoked since
Stands(p) == plan[p].status = "approved" /\ plan[p].revokedBy = None

\* the transactions that hold request r FOR SHARE
Holders(r) == {s \in Sessions : ses[s].pc = "held" /\ ses[s].req = r}

-----------------------------------------------------------------------------
(* Approvals and the plan's own life.                                      *)

\* plan and request ids are fresh: they are handed out in order
Fresh(i, ids, taken) == i \notin taken /\ \A j \in ids : j < i => j \in taken

Proposed == {p \in Plans : plan[p].status # "absent"}
Opened   == {r \in Requests : req[r].st # "absent"}

ProposeIssuerPlan(p) ==
  /\ Fresh(p, Plans, Proposed)
  /\ plan' = [plan EXCEPT ![p].status = "proposed"]
  /\ IF Proposed = {} THEN UNCHANGED left ELSE Spend("plan")
  /\ UNCHANGED <<req, auth, receipt, ses, relay, ledger>>

OpenRequest(r, subject, policy) ==
  /\ Fresh(r, Requests, Opened)
  /\ req' = [req EXCEPT ![r] = [st |-> "open", subject |-> subject, policy |-> policy]]
  /\ UNCHANGED <<control, ses, relay, ledger>>

\* open_issuer_approval: the plan's own subject and policy; a second request
\* for one plan is a sibling
OpenIssuerApproval(r, p) ==
  /\ p \in Proposed /\ OpenRequest(r, p, TRUE)
  /\ IF \E q \in Requests : req[q].subject = p THEN Spend("sibling") ELSE UNCHANGED left

\* the general route: another policy, or a subject no handler owns
OpenStray(r, subject) ==
  /\ subject \in Proposed \cup {None} /\ OpenRequest(r, subject, FALSE)
  /\ Spend("stray")

\* the decision that closes a request
RecordDecision(r, verdict) ==
  /\ req[r].st = "open"
  /\ req' = [req EXCEPT ![r].st = verdict]
  /\ UNCHANGED <<control, ses, relay, ledger, left>>


\* withdraw_request: FOR UPDATE waits for every holder; the trigger enqueues
\* the event in the same transaction
WithdrawRequest(r) ==
  /\ req[r].st = "granted" /\ Holders(r) = {}
  /\ req' = [req EXCEPT ![r].st = "withdrawn"]
  /\ outbox' = [outbox EXCEPT ![r].st = "pending"]
  /\ UNCHANGED <<control, ses, payload, wrk, ledger, left>>

\* Control cancels or supersedes a plan
EndPlan(p, status) ==
  /\ plan[p].status \in {"proposed", "approved"}
  /\ plan' = [plan EXCEPT ![p].status = status] /\ Spend("ended")
  /\ UNCHANGED <<req, auth, receipt, ses, relay, ledger>>

-----------------------------------------------------------------------------
(* The callers: read, hold, then transition and commit.                    *)

\* find_receipt: a command id seen before must come with the same request
Reused(c, fp) == receipt[c] # None /\ receipt[c] # fp

Fingerprint(t) == [verb |-> t.verb, plan |-> t.plan,
                   arg |-> IF t.verb = "approve" THEN t.req ELSE None]

Begin(s, t) ==
  /\ ses[s].pc = "idle"
  /\ ses' = [ses EXCEPT ![s] = t]
  /\ UNCHANGED <<req, control, relay, ledger, left>>

\* hold_approval: granted, for exactly this subject, checked under the lock
Holdable(r, p) == req[r].st = "granted" /\ req[r].subject = p

\* what approval reads before its hold is frozen, or read again under the hold
HoldToApprove(s, c, p, r) ==
  LET t == [pc |-> "held", verb |-> "approve", cmd |-> c, plan |-> p, req |-> r]
  IN  ~Reused(c, Fingerprint(t)) /\ Holdable(r, p) /\ Begin(s, t)

\* the decision to hold comes from the plan, not from the caller
IssueRead(s, c, p) ==
  LET t == [pc |-> "read", verb |-> "issue", cmd |-> c, plan |-> p, req |-> plan[p].ref]
  IN  plan[p].ref # None /\ ~Reused(c, Fingerprint(t)) /\ Begin(s, t)

\* the document presented must name the plan the caller names
ConsumeRead(s, c, p) ==
  /\ auth[c].plan = p /\ plan[p].ref # None
  /\ Begin(s, [pc |-> "read", verb |-> "consume", cmd |-> c, plan |-> p,
               req |-> plan[p].ref])

HoldApproval(s) ==
  /\ ses[s].pc = "read" /\ Holdable(ses[s].req, ses[s].plan)
  /\ ses' = [ses EXCEPT ![s].pc = "held"]
  /\ UNCHANGED <<req, control, relay, ledger, left>>

Commit(s, verb) ==
  /\ ses[s].pc = "held" /\ ses[s].verb = verb
  /\ ses' = [ses EXCEPT ![s] = IdleSes]
  /\ UNCHANGED <<req, relay, ledger, left>>

\* Control approves a proposed plan under its own policy, or replays the command
CommitApprove(s) ==
  LET t == ses[s]
  IN  /\ Commit(s, "approve")
      /\ \/ /\ receipt[t.cmd] = None
            /\ plan[t.plan].status = "proposed" /\ req[t.req].policy
            /\ plan' = [plan EXCEPT ![t.plan].status = "approved",
                                    ![t.plan].ref = t.req]
            /\ receipt' = [receipt EXCEPT ![t.cmd] = Fingerprint(t)]
         \/ /\ receipt[t.cmd] = Fingerprint(t)
            /\ UNCHANGED <<plan, receipt>>
      /\ UNCHANGED auth


\* Control issues while the approval stands, or replays the command; the plan
\* must still carry the decision that is held
CommitIssue(s) ==
  LET t == ses[s]
  IN  /\ Commit(s, "issue")
      /\ plan[t.plan].ref = t.req
      /\ \/ /\ receipt[t.cmd] = None /\ Stands(t.plan)
            /\ auth' = [auth EXCEPT ![t.cmd] = [st |-> "issued", plan |-> t.plan]]
            /\ receipt' = [receipt EXCEPT ![t.cmd] = Fingerprint(t)]
         \/ /\ receipt[t.cmd] = Fingerprint(t)
            /\ UNCHANGED <<auth, receipt>>
      /\ UNCHANGED plan


\* stage_rehearsal_issuer_consumption spends an authorization once
CommitConsume(s) ==
  LET t == ses[s]
  IN  /\ Commit(s, "consume")
      /\ auth[t.cmd].st = "issued" /\ Stands(auth[t.cmd].plan)
      /\ auth' = [auth EXCEPT ![t.cmd].st = "spent"]
      /\ UNCHANGED <<plan, receipt>>

\* the hold or Control refuses, or the caller stops: nothing is committed
Rollback(s) ==
  /\ ses[s].pc # "idle"
  /\ ses' = [ses EXCEPT ![s] = IdleSes]
  /\ UNCHANGED <<req, control, relay, ledger, left>>

-----------------------------------------------------------------------------
(* The relay: lease, deliver in one transaction, settle in another.        *)

\* claim_platform_outbox_batch; a second worker may claim while one is at work
ClaimEvent(w, r) ==
  /\ wrk[w].pc = "idle" /\ outbox[r].st = "pending"
  /\ IF \A v \in Workers : wrk[v].pc = "idle" THEN UNCHANGED left ELSE Spend("overlap")
  /\ outbox' = [outbox EXCEPT ![r].st = "claimed", ![r].lease = w]
  /\ wrk' = [wrk EXCEPT ![w] = [IdleWrk EXCEPT !.pc = "claimed", !.ev = r,
                                               !.dig = payload[r]]]
  /\ UNCHANGED <<req, control, ses, payload, ledger>>

Recorded(r) == {d \in Payloads : outcome[<<r, d>>] # NoRow}

\* _deliver: a foreign subject is refused; the same digest is a replay; another
\* digest under a recorded event is a conflict
RouteEvent(w) ==
  LET r == wrk[w].ev
      next == CASE wrk[w].dig \in Recorded(r) -> "delivered"
                [] Recorded(r) = {}           -> "classify"
                [] OTHER                      -> "decided"
  IN  /\ wrk[w].pc = "claimed" /\ req[r].subject \in Plans
      /\ wrk' = [wrk EXCEPT ![w].pc = next, ![w].at = clock,
                            ![w].found = IF next = "decided" THEN "payload_changed"
                                                             ELSE "none"]
      /\ UNCHANGED <<req, control, ses, outbox, payload, ledger, left>>

\* _revoked_pre_read, for a plan whose approval is revoked
RevokedReason(pl, r) == IF pl.revokedBy = r THEN "already_applied"
                                            ELSE "superseded_by_revocation"

\* what the binding checks and the unlocked read of the plan decide
PreRead(r, d, pl) ==
  CASE d \notin Sound -> "digest_mismatch"
    [] d \in Sound /\ ~req[r].policy -> "policy_mismatch"
    [] d \in Sound /\ req[r].policy /\ pl.revokedBy # None -> RevokedReason(pl, r)
    [] d \in Sound /\ req[r].policy /\ pl.revokedBy = None
         /\ pl.status = "approved" /\ pl.ref # r -> "decision_not_carried"
    [] OTHER -> "attempt"

ClassifyEvent(w) ==
  LET r == wrk[w].ev
  IN  /\ wrk[w].pc = "classify"
      /\ wrk' = [wrk EXCEPT ![w].pc = "decided",
                            ![w].found = PreRead(r, wrk[w].dig, plan[req[r].subject])]
      /\ UNCHANGED <<req, control, ses, outbox, payload, ledger, left>>

\* revoke_plan_approval under the plan's lock: what it does or how it refuses
RevokeReason(r, pl) ==
  CASE pl.status = "approved" /\ pl.revokedBy = None -> "applied"
    [] pl.status = "approved" /\ pl.revokedBy # None -> RevokedReason(pl, r)
    [] pl.status = "cancelled"                       -> "cancelled_before_execution"
    [] pl.status = "superseded"                      -> "plan_superseded"
    [] OTHER                                         -> "never_approved"

MutNothingToRevoke(p) == {}

\* issued_authorization_refs, less the ones Control finds NOT_REVOCABLE
Revocable(p) == {c \in Commands :
  /\ receipt[c] # None /\ receipt[c].verb = "issue" /\ receipt[c].plan = p
  /\ auth[c].st = "issued"}


\* the unique constraint and the partial unique index of the outcomes table
Insertable(row, reason) ==
  /\ outcome[row] = NoRow
  /\ \/ reason \in Conflicts
     \/ \A d \in Recorded(row[1]) : outcome[<<row[1], d>>].reason \in Conflicts

\* the disposition the handler reaches, and the authorizations it must revoke
Reason(w) == IF wrk[w].found = "attempt"
             THEN RevokeReason(wrk[w].ev, plan[req[wrk[w].ev].subject])
             ELSE wrk[w].found
Due(w)    == IF Reason(w) \in Undone THEN Revocable(req[wrk[w].ev].subject) ELSE {}
RowOf(w)  == <<wrk[w].ev, wrk[w].dig>>

\* the handler's effects and record_outcome, committed together; Control may
\* refuse to revoke some of the authorizations
DeliverEvent(w, refused) ==
  LET final == IF refused = {} THEN Reason(w) ELSE "revocation_refused"
  IN  /\ wrk[w].pc = "decided" /\ refused \subseteq Due(w)
      /\ Insertable(RowOf(w), final)
      /\ outcome' = [outcome EXCEPT ![RowOf(w)] = [reason |-> final, at |-> wrk[w].at]]
      /\ auth' = [c \in Commands |-> IF c \in Due(w) \ refused
                                     THEN [auth[c] EXCEPT !.st = "revoked"] ELSE auth[c]]
      /\ plan' = IF Reason(w) = "applied"
                 THEN [plan EXCEPT ![req[wrk[w].ev].subject].revokedBy = wrk[w].ev]
                 ELSE plan
      /\ clock' = clock + 1
      /\ wrk' = [wrk EXCEPT ![w].pc = "delivered"]
      /\ UNCHANGED <<req, receipt, ses, outbox, payload, resolution, left>>

Fail(w) ==
  /\ wrk' = [wrk EXCEPT ![w].pc = "failed"]
  /\ UNCHANGED <<req, control, ses, outbox, payload, ledger>>


\* UnroutableApprovalEvent
RefuseEvent(w) ==
  /\ wrk[w].pc = "claimed" /\ req[wrk[w].ev].subject = None
  /\ Fail(w) /\ UNCHANGED left

\* IntegrityError: another delivery of the event recorded first
CollideOutcome(w) ==
  /\ wrk[w].pc = "decided" /\ ~Insertable(RowOf(w), Reason(w))
  /\ Fail(w) /\ UNCHANGED left

MutOutageIsDelivered(w) ==
  /\ wrk[w].pc \in {"claimed", "classify", "decided"}
  /\ Spend("outage")
  /\ wrk' = [wrk EXCEPT ![w].pc = "delivered"]
  /\ UNCHANGED <<req, control, ses, outbox, payload, ledger>>

\* OperationalError, in any statement: RetryableWithdrawal
LoseDatabase(w) ==
  /\ wrk[w].pc \in {"claimed", "classify", "decided"}
  /\ Spend("outage") /\ Fail(w)

\* the row after a delivery that failed: backed off, or dead
Failed(row) == [st |-> IF row.attempts + 1 >= MaxAttempts THEN "dead" ELSE "pending",
                attempts |-> row.attempts + 1, lease |-> None]

\* settle_platform_outbox_event, which only the holder of the lease may do
SettleEvent(w) ==
  LET r == wrk[w].ev
      settled == IF outbox[r].lease # w THEN outbox[r]
                 ELSE IF wrk[w].pc = "delivered"
                      THEN [outbox[r] EXCEPT !.st = "sent", !.lease = None]
                      ELSE Failed(outbox[r])
  IN  /\ wrk[w].pc \in {"delivered", "failed"}
      /\ outbox' = [outbox EXCEPT ![r] = settled]
      /\ wrk' = [wrk EXCEPT ![w] = IdleWrk]
      /\ UNCHANGED <<req, control, ses, payload, ledger, left>>

\* a worker dies; its transaction, if it had one, is rolled back
CrashWorker(w) ==
  /\ wrk[w].pc # "idle" /\ Spend("crash")
  /\ wrk' = [wrk EXCEPT ![w] = IdleWrk]
  /\ UNCHANGED <<req, control, ses, outbox, payload, ledger>>

Release(r) == outbox' = [outbox EXCEPT ![r].st = "pending", ![r].lease = None]

Abandoned(r) == outbox[r].st = "claimed" /\ wrk[outbox[r].lease].ev # r

\* the lease of a dead worker expires
ExpireLease(r) ==
  /\ Abandoned(r) /\ Release(r)
  /\ UNCHANGED <<req, control, ses, payload, wrk, ledger, left>>

\* the lease of a slow worker expires while it is still delivering
StallLease(r) ==
  /\ outbox[r].st = "claimed" /\ ~Abandoned(r) /\ Spend("stall") /\ Release(r)
  /\ UNCHANGED <<req, control, ses, payload, wrk, ledger>>

\* the row is put back in the queue after it was settled
RequeueEvent(r) ==
  /\ outbox[r].st \in {"sent", "dead"} /\ Spend("requeue")
  /\ outbox' = [outbox EXCEPT ![r] = [st |-> "pending", attempts |-> 0, lease |-> None]]
  /\ UNCHANGED <<req, control, ses, payload, wrk, ledger>>

\* the row's payload changes under its id, seen when the row is next claimed
AlterPayload(r, d) ==
  /\ outbox[r].st = "pending" /\ payload[r] # d /\ Spend("alter")
  /\ payload' = [payload EXCEPT ![r] = d]
  /\ UNCHANGED <<req, control, ses, outbox, wrk, ledger>>

-----------------------------------------------------------------------------
(* The administrator and relay health.                                     *)

Unresolved(row) == outcome[row].reason \in Conflicts /\ resolution[row] = None

Dismiss(row) ==
  /\ Unresolved(row)
  /\ resolution' = [resolution EXCEPT ![row] = [how |-> "dismissed", ref |-> None]]
  /\ UNCHANGED <<req, control, ses, relay, outcome, clock, left>>

Cited == {resolution[row].ref : row \in {x \in Rows : resolution[x] # None}}


\* _require_redrive_evidence: a later outcome that applied the withdrawal to the
\* same subject, and to the same request when the conflict names one
Proves(ref, row) ==
  /\ ref # row /\ outcome[ref].reason \in Proof
  /\ req[ref[1]].subject = req[row[1]].subject
  /\ outcome[ref].at >= outcome[row].at
  /\ outcome[row].reason \in Named => ref[1] = row[1]

Redrive(row, ref) ==
  /\ Unresolved(row) /\ Proves(ref, row) /\ ref \notin Cited
  /\ resolution' = [resolution EXCEPT ![row] = [how |-> "redriven", ref |-> ref]]
  /\ UNCHANGED <<req, control, ses, relay, outcome, clock, left>>

Conflicted  == \E row \in Rows : Unresolved(row)
DeadLetters == \E r \in Requests : outbox[r].st = "dead"

VerdictOf(failing) == IF Conflicted THEN "withdrawal_conflict_unresolved"
                      ELSE IF DeadLetters THEN "withdrawal_dead_lettered"
                      ELSE IF failing THEN "withdrawal_delivery_failing" ELSE "clear"

MutCountsOnlyPending ==
  VerdictOf(\E r \in Requests : outbox[r].st = "pending" /\ outbox[r].attempts > 0)

\* the withdrawal verdicts of relay_health, in their order of precedence
Verdict ==
  VerdictOf(\E r \in Requests : outbox[r].st \in {"pending", "claimed"}
                                /\ outbox[r].attempts > 0)

-----------------------------------------------------------------------------
Init ==
  /\ req = [r \in Requests |-> [st |-> "absent", subject |-> None, policy |-> FALSE]]
  /\ plan = [p \in Plans |-> NoPlan]
  /\ auth = [c \in Commands |-> NoAuth]
  /\ receipt = [c \in Commands |-> None]
  /\ ses = [s \in Sessions |-> IdleSes]
  /\ outbox = [r \in Requests |-> [st |-> "absent", attempts |-> 0, lease |-> None]]
  /\ payload = [r \in Requests |-> Genuine]
  /\ wrk = [w \in Workers |-> IdleWrk]
  /\ outcome = [row \in Rows |-> NoRow] /\ clock = 0
  /\ resolution = [row \in Rows |-> None]
  /\ left \in Budgets

Approvals ==
  \/ \E p \in Plans : ProposeIssuerPlan(p)
  \/ \E r \in Requests, p \in Plans : OpenIssuerApproval(r, p)
  \/ \E r \in Requests, subject \in Plans \cup {None} : OpenStray(r, subject)
  \/ \E r \in Requests, verdict \in {"granted", "rejected"} : RecordDecision(r, verdict)
  \/ \E r \in Requests : WithdrawRequest(r)
  \/ \E p \in Plans, status \in {"cancelled", "superseded"} : EndPlan(p, status)

CallerStep(s) ==
  \/ \E c \in Commands, p \in Plans, r \in Requests : HoldToApprove(s, c, p, r)
  \/ \E c \in Commands, p \in Plans : IssueRead(s, c, p) \/ ConsumeRead(s, c, p)
  \/ HoldApproval(s) \/ CommitApprove(s) \/ CommitIssue(s) \/ CommitConsume(s)
  \/ Rollback(s)

WorkerStep(w) ==
  \/ \E r \in Requests : ClaimEvent(w, r)
  \/ RouteEvent(w) \/ ClassifyEvent(w)
  \/ \E refused \in SUBSET Commands : DeliverEvent(w, refused)
  \/ RefuseEvent(w) \/ CollideOutcome(w) \/ LoseDatabase(w) \/ SettleEvent(w)

Interference ==
  \/ \E w \in Workers : CrashWorker(w)
  \/ \E r \in Requests : StallLease(r) \/ RequeueEvent(r)
  \/ \E r \in Requests, d \in Payloads : AlterPayload(r, d)

Administrator ==
  \E row \in Rows : Dismiss(row) \/ \E ref \in Rows : Redrive(row, ref)

Next ==
  \/ Approvals \/ Interference \/ Administrator
  \/ \E s \in Sessions : CallerStep(s)
  \/ \E w \in Workers : WorkerStep(w)
  \/ \E r \in Requests : ExpireLease(r)

Spec == Init /\ [][Next]_vars

\* the relay service polls for ever and the kernel reclaims expired leases;
\* callers, approvers and administrators act when they please
FairSpec ==
  /\ Spec
  /\ \A w \in Workers : WF_vars(WorkerStep(w))
  /\ \A r \in Requests : WF_vars(ExpireLease(r))
-----------------------------------------------------------------------------
(* Properties.                                                             *)

RequestRows  == [st: {"absent", "open", "granted", "rejected", "withdrawn"},
                 subject: Plans \cup {None}, policy: BOOLEAN]
PlanRows     == [status: {"absent", "proposed", "approved", "cancelled", "superseded"},
                 ref: Requests \cup {None}, revokedBy: Requests \cup {None}]
AuthRows     == [st: {"none", "issued", "spent", "revoked"}, plan: Plans \cup {None}]
Transactions == [pc: {"idle", "read", "held"},
                 verb: {"none", "approve", "issue", "consume"},
                 cmd: Commands \cup {None}, plan: Plans \cup {None},
                 req: Requests \cup {None}]
OutboxRows   == [st: {"absent", "pending", "claimed", "sent", "dead"},
                 attempts: Nat, lease: Workers \cup {None}]
Deliveries   == [pc: {"idle", "claimed", "classify", "decided", "delivered", "failed"},
                 ev: Requests \cup {None}, dig: Payloads \cup {None},
                 found: Reasons \cup {"none", "attempt"}, at: Nat]
OutcomeRows  == [reason: Reasons \cup {"none"}, at: Nat]
Resolutions  == [how: {"dismissed", "redriven"}, ref: Rows \cup {None}]

\* Every table, transaction and delivery has its shape (the models of
\* issuer_receipts.py and withdrawal_outcomes.py, the rows they refer to).
TypeOK ==
  /\ req \in [Requests -> RequestRows]
  /\ plan \in [Plans -> PlanRows]
  /\ auth \in [Commands -> AuthRows]
  /\ receipt \in [Commands -> Receipts \cup {None}]
  /\ ses \in [Sessions -> Transactions]
  /\ outbox \in [Requests -> OutboxRows]
  /\ payload \in [Requests -> Payloads]
  /\ wrk \in [Workers -> Deliveries]
  /\ outcome \in [Rows -> OutcomeRows] /\ clock \in Nat
  /\ resolution \in [Rows -> Resolutions \cup {None}]
  /\ left \in [Mishaps -> Nat]

\* The barrier: a plan is approved, and an authorization is issued or spent,
\* only in a step in which the request whose decision the plan carries still
\* stands granted, however the caller's transaction and the withdrawal race
\* (held_transition in approval_barrier.py).
NoUseAfterWithdrawal == [][
  /\ \A p \in Plans : plan'[p].ref # plan[p].ref => req'[plan'[p].ref].st = "granted"
  /\ \A c \in Commands :
       auth'[c].st # auth[c].st /\ auth'[c].st \in {"issued", "spent"}
         => req'[plan[auth'[c].plan].ref].st = "granted"]_vars

\* The index the revocation walks misses nothing issued through the seam: each
\* authorization has the receipt of its own command and plan, and no receipt of
\* an issuance is without one (issued_authorization_refs in issuer_receipts.py).
IndexIsComplete ==
  \A c \in Commands :
    (auth[c].st # "none") <=>
      (receipt[c] # None /\ receipt[c].verb = "issue" /\ receipt[c].plan = auth[c].plan)

\* Nothing is settled silently: a withdrawal whose row is sent has an outcome,
\* for a plan of this deployment (_deliver in approval_router.py).
SettledHasOutcome ==
  \A r \in Requests :
    outbox[r].st = "sent" => Recorded(r) # {} /\ req[r].subject \in Plans

\* Two workers that deliver one event with two payloads leave at most one outcome
\* that is not a conflict (the partial unique index behind record_outcome in
\* withdrawal_outcomes.py).
OneVerdictPerEvent ==
  \A r \in Requests : \A d, e \in Recorded(r) :
    d # e => {outcome[<<r, d>>].reason, outcome[<<r, e>>].reason} \cap Conflicts # {}

\* A recorded outcome is final: no delivery, redelivery or worker that read the
\* table before it was recorded writes it again (the unique constraint behind
\* record_outcome in withdrawal_outcomes.py).
VerdictIsFinal == [][
  \A row \in Rows : outcome[row] # NoRow => outcome'[row] = outcome[row]]_vars

\* An outcome that says the approval no longer stands tells the truth, then and
\* for ever: the plan's approval is revoked or the plan is over, and none of its
\* authorizations is left usable (classify_approval_withdrawal and
\* _with_authorization_revocation in protected_rehearsal_issuer.py).
OutcomeIsTrue ==
  \A row \in Rows : LET p == req[row[1]].subject IN
    /\ outcome[row].reason \in Proof => plan[p].revokedBy # None
    /\ outcome[row].reason \in Undone =>
         ~Stands(p) /\ \A c \in Commands : auth[c].plan = p => auth[c].st # "issued"

Dismissed(r) == \E d \in Payloads :
  resolution[<<r, d>>] # None /\ resolution[<<r, d>>].how = "dismissed"
Carried(r) == \E p \in Plans : Stands(p) /\ plan[p].ref = r

\* Health is never clear over a withdrawn approval that still stands in
\* Control, once its delivery was tried: only a first delivery under way or an
\* administrator's dismissal explains it (_verdict and withdrawal_failing in
\* health.py).
HealthIsRed ==
  \A r \in Requests : req[r].st = "withdrawn" /\ Carried(r) /\ Verdict = "clear" =>
    \/ outbox[r].st \in {"pending", "claimed"} /\ outbox[r].attempts = 0
    \/ Dismissed(r)

\* A conflict closed as redriven is closed by a fact: the approval of its plan is
\* revoked, by the event of the outcome it cites or before that
\* (_require_redrive_evidence in withdrawal_outcomes.py).
RedrivenIsTrue ==
  \A row \in Rows : resolution[row] # None /\ resolution[row].how = "redriven" =>
    plan[req[row[1]].subject].revokedBy # None

\* A withdrawn approval that Control still carries does not stay so: it is
\* revoked, or its row ends dead or in a conflict, where an operator sees it
\* (run in runner.py over the kernel's retries).
WithdrawalTakesEffect ==
  \A r \in Requests : (req[r].st = "withdrawn" /\ Carried(r)) ~>
    \/ ~Carried(r) \/ outbox[r].st = "dead"
    \/ \E d \in Payloads : outcome[<<r, d>>].reason \in Conflicts
=============================================================================
