----------------------- MODULE ApprovalWithdrawalProofs -----------------------
(***************************************************************************)
(* Theorems about ApprovalWithdrawal, for every set of plans, requests,    *)
(* commands, callers and workers and every amount of interference.         *)
(***************************************************************************)
EXTENDS ApprovalWithdrawal, TLAPS

\* a transaction under way names its command, its plan and its request
SessionShape == \A s \in Sessions : ses[s].pc # "idle" =>
  ses[s].cmd \in Commands /\ ses[s].plan \in Plans /\ ses[s].req \in Requests

Typed == TypeOK /\ SessionShape

\* Interference only ever uses up what is left of it.
LEMMA SpendKeepsType ==
  ASSUME left \in [Mishaps -> Nat], NEW m \in Mishaps, Spend(m)
  PROVE  left' \in [Mishaps -> Nat]
BY DEF Spend

\* A row that one step changes in place keeps its shape: requests,
LEMMA RequestMoves ==
  ASSUME req \in [Requests -> RequestRows], NEW r \in Requests,
         NEW st \in {"granted", "rejected", "withdrawn"}, req' = [req EXCEPT ![r].st = st]
  PROVE  req' \in [Requests -> RequestRows]
<1>1. [req[r] EXCEPT !.st = st] \in RequestRows
  BY DEF RequestRows
<1> QED
  BY <1>1

\* plans,
LEMMA RevokedPlan ==
  ASSUME NEW v \in [Plans -> PlanRows], NEW p, NEW e \in Requests \cup {None}
  PROVE  [v EXCEPT ![p].revokedBy = e] \in [Plans -> PlanRows]
BY DEF PlanRows

\* authorizations,
LEMMA AuthMoves ==
  ASSUME auth \in [Commands -> AuthRows], NEW c \in Commands, auth' = [auth EXCEPT ![c].st = "spent"]
  PROVE  auth' \in [Commands -> AuthRows]
<1>1. [auth[c] EXCEPT !.st = "spent"] \in AuthRows
  BY DEF AuthRows
<1> QED
  BY <1>1

\* transactions,
LEMMA SessionMoves ==
  ASSUME ses \in [Sessions -> Transactions], NEW s \in Sessions, ses' = [ses EXCEPT ![s].pc = "held"]
  PROVE  ses' \in [Sessions -> Transactions]
<1>1. [ses[s] EXCEPT !.pc = "held"] \in Transactions
  BY DEF Transactions
<1> QED
  BY <1>1

\* rows of the outbox,
LEMMA OutboxMoves ==
  ASSUME outbox \in [Requests -> OutboxRows], NEW r \in Requests,
         NEW st \in {"pending", "claimed"}, NEW l \in Workers \cup {None},
         \/ outbox' = [outbox EXCEPT ![r].st = st]
         \/ outbox' = [outbox EXCEPT ![r].st = st, ![r].lease = l]
  PROVE  outbox' \in [Requests -> OutboxRows]
<1>0. ASSUME NEW x \in OutboxRows
      PROVE  [x EXCEPT !.st = st] \in OutboxRows /\ [x EXCEPT !.lease = l] \in OutboxRows
  BY DEF OutboxRows
<1>1. [outbox[r] EXCEPT !.st = st] \in OutboxRows
  BY <1>0
<1>2. [outbox[r] EXCEPT !.st = st, !.lease = l] \in OutboxRows
  BY <1>0
<1> QED
  BY <1>1, <1>2

\* rows that are settled,
LEMMA SentRow ==
  ASSUME NEW x \in OutboxRows
  PROVE  [x EXCEPT !.st = "sent", !.lease = None] \in OutboxRows
BY DEF OutboxRows

\* and deliveries.
LEMMA SteppedDelivery ==
  ASSUME wrk \in [Workers -> Deliveries], NEW w \in Workers, NEW n \in {"delivered", "failed"},
         wrk' = [wrk EXCEPT ![w].pc = n]
  PROVE  wrk' \in [Workers -> Deliveries]
<1>1. [wrk[w] EXCEPT !.pc = n] \in Deliveries
  BY DEF Deliveries
<1> QED
  BY <1>1

\* So does a delivery that is routed or classified.
LEMMA RoutedDelivery ==
  ASSUME wrk \in [Workers -> Deliveries], NEW w \in Workers, NEW a \in Nat,
         NEW n \in {"delivered", "classify", "decided"},
         NEW f \in Reasons \cup {"none", "attempt"},
         \/ wrk' = [wrk EXCEPT ![w].pc = n, ![w].at = a, ![w].found = f]
         \/ wrk' = [wrk EXCEPT ![w].pc = n, ![w].found = f]
  PROVE  wrk' \in [Workers -> Deliveries]
<1>0. ASSUME NEW x \in Deliveries
      PROVE  /\ [x EXCEPT !.pc = n] \in Deliveries /\ [x EXCEPT !.at = a] \in Deliveries
             /\ [x EXCEPT !.found = f] \in Deliveries
  <2>1. [x EXCEPT !.pc = n] \in Deliveries
    BY DEF Deliveries
  <2>2. [x EXCEPT !.at = a] \in Deliveries
    BY DEF Deliveries
  <2>3. [x EXCEPT !.found = f] \in Deliveries
    BY DEF Deliveries
  <2> QED
    BY <2>1, <2>2, <2>3
<1>1. [wrk[w] EXCEPT !.pc = n, !.at = a, !.found = f] \in Deliveries
  BY <1>0
<1>2. [wrk[w] EXCEPT !.pc = n, !.found = f] \in Deliveries
  BY <1>0
<1> QED
  BY <1>1, <1>2

\* The steps of approvers and of Control.
LEMMA ApprovalsTyped == ASSUME Typed, Approvals PROVE Typed'
<1> USE DEF Typed, TypeOK, SessionShape, control, relay, ledger
<1>1. ASSUME NEW p \in Plans, ProposeIssuerPlan(p) PROVE Typed'
  <2>1. left' \in [Mishaps -> Nat]
    BY <1>1, SpendKeepsType DEF ProposeIssuerPlan, Mishaps
  <2>2. plan' \in [Plans -> PlanRows]
    BY <1>1 DEF ProposeIssuerPlan, PlanRows
  <2> QED
    BY <1>1, <2>1, <2>2 DEF ProposeIssuerPlan
<1>2. ASSUME NEW r \in Requests, NEW subject \in Plans \cup {None},
             NEW policy \in BOOLEAN, OpenRequest(r, subject, policy),
             left' \in [Mishaps -> Nat]
      PROVE  Typed'
  <2>1. req' \in [Requests -> RequestRows]
    BY <1>2 DEF OpenRequest, RequestRows
  <2> QED
    BY <1>2, <2>1 DEF OpenRequest
<1>3. ASSUME NEW r \in Requests, NEW p \in Plans, OpenIssuerApproval(r, p) PROVE Typed'
  <2>1. left' \in [Mishaps -> Nat]
    BY <1>3, SpendKeepsType DEF OpenIssuerApproval, Mishaps
  <2> QED
    BY <1>2, <1>3, <2>1 DEF OpenIssuerApproval
<1>4. ASSUME NEW r \in Requests, NEW subject \in Plans \cup {None}, OpenStray(r, subject)
      PROVE  Typed'
  <2>1. left' \in [Mishaps -> Nat]
    BY <1>4, SpendKeepsType DEF OpenStray, Mishaps
  <2> QED
    BY <1>2, <1>4, <2>1 DEF OpenStray
<1>5. ASSUME NEW r \in Requests, NEW v \in {"granted", "rejected"}, RecordDecision(r, v)
      PROVE  Typed'
  <2>1. req' \in [Requests -> RequestRows]
    BY <1>5, RequestMoves DEF RecordDecision
  <2> QED
    BY <1>5, <2>1 DEF RecordDecision
<1>6. ASSUME NEW r \in Requests, WithdrawRequest(r) PROVE Typed'
  <2>1. req' \in [Requests -> RequestRows]
    BY <1>6, RequestMoves DEF WithdrawRequest
  <2>2. outbox' \in [Requests -> OutboxRows]
    BY <1>6, OutboxMoves DEF WithdrawRequest
  <2> QED
    BY <1>6, <2>1, <2>2 DEF WithdrawRequest
<1>7. ASSUME NEW p \in Plans, NEW v \in {"cancelled", "superseded"}, EndPlan(p, v)
      PROVE  Typed'
  <2>1. left' \in [Mishaps -> Nat]
    BY <1>7, SpendKeepsType DEF EndPlan, Mishaps
  <2>2. plan' \in [Plans -> PlanRows]
    BY <1>7 DEF EndPlan, PlanRows
  <2> QED
    BY <1>7, <2>1, <2>2 DEF EndPlan
<1> QED
  BY <1>1, <1>3, <1>4, <1>5, <1>6, <1>7 DEF Approvals

\* The steps of one caller.
LEMMA CallerTyped == ASSUME Typed, NEW s \in Sessions, CallerStep(s) PROVE Typed'
<1> USE DEF Typed, TypeOK, control, relay, ledger
<1>1. ASSUME NEW t \in Transactions, Begin(s, t),
             t.cmd \in Commands, t.plan \in Plans, t.req \in Requests
      PROVE  Typed'
  BY <1>1 DEF Begin, SessionShape
<1>2. ASSUME NEW c \in Commands, NEW p \in Plans, NEW r \in Requests,
             HoldToApprove(s, c, p, r)
      PROVE  Typed'
  BY <1>1, <1>2 DEF HoldToApprove, Transactions
<1>3. ASSUME NEW c \in Commands, NEW p \in Plans, IssueRead(s, c, p) \/ ConsumeRead(s, c, p)
      PROVE  Typed'
  <2>1. plan[p].ref \in Requests
    BY <1>3 DEF IssueRead, ConsumeRead, PlanRows
  <2> QED
    BY <1>1, <1>3, <2>1 DEF IssueRead, ConsumeRead, Transactions
<1>4. CASE HoldApproval(s)
  <2>1. ses' \in [Sessions -> Transactions]
    BY <1>4, SessionMoves DEF HoldApproval
  <2>2. SessionShape'
    BY <1>4 DEF HoldApproval, SessionShape, Transactions
  <2> QED
    BY <1>4, <2>1, <2>2 DEF HoldApproval
<1>5. ASSUME ses' = [ses EXCEPT ![s] = IdleSes]
      PROVE  ses' \in [Sessions -> Transactions] /\ SessionShape'
  BY <1>5 DEF IdleSes, Transactions, SessionShape
<1>6. CASE CommitApprove(s)
  <2>1. plan' \in [Plans -> PlanRows]
    BY <1>6 DEF CommitApprove, Commit, PlanRows, SessionShape
  <2>2. receipt' \in [Commands -> Receipts \cup {None}]
    BY <1>6 DEF CommitApprove, Commit, Fingerprint, Receipts, SessionShape
  <2> QED
    BY <1>5, <1>6, <2>1, <2>2 DEF CommitApprove, Commit
<1>7. CASE CommitIssue(s)
  <2>1. auth' \in [Commands -> AuthRows]
    BY <1>7 DEF CommitIssue, Commit, AuthRows, SessionShape
  <2>2. receipt' \in [Commands -> Receipts \cup {None}]
    BY <1>7 DEF CommitIssue, Commit, Fingerprint, Receipts, SessionShape
  <2> QED
    BY <1>5, <1>7, <2>1, <2>2 DEF CommitIssue, Commit
<1>8. CASE CommitConsume(s)
  <2>1. auth' \in [Commands -> AuthRows]
    <3>1. ses[s].pc = "held" /\ auth' = [auth EXCEPT ![ses[s].cmd].st = "spent"]
      BY <1>8 DEF CommitConsume, Commit
    <3>2. ses[s].cmd \in Commands
      BY <3>1 DEF SessionShape
    <3> QED
      BY <3>1, <3>2, AuthMoves
  <2> QED
    BY <1>5, <1>8, <2>1 DEF CommitConsume, Commit
<1>9. CASE Rollback(s)
  BY <1>5, <1>9 DEF Rollback
<1> QED
  BY <1>2, <1>3, <1>4, <1>6, <1>7, <1>8, <1>9 DEF CallerStep

\* The steps of one relay worker.
LEMMA WorkerTyped == ASSUME Typed, NEW w \in Workers, WorkerStep(w) PROVE Typed'
<1> USE DEF Typed, TypeOK, SessionShape, control, relay, ledger
<1>1. ASSUME NEW r \in Requests, ClaimEvent(w, r) PROVE Typed'
  <2>1. left' \in [Mishaps -> Nat]
    BY <1>1, SpendKeepsType DEF ClaimEvent, Mishaps
  <2>2. outbox' \in [Requests -> OutboxRows]
    BY <1>1, OutboxMoves DEF ClaimEvent
  <2>3. [IdleWrk EXCEPT !.pc = "claimed", !.ev = r, !.dig = payload[r]] \in Deliveries
    BY DEF IdleWrk, Deliveries
  <2>4. wrk' \in [Workers -> Deliveries]
    BY <1>1, <2>3 DEF ClaimEvent
  <2> QED
    BY <1>1, <2>1, <2>2, <2>4 DEF ClaimEvent
<1>2. CASE RouteEvent(w)
  <2>1. PICK n \in {"delivered", "classify", "decided"}, f \in {"none", "payload_changed"} :
          wrk' = [wrk EXCEPT ![w].pc = n, ![w].at = clock, ![w].found = f]
    BY <1>2 DEF RouteEvent
  <2>2. f \in Reasons \cup {"none", "attempt"} /\ clock \in Nat
    BY DEF Reasons, Conflicts
  <2>3. wrk' \in [Workers -> Deliveries]
    BY <2>1, <2>2, RoutedDelivery
  <2> QED
    BY <1>2, <2>3 DEF RouteEvent
<1>3. CASE ClassifyEvent(w)
  <2>1. PreRead(wrk[w].ev, wrk[w].dig, plan[req[wrk[w].ev].subject])
          \in Reasons \cup {"attempt"}
    BY DEF PreRead, RevokedReason, Reasons, Conflicts, Undone, Proof
  <2>2. PICK f \in Reasons \cup {"attempt"} :
          wrk' = [wrk EXCEPT ![w].pc = "decided", ![w].found = f]
    BY <1>3, <2>1 DEF ClassifyEvent
  <2>3. wrk' \in [Workers -> Deliveries]
    BY <2>2, RoutedDelivery
  <2> QED
    BY <1>3, <2>3 DEF ClassifyEvent
<1>4. ASSUME NEW refused \in SUBSET Commands, DeliverEvent(w, refused) PROVE Typed'
  <2>1. RevokeReason(wrk[w].ev, plan[req[wrk[w].ev].subject]) \in Reasons
    BY DEF RevokeReason, RevokedReason, Reasons, Undone, Proof
  <2>2. Reason(w) \in Reasons \cup {"none"}
    BY <2>1 DEF Reason, Deliveries
  <2>3. outcome' \in [Rows -> OutcomeRows]
    <3>1. "revocation_refused" \in Reasons
      BY DEF Reasons, Conflicts
    <3>2. PICK f \in Reasons \cup {"none"} :
            outcome' = [outcome EXCEPT ![RowOf(w)] = [reason |-> f, at |-> wrk[w].at]]
      BY <1>4, <2>2, <3>1 DEF DeliverEvent
    <3>3. [reason |-> f, at |-> wrk[w].at] \in OutcomeRows
      BY DEF OutcomeRows, Deliveries
    <3> QED
      BY <3>2, <3>3
  <2>4. auth' \in [Commands -> AuthRows]
    <3>1. ASSUME NEW x \in AuthRows PROVE [x EXCEPT !.st = "revoked"] \in AuthRows
      BY DEF AuthRows
    <3>2. \A c \in Commands : auth[c] \in AuthRows /\ [auth[c] EXCEPT !.st = "revoked"] \in AuthRows
      BY <3>1
    <3>3. auth' = [c \in Commands |-> IF c \in Due(w) \ refused
                                      THEN [auth[c] EXCEPT !.st = "revoked"] ELSE auth[c]]
      BY <1>4 DEF DeliverEvent
    <3> QED
      BY <3>2, <3>3
  <2>5. plan' \in [Plans -> PlanRows]
    <3>1. wrk[w].ev \in Requests \cup {None}
      BY DEF Deliveries
    <3> QED
      BY <1>4, <3>1, RevokedPlan DEF DeliverEvent
  <2>6. wrk' \in [Workers -> Deliveries]
    BY <1>4, SteppedDelivery DEF DeliverEvent
  <2>7. clock' \in Nat
    BY <1>4 DEF DeliverEvent
  <2> QED
    BY <1>4, <2>3, <2>4, <2>5, <2>6, <2>7 DEF DeliverEvent
<1>5. ASSUME Fail(w), left' \in [Mishaps -> Nat] PROVE Typed'
  <2>1. wrk' \in [Workers -> Deliveries]
    BY <1>5, SteppedDelivery DEF Fail
  <2> QED
    BY <1>5, <2>1 DEF Fail
<1>6. CASE RefuseEvent(w) \/ CollideOutcome(w)
  BY <1>5, <1>6 DEF RefuseEvent, CollideOutcome
<1>7. CASE LoseDatabase(w)
  <2>1. left' \in [Mishaps -> Nat]
    BY <1>7, SpendKeepsType DEF LoseDatabase, Mishaps
  <2> QED
    BY <1>5, <1>7, <2>1 DEF LoseDatabase
<1>8. CASE SettleEvent(w)
  <2> DEFINE r == wrk[w].ev
  <2>1. wrk' \in [Workers -> Deliveries]
    BY <1>8 DEF SettleEvent, IdleWrk, Deliveries
  <2>2. CASE r \notin Requests
    <3>1. outbox' = outbox
      BY <1>8, <2>2 DEF SettleEvent
    <3> QED
      BY <1>8, <2>1, <3>1 DEF SettleEvent
  <2>3. CASE r \in Requests
    <3>1. Failed(outbox[r]) \in OutboxRows
      BY <2>3 DEF Failed, OutboxRows
    <3>2. [outbox[r] EXCEPT !.st = "sent", !.lease = None] \in OutboxRows
      BY <2>3, SentRow
    <3>3. outbox' \in [Requests -> OutboxRows]
      BY <1>8, <2>3, <3>1, <3>2 DEF SettleEvent
    <3> QED
      BY <1>8, <2>1, <3>3 DEF SettleEvent
  <2> QED
    BY <2>2, <2>3
<1> QED
  BY <1>1, <1>2, <1>3, <1>4, <1>6, <1>7, <1>8 DEF WorkerStep

\* The steps of everybody else.
LEMMA OthersTyped ==
  ASSUME Typed, Interference \/ Administrator \/ \E r \in Requests : ExpireLease(r)
  PROVE  Typed'
<1> USE DEF Typed, TypeOK, SessionShape, control, relay, ledger
<1>1. ASSUME NEW w \in Workers, CrashWorker(w) PROVE Typed'
  <2>1. left' \in [Mishaps -> Nat]
    BY <1>1, SpendKeepsType DEF CrashWorker, Mishaps
  <2>2. wrk' \in [Workers -> Deliveries]
    BY <1>1 DEF CrashWorker, IdleWrk, Deliveries
  <2> QED
    BY <1>1, <2>1, <2>2 DEF CrashWorker
<1>2. ASSUME NEW r \in Requests, Release(r) PROVE outbox' \in [Requests -> OutboxRows]
  BY <1>2, OutboxMoves DEF Release
<1>3. ASSUME NEW r \in Requests, StallLease(r) PROVE Typed'
  <2>1. left' \in [Mishaps -> Nat]
    BY <1>3, SpendKeepsType DEF StallLease, Mishaps
  <2> QED
    BY <1>2, <1>3, <2>1 DEF StallLease
<1>4. ASSUME NEW r \in Requests, ExpireLease(r) PROVE Typed'
  BY <1>2, <1>4 DEF ExpireLease
<1>5. ASSUME NEW r \in Requests, RequeueEvent(r) PROVE Typed'
  <2>1. left' \in [Mishaps -> Nat]
    BY <1>5, SpendKeepsType DEF RequeueEvent, Mishaps
  <2>2. outbox' \in [Requests -> OutboxRows]
    BY <1>5 DEF RequeueEvent, OutboxRows
  <2> QED
    BY <1>5, <2>1, <2>2 DEF RequeueEvent
<1>6. ASSUME NEW r \in Requests, NEW d \in Payloads, AlterPayload(r, d) PROVE Typed'
  <2>1. left' \in [Mishaps -> Nat]
    BY <1>6, SpendKeepsType DEF AlterPayload, Mishaps
  <2>2. payload' \in [Requests -> Payloads]
    BY <1>6 DEF AlterPayload
  <2> QED
    BY <1>6, <2>1, <2>2 DEF AlterPayload
<1>7. ASSUME NEW row \in Rows, Dismiss(row) PROVE Typed'
  <2>1. resolution' \in [Rows -> Resolutions \cup {None}]
    BY <1>7 DEF Dismiss, Resolutions
  <2> QED
    BY <1>7, <2>1 DEF Dismiss
<1>8. ASSUME NEW row \in Rows, NEW ref \in Rows, Redrive(row, ref) PROVE Typed'
  <2>1. resolution' \in [Rows -> Resolutions \cup {None}]
    BY <1>8 DEF Redrive, Resolutions
  <2> QED
    BY <1>8, <2>1 DEF Redrive
<1> QED
  BY <1>1, <1>3, <1>4, <1>5, <1>6, <1>7, <1>8 DEF Interference, Administrator

\* Every reachable state has its shape, transactions included.
LEMMA AlwaysTyped == Spec => []Typed
<1>1. Init => Typed
  <2> SUFFICES ASSUME Init PROVE Typed
    OBVIOUS
  <2> USE SetsAssumption, BoundsAssumption
  <2>1. /\ req \in [Requests -> RequestRows] /\ plan \in [Plans -> PlanRows]
        /\ auth \in [Commands -> AuthRows] /\ receipt \in [Commands -> Receipts \cup {None}]
    BY DEF Init, RequestRows, PlanRows, NoPlan, AuthRows, NoAuth
  <2>2. /\ ses \in [Sessions -> Transactions] /\ SessionShape
    BY DEF Init, IdleSes, Transactions, SessionShape
  <2>3. /\ outbox \in [Requests -> OutboxRows] /\ payload \in [Requests -> Payloads]
        /\ wrk \in [Workers -> Deliveries]
    BY DEF Init, OutboxRows, IdleWrk, Deliveries
  <2>4. /\ outcome \in [Rows -> OutcomeRows] /\ clock \in Nat
        /\ resolution \in [Rows -> Resolutions \cup {None}] /\ left \in [Mishaps -> Nat]
    BY DEF Init, OutcomeRows, NoRow
  <2> QED
    BY <2>1, <2>2, <2>3, <2>4 DEF Typed, TypeOK
<1>2. Typed /\ [Next]_vars => Typed'
  <2> SUFFICES ASSUME Typed, [Next]_vars PROVE Typed'
    OBVIOUS
  <2>1. CASE UNCHANGED vars
    BY <2>1 DEF vars, Typed, TypeOK, SessionShape
  <2> QED
    BY <2>1, ApprovalsTyped, CallerTyped, WorkerTyped, OthersTyped DEF Next
<1> QED
  BY <1>1, <1>2, PTL DEF Spec

\* Every step of callers, workers, administrators and of the environment keeps
\* the shape of the tables (issuer_receipts.py, withdrawal_outcomes.py).
THEOREM TypeCorrect == Spec => []TypeOK
<1>1. Typed => TypeOK
  BY DEF Typed
<1> QED
  BY <1>1, AlwaysTyped, PTL

-----------------------------------------------------------------------------
(* What the steps of each actor leave alone.                               *)

\* What approvers leave alone.
LEMMA ApprovalsFrame ==
  ASSUME Approvals
  PROVE  UNCHANGED <<auth, receipt, ses, payload, wrk, outcome, clock, resolution>>
BY DEF Approvals, ProposeIssuerPlan, OpenIssuerApproval, OpenStray, OpenRequest,
       RecordDecision, WithdrawRequest, EndPlan, control, relay, ledger

\* What a caller leaves alone: Control, until it commits.
LEMMA CallerFrame ==
  ASSUME Typed, NEW s \in Sessions, CallerStep(s)
  PROVE  /\ UNCHANGED <<req, outbox, payload, wrk, outcome, clock, resolution, left>>
         /\ \A x \in Sessions : x # s => ses'[x] = ses[x]
         /\ CommitApprove(s) \/ CommitIssue(s) \/ CommitConsume(s) \/ UNCHANGED control
<1>1. UNCHANGED <<req, relay, ledger, left>>
  BY DEF CallerStep, HoldToApprove, IssueRead, ConsumeRead, Begin, HoldApproval,
         CommitApprove, CommitIssue, CommitConsume, Commit, Rollback
<1>2. PICK t : ses' = [ses EXCEPT ![s] = t]
  BY DEF CallerStep, HoldToApprove, IssueRead, ConsumeRead, Begin, HoldApproval,
         CommitApprove, CommitIssue, CommitConsume, Commit, Rollback
<1>3. CommitApprove(s) \/ CommitIssue(s) \/ CommitConsume(s) \/ UNCHANGED control
  BY DEF CallerStep, HoldToApprove, IssueRead, ConsumeRead, Begin, HoldApproval, Rollback
<1> QED
  BY <1>1, <1>2, <1>3 DEF relay, ledger, Typed, TypeOK

\* What a relay worker leaves alone: all but the outbox, until it delivers.
LEMMA WorkerFrame ==
  ASSUME Typed, NEW w \in Workers, WorkerStep(w)
  PROVE  /\ UNCHANGED <<req, receipt, ses, payload, resolution>>
         /\ \A x \in Workers : x # w => wrk'[x] = wrk[x]
         /\ \/ \E refused \in SUBSET Commands : DeliverEvent(w, refused)
            \/ UNCHANGED <<plan, auth, outcome, clock>>
<1> USE DEF control, relay, ledger
<1>1. UNCHANGED <<req, receipt, ses, payload, resolution>>
  BY DEF WorkerStep, ClaimEvent, RouteEvent, ClassifyEvent, DeliverEvent, RefuseEvent,
         CollideOutcome, LoseDatabase, Fail, SettleEvent
<1>2. \A x \in Workers : x # w => wrk'[x] = wrk[x]
  BY DEF WorkerStep, ClaimEvent, RouteEvent, ClassifyEvent, DeliverEvent, RefuseEvent,
         CollideOutcome, LoseDatabase, Fail, SettleEvent, Typed, TypeOK
<1>3. \/ \E refused \in SUBSET Commands : DeliverEvent(w, refused)
      \/ UNCHANGED <<plan, auth, outcome, clock>>
  BY DEF WorkerStep, ClaimEvent, RouteEvent, ClassifyEvent, RefuseEvent, CollideOutcome,
         LoseDatabase, Fail, SettleEvent
<1> QED
  BY <1>1, <1>2, <1>3

\* What interference and administrators leave alone.
LEMMA OthersFrame ==
  ASSUME Interference \/ Administrator \/ \E r \in Requests : ExpireLease(r)
  PROVE  /\ UNCHANGED <<req, plan, auth, receipt, ses, outcome, clock>>
         /\ Administrator \/ UNCHANGED resolution
BY DEF Interference, Administrator, CrashWorker, StallLease, RequeueEvent, AlterPayload,
       Dismiss, Redrive, ExpireLease, control, relay, ledger

-----------------------------------------------------------------------------
(* Outcomes.                                                               *)

\* Only a delivery writes an outcome, and only where there is none.
LEMMA OutcomesGrow ==
  ASSUME Typed, [Next]_vars, outcome' # outcome
  PROVE  \E w \in Workers, refused \in SUBSET Commands : DeliverEvent(w, refused)
BY ApprovalsFrame, CallerFrame, WorkerFrame, OthersFrame DEF Next, vars

\* A recorded outcome stays as it is.
LEMMA OutcomesStay ==
  ASSUME Typed, [Next]_vars, NEW row \in Rows, outcome[row] # NoRow
  PROVE  outcome'[row] = outcome[row]
<1>1. CASE outcome' = outcome
  BY <1>1
<1>2. CASE outcome' # outcome
  <2>1. PICK w \in Workers, refused \in SUBSET Commands : DeliverEvent(w, refused)
    BY <1>2, OutcomesGrow
  <2>2. PICK x : /\ outcome' = [outcome EXCEPT ![RowOf(w)] = x]
                 /\ outcome[RowOf(w)] = NoRow
    BY <2>1 DEF DeliverEvent, Insertable
  <2> QED
    BY <2>2 DEF Typed, TypeOK
<1> QED
  BY <1>1, <1>2

\* No delivery writes an outcome that is already recorded, whatever the worker
\* read before (the unique constraint behind record_outcome).
THEOREM RecordedIsFinal == Spec => VerdictIsFinal
<1>1. Typed /\ [Next]_vars =>
        [\A row \in Rows : outcome[row] # NoRow => outcome'[row] = outcome[row]]_vars
  BY OutcomesStay
<1> QED
  BY <1>1, AlwaysTyped, PTL DEF Spec, VerdictIsFinal

\* Two deliveries of one event leave at most one outcome that is not a conflict
\* (the partial unique index behind record_outcome).
THEOREM SingleVerdict == Spec => []OneVerdictPerEvent
<1>1. Init => OneVerdictPerEvent
  BY DEF Init, OneVerdictPerEvent, Recorded, Rows
<1>2. Typed /\ OneVerdictPerEvent /\ [Next]_vars => OneVerdictPerEvent'
  <2> SUFFICES ASSUME Typed, OneVerdictPerEvent, [Next]_vars,
                      NEW r \in Requests, NEW d \in Recorded(r)', NEW e \in Recorded(r)', d # e
               PROVE  \/ outcome'[<<r, d>>].reason \in Conflicts
                      \/ outcome'[<<r, e>>].reason \in Conflicts
    BY DEF OneVerdictPerEvent
  <2>1. d \in Payloads /\ e \in Payloads
    BY DEF Recorded
  <2>2. CASE outcome' = outcome
    BY <2>2 DEF OneVerdictPerEvent, Recorded
  <2>3. CASE outcome' # outcome
    <3>1. PICK w \in Workers, refused \in SUBSET Commands : DeliverEvent(w, refused)
      BY <2>3, OutcomesGrow
    <3>2. PICK f : /\ outcome' = [outcome EXCEPT ![RowOf(w)] = [reason |-> f, at |-> wrk[w].at]]
                   /\ Insertable(RowOf(w), f)
      BY <3>1 DEF DeliverEvent
    <3>3. \A y \in Rows : y # RowOf(w) => outcome'[y] = outcome[y]
      BY <3>2 DEF Typed, TypeOK
    <3>4. \A y \in Rows : y = RowOf(w) => outcome'[y].reason = f
      BY <3>2 DEF Typed, TypeOK
    <3>5. <<r, d>> \in Rows /\ <<r, e>> \in Rows /\ <<r, d>> # <<r, e>>
      BY <2>1 DEF Rows
    <3>6. ASSUME NEW a \in Payloads, NEW b \in Payloads, a \in Recorded(r)', b \in Recorded(r)',
                 a # b, <<r, a>> = RowOf(w)
          PROVE  f \in Conflicts \/ outcome'[<<r, b>>].reason \in Conflicts
      <4>1. <<r, b>> \in Rows /\ <<r, b>> # RowOf(w) /\ RowOf(w)[1] = r
        BY <3>6 DEF Rows
      <4>2. b \in Recorded(r)
        BY <3>3, <3>6, <4>1 DEF Recorded
      <4> QED
        BY <3>2, <3>3, <4>1, <4>2 DEF Insertable
    <3>7. CASE <<r, d>> = RowOf(w)
      BY <2>1, <3>4, <3>5, <3>6, <3>7
    <3>8. CASE <<r, e>> = RowOf(w)
      BY <2>1, <3>4, <3>5, <3>6, <3>8
    <3>9. CASE <<r, d>> # RowOf(w) /\ <<r, e>> # RowOf(w)
      BY <2>1, <3>3, <3>5, <3>9 DEF OneVerdictPerEvent, Recorded
    <3> QED
      BY <3>7, <3>8, <3>9
  <2> QED
    BY <2>2, <2>3
<1> QED
  BY <1>1, <1>2, AlwaysTyped, PTL DEF Spec

-----------------------------------------------------------------------------
(* The index of issued authorizations.                                     *)

Indexed(c) == (auth[c].st # "none") <=>
  (receipt[c] # None /\ receipt[c].verb = "issue" /\ receipt[c].plan = auth[c].plan)

\* An authorization and its receipt are never one without the other, so the
\* revocation's walk over the receipts misses none (issued_authorization_refs).
THEOREM IndexComplete == Spec => []IndexIsComplete
<1>1. Init => IndexIsComplete
  BY DEF Init, IndexIsComplete, NoAuth
<1>2. Typed /\ IndexIsComplete /\ [Next]_vars => IndexIsComplete'
  <2> SUFFICES ASSUME Typed, IndexIsComplete, [Next]_vars, NEW c \in Commands
               PROVE  Indexed(c)'
    BY DEF IndexIsComplete, Indexed
  <2>1. Indexed(c)
    BY DEF IndexIsComplete, Indexed
  <2>2. CASE UNCHANGED <<auth, receipt>>
    BY <2>1, <2>2 DEF Indexed
  <2>3. ASSUME NEW s \in Sessions, CommitApprove(s) PROVE Indexed(c)'
    <3>1. auth' = auth /\ ses[s].cmd \in Commands /\ Fingerprint(ses[s]).verb = "approve"
      BY <2>3 DEF CommitApprove, Commit, Fingerprint, Typed, SessionShape
    <3>2. CASE receipt' = receipt
      BY <2>1, <3>1, <3>2 DEF Indexed
    <3>3. CASE /\ receipt[ses[s].cmd] = None
               /\ receipt' = [receipt EXCEPT ![ses[s].cmd] = Fingerprint(ses[s])]
      BY <2>1, <3>1, <3>3 DEF Indexed, Typed, TypeOK
    <3> QED
      BY <2>3, <3>2, <3>3 DEF CommitApprove
  <2>4. ASSUME NEW s \in Sessions, CommitIssue(s) PROVE Indexed(c)'
    <3>1. /\ ses[s].cmd \in Commands /\ Fingerprint(ses[s]) \in Receipts
          /\ Fingerprint(ses[s]).verb = "issue"
          /\ Fingerprint(ses[s]).plan = ses[s].plan
      BY <2>4 DEF CommitIssue, Commit, Fingerprint, Typed, SessionShape, Receipts
    <3>2. CASE UNCHANGED <<auth, receipt>>
      BY <2>2, <3>2
    <3>3. CASE /\ auth' = [auth EXCEPT ![ses[s].cmd] = [st |-> "issued", plan |-> ses[s].plan]]
               /\ receipt' = [receipt EXCEPT ![ses[s].cmd] = Fingerprint(ses[s])]
      <4>1. CASE c = ses[s].cmd
        <5>1. auth'[c] = [st |-> "issued", plan |-> ses[s].plan]
          BY <3>1, <3>3, <4>1 DEF Typed, TypeOK
        <5>2. receipt'[c] = Fingerprint(ses[s])
          BY <3>1, <3>3, <4>1 DEF Typed, TypeOK
        <5> QED
          BY <3>1, <5>1, <5>2, ReceiptsAssumption DEF Indexed
      <4>2. CASE c # ses[s].cmd
        BY <2>1, <3>3, <4>2 DEF Indexed, Typed, TypeOK
      <4> QED
        BY <4>1, <4>2
    <3> QED
      BY <2>4, <3>2, <3>3 DEF CommitIssue
  <2>5. ASSUME NEW s \in Sessions, CommitConsume(s) PROVE Indexed(c)'
    <3>1. /\ receipt' = receipt /\ auth[ses[s].cmd].st = "issued"
          /\ auth' = [auth EXCEPT ![ses[s].cmd].st = "spent"]
      BY <2>5 DEF CommitConsume
    <3>2. auth'[c].plan = auth[c].plan /\ (auth'[c].st = "none" <=> auth[c].st = "none")
      BY <3>1 DEF Typed, TypeOK, AuthRows
    <3> QED
      BY <2>1, <3>1, <3>2 DEF Indexed
  <2>6. ASSUME NEW w \in Workers, NEW refused \in SUBSET Commands, DeliverEvent(w, refused)
        PROVE  Indexed(c)'
    <3>1. receipt' = receipt
      BY <2>6 DEF DeliverEvent
    <3>2. auth'[c] = auth[c] \/ (auth'[c] = [auth[c] EXCEPT !.st = "revoked"]
                                   /\ auth[c].st = "issued")
      BY <2>6 DEF DeliverEvent, Due, Revocable
    <3>3. auth'[c].plan = auth[c].plan /\ (auth'[c].st = "none" <=> auth[c].st = "none")
      BY <3>2 DEF Typed, TypeOK, AuthRows
    <3> QED
      BY <2>1, <3>1, <3>3 DEF Indexed
  <2> QED
    BY <2>2, <2>3, <2>4, <2>5, <2>6, ApprovalsFrame, CallerFrame, WorkerFrame, OthersFrame
       DEF Next, vars, control
<1> QED
  BY <1>1, <1>2, AlwaysTyped, PTL DEF Spec

-----------------------------------------------------------------------------
(* The barrier.  A transaction that holds a request finds it granted until *)
(* it ends, and a plan keeps the first decision it was given.              *)

SessionInv(s) == ses[s].pc # "idle" =>
  /\ ses[s].pc = "held" => /\ req[ses[s].req].st = "granted"
                           /\ req[ses[s].req].subject = ses[s].plan
  /\ ses[s].verb = "consume" => /\ auth[ses[s].cmd].plan = ses[s].plan
                                /\ plan[ses[s].plan].ref = ses[s].req

PlanInv(p) ==
  /\ plan[p].status \in {"absent", "proposed"} => plan[p].ref = None /\ plan[p].revokedBy = None
  /\ plan[p].ref # None => /\ req[plan[p].ref].subject = p
                           /\ req[plan[p].ref].st \in {"granted", "withdrawn"}

AuthInv(c) == auth[c].st = "none" => auth[c].plan = None

BarrierInv ==
  /\ \A s \in Sessions : SessionInv(s)
  /\ \A p \in Plans : PlanInv(p)
  /\ \A c \in Commands : AuthInv(c)

\* The deliveries.  An event is enqueued by its withdrawal and only by it; a
\* worker that reached a disposition reached it on facts that last.
PreReads == {"none", "attempt", "digest_mismatch", "policy_mismatch", "payload_changed",
             "decision_not_carried", "already_applied", "superseded_by_revocation"}

EventInv(r) ==
  /\ outbox[r].st # "absent" <=> req[r].st = "withdrawn"
  /\ outbox[r].st = "sent" => Recorded(r) # {} /\ req[r].subject \in Plans

WorkerInv(w) ==
  /\ wrk[w].found \in PreReads
  /\ wrk[w].pc # "idle" => /\ wrk[w].ev \in Requests /\ wrk[w].dig \in Payloads
                           /\ req[wrk[w].ev].st = "withdrawn"
  /\ wrk[w].pc \in {"classify", "decided", "delivered"} => req[wrk[w].ev].subject \in Plans
  /\ wrk[w].pc = "delivered" => Recorded(wrk[w].ev) # {}
  /\ wrk[w].pc = "decided" =>
       /\ wrk[w].found # "none"
       /\ wrk[w].found \in Proof => plan[req[wrk[w].ev].subject].revokedBy # None
       /\ wrk[w].found = "decision_not_carried" =>
            plan[req[wrk[w].ev].subject].ref # wrk[w].ev

\* an approval that stands no more, and never will again
Over(p) == plan[p].revokedBy # None \/ plan[p].status \in {"cancelled", "superseded"}

\* a disposition that is true of plan p and the withdrawal of r
TrueOf(reason, p, r) ==
  /\ reason \in Proof => plan[p].revokedBy # None
  /\ reason \in Undone => Over(p) /\ \A c \in Commands : auth[c].plan = p => auth[c].st # "issued"
  /\ reason \in {"decision_not_carried", "never_approved"} => plan[p].ref # r

RowInv(row) ==
  /\ outcome[row] # NoRow =>
       /\ req[row[1]].st = "withdrawn" /\ req[row[1]].subject \in Plans
       /\ TrueOf(outcome[row].reason, req[row[1]].subject, row[1])
       /\ outcome[row].reason # "none"
  /\ resolution[row] # None =>
       /\ outcome[row] # NoRow
       /\ resolution[row].how = "redriven" => plan[req[row[1]].subject].revokedBy # None

DeliveryInv ==
  /\ \A r \in Requests : EventInv(r)
  /\ \A w \in Workers : WorkerInv(w)
  /\ \A row \in Rows : RowInv(row)

Base == Typed /\ IndexIsComplete /\ BarrierInv /\ DeliveryInv

\* A request keeps its subject, stays withdrawn, and is withdrawn only while
\* nobody holds it.
LEMMA RequestsKeep ==
  ASSUME Typed, [Next]_vars, NEW r \in Requests
  PROVE  /\ req[r].st # "absent" => req'[r].subject = req[r].subject /\ req'[r].st # "absent"
         /\ req[r].st = "withdrawn" => req'[r].st = "withdrawn"
         /\ req[r].st = "granted" =>
              req'[r].st = "granted" \/ (req'[r].st = "withdrawn" /\ Holders(r) = {})
         /\ req'[r] # req[r] => UNCHANGED plan
<1>1. CASE req' = req
  BY <1>1
<1>2. CASE req' # req
  <2>1. Approvals
    BY <1>2, CallerFrame, WorkerFrame, OthersFrame DEF Next, vars
  <2>2. ASSUME NEW q \in Requests, NEW subject, NEW policy, OpenRequest(q, subject, policy)
        PROVE  (req[r].st # "absent" => req'[r] = req[r]) /\ UNCHANGED plan
    BY <2>2 DEF OpenRequest, Fresh, Opened, control, Typed, TypeOK
  <2>3. ASSUME NEW q \in Requests, NEW v \in {"granted", "rejected"}, RecordDecision(q, v)
        PROVE  /\ req'[r].subject = req[r].subject
               /\ req[r].st # "open" => req'[r] = req[r]
               /\ req[r].st = "open" => req'[r].st # "absent"
               /\ UNCHANGED plan
    BY <2>3 DEF RecordDecision, control, Typed, TypeOK, RequestRows
  <2>4. ASSUME NEW q \in Requests, WithdrawRequest(q)
        PROVE  /\ req'[r].subject = req[r].subject
               /\ q # r => req'[r] = req[r]
               /\ q = r => req'[r].st = "withdrawn" /\ Holders(r) = {} /\ req[r].st = "granted"
               /\ UNCHANGED plan
    BY <2>4 DEF WithdrawRequest, control, Typed, TypeOK, RequestRows
  <2>5. ASSUME NEW p \in Plans, ProposeIssuerPlan(p) \/ (\E v : EndPlan(p, v))
        PROVE  FALSE
    BY <1>2, <2>5 DEF ProposeIssuerPlan, EndPlan
  <2> QED
    BY <2>1, <2>2, <2>3, <2>4, <2>5 DEF Approvals, OpenIssuerApproval, OpenStray
<1> QED
  BY <1>1, <1>2

\* A plan keeps its decision and its revocation, and what is over stays over;
\* a decision is carried only while its request is granted for that plan.
LEMMA PlansKeep ==
  ASSUME Base, [Next]_vars, NEW p \in Plans
  PROVE  /\ plan[p].ref # None => plan'[p].ref = plan[p].ref
         /\ plan[p].revokedBy # None => plan'[p].revokedBy = plan[p].revokedBy
         /\ Over(p) => Over(p)'
         /\ plan'[p].ref # plan[p].ref =>
              /\ UNCHANGED req /\ plan'[p].ref \in Requests
              /\ req[plan'[p].ref].st = "granted" /\ req[plan'[p].ref].subject = p
         /\ plan'[p].status \in {"absent", "proposed"} =>
              plan'[p].ref = None /\ plan'[p].revokedBy = None
<1> USE DEF Base
<1>0. PlanInv(p) /\ plan[p] \in PlanRows
  BY DEF BarrierInv, Typed, TypeOK
<1>1. CASE plan' = plan
  BY <1>0, <1>1 DEF PlanInv, Over
<1>2. ASSUME NEW q \in Plans, ProposeIssuerPlan(q) \/ (\E v \in {"cancelled", "superseded"} : EndPlan(q, v))
      PROVE  /\ plan'[p].ref = plan[p].ref /\ plan'[p].revokedBy = plan[p].revokedBy
             /\ Over(p) => Over(p)'
             /\ plan'[p].status \in {"absent", "proposed"} => plan[p].status \in {"absent", "proposed"}
  <2>1. CASE ProposeIssuerPlan(q)
    BY <2>1 DEF ProposeIssuerPlan, Fresh, Proposed, Over, Typed, TypeOK, PlanRows
  <2>2. ASSUME NEW v \in {"cancelled", "superseded"}, EndPlan(q, v)
        PROVE  /\ plan'[p].ref = plan[p].ref /\ plan'[p].revokedBy = plan[p].revokedBy
               /\ plan'[p].status = plan[p].status \/ plan'[p].status = v
    BY <2>2 DEF EndPlan, Typed, TypeOK, PlanRows
  <2> QED
    BY <1>2, <2>1, <2>2 DEF Over
<1>3. ASSUME NEW s \in Sessions, CommitApprove(s), plan' # plan
      PROVE  /\ UNCHANGED req
             /\ p # ses[s].plan => plan'[p] = plan[p]
             /\ p = ses[s].plan =>
                  /\ plan[p].status = "proposed" /\ plan'[p].status = "approved"
                  /\ plan'[p].ref = ses[s].req /\ plan'[p].revokedBy = plan[p].revokedBy
                  /\ ses[s].req \in Requests
                  /\ req[ses[s].req].st = "granted" /\ req[ses[s].req].subject = p
  <2>1. /\ ses[s].pc = "held" /\ ses[s].req \in Requests /\ ses[s].plan \in Plans
        /\ req[ses[s].req].st = "granted" /\ req[ses[s].req].subject = ses[s].plan
        /\ req' = req
    BY <1>3 DEF CommitApprove, Commit, BarrierInv, SessionInv, Typed, SessionShape
  <2>2. /\ plan[ses[s].plan].status = "proposed"
        /\ plan' = [plan EXCEPT ![ses[s].plan].status = "approved",
                                ![ses[s].plan].ref = ses[s].req]
    BY <1>3 DEF CommitApprove
  <2> QED
    BY <2>1, <2>2 DEF Typed, TypeOK, PlanRows
<1>4. ASSUME NEW w \in Workers, NEW refused \in SUBSET Commands, DeliverEvent(w, refused),
             plan' # plan
      PROVE  /\ plan'[p].ref = plan[p].ref /\ plan'[p].status = plan[p].status
             /\ plan[p].revokedBy # None => plan'[p].revokedBy = plan[p].revokedBy
             /\ plan[p].status # "approved" => plan'[p].revokedBy = plan[p].revokedBy
  <2> DEFINE q == req[wrk[w].ev].subject
  <2>1. plan' = [plan EXCEPT ![q].revokedBy = wrk[w].ev] /\ Reason(w) = "applied"
    BY <1>4 DEF DeliverEvent
  <2>2. CASE wrk[w].found = "attempt"
    <3>1. plan[q].status = "approved" /\ plan[q].revokedBy = None
      BY <2>1, <2>2 DEF Reason, RevokeReason, RevokedReason
    <3> QED
      BY <2>1, <3>1 DEF Typed, TypeOK, PlanRows
  <2>3. CASE wrk[w].found # "attempt"
    BY <2>1, <2>3 DEF Reason, DeliveryInv, WorkerInv, PreReads
  <2> QED
    BY <2>2, <2>3
<1> QED
  <2>1. \/ plan' = plan
        \/ \E q \in Plans : ProposeIssuerPlan(q) \/ (\E v \in {"cancelled", "superseded"} : EndPlan(q, v))
        \/ \E s \in Sessions : CommitApprove(s)
        \/ \E w \in Workers, refused \in SUBSET Commands : DeliverEvent(w, refused)
    BY CallerFrame, WorkerFrame, OthersFrame
       DEF Next, vars, Approvals, OpenIssuerApproval, OpenStray, OpenRequest, RecordDecision,
           WithdrawRequest, control, CommitIssue, CommitConsume
  <2>2. CASE \E q \in Plans : ProposeIssuerPlan(q) \/ (\E v \in {"cancelled", "superseded"} : EndPlan(q, v))
    BY <1>0, <1>2, <2>2 DEF PlanInv
  <2>3. CASE plan' # plan /\ \E s \in Sessions : CommitApprove(s)
    <3>1. PICK s \in Sessions : CommitApprove(s)
      BY <2>3
    <3>2. CASE p # ses[s].plan
      BY <1>0, <1>3, <2>3, <3>1, <3>2 DEF PlanInv, Over
    <3>3. CASE p = ses[s].plan
      BY <1>0, <1>3, <2>3, <3>1, <3>3, SetsAssumption DEF PlanInv, Over
    <3> QED
      BY <3>2, <3>3
  <2>4. CASE plan' # plan /\ \E w \in Workers, refused \in SUBSET Commands : DeliverEvent(w, refused)
    BY <1>0, <1>4, <2>4 DEF PlanInv, Over
  <2> QED
    BY <1>1, <2>1, <2>2, <2>3, <2>4

\* An authorization keeps its plan, is issued only while the approval stands
\* and issued or spent only while the request the plan carries is granted.
LEMMA AuthsKeep ==
  ASSUME Base, [Next]_vars, NEW c \in Commands
  PROVE  /\ AuthInv(c)'
         /\ auth[c].plan # None => auth'[c].plan = auth[c].plan
         /\ auth'[c].st = "issued" /\ auth[c].st # "issued" =>
              /\ UNCHANGED <<req, plan>> /\ auth'[c].plan \in Plans /\ Stands(auth'[c].plan)
              /\ req[plan[auth'[c].plan].ref].st = "granted"
         /\ auth'[c].st = "spent" /\ auth[c].st # "spent" =>
              /\ UNCHANGED <<req, plan>>
              /\ req[plan[auth'[c].plan].ref].st = "granted"
<1> USE DEF Base
<1>0. AuthInv(c) /\ auth \in [Commands -> AuthRows] /\ auth[c] \in AuthRows
  BY DEF BarrierInv, Typed, TypeOK
<1>1. CASE auth' = auth
  BY <1>0, <1>1 DEF AuthInv
<1>2. ASSUME NEW s \in Sessions, CommitIssue(s), auth' # auth
      PROVE  /\ UNCHANGED <<req, plan>>
             /\ c # ses[s].cmd => auth'[c] = auth[c]
             /\ c = ses[s].cmd =>
                  /\ auth[c].plan = None
                  /\ auth'[c] = [st |-> "issued", plan |-> ses[s].plan]
                  /\ ses[s].plan \in Plans /\ Stands(ses[s].plan)
                  /\ req[plan[ses[s].plan].ref].st = "granted"
  <2>1. /\ ses[s].plan \in Plans /\ Stands(ses[s].plan) /\ receipt[ses[s].cmd] = None
        /\ ses[s].cmd \in Commands /\ plan[ses[s].plan].ref = ses[s].req
        /\ req[ses[s].req].st = "granted"
        /\ auth' = [auth EXCEPT ![ses[s].cmd] = [st |-> "issued", plan |-> ses[s].plan]]
        /\ UNCHANGED <<req, plan>>
    BY <1>2 DEF CommitIssue, Commit, BarrierInv, SessionInv, Typed, SessionShape
  <2>2. c = ses[s].cmd => auth[c].plan = None
    BY <1>0, <2>1 DEF IndexIsComplete, AuthInv
  <2> QED
    BY <1>0, <2>1, <2>2
<1>3. ASSUME NEW s \in Sessions, CommitConsume(s)
      PROVE  /\ UNCHANGED <<req, plan>>
             /\ auth'[c].plan = auth[c].plan
             /\ c # ses[s].cmd => auth'[c] = auth[c]
             /\ c = ses[s].cmd =>
                  /\ auth[c].st = "issued" /\ auth'[c].st = "spent"
                  /\ req[plan[auth[c].plan].ref].st = "granted"
  <2>1. /\ auth[ses[s].cmd].plan = ses[s].plan /\ plan[ses[s].plan].ref = ses[s].req
        /\ auth[ses[s].cmd].st = "issued" /\ req[ses[s].req].st = "granted"
        /\ auth' = [auth EXCEPT ![ses[s].cmd].st = "spent"]
        /\ UNCHANGED <<req, plan>>
    BY <1>3 DEF CommitConsume, Commit, BarrierInv, SessionInv
  <2> QED
    BY <1>0, <2>1 DEF AuthRows
<1>4. ASSUME NEW w \in Workers, NEW refused \in SUBSET Commands, DeliverEvent(w, refused)
      PROVE  /\ auth'[c].plan = auth[c].plan
             /\ auth'[c].st = auth[c].st \/ (auth'[c].st = "revoked" /\ auth[c].st = "issued")
  <2>1. auth'[c] = auth[c] \/ (auth'[c] = [auth[c] EXCEPT !.st = "revoked"]
                                 /\ auth[c].st = "issued")
    BY <1>4 DEF DeliverEvent, Due, Revocable
  <2> QED
    BY <1>0, <2>1 DEF AuthRows
<1> QED
  <2>1. \/ auth' = auth
        \/ \E s \in Sessions : CommitIssue(s) \/ CommitConsume(s)
        \/ \E w \in Workers, refused \in SUBSET Commands : DeliverEvent(w, refused)
    BY ApprovalsFrame, CallerFrame, WorkerFrame, OthersFrame
       DEF Next, vars, control, CommitApprove
  <2>2. CASE auth' # auth /\ \E s \in Sessions : CommitIssue(s)
    <3>1. PICK s \in Sessions : CommitIssue(s)
      BY <2>2
    <3>2. CASE c = ses[s].cmd
      <4>1. /\ auth[c].plan = None
            /\ auth'[c] = [st |-> "issued", plan |-> ses[s].plan]
            /\ ses[s].plan \in Plans /\ Stands(ses[s].plan)
            /\ req[plan[ses[s].plan].ref].st = "granted" /\ UNCHANGED <<req, plan>>
        BY <1>2, <2>2, <3>1, <3>2
      <4>2. auth'[c].st = "issued" /\ auth'[c].plan = ses[s].plan
        BY <4>1
      <4> QED
        BY <4>1, <4>2 DEF AuthInv, Stands
    <3>3. CASE c # ses[s].cmd
      BY <1>0, <1>2, <2>2, <3>1, <3>3 DEF AuthInv
    <3> QED
      BY <3>2, <3>3
  <2>3. CASE \E s \in Sessions : CommitConsume(s)
    <3>1. PICK s \in Sessions : CommitConsume(s)
      BY <2>3
    <3>2. CASE c = ses[s].cmd
      BY <1>0, <1>3, <3>1, <3>2 DEF AuthInv
    <3>3. CASE c # ses[s].cmd
      BY <1>0, <1>3, <3>1, <3>3 DEF AuthInv
    <3> QED
      BY <3>2, <3>3
  <2>4. CASE \E w \in Workers, refused \in SUBSET Commands : DeliverEvent(w, refused)
    BY <1>0, <1>4, <2>4 DEF AuthInv
  <2> QED
    BY <1>1, <2>1, <2>2, <2>3, <2>4

\* What a transaction read, or holds, is still so when the step is over.
LEMMA SessionsKeep ==
  ASSUME Base, [Next]_vars, NEW s \in Sessions
  PROVE  SessionInv(s)'
<1> USE DEF Base
<1>0. /\ SessionInv(s)
      /\ ses[s].pc # "idle" => /\ ses[s].cmd \in Commands /\ ses[s].plan \in Plans
                               /\ ses[s].req \in Requests
  BY DEF BarrierInv, Typed, SessionShape
<1>1. CASE ses'[s] = ses[s]
  <2>1. ASSUME ses[s].pc = "held"
        PROVE  /\ req'[ses[s].req].st = "granted"
               /\ req'[ses[s].req].subject = ses[s].plan
    <3>1. ses[s].req \in Requests /\ s \in Holders(ses[s].req)
      BY <1>0, <2>1 DEF Holders
    <3>2. Holders(ses[s].req) # {}
      BY <3>1
    <3>3. req[ses[s].req].st = "granted" /\ req[ses[s].req].subject = ses[s].plan
      BY <1>0, <2>1 DEF SessionInv
    <3> QED
      BY <3>1, <3>2, <3>3, RequestsKeep
  <2>2. ASSUME ses[s].pc # "idle", ses[s].verb = "consume"
        PROVE  /\ auth'[ses[s].cmd].plan = ses[s].plan
               /\ plan'[ses[s].plan].ref = ses[s].req
    <3>1. /\ auth[ses[s].cmd].plan = ses[s].plan /\ ses[s].cmd \in Commands
          /\ plan[ses[s].plan].ref = ses[s].req /\ ses[s].plan \in Plans
          /\ ses[s].plan # None /\ ses[s].req # None
      BY <1>0, <2>2, SetsAssumption DEF SessionInv
    <3>2. auth'[ses[s].cmd].plan = ses[s].plan
      BY <3>1, AuthsKeep
    <3>3. plan'[ses[s].plan].ref = ses[s].req
      BY <3>1, PlansKeep
    <3> QED
      BY <3>2, <3>3
  <2> QED
    BY <1>1, <2>1, <2>2 DEF SessionInv
<1>2. CASE CallerStep(s)
  <2>1. ASSUME NEW c \in Commands, NEW p \in Plans, NEW r \in Requests, HoldToApprove(s, c, p, r)
        PROVE  SessionInv(s)'
    BY <2>1 DEF HoldToApprove, Holdable, Begin, SessionInv, Typed, TypeOK
  <2>2. ASSUME NEW c \in Commands, NEW p \in Plans, IssueRead(s, c, p)
        PROVE  SessionInv(s)'
    BY <2>2 DEF IssueRead, Begin, SessionInv, Typed, TypeOK
  <2>3. ASSUME NEW c \in Commands, NEW p \in Plans, ConsumeRead(s, c, p)
        PROVE  SessionInv(s)'
    <3>1. /\ auth' = auth /\ plan' = plan /\ auth[c].plan = p
          /\ ses' = [ses EXCEPT ![s] = [pc |-> "read", verb |-> "consume", cmd |-> c,
                                       plan |-> p, req |-> plan[p].ref]]
      BY <2>3 DEF ConsumeRead, Begin, control
    <3>2. ses'[s] = [pc |-> "read", verb |-> "consume", cmd |-> c, plan |-> p, req |-> plan[p].ref]
      BY <3>1 DEF Typed, TypeOK
    <3> QED
      BY <3>1, <3>2 DEF SessionInv
  <2>4. CASE HoldApproval(s)
    <3>1. /\ req' = req /\ plan' = plan /\ auth' = auth
          /\ ses' = [ses EXCEPT ![s].pc = "held"]
          /\ ses[s].pc = "read" /\ Holdable(ses[s].req, ses[s].plan)
      BY <2>4 DEF HoldApproval, control
    <3>2. /\ ses'[s].pc = "held" /\ ses'[s].verb = ses[s].verb /\ ses'[s].cmd = ses[s].cmd
          /\ ses'[s].plan = ses[s].plan /\ ses'[s].req = ses[s].req
      BY <3>1 DEF Typed, TypeOK, Transactions
    <3> QED
      BY <1>0, <3>1, <3>2 DEF SessionInv, Holdable
  <2>5. CASE ses' = [ses EXCEPT ![s] = IdleSes]
    BY <2>5 DEF SessionInv, IdleSes, Typed, TypeOK
  <2> QED
    BY <1>2, <2>1, <2>2, <2>3, <2>4, <2>5
       DEF CallerStep, CommitApprove, CommitIssue, CommitConsume, Commit, Rollback
<1> QED
  BY <1>1, <1>2, ApprovalsFrame, CallerFrame, WorkerFrame, OthersFrame DEF Next, vars

\* The barrier's part of the invariant, from the three lemmas above.
LEMMA BarrierKeeps ==
  ASSUME Base, [Next]_vars
  PROVE  BarrierInv'
<1>1. ASSUME NEW p \in Plans PROVE PlanInv(p)'
  <2>1. PlanInv(p) /\ plan[p].ref \in Requests \cup {None}
    BY DEF Base, BarrierInv, Typed, TypeOK, PlanRows
  <2>2. CASE plan'[p].ref = plan[p].ref
    <3>1. plan[p].ref # None =>
            /\ req'[plan[p].ref].subject = p
            /\ req'[plan[p].ref].st \in {"granted", "withdrawn"}
      BY <2>1, RequestsKeep DEF PlanInv, Base
    <3> QED
      BY <2>2, <3>1, PlansKeep DEF PlanInv
  <2>3. CASE plan'[p].ref # plan[p].ref
    BY <2>3, PlansKeep DEF PlanInv
  <2> QED
    BY <2>2, <2>3
<1> QED
  BY <1>1, SessionsKeep, AuthsKeep DEF BarrierInv

-----------------------------------------------------------------------------
(* The deliveries.  What a disposition says of a plan stays true.          *)

\* A disposition that is true of a withdrawn request stays true of it.
LEMMA TrueKeeps ==
  ASSUME Base, [Next]_vars, NEW p \in Plans, NEW r \in Requests, NEW reason,
         req[r].st = "withdrawn", TrueOf(reason, p, r)
  PROVE  TrueOf(reason, p, r)'
<1>1. reason \in Proof => plan'[p].revokedBy # None
  BY PlansKeep DEF TrueOf
<1>2. reason \in Undone => Over(p)'
  BY PlansKeep DEF TrueOf
<1>3. ASSUME reason \in Undone, NEW c \in Commands, auth'[c].plan = p PROVE auth'[c].st # "issued"
  <2>1. Over(p) /\ (auth[c].plan = p => auth[c].st # "issued")
    BY <1>3 DEF TrueOf
  <2>2. auth[c].st = "issued" => auth[c].plan \in Plans
    BY DEF Base, IndexIsComplete, Typed, TypeOK, Receipts
  <2>3. auth[c].st = "issued" => auth'[c].plan = auth[c].plan
    BY <2>2, AuthsKeep, SetsAssumption
  <2>4. auth'[c].st = "issued" /\ auth[c].st # "issued" => Stands(p)
    BY <1>3, AuthsKeep DEF Stands
  <2> QED
    BY <1>3, <2>1, <2>3, <2>4 DEF Stands, Over
<1>4. plan[p].ref # r => plan'[p].ref # r
  BY PlansKeep
<1> QED
  BY <1>1, <1>2, <1>3, <1>4 DEF TrueOf

\* An event that has an outcome keeps one.
LEMMA RecordedKeeps ==
  ASSUME Typed, [Next]_vars, NEW r \in Requests, Recorded(r) # {}
  PROVE  Recorded(r)' # {}
<1>1. PICK d \in Payloads : outcome[<<r, d>>] # NoRow
  BY DEF Recorded
<1>2. <<r, d>> \in Rows
  BY DEF Rows
<1>3. outcome'[<<r, d>>] # NoRow
  BY <1>1, <1>2, OutcomesStay
<1> QED
  BY <1>3 DEF Recorded

\* The outbox has a row for what is withdrawn, and a row is sent only by a
\* worker that delivered it.
LEMMA OutboxKeeps ==
  ASSUME Base, [Next]_vars, NEW r \in Requests
  PROVE  /\ outbox'[r].st # "absent" <=> req'[r].st = "withdrawn"
         /\ outbox'[r].st = "sent" =>
              outbox[r].st = "sent" \/ \E w \in Workers : wrk[w].pc = "delivered" /\ wrk[w].ev = r
<1> USE DEF Base
<1>0. /\ outbox[r].st # "absent" <=> req[r].st = "withdrawn"
      /\ outbox \in [Requests -> OutboxRows] /\ outbox[r] \in OutboxRows
      /\ req \in [Requests -> RequestRows] /\ req[r] \in RequestRows
  BY DEF DeliveryInv, EventInv, Typed, TypeOK
<1> DEFINE Same == /\ outbox'[r] = outbox[r]
                   /\ req'[r].st = "withdrawn" <=> req[r].st = "withdrawn"
<1>1. CASE WithdrawRequest(r)
  BY <1>0, <1>1 DEF WithdrawRequest, RequestRows, OutboxRows
<1>2. ASSUME Approvals, ~WithdrawRequest(r) PROVE Same
  <2>1. ASSUME NEW q \in Requests, q # r, WithdrawRequest(q) PROVE Same
    BY <1>0, <2>1 DEF WithdrawRequest
  <2>2. ASSUME NEW q \in Requests, NEW subject, NEW policy, OpenRequest(q, subject, policy)
        PROVE  Same
    BY <1>0, <2>2 DEF OpenRequest, Fresh, Opened, relay
  <2>3. ASSUME NEW q \in Requests, NEW v \in {"granted", "rejected"}, RecordDecision(q, v)
        PROVE  Same
    BY <1>0, <2>3 DEF RecordDecision, relay, RequestRows
  <2>4. ASSUME NEW p \in Plans, ProposeIssuerPlan(p) \/ (\E v \in {"cancelled", "superseded"} : EndPlan(p, v))
        PROVE  Same
    BY <2>4 DEF ProposeIssuerPlan, EndPlan, relay
  <2> QED
    BY <1>2, <2>1, <2>2, <2>3, <2>4 DEF Approvals, OpenIssuerApproval, OpenStray
<1>3. ASSUME NEW w \in Workers, WorkerStep(w)
      PROVE  /\ outbox'[r].st = "absent" <=> outbox[r].st = "absent"
             /\ outbox'[r].st = "sent" =>
                  outbox[r].st = "sent" \/ (wrk[w].pc = "delivered" /\ wrk[w].ev = r)
  <2>1. ASSUME NEW q \in Requests, ClaimEvent(w, q)
        PROVE  /\ outbox'[r].st = "absent" <=> outbox[r].st = "absent"
               /\ outbox'[r].st = "sent" => outbox[r].st = "sent"
    BY <1>0, <2>1 DEF ClaimEvent, OutboxRows
  <2>2. CASE SettleEvent(w)
    <3>1. CASE wrk[w].ev # r
      BY <1>0, <2>2, <3>1 DEF SettleEvent
    <3>2. CASE wrk[w].ev = r
      <4>1. /\ wrk[w].pc \in {"delivered", "failed"}
            /\ \/ outbox'[r] = outbox[r]
               \/ /\ outbox[r].lease = w /\ wrk[w].pc = "delivered"
                  /\ outbox'[r] = [outbox[r] EXCEPT !.st = "sent", !.lease = None]
               \/ outbox[r].lease = w /\ outbox'[r] = Failed(outbox[r])
        BY <1>0, <2>2, <3>2 DEF SettleEvent
      <4>2. outbox[r].lease = w => outbox[r].st # "absent"
        BY <2>2, <3>2, <4>1, <1>0 DEF DeliveryInv, WorkerInv
      <4>3. Failed(outbox[r]).st \in {"dead", "pending"}
        BY DEF Failed
      <4> QED
        BY <1>0, <3>2, <4>1, <4>2, <4>3 DEF OutboxRows
    <3> QED
      BY <3>1, <3>2
  <2> QED
    BY <1>3, <2>1, <2>2
       DEF WorkerStep, RouteEvent, ClassifyEvent, DeliverEvent, RefuseEvent, CollideOutcome,
           LoseDatabase, Fail
<1>4. ASSUME Interference \/ Administrator \/ \E q \in Requests : ExpireLease(q)
      PROVE  /\ outbox'[r].st = "absent" <=> outbox[r].st = "absent"
             /\ outbox'[r].st = "sent" => outbox[r].st = "sent"
  <2>1. ASSUME NEW q \in Requests, StallLease(q) \/ ExpireLease(q)
        PROVE  /\ outbox'[r].st = "absent" <=> outbox[r].st = "absent"
               /\ outbox'[r].st = "sent" => outbox[r].st = "sent"
    BY <1>0, <2>1 DEF StallLease, ExpireLease, Release, Abandoned, OutboxRows
  <2>2. ASSUME NEW q \in Requests, RequeueEvent(q)
        PROVE  /\ outbox'[r].st = "absent" <=> outbox[r].st = "absent"
               /\ outbox'[r].st = "sent" => outbox[r].st = "sent"
    BY <1>0, <2>2 DEF RequeueEvent
  <2> QED
    BY <1>4, <2>1, <2>2
       DEF Interference, Administrator, CrashWorker, AlterPayload, Dismiss, Redrive, relay
<1>5. CASE UNCHANGED vars
  BY <1>0, <1>5 DEF vars
<1> QED
  BY <1>0, <1>1, <1>2, <1>3, <1>4, <1>5, CallerFrame, WorkerFrame, OthersFrame DEF Next

\* What the outbox says of an event is still so when the step is over.
LEMMA EventsKeep ==
  ASSUME Base, [Next]_vars, NEW r \in Requests
  PROVE  EventInv(r)'
<1> USE DEF Base
<1>1. ASSUME outbox'[r].st = "sent" PROVE Recorded(r)' # {} /\ req'[r].subject \in Plans
  <2>1. Recorded(r) # {} /\ req[r].subject \in Plans /\ req[r].st = "withdrawn"
    BY <1>1, OutboxKeeps DEF DeliveryInv, EventInv, WorkerInv
  <2> QED
    BY <2>1, RecordedKeeps, RequestsKeep
<1> QED
  BY <1>1, OutboxKeeps DEF EventInv

\* What a worker knows of the event it works on outlives the steps of others.
LEMMA WorkersKeep ==
  ASSUME Base, [Next]_vars, NEW w \in Workers
  PROVE  WorkerInv(w)'
<1> USE DEF Base
<1>0. /\ WorkerInv(w) /\ wrk \in [Workers -> Deliveries] /\ wrk[w] \in Deliveries
  BY DEF DeliveryInv, Typed, TypeOK
<1>1. CASE wrk'[w] = wrk[w]
  <2> DEFINE r == wrk[w].ev
             p == req[r].subject
  <2>1. ASSUME wrk[w].pc # "idle"
        PROVE  r \in Requests /\ wrk[w].dig \in Payloads /\ req'[r].st = "withdrawn" /\ req'[r].subject = p
    BY <1>0, <2>1, RequestsKeep DEF WorkerInv
  <2>2. ASSUME wrk[w].pc = "delivered" PROVE \E d \in Payloads : outcome'[<<r, d>>] # NoRow
    <3>1. r \in Requests /\ Recorded(r) # {}
      BY <1>0, <2>1, <2>2 DEF WorkerInv
    <3>2. PICK d \in Payloads : outcome[<<r, d>>] # NoRow
      BY <3>1 DEF Recorded
    <3> QED
      BY <3>1, <3>2, OutcomesStay DEF Rows
  <2>3. ASSUME wrk[w].pc = "decided"
        PROVE  /\ p \in Plans /\ wrk[w].found # "none"
               /\ wrk[w].found \in Proof => plan'[p].revokedBy # None
               /\ wrk[w].found = "decision_not_carried" => plan'[p].ref # r
    <3>1. p \in Plans /\ req[r].st = "withdrawn"
      BY <1>0, <2>3 DEF WorkerInv
    <3> QED
      BY <1>0, <2>3, <3>1, PlansKeep DEF WorkerInv
  <2> QED
    BY <1>0, <1>1, <2>1, <2>2, <2>3 DEF WorkerInv, Recorded
<1>2. CASE wrk' = [wrk EXCEPT ![w] = IdleWrk]
  BY <1>0, <1>2 DEF IdleWrk, WorkerInv, PreReads
<1>3. ASSUME NEW r \in Requests, ClaimEvent(w, r) PROVE WorkerInv(w)'
  <2>1. wrk'[w] = [IdleWrk EXCEPT !.pc = "claimed", !.ev = r, !.dig = payload[r]] /\ req' = req
    BY <1>0, <1>3 DEF ClaimEvent
  <2>2. /\ wrk'[w].pc = "claimed" /\ wrk'[w].ev = r /\ wrk'[w].dig \in Payloads
        /\ wrk'[w].found = "none"
    BY <2>1 DEF IdleWrk, Typed, TypeOK
  <2>3. req[r].st = "withdrawn"
    BY <1>3 DEF ClaimEvent, DeliveryInv, EventInv
  <2> QED
    BY <2>1, <2>2, <2>3 DEF WorkerInv, PreReads
<1>4. CASE RouteEvent(w)
  <2>1. PICK n \in {"delivered", "classify", "decided"} :
          /\ wrk' = [wrk EXCEPT ![w].pc = n, ![w].at = clock,
                                ![w].found = IF n = "decided" THEN "payload_changed" ELSE "none"]
          /\ n = "delivered" => Recorded(wrk[w].ev) # {}
    BY <1>4 DEF RouteEvent
  <2>2. /\ wrk'[w].pc = n /\ wrk'[w].ev = wrk[w].ev /\ wrk'[w].dig = wrk[w].dig
        /\ wrk'[w].found = IF n = "decided" THEN "payload_changed" ELSE "none"
    BY <1>0, <2>1 DEF Deliveries
  <2>3. /\ wrk[w].pc = "claimed" /\ req[wrk[w].ev].subject \in Plans
        /\ UNCHANGED <<req, plan, outcome>>
    BY <1>4 DEF RouteEvent, control, ledger
  <2> QED
    BY <1>0, <2>1, <2>2, <2>3 DEF WorkerInv, PreReads, Recorded, Proof
<1>5. CASE ClassifyEvent(w)
  <2> DEFINE r == wrk[w].ev
             f == PreRead(r, wrk[w].dig, plan[req[r].subject])
  <2>1. /\ wrk' = [wrk EXCEPT ![w].pc = "decided", ![w].found = f]
        /\ wrk[w].pc = "classify" /\ UNCHANGED <<req, plan, outcome>>
    BY <1>5 DEF ClassifyEvent, control, ledger
  <2>2. /\ f \in PreReads \ {"none"}
        /\ f \in Proof => plan[req[r].subject].revokedBy # None
        /\ f = "decision_not_carried" => plan[req[r].subject].ref # r
    BY DEF PreRead, RevokedReason, PreReads, Proof
  <2> HIDE DEF f
  <2>3. /\ wrk'[w].pc = "decided" /\ wrk'[w].found = f /\ wrk'[w].ev = r
        /\ wrk'[w].dig = wrk[w].dig
    BY <1>0, <2>1 DEF Deliveries
  <2> QED
    BY <1>0, <2>1, <2>2, <2>3 DEF WorkerInv
<1>6. ASSUME NEW refused \in SUBSET Commands, DeliverEvent(w, refused) PROVE WorkerInv(w)'
  <2>1. /\ wrk' = [wrk EXCEPT ![w].pc = "delivered"] /\ wrk[w].pc = "decided"
        /\ req' = req
        /\ outcome' = [outcome EXCEPT ![RowOf(w)] =
             [reason |-> IF refused = {} THEN Reason(w) ELSE "revocation_refused", at |-> wrk[w].at]]
    BY <1>6 DEF DeliverEvent
  <2>2. /\ wrk'[w].pc = "delivered" /\ wrk'[w].found = wrk[w].found /\ wrk'[w].ev = wrk[w].ev
        /\ wrk'[w].dig = wrk[w].dig
    BY <1>0, <2>1 DEF Deliveries
  <2>3. wrk[w].ev \in Requests /\ wrk[w].dig \in Payloads /\ wrk[w].found # "none"
    BY <1>0, <2>1 DEF WorkerInv
  <2>4. Reason(w) # "none"
    BY <2>3 DEF Reason, RevokeReason, RevokedReason
  <2>5. outcome'[<<wrk[w].ev, wrk[w].dig>>].reason # "none"
    BY <2>1, <2>3, <2>4 DEF RowOf, Rows, Typed, TypeOK
  <2>6. Recorded(wrk[w].ev)' # {}
    BY <2>2, <2>3, <2>5 DEF Recorded, NoRow
  <2> QED
    BY <1>0, <2>1, <2>2, <2>3, <2>6 DEF WorkerInv, Recorded
<1>7. CASE wrk[w].pc # "idle" /\ req' = req /\ wrk' = [wrk EXCEPT ![w].pc = "failed"]
  <2>1. /\ wrk'[w].pc = "failed" /\ wrk'[w].found = wrk[w].found /\ wrk'[w].ev = wrk[w].ev
        /\ wrk'[w].dig = wrk[w].dig
    BY <1>0, <1>7 DEF Deliveries
  <2> QED
    BY <1>0, <1>7, <2>1 DEF WorkerInv
<1>8. CASE WorkerStep(w)
  BY <1>2, <1>3, <1>4, <1>5, <1>6, <1>7, <1>8
     DEF WorkerStep, RefuseEvent, CollideOutcome, LoseDatabase, Fail, SettleEvent
<1>9. CASE Interference \/ Administrator \/ \E r \in Requests : ExpireLease(r)
  <2>1. ASSUME NEW v \in Workers, CrashWorker(v) PROVE WorkerInv(w)'
    <3>1. CASE v = w
      BY <1>2, <2>1, <3>1 DEF CrashWorker
    <3>2. CASE v # w
      BY <1>0, <1>1, <2>1, <3>2 DEF CrashWorker
    <3> QED
      BY <3>1, <3>2
  <2> QED
    BY <1>1, <1>9, <2>1
       DEF Interference, Administrator, StallLease, RequeueEvent, AlterPayload, Dismiss, Redrive,
           ExpireLease, relay
<1> QED
  BY <1>1, <1>8, <1>9, ApprovalsFrame, CallerFrame, WorkerFrame DEF Next, vars

\* What a delivery records is true of the plan it leaves behind.
LEMMA DeliveredIsTrue ==
  ASSUME Base, [Next]_vars, NEW w \in Workers, NEW refused \in SUBSET Commands,
         DeliverEvent(w, refused), NEW r \in Requests, r = wrk[w].ev,
         NEW p \in Plans, p = req[r].subject, NEW reason,
         reason = IF refused = {} THEN Reason(w) ELSE "revocation_refused"
  PROVE  TrueOf(reason, p, r)'
<1> USE DEF Base
<1>0. /\ WorkerInv(w) /\ wrk[w].pc = "decided" /\ plan \in [Plans -> PlanRows]
      /\ plan[p] \in PlanRows /\ PlanInv(p)
  BY DEF DeliverEvent, DeliveryInv, BarrierInv, Typed, TypeOK
<1>1. CASE refused # {}
  BY <1>1 DEF TrueOf, Proof, Undone
<1>2. CASE refused = {}
  <2>1. reason = IF wrk[w].found = "attempt" THEN RevokeReason(r, plan[p]) ELSE wrk[w].found
    BY <1>2 DEF Reason
  <2>2. plan' = IF reason = "applied" THEN [plan EXCEPT ![p].revokedBy = r] ELSE plan
    BY <1>2 DEF DeliverEvent
  <2>3. reason = "applied" => plan'[p].revokedBy = r
    BY <1>0, <2>2 DEF PlanRows
  <2>4. /\ reason \in Proof \ {"applied"} => plan[p].revokedBy # None
        /\ reason \in Undone \ Proof => plan[p].status \in {"cancelled", "superseded"}
        /\ reason \in {"decision_not_carried", "never_approved"} => plan[p].ref # r
    <3>1. CASE wrk[w].found = "attempt"
      <4>1. /\ reason \in Proof \ {"applied"} => plan[p].revokedBy # None
            /\ reason \in Undone \ Proof => plan[p].status \in {"cancelled", "superseded"}
            /\ reason \in {"decision_not_carried", "never_approved"} =>
                 plan[p].status \in {"absent", "proposed"}
        BY <1>0, <2>1, <3>1 DEF RevokeReason, RevokedReason, Proof, Undone, PlanRows
      <4> QED
        BY <1>0, <4>1, SetsAssumption DEF PlanInv
    <3>2. CASE wrk[w].found # "attempt"
      BY <1>0, <2>1, <3>2 DEF WorkerInv, PreReads, Proof, Undone
    <3> QED
      BY <3>1, <3>2
  <2>5. /\ reason \in Proof => plan'[p].revokedBy # None
        /\ reason \in Undone => Over(p)'
        /\ reason \in {"decision_not_carried", "never_approved"} => plan'[p].ref # r
    BY <2>2, <2>3, <2>4, SetsAssumption DEF Over, Proof, Undone
  <2>6. ASSUME reason \in Undone, NEW c \in Commands, auth'[c].plan = p
        PROVE  auth'[c].st # "issued"
    <3>1. Due(w) = Revocable(p)
      BY <1>2, <2>6 DEF Due
    <3>2. auth'[c] = IF c \in Due(w) THEN [auth[c] EXCEPT !.st = "revoked"] ELSE auth[c]
      BY <1>2 DEF DeliverEvent
    <3>3. auth[c] \in AuthRows
      BY DEF Typed, TypeOK
    <3>4. auth[c].plan = p
      BY <2>6, <3>2, <3>3 DEF AuthRows
    <3>5. auth[c].st = "issued" => c \in Revocable(p)
      BY <3>4 DEF IndexIsComplete, Revocable
    <3> QED
      BY <3>1, <3>2, <3>3, <3>5 DEF AuthRows
  <2> QED
    BY <2>5, <2>6 DEF TrueOf
<1> QED
  BY <1>1, <1>2

\* A recorded outcome, and a conflict that is resolved, keep what they rest on.
LEMMA RowsKeep ==
  ASSUME Base, [Next]_vars, NEW row \in Rows
  PROVE  RowInv(row)'
<1> USE DEF Base
<1>0. PICK r \in Requests, d \in Payloads : row = <<r, d>> /\ row[1] = r
  BY DEF Rows
<1>1. RowInv(row)
  BY DEF DeliveryInv
<1>2. ASSUME outcome'[row] # NoRow
      PROVE  \E p \in Plans : \E reason :
               /\ req'[r].st = "withdrawn" /\ req'[r].subject = p
               /\ outcome'[row].reason = reason /\ reason # "none"
               /\ TrueOf(reason, p, r)'
  <2>1. CASE outcome[row] # NoRow
    <3>1. outcome'[row] = outcome[row]
      BY <2>1, OutcomesStay
    <3>2. PICK reason : reason = outcome[row].reason
      OBVIOUS
    <3>3. PICK p \in Plans : p = req[r].subject
      BY <1>0, <1>1, <2>1 DEF RowInv
    <3>4. req[r].st = "withdrawn" /\ reason # "none" /\ TrueOf(reason, p, r)
      BY <1>0, <1>1, <2>1, <3>2, <3>3 DEF RowInv
    <3>5. TrueOf(reason, p, r)'
      BY <3>4, TrueKeeps
    <3>6. req'[r].st = "withdrawn" /\ req'[r].subject = p
      BY <3>3, <3>4, RequestsKeep
    <3> QED
      BY <3>1, <3>2, <3>4, <3>5, <3>6
  <2>2. CASE outcome[row] = NoRow
    <3>1. PICK w \in Workers, refused \in SUBSET Commands : DeliverEvent(w, refused)
      BY <1>2, <2>2, OutcomesGrow
    <3>2. PICK reason : reason = IF refused = {} THEN Reason(w) ELSE "revocation_refused"
      OBVIOUS
    <3>3. /\ outcome' = [outcome EXCEPT ![RowOf(w)] = [reason |-> reason, at |-> wrk[w].at]]
          /\ wrk[w].pc = "decided" /\ req' = req
      BY <3>1, <3>2 DEF DeliverEvent
    <3>4. row = RowOf(w) /\ outcome'[row].reason = reason
      BY <1>2, <2>2, <3>3 DEF Typed, TypeOK
    <3>5. r = wrk[w].ev
      BY <1>0, <3>4 DEF RowOf
    <3>6. WorkerInv(w)
      BY DEF DeliveryInv
    <3>7. PICK p \in Plans : p = req[r].subject
      BY <3>3, <3>5, <3>6 DEF WorkerInv
    <3>8. req[r].st = "withdrawn" /\ wrk[w].found # "none"
      BY <3>3, <3>5, <3>6 DEF WorkerInv
    <3>9. reason # "none"
      BY <3>2, <3>8 DEF Reason, RevokeReason, RevokedReason
    <3>10. TrueOf(reason, p, r)'
      BY <3>1, <3>2, <3>5, <3>7, DeliveredIsTrue
    <3> QED
      BY <3>3, <3>4, <3>7, <3>8, <3>9, <3>10
  <2> QED
    BY <2>1, <2>2
<1>3. ASSUME resolution'[row] # None
      PROVE  /\ outcome'[row] # NoRow
             /\ resolution'[row].how = "redriven" => plan'[req'[r].subject].revokedBy # None
  <2>1. /\ outcome[row] # NoRow
        /\ resolution'[row].how = "redriven" => plan[req[r].subject].revokedBy # None
    <3>1. CASE resolution'[row] = resolution[row]
      BY <1>0, <1>1, <1>3, <3>1 DEF RowInv
    <3>2. CASE resolution'[row] # resolution[row]
      <4>1. Administrator
        BY <3>2, ApprovalsFrame, CallerFrame, WorkerFrame, OthersFrame DEF Next, vars
      <4>2. CASE Dismiss(row)
        BY <4>2 DEF Dismiss, Unresolved, Conflicts, NoRow, Typed, TypeOK
      <4>3. ASSUME NEW ref \in Rows, Redrive(row, ref)
            PROVE  outcome[row] # NoRow /\ plan[req[r].subject].revokedBy # None
        <5>1. outcome[row] # NoRow /\ outcome[ref] # NoRow /\ outcome[ref].reason \in Proof
          BY <4>3 DEF Redrive, Unresolved, Proves, Conflicts, Proof, NoRow
        <5>2. req[ref[1]].subject = req[r].subject
          BY <1>0, <4>3 DEF Redrive, Proves
        <5>3. RowInv(ref)
          BY DEF DeliveryInv
        <5> QED
          BY <5>1, <5>2, <5>3 DEF RowInv, TrueOf
      <4>4. ASSUME NEW x \in Rows, x # row, Dismiss(x) \/ (\E ref \in Rows : Redrive(x, ref))
            PROVE  FALSE
        BY <3>2, <4>4 DEF Dismiss, Redrive, Typed, TypeOK
      <4> QED
        BY <4>1, <4>2, <4>3, <4>4 DEF Administrator
    <3> QED
      BY <3>1, <3>2
  <2>2. outcome'[row] = outcome[row]
    BY <2>1, OutcomesStay
  <2>3. req[r].subject \in Plans /\ req'[r].subject = req[r].subject
    BY <1>0, <1>1, <2>1, RequestsKeep DEF RowInv
  <2> QED
    BY <2>1, <2>2, <2>3, PlansKeep
<1>4. outcome'[row] # NoRow => /\ req'[r].st = "withdrawn" /\ req'[r].subject \in Plans
                               /\ outcome'[row].reason # "none"
  BY <1>2
<1>5. outcome'[row] # NoRow => TrueOf(outcome[row].reason, req[r].subject, r)'
  BY <1>2 DEF TrueOf, Over
<1> QED
  BY <1>0, <1>3, <1>4, <1>5 DEF RowInv

\* Every step preserves the invariant.
LEMMA BaseKeeps ==
  ASSUME Base, [Next]_vars, Typed', IndexIsComplete'
  PROVE  Base'
BY BarrierKeeps, EventsKeep, WorkersKeep, RowsKeep DEF Base, DeliveryInv

\* The invariant every theorem below rests on.
LEMMA AlwaysBase == Spec => []Base
<1>1. Init /\ Typed /\ IndexIsComplete => Base
  <2> SUFFICES ASSUME Init, Typed, IndexIsComplete PROVE BarrierInv /\ DeliveryInv
    BY DEF Base
  <2>1. BarrierInv
    BY DEF Init, BarrierInv, SessionInv, PlanInv, AuthInv, IdleSes, NoPlan, NoAuth
  <2>2. DeliveryInv
    BY DEF Init, DeliveryInv, EventInv, WorkerInv, RowInv, PreReads, IdleWrk, Rows, Recorded
  <2> QED
    BY <2>1, <2>2
<1>2. Base /\ [Next]_vars /\ Typed' /\ IndexIsComplete' => Base'
  BY BaseKeeps
<1> QED
  BY <1>1, <1>2, AlwaysTyped, IndexComplete, PTL DEF Spec

-----------------------------------------------------------------------------
(* What the invariant gives.                                               *)

\* However a caller's transaction and a withdrawal race, nothing is approved,
\* issued or spent under a request that is not granted at that step
\* (held_transition in approval_barrier.py).
THEOREM BarrierHolds == Spec => NoUseAfterWithdrawal
<1>1. ASSUME Base, [Next]_vars
      PROVE  [/\ \A p \in Plans : plan'[p].ref # plan[p].ref => req'[plan'[p].ref].st = "granted"
              /\ \A c \in Commands :
                   auth'[c].st # auth[c].st /\ auth'[c].st \in {"issued", "spent"}
                     => req'[plan[auth'[c].plan].ref].st = "granted"]_vars
  <2>1. ASSUME NEW p \in Plans, plan'[p].ref # plan[p].ref PROVE req'[plan'[p].ref].st = "granted"
    BY <1>1, <2>1, PlansKeep
  <2>2. ASSUME NEW c \in Commands, auth'[c].st # auth[c].st, auth'[c].st \in {"issued", "spent"}
        PROVE  req'[plan[auth'[c].plan].ref].st = "granted"
    BY <1>1, <2>2, AuthsKeep
  <2> QED
    BY <2>1, <2>2
<1>2. Base /\ [Next]_vars =>
        [/\ \A p \in Plans : plan'[p].ref # plan[p].ref => req'[plan'[p].ref].st = "granted"
         /\ \A c \in Commands :
              auth'[c].st # auth[c].st /\ auth'[c].st \in {"issued", "spent"}
                => req'[plan[auth'[c].plan].ref].st = "granted"]_vars
  BY <1>1
<1> QED
  BY <1>2, AlwaysBase, PTL DEF Spec, NoUseAfterWithdrawal

\* A row of the outbox is sent only over a recorded outcome (_deliver in
\* approval_router.py).
THEOREM NothingSettledSilently == Spec => []SettledHasOutcome
<1>1. Base => SettledHasOutcome
  BY DEF Base, DeliveryInv, EventInv, SettledHasOutcome
<1> QED
  BY <1>1, AlwaysBase, PTL

\* An outcome that says the approval no longer stands is true when it is
\* recorded and ever after: the plan stays revoked or over, and no usable
\* authorization of it is left or issued again (classify_approval_withdrawal and
\* _with_authorization_revocation in protected_rehearsal_issuer.py).
THEOREM OutcomesAreTrue == Spec => []OutcomeIsTrue
<1>1. ASSUME Base, NEW row \in Rows
      PROVE  LET p == req[row[1]].subject IN
             /\ outcome[row].reason \in Proof => plan[p].revokedBy # None
             /\ outcome[row].reason \in Undone =>
                  ~Stands(p) /\ \A c \in Commands : auth[c].plan = p => auth[c].st # "issued"
  <2>1. outcome[row].reason \in Undone => outcome[row] # NoRow
    BY DEF Undone, Proof, NoRow
  <2>2. RowInv(row)
    BY <1>1 DEF Base, DeliveryInv
  <2> QED
    BY <2>1, <2>2 DEF RowInv, TrueOf, Over, Stands, Undone
<1>2. Base => OutcomeIsTrue
  BY <1>1 DEF OutcomeIsTrue
<1> QED
  BY <1>2, AlwaysBase, PTL

\* A conflict that an administrator closes as redriven is closed over an approval
\* that is revoked (_require_redrive_evidence in withdrawal_outcomes.py).
THEOREM RedrivesAreTrue == Spec => []RedrivenIsTrue
<1>1. Base => RedrivenIsTrue
  BY DEF Base, DeliveryInv, RowInv, RedrivenIsTrue
<1> QED
  BY <1>1, AlwaysBase, PTL

\* Relay health is not clear over a withdrawn approval that Control still
\* carries, but for a first delivery under way and a conflict an administrator
\* dismissed (_verdict and withdrawal_failing in health.py).
THEOREM HealthTells == Spec => []HealthIsRed
<1>1. ASSUME Base, NEW r \in Requests, req[r].st = "withdrawn", Carried(r), Verdict = "clear"
      PROVE  \/ outbox[r].st \in {"pending", "claimed"} /\ outbox[r].attempts = 0
             \/ Dismissed(r)
  <2>1. PICK p \in Plans : Stands(p) /\ plan[p].ref = r
    BY <1>1 DEF Carried
  <2>2. req[r].subject = p
    BY <1>1, <2>1, SetsAssumption DEF Base, BarrierInv, PlanInv
  <2>3. /\ ~Conflicted /\ ~DeadLetters
        /\ ~\E q \in Requests : outbox[q].st \in {"pending", "claimed"} /\ outbox[q].attempts > 0
    BY <1>1 DEF Verdict, VerdictOf
  <2>4. outbox[r] \in OutboxRows /\ outbox[r].st # "absent" /\ outbox[r].st # "dead"
    BY <1>1, <2>3 DEF Base, DeliveryInv, EventInv, DeadLetters, Typed, TypeOK
  <2>5. CASE outbox[r].st \in {"pending", "claimed"}
    BY <2>3, <2>4, <2>5 DEF OutboxRows
  <2>6. CASE outbox[r].st = "sent"
    <3>1. PICK d \in Payloads : outcome[<<r, d>>] # NoRow
      BY <1>1, <2>6 DEF Base, DeliveryInv, EventInv, Recorded
    <3>2. <<r, d>> \in Rows /\ <<r, d>>[1] = r
      BY DEF Rows
    <3>3. RowInv(<<r, d>>) /\ outcome[<<r, d>>].reason \in Reasons \cup {"none"}
      BY <1>1, <3>2 DEF Base, DeliveryInv, Typed, TypeOK, OutcomeRows
    <3>4. TrueOf(outcome[<<r, d>>].reason, p, r) /\ outcome[<<r, d>>].reason # "none"
      BY <2>2, <3>1, <3>2, <3>3 DEF RowInv
    <3>5. outcome[<<r, d>>].reason \in Conflicts
      BY <2>1, <3>3, <3>4 DEF TrueOf, Over, Stands, Reasons
    <3>6. resolution[<<r, d>>] # None
      BY <2>3, <3>2, <3>5 DEF Conflicted, Unresolved
    <3>7. resolution[<<r, d>>] \in Resolutions
      BY <1>1, <3>2, <3>6 DEF Base, Typed, TypeOK
    <3>8. resolution[<<r, d>>].how # "redriven"
      BY <2>1, <2>2, <3>2, <3>3, <3>6 DEF RowInv, Stands
    <3> QED
      BY <3>6, <3>7, <3>8 DEF Dismissed, Resolutions
  <2> QED
    BY <2>4, <2>5, <2>6 DEF OutboxRows
<1>2. Base => HealthIsRed
  BY <1>1 DEF HealthIsRed
<1> QED
  BY <1>2, AlwaysBase, PTL
=============================================================================
