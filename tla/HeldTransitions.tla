--------------------------- MODULE HeldTransitions ---------------------------
(***************************************************************************)
(* Every transition that consumes an approval, and what follows from it.   *)
(* A commercial agreement and a Foundation execution plan are moved by     *)
(* their owners (Commercial Agreements, Deployment Control); the control   *)
(* plane's adapters read the subject, take Approvals' FOR SHARE hold on    *)
(* the request and run the owner's transition under it in one transaction  *)
(* (approval_barrier.held_transition).  The owners run a command at most   *)
(* once, keyed on its id alone.  An activation is relayed to Entitlement   *)
(* Allocation, whose allocation a licence is issued from.                  *)
(*                                                                         *)
(* The owners' tables are external: their guards are the ones the adapters *)
(* rely on.  Commands that hold nothing carry ids of their own.            *)
(***************************************************************************)
EXTENDS Naturals

CONSTANTS
  Agreements, Plans,  \* subjects of Commercial Agreements, of Deployment Control
  Requests,           \* platform approval requests
  Commands,           \* ids a client gives, and may reuse, for held transitions
  Sessions,           \* concurrent request handlers
  MaxTries,           \* deliveries the relay makes before it dead-letters
  None

ASSUME TriesAssumption == MaxTries \in Nat \ {0}
ASSUME SubjectsAssumption == Agreements \cap Plans = {} /\ None \notin Requests \cup Commands

Subjects == Agreements \cup Plans

\* The status a verb moves a subject from and to.
AgreementMoves == [approve   |-> <<"proposed", "approved">>,
                   activate  |-> <<"approved", "active">>,
                   reinstate |-> <<"suspended", "active">>]
PlanMoves == [approve  |-> <<"proposed", "approved">>,
              rollout  |-> <<"approved", "rolled-out">>,
              dispatch |-> <<"rolled-out", "dispatched">>,
              finalize |-> <<"dispatched", "consumed">>]
Moves(x) == IF x \in Agreements THEN AgreementMoves ELSE PlanMoves
Verbs    == DOMAIN AgreementMoves \cup DOMAIN PlanMoves
Statuses == {"none", "draft", "proposed", "approved", "active", "suspended", "ended",
             "rolled-out", "dispatched", "consumed"}
RolledOut == {"rolled-out", "dispatched", "consumed"}

VARIABLES
  offered,    \* an offer version granting the agreement's capability is published
  status,     \* the owner's status of each subject
  decision,   \* the request whose decision the subject carries
  struck,     \* the owner has recorded that decision as withdrawn
  req,        \* state of each approval request
  about,      \* the subject and digest a request is bound to
  notice,     \* the relayed approval.withdrawn event of a request
  ledger,     \* what each command id was spent on: the at-most-once ledger
  ses,        \* a handler: where it is and what it was asked to do
  reply,      \* the answer a handler gave in this step
  fact,       \* the live agreement activation event and its deliveries
  allocated, signing, licensed,   \* allocation staged, issuer past its reads, licence issued
  cont        \* a plan's host admission: none, or resolved under a host context
              \* that is still the same or has changed
subjectv == <<status, decision, struck, ledger>>
requestv == <<req, about, notice>>
grantv   == <<offered, fact, allocated, signing, licensed>>
vars == <<subjectv, requestv, grantv, cont, ses, reply>>

NoReply == [ok |-> FALSE, to |-> None]
Idle == [pc |-> "idle", x |-> None, verb |-> "none", cmd |-> None, q |-> None]

-----------------------------------------------------------------------------
(* The catalogue, offers, drafts and proposals.                             *)

\* Whether the catalogue declares the capability: rebuilt on every use from
\* release pins and held documents that an operator changes between uses.
Declared == BOOLEAN

PublishOffer ==
  /\ ~offered /\ TRUE \in Declared
  /\ offered' = TRUE
  /\ UNCHANGED <<fact, allocated, signing, licensed>>

CreateDraft(x) ==
  /\ status[x] = "none" /\ offered /\ TRUE \in Declared
  /\ status' = [status EXCEPT ![x] = "draft"]
  /\ UNCHANGED <<decision, struck, ledger>>

Unopened(q) == req[q] = "none"
Opened(q, x) == /\ req' = [req EXCEPT ![q] = "open"]
                /\ about' = [about EXCEPT ![q] = x]
                /\ UNCHANGED notice

\* Freezes the content and opens the approval request over it, in one transaction.
Propose(x, q) ==
  /\ status[x] = "draft" /\ TRUE \in Declared /\ Unopened(q)
  /\ status' = [status EXCEPT ![x] = "proposed"]
  /\ Opened(q, x)
  /\ UNCHANGED <<decision, struck, ledger>>

ProposeFoundationPlan(x) ==
  /\ status[x] = "none"
  /\ status' = [status EXCEPT ![x] = "proposed"]
  /\ UNCHANGED <<decision, struck, ledger, requestv>>

\* Any admin may open a request over any frozen subject.
OpenRequest(q, x) ==
  /\ Unopened(q) /\ status[x] \notin {"none", "draft"}
  /\ Opened(q, x)

-----------------------------------------------------------------------------
(* Approvals: decisions, withdrawal under FOR UPDATE, the relayed event.    *)

RecordDecision(q) ==
  /\ req[q] = "open"
  /\ \E d \in {"approved", "rejected"} : req' = [req EXCEPT ![q] = d]
  /\ UNCHANGED <<about, notice>>

\* Mutant: a withdrawal that does not wait for the rows held FOR SHARE.
MutNobodyHolds(q) == {}
Holders(q) == {s \in Sessions : ses[s].pc = "held" /\ ses[s].q = q}

WithdrawRequest(q) ==
  /\ req[q] = "approved" /\ Holders(q) = {}
  /\ req' = [req EXCEPT ![q] = "withdrawn"]
  /\ notice' = [notice EXCEPT ![q] = "pending"]
  /\ UNCHANGED about

\* Mutant: an agreement that is not active is taken to carry no decision.
MutClassified(q) == IF about[q] \in Plans THEN "unroutable"
                    ELSE IF decision[about[q]] = q /\ status[about[q]] = "active" THEN "recorded"
                    ELSE "not-carried"
\* A plan's withdrawal has no handler and is dead-lettered; an agreement's is
\* recorded by its owner, which answers whether the agreement carried it.
Classified(q) == IF about[q] \in Plans THEN "unroutable"
                 ELSE IF decision[about[q]] = q THEN "recorded" ELSE "not-carried"

RecordWithdrawal(q) ==
  /\ notice[q] = "pending"
  /\ notice' = [notice EXCEPT ![q] = Classified(q)]
  /\ struck' = IF Classified(q) = "recorded" THEN [struck EXCEPT ![about[q]] = TRUE] ELSE struck
  /\ UNCHANGED <<req, about, status, decision, ledger>>

-----------------------------------------------------------------------------
(* The adapters: read, hold, run the owner's transition, commit.            *)

Recorded(c, x, v) == c # None /\ ledger[c] = <<x, v>>

\* Only the agreement adapter looks for the transition in the history first.
Replayed(x, v, c) == x \in Agreements /\ Recorded(c, x, v)

\* Approval holds the request the caller names, every later verb the one the
\* subject carries (activation refuses a caller who names another).
Named(x, v, q) == v = "approve" \/ (decision[x] # None /\ q = decision[x])

\* The host context is the one its admission was resolved under.
Admissible(x, v) == v = "finalize" => cont[x] = "same"

Readable(x, v) ==
  /\ status[x] \notin {"none", "draft"}
  /\ v = "dispatch" => status[x] \in RolledOut

\* None is an id used for one command only; consumption has no command id.
Keyed(v, c) == v = "finalize" => c = None

Begin(s, x, v, c, q) ==
  /\ ses[s] = Idle
  /\ v \in DOMAIN Moves(x) /\ Keyed(v, c) /\ Readable(x, v)
  /\ LET r == [pc |-> "read", x |-> x, verb |-> v, cmd |-> c, q |-> q]
     IN  \/ Replayed(x, v, c) /\ reply' = [ok |-> TRUE, to |-> r] /\ UNCHANGED ses
         \/ /\ ~Replayed(x, v, c) /\ Named(x, v, q) /\ Admissible(x, v)
            /\ ses' = [ses EXCEPT ![s] = r] /\ reply' = NoReply

\* The handler answers and its transaction ends.
Answers(s, ok) == /\ reply' = [ok |-> ok, to |-> ses[s]]
                  /\ ses' = [ses EXCEPT ![s] = Idle]

Holdable(q, x) == req[q] = "approved" /\ about[q] = x

HoldApproval(s) ==
  /\ ses[s].pc = "read"
  /\ IF Holdable(ses[s].q, ses[s].x) THEN ses' = [ses EXCEPT ![s].pc = "held"] /\ reply' = NoReply
     ELSE Answers(s, FALSE)

\* The owner refuses a subject in another status, and an agreement whose
\* withdrawal it has recorded.
Permitted(x, v) == status[x] = Moves(x)[v][1] /\ ~struck[x]

Moved(x, v, c, q) ==
  /\ status' = [status EXCEPT ![x] = Moves(x)[v][2]]
  /\ decision' = IF v = "approve" THEN [decision EXCEPT ![x] = q] ELSE decision
  /\ ledger' = IF c = None THEN ledger ELSE [ledger EXCEPT ![c] = <<x, v>>]
  /\ fact' = IF v = "activate" THEN [fact EXCEPT ![x] = 1] ELSE fact
  /\ UNCHANGED struck

\* Mutant: what Commercial Agreements returns is reported as done.
MutTrustsOwner(x, v, c) == TRUE
\* _require_recorded: this very transition is in the agreement's history, under
\* this very id.
RequireRecorded(x, v, c) == Recorded(c, x, v)

\* The plan adapter compares the row that Deployment Control returns and knows
\* neither the id nor the verb it was spent on: an approval must return this
\* plan, carrying the held decision; a rollout one of this plan, under the
\* reference the caller gave; a dispatch is compared with nothing.
SameRow(x, v, c, q, sameref) ==
  \/ v = "approve" /\ ledger[c][1] = x /\ decision[x] = q
  \/ v = "rollout" /\ ledger[c][1] = x /\ status[x] \in RolledOut /\ sameref
  \/ v = "dispatch"

CommitMove(s) ==
  LET r == ses[s] IN
  /\ r.pc = "held"
  /\ (r.cmd # None => ledger[r.cmd] = None)
  /\ Permitted(r.x, r.verb)
  /\ Moved(r.x, r.verb, r.cmd, r.q)
  /\ Answers(s, TRUE)

\* The owner replays what the id was spent on and changes nothing.
CommitReplay(s) ==
  LET r == ses[s] IN
  /\ r.pc = "held" /\ r.cmd # None /\ ledger[r.cmd] # None
  /\ \/ r.x \in Agreements /\ Answers(s, RequireRecorded(r.x, r.verb, r.cmd))
     \/ /\ r.x \in Plans
        /\ \E sameref \in BOOLEAN : Answers(s, SameRow(r.x, r.verb, r.cmd, r.q, sameref))

OwnerRefuses(s) ==
  LET r == ses[s] IN
  /\ r.pc = "held" /\ (r.cmd # None => ledger[r.cmd] = None) /\ ~Permitted(r.x, r.verb)
  /\ Answers(s, FALSE)

\* The handler dies or its connection is lost: the transaction rolls back.
Abandon(s) == ses[s] # Idle /\ ses' = [ses EXCEPT ![s] = Idle] /\ reply' = NoReply

-----------------------------------------------------------------------------
(* Transitions of an agreement that hold nothing.                           *)

Suspend(x) == status[x] = "active" /\ status' = [status EXCEPT ![x] = "suspended"]
Terminate(x) == /\ status[x] \in {"active", "suspended"}
                /\ status' = [status EXCEPT ![x] = "ended"]
Reject(x) == status[x] = "proposed" /\ status' = [status EXCEPT ![x] = "ended"]
Cancel(x) == status[x] \in {"draft", "approved"} /\ status' = [status EXCEPT ![x] = "ended"]

-----------------------------------------------------------------------------
(* The activation event, the allocation, the licence.                       *)

ActiveSnapshot(x) == status[x] = "active"
Pending(x) == fact[x] \in 1 .. MaxTries

\* A delivery that raises is tried again until it is dead-lettered.
Failed(x) == fact' = [fact EXCEPT ![x] = @ + 1]

DeliverActivation(x) ==
  /\ Pending(x)
  /\ \E declared \in Declared :
       \/ /\ ActiveSnapshot(x) /\ declared
          /\ allocated' = allocated \cup {x}
          /\ fact' = [fact EXCEPT ![x] = 0]
       \/ /\ ~(ActiveSnapshot(x) /\ declared)
          /\ Failed(x)
          /\ UNCHANGED allocated
  /\ UNCHANGED <<offered, signing, licensed>>

\* An issuer reads the allocation and the agreement, then signs.
ReadGrant(x) ==
  /\ x \notin licensed \cup signing
  /\ x \in allocated /\ ActiveSnapshot(x)
  /\ signing' = signing \cup {x}
  /\ UNCHANGED <<offered, fact, allocated, licensed>>

IssueLicence(x) ==
  /\ x \in signing
  /\ signing' = signing \ {x}
  /\ licensed' \in {licensed, licensed \cup {x}}
  /\ UNCHANGED <<offered, fact, allocated>>

-----------------------------------------------------------------------------
(* The host's admission, resolved and committed before the plan is consumed.*)

AdmitHostSource(x) ==
  /\ status[x] = "dispatched" /\ cont[x] = None
  /\ cont' = [cont EXCEPT ![x] = "same"]

\* The continuation lives in one process.
LoseContinuation(x) == cont[x] # None /\ cont' = [cont EXCEPT ![x] = None]

HostChanges(x) == \E now \in {"same", "changed"} : cont[x] # None /\ cont' = [cont EXCEPT ![x] = now]

-----------------------------------------------------------------------------
Init ==
  /\ offered = FALSE
  /\ status = [x \in Subjects |-> "none"]
  /\ decision = [x \in Subjects |-> None]
  /\ struck = [x \in Subjects |-> FALSE]
  /\ req = [q \in Requests |-> "none"]
  /\ about = [q \in Requests |-> None]
  /\ notice = [q \in Requests |-> "none"]
  /\ ledger = [c \in Commands |-> None]
  /\ ses = [s \in Sessions |-> Idle] /\ reply = NoReply
  /\ fact = [x \in Agreements |-> 0]
  /\ allocated = {} /\ signing = {} /\ licensed = {}
  /\ cont = [x \in Plans |-> None]

Quiet == reply' = NoReply /\ UNCHANGED ses

Offer == PublishOffer /\ Quiet /\ UNCHANGED <<subjectv, requestv, cont>>

Subject ==
  /\ \/ \E x \in Agreements : CreateDraft(x) /\ UNCHANGED requestv
     \/ \E x \in Agreements, q \in Requests : Propose(x, q)
     \/ \E x \in Plans : ProposeFoundationPlan(x)
     \/ \E x \in Agreements : (Suspend(x) \/ Terminate(x) \/ Reject(x) \/ Cancel(x))
                              /\ UNCHANGED <<decision, struck, ledger, requestv>>
  /\ Quiet /\ UNCHANGED <<grantv, cont>>

Approval ==
  /\ \/ \E q \in Requests, x \in Subjects : OpenRequest(q, x) /\ UNCHANGED subjectv
     \/ \E q \in Requests : (RecordDecision(q) \/ WithdrawRequest(q)) /\ UNCHANGED subjectv
     \/ \E q \in Requests : RecordWithdrawal(q)
  /\ Quiet /\ UNCHANGED <<grantv, cont>>

Handler(s) ==
  /\ \/ /\ \/ \E x \in Subjects, v \in Verbs, c \in Commands \cup {None}, q \in Requests :
                Begin(s, x, v, c, q)
           \/ HoldApproval(s) \/ CommitReplay(s) \/ OwnerRefuses(s) \/ Abandon(s)
        /\ UNCHANGED <<subjectv, grantv>>
     \/ CommitMove(s) /\ UNCHANGED <<offered, allocated, signing, licensed>>
  /\ UNCHANGED <<requestv, cont>>

Grant == /\ \E x \in Agreements : DeliverActivation(x) \/ ReadGrant(x) \/ IssueLicence(x)
         /\ Quiet /\ UNCHANGED <<subjectv, requestv, cont>>

Host == /\ \E x \in Plans : AdmitHostSource(x) \/ HostChanges(x) \/ LoseContinuation(x)
        /\ Quiet /\ UNCHANGED <<subjectv, requestv, grantv>>

Next == Offer \/ Subject \/ Approval \/ Grant \/ Host \/ \E s \in Sessions : Handler(s)

Spec == Init /\ [][Next]_vars

-----------------------------------------------------------------------------
(* Properties.                                                              *)

\* approval_barrier.py: every transition that consumes an approval commits
\* while the decision the subject carries still stands, whatever withdrawals
\* and other handlers do between its read and its commit.
MovesUnderStandingDecision ==
  [][\A x \in Subjects :
        status'[x] # status[x] /\ (\E v \in DOMAIN Moves(x) : status'[x] = Moves(x)[v][2])
        => decision'[x] # None /\ req[decision'[x]] = "approved"]_vars

\* contracts/adapter.py record_agreement_approval_withdrawal: an answer that
\* the agreement did not carry the withdrawn decision is final; no handler
\* that was already under way makes the agreement carry it afterwards.
NotCarriedIsFinal ==
  \A q \in Requests : notice[q] = "not-carried" => decision[about[q]] # q

\* What a handler that answers success may claim, also when its command id was
\* spent on something else.  An agreement's transition is in the owner's history
\* under that id (contracts/adapter.py _replayed_view, _require_recorded).  A
\* plan told approved carries the decision that was held, one told rolled out
\* has been, and every answer about a plan is given while the decision it was
\* held under stands (foundation_execution_approval.py): the id itself proves
\* nothing there.
ToldMeansDone ==
  reply.ok =>
    LET r == reply.to
    IN  /\ r.x \in Agreements /\ r.cmd # None => Recorded(r.cmd, r.x, r.verb)
        /\ r.x \in Plans => /\ req[r.q] = "approved" /\ decision[r.x] = r.q
                            /\ r.verb # "approve" => status[r.x] \in RolledOut

=============================================================================
