------------------------ MODULE HeldTransitionsProofs ------------------------
(***************************************************************************)
(* Proofs about HeldTransitions.  A handler reads its subject in one step  *)
(* and commits in another; everything it relies on at the commit is either *)
(* kept by its hold on the request (the decision stands) or can no longer  *)
(* change (the decision a subject carries, the subject of a request).      *)
(***************************************************************************)
EXTENDS HeldTransitions, TLAPS

-----------------------------------------------------------------------------
(* The inductive invariant.                                                 *)

ReqStates == {"none", "open", "approved", "rejected", "withdrawn"}
Notices == {"none", "pending", "unroutable", "recorded", "not-carried"}
SessionSet == [pc : {"idle", "read", "held"}, x : Subjects \cup {None}, verb : Verbs \cup {"none"},
               cmd : Commands \cup {None}, q : Requests \cup {None}]

TypeOK ==
  /\ status \in [Subjects -> Statuses]
  /\ decision \in [Subjects -> Requests \cup {None}]
  /\ struck \in [Subjects -> BOOLEAN]
  /\ req \in [Requests -> ReqStates]
  /\ about \in [Requests -> Subjects \cup {None}]
  /\ notice \in [Requests -> Notices]
  /\ ledger \in [Commands -> (Subjects \X Verbs) \cup {None}]
  /\ ses \in [Sessions -> SessionSet]

\* A handler under way has a verb of its subject's owner; past an approval the
\* subject carries the request it named, a dispatch has read a plan that was
\* rolled out, and a held request stands and is about the subject.
Under(r) ==
  /\ r.x \in Subjects /\ r.verb \in DOMAIN Moves(r.x) /\ r.q \in Requests
  /\ r.verb # "approve" => decision[r.x] = r.q
  /\ r.verb = "dispatch" => status[r.x] \in RolledOut
  /\ r.pc = "held" => Holdable(r.q, r.x)
SessionsOK == \A s \in Sessions : ses[s].pc # "idle" => Under(ses[s])

\* A subject that has not left its proposal carries no decision.
Undecided == {"none", "draft", "proposed"}
DecisionsOK == \A x \in Subjects : status[x] \in Undecided => decision[x] = None

\* An event of withdrawal is about a withdrawn request over a subject.
RequestsOK == \A q \in Requests : /\ req[q] # "none" => about[q] \in Subjects
                                  /\ notice[q] # "none" => req[q] = "withdrawn"

IInv == TypeOK /\ SessionsOK /\ DecisionsOK /\ RequestsOK /\ NotCarriedIsFinal

-----------------------------------------------------------------------------
(* The tables of moves.                                                     *)

\* A move leads out of the undecided statuses, and only an approval starts there.
LEMMA MoveTable ==
  ASSUME NEW x \in Subjects, NEW v \in DOMAIN Moves(x)
  PROVE  /\ v \in Verbs
         /\ Moves(x)[v][1] \in Statuses /\ Moves(x)[v][2] \in Statuses
         /\ Moves(x)[v][2] \notin Undecided
         /\ v # "approve" => Moves(x)[v][1] \notin Undecided
         /\ v = "approve" => Moves(x)[v][1] = "proposed"
         /\ x \in Plans /\ v # "approve" => Moves(x)[v][2] \in RolledOut
         /\ v = "dispatch" => Moves(x)[v][2] \in RolledOut
<1>1. CASE x \in Agreements
  <2>1. v \in {"approve", "activate", "reinstate"} /\ Moves(x) = AgreementMoves
    BY <1>1 DEF Moves, AgreementMoves
  <2> QED BY <1>1, <2>1, SubjectsAssumption DEF Verbs, AgreementMoves, Statuses, Undecided, RolledOut
<1>2. CASE x \notin Agreements
  <2>1. v \in {"approve", "rollout", "dispatch", "finalize"} /\ Moves(x) = PlanMoves
    BY <1>2 DEF Moves, PlanMoves
  <2> QED BY <2>1 DEF Verbs, PlanMoves, Statuses, Undecided, RolledOut
<1> QED BY <1>1, <1>2

-----------------------------------------------------------------------------
(* One step of the system keeps the invariant.                              *)

LEMMA Initially == Init => IInv /\ ToldMeansDone
<1> SUFFICES ASSUME Init PROVE IInv /\ ToldMeansDone
  OBVIOUS
<1>1. TypeOK
  BY DEF Init, TypeOK, Statuses, ReqStates, Notices, SessionSet, Idle
<1>2. SessionsOK /\ DecisionsOK /\ RequestsOK /\ NotCarriedIsFinal
  BY DEF Init, SessionsOK, DecisionsOK, RequestsOK, NotCarriedIsFinal, Idle
<1>3. ToldMeansDone
  BY DEF Init, ToldMeansDone, NoReply
<1> QED BY <1>1, <1>2, <1>3 DEF IInv

\* A step of the offers, the grants or the host touches nothing of this.
LEMMA ElsewhereKeeps ==
  ASSUME IInv, UNCHANGED <<subjectv, requestv, ses>>
  PROVE  IInv'
BY DEF IInv, TypeOK, SessionsOK, Under, Holdable, DecisionsOK, RequestsOK, NotCarriedIsFinal, subjectv,
       requestv

\* An owner's own move of an agreement, or of a plan that was not rolled out,
\* takes nothing from under a dispatch.
LEMMA DispatchKeeps ==
  ASSUME IInv, NEW x \in Subjects, NEW to, x \in Agreements \/ status[x] \notin RolledOut,
         status' = [status EXCEPT ![x] = to], NEW s \in Sessions, ses[s].pc # "idle",
         ses[s].verb = "dispatch"
  PROVE  status'[ses[s].x] \in RolledOut
<1>1. /\ ses[s].x \in Subjects /\ "dispatch" \in DOMAIN Moves(ses[s].x)
      /\ status[ses[s].x] \in RolledOut
  BY DEF IInv, SessionsOK, Under
<1>2. ses[s].x \notin Agreements
  BY <1>1 DEF Moves, AgreementMoves
<1> QED BY <1>1, <1>2 DEF IInv, TypeOK

\* The owners' own moves neither carry a decision nor reach back to a proposal.
LEMMA SubjectKeeps ==
  ASSUME IInv, Subject
  PROVE  IInv'
<1> USE DEF IInv, TypeOK, SessionsOK, Under, Holdable, DecisionsOK, RequestsOK, NotCarriedIsFinal
<1> ses' = ses
  BY DEF Subject, Quiet
<1>1. ASSUME NEW x \in Agreements, CreateDraft(x), UNCHANGED requestv PROVE IInv'
  <2>1. x \in Subjects /\ status[x] = "none" /\ status' = [status EXCEPT ![x] = "draft"]
        /\ UNCHANGED <<decision, struck, ledger, req, about, notice>>
    BY <1>1 DEF CreateDraft, requestv, Subjects
  <2>2. SessionsOK'
    BY <2>1, DispatchKeeps, <1>1
  <2> QED BY <2>1, <2>2 DEF Statuses, Undecided
<1>2. ASSUME NEW x \in Agreements, NEW q \in Requests, Propose(x, q) PROVE IInv'
  <2>1. x \in Subjects /\ status[x] = "draft" /\ req[q] = "none" /\ UNCHANGED <<decision, struck, ledger, notice>>
        /\ status' = [status EXCEPT ![x] = "proposed"]
        /\ req' = [req EXCEPT ![q] = "open"] /\ about' = [about EXCEPT ![q] = x]
    BY <1>2 DEF Propose, Opened, Unopened, Subjects
  <2>2. TypeOK'
    BY <2>1 DEF Statuses, ReqStates
  <2>3. SessionsOK'
    BY <1>2, <2>1, DispatchKeeps
  <2>4. DecisionsOK' /\ RequestsOK' /\ NotCarriedIsFinal'
    BY <2>1 DEF Undecided, Notices
  <2> QED BY <2>2, <2>3, <2>4
<1>3. ASSUME NEW x \in Plans, ProposeFoundationPlan(x) PROVE IInv'
  <2>1. x \in Subjects /\ status[x] = "none" /\ status' = [status EXCEPT ![x] = "proposed"]
        /\ UNCHANGED <<decision, struck, ledger, req, about, notice>>
    BY <1>3 DEF ProposeFoundationPlan, requestv, Subjects
  <2>2. status[x] \notin RolledOut
    BY <2>1 DEF RolledOut
  <2>3. SessionsOK'
    BY <2>1, <2>2, DispatchKeeps
  <2> QED BY <2>1, <2>3 DEF Statuses, Undecided
<1>4. ASSUME NEW x \in Agreements, Suspend(x) \/ Terminate(x) \/ Reject(x) \/ Cancel(x),
             UNCHANGED <<decision, struck, ledger, requestv>>
      PROVE  IInv'
  <2>1. PICK to \in {"suspended", "ended"} : status' = [status EXCEPT ![x] = to]
    BY <1>4 DEF Suspend, Terminate, Reject, Cancel
  <2>2. SessionsOK'
    BY <1>4, <2>1, DispatchKeeps DEF requestv, Subjects
  <2> QED BY <1>4, <2>1, <2>2 DEF requestv, Subjects, Statuses, Undecided
<1> QED BY <1>1, <1>2, <1>3, <1>4 DEF Subject

\* A decision, an opening or a recorded withdrawal leaves every held request
\* standing: a withdrawal waits until nobody holds the request.
LEMMA ApprovalKeeps ==
  ASSUME IInv, Approval
  PROVE  IInv'
<1> USE DEF IInv, TypeOK, SessionsOK, Under, Holdable, DecisionsOK, RequestsOK, NotCarriedIsFinal
<1> ses' = ses
  BY DEF Approval, Quiet
<1>1. ASSUME NEW q \in Requests, NEW x \in Subjects, OpenRequest(q, x), UNCHANGED subjectv PROVE IInv'
  <2>1. /\ req[q] = "none" /\ UNCHANGED <<status, decision, struck, ledger, notice>>
        /\ req' = [req EXCEPT ![q] = "open"] /\ about' = [about EXCEPT ![q] = x]
    BY <1>1 DEF OpenRequest, Opened, Unopened, subjectv
  <2>2. TypeOK'
    BY <2>1 DEF ReqStates
  <2>3. SessionsOK'
    BY <2>1
  <2>4. DecisionsOK' /\ RequestsOK' /\ NotCarriedIsFinal'
    BY <2>1 DEF Notices
  <2> QED BY <2>2, <2>3, <2>4
<1>2. ASSUME NEW q \in Requests, RecordDecision(q), UNCHANGED subjectv PROVE IInv'
  <2>1. PICK d \in {"approved", "rejected"} : req[q] = "open" /\ req' = [req EXCEPT ![q] = d]
                                              /\ UNCHANGED <<about, notice>>
    BY <1>2 DEF RecordDecision
  <2> QED BY <1>2, <2>1 DEF subjectv, ReqStates
<1>3. ASSUME NEW q \in Requests, WithdrawRequest(q), UNCHANGED subjectv PROVE IInv'
  <2>1. /\ req[q] = "approved" /\ req' = [req EXCEPT ![q] = "withdrawn"]
        /\ notice' = [notice EXCEPT ![q] = "pending"] /\ about' = about
        /\ UNCHANGED <<status, decision, struck, ledger>>
    BY <1>3 DEF WithdrawRequest, subjectv
  <2>2. \A s \in Sessions : ses[s].pc = "held" => ses[s].q # q
    BY <1>3 DEF WithdrawRequest, Holders
  <2>3. TypeOK'
    BY <2>1 DEF ReqStates, Notices
  <2>4. SessionsOK'
    BY <2>1, <2>2
  <2>5. DecisionsOK' /\ RequestsOK' /\ NotCarriedIsFinal'
    BY <2>1
  <2> QED BY <2>3, <2>4, <2>5
<1>4. ASSUME NEW q \in Requests, RecordWithdrawal(q) PROVE IInv'
  <2>1. /\ notice[q] = "pending" /\ notice' = [notice EXCEPT ![q] = Classified(q)]
        /\ UNCHANGED <<req, about, status, decision, ledger>>
    BY <1>4 DEF RecordWithdrawal
  <2>2. about[q] \in Subjects /\ Classified(q) \in Notices /\ Classified(q) # "none"
    BY <2>1 DEF Classified, Notices
  <2>3. struck' \in [Subjects -> BOOLEAN]
    BY <1>4, <2>2 DEF RecordWithdrawal
  <2>4. TypeOK' /\ SessionsOK' /\ DecisionsOK' /\ RequestsOK'
    BY <2>1, <2>2, <2>3
  <2>5. NotCarriedIsFinal'
    BY <2>1 DEF Classified
  <2> QED BY <2>4, <2>5
<1> QED BY <1>1, <1>2, <1>3, <1>4 DEF Approval

\* A handler that starts, holds, answers without moving or dies changes no
\* subject and no request.
LEMMA BeginKeeps ==
  ASSUME IInv, NEW s \in Sessions, NEW x \in Subjects, NEW v \in Verbs, NEW c \in Commands \cup {None},
         NEW q \in Requests, Begin(s, x, v, c, q), UNCHANGED <<subjectv, requestv>>
  PROVE  IInv' /\ ToldMeansDone'
<1> DEFINE r == [pc |-> "read", x |-> x, verb |-> v, cmd |-> c, q |-> q]
<1> USE DEF subjectv, requestv
<1>1. CASE Replayed(x, v, c) /\ reply' = [ok |-> TRUE, to |-> r] /\ UNCHANGED ses
  <2>1. IInv'
    BY <1>1, ElsewhereKeeps
  <2>2. ToldMeansDone'
    BY <1>1, SubjectsAssumption DEF ToldMeansDone, Replayed, Recorded
  <2> QED BY <2>1, <2>2
<1>2. CASE ~Replayed(x, v, c) /\ Named(x, v, q) /\ ses' = [ses EXCEPT ![s] = r] /\ reply' = NoReply
  <2>1. r \in SessionSet
    BY DEF SessionSet
  <2>2. Under(r)
    BY <1>2 DEF Begin, Under, Named, Readable
  <2>3. IInv'
    BY <1>2, <2>1, <2>2 DEF IInv, TypeOK, SessionsOK, Under, Holdable, DecisionsOK, RequestsOK, NotCarriedIsFinal
  <2>4. ToldMeansDone'
    BY <1>2 DEF ToldMeansDone, NoReply
  <2> QED BY <2>3, <2>4
<1> QED BY <1>1, <1>2 DEF Begin

\* The transaction of a handler that answers has ended.
LEMMA EndKeeps ==
  ASSUME IInv, NEW s \in Sessions, ses' = [ses EXCEPT ![s] = Idle], UNCHANGED <<subjectv, requestv>>
  PROVE  IInv'
<1>1. Idle \in SessionSet
  BY DEF Idle, SessionSet
<1> QED BY <1>1 DEF IInv, TypeOK, SessionsOK, Under, Holdable, DecisionsOK, RequestsOK, NotCarriedIsFinal,
                    Idle, subjectv, requestv

\* A refusal tells nobody that anything was done.
LEMMA RefusalOK ==
  ASSUME NEW s, reply' = [ok |-> FALSE, to |-> ses[s]]
  PROVE  ToldMeansDone'
BY DEF ToldMeansDone

LEMMA NoAnswerOK == reply' = NoReply => ToldMeansDone'
BY DEF ToldMeansDone, NoReply

LEMMA HoldKeeps ==
  ASSUME IInv, NEW s \in Sessions, HoldApproval(s), UNCHANGED <<subjectv, requestv>>
  PROVE  IInv' /\ ToldMeansDone'
<1>1. CASE Holdable(ses[s].q, ses[s].x)
  <2>1. ses' = [ses EXCEPT ![s].pc = "held"] /\ reply' = NoReply
    BY <1>1 DEF HoldApproval
  <2>2. [ses[s] EXCEPT !.pc = "held"] \in SessionSet
    BY DEF IInv, TypeOK, SessionSet
  <2>3. IInv'
    BY <1>1, <2>1, <2>2 DEF HoldApproval, IInv, TypeOK, SessionsOK, Under, Holdable, DecisionsOK, RequestsOK,
                            NotCarriedIsFinal, SessionSet, subjectv, requestv
  <2> QED BY <2>1, <2>3, NoAnswerOK
<1>2. CASE ~Holdable(ses[s].q, ses[s].x)
  BY <1>2, EndKeeps, RefusalOK DEF HoldApproval, Answers
<1> QED BY <1>1, <1>2

\* A replay is told as done on the owner's history, or on the row that it
\* returned, which the handler still holds the decision of.
LEMMA ReplayKeeps ==
  ASSUME IInv, NEW s \in Sessions, CommitReplay(s), UNCHANGED <<subjectv, requestv>>
  PROVE  IInv' /\ ToldMeansDone'
<1> DEFINE r == ses[s]
<1>1. ses' = [ses EXCEPT ![s] = Idle] /\ r.pc = "held"
  BY DEF CommitReplay, Answers
<1>2. IInv'
  BY <1>1, EndKeeps
<1>3. /\ r.x \in Subjects /\ r.verb \in DOMAIN Moves(r.x) /\ req[r.q] = "approved"
      /\ r.verb # "approve" => decision[r.x] = r.q
      /\ r.verb = "dispatch" => status[r.x] \in RolledOut
  BY <1>1 DEF IInv, SessionsOK, Under, Holdable
<1>4. CASE r.x \in Agreements
  <2>1. reply' = [ok |-> RequireRecorded(r.x, r.verb, r.cmd), to |-> r]
    BY <1>4, SubjectsAssumption DEF CommitReplay, Answers
  <2> QED BY <1>2, <1>4, <2>1, SubjectsAssumption DEF ToldMeansDone, RequireRecorded, Recorded, subjectv
<1>5. CASE r.x \in Plans
  <2>1. PICK f \in BOOLEAN : reply' = [ok |-> SameRow(r.x, r.verb, r.cmd, r.q, f), to |-> r]
    BY <1>5, SubjectsAssumption DEF CommitReplay, Answers
  <2>2. ASSUME SameRow(r.x, r.verb, r.cmd, r.q, f)
        PROVE  /\ decision[r.x] = r.q
               /\ r.verb # "approve" => status[r.x] \in RolledOut
    BY <1>3, <2>2 DEF SameRow
  <2>3. UNCHANGED <<req, decision, status>>
    BY DEF subjectv, requestv
  <2>4. r.x \notin Agreements
    BY <1>5, SubjectsAssumption
  <2>5. reply'.ok => /\ req'[reply'.to.q] = "approved" /\ decision'[reply'.to.x] = reply'.to.q
                     /\ reply'.to.verb # "approve" => status'[reply'.to.x] \in RolledOut
    <3>1. reply'.to = r /\ reply'.ok = SameRow(r.x, r.verb, r.cmd, r.q, f)
      BY <2>1, Zenon
    <3> HAVE reply'.ok
    <3>2. SameRow(r.x, r.verb, r.cmd, r.q, f)
      BY <3>1, SMT
    <3>3. decision[r.x] = r.q /\ (r.verb # "approve" => status[r.x] \in RolledOut)
      BY <2>2, <3>2
    <3> QED BY <1>3, <2>3, <3>1, <3>3
  <2>6. reply'.to.x \notin Agreements
    BY <2>1, <2>4
  <2> QED BY <1>2, <2>5, <2>6 DEF ToldMeansDone
<1> QED BY <1>3, <1>4, <1>5 DEF Subjects

\* The commit: what it makes the subject carry is held, so it stands, and no
\* other handler relies on a decision that it changes.
LEMMA MoveKeeps ==
  ASSUME IInv, NEW s \in Sessions, CommitMove(s), UNCHANGED requestv
  PROVE  IInv' /\ ToldMeansDone'
<1> DEFINE r == ses[s]
<1>1. /\ r.pc = "held" /\ r.x \in Subjects /\ r.verb \in DOMAIN Moves(r.x) /\ r.q \in Requests
      /\ r.verb # "approve" => decision[r.x] = r.q
      /\ req[r.q] = "approved" /\ about[r.q] = r.x /\ r.cmd \in Commands \cup {None}
  BY DEF CommitMove, IInv, SessionsOK, Under, Holdable, TypeOK, SessionSet
<1> DEFINE to == Moves(r.x)[r.verb][2]
<1>2. /\ status' = [status EXCEPT ![r.x] = to]
      /\ decision' = IF r.verb = "approve" THEN [decision EXCEPT ![r.x] = r.q] ELSE decision
      /\ ledger' = IF r.cmd = None THEN ledger ELSE [ledger EXCEPT ![r.cmd] = <<r.x, r.verb>>]
      /\ struck' = struck /\ ses' = [ses EXCEPT ![s] = Idle] /\ reply' = [ok |-> TRUE, to |-> r]
      /\ UNCHANGED <<req, about, notice>>
  BY DEF CommitMove, Moved, Answers, requestv
<1>3. to \in Statuses /\ to \notin Undecided /\ r.verb \in Verbs
  BY <1>1, MoveTable
<1>4. r.verb = "approve" => decision[r.x] = None
  <2>1. status[r.x] = Moves(r.x)[r.verb][1]
    BY DEF CommitMove, Permitted
  <2> QED BY <1>1, <2>1, MoveTable DEF IInv, DecisionsOK, Undecided
<1>5. /\ decision'[r.x] = r.q
      /\ \A x \in Subjects : x # r.x => decision'[x] = decision[x]
      /\ decision' \in [Subjects -> Requests \cup {None}]
  BY <1>1, <1>2 DEF IInv, TypeOK
<1>6. TypeOK'
  <2>1. Idle \in SessionSet
    BY DEF Idle, SessionSet
  <2>2. ledger' \in [Commands -> (Subjects \X Verbs) \cup {None}]
    BY <1>1, <1>2, <1>3 DEF IInv, TypeOK
  <2> QED BY <1>1, <1>2, <1>3, <1>5, <2>1, <2>2 DEF IInv, TypeOK
<1>7. SessionsOK'
  <2> SUFFICES ASSUME NEW t \in Sessions, ses'[t].pc # "idle" PROVE Under(ses[t])' /\ ses'[t] = ses[t]
    BY DEF SessionsOK
  <2>1. t # s /\ ses'[t] = ses[t]
    BY <1>2 DEF Idle, IInv, TypeOK
  <2>2. Under(ses[t])
    BY <2>1 DEF IInv, SessionsOK
  <2>3. ses[t].verb # "approve" => decision'[ses[t].x] = ses[t].q
    BY <1>1, <1>4, <1>5, <2>2, SubjectsAssumption DEF Under, IInv, TypeOK
  <2>4. ses[t].verb = "dispatch" => status'[ses[t].x] \in RolledOut
    <3>1. CASE ses[t].x = r.x /\ ses[t].verb = "dispatch"
      <4>1. status[r.x] \in RolledOut /\ "dispatch" \in DOMAIN Moves(r.x)
        BY <2>2, <3>1 DEF Under
      <4>2. r.x \in Plans
        BY <1>1, <4>1 DEF Subjects, Moves, AgreementMoves
      <4>3. r.verb # "approve"
        BY <1>1, <4>1, MoveTable DEF CommitMove, Permitted, RolledOut
      <4> QED BY <1>1, <1>2, <3>1, <4>2, <4>3, MoveTable DEF IInv, TypeOK
    <3>2. CASE ses[t].x # r.x /\ ses[t].verb = "dispatch"
      BY <1>2, <2>2, <3>2 DEF Under, IInv, TypeOK
    <3> QED BY <3>1, <3>2
  <2> QED BY <1>2, <2>1, <2>2, <2>3, <2>4 DEF Under, Holdable
<1>8. DecisionsOK'
  BY <1>1, <1>2, <1>3, <1>5 DEF IInv, DecisionsOK, TypeOK
<1>9. RequestsOK' /\ NotCarriedIsFinal'
  <2>1. \A q \in Requests : notice[q] = "not-carried" => req[q] = "withdrawn" /\ about[q] \in Subjects
    BY DEF IInv, RequestsOK
  <2> QED BY <1>1, <1>2, <1>5, <2>1 DEF IInv, RequestsOK, NotCarriedIsFinal
<1>10. ToldMeansDone'
  <2>1. r.cmd # None => ledger'[r.cmd] = <<r.x, r.verb>>
    BY <1>1, <1>2 DEF IInv, TypeOK
  <2>2. req'[r.q] = "approved" /\ decision'[r.x] = r.q
    BY <1>1, <1>2, <1>5
  <2>3. r.x \in Plans /\ r.verb # "approve" => status'[r.x] \in RolledOut
    BY <1>1, <1>2, MoveTable DEF IInv, TypeOK
  <2>4. reply'.to = r
    BY <1>2
  <2> QED BY <2>1, <2>2, <2>3, <2>4 DEF ToldMeansDone, Recorded
<1> QED BY <1>6, <1>7, <1>8, <1>9, <1>10 DEF IInv

LEMMA HandlerKeeps ==
  ASSUME IInv, NEW s \in Sessions, Handler(s)
  PROVE  IInv' /\ ToldMeansDone'
<1> UNCHANGED requestv
  BY DEF Handler
<1>1. CASE CommitMove(s)
  BY <1>1, MoveKeeps
<1>2. CASE UNCHANGED subjectv
  <2>1. ASSUME OwnerRefuses(s) PROVE IInv' /\ ToldMeansDone'
    BY <1>2, <2>1, EndKeeps, RefusalOK DEF OwnerRefuses, Answers
  <2>2. ASSUME Abandon(s) PROVE IInv' /\ ToldMeansDone'
    BY <1>2, <2>2, EndKeeps, NoAnswerOK DEF Abandon
  <2> QED BY <1>1, <1>2, <2>1, <2>2, BeginKeeps, HoldKeeps, ReplayKeeps DEF Handler
<1> QED BY <1>1, <1>2 DEF Handler

LEMMA StepKeeps == IInv /\ ToldMeansDone /\ [Next]_vars => IInv' /\ ToldMeansDone'
<1> SUFFICES ASSUME IInv, ToldMeansDone, [Next]_vars PROVE IInv' /\ ToldMeansDone'
  OBVIOUS
<1>1. CASE Offer \/ Grant \/ Host
  BY <1>1, ElsewhereKeeps, NoAnswerOK DEF Offer, Grant, Host, Quiet
<1>2. CASE Subject
  BY <1>2, SubjectKeeps, NoAnswerOK DEF Subject, Quiet
<1>3. CASE Approval
  BY <1>3, ApprovalKeeps, NoAnswerOK DEF Approval, Quiet
<1>4. CASE \E s \in Sessions : Handler(s)
  BY <1>4, HandlerKeeps
<1>5. CASE UNCHANGED vars
  <2>1. IInv'
    BY <1>5, ElsewhereKeeps DEF vars
  <2>2. ToldMeansDone'
    BY <1>5 DEF vars, subjectv, requestv, ToldMeansDone, Recorded
  <2> QED BY <2>1, <2>2
<1> QED BY <1>1, <1>2, <1>3, <1>4, <1>5 DEF Next

LEMMA Always == Spec => [](IInv /\ ToldMeansDone)
BY Initially, StepKeeps, PTL DEF Spec

-----------------------------------------------------------------------------
(* Theorems.                                                                *)

\* The state keeps its types, whatever handlers, decisions and relays do.
THEOREM Typed == Spec => []TypeOK
<1>1. IInv => TypeOK
  BY DEF IInv
<1> QED BY <1>1, Always, PTL

\* An answer that an agreement did not carry a withdrawn decision stays true
\* (contracts/adapter.py record_agreement_approval_withdrawal).
THEOREM NotCarriedStays == Spec => []NotCarriedIsFinal
<1>1. IInv => NotCarriedIsFinal
  BY DEF IInv
<1> QED BY <1>1, Always, PTL

\* A handler that answers success has an agreement's transition in the owner's
\* history under its own id; about a plan, it answers while the decision that
\* the plan carries stands, and what it claims of the plan is so
\* (contracts/adapter.py _require_recorded, the plan adapter's comparisons).
THEOREM SuccessIsRecorded == Spec => []ToldMeansDone
BY Always, PTL

\* Every transition that consumes an approval commits while the decision the
\* subject carries stands (approval_barrier.held_transition).
THEOREM HeldMovesStand == Spec => MovesUnderStandingDecision
<1> DEFINE Stands(x) == status'[x] # status[x] /\ (\E v \in DOMAIN Moves(x) : status'[x] = Moves(x)[v][2])
                        => decision'[x] # None /\ req[decision'[x]] = "approved"
<1>1. ASSUME IInv, [Next]_vars, NEW x \in Subjects PROVE Stands(x)
  <2>1. CASE UNCHANGED status
    BY <2>1
  <2>2. CASE Subject
    <3>1. PICK y \in Subjects, to \in {"draft", "proposed", "suspended", "ended"} :
            status' = [status EXCEPT ![y] = to]
      BY <2>2 DEF Subject, CreateDraft, Propose, ProposeFoundationPlan, Suspend, Terminate, Reject, Cancel,
                  Subjects
    <3>2. \A v \in DOMAIN Moves(x) : Moves(x)[v][2] \notin {"draft", "proposed", "suspended", "ended"}
      <4>1. CASE x \in Agreements
        BY <4>1 DEF Moves, AgreementMoves
      <4>2. CASE x \notin Agreements
        BY <4>2 DEF Moves, PlanMoves
      <4> QED BY <4>1, <4>2
    <3> QED BY <1>1, <3>1, <3>2 DEF IInv, TypeOK
  <2>3. ASSUME NEW s \in Sessions, CommitMove(s) PROVE Stands(x)
    <3>1. /\ ses[s].x \in Subjects /\ ses[s].q \in Requests /\ req[ses[s].q] = "approved"
          /\ ses[s].verb # "approve" => decision[ses[s].x] = ses[s].q
      BY <1>1, <2>3 DEF CommitMove, IInv, SessionsOK, Under, Holdable
    <3>2. /\ status' = [status EXCEPT ![ses[s].x] = Moves(ses[s].x)[ses[s].verb][2]]
          /\ decision' = IF ses[s].verb = "approve" THEN [decision EXCEPT ![ses[s].x] = ses[s].q]
                         ELSE decision
      BY <2>3 DEF CommitMove, Moved
    <3>3. decision'[ses[s].x] = ses[s].q
      BY <1>1, <3>1, <3>2 DEF IInv, TypeOK
    <3> QED BY <1>1, <3>1, <3>2, <3>3, SubjectsAssumption DEF IInv, TypeOK
  <2>4. \/ UNCHANGED status \/ Subject \/ \E s \in Sessions : CommitMove(s)
    BY <1>1 DEF Next, vars, subjectv, Offer, Approval, OpenRequest, RecordWithdrawal, Grant, Host, Handler
  <2> QED BY <2>1, <2>2, <2>3, <2>4
<1>2. IInv /\ [Next]_vars => [\A x \in Subjects : Stands(x)]_vars
  BY <1>1
<1> QED BY <1>2, Always, PTL DEF Spec, MovesUnderStandingDecision
=============================================================================
