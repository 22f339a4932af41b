------------------------ MODULE LicenceDeliveryProofs ------------------------
(***************************************************************************)
(* Proofs about LicenceDelivery.  The dispatch passes and the split calls  *)
(* act on what they read earlier; what makes them right is that a row, once*)
(* it has a destination, keeps it, and that what was applied or vouched    *)
(* for once stays so.  The numbers of the attempts rest on the rows a pass *)
(* holds: nobody else counts or adds an attempt of those.                  *)
(***************************************************************************)
EXTENDS LicenceDelivery, FiniteSetTheorems, TLAPS

RowSet == [iss : Issuances \cup {0}, ref : Targets \cup {None}, mapped : BOOLEAN,
           st : {"none", "delivered", "parked", "active"}, gen : Nat]
IntentSet == [st : {"none", "open", "acknowledged"}, receipt : Sessions \cup {None},
              outcome : {"none", "applied", "rejected"}]
PassFields == {"pc", "handoff", "rows", "todo", "add", "park"}

TypeOK ==
  /\ row \in [Deliveries -> RowSet]
  /\ intent \in [Issuances \X Targets -> IntentSet]
  /\ DOMAIN wrk = Workers /\ DOMAIN ses = Sessions
  /\ \A w \in Workers : DOMAIN wrk[w] = PassFields

\* A destination was shown active and of the customer when the row got it, and
\* is the one the licence is bound to.
RowOK(r) == r.mapped => /\ r.st # "none" /\ r.ref \in vouched
                        /\ Bound[r.iss] \in {None, r.ref}
RowsOK == \A d \in Deliveries : RowOK(row[d])
VouchedOK == \A t \in Targets : Shown(t) => t \in vouched

\* A dispatch pass works on rows that have a destination.
Mapped == {d \in Deliveries : row[d].mapped}
PassesOK == \A w \in Workers : wrk[w].todo \subseteq Mapped /\ wrk[w].park \subseteq Mapped

\* What the other calls have read is still worth what it was.
Truthful(a) == a.status = "applied" => <<a.iss, a.auth>> \in applied
ToldOf(d, a) == d \notin repointed => row[d].iss = a.iss /\ row[d].ref = a.auth
CallOK(c) ==
  /\ c.call = "export" => c.attempt.d \in Mapped
  /\ c.call = "resume" => c.d \in Mapped /\ c.gen \in Nat
  /\ c.call = "ack" => /\ Truthful(c.ack) /\ c.rows \subseteq Rows
                       /\ c.disposition = "accepted" => c.ack.status = "applied"
                       /\ \A d \in c.rows : ToldOf(d, c.ack)
  /\ c.call = "intent" => /\ c.key \in Issuances \X Targets /\ c.receipt \in Sessions
                          /\ c.ack \in Acks /\ c.key = <<c.ack.iss, c.ack.auth>> /\ Truthful(c.ack)
CallsOK == \A s \in Sessions : CallOK(ses[s])

IInv == TypeOK /\ RowsOK /\ VouchedOK /\ PassesOK /\ CallsOK /\ CompletionIsTrue /\ HandoffIsAuthorised

-----------------------------------------------------------------------------
(* What no step takes back.                                                 *)

\* Two versions of a row that differ in its state alone.
SameFact(r, n) == n.iss = r.iss /\ n.ref = r.ref /\ (n.mapped <=> r.mapped)

\* Every row keeps its destination, if it has one, and its reference unless it
\* is mapped to another; what was applied or vouched for stays so.
Kept ==
  /\ applied \subseteq applied' /\ vouched \subseteq vouched' /\ repointed \subseteq repointed'
  /\ \A d \in Deliveries :
       /\ row[d].mapped => row'[d].mapped /\ row'[d].ref = row[d].ref
       /\ row[d].st # "none" => /\ row'[d].st # "none" /\ row'[d].iss = row[d].iss
                                /\ row'[d].ref = row[d].ref \/ d \in repointed'

\* So what a pass or a call relies on outlives the steps of others.
LEMMA PassesKept ==
  ASSUME PassesOK, Kept, UNCHANGED wrk
  PROVE  PassesOK'
BY DEF PassesOK, Kept, Mapped

LEMMA CallsKept ==
  ASSUME TypeOK, CallsOK, Kept,
         \/ UNCHANGED ses
         \/ \E s \in Sessions : \E c : (CallOK(c) \/ c = IdleSes) /\ ses' = [ses EXCEPT ![s] = c]
  PROVE  CallsOK' /\ DOMAIN ses' = Sessions
<1>1. CallOK(IdleSes)
  BY DEF CallOK, IdleSes
<1>2. Mapped \subseteq Mapped' /\ Rows \subseteq Rows'
  BY DEF Kept, Mapped, Rows
<1>3. DOMAIN ses' = Sessions /\ \A r \in Sessions : CallOK(ses'[r])
  BY <1>1 DEF TypeOK, CallsOK
<1> SUFFICES ASSUME NEW r \in Sessions PROVE CallOK(ses[r])'
  BY <1>3 DEF CallsOK
<1>4. ASSUME ses'[r].call = "ack" PROVE \A d \in ses'[r].rows : ToldOf(d, ses[r].ack)'
  BY <1>3, <1>4 DEF CallOK, Rows, Kept, ToldOf
<1>5. ASSUME ses'[r].call \in {"ack", "intent"} PROVE Truthful(ses[r].ack)'
  BY <1>3, <1>5 DEF CallOK, Kept, Truthful
<1> QED BY <1>2, <1>3, <1>4, <1>5 DEF CallOK

\* A step that leaves the rows alone, and reports nothing new, keeps the rows
\* true and everything the others rely on.
LEMMA RowsSame ==
  ASSUME IInv, UNCHANGED <<row, intent, installed, repointed>>, applied \subseteq applied',
         vouched \subseteq vouched'
  PROVE  Kept /\ RowsOK' /\ CompletionIsTrue'
BY DEF IInv, Kept, RowsOK, RowOK, CompletionIsTrue, Rows

\* Nor does one that leaves the projection of the fleet alone spoil the history.
LEMMA VouchedSame ==
  ASSUME VouchedOK, UNCHANGED target, vouched \subseteq vouched'
  PROVE  VouchedOK'
BY DEF VouchedOK, Shown

-----------------------------------------------------------------------------
(* One step of the system keeps the invariant.                              *)

LEMMA Initially == Init => IInv
<1> SUFFICES ASSUME Init PROVE IInv
  OBVIOUS
<1>1. NoRow \in RowSet /\ NoIntent \in IntentSet
  BY DEF NoRow, RowSet, NoIntent, IntentSet
<1>2. ASSUME NEW i \in Issuances, NEW t \in Targets
      PROVE  /\ ParkedByMigration(i, t) \in RowSet
             /\ ~ParkedByMigration(i, t).mapped /\ ParkedByMigration(i, t).st = "parked"
  BY <1>2 DEF ParkedByMigration, NoRow, RowSet
<1>3. \A d \in Deliveries :
        row[d] \in RowSet /\ ~row[d].mapped /\ row[d].st \in {"none", "parked"}
  <2>1. NoRow.st = "none" /\ ~NoRow.mapped
    BY DEF NoRow
  <2> SUFFICES ASSUME NEW d \in Deliveries
               PROVE  row[d] \in RowSet /\ ~row[d].mapped /\ row[d].st \in {"none", "parked"}
    OBVIOUS
  <2>2. row[d] = NoRow \/ \E i \in Issuances, t \in Targets : row[d] = ParkedByMigration(i, t)
    BY DEF Init
  <2> QED BY <1>1, <1>2, <2>1, <2>2
<1>4. TypeOK
  <2>1. row \in [Deliveries -> RowSet]
    BY <1>1, <1>2 DEF Init
  <2>2. \A w \in Workers : DOMAIN wrk[w] = PassFields
    BY DEF Init, IdleWrk, PassFields
  <2> QED BY <1>1, <2>1, <2>2 DEF Init, TypeOK
<1>5. RowsOK
  BY <1>3 DEF RowsOK, RowOK
<1>6. PassesOK
  BY DEF Init, PassesOK, IdleWrk
<1>7. CallsOK
  BY DEF Init, CallsOK, CallOK, IdleSes
<1>8. CompletionIsTrue /\ HandoffIsAuthorised
  BY <1>3 DEF Init, CompletionIsTrue, HandoffIsAuthorised, Rows, NoIntent
<1>9. VouchedOK
  BY DEF Init, VouchedOK
<1> QED BY <1>4, <1>5, <1>6, <1>7, <1>8, <1>9 DEF IInv

LEMMA FleetKeeps ==
  ASSUME IInv, NEW t \in Targets, NEW st, NEW c, FleetChanges(t, st, c) \/ ReconcileDeliveryTarget(t)
  PROVE  IInv' /\ Kept
<1>1. /\ UNCHANGED <<row, intent, installed, wrk, ses, handed, applied, repointed>>
      /\ vouched \subseteq vouched'
  BY DEF FleetChanges, ReconcileDeliveryTarget, store, world, history
<1>2. VouchedOK'
  <2>1. CASE FleetChanges(t, st, c)
    BY <1>1, <2>1, VouchedSame DEF IInv, FleetChanges, store
  <2>2. CASE ReconcileDeliveryTarget(t)
    BY <2>2 DEF ReconcileDeliveryTarget, VouchedOK
  <2> QED BY <2>1, <2>2
<1> QED BY <1>1, <1>2, RowsSame, PassesKept, CallsKept DEF IInv, TypeOK, HandoffIsAuthorised

\* A new row is staged for the destination it is authorised for.
LEMMA StageKeeps ==
  ASSUME IInv, NEW d \in Deliveries, NEW i \in Issuances, NEW t \in Targets, StageDelivery(d, i, t)
  PROVE  IInv' /\ Kept
<1> DEFINE new == [NoRow EXCEPT !.iss = i, !.ref = t, !.mapped = TRUE, !.st = "delivered", !.gen = 1]
<1>1. /\ row' = [row EXCEPT ![d] = new] /\ row[d].st = "none"
      /\ UNCHANGED <<intent, installed, wrk, ses, handed, applied, target, vouched, repointed>>
      /\ t \in vouched /\ Bound[i] \in {None, t}
  BY DEF StageDelivery, world, history, Rows, AuthorisedTarget, IInv, VouchedOK, Shown
<1>2. new \in RowSet /\ new.iss = i /\ new.ref = t /\ new.mapped /\ new.st = "delivered"
  BY DEF NoRow, RowSet
<1> HIDE DEF new
<1>3. \A e \in Deliveries : row'[e] = IF e = d THEN new ELSE row[e]
  BY <1>1 DEF IInv, TypeOK
<1>4. TypeOK'
  BY <1>1, <1>2 DEF IInv, TypeOK
<1>5. Kept
  BY <1>1, <1>2, <1>3 DEF Kept, IInv, RowsOK, RowOK
<1>6. RowsOK'
  BY <1>1, <1>2, <1>3 DEF RowsOK, RowOK, IInv
<1>7. CompletionIsTrue' /\ HandoffIsAuthorised'
  BY <1>1, <1>2, <1>3 DEF CompletionIsTrue, HandoffIsAuthorised, Rows, IInv
<1> QED BY <1>1, <1>4, <1>5, <1>6, <1>7, PassesKept, CallsKept, VouchedSame DEF IInv

\* A legacy row gets the destination it is authorised for.
LEMMA MapKeeps ==
  ASSUME IInv, NEW d \in Deliveries, NEW t \in Targets, MapLegacyDelivery(d, t)
  PROVE  IInv' /\ Kept
<1>1. /\ row' = [row EXCEPT ![d].ref = t, ![d].mapped = TRUE] /\ row[d].st # "none" /\ ~row[d].mapped
      /\ repointed \subseteq repointed' /\ (t = row[d].ref \/ d \in repointed')
      /\ UNCHANGED <<intent, installed, wrk, ses, handed, applied, target, vouched>>
      /\ t \in vouched /\ Bound[row[d].iss] \in {None, t}
  BY DEF MapLegacyDelivery, world, Rows, AuthorisedTarget, IInv, VouchedOK, Shown
<1>2. /\ row'[d] \in RowSet /\ row'[d].mapped /\ row'[d].ref = t /\ row'[d].iss = row[d].iss
      /\ row'[d].st = row[d].st
      /\ \A e \in Deliveries : e # d => row'[e] = row[e]
  BY <1>1 DEF IInv, TypeOK, RowSet
<1>3. TypeOK'
  BY <1>1, <1>2 DEF IInv, TypeOK
<1>4. Kept
  BY <1>1, <1>2 DEF Kept
<1>5. RowsOK'
  <2>1. \A e \in Deliveries : RowOK(row[e])
    BY DEF IInv, RowsOK
  <2>2. RowOK(row[d])'
    BY <1>1, <1>2 DEF RowOK
  <2>3. ASSUME NEW e \in Deliveries, e # d PROVE RowOK(row[e])'
    <3>1. row'[e] = row[e] /\ vouched' = vouched
      BY <1>1, <1>2, <2>3
    <3> QED BY <2>1, <3>1 DEF RowOK
  <2> QED BY <2>2, <2>3 DEF RowsOK
<1>6. CompletionIsTrue' /\ HandoffIsAuthorised'
  <2>1. ASSUME NEW e \in Deliveries, e \notin repointed', row'[e].st = "active"
        PROVE  <<row'[e].iss, row'[e].ref>> \in applied
    BY <1>1, <1>2, <2>1 DEF IInv, CompletionIsTrue, Rows
  <2> QED BY <1>1, <2>1 DEF CompletionIsTrue, HandoffIsAuthorised, Rows, IInv
<1> QED BY <1>1, <1>3, <1>4, <1>5, <1>6, PassesKept, CallsKept, VouchedSame DEF IInv

\* A step of a pass takes its rows from those with a destination, and what it
\* hands out is addressed as the row is.
LEMMA PassKeeps ==
  ASSUME IInv, NEW w \in Workers,
         \/ \E h \in Handoffs : ScanPending(w, h)
         \/ ClaimPending(w) \/ CrashPass(w)
         \/ \E d \in Deliveries : \/ ParkExhausted(w, d)
                                  \/ \E o \in {SentOutcome(w), "failed", "terminal"} : SendPacket(w, d, o)
  PROVE  IInv' /\ Kept
<1>1. UNCHANGED <<row, intent, installed, ses, applied, target, vouched, repointed>>
  BY DEF ScanPending, ClaimPending, CrashPass, ParkExhausted, SendPacket, store, world, history
<1>2. /\ DOMAIN wrk' = Workers /\ DOMAIN wrk'[w] = PassFields
      /\ \A v \in Workers : v # w => wrk'[v] = wrk[v]
      /\ wrk'[w].todo \subseteq Mapped /\ wrk'[w].park \subseteq Mapped
  <2> USE DEF IInv, TypeOK, PassesOK, PassFields
  <2>1. ASSUME NEW h, ScanPending(w, h) PROVE <1>2!1 /\ <1>2!2 /\ <1>2!3
    <3>1. Pending \subseteq Mapped
      BY DEF Pending, Mapped, Rows
    <3>2. wrk' = [wrk EXCEPT ![w] = [wrk[w] EXCEPT !.pc = "scanned", !.handoff = h, !.todo = Pending]]
      BY <2>1 DEF ScanPending
    <3> QED BY <3>1, <3>2
  <2>2. CASE ClaimPending(w)
    <3> DEFINE mine == {d \in wrk[w].todo : Claimable(d)}
    <3>1. wrk' = [wrk EXCEPT ![w] = [wrk[w] EXCEPT !.pc = "pass", !.rows = mine, !.todo = mine]]
      BY <2>2 DEF ClaimPending
    <3>2. mine \subseteq Mapped
      OBVIOUS
    <3> HIDE DEF mine
    <3> QED BY <3>1, <3>2
  <2>5. CASE CrashPass(w)
    BY <2>5 DEF CrashPass, IdleWrk
  <2>3. ASSUME NEW d \in Deliveries, ParkExhausted(w, d) PROVE <1>2!1 /\ <1>2!2 /\ <1>2!3
    BY <2>3 DEF ParkExhausted
  <2>4. ASSUME NEW d \in Deliveries, NEW o, SendPacket(w, d, o) PROVE <1>2!1 /\ <1>2!2 /\ <1>2!3
    <3> DEFINE a == wrk[w].add \cup {Attempt(d, o)}
               k == IF o = "terminal" THEN wrk[w].park \cup {d} ELSE wrk[w].park
    <3>1. /\ wrk' = [wrk EXCEPT ![w] = [wrk[w] EXCEPT !.todo = wrk[w].todo \ {d}, !.add = a, !.park = k]]
          /\ k \subseteq wrk[w].park \cup {d}
      BY <2>4 DEF SendPacket
    <3> HIDE DEF a, k
    <3>2. d \in Mapped
      BY <2>4 DEF SendPacket
    <3> QED BY <3>1, <3>2
  <2> QED BY <2>1, <2>2, <2>3, <2>4, <2>5
<1>3. TypeOK'
  BY <1>1, <1>2 DEF IInv, TypeOK
<1>4. PassesOK'
  BY <1>1, <1>2 DEF IInv, PassesOK, Mapped
<1>5. HandoffIsAuthorised'
  <2>1. ASSUME NEW d \in Deliveries, NEW o, SendPacket(w, d, o) PROVE HandoffIsAuthorised'
    <3>1. row[d].ref \in vouched /\ Bound[row[d].iss] \in {None, row[d].ref}
      BY <2>1 DEF SendPacket, IInv, PassesOK, Mapped, RowsOK, RowOK
    <3>2. handed' \subseteq handed \cup {<<row[d].iss, row[d].ref>>}
      BY <2>1 DEF SendPacket
    <3> QED BY <1>1, <3>1, <3>2 DEF IInv, HandoffIsAuthorised
  <2>2. \/ handed' = handed \/ \E d \in Deliveries : \E o : SendPacket(w, d, o)
    BY DEF ScanPending, ClaimPending, CrashPass, ParkExhausted, world
  <2> QED BY <1>1, <2>1, <2>2 DEF IInv, HandoffIsAuthorised
<1> QED BY <1>1, <1>3, <1>4, <1>5, RowsSame, CallsKept, VouchedSame DEF IInv

LEMMA CommitPassKeeps ==
  ASSUME IInv, NEW w \in Workers, CommitPass(w)
  PROVE  IInv' /\ Kept
<1>1. /\ row' = [d \in Deliveries |-> IF d \in wrk[w].park THEN [row[d] EXCEPT !.st = "parked"] ELSE row[d]]
      /\ wrk' = [wrk EXCEPT ![w] = IdleWrk]
      /\ UNCHANGED <<intent, installed, ses, handed, applied, target, vouched, repointed>>
  BY DEF CommitPass, world, history
<1>2. ASSUME NEW d \in Deliveries
      PROVE  /\ row'[d] \in RowSet /\ SameFact(row[d], row'[d])
             /\ row'[d].st = row[d].st \/ (row'[d].st = "parked" /\ row[d].st # "none")
  <2>1. CASE d \in wrk[w].park
    <3>1. row[d] \in RowSet /\ row[d].st # "none"
      BY <2>1 DEF IInv, TypeOK, PassesOK, Mapped, RowsOK, RowOK
    <3>2. row'[d] = [row[d] EXCEPT !.st = "parked"]
      BY <1>1, <2>1
    <3>3. row'[d] \in RowSet /\ SameFact(row[d], row'[d]) /\ row'[d].st = "parked"
      BY <3>1, <3>2 DEF RowSet, SameFact
    <3> QED BY <3>1, <3>3
  <2>2. CASE d \notin wrk[w].park
    BY <1>1, <2>2 DEF SameFact, IInv, TypeOK
  <2> QED BY <2>1, <2>2
<1>3. Kept /\ RowsOK'
  BY <1>1, <1>2 DEF Kept, RowsOK, RowOK, IInv, SameFact
<1>4. TypeOK'
  <2>1. DOMAIN wrk'[w] = PassFields /\ \A v \in Workers : v # w => wrk'[v] = wrk[v]
    BY <1>1 DEF IdleWrk, PassFields, IInv, TypeOK
  <2>2. row' \in [Deliveries -> RowSet]
    BY <1>1, <1>2
  <2> QED BY <1>1, <2>1, <2>2 DEF IInv, TypeOK
<1>5. PassesOK'
  BY <1>1, <1>3 DEF IInv, TypeOK, PassesOK, IdleWrk, Kept, Mapped
<1>6. CompletionIsTrue' /\ HandoffIsAuthorised'
  BY <1>1, <1>2 DEF IInv, CompletionIsTrue, HandoffIsAuthorised, Rows, SameFact
<1> QED BY <1>1, <1>3, <1>4, <1>5, <1>6, CallsKept, VouchedSame DEF IInv

\* The calls of an operator.
LEMMA OperateKeeps ==
  ASSUME IInv, NEW s \in Sessions, Operate(s)
  PROVE  IInv' /\ Kept
<1>1. ASSUME NEW d \in Deliveries, ExportRead(s, d) PROVE IInv' /\ Kept
  <2> DEFINE c == [call |-> "export", attempt |-> Attempt(d, "exported")]
  <2>1. ses' = [ses EXCEPT ![s] = c] /\ UNCHANGED <<row, intent, installed, wrk, handed, applied, target, vouched, repointed>>
    BY <1>1 DEF ExportRead, Begin, store, world, history
  <2>2. CallOK(c)
    BY <1>1 DEF ExportRead, Exportable, CallOK, Mapped, Attempt
  <2>3. Kept /\ RowsOK' /\ CompletionIsTrue'
    BY <2>1, RowsSame
  <2>4. CallsOK' /\ DOMAIN ses' = Sessions
    BY <2>1, <2>2, <2>3, CallsKept DEF IInv
  <2> QED BY <2>1, <2>3, <2>4, PassesKept, VouchedSame DEF IInv, TypeOK, HandoffIsAuthorised
<1>2. ASSUME NEW d \in Deliveries, ResumeRead(s, d) PROVE IInv' /\ Kept
  <2> DEFINE c == [call |-> "resume", d |-> d, gen |-> row[d].gen, saw |-> row[d].st]
  <2>1. ses' = [ses EXCEPT ![s] = c] /\ UNCHANGED <<row, intent, installed, wrk, handed, applied, target, vouched, repointed>>
    BY <1>2 DEF ResumeRead, Begin, store, world, history
  <2>2. CallOK(c)
    BY <1>2 DEF ResumeRead, Resumable, CallOK, Mapped, IInv, TypeOK, RowSet
  <2>3. Kept /\ RowsOK' /\ CompletionIsTrue'
    BY <2>1, RowsSame
  <2>4. CallsOK' /\ DOMAIN ses' = Sessions
    BY <2>1, <2>2, <2>3, CallsKept DEF IInv
  <2> QED BY <2>1, <2>3, <2>4, PassesKept, VouchedSame DEF IInv, TypeOK, HandoffIsAuthorised
<1>3. ASSUME ExportCommit(s) PROVE IInv' /\ Kept
  <2> DEFINE d == ses[s].attempt.d
  <2>1. /\ ses' = [ses EXCEPT ![s] = IdleSes]
        /\ UNCHANGED <<row, intent, installed, wrk, applied, target, vouched, repointed>>
        /\ handed' = handed \/ handed' = handed \cup {<<row[d].iss, row[d].ref>>}
    BY <1>3 DEF ExportCommit, End, history
  <2>2. row[d].ref \in vouched /\ Bound[row[d].iss] \in {None, row[d].ref}
    BY <1>3 DEF ExportCommit, IInv, CallsOK, CallOK, Mapped, RowsOK, RowOK
  <2>3. Kept /\ RowsOK' /\ CompletionIsTrue'
    BY <2>1, RowsSame
  <2>4. CallsOK' /\ DOMAIN ses' = Sessions
    BY <2>1, <2>3, CallsKept DEF IInv
  <2> QED BY <2>1, <2>2, <2>3, <2>4, PassesKept, VouchedSame DEF IInv, TypeOK, HandoffIsAuthorised
<1>4. ASSUME ResumeCommit(s) PROVE IInv' /\ Kept
  <2> DEFINE d == ses[s].d
  <2>1. /\ ses' = [ses EXCEPT ![s] = IdleSes]
        /\ row' = [row EXCEPT ![d].st = "delivered", ![d].gen = ses[s].gen + 1]
        /\ UNCHANGED <<intent, installed, wrk, handed, applied, target, vouched, repointed>>
    BY <1>4 DEF ResumeCommit, End, world, history
  <2>2. d \in Deliveries /\ row[d].mapped /\ ses[s].gen \in Nat
    BY <1>4 DEF ResumeCommit, IInv, CallsOK, CallOK, Mapped
  <2>3. /\ row'[d].st = "delivered" /\ SameFact(row[d], row'[d])
        /\ \A e \in Deliveries : e # d => row'[e] = row[e]
        /\ row' \in [Deliveries -> RowSet]
    <3> DEFINE g == ses[s].gen + 1
    <3>0. g \in Nat
      BY <2>2
    <3> HIDE DEF g
    <3>1. row' = [row EXCEPT ![d] = [row[d] EXCEPT !.st = "delivered", !.gen = g]]
      BY <2>1, <2>2 DEF IInv, TypeOK, g
    <3>2. row'[d] \in RowSet /\ row'[d].st = "delivered" /\ SameFact(row[d], row'[d])
      BY <2>2, <3>0, <3>1 DEF IInv, TypeOK, RowSet, SameFact
    <3> QED BY <2>1, <2>2, <3>2 DEF IInv, TypeOK
  <2>4. Kept /\ RowsOK'
    <3>1. \A e \in Deliveries : RowOK(row[e]) /\ SameFact(row[e], row'[e])
                                /\ (row'[e].st = row[e].st \/ (row'[e].st # "none" /\ row[e].st # "none"))
      BY <2>2, <2>3 DEF IInv, RowsOK, RowOK, SameFact
    <3>2. Kept
      BY <2>1, <3>1 DEF Kept, SameFact
    <3>3. ASSUME NEW e \in Deliveries PROVE RowOK(row[e])'
      <4>1. RowOK(row[e]) /\ SameFact(row[e], row'[e]) /\ (row'[e].st = "none" <=> row[e].st = "none")
        BY <3>1
      <4>2. vouched' = vouched
        BY <2>1
      <4> QED BY <4>1, <4>2 DEF RowOK, SameFact
    <3> QED BY <3>2, <3>3 DEF RowsOK
  <2>5. CallsOK' /\ DOMAIN ses' = Sessions
    BY <2>1, <2>4, CallsKept DEF IInv
  <2>6. CompletionIsTrue'
    BY <2>1, <2>2, <2>3 DEF IInv, CompletionIsTrue, Rows, SameFact
  <2> QED BY <2>1, <2>3, <2>4, <2>5, <2>6, PassesKept, VouchedSame DEF IInv, TypeOK, HandoffIsAuthorised
<1> QED BY <1>1, <1>2, <1>3, <1>4 DEF Operate

\* A step outside: a deployment applies an artifact, an intent is opened.
LEMMA OutsideKeeps ==
  ASSUME IInv, NEW i \in Issuances, NEW t \in Targets, Apply(i, t) \/ OpenDeliveryIntent(i, t)
  PROVE  IInv' /\ Kept
<1>1. UNCHANGED <<row, installed, wrk, ses, handed, target, vouched, repointed>> /\ applied \subseteq applied'
  BY DEF Apply, OpenDeliveryIntent, store, world, history
<1>2. Kept /\ RowsOK'
  BY <1>1 DEF Kept, IInv, RowsOK, RowOK
<1>3. /\ intent' \in [Issuances \X Targets -> IntentSet]
      /\ \A k \in Issuances \X Targets : intent'[k].outcome = intent[k].outcome
  <2>1. CASE Apply(i, t)
    BY <2>1 DEF Apply, store, IInv, TypeOK
  <2>2. CASE OpenDeliveryIntent(i, t)
    <3>1. [intent[<<i, t>>] EXCEPT !.st = "open"] \in IntentSet
      BY DEF IInv, TypeOK, IntentSet
    <3>2. [intent[<<i, t>>] EXCEPT !.st = "open"].outcome = intent[<<i, t>>].outcome
      BY DEF IInv, TypeOK, IntentSet
    <3>3. intent' = [intent EXCEPT ![<<i, t>>] = [intent[<<i, t>>] EXCEPT !.st = "open"]]
      BY <2>2 DEF OpenDeliveryIntent
    <3> QED BY <3>1, <3>2, <3>3 DEF IInv, TypeOK
  <2> QED BY <2>1, <2>2
<1>4. CompletionIsTrue'
  BY <1>1, <1>3 DEF IInv, TypeOK, CompletionIsTrue, Rows
<1> QED BY <1>1, <1>2, <1>3, <1>4, PassesKept, CallsKept, VouchedSame DEF IInv, TypeOK, HandoffIsAuthorised

\* What an acknowledgement that is reported says: its identity was proved, so it
\* is true; and an accepted one is of an applied version.
LEMMA ReportedIsTrue ==
  ASSUME NEW a \in Acks, Honest(a), Disposition(a) \in Reported
  PROVE  /\ a.auth # None /\ Truthful(a)
         /\ Disposition(a) = "accepted" => a.status = "applied"
<1>1. a.auth # None
  <2> SUFFICES ASSUME a.auth = None PROVE FALSE
    OBVIOUS
  <2>1. Disposition(a) = "unverified_identity"
    BY DEF Disposition
  <2> QED BY <2>1 DEF Reported
<1>2. Truthful(a)
  BY <1>1 DEF Honest, Truthful
<1>3. Disposition(a) = "accepted" => a.status = "applied"
  <2> SUFFICES ASSUME a.status # "applied" PROVE Disposition(a) \in {"deployment_mismatch", "rejected_by_receiver"}
    OBVIOUS
  <2> QED BY <1>1 DEF Disposition
<1> QED BY <1>1, <1>2, <1>3

\* The acknowledgements: read, decided, committed.
LEMMA AcknowledgeKeeps ==
  ASSUME IInv, NEW s \in Sessions, Acknowledge(s)
  PROVE  IInv' /\ Kept
<1>1. ASSUME NEW a \in Acks, AckRead(s, a) PROVE IInv' /\ Kept
  <2> DEFINE c == [call |-> "ack", ack |-> a, disposition |-> Disposition(a), rows |-> Acknowledged(a)]
  <2>1. ses' = [ses EXCEPT ![s] = c] /\ UNCHANGED <<row, intent, installed, wrk, handed, applied, target, vouched, repointed>>
    BY <1>1 DEF AckRead, Begin, store, world, history
  <2>2. CallOK(c)
    <3>1. Truthful(a) /\ (Disposition(a) = "accepted" => a.status = "applied")
      BY <1>1, ReportedIsTrue DEF AckRead
    <3>2. Acknowledged(a) \subseteq Rows /\ \A d \in Acknowledged(a) : ToldOf(d, a)
      BY DEF Acknowledged, Staged, ToldOf
    <3> QED BY <3>1, <3>2 DEF CallOK
  <2>3. Kept /\ RowsOK' /\ CompletionIsTrue'
    BY <2>1, RowsSame
  <2>4. CallsOK' /\ DOMAIN ses' = Sessions
    BY <2>1, <2>2, <2>3, CallsKept DEF IInv
  <2> QED BY <2>1, <2>3, <2>4, PassesKept, VouchedSame DEF IInv, TypeOK, HandoffIsAuthorised
<1>2. ASSUME NEW a \in Acks, NEW k \in Issuances \X Targets, NEW r \in Sessions, IntentRead(s, k, a, r)
      PROVE  IInv' /\ Kept
  <2> DEFINE c == [call |-> "intent", key |-> k, ack |-> a, receipt |-> r]
  <2>1. ses' = [ses EXCEPT ![s] = c] /\ UNCHANGED <<row, intent, installed, wrk, handed, applied, target, vouched, repointed>>
    BY <1>2 DEF IntentRead, Begin, store, world, history
  <2>2. CallOK(c)
    <3>1. k = <<a.iss, a.auth>> /\ a.auth \in Targets
      BY <1>2 DEF IntentRead, Correlates
    <3>2. Truthful(a)
      BY <1>2, <3>1, DeliveryAssumption DEF IntentRead, Honest, Truthful
    <3> QED BY <3>1, <3>2 DEF CallOK
  <2>3. Kept /\ RowsOK' /\ CompletionIsTrue'
    BY <2>1, RowsSame
  <2>4. CallsOK' /\ DOMAIN ses' = Sessions
    BY <2>1, <2>2, <2>3, CallsKept DEF IInv
  <2> QED BY <2>1, <2>3, <2>4, PassesKept, VouchedSame DEF IInv, TypeOK, HandoffIsAuthorised
<1>3. ASSUME AckCommit(s) PROVE IInv' /\ Kept
  <2> DEFINE c == ses[s]
             done(d) == c.disposition = "accepted" /\ d \in c.rows
  <2>1. /\ ses' = [ses EXCEPT ![s] = IdleSes]
        /\ installed' = installed \cup {<<c.ack.iss, c.ack.auth, c.ack.status>>}
        /\ UNCHANGED <<intent, wrk, handed, applied, target, vouched, repointed>>
    BY <1>3 DEF AckCommit, End, world, history
  <2>2. row' = [d \in Deliveries |-> IF done(d) THEN [row[d] EXCEPT !.st = "active"] ELSE row[d]]
    BY <1>3 DEF AckCommit
  <2>3. /\ Truthful(c.ack) /\ c.rows \subseteq Rows
        /\ c.disposition = "accepted" => c.ack.status = "applied"
        /\ \A d \in c.rows : ToldOf(d, c.ack)
    BY <1>3 DEF AckCommit, IInv, CallsOK, CallOK
  <2>4. ASSUME NEW d \in Deliveries
        PROVE  /\ row'[d] \in RowSet /\ SameFact(row[d], row'[d]) /\ (row'[d].st = "none" <=> row[d].st = "none")
               /\ ~done(d) => row'[d].st = row[d].st
    <3>1. row[d] \in RowSet
      BY DEF IInv, TypeOK
    <3>2. CASE done(d)
      <4>1. row'[d] = [row[d] EXCEPT !.st = "active"] /\ row[d].st # "none"
        BY <2>2, <2>3, <3>2 DEF Rows
      <4>2. row'[d] \in RowSet /\ SameFact(row[d], row'[d]) /\ row'[d].st = "active"
        BY <3>1, <4>1 DEF RowSet, SameFact
      <4> QED BY <3>2, <4>1, <4>2
    <3>3. CASE ~done(d)
      <4>1. row'[d] = row[d]
        BY <2>2, <3>3
      <4> QED BY <3>1, <4>1 DEF SameFact
    <3> QED BY <3>2, <3>3
  <2>5. row' \in [Deliveries -> RowSet]
    BY <2>2, <2>4
  <2>6. vouched' = vouched /\ applied' = applied /\ repointed' = repointed
    BY <2>1
  <2>7. Kept
    BY <2>4, <2>6 DEF Kept, SameFact
  <2>8. RowsOK'
    <3> SUFFICES ASSUME NEW d \in Deliveries PROVE RowOK(row[d])'
      BY DEF RowsOK
    <3>1. RowOK(row[d])
      BY DEF IInv, RowsOK
    <3> QED BY <2>4, <2>6, <3>1 DEF RowOK, SameFact
  <2>9. ASSUME NEW d \in Deliveries, row'[d].st = "active", d \notin repointed'
        PROVE  <<row'[d].iss, row'[d].ref>> \in applied'
    <3>1. CASE done(d)
      <4>1. row[d].iss = c.ack.iss /\ row[d].ref = c.ack.auth
        BY <2>3, <2>6, <2>9, <3>1 DEF ToldOf
      <4> QED BY <2>3, <2>4, <2>6, <3>1, <4>1 DEF Truthful, SameFact
    <3>2. CASE ~done(d)
      BY <2>4, <2>6, <2>9, <3>2 DEF IInv, CompletionIsTrue, Rows, SameFact
    <3> QED BY <3>1, <3>2
  <2>10. CompletionIsTrue'
    <3>1. \A r \in installed' : r[3] = "applied" => <<r[1], r[2]>> \in applied'
      BY <2>1, <2>3 DEF IInv, CompletionIsTrue, Truthful
    <3>2. \A k \in DOMAIN intent' : intent'[k].outcome = "applied" => k \in applied'
      BY <2>1 DEF IInv, CompletionIsTrue
    <3> QED BY <2>9, <3>1, <3>2 DEF CompletionIsTrue, Rows
  <2>11. CallsOK' /\ DOMAIN ses' = Sessions
    BY <2>1, <2>7, CallsKept DEF IInv
  <2> QED BY <2>1, <2>5, <2>7, <2>8, <2>10, <2>11, PassesKept, VouchedSame DEF IInv, TypeOK, HandoffIsAuthorised
<1>4. ASSUME IntentCommit(s) PROVE IInv' /\ Kept
  <2> DEFINE c == ses[s]
             new == [st |-> "acknowledged", receipt |-> c.receipt, outcome |-> c.ack.status]
  <2>1. /\ ses' = [ses EXCEPT ![s] = IdleSes]
        /\ installed' = installed \cup {<<c.ack.iss, c.ack.auth, c.ack.status>>}
        /\ intent' = [intent EXCEPT ![c.key] = new]
        /\ UNCHANGED <<row, wrk, handed, applied, target, vouched, repointed>>
    BY <1>4 DEF IntentCommit, End, world, history
  <2>2. /\ c.key \in Issuances \X Targets /\ c.receipt \in Sessions
        /\ c.ack \in Acks /\ c.key = <<c.ack.iss, c.ack.auth>> /\ Truthful(c.ack)
    BY <1>4 DEF IntentCommit, IInv, CallsOK, CallOK
  <2>3. new \in IntentSet
    BY <2>2 DEF IntentSet, Acks
  <2>4. TypeOK' \/ DOMAIN ses' # Sessions
    BY <2>1, <2>2, <2>3 DEF IInv, TypeOK
  <2>5. Kept /\ RowsOK'
    BY <2>1 DEF Kept, IInv, RowsOK, RowOK
  <2>6. CompletionIsTrue'
    <3>1. \A r \in installed' : r[3] = "applied" => <<r[1], r[2]>> \in applied'
      BY <2>1, <2>2 DEF IInv, CompletionIsTrue, Truthful
    <3>2. \A k \in DOMAIN intent' : intent'[k].outcome = "applied" => k \in applied'
      BY <2>1, <2>2 DEF IInv, TypeOK, CompletionIsTrue, Truthful
    <3>3. \A d \in Rows' \ repointed' : row'[d].st = "active" => <<row'[d].iss, row'[d].ref>> \in applied'
      BY <2>1 DEF IInv, CompletionIsTrue, Rows
    <3> QED BY <3>1, <3>2, <3>3 DEF CompletionIsTrue
  <2>7. CallsOK' /\ DOMAIN ses' = Sessions
    BY <2>1, <2>5, CallsKept DEF IInv
  <2> QED BY <2>1, <2>4, <2>5, <2>6, <2>7, PassesKept, VouchedSame DEF IInv, HandoffIsAuthorised
<1> QED BY <1>1, <1>2, <1>3, <1>4 DEF Acknowledge

LEMMA StepKeeps == IInv /\ [Next]_vars => IInv' /\ Kept
<1> SUFFICES ASSUME IInv, [Next]_vars PROVE IInv' /\ Kept
  OBVIOUS
<1>1. CASE UNCHANGED vars
  BY <1>1, RowsSame, PassesKept, CallsKept, VouchedSame DEF vars, IInv, TypeOK, HandoffIsAuthorised
<1>2. ASSUME NEW w \in Workers, Dispatch(w) \/ CrashPass(w) PROVE IInv' /\ Kept
  <2>1. CASE CommitPass(w)
    BY <2>1, CommitPassKeeps
  <2>2. CASE ~CommitPass(w)
    BY <1>2, <2>2, PassKeeps DEF Dispatch
  <2> QED BY <2>1, <2>2
<1> QED BY <1>1, <1>2, FleetKeeps, StageKeeps, MapKeeps, OutsideKeeps, OperateKeeps, AcknowledgeKeeps DEF Next

LEMMA Always == Spec => []IInv
BY Initially, StepKeeps, PTL DEF Spec

-----------------------------------------------------------------------------
(* The attempts of a generation.                                            *)

AttemptSet == [d : Deliveries, gen : Nat, no : Nat \ {0},
               outcome : {"sent", "simulated", "failed", "terminal", "exported"}]
Count(d, g) == Cardinality(Of(d, g))
Within(a)   == a.outcome # "exported" => a.no <= MaxAttempts

\* The attempts of every generation are numbered from one, each once, and a
\* pass's are within the budget.
Numbered(d, g) == /\ IsFiniteSet(Of(d, g)) /\ {a.no : a \in Of(d, g)} = 1 .. Count(d, g)
                  /\ \A a, b \in Of(d, g) : a.no = b.no => a = b
CountsOK == /\ attempts \subseteq AttemptSet /\ \A a \in attempts : Within(a)
            /\ \A d \in Deliveries, g \in Nat : Numbered(d, g)

\* The rows of two passes are disjoint, and what a pass will add is the next
\* attempt of a row it holds and has dealt with.
NextAttempt(a) == a \in AttemptSet /\ Within(a) /\ a.no = Count(a.d, a.gen) + 1
PassCounts ==
  \A w \in Workers :
    /\ IF wrk[w].pc = "pass" THEN wrk[w].todo \subseteq wrk[w].rows
                             ELSE wrk[w].rows = {} /\ wrk[w].add = {}
    /\ \A v \in Workers : v # w => wrk[v].rows \cap wrk[w].rows = {}
    /\ \A a \in wrk[w].add : NextAttempt(a) /\ a.d \in wrk[w].rows \ wrk[w].todo
    /\ \A a, b \in wrk[w].add : a.d = b.d => a = b

\* An export has counted the attempts that were there when it read.
Counted(c) == c.call = "export" => /\ c.attempt \in AttemptSet /\ c.attempt.outcome = "exported"
                                   /\ c.attempt.no <= Count(c.attempt.d, c.attempt.gen) + 1
CallCounts == \A s \in Sessions : Counted(ses[s])

AInv == CountsOK /\ PassCounts /\ CallCounts

LEMMA CountType ==
  ASSUME CountsOK, NEW d \in Deliveries, NEW g \in Nat
  PROVE  Count(d, g) \in Nat
BY FS_CardinalityType DEF CountsOK, Numbered, Count

\* Next attempts of different generations can be added together.
LEMMA CountsGrow ==
  ASSUME CountsOK, NEW A, \A a \in A : NextAttempt(a), \A a, b \in A : a.d = b.d => a = b,
         attempts' = attempts \cup A
  PROVE  /\ CountsOK'
         /\ \A d \in Deliveries, g \in Nat : /\ Count(d, g)' >= Count(d, g) /\ Count(d, g)' \in Nat
                                             /\ (\A a \in A : a.d # d) => Count(d, g)' = Count(d, g)
<1>1. attempts' \subseteq AttemptSet /\ \A a \in attempts' : Within(a)
  BY DEF CountsOK, NextAttempt
<1>2. ASSUME NEW d \in Deliveries, NEW g \in Nat
      PROVE  /\ Numbered(d, g)' /\ Count(d, g)' >= Count(d, g) /\ Count(d, g)' \in Nat
             /\ (\A a \in A : a.d # d) => Count(d, g)' = Count(d, g)
  <2>1. Numbered(d, g) /\ Count(d, g) \in Nat
    BY CountType DEF CountsOK
  <2>2. CASE \A a \in A : ~(a.d = d /\ a.gen = g)
    <3>1. Of(d, g)' = Of(d, g)
      BY <2>2 DEF Of
    <3> QED BY <2>1, <3>1 DEF Numbered, Count
  <2>3. ASSUME NEW x \in A, x.d = d, x.gen = g
        PROVE  Numbered(d, g)' /\ Count(d, g)' >= Count(d, g) /\ Count(d, g)' \in Nat
    <3>1. Of(d, g)' = Of(d, g) \cup {x}
      BY <2>3 DEF Of
    <3>2. x.no = Count(d, g) + 1 /\ x \notin Of(d, g) /\ \A a \in Of(d, g) : a.no # x.no
      BY <2>1, <2>3 DEF NextAttempt, Numbered
    <3>3. IsFiniteSet(Of(d, g)') /\ Count(d, g)' = Count(d, g) + 1
      BY <2>1, <3>1, <3>2, FS_AddElement DEF Numbered, Count
    <3>4. {a.no : a \in Of(d, g)'} = 1 .. Count(d, g)'
      <4>1. {a.no : a \in Of(d, g)'} = {a.no : a \in Of(d, g)} \cup {x.no}
        BY <3>1
      <4>2. 1 .. (Count(d, g) + 1) = (1 .. Count(d, g)) \cup {Count(d, g) + 1}
        BY <2>1
      <4> QED BY <2>1, <3>2, <3>3, <4>1, <4>2 DEF Numbered
    <3>5. \A a, b \in Of(d, g)' : a.no = b.no => a = b
      BY <2>1, <3>1, <3>2 DEF Numbered
    <3> QED BY <2>1, <3>3, <3>4, <3>5 DEF Numbered
  <2> QED BY <2>2, <2>3
<1> QED BY <1>1, <1>2 DEF CountsOK

\* A step that adds no attempt, leaves the passes alone and starts no export.
LEMMA NothingCounted ==
  ASSUME AInv, DOMAIN ses = Sessions, UNCHANGED <<attempts, wrk>>,
         \/ UNCHANGED ses
         \/ \E s \in Sessions : \E c : c.call # "export" /\ ses' = [ses EXCEPT ![s] = c]
  PROVE  AInv'
<1>1. \A d, g : Of(d, g)' = Of(d, g)
  BY DEF Of
<1>2. CountsOK' /\ PassCounts'
  BY <1>1 DEF AInv, CountsOK, PassCounts, NextAttempt, Numbered, Count
<1>3. \A r \in Sessions : Counted(ses'[r])
  BY DEF AInv, CallCounts, Counted
<1>4. CallCounts'
  BY <1>1, <1>3 DEF CallCounts, Counted, Count
<1> QED BY <1>2, <1>4 DEF AInv

\* What one pass counts while nobody commits: it claims rows nobody holds, and
\* an attempt takes the next number within the budget.
LEMMA PassCountsStep ==
  ASSUME IInv, AInv, NEW w \in Workers,
         \/ \E h \in Handoffs : ScanPending(w, h)
         \/ ClaimPending(w) \/ CrashPass(w)
         \/ \E d \in Deliveries : \/ ParkExhausted(w, d)
                                  \/ \E o \in {SentOutcome(w), "failed", "terminal"} : SendPacket(w, d, o)
  PROVE  AInv'
<1>1. UNCHANGED <<attempts, row, ses>>
  BY DEF ScanPending, ClaimPending, CrashPass, ParkExhausted, SendPacket, store
<1>2. \A d, g : Of(d, g)' = Of(d, g)
  BY <1>1 DEF Of
<1>3. CountsOK' /\ CallCounts'
  BY <1>1, <1>2 DEF AInv, CountsOK, CallCounts, Counted, Numbered, Count
<1> DEFINE p == wrk'[w]
           Right == /\ DOMAIN wrk' = Workers /\ \A v \in Workers : v # w => wrk'[v] = wrk[v]
                    /\ IF p.pc = "pass" THEN p.todo \subseteq p.rows ELSE p.rows = {} /\ p.add = {}
                    /\ \A v \in Workers : v # w => wrk[v].rows \cap p.rows = {}
                    /\ \A a \in p.add : NextAttempt(a) /\ a.d \in p.rows \ p.todo
                    /\ \A a, b \in p.add : a.d = b.d => a = b
<1> USE DEF IInv, TypeOK, PassFields
<1>4. Right
  <2>1. ASSUME NEW h, ScanPending(w, h) PROVE Right
    <3>1. wrk' = [wrk EXCEPT ![w] = [wrk[w] EXCEPT !.pc = "scanned", !.handoff = h, !.todo = Pending]]
      BY <2>1 DEF ScanPending
    <3>2. wrk[w].rows = {} /\ wrk[w].add = {}
      BY <2>1 DEF ScanPending, AInv, PassCounts
    <3> QED BY <3>1, <3>2
  <2>2. CASE ClaimPending(w)
    <3> DEFINE mine == {d \in wrk[w].todo : Claimable(d)}
    <3>1. wrk' = [wrk EXCEPT ![w] = [wrk[w] EXCEPT !.pc = "pass", !.rows = mine, !.todo = mine]]
      BY <2>2 DEF ClaimPending
    <3>2. \A v \in Workers : wrk[v].rows \cap mine = {}
      BY DEF Claimable, Locked
    <3>3. wrk[w].add = {}
      BY <2>2 DEF ClaimPending, AInv, PassCounts
    <3> HIDE DEF mine
    <3> QED BY <3>1, <3>2, <3>3
  <2>3. CASE CrashPass(w)
    BY <2>3 DEF CrashPass, IdleWrk
  <2>4. ASSUME NEW d \in Deliveries, ParkExhausted(w, d) PROVE Right
    <3>1. wrk' = [wrk EXCEPT ![w] = [wrk[w] EXCEPT !.todo = wrk[w].todo \ {d}, !.park = wrk[w].park \cup {d}]]
      BY <2>4 DEF ParkExhausted
    <3>2. /\ wrk'[w].pc = "pass" /\ wrk'[w].rows = wrk[w].rows /\ wrk'[w].todo = wrk[w].todo \ {d}
          /\ wrk'[w].add = wrk[w].add
          /\ DOMAIN wrk' = Workers /\ \A v \in Workers : v # w => wrk'[v] = wrk[v]
      BY <2>4, <3>1 DEF ParkExhausted
    <3>3. wrk[w].todo \subseteq wrk[w].rows
      BY <2>4 DEF ParkExhausted, AInv, PassCounts
    <3>4. \A b \in wrk[w].add : NextAttempt(b) /\ b.d \in wrk[w].rows \ wrk[w].todo
      BY DEF AInv, PassCounts
    <3>5. \A v \in Workers : v # w => wrk[v].rows \cap wrk[w].rows = {}
      BY DEF AInv, PassCounts
    <3>6. \A b, c \in wrk[w].add : b.d = c.d => b = c
      BY DEF AInv, PassCounts
    <3> QED BY <3>2, <3>3, <3>4, <3>5, <3>6
  <2>5. ASSUME NEW d \in Deliveries, NEW o \in {SentOutcome(w), "failed", "terminal"}, SendPacket(w, d, o)
        PROVE  Right
    <3> DEFINE x == Attempt(d, o)
               a == wrk[w].add \cup {x}
               k == IF o = "terminal" THEN wrk[w].park \cup {d} ELSE wrk[w].park
    <3>1. /\ wrk' = [wrk EXCEPT ![w] = [wrk[w] EXCEPT !.todo = wrk[w].todo \ {d}, !.add = a, !.park = k]]
          /\ wrk[w].pc = "pass" /\ d \in wrk[w].todo /\ ~Exhausted(d)
      BY <2>5 DEF SendPacket
    <3>2. x.d = d /\ NextAttempt(x)
      <4>1. row[d].gen \in Nat /\ Count(d, row[d].gen) \in Nat
        BY CountType DEF RowSet, AInv
      <4>2. Count(d, row[d].gen) < MaxAttempts
        BY <3>1, <4>1, DeliveryAssumption DEF Exhausted, Count
      <4>3. o \in {"sent", "simulated", "failed", "terminal"}
        BY DEF SentOutcome
      <4>4. x = [d |-> d, gen |-> row[d].gen, no |-> Count(d, row[d].gen) + 1, outcome |-> o]
        BY DEF Attempt, Count
      <4> HIDE DEF x
      <4>5. /\ x \in AttemptSet /\ x.d = d /\ x.gen = row[d].gen
            /\ x.no = Count(d, row[d].gen) + 1
        BY <4>1, <4>3, <4>4 DEF AttemptSet
      <4> QED BY <4>1, <4>2, <4>5, DeliveryAssumption DEF NextAttempt, Within
    <3> HIDE DEF x, k
    <3>3. /\ wrk'[w].pc = "pass" /\ wrk'[w].rows = wrk[w].rows /\ wrk'[w].todo = wrk[w].todo \ {d}
          /\ wrk'[w].add = a
          /\ DOMAIN wrk' = Workers /\ \A v \in Workers : v # w => wrk'[v] = wrk[v]
      BY <3>1
    <3>4. wrk[w].todo \subseteq wrk[w].rows /\ \A b \in wrk[w].add : NextAttempt(b) /\ b.d \in wrk[w].rows \ wrk[w].todo
      BY <3>1 DEF AInv, PassCounts
    <3>5. \A v \in Workers : v # w => wrk[v].rows \cap wrk[w].rows = {}
      BY DEF AInv, PassCounts
    <3>6. \A b, c \in wrk[w].add : b.d = c.d => b = c
      BY DEF AInv, PassCounts
    <3> QED BY <3>1, <3>2, <3>3, <3>4, <3>5, <3>6
  <2> QED BY <2>1, <2>2, <2>3, <2>4, <2>5
<1>5. \A a : NextAttempt(a)' <=> NextAttempt(a)
  BY <1>2 DEF NextAttempt, Count
<1>6. PassCounts'
  BY <1>4, <1>5 DEF AInv, PassCounts
<1> QED BY <1>3, <1>6 DEF AInv

\* The pass commits what it counted, of the rows it still holds.
LEMMA CommitCounts ==
  ASSUME IInv, AInv, NEW w \in Workers, CommitPass(w)
  PROVE  AInv'
<1>1. /\ attempts' = attempts \cup wrk[w].add /\ UNCHANGED ses
      /\ wrk' = [wrk EXCEPT ![w] = IdleWrk]
  BY DEF CommitPass
<1>2. /\ CountsOK'
      /\ \A d \in Deliveries, g \in Nat :
           /\ Count(d, g)' >= Count(d, g) /\ Count(d, g)' \in Nat
           /\ (\A a \in wrk[w].add : a.d # d) => Count(d, g)' = Count(d, g)
  BY <1>1, CountsGrow DEF AInv, PassCounts
<1>3. CallCounts'
  <2> SUFFICES ASSUME NEW s \in Sessions, ses[s].call = "export" PROVE Counted(ses[s])'
    BY <1>1 DEF CallCounts, Counted
  <2> DEFINE a == ses[s].attempt
  <2>1. a \in AttemptSet /\ a.outcome = "exported" /\ a.no <= Count(a.d, a.gen) + 1
    BY DEF AInv, CallCounts, Counted
  <2>2. a.d \in Deliveries /\ a.gen \in Nat /\ a.no \in Nat
    BY <2>1 DEF AttemptSet
  <2>3. Count(a.d, a.gen)' >= Count(a.d, a.gen) /\ Count(a.d, a.gen) \in Nat /\ Count(a.d, a.gen)' \in Nat
    BY <1>1, <1>2, <2>2, CountType DEF AInv
  <2> QED BY <1>1, <2>1, <2>2, <2>3 DEF Counted
<1>4. PassCounts'
  <2>1. /\ wrk'[w].pc = "idle" /\ wrk'[w].rows = {} /\ wrk'[w].add = {}
        /\ \A v \in Workers : v # w => wrk'[v] = wrk[v]
    BY <1>1 DEF IInv, TypeOK, IdleWrk
  <2>2. ASSUME NEW v \in Workers, v # w, NEW a \in wrk[v].add PROVE NextAttempt(a)'
    <3>1. NextAttempt(a) /\ \A b \in wrk[w].add : b.d # a.d
      BY <2>2 DEF AInv, PassCounts
    <3>2. a.d \in Deliveries /\ a.gen \in Nat
      BY <3>1 DEF NextAttempt, AttemptSet
    <3> QED BY <1>2, <3>1, <3>2 DEF NextAttempt
  <2> QED BY <2>1, <2>2 DEF AInv, PassCounts
<1> QED BY <1>2, <1>3, <1>4 DEF AInv

\* An export counts, and later inserts if nobody took its number: nobody can
\* hold the row then.
LEMMA ExportCounts ==
  ASSUME IInv, AInv, NEW s \in Sessions,
         ExportCommit(s) \/ \E d \in Deliveries : ExportRead(s, d)
  PROVE  AInv'
<1>1. ASSUME NEW d \in Deliveries, ExportRead(s, d) PROVE AInv'
  <2> DEFINE x == Attempt(d, "exported")
             c == [call |-> "export", attempt |-> x]
  <2>1. ses' = [ses EXCEPT ![s] = c] /\ UNCHANGED <<attempts, wrk>>
    BY <1>1 DEF ExportRead, Begin, store
  <2>2. \A e, g : Of(e, g)' = Of(e, g)
    BY <2>1 DEF Of
  <2>3. row[d].gen \in Nat /\ Count(d, row[d].gen) \in Nat
    BY CountType DEF IInv, TypeOK, RowSet, AInv
  <2>4. x = [d |-> d, gen |-> row[d].gen, no |-> Count(d, row[d].gen) + 1, outcome |-> "exported"]
    BY DEF Attempt, Count
  <2> HIDE DEF x
  <2>5. x \in AttemptSet /\ x.outcome = "exported" /\ x.no = Count(x.d, x.gen) + 1
    BY <2>3, <2>4 DEF AttemptSet
  <2>6. Counted(c)
    <3>1. x.no <= Count(x.d, x.gen) + 1
      BY <2>3, <2>4, <2>5
    <3> QED BY <2>5, <3>1 DEF Counted
  <2> HIDE DEF c
  <2>7. \A r \in Sessions : Counted(ses'[r])
    BY <2>1, <2>6 DEF AInv, CallCounts, IInv, TypeOK
  <2>8. CallCounts'
    BY <2>2, <2>7 DEF CallCounts, Counted, Count
  <2>9. CountsOK' /\ PassCounts'
    BY <2>1, <2>2 DEF AInv, CountsOK, PassCounts, NextAttempt, Numbered, Count
  <2> QED BY <2>8, <2>9 DEF AInv
<1>2. CASE ExportCommit(s)
  <2> DEFINE x == ses[s].attempt
  <2>1. /\ ses' = [ses EXCEPT ![s] = IdleSes] /\ UNCHANGED wrk /\ ~Locked(x.d)
        /\ attempts' = IF UniqueAttempt(x) THEN attempts \cup {x} ELSE attempts
    BY <1>2 DEF ExportCommit, End
  <2>2. x \in AttemptSet /\ x.outcome = "exported" /\ x.no <= Count(x.d, x.gen) + 1
    BY <1>2 DEF ExportCommit, AInv, CallCounts, Counted
  <2>3. x.d \in Deliveries /\ x.gen \in Nat /\ x.no \in Nat \ {0} /\ Count(x.d, x.gen) \in Nat
    BY <2>2, CountType DEF AttemptSet, AInv
  <2>4. CASE ~UniqueAttempt(x)
    BY <2>1, <2>4, NothingCounted DEF IdleSes, IInv, TypeOK
  <2>5. CASE UniqueAttempt(x)
    <3>1. NextAttempt(x)
      <4>1. Numbered(x.d, x.gen)
        BY <2>3 DEF AInv, CountsOK
      <4>2. x.no \notin {a.no : a \in Of(x.d, x.gen)}
        BY <2>5 DEF UniqueAttempt, Of
      <4>3. x.no = Count(x.d, x.gen) + 1
        BY <2>2, <2>3, <4>1, <4>2 DEF Numbered
      <4> QED BY <2>2, <4>3 DEF NextAttempt, Within
    <3>2. /\ CountsOK'
          /\ \A d \in Deliveries, g \in Nat :
               /\ Count(d, g)' >= Count(d, g) /\ Count(d, g)' \in Nat
               /\ x.d # d => Count(d, g)' = Count(d, g)
      <4> DEFINE A == {x}
      <4>1. (\A a \in A : NextAttempt(a)) /\ (\A a, b \in A : a.d = b.d => a = b) /\ attempts' = attempts \cup A
        BY <2>1, <2>5, <3>1
      <4>2. CountsOK
        BY DEF AInv
      <4> HIDE DEF A
      <4>3. /\ CountsOK'
            /\ \A d \in Deliveries, g \in Nat : /\ Count(d, g)' >= Count(d, g) /\ Count(d, g)' \in Nat
                                                /\ (\A a \in A : a.d # d) => Count(d, g)' = Count(d, g)
        BY <4>1, <4>2, CountsGrow
      <4> QED BY <4>3 DEF A
    <3>3. PassCounts'
      <4>1. ASSUME NEW v \in Workers, NEW a \in wrk[v].add PROVE NextAttempt(a)'
        <5>1. NextAttempt(a) /\ a.d # x.d
          BY <2>1 DEF AInv, PassCounts, Locked
        <5>2. a.d \in Deliveries /\ a.gen \in Nat
          BY <5>1 DEF NextAttempt, AttemptSet
        <5> QED BY <3>2, <5>1, <5>2 DEF NextAttempt
      <4> QED BY <2>1, <4>1 DEF AInv, PassCounts
    <3>4. CallCounts'
      <4> SUFFICES ASSUME NEW r \in Sessions, ses'[r].call = "export" PROVE Counted(ses[r])'
        BY DEF CallCounts, Counted
      <4> DEFINE a == ses[r].attempt
      <4>1. ses'[r] = ses[r]
        BY <2>1 DEF IdleSes, IInv, TypeOK
      <4>2. a \in AttemptSet /\ a.outcome = "exported" /\ a.no <= Count(a.d, a.gen) + 1
        BY <4>1 DEF AInv, CallCounts, Counted
      <4>3. a.d \in Deliveries /\ a.gen \in Nat /\ a.no \in Nat
        BY <4>2 DEF AttemptSet
      <4>4. Count(a.d, a.gen)' >= Count(a.d, a.gen) /\ Count(a.d, a.gen) \in Nat /\ Count(a.d, a.gen)' \in Nat
        BY <3>2, <4>1, <4>3, CountType DEF AInv
      <4> QED BY <4>1, <4>2, <4>3, <4>4 DEF Counted
    <3> QED BY <3>2, <3>3, <3>4 DEF AInv
  <2> QED BY <2>4, <2>5
<1> QED BY <1>1, <1>2

LEMMA CountsKept == IInv /\ AInv /\ [Next]_vars => AInv'
<1> SUFFICES ASSUME IInv, AInv, [Next]_vars PROVE AInv'
  OBVIOUS
<1> USE DEF store, world, history
<1>1. CASE UNCHANGED vars
  BY <1>1, NothingCounted DEF vars, IInv, TypeOK
<1>2. ASSUME NEW t \in Targets, NEW st, NEW c, FleetChanges(t, st, c) \/ ReconcileDeliveryTarget(t) PROVE AInv'
  BY <1>2, NothingCounted DEF FleetChanges, ReconcileDeliveryTarget, IInv, TypeOK
<1>3. ASSUME NEW d, NEW i, NEW t, StageDelivery(d, i, t) \/ MapLegacyDelivery(d, t) PROVE AInv'
  BY <1>3, NothingCounted DEF StageDelivery, MapLegacyDelivery, IInv, TypeOK
<1>4. ASSUME NEW i, NEW t, Apply(i, t) \/ OpenDeliveryIntent(i, t) PROVE AInv'
  BY <1>4, NothingCounted DEF Apply, OpenDeliveryIntent, IInv, TypeOK
<1>5. ASSUME NEW w \in Workers, Dispatch(w) \/ CrashPass(w) PROVE AInv'
  <2>1. CASE CommitPass(w)
    BY <2>1, CommitCounts
  <2>2. CASE ~CommitPass(w)
    BY <1>5, <2>2, PassCountsStep DEF Dispatch
  <2> QED BY <2>1, <2>2
<1>6. ASSUME NEW s \in Sessions, Operate(s) PROVE AInv'
  <2>1. ASSUME NEW d \in Deliveries, ResumeRead(s, d) PROVE AInv'
    <3>1. UNCHANGED <<attempts, wrk>>
          /\ ses' = [ses EXCEPT ![s] = [call |-> "resume", d |-> d, gen |-> row[d].gen, saw |-> row[d].st]]
      BY <2>1 DEF ResumeRead, Begin
    <3> QED BY <3>1, NothingCounted DEF IInv, TypeOK
  <2>2. CASE ResumeCommit(s)
    BY <2>2, NothingCounted DEF ResumeCommit, End, IdleSes, IInv, TypeOK
  <2> QED BY <1>6, <2>1, <2>2, ExportCounts DEF Operate
<1>7. ASSUME NEW s \in Sessions, Acknowledge(s) PROVE AInv'
  <2>1. \/ \E a \in Acks : AckRead(s, a)
        \/ \E a \in Acks, k \in Issuances \X Targets, r \in Sessions : IntentRead(s, k, a, r)
        \/ AckCommit(s) \/ IntentCommit(s)
    BY <1>7 DEF Acknowledge
  <2>2. ASSUME NEW a \in Acks, AckRead(s, a) PROVE AInv'
    <3> DEFINE c == [call |-> "ack", ack |-> a, disposition |-> Disposition(a), rows |-> Acknowledged(a)]
    <3>1. UNCHANGED <<attempts, wrk>> /\ ses' = [ses EXCEPT ![s] = c] /\ c.call # "export"
      BY <2>2 DEF AckRead, Begin
    <3> HIDE DEF c
    <3> QED BY <3>1, NothingCounted DEF IInv, TypeOK
  <2>3. ASSUME NEW a \in Acks, NEW k, NEW r, IntentRead(s, k, a, r) PROVE AInv'
    <3>1. UNCHANGED <<attempts, wrk>>
          /\ ses' = [ses EXCEPT ![s] = [call |-> "intent", key |-> k, ack |-> a, receipt |-> r]]
      BY <2>3 DEF IntentRead, Begin
    <3> QED BY <3>1, NothingCounted DEF IInv, TypeOK
  <2>4. CASE AckCommit(s) \/ IntentCommit(s)
    BY <2>4, NothingCounted DEF AckCommit, IntentCommit, End, IdleSes, IInv, TypeOK
  <2> QED BY <2>1, <2>2, <2>3, <2>4
<1> QED BY <1>1, <1>2, <1>3, <1>4, <1>5, <1>6, <1>7 DEF Next

\* Numbers within the budget, each once: no more attempts than the budget.
LEMMA CountsSuffice == AInv => AttemptsAreCounted
<1> SUFFICES ASSUME AInv, NEW a \in attempts
             PROVE  /\ {b.no : b \in Of(a.d, a.gen)} = 1 .. Cardinality(Of(a.d, a.gen))
                    /\ Cardinality({b \in Of(a.d, a.gen) : b.outcome # "exported"}) <= MaxAttempts
  BY DEF AttemptsAreCounted
<1> DEFINE G == Of(a.d, a.gen)
           R == {b \in G : b.outcome # "exported"}
<1>1. Numbered(a.d, a.gen)
  BY DEF AInv, CountsOK, AttemptSet
<1>2. \A b \in R : b.no \in 1 .. MaxAttempts
  BY DeliveryAssumption DEF AInv, CountsOK, AttemptSet, Within, Of
<1>3. [b \in R |-> b.no] \in Injection(R, 1 .. MaxAttempts)
  BY <1>1, <1>2 DEF Numbered, Injection, IsInjective
<1>4. IsFiniteSet(1 .. MaxAttempts) /\ Cardinality(1 .. MaxAttempts) = MaxAttempts
  BY FS_Interval, DeliveryAssumption
<1>5. Cardinality(R) <= MaxAttempts
  <2> HIDE DEF R
  <2> QED BY <1>3, <1>4, FS_Injection
<1> QED BY <1>1, <1>5 DEF Numbered, Count

LEMMA CountsFirst == Init => AInv
<1> SUFFICES ASSUME Init PROVE AInv
  OBVIOUS
<1>1. \A d, g : Of(d, g) = {} /\ Count(d, g) = 0
  BY FS_EmptySet DEF Init, Of, Count
<1>2. CountsOK
  <2>1. \A d, g : Numbered(d, g)
    BY <1>1, FS_EmptySet DEF Numbered
  <2> QED BY <2>1 DEF Init, CountsOK
<1>3. PassCounts
  BY DEF Init, PassCounts, IdleWrk
<1>4. CallCounts
  BY DEF Init, CallCounts, Counted, IdleSes
<1> QED BY <1>2, <1>3, <1>4 DEF AInv

-----------------------------------------------------------------------------
(* Theorems.                                                                *)

\* The rows, intents, passes and calls keep their types.
THEOREM Typed == Spec => []TypeOK
<1>1. IInv => TypeOK
  BY DEF IInv
<1> QED BY <1>1, Always, PTL

\* Whatever passes, exports, resumes and acknowledgements overlap, the vendor
\* believes a deployment licensed only if it applied that exact version, except
\* for a row that map_legacy_delivery pointed at another target than it had
\* (ingest_acknowledgement, acknowledge_delivery_intent).
THEOREM CompletionsAreTrue == Spec => []CompletionIsTrue
<1>1. IInv => CompletionIsTrue
  BY DEF IInv
<1> QED BY <1>1, Always, PTL

\* Whatever left the process names a target that the projection showed as an
\* active one of the customer, and the deployment the licence is bound to
\* (_authorised_target, and the rows export and replay trust).
THEOREM HandoffsAreAuthorised == Spec => []HandoffIsAuthorised
<1>1. IInv => HandoffIsAuthorised
  BY DEF IInv
<1> QED BY <1>1, Always, PTL

\* Passes, exports and resumes that overlap keep one count of a generation's
\* attempts, and no more than the budget of them are a pass's
\* (dispatch_pending, export_delivery_bundle, uq_licence_delivery_attempt_no).
THEOREM AttemptsCounted == Spec => []AttemptsAreCounted
<1>1. Spec => []AInv
  BY CountsFirst, CountsKept, Always, PTL DEF Spec
<1> QED BY <1>1, CountsSuffice, PTL

\* A delivery keeps its destination: no step takes a destination from a row or
\* gives it another, changes what it delivers, or unmakes what was applied
\* (stage_delivery, map_legacy_delivery; the state row is all the others write).
THEOREM DestinationsKept == Spec => [][Kept]_vars
<1>1. IInv /\ [Next]_vars => [Kept]_vars
  BY StepKeeps
<1> QED BY <1>1, Always, PTL DEF Spec
=============================================================================
