---------------------------- MODULE LicenceDelivery ----------------------------
(***************************************************************************)
(* How an issued licence reaches a deployment and how the vendor learns    *)
(* that it was applied.  A delivery is staged for an authorised target,    *)
(* replayed by dispatch passes or exported by an operator, parked, resumed *)
(* and finally activated by an acknowledgement (projection.py,             *)
(* transport.py); an Integrator works from delivery intents instead        *)
(* (source_ports.py).  Every call is one READ COMMITTED transaction.  The  *)
(* calls that decide on what they read are split into the read and the     *)
(* commit; a dispatch pass holds its delivery rows FOR UPDATE, and an      *)
(* acknowledgement or an attempt inserted by somebody else waits for that  *)
(* lock, because its foreign key shares it.                                *)
(*                                                                         *)
(* One lineage is modelled, so an issuance is its version number.  The     *)
(* audit events and the log of acknowledgements are only ever appended to  *)
(* and decide nothing: they are left out.                                  *)
(***************************************************************************)
EXTENDS Naturals, FiniteSets

CONSTANTS
  Issuances,      \* issued versions of the lineage
  Targets,        \* target references of the fleet
  Deliveries,     \* ids of licence_deliveries rows, handed out in order
  Customers,      \* customer references
  Subject,        \* the customer the lineage belongs to
  Bound,          \* deployment an issuance is bound to, or None
  None,           \* no target
  Workers,        \* callers of dispatch_pending
  Sessions,       \* callers of everything else
  Handoffs,       \* whether a pass's transport performs an external handoff
  MaxAttempts,    \* dispatch_pending's max_attempts
  Budgets         \* bounds: how often each kind of call or mishap happens

Kinds == {"fleet", "stage", "crash", "overlap", "export", "resume", "apply", "ack",
          "intent", "report"}

ASSUME DeliveryAssumption ==
  /\ Issuances \subseteq Nat \ {0} /\ Deliveries \subseteq Nat
  /\ Subject \in Customers /\ None \notin Targets
  /\ Bound \in [Issuances -> Targets \cup {None}]
  /\ Handoffs \subseteq BOOLEAN
  /\ MaxAttempts \in Nat \ {0} /\ Budgets \subseteq [Kinds -> Nat]

VARIABLES
  fleet,      \* mod_deploy's targets: standing and customer
  target,     \* licence_delivery_targets, the projection of the fleet
  row,        \* licence_deliveries with its licence_delivery_states row
  attempts,   \* licence_delivery_attempts
  wrk,        \* the dispatch passes
  ses,        \* the other calls
  intent,     \* licence_delivery_intents, by issuance and target
  installed,  \* installation reports recorded with the licence authority
  handed,     \* artifacts that left the process, with the target they name
  applied,    \* what the deployments really applied
  vouched,    \* history: targets the projection has shown active and the customer's
  repointed,  \* history: rows whose reference map_legacy_delivery changed
  left        \* calls and mishaps left, by kind

store == <<target, row, attempts, intent, installed>>
world == <<fleet, handed, applied>>
vars == <<fleet, target, row, attempts, wrk, ses, intent, installed, handed,
          applied, vouched, repointed, left>>
history == <<vouched, repointed>>

NoRow    == [iss |-> 0, ref |-> None, mapped |-> FALSE, st |-> "none", gen |-> 0]
NoTarget == [status |-> "absent", customer |-> Subject]
NoIntent == [st |-> "none", receipt |-> None, outcome |-> "none"]
IdleWrk  == [pc |-> "idle", handoff |-> FALSE, rows |-> {}, todo |-> {}, add |-> {},
             park |-> {}]
IdleSes  == [call |-> "idle"]
Rows     == {d \in Deliveries : row[d].st # "none"}

Spend(k) == left[k] > 0 /\ left' = [left EXCEPT ![k] = @ - 1]

-----------------------------------------------------------------------------
(* The fleet and its projection.                                           *)

\* mod_deploy: a target is suspended, made active again, or changes hands
FleetChanges(t, standing, customer) ==
  /\ Spend("fleet")
  /\ fleet[t] # [status |-> standing, customer |-> customer]
  /\ fleet' = [fleet EXCEPT ![t] = [status |-> standing, customer |-> customer]]
  /\ UNCHANGED <<store, wrk, ses, handed, applied, history>>

\* a target the licensing projection shows as a destination of the customer
Shown(t) == target[t].status = "active" /\ target[t].customer = Subject

\* reconcile_delivery_target, from resolve_target: registered or not, the row
\* takes what the fleet owner says
ReconcileDeliveryTarget(t) ==
  /\ target[t] # fleet[t]
  /\ target' = [target EXCEPT ![t] = fleet[t]]
  /\ vouched' = vouched \cup {u \in Targets : Shown(u)'}
  /\ UNCHANGED <<row, attempts, intent, installed, wrk, ses, world, repointed, left>>

\* Mutant: the lineage's customer is not compared.
MutAuthorisedTarget(i, t) == target[t].status = "active" /\ Bound[i] \in {None, t}

\* _authorised_target: registered, active, of the lineage's customer, and the
\* deployment the issuance is bound to
AuthorisedTarget(i, t) ==
  /\ target[t].status = "active"
  /\ target[t].customer = Subject
  /\ Bound[i] \in {None, t}

\* uq_licence_delivery_issuance_target
Staged(i, t) == {d \in Rows : row[d].iss = i /\ row[d].ref = t}

\* stage_delivery: the fact and its projection; a repeat is the same fact
StageDelivery(d, i, t) ==
  /\ d \notin Rows /\ \A e \in Deliveries : e < d => e \in Rows
  /\ AuthorisedTarget(i, t) /\ Staged(i, t) = {}
  /\ row' = [row EXCEPT ![d] = [NoRow EXCEPT !.iss = i, !.ref = t, !.mapped = TRUE,
                                               !.st = "delivered", !.gen = 1]]
  /\ Spend("stage")
  /\ UNCHANGED <<target, attempts, intent, installed, wrk, ses, world, history>>

\* map_legacy_delivery: whatever its state, a row without a destination gets
\* one, and not always the one its reference named before
MapLegacyDelivery(d, t) ==
  /\ d \in Rows /\ ~row[d].mapped
  /\ AuthorisedTarget(row[d].iss, t) /\ Staged(row[d].iss, t) \subseteq {d}
  /\ row' = [row EXCEPT ![d].ref = t, ![d].mapped = TRUE]
  /\ repointed' = IF t = row[d].ref THEN repointed ELSE repointed \cup {d}
  /\ UNCHANGED <<target, attempts, intent, installed, wrk, ses, world, vouched, left>>

-----------------------------------------------------------------------------
(* The dispatch pass.                                                      *)

Of(d, g)   == {a \in attempts : a.d = d /\ a.gen = g}
Locked(d)  == \E w \in Workers : d \in wrk[w].rows

\* the deliveries pending_deliveries selects
Pending == {d \in Rows : row[d].st = "delivered" /\ row[d].mapped}

\* dispatch_pending, with a transport that hands off or a pass the operator
\* asked to simulate: pending_deliveries takes its snapshot ...
ScanPending(w, handoff) ==
  /\ wrk[w].pc = "idle" /\ Pending # {}
  /\ IF \A v \in Workers : wrk[v].pc = "idle" THEN UNCHANGED left ELSE Spend("overlap")
  /\ wrk' = [wrk EXCEPT ![w].pc = "scanned", ![w].handoff = handoff, ![w].todo = Pending]
  /\ UNCHANGED <<store, ses, world, history>>

\* Mutant: the rows are selected without FOR UPDATE SKIP LOCKED.
MutClaimable(d) == TRUE

\* FOR UPDATE SKIP LOCKED
Claimable(d) == ~Locked(d)

\* ... and locks the delivery rows it can have: a lock does not look at the
\* state row again
ClaimPending(w) ==
  LET mine == {d \in wrk[w].todo : Claimable(d)}
  IN  /\ wrk[w].pc = "scanned"
      /\ wrk' = [wrk EXCEPT ![w].pc = "pass", ![w].rows = mine, ![w].todo = mine]
      /\ UNCHANGED <<store, ses, world, history, left>>

\* the retry budget of the current generation is spent
Exhausted(d) == Cardinality(Of(d, row[d].gen)) >= MaxAttempts

Attempt(d, outcome) ==
  [d |-> d, gen |-> row[d].gen, no |-> Cardinality(Of(d, row[d].gen)) + 1,
   outcome |-> outcome]

ParkExhausted(w, d) ==
  /\ wrk[w].pc = "pass" /\ d \in wrk[w].todo /\ Exhausted(d)
  /\ wrk' = [wrk EXCEPT ![w].todo = @ \ {d}, ![w].park = @ \cup {d}]
  /\ UNCHANGED <<store, ses, world, history, left>>

\* what an attempt is worth: only a handoff is recorded as sent
SentOutcome(w) == IF wrk[w].handoff THEN "sent" ELSE "simulated"

\* transport.send: the packet goes out, or fails for now or for good
SendPacket(w, d, outcome) ==
  /\ wrk[w].pc = "pass" /\ d \in wrk[w].todo /\ ~Exhausted(d)
  /\ wrk' = [wrk EXCEPT ![w].todo = @ \ {d},
                        ![w].add  = @ \cup {Attempt(d, outcome)},
                        ![w].park = IF outcome = "terminal" THEN @ \cup {d} ELSE @]
  /\ handed' = IF outcome = "sent"
               THEN handed \cup {<<row[d].iss, row[d].ref>>} ELSE handed
  /\ UNCHANGED <<store, ses, fleet, applied, history, left>>

\* the caller commits the whole pass: _park writes over whatever state is there
CommitPass(w) ==
  /\ wrk[w].pc = "pass" /\ wrk[w].todo = {}
  /\ attempts' = attempts \cup wrk[w].add
  /\ row' = [d \in Deliveries |-> IF d \in wrk[w].park
                                  THEN [row[d] EXCEPT !.st = "parked"] ELSE row[d]]
  /\ wrk' = [wrk EXCEPT ![w] = IdleWrk]
  /\ UNCHANGED <<target, intent, installed, ses, world, history, left>>

\* the pass dies: its attempts are rolled back, what it sent is gone
CrashPass(w) ==
  /\ wrk[w].pc # "idle" /\ Spend("crash")
  /\ wrk' = [wrk EXCEPT ![w] = IdleWrk]
  /\ UNCHANGED <<store, ses, world, history>>

-----------------------------------------------------------------------------
(* Export and resume, by an operator.                                      *)

Begin(s, kind, call) ==
  /\ ses[s] = IdleSes /\ ses' = [ses EXCEPT ![s] = call] /\ Spend(kind)
  /\ UNCHANGED <<store, wrk, world, history>>

End(s) == ses' = [ses EXCEPT ![s] = IdleSes]

\* a row without a resolved destination is not exported
Exportable(d) == d \in Rows /\ row[d].mapped

\* export_delivery_bundle counts the attempts of the generation ...
ExportRead(s, d) ==
  /\ Exportable(d)
  /\ Begin(s, "export", [call |-> "export", attempt |-> Attempt(d, "exported")])

\* uq_licence_delivery_attempt_no
UniqueAttempt(a) ==
  \A b \in attempts : <<b.d, b.gen, b.no>> # <<a.d, a.gen, a.no>>

\* ... and returns the bundle when its attempt could be inserted
ExportCommit(s) ==
  /\ ses[s].call = "export" /\ ~Locked(ses[s].attempt.d)
  /\ End(s)
  /\ IF UniqueAttempt(ses[s].attempt)
     THEN /\ attempts' = attempts \cup {ses[s].attempt}
          /\ handed' = handed \cup {<<row[ses[s].attempt.d].iss, row[ses[s].attempt.d].ref>>}
     ELSE UNCHANGED <<attempts, handed>>
  /\ UNCHANGED <<target, row, intent, installed, wrk, fleet, applied, history, left>>

\* resume_delivery acts on a parked row with a destination
Resumable(d) == d \in Rows /\ row[d].mapped /\ row[d].st = "parked"

ResumeRead(s, d) ==
  /\ Resumable(d)
  /\ Begin(s, "resume", [call |-> "resume", d |-> d, gen |-> row[d].gen, saw |-> row[d].st])

\* a new generation: the retry budget starts again, the history stays
ResumeCommit(s) ==
  /\ ses[s].call = "resume"
  /\ End(s)
  /\ row' = [row EXCEPT ![ses[s].d].st = "delivered", ![ses[s].d].gen = ses[s].gen + 1]
  /\ UNCHANGED <<target, attempts, intent, installed, wrk, world, history, left>>

-----------------------------------------------------------------------------
(* The deployments (external) and their acknowledgements.                  *)

\* a deployment applies an artifact that reached it; an exported bundle is
\* carried by hand and may reach another target than the one it names
Apply(i, t) ==
  /\ Bound[i] \in {None, t}
  /\ \/ <<i, t>> \in handed
     \/ \E a \in attempts : a.outcome = "exported" /\ row[a.d].iss = i
     \/ intent[<<i, t>>].st # "none"
  /\ <<i, t>> \notin applied /\ Spend("apply")
  /\ applied' = applied \cup {<<i, t>>}
  /\ UNCHANGED <<store, wrk, ses, fleet, handed, history>>

\* an authenticated deployment reports what it did; anybody else claims anything
Honest(a) == (a.auth # None /\ a.status = "applied") => <<a.iss, a.auth>> \in applied

\* _highest_active_version, over every target of the lineage
HighestActive ==
  LET active == {row[d].iss : d \in {e \in Rows : row[e].st = "active"}}
  IN  IF active = {} THEN 0 ELSE CHOOSE v \in active : \A u \in active : u <= v

\* the delivery to the deployment that proved its identity
Acknowledged(a) == Staged(a.iss, a.auth)

\* the rules in the order ingest_acknowledgement applies them
Disposition(a) ==
  CASE a.auth = None -> "unverified_identity"
    [] a.auth # None /\ (a.claim \notin {None, a.auth} \/ Bound[a.iss] \notin {None, a.auth}) ->
         "deployment_mismatch"
    [] OTHER ->
         IF a.status # "applied" THEN "rejected_by_receiver"
         ELSE IF a.iss < HighestActive THEN "stale"
         ELSE IF Acknowledged(a) = {} THEN "unknown_licence"
         ELSE IF \E d \in Acknowledged(a) : row[d].st = "active" THEN "duplicate"
         ELSE "accepted"

\* the dispositions reported to the licence authority
Reported == {"rejected_by_receiver", "stale", "unknown_licence", "duplicate", "accepted"}

\* ingest_acknowledgement reads and decides; the others are only logged
AckRead(s, a) ==
  /\ Honest(a) /\ Disposition(a) \in Reported
  /\ Begin(s, "ack", [call |-> "ack", ack |-> a, disposition |-> Disposition(a),
                     rows |-> Acknowledged(a)])

\* the record shares the delivery row, so a dispatch pass holds it up
AckCommit(s) ==
  LET c == ses[s]
  IN  /\ c.call = "ack" /\ \A d \in c.rows : ~Locked(d)
      /\ End(s)
      /\ installed' = installed \cup {<<c.ack.iss, c.ack.auth, c.ack.status>>}
      /\ row' = [d \in Deliveries |->
                   IF c.disposition = "accepted" /\ d \in c.rows
                   THEN [row[d] EXCEPT !.st = "active"] ELSE row[d]]
      /\ UNCHANGED <<target, attempts, intent, wrk, world, history, left>>

-----------------------------------------------------------------------------
(* The source ports an Integrator uses.                                    *)

\* open_delivery_intent asks the fleet owner itself, and not for its standing
OpenDeliveryIntent(i, t) ==
  /\ intent[<<i, t>>] = NoIntent
  /\ fleet[t].customer = Subject /\ Bound[i] \in {None, t}
  /\ intent' = [intent EXCEPT ![<<i, t>>].st = "open"] /\ Spend("intent")
  /\ UNCHANGED <<target, row, attempts, installed, wrk, ses, world, history>>

\* Mutant: the proved identity is not compared.
MutCorrelates(k, a) == a.iss = k[1] /\ a.claim = k[2]

\* every coordinate of the acknowledgement is the intent's own, and the
\* identity the transport proved is its destination
Correlates(k, a) == a.iss = k[1] /\ a.claim = k[2] /\ a.auth = k[2]

\* acknowledge_delivery_intent of an intent that is still open; a completed one
\* replays its own receipt and refuses any other
IntentRead(s, k, a, receipt) ==
  /\ Honest(a) /\ Correlates(k, a)
  /\ intent[k].st = "open"
  /\ Begin(s, "report", [call |-> "intent", key |-> k, ack |-> a, receipt |-> receipt])

IntentCommit(s) ==
  LET c == ses[s]
  IN  /\ c.call = "intent"
      /\ End(s)
      /\ installed' = installed \cup {<<c.ack.iss, c.ack.auth, c.ack.status>>}
      /\ intent' = [intent EXCEPT ![c.key] = [st |-> "acknowledged", receipt |-> c.receipt,
                                              outcome |-> c.ack.status]]
      /\ UNCHANGED <<target, row, attempts, wrk, world, history, left>>

-----------------------------------------------------------------------------
Acks == [iss: Issuances, auth: Targets \cup {None}, claim: Targets \cup {None},
         status: {"applied", "rejected"}]

\* the rows v010 found without a destination: parked, the active ones too
ParkedByMigration(i, t) ==
  [NoRow EXCEPT !.iss = i, !.ref = t, !.st = "parked", !.gen = 1]

Init ==
  /\ fleet = [t \in Targets |-> [status |-> "active", customer |-> Subject]]
  /\ target \in [Targets -> {NoTarget, [status |-> "active", customer |-> Subject]}]
  /\ row \in [Deliveries -> {NoRow} \cup {ParkedByMigration(i, t) : i \in Issuances, t \in Targets}]
  /\ \A d, e \in Rows : Staged(row[d].iss, row[d].ref) \cap {d, e} = {d, e} => d = e
  /\ attempts = {} /\ installed = {} /\ handed = {} /\ repointed = {}
  /\ applied \in SUBSET {<<row[d].iss, row[d].ref>> : d \in Rows}
  /\ vouched = {t \in Targets : Shown(t)}
  /\ wrk = [w \in Workers |-> IdleWrk]
  /\ ses = [s \in Sessions |-> IdleSes]
  /\ intent = [k \in Issuances \X Targets |-> NoIntent]
  /\ left \in Budgets

Dispatch(w) ==
  \/ \E h \in Handoffs : ScanPending(w, h)
  \/ ClaimPending(w) \/ CommitPass(w)
  \/ \E d \in Deliveries :
       \/ ParkExhausted(w, d)
       \/ \E outcome \in {SentOutcome(w), "failed", "terminal"} : SendPacket(w, d, outcome)

Operate(s) ==
  \/ \E d \in Deliveries : ExportRead(s, d) \/ ResumeRead(s, d)
  \/ ExportCommit(s) \/ ResumeCommit(s)

Acknowledge(s) ==
  \/ \E a \in Acks :
       \/ AckRead(s, a)
       \/ \E k \in Issuances \X Targets, r \in Sessions : IntentRead(s, k, a, r)
  \/ AckCommit(s) \/ IntentCommit(s)

Next ==
  \/ \E t \in Targets, st \in {"active", "suspended"}, c \in Customers : FleetChanges(t, st, c)
  \/ \E t \in Targets : ReconcileDeliveryTarget(t)
  \/ \E d \in Deliveries, i \in Issuances, t \in Targets : StageDelivery(d, i, t)
  \/ \E d \in Deliveries, t \in Targets : MapLegacyDelivery(d, t)
  \/ \E i \in Issuances, t \in Targets : Apply(i, t) \/ OpenDeliveryIntent(i, t)
  \/ \E w \in Workers : Dispatch(w) \/ CrashPass(w)
  \/ \E s \in Sessions : Operate(s) \/ Acknowledge(s)

Spec == Init /\ [][Next]_vars

-----------------------------------------------------------------------------
(* Properties.                                                             *)

\* Whatever overlaps, the vendor believes a deployment licensed only if that
\* deployment applied that exact version: an active delivery, an installation
\* report of the licence authority, and a completed intent
\* (ingest_acknowledgement, acknowledge_delivery_intent).  It is said of every
\* row but those map_legacy_delivery gave another reference than they had: for
\* them it is false, see ActiveMeansCommitted.
CompletionIsTrue ==
  /\ \A d \in Rows \ repointed : row[d].st = "active" => <<row[d].iss, row[d].ref>> \in applied
  /\ \A r \in installed : r[3] = "applied" => <<r[1], r[2]>> \in applied
  /\ \A k \in DOMAIN intent : intent[k].outcome = "applied" => k \in applied

\* No artifact leaves the process for another deployment than the one it is
\* bound to, or for a target that the projection of the fleet never showed as
\* an active one of the lineage's customer.  Export and replay trust the row:
\* staging and mapping must between them let no other row through
\* (_authorised_target).  A target may have been suspended since: export and
\* replay do not read its standing again.
HandoffIsAuthorised ==
  \A h \in handed : h[2] \in vouched /\ Bound[h[1]] \in {None, h[2]}

\* Passes, exports and resumes that overlap keep one count of a generation's
\* attempts: they are numbered from one without a gap or a repeat, and no more
\* of them than the budget are a pass's (dispatch_pending's max_attempts,
\* SKIP LOCKED, uq_licence_delivery_attempt_no).
AttemptsAreCounted ==
  \A a \in attempts :
    LET generation == Of(a.d, a.gen)
    IN  /\ {b.no : b \in generation} = 1 .. Cardinality(generation)
        /\ Cardinality({b \in generation : b.outcome # "exported"}) <= MaxAttempts

\* What the module's documentation says of every active delivery: the
\* deployment it names committed that version (projection.py, "one hard rule").
\* The code breaks it for a legacy row that is activated and mapped after.
ActiveMeansCommitted ==
  \A d \in Rows : row[d].st = "active" => <<row[d].iss, row[d].ref>> \in applied

=============================================================================
