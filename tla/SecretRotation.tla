---------------------------- MODULE SecretRotation ----------------------------
(***************************************************************************)
(* The rotation of the production secrets (production_secrets.py): one     *)
(* incident, whose coordinator keeps a custody file and a receipt, updates *)
(* the two OpenBao records by compare-and-set and sends the sets to an     *)
(* adapter on the host, which alters the database roles, rewrites .env and *)
(* recreates the app.  Either process may stop between any two effects and *)
(* the connection between them may drop; the operator runs the same        *)
(* command again, or the incident-only rollback.                           *)
(***************************************************************************)
EXTENDS Naturals, Sequences, FiniteSets

CONSTANTS
  Old, Foreign, \* the material in use, and what somebody else may write
  Fresh,        \* sets a coordinator may mint
  None,         \* no material
  Mishaps,      \* what may go wrong besides a stop: a subset of MishapKinds
  MaxFaults,    \* bound: stopped or failed steps
  MaxEdits      \* bound: edits of a record by somebody else

MishapKinds == {"torn", "unlinked", "down", "rollback"}

ASSUME MaterialAssumption ==
  /\ Old # Foreign /\ None \notin Fresh \cup {Old, Foreign}
  /\ Old \notin Fresh /\ Foreign \notin Fresh
ASSUME MishapsAssumption == Mishaps \subseteq MishapKinds
ASSUME BoundsAssumption  == MaxFaults \in Nat /\ MaxEdits \in Nat

Paths    == {"database", "runtime"}
Material == Fresh \cup {Old, Foreign}
Phases   == {"none", "prepared", "database_written", "committed", "proved",
             "rb_database_written", "rb_committed", "rolled_back"}
Targets  == <<"none", "prepared", "database", "environment", "recreated", "proved">>

VARIABLES
  bao,       \* versions of the two records; the last one is current
  edits,     \* edits by somebody else so far
  (* the coordinator's files *)
  custody,   \* the custody file: "none", "torn" or "held"
  base,      \* the versions it names as prior (0: none)
  candidate, \* the set it holds
  minted,    \* every set that ever reached a custody file
  phase,     \* phase of the receipt, "none" when there is no receipt
  cand,      \* candidate versions the receipt records (0: none)
  roll,      \* rollback versions the receipt records (0: none)
  (* the coordinator process *)
  pc,        \* its next step
  cmd,       \* "rotate" or "rollback"
  path,      \* the record it works on
  got,       \* the version its last compare-and-set returned
  reply,     \* what the host call returned: "none", "failed", "fresh", "historical"
  (* the host *)
  db,        \* the password set the three roles accept
  env,       \* the material of .env
  app,       \* the material of the running app, or None when it is down
  linked,    \* a readiness probe of an app with stale passwords still passes
  target,    \* phase of the target receipt
  plan,      \* the plan and rollout prestate is kept
  at,        \* next step of the adapter, "idle" when the lock is free
  job,       \* the payload it applies: "rotate" or "rollback"
  faults     \* stopped or failed steps so far

files == <<custody, base, candidate, minted, phase, cand, roll>>
coord == <<pc, cmd, path, got>>
host  == <<db, env, app, linked, target, plan>>
adapt == <<at, job, reply>>
vars  == <<bao, edits, custody, base, candidate, minted, phase, cand, roll,
           pc, cmd, path, got, reply, db, env, app, linked, target, plan, at, job,
           faults>>

Both(m)    == [p \in Paths |-> m]
Current(p) == bao[p][Len(bao[p])]
Prior      == [p \in Paths |-> bao[p][base[p]]]

\* /health and the database-reaching oracle: a fresh connection with the app's
\* own password, or one of an ordinary image's pool that outlives the change
Ready == app # None /\ (app["database"] = db \/ linked)

-----------------------------------------------------------------------------
(* The coordinator: execute_secret_rotation and its rollback.              *)

\* prepare_secret_rotation mints only when neither file exists
MayMint == custody = "none" /\ phase = "none"

\* commit_openbao_rotation hands these phases straight to the host
Handed == {"proved", "rb_committed", "rolled_back"}

\* preflight_rotation_target, before OpenBao or custody is read
Preflight == Ready

StartRotate ==
  /\ pc = "idle" /\ Preflight
  /\ ~(phase = "proved" /\ custody = "none")
  /\ cmd' = "rotate" /\ path' = "database" /\ got' = 0
  /\ \/ MayMint /\ pc' = "read" /\ base' = Both(0)
     \/ /\ custody = "held"
        /\ pc' = CASE phase = "none"     -> "receipt"
                   [] phase \in Handed   -> "send"
                   [] OTHER              -> "put"
        /\ UNCHANGED base
  /\ UNCHANGED <<bao, edits, custody, candidate, minted, phase, cand, roll, host, adapt, faults>>

ReadPrior ==
  /\ pc = "read"
  /\ base' = [base EXCEPT ![path] = Len(bao[path])]
  /\ IF path = "database" THEN path' = "runtime" /\ UNCHANGED pc
                          ELSE path' = "database" /\ pc' = "custody"
  /\ UNCHANGED <<bao, edits, custody, candidate, minted, phase, cand, roll, cmd, got, host, adapt, faults>>

WriteCustody ==
  /\ pc = "custody"
  /\ \E m \in Fresh \ minted : candidate' = m /\ minted' = minted \cup {m}
  /\ custody' = "held" /\ pc' = "receipt"
  /\ UNCHANGED <<bao, edits, base, phase, cand, roll, cmd, path, got, host, adapt, faults>>

WriteReceipt ==
  /\ pc = "receipt"
  /\ phase' = "prepared" /\ pc' = "put"
  /\ UNCHANGED <<bao, edits, custody, base, candidate, minted, cand, roll, cmd, path, got, host, adapt, faults>>

(* _ensure_candidate_record and _ensure_restored_record: a record is moved *)
(* from the version and the fields it must have to the wanted fields.      *)
Wanted(p)     == IF cmd = "rotate" THEN candidate ELSE Prior[p]
From(p)       == IF cmd = "rotate" THEN base[p] ELSE cand[p]
FromFields(p) == IF cmd = "rotate" THEN Prior[p] ELSE bao[p][cand[p]]
Known(p)      == IF cmd = "rotate" THEN cand[p] ELSE roll[p]

\* The record already holds the wanted fields, at the version they must have
MutOnlyRecorded(p) == Len(bao[p]) = Known(p)
AlreadyPut(p) == Len(bao[p]) = IF Known(p) # 0 THEN Known(p) ELSE From(p) + 1

\* The expected version of the compare-and-set, and the fields it replaces
Unmoved(p) == Len(bao[p]) = From(p) /\ Current(p) = FromFields(p)

\* The version a compare-and-set returns
NewVersion(p) == Len(bao[p]) + 1

Put ==
  /\ pc = "put"
  /\ IF Current(path) = Wanted(path)
     THEN /\ UNCHANGED bao
          /\ IF AlreadyPut(path) THEN got' = Len(bao[path]) /\ pc' = "record"
                                 ELSE UNCHANGED got /\ pc' = "idle"
     ELSE IF Unmoved(path)
     THEN /\ bao' = [bao EXCEPT ![path] = Append(@, Wanted(path))]
          /\ got' = NewVersion(path) /\ pc' = "record"
     ELSE pc' = "idle" /\ UNCHANGED <<bao, got>>
  /\ UNCHANGED <<edits, files, cmd, path, host, adapt, faults>>

RecordedPhase ==
  IF cmd = "rotate"
  THEN IF path = "database" THEN "database_written" ELSE "committed"
  ELSE IF path = "database" THEN "rb_database_written" ELSE "rb_committed"

\* What follows the record of one version
AfterRecord == IF path = "database" THEN "put" ELSE "send"

\* The versions the receipt names from now on
MutForgetsVersion(v) == v
WithVersion(v) == [v EXCEPT ![path] = got]

Record ==
  /\ pc = "record"
  /\ phase' = RecordedPhase
  /\ cand' = IF cmd = "rotate" THEN WithVersion(cand) ELSE cand
  /\ roll' = IF cmd = "rollback" THEN WithVersion(roll) ELSE roll
  /\ pc' = AfterRecord /\ path' = "runtime"
  /\ UNCHANGED <<bao, edits, custody, base, candidate, minted, cmd, got, host, adapt, faults>>

\* transfer_rotation_payload; an adapter that still runs holds the host's lock
Send ==
  /\ pc = "send"
  /\ IF at = "idle" THEN pc' = "wait" /\ at' = "admit" /\ job' = cmd /\ reply' = "none"
                    ELSE pc' = "idle" /\ UNCHANGED adapt
  /\ UNCHANGED <<bao, edits, files, cmd, path, got, host, faults>>

\* The adapter exited with a proof, fresh or historical
MutExitIgnored == TRUE
Proof == reply \in {"fresh", "historical"}

\* complete_secret_rotation up to its write, or complete_rotation_rollback
Complete ==
  /\ pc = "wait" /\ reply # "none"
  /\ CASE Proof /\ cmd = "rotate" /\ phase = "committed" ->
            phase' = "proved" /\ pc' = "unlink"
       [] Proof /\ cmd = "rollback" /\ phase = "rb_committed" ->
            phase' = "rolled_back" /\ pc' = "idle"
       [] OTHER -> pc' = "idle" /\ UNCHANGED phase
  /\ UNCHANGED <<bao, edits, custody, base, candidate, minted, cand, roll, cmd, path, got, host, adapt, faults>>

UnlinkCustody ==
  /\ pc = "unlink"
  /\ custody' = "none" /\ pc' = "idle"
  /\ UNCHANGED <<bao, edits, base, candidate, minted, phase, cand, roll, cmd, path, got, host, adapt, faults>>

\* rollback-production-incident
StartRollback ==
  /\ "rollback" \in Mishaps
  /\ pc = "idle"
  /\ phase \in {"committed", "proved", "rb_database_written", "rb_committed"}
  /\ cmd' = "rollback" /\ path' = "database" /\ got' = 0
  /\ pc' = IF phase = "rb_committed" THEN "send" ELSE "put"
  /\ UNCHANGED <<bao, edits, files, host, adapt, faults>>

\* The coordinator raises or dies; an adapter it started runs on.
CoordinatorStops ==
  /\ pc # "idle" /\ faults < MaxFaults
  /\ pc' = "idle" /\ faults' = faults + 1
  /\ custody' \in {custody} \cup IF pc = "custody" /\ "torn" \in Mishaps THEN {"torn"} ELSE {}
  /\ UNCHANGED <<bao, edits, base, candidate, minted, phase, cand, roll, cmd, path, got, host, adapt>>

-----------------------------------------------------------------------------
(* The adapter: apply_secret_rotation_on_target under the deployment lock. *)

Desired  == IF job = "rotate" THEN Both(candidate) ELSE Prior
Replaced == IF job = "rotate" THEN Prior ELSE Both(candidate)

Exit(r) == at' = "idle" /\ reply' = r /\ UNCHANGED job
Go(s)   == at' = s /\ UNCHANGED <<reply, job>>

Outside == <<bao, edits, files, coord, faults>>

\* Which set each part of the host holds, as its own oracle finds it
RolesAt(set) == db = set["database"]
EnvAt(set)   == env = set
AppAt(set)   == app["runtime"] = set["runtime"]

\* How far the host has come from the replaced to the desired set, as the rank
\* of the four states a retry may classify; 0 for every mixed one
Observed ==
  CASE RolesAt(Replaced) /\ EnvAt(Replaced) /\ AppAt(Replaced) -> 2
    [] RolesAt(Desired)  /\ EnvAt(Replaced) /\ AppAt(Replaced) -> 3
    [] RolesAt(Desired)  /\ EnvAt(Desired)  /\ AppAt(Replaced) -> 4
    [] RolesAt(Desired)  /\ EnvAt(Desired)  /\ AppAt(Desired)  -> 5
    [] OTHER -> 0

Rank(t) == CHOOSE i \in 1..Len(Targets) : Targets[i] = t

Admit ==
  /\ at = "admit"
  /\ CASE ~Ready                           -> Exit("failed")
       [] Ready /\ target # "none"         -> Go("classify")
       [] Ready /\ target = "none"         -> IF Observed = 2 THEN Go("prestate") ELSE Exit("failed")
  /\ UNCHANGED <<host, Outside>>

KeepPrestate ==
  /\ at = "prestate"
  /\ plan' = TRUE /\ Go("receipt")
  /\ UNCHANGED <<db, env, app, linked, target, Outside>>

WriteTarget ==
  /\ at = "receipt"
  /\ target' = "prepared" /\ Go("classify")
  /\ UNCHANGED <<db, env, app, linked, plan, Outside>>

\* A proved receipt is answered from the receipt; otherwise the state observed
\* may not lie behind it.
Classify ==
  /\ at = "classify"
  /\ IF target = "proved" THEN plan' = FALSE /\ Exit("historical")
     ELSE /\ UNCHANGED plan
          /\ IF app # None /\ plan /\ Observed >= Rank(target) /\ Observed # 0
             THEN Go(CASE Observed = 2 -> "alter" [] Observed = 3 -> "environment"
                       [] Observed = 4 -> "recreate" [] OTHER -> "prove")
             ELSE Exit("failed")
  /\ UNCHANGED <<db, env, app, linked, target, Outside>>

\* One transaction over the three roles
AlterRoles ==
  /\ at = "alter"
  /\ db' = Desired["database"]
  /\ linked' \in IF "unlinked" \in Mishaps THEN BOOLEAN ELSE {TRUE}
  /\ Go("alter-receipt")
  /\ UNCHANGED <<env, app, target, plan, Outside>>

\* materialize_rotated_environment
WriteEnvironment ==
  /\ at = "environment"
  /\ env' = Desired /\ Go("environment-receipt")
  /\ UNCHANGED <<db, app, linked, target, plan, Outside>>

\* What docker compose up --force-recreate starts
Recreated == env

RecreateApp ==
  /\ at = "recreate"
  /\ app' = Recreated /\ linked' = TRUE /\ Go("recreate-receipt")
  /\ UNCHANGED <<db, env, target, plan, Outside>>

\* The receipt written after each of the three changes
AdvanceTarget ==
  /\ at \in {"alter-receipt", "environment-receipt", "recreate-receipt"}
  /\ CASE at = "alter-receipt"       -> target' = "database"    /\ Go("environment")
       [] at = "environment-receipt" -> target' = "environment" /\ Go("recreate")
       [] at = "recreate-receipt"    -> target' = "recreated"   /\ Go("prove")
  /\ UNCHANGED <<db, env, app, linked, plan, Outside>>

\* Readiness, the runtime proof and the prestate comparison, then the receipt
Prove ==
  /\ at = "prove"
  /\ IF Ready /\ AppAt(Desired) /\ plan
     THEN target' = "proved" /\ Go("clean")
     ELSE Exit("failed") /\ UNCHANGED target
  /\ UNCHANGED <<db, env, app, linked, plan, Outside>>

RemovePrestate ==
  /\ at = "clean"
  /\ plan' = FALSE /\ Exit("fresh")
  /\ UNCHANGED <<db, env, app, linked, target, Outside>>

\* The adapter raises or dies; a failed recreation may leave no app running.
AdapterStops ==
  /\ at # "idle" /\ faults < MaxFaults
  /\ faults' = faults + 1 /\ Exit("failed")
  /\ app' \in {app} \cup IF at = "recreate" /\ "down" \in Mishaps THEN {None} ELSE {}
  /\ UNCHANGED <<db, env, linked, target, plan, bao, edits, files, coord>>

-----------------------------------------------------------------------------
(* The environment.                                                        *)

\* Somebody else updates a record
EditRecord(p) ==
  /\ edits < MaxEdits
  /\ edits' = edits + 1
  /\ bao' = [bao EXCEPT ![p] = Append(@, Foreign)]
  /\ UNCHANGED <<files, coord, host, adapt, faults>>

\* An app with stale passwords loses its pooled connections
PoolDrops ==
  /\ "unlinked" \in Mishaps
  /\ app # None /\ app["database"] # db /\ linked
  /\ linked' = FALSE
  /\ UNCHANGED <<bao, edits, files, coord, adapt, faults, db, env, app, target, plan>>

-----------------------------------------------------------------------------

Init ==
  /\ bao = Both(<<Old>>) /\ edits = 0
  /\ custody = "none" /\ base = Both(0) /\ candidate = None /\ minted = {}
  /\ phase = "none" /\ cand = Both(0) /\ roll = Both(0)
  /\ pc = "idle" /\ cmd = "rotate" /\ path = "database" /\ got = 0 /\ reply = "none"
  /\ db = Old /\ env = Both(Old) /\ app = Both(Old) /\ linked = TRUE
  /\ target = "none" /\ plan = FALSE /\ at = "idle" /\ job = "rotate"
  /\ faults = 0

CoordinatorStep ==
  ReadPrior \/ WriteCustody \/ WriteReceipt \/ Put \/ Record \/ Send \/ Complete \/ UnlinkCustody

AdapterStep ==
  \/ Admit \/ KeepPrestate \/ WriteTarget \/ Classify \/ AlterRoles
  \/ WriteEnvironment \/ RecreateApp \/ AdvanceTarget \/ Prove \/ RemovePrestate

Next ==
  \/ StartRotate \/ StartRollback \/ CoordinatorStep \/ CoordinatorStops
  \/ AdapterStep \/ AdapterStops
  \/ PoolDrops \/ \E p \in Paths : EditRecord(p)

Spec == Init /\ [][Next]_vars

\* Both processes run, and the operator repeats the command.
Fairness == WF_vars(CoordinatorStep) /\ WF_vars(AdapterStep) /\ WF_vars(StartRotate)

FairSpec == Spec /\ Fairness
-----------------------------------------------------------------------------
(* Properties.                                                             *)

CoordSteps == {"idle", "read", "custody", "receipt", "put", "record", "send", "wait", "unlink"}
AdaptSteps == {"idle", "admit", "prestate", "receipt", "classify", "alter", "alter-receipt",
               "environment", "environment-receipt", "recreate", "recreate-receipt",
               "prove", "clean"}
Commands   == {"rotate", "rollback"}
Sets       == [Paths -> Material]

\* Types of the records, files and processes; a version anyone names exists.
TypeOK ==
  /\ bao \in [Paths -> Seq(Material)] /\ edits \in 0..MaxEdits
  /\ custody \in {"none", "torn", "held"}
  /\ \A p \in Paths : {base[p], cand[p], roll[p]} \subseteq 0..Len(bao[p])
  /\ candidate \in Fresh \cup {None} /\ minted \subseteq Fresh
  /\ phase \in Phases /\ {base, cand, roll} \subseteq [Paths -> Nat]
  /\ pc \in CoordSteps /\ cmd \in Commands /\ path \in Paths
  /\ got \in Nat /\ (pc = "record" => got \in 1..Len(bao[path]))
  /\ reply \in {"none", "failed", "fresh", "historical"}
  /\ db \in Material /\ env \in Sets /\ app \in Sets \cup {None} /\ linked \in BOOLEAN
  /\ target \in {Targets[i] : i \in 1..Len(Targets)} /\ plan \in BOOLEAN
  /\ at \in AdaptSteps /\ job \in Commands /\ faults \in 0..MaxFaults

\* A receipt that says "proved" is true of the host: whatever stopped, was
\* repeated or answered from an old receipt, the roles, .env and the running
\* app all hold the candidate set (complete_secret_rotation).
ProvedIsInstalled ==
  phase = "proved" => db = candidate /\ env = Both(candidate) /\ app = Both(candidate)

\* One incident mints one set: no stop, rollback or repetition lets
\* prepare_secret_rotation write a second one.
OneCandidate == Cardinality(minted) <= 1

\* The host never holds material OpenBao does not keep: a candidate reaches it
\* only after both records held it, so no partly committed set is materialized.
HostMaterialIsKept ==
  \A m \in Fresh :
    (db = m \/ m \in {env[p] : p \in Paths} \/ (app # None /\ m \in {app[p] : p \in Paths}))
      => \A p \in Paths : \E v \in 1..Len(bao[p]) : bao[p][v] = m

\* A candidate that OpenBao or the host holds can be found again: custody has
\* it, or the receipt names the version of both records.
CandidateIsRecoverable ==
  (db \in Fresh \/ \E p \in Paths : Current(p) \in Fresh)
    => custody = "held" \/ \A p \in Paths : cand[p] # 0 /\ bao[p][cand[p]] = candidate

\* In either direction .env agrees with the roles or with the running app, so
\* that a retry can tell how far the host came, and the target receipt never
\* says more than was done.
ReceiptNeverAhead ==
  /\ env = Both(db) \/ app \in {None, env}
  /\ target \in {"environment", "recreated"} => env = Both(db)
  /\ target = "recreated" => app \in {None, env}

\* Somebody else's edit of a record, made after its prior version was read, is
\* never overwritten: the compare-and-set of either command refuses.
EditsAreKept ==
  [][\A p \in Paths :
       (base[p] # 0 /\ custody # "none" /\ Len(bao[p]) > base[p] /\ Current(p) = Foreign)
         => bao'[p][Len(bao'[p])] = Foreign]_vars

\* Repeating the command installs and proves the candidate, whatever stopped
\* before, unless custody was torn, a record edited or a rollback begun, or the
\* readiness probe fails for good (execute_secret_rotation).
RetryConverges ==
  \/ <>(phase = "proved")
  \/ <>(custody = "torn" \/ edits > 0 \/ cmd = "rollback")
  \/ <>[]~Ready
=============================================================================
