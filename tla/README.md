# TLA+ verification of the vendor control plane

The repository under `src/` is the vendor control plane: a Python service that
keeps contracts, approvals and licences, and the tooling that deploys, upgrades
and repairs its own single production host. This directory models the parts whose
correctness depends on the order of steps, on stops between them and on what
other actors do meanwhile; TLC checks the models on small instances and TLAPS
proves the main properties for every instance. Paths below are relative to
`src/src/vendor_cp/`.

## 1. Inventory

| Component | State it keeps | Operations | What is hard about it |
|---|---|---|---|
| Transition fence (`deployment/transition_fence.py`) | `pg_database.datacl`, role memberships, backends, the `FenceProof` | `fence_writers`, `restore_writers`, `_refence_and_redrain` | autocommit statements with no transaction around them; backends that authenticated before the REVOKE and are listed after the drain; compensation; kills |
| Transition executors and store (`deployment/cp_transition.py`) | create-only artifact files per request, nonce reservations, successor claims | the transition, held-fence continuation and five recovery executors | each stage can raise before or after its effect; a chain of recoveries may consume a failed request once |
| Transition host (`deployment/cp_transition_host.py`) | route, CONNECT gate, migration heads, containers, candidate roles and container | the stages, `fail_closed` | partial containment; a candidate that writes while it is removed |
| Transition operator (`deployment/transition_operator.py`) | none of its own | admission of requests and held fences | reads evidence before the lock is used |
| Request and evidence documents (`deployment/transition_request.py`, `transition_evidence.py`, `effects.py`, `fence_commands.py`, `cp_catalogue.py`) | none | construction and validation | shapes only |
| Candidate roles, credential bootstrap (`deployment/candidate_roles.py`, `credential_bootstrap.py`) | database roles, protected files | create, renew, remove; install the dispatcher's password once | a stop between the role and the declaration of its password; two installers |
| Production secrets (`production_secrets.py`) | OpenBao KV versions, custody file, receipt, `.env`, role passwords, app container, target receipt | seeding, rotation, incident rollback, release pin | two processes and a network between them; every effect is followed by a separate record |
| Relay (`relay/*.py`) | outbox rows, heartbeat, withdrawal outcomes and resolutions | poll, route, record, settle, resolve, health | duplicate and concurrent deliveries, payloads that change, crashes before settling, stale heartbeats |
| Licensing (`licensing/*.py`) | delivery targets, deliveries, attempts, intents, installation reports | reconcile, stage, dispatch, export, park, resume, acknowledge | overlapping dispatch passes, crashes between a send and its commit, acknowledgements decided on stale reads |
| Contracts and approvals (`contracts/`, `approvals/`, `deployment/approval_barrier.py`, `foundation_execution_approval.py`) | agreements, plans, requests and decisions; the owners' at-most-once ledger of command ids | the lifecycle of an agreement and of a plan, decide, withdraw | a withdrawal racing a transition; reused command ids; retries after the decision is gone |
| Deploy agent (`deploy_agent/*.py`) | a git ledger with a remote, a PostgreSQL projection of it, challenges | register, activate, issue, ingest, quarantine, admit gate evidence, rebuild | a push that fails after the commit; a dirty tree after a kill; late and repeated reports |
| Gate 0 ceremony (`deployment/gate0_*.py`, `rehearsal_issuer_trust_state.py`) | the frozen window, attester sessions, retained proofs, role custody and trust states | challenge, prove, admit, issue, consume, refresh, close | two clocks of which one may be stepped; a withdrawal between admission and commit; an answer lost after the commit; a refresh racing a close |
| Rehearsal issuer (`deployment/protected_rehearsal_issuer.py`, `issuer_receipts.py`) | command receipts; plans and authorizations in Control | propose, approve, issue, consume, classify a withdrawal | transactions racing a withdrawal; an unlocked read before a revocation |
| Host admission (`deployment/host_admission_adapter.py`, `profile*.py`, `relay_preflight.py`) | the finalization continuation | admit a dispatch, admit a host source, finalize | the host changes between admission and finalization |
| Deployment adapter (`deployment/adapter.py`, `candidate.py`, `plan_inputs.py`) | plan and candidate rows | propose, approve, execute | with approvals |
| Migrations (`migrations.py`) | schema heads | `native_upgrade` | one transaction |
| Release evidence, descriptor drift | evidence rows | record | idempotence |
| Offers and allocations (`offers/`, `allocations/`) | offer versions, allocations | publish, stage | an activation relayed after the agreement was suspended |
| Release tooling (`scripts/kernel_lock.py`, `.github/workflows/kernel-lock.yml`) | manifest, lock, bundle and pair artifacts | acquire, resolve, attest | an index that changes between downloads; an untrusted resolver; reruns of single jobs |
| Commercial backfill, data governance, cutover readiness, `scripts/kernel_floor.py`, CLI | none | reports and argument parsing | nothing beyond their inputs |

How they interact: the operator loads a request and runs an executor, which calls
host stages one by one and writes one create-only document after each; the stages
call the fence. The executor is the only writer of its store but not of the
database: the app, the relay and the candidate write to it until they are fenced.
Secret rotation touches the same roles and containers and excludes a transition by
the host's deployment lock. The relay delivers events to licensing, approvals and
the withdrawal outcomes; the deploy agent reads approvals.

What makes each part correct, in one line: the fence - a returned proof means
silence, and an ACL nobody asked for never appears; the transition - the schema
moves only while contained, and what is public is behind a complete gate; the
rotation - what a receipt says is true of the host, and no material in use is
lost; the relay - every event is settled once, truthfully; contracts and plans -
they move under a decision that stands, and who is told so can rely on it; licence
delivery - what counts as applied was applied; Gate 0 - nothing is committed
outside its window; the deploy agent - nothing is served that is not published;
the kernel lock - what is released is what was inspected.

## 2. Modules

| Module | Models |
|---|---|
| `TransitionFence` | the fence at the grain of one SQL statement |
| `FenceContract` | what a caller of the fence may rely on: one step per call |
| `CpTransition` | executors, host stages, store, recoveries, the evidence of each receipt; uses `FenceContract` through `INSTANCE` |
| `SecretRotation` | the rotation coordinator, the target adapter, OpenBao and the host |
| `HostEnvironment` | `SecretRotation` composed with the other writers of `.env` and the two installers of the dispatcher's password |
| `ApprovalWithdrawal` | the approval barrier, the rehearsal issuer, the relay's withdrawal events, their outcomes and health |
| `HeldTransitions` | agreements and Foundation plans under their approvals, through allocation, licence and host admission |
| `LicenceDelivery` | delivery targets, dispatch, export, acknowledgement and intents |
| `DeployAgent` | ledger, remote, projection and the calls of the deploy agent |
| `Gate0Clocks` | the two clocks and the roles that the next two modules share |
| `Gate0Ceremony` | attester sessions, the issuer worker and its mutations, the frozen window |
| `Gate0Custody` | bootstrap, refresh and close of the role custody |
| `KernelLock` | the three jobs of the kernel-lock workflow |
| `MC*` | instances for TLC (constants, symmetry sets, constraints and named scenarios) |
| `*Proofs` | theorems of the module of the same name; `SecretRotationProofs` covers `HostEnvironment` too, and `Gate0Proofs` covers `Gate0Ceremony`, `Gate0Custody` and `DeployAgent` |

`TransitionFence` implements `FenceContract` (run `fence`, property
`ImplementsContract`), and `CpTransition` changes its gate only by steps of that
contract, so the two levels meet in one interface.

### TransitionFence
`acl`, `members`, `arriving` and `sessions` are the server's state; `pc` names the
next statement of the running call and the remaining variables are the locals of
`fence_writers` or `restore_writers`. An ACL entry is a pair of grantee and
grantor; the migration role owns the database and never appears in it, which is
what `fence_writers` checks up front. A client connects in two steps: it passes the
CONNECT check (`Authenticate`) and is listed at any later time (`Appear`), also after
the drain's second, confirming poll. The code sleeps between its polls and cannot see
such a backend, which its known limits say (`transition_fence.py:339-347`); `unseen`
records the logins that this happened to, and the properties exempt exactly them. Any
statement may raise (`Abort`, leading to the compensation the code has at that
place) or be the last one executed (`Crash`). With `MaxDrift > 0` another
administrator edits the ACL or the memberships between any two statements.
Validation of identifiers and of proof documents is a refusal without effect.

### CpTransition
A request has a schema (`kind`), the failed request it recovers (`prior`), the
documents retained under it (`kept`) and possibly a claim on its frontier
(`claim`). `stage` is the next stage of the running execution; a stage either
completes and is retained, raises before or after its effect and enters the steps
of `fail_closed`, or the process dies there. Digests, attestations and container
inspection are abstracted to what they decide: the stage succeeds or raises.
`cand` follows the candidate's roles and container: no roles, roles without LOGIN
(`RolesCreated`, one statement for both), at least one role open (`RolesActivated`),
container running. A removal goes the same way back and may stop anywhere on it
(`AtMost`); the roles are dropped in one statement (`RolesDropped`), and a restore
refuses while one exists (`RolesAbsent`). The shapes, memberships and ancestry of the
two roles, which `candidate_roles.py` re-reads at each of these points, are a refusal.
`saved` is the recovery bundle: none, published (renamed into place, perhaps not
verified), or restored and equal to the rows of the database until somebody writes.

### SecretRotation
`bao` is the version history of the two KV records; `custody`, `base`,
`candidate`, `phase`, `cand` and `roll` are the two protected files of the
coordinator; `db`, `env`, `app`, `target` and `plan` the host. Coordinator and
adapter are two processes: each effect and the record that follows it are separate
steps, a process may stop between any two, and a coordinator that stops leaves its
adapter running with the host's lock. A password or key is a model value.
`_ensure_candidate_record` and `_ensure_restored_record` share their shape and
are one action, `Put`, told apart by `cmd`. The receipts' checks of image, host and
operation identity are not modelled: one host, one image and one incident exist.

### ApprovalWithdrawal
`req` is Approvals' table, `plan` and `auth` Control's, `receipt` the issuer's
command receipts; `ses` are callers' transactions, `outbox` and `payload` the
kernel's rows, `wrk` the relay workers, `outcome` and `resolution` the two
append-only tables and `clock` the order of `recorded_at`. A withdrawal's event
carries its request's id. Control and the kernel are libraries outside the
repository: their actions are taken from how the code calls them, what it expects
of their refusals and what its comments say of their locks.

A caller reads, holds the request FOR SHARE, then transitions and commits. Reads of
`approve_issuer_plan` before its hold are of frozen fields, or repeated under the
hold, so read and hold are one step; for issuance and consumption the request to
hold comes from the plan that was read, so they are two. A refusal by the hold, by
Control or by a receipt check is `Rollback`, as is a caller that goes away.

A worker leases a row, routes it (`RouteEvent`), classifies it by an unlocked read
of the plan (`ClassifyEvent`) and, in `DeliverEvent`, revokes, records and commits.
Those effects are one step: the plan's row lock and the unique constraints order
them against every other transaction that could see a part of them, and a
delivery that loses that order aborts as a whole (`CollideOutcome`). What is not
one step is the read before them, the settlement after them, or anything of the
other worker. `DeliverEvent` may be refused any subset of the authorizations it
must revoke. The classifier's binding checks are one test, `Sound`, and its
conflict codes one per kind of row they leave: `digest_mismatch` for those without
a request id, `policy_mismatch` for those with one. The handler of the agreement
subject is not modelled; a subject with no handler is refused.

`resolve_conflict` is one step because the rows it reads are append-only and the
row it writes is uniquely constrained. `Verdict` is the withdrawal part of
`_verdict`, which comes before every other verdict but an unreadable database.

Each kind of interference in `Mishaps` is spent from a budget, `left`, and
`Budgets` names the scenarios: every one starts from an empty system.

### HostEnvironment
Extends `SecretRotation` with `record`, `role` and `line` - the versions of the
dispatcher's password in OpenBao, in the database and in `.env` - and the one
command that holds the deployment lock with the copy of `.env` it read.
`RotationStep` is a step of the rotation whose adapter needs the same lock.
`InstallOnce` is the SQL function that sets the password of a role that has none;
both the existing-host command and the plan executor's bootstrap call it.
`pin_product_release` and `reconcile-declarations` differ only in lines of `.env`
that no property looks at, so they are one writer.

### HeldTransitions
`status`, `decision` and `struck` are the owners' columns of an agreement or a
plan, `ledger` their at-most-once ledger, `req` and `about` the requests, `notice`
the relayed withdrawal and its classification. A handler in `ses` reads (`Begin`),
holds the request (`HoldApproval`) and commits the owner's transition or its replay
(`CommitMove`, `CommitReplay`); a withdrawal waits for the holders. `reply` is the
answer given in the step. After a replay the agreement adapter looks for this very
transition under this very id in the history (`RequireRecorded`); the plan adapter
compares only the row that Deployment Control returns (`SameRow`), so an id spent on
another verb of the same plan can pass. An activation event is delivered, retried and
dead-lettered (`fact`), an allocation staged from the active snapshot and a licence
issued in two steps, the read and the issue. Owners and kernel are libraries.

### LicenceDelivery
`row` is a delivery with its state, `attempts` its attempts by generation, `intent`
the Integrator's intents and `applied` what deployments really did. `target` is the
projection of the fleet that `_authorised_target` reads; the history `vouched` collects
the targets it has ever shown active and the customer's own, `repointed` the legacy
rows that `map_legacy_delivery` gave another reference than they had. A dispatch pass is scan, claim,
one step per packet and the commit; export, resume, acknowledgement and intent
report are read and commit, since they decide on what they read. A send that is
handed off is not undone by the rollback of its pass. A pass runs when an operator
calls it, with a transport that hands off or one that only simulates: nothing in the
repository schedules `dispatch_pending`, so no pass is assumed to run or to be repeated.

### DeployAgent
`ledger` is the sequence of commits, `remote` and `db` how many of them are pushed
and projected, `tx` the one transaction in flight, whose steps are the writes, the
commit, the push, the validation of the whole history and the projection. A kill
between writes and commit leaves `dirty`, which refuses every later call; a failed
push leaves a commit that only `RecoverPush`, an operator, publishes. Signatures and
document shapes are the verdicts in `Says`.

### Gate0Ceremony and Gate0Custody
Both have a monotonic clock and a wall clock that may be stepped either way.
In the ceremony a session is challenged, proves possession and sends a bundle; the
worker admits a command, registers the proof, stages the mutation under the approval
barrier, rechecks and commits, and the answer may be lost after that. `muts` is the
history of commits with the instant the owner verified their evidence and the decision
they rest on; instants are taken on the monotonic clock, so that a stepped wall clock
shows. The end of the window is a constant on that clock, as in the code: it is mapped
with the two clock readings of the process's start (`_origin`, `_started`), whenever the
window is first read (`gate0_window.py:533-546`).
In the custody, bootstrap is one step per OpenBao request; `refresh` takes each trust
state's lock around a read that may fail, and `close` poisons both.

### KernelLock
`index` is what the private index publishes, which changes between any two steps.
`acquire` plans, reads pages, transfers, publishes and records each file and uploads
a bundle; `resolve` points the manifest at that bundle, lets Poetry write any member of
`Locks`, restores and verifies it; `attest` binds the pair. A lock is its entries by
line, its other tables and the manifest its content hash is of; the instance's locks
drop, repeat, add and alter entries and tables. The requirements a wheel declares and
those an entry records are both read into a map of normalised names, and a conditional
or doubly spelt one is refused. Each list of problems in the code is a predicate of the
same name, the dispatch's inputs (absent, partial, blank, unlisted, inexact, not the
committed version) included. A job may die at any step and be rerun under a new attempt.

## 3. Runs

| Run | Question | Bounds |
|---|---|---|
| `fence` | do a call's outcomes mean what they say, and is each call one step of the contract? | one writer, one role that may be a member, three calls: fence, re-fence and restore in every order |
| `fence_drift` | what survives edits by another administrator, and does a begun call return? | two calls, one edit, an outsider that cannot be fenced |
| `transition` | gating of the release, truth of a failure document, the rollback point, one successor per frontier, receipts that verify, nothing released over a mutation; does an execution end? | one transition and five recoveries: the whole chain with both post-ACL siblings; or two transitions (one may continue the other's held fence) and two recoveries |
| `rotation` | truth of the receipts, custody of the material, the shared `.env`, the dispatcher's password; does repetition converge? | two stops in all, one edit, rollback at any time, two versions of the dispatcher record, two other writers |
| `withdrawal` | does every delivery leave a true outcome, is health red until then, does a withdrawal take effect? | two plans, two requests, two commands, one caller, two workers, three payloads, two attempts; seven scenarios of at most three mishaps |
| `gate0` | is what is committed on recent evidence, standing and freshly proved, and is a refusal honest? | two sessions, two decisions, two commands, two proofs, one step of the wall clock |
| `gate0_custody` | does a closed custody stay closed, and does every call end? | two threads, a revoking and a contradictory later record, one step of the wall clock |
| `agent` | is only the published served, is a command one envelope, does the baseline hold? | one host, two commands, two reports, seven commits, one crash or failed push, an initial campaign and its repetition |
| `licensing` | is what counts as complete applied, what is handed out authorised, and are attempts counted once? | two versions, two targets, two rows, two passes, two other callers, two attempts; nine scenarios |
| `licensing_legacy` | is every active delivery one that its deployment committed? *Violated* | one legacy row, one acknowledgement |
| `held` | does everything move under a standing decision, and are answers truthful? | one agreement, one plan, two requests, one reusable command id, two handlers; one of the two chains past its proposal |
| `kernel_lock` | does the release name the inspected bytes, answer for its manifest, and build nothing private? | the kernel, one module, one public package, six kinds of bytes, locks odd in one way, one republication, two attempts |

Why the bounds suffice. The fence treats roles uniformly and its calls interact
only through the ACL, the memberships and one proof; three calls give a re-fence
after a restore and a restore after a re-fence, and two are enough for an edit to
fall before, inside and after a call. Five recoveries are all the code admits for
one transition; requests of one schema are alike, so the instance consumes them in a
fixed order (`InOrder`). Two stops of a rotation put one in each of its processes, or
one in the run and one in its repetition; one mintable set is enough there because
`MintedOnce` proves that no second one is ever minted. Withdrawals interact
pairwise: through one plan (siblings), one event (two workers, two payloads) or one
index (two commands), and the scenarios combine every mishap with the ones it can
meet. The two chains of `held` share only requests, command ids and handlers, hence
`OneChain`. Licence deliveries interact through one row, one lineage or one target,
and each scenario of `licensing` is a set of calls that meet in one of them. In the
agent, a third commit of a kind repeats what the second shows; `Followed` cuts the
seventh commit where it could no longer move the baseline. `StillRunning` stops
`gate0` once its process has exited. In `kernel_lock` one republication falls
between any two of the reads that must agree. The theorems remove these bounds for
the properties they cover. Deadlock is not checked: a request, a call budget, a
command or a workflow is legitimately used up.

The named bounds: `MaxBeats`, `MaxCalls`, `MaxDrift`, `MaxTries`, `MaxFaults`,
`MaxEdits`, `MaxVersions`, `MaxWriters`, `MaxAttempts`, `Budgets`, `MaxSteps`,
`MaxProofs`, `MaxCommands`, `MaxTime`, `MaxEvents`, `MaxOf`, `MaxVersion`, `MaxUses`
and `MaxRepublish`.

### Fairness
Only the liveness properties need it. `CallsReturn`: the running call takes
its next statement or fails its check; statements carry a timeout and the drain has a
deadline. `ExecutionEnds`: the process takes its next stage; each
stage runs under a command timeout. `RetryConverges`: both processes run, the
operator repeats the command, as the runbook tells them to, and a command that holds
the lock finishes. `WithdrawalTakesEffect`: a worker takes its next step, as `run`
polls for ever, and an abandoned lease expires; retries end because the kernel counts
attempts. `CallsEnd`: clocks advance and a thread inside a call goes
on; every network read has a deadline. Clients, callers, approvers, administrators,
other writers and the index get no fairness.

### Where the code and its documents differ
These were met while modelling. The first has a run that violates what the document
says; the others are described here only.

* Legacy deliveries (run `licensing_legacy`, `ActiveMeansCommitted`): the "one hard
  rule" of `licensing/projection.py:8-10` is that `active` means the data plane committed
  that version. An acknowledgement finds its row by `target_ref` and activates an
  unmapped legacy row too, and `map_legacy_delivery` (`projection.py:211`) then maps the
  row whatever its state, to a target that committed nothing. `CompletionIsTrue` is
  therefore stated of every row but those it gave another reference.
* Suspended targets: `licensing/delivery_models.py:171` says that only `active`
  targets may receive a delivery; staging and mapping check it, export and replay do
  not repeat it, so a target suspended in between still receives. `HandoffIsAuthorised` is what does hold:
  whatever leaves the process goes to a target that the projection has shown active and
  the customer's own, and never to another deployment than an issuance is bound to.
* Fence baseline: a fencer killed after `REVOKE ... FROM PUBLIC` leaves a narrower
  ACL that passes `_check_fence_baseline` (`cp_transition_host.py:2033`, "never
  capture a held ACL as a fresh baseline"); the next fence records it as the ACL to
  restore.
* Failed suffix: `fail_closed` re-fences after the ACL was restored; if that call
  fails, its compensation returns to the open ACL, not to a holding fence
  (`transition_fence.py:1716`), and a failed continuation ends unfenced.
* Rotation: rolling back a proved rotation is answered by the target's own proved
  receipt, and the coordinator records `rolled_back` while roles, `.env` and app hold
  the candidate and OpenBao the prior set. The forward command repeated after a
  rollback calls the host although both records hold the prior set. After a stop
  between the role change and the recreation the readiness probe of the old app
  fails, and every repetition is refused by it (`production_secrets.py:3106`). After
  a stop between the proved receipt and the unlink of custody, no repetition removes
  the custody file, which the runbook says proof does.
* Withdrawal: the classifier compares the plan's decision with the withdrawn request
  in an unlocked read, and only when the plan is approved by then
  (`protected_rehearsal_issuer.py:931`). If a sibling request's approval commits
  after that read, `revoke_plan_approval`, which names no decision, revokes it, and
  the outcome says `applied`.
* Reused ids of a plan: `approve_foundation_plan` and the rollout compare the row that
  is returned (`foundation_execution_approval.py:188-193`, `238`), so a command id spent
  on another verb of the same plan is answered as done. `ToldMeansDone` claims no more
  of a plan than that its state is the one told.

## 4. Theorems

The passing runs check 39 properties. A theorem states every invariant, action property
and refinement among them, 34 in all, for every value of the constants; the other five
are liveness properties. The type invariants and several safety properties that these
modules state are proved instead of being checked again. Each of the eight proof
modules shows `Spec => []Inv` from an inductive invariant that TLC checked on a run's
instance first, with one step per action. The assumptions are those the modules state
about their constants: disjoint and, for the fence, finite sets of names; natural
bounds; a value that stands for nothing or for somebody else (`None`, `NoOne`, the
reader `"host"` of `latest()`) is no member of what it is compared with. One theorem
has a hypothesis of its own: `FenceRefines` has `MaxDrift = 0`, nobody else editing the
database, because the contract of the fence's callers is about undisturbed calls; the
other theorems about the fence have any number of edits.

`TransitionFenceProofs`: `TypeCorrect`, `FenceIsQuiet`, `OutcomesAreWhole`,
`NothingWidens`, `GrantsAreRecorded`, `RestoreIsExact`. `QuietInv` strengthens the
silence of a returned proof with what each phase of the drain already knows: from
the verified REVOKE on nobody can start to connect, and after the first empty poll
whoever is still arriving was already on the way at that poll, and is in `unseen`. `WidthInv` bounds every local of a call
by the original ACL, `GrantInv` by what the call found or its proof records, and
`BaselineInv` says that an undamaged history keeps the original ACL in the proof.
`FenceRefines` is the refinement of `FenceContract`: initial states map to initial
states, and every statement maps to a stutter but the one that ends a call, the kill
included. `ContractInv` is what the mapping needs to know of a call that is half done:
its effective set is still the current one, and the ACL stays between fenced and the
one it found or means to restore. `CallsRunOut` is the part of `CallsReturn` that needs no fairness: statements,
handlers and kills decrease the pair of the call's phase and the work left in it, a
natural number, and no client or administrator changes it.

`CpTransitionProofs`: `TypeCorrect`, `SingleSuccessor`,
`RecordedFailureIsContained`, `ReleasedBehindGate`, `MigrationIsContained`.
`ClaimInv` says that a retained document implies the claim that was written before
it; `ContainInv` what each step of `fail_closed` has established when it collected
no error; `PathInv` which documents and which wall a stage has behind it. Over these:
`CandidateMutationsStay`, because a candidate lives only behind the fence and the
maintenance page and no execution goes past the removal of one that changed anything
(`MutationInv`); `WayBackIsKept`, because a bundle and a proof are written before the
migration and survive every later execution (`RollbackInv`); `ReceiptsVerify`, whose
`ReceiptInv` ties the ancestry an admission accepted to the documents each failed
request must have retained by the stage it reached.

`SecretRotationProofs`: `TypeCorrect`, `ProvedIsTrue`, `MintedOnce`,
`HostFollowsRecords`, `CandidateIsFound`, `ReceiptIsBehind`, `EditsAreSafe`, all from
one invariant `IInv`. None of these is inductive alone: that a receipt is true
depends on what the adapter had done when it answered, which depends on the phase
in which the coordinator sent it, which depends on where in a record's history the
candidate lies. `FileInv` and `PhaseInv` tie the coordinator's next step to its
files, `RecordInv` puts a candidate exactly one version after the prior one,
`AdapterInv` says what each adapter step relies on, relative to its payload, and
`HostInv` keeps the host between the old set and the candidate. The composition
`HostEnvironment` adds `DispatcherAuthenticates`, `NoUpdateIsLost`,
`ProvedIsTrueOnHost` and `CandidateIsFoundOnHost`: a step of another writer leaves the
rotation's state alone, and the lock keeps a writer's copy of `.env` current from its
read to its replacement.

`ApprovalWithdrawalProofs`: `TypeCorrect`, `RecordedIsFinal`, `SingleVerdict`,
`IndexComplete`, `BarrierHolds`, `NothingSettledSilently`, `OutcomesAreTrue`,
`RedrivesAreTrue`, `HealthTells`: every safety property of the module, for any
number of callers, workers and plans. The first four need only the shape of the
tables, with a transaction under way naming its command, plan and request
(`SessionShape`). The others rest on `Base`, whose parts support each other.
`SessionInv` says that what a transaction holds is granted until it ends, because a
withdrawal waits for the holders, and that what a consumption read is frozen;
`PlanInv` that a plan carries only a decision made for it; `WorkerInv` that a stale
pre-read still tells the truth, because a revocation is never undone and a withdrawn
request is never carried again; `RowInv` that what a recorded outcome says of the
plan and its authorizations lasts, where `IndexComplete` makes the revocation reach
every authorization issued before it and `Over` keeps any from being issued after.
That a revocation reaches only the withdrawn request's own decision is not among
them: the code does not guarantee it (section 3).

`HeldTransitionsProofs`: `Typed`, `NotCarriedStays`, `SuccessIsRecorded`,
`HeldMovesStand`. A handler acts on a decision it read before it
took the hold; `SessionsOK` says what it knows at each of its steps, `DecisionsOK` that
a subject still in its proposal carries no decision, and `RequestsOK` that an event of
withdrawal follows a withdrawal.

`LicenceDeliveryProofs`: `Typed`, `CompletionsAreTrue`, `HandoffsAreAuthorised`,
`AttemptsCounted`, `DestinationsKept`. Passes and calls act on rows they read earlier
(`PassesOK`, `CallsOK`); this is sound because a row that has a destination keeps it
(`RowsOK`, and `Kept` as an action property), because such a row names a target that
the projection has shown (`VouchedOK`), and because what was applied stays applied.
`AInv` follows the count of attempts through what passes and exports have counted but
not yet committed: a pass's row is its own until it commits, and a stale export meets the
unique constraint.

`KernelLockProofs`: `HashesAreBytes`, `ReleasedLockAnswers`, `WheelsOnly`. `WorkOK` says
that a published file has a digest but for the one under way, `UploadsOK` that an
attempt's bundle is written once and before its pair, which was checked against it,
and `ReleaseOK` that what left the runner is the pair of its attempt. An index that
republishes, a lost runner and a rerun cannot break the chain.

`Gate0Proofs`, the ceremony: `EvidenceStaysRecent`, `MutationsStand`, `PossessionIsFresh`,
`ExitIsHonest`. What a mutation was based on still holds when it commits, because the
decision is held, a proof names the authorization its challenge was for, and a document
that is dated by the wall clock is at most as old as the monotonic clock and the steps of
the other allow (`Dated`). The custody: `ClosedForGood`. `CustodyInv` says
that whoever is between the gate and the record holds the role's lock, and that
`close()` has poisoned one role for good before it turns to the other. The deploy
agent, whose ledger a campaign's evidence is admitted to: `ServedIsPublished`,
`CommandsAreOnce`, `HistoryReadsBack`, `BaselineStands`. `AgentInv` relates a
transaction before its commit to the ledger it was checked against and one after it to
the event it appended; that the history reads back is part of the invariant itself,
because an event is judged against a prefix, and prefixes never change.

Model-checked only: the five liveness properties (`CallsReturn`, `ExecutionEnds`,
`RetryConverges`, `WithdrawalTakesEffect`, `CallsEnd`). They need
fairness and ENABLED, which the prover does not handle.

## 5. Not modelled

Real time: the lengths of timeouts and grace periods, other than the order of
deadlines. Contents: digests, signatures, formats and their parsers, the wording of
documents. Authentication of operators. The owners' own tables (Commercial
Agreements, Deployment Control, Entitlement Allocation, the licence authority, the
kernel's outbox) are external and modelled from their callers.

Of `production_secrets.py`: the initial seeding, the full host bundle and the desired
signer. Of the relay: heartbeats and the verdicts of health that are not about
withdrawals. Of the host admission: the contents of a profile and the relay
preflight. `deployment/adapter.py`, `candidate.py` and `plan_inputs.py` build plan
inputs and call the owner; the migration trees and plans that `migrations.py` compares are pure; release evidence and
descriptor drift are idempotent inserts and comparisons; the commercial backfill,
data governance, cutover readiness, `kernel_floor.py` and the command line are pure
functions of their inputs. None of these has a step that something else can fall
between.

### Hazards without a checked property
`PROJECT.json` lists the hazards the runs cover. Covered by a theorem instead: a GRANT
of a restore that fails part-way (`OutcomesAreWhole`), a record edited between a read
and its compare-and-set (`EditsAreSafe`), a partly committed set reaching the host
(`HostFollowsRecords`), a withdrawal between a read and its hold (`BarrierHolds`), two
workers delivering one event (`SingleVerdict`, `RecordedIsFinal`), an event that comes
back after it was settled (`NothingSettledSilently`) and a conflict closed over the
wrong outcome (`RedrivesAreTrue`).

Not covered: a backend that authenticates slowly enough to be missed by both polls of a
drain, which the module's known limits concede (`transition_fence.py:339`); a retry that
overlaps its first attempt and finds the decision withdrawn, which the code refuses
although the first attempt committed (`contracts/adapter.py:465`); the proof of `fail_closed`'s own fence exists only in memory when no
earlier one does (`cp_transition_host.py:3705`); the first termination request is
issued before the deadline clock starts (`transition_fence.py:1836`); a host bundle
collected before a rotation replaces `.env` after it, since no version is compared
(`production_secrets.py:1735`); one gate run id under another deadline date passes
`run_reused`, the date being part of the path (`gate_admission.py:862`); suspend,
reject, cancel, terminate and a plan's dispatch answer a reused id as the owner does
(`contracts/adapter.py:681`); an activation dead-lettered while its agreement is
suspended is not staged again by the reinstatement (`allocations/adapter.py:121`); a
licence is issued from a snapshot read without a lock (`licensing/adapter.py:191`);
and a rerun of failed jobs only finds no artifact of its own attempt
(`kernel-lock.yml:478`). The code makes no promise about the last five.

## 6. Plan

What is left, in this order:

1. measures for the other calls that must end, as `CallsRunOut` is for the fence: the
   stages of an execution (`ExecutionEnds`) and the attempts of a relay row
   (`WithdrawalTakesEffect`);
2. type correctness of `DeployAgent`, `Gate0Ceremony` and `KernelLock` in full (the
   invariants fix only the shapes that the proofs use);
3. the remaining verdicts of relay health and heartbeat freshness;
4. the remaining operations of `production_secrets.py`.
