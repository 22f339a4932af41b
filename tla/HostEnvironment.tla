---------------------------- MODULE HostEnvironment ----------------------------
(***************************************************************************)
(* The secret rotation beside the other commands that change what it       *)
(* changes.  The receive-relay-dispatcher, reconcile-declarations and      *)
(* pin-product-release commands rewrite the same .env under the same       *)
(* deployment lock, each by reading the whole file and replacing it; the   *)
(* first of them and the executor of a deployment plan both install the    *)
(* password of the relay's dispatcher role, which the database does once.  *)
(* The lock is a flock: whatever kills its holder releases it.             *)
(***************************************************************************)
EXTENDS SecretRotation

CONSTANTS
  MaxVersions, \* bound: versions of the relay-dispatcher record
  MaxWriters   \* bound: commands that take the lock

ASSUME HostBoundsAssumption == MaxVersions \in Nat \ {0} /\ MaxWriters \in Nat

VARIABLES
  record,  \* current version of the relay-dispatcher record
  role,    \* version whose password the dispatcher role accepts, 0 for none
  line,    \* version whose password .env declares, 0 for no declaration
  writer,  \* the command that holds the lock: "none", "dispatcher" or "declarations"
  step,    \* its next step
  given,   \* the version it was handed on stdin
  copy,    \* the secrets and the dispatcher line of the .env it read
  writers, \* commands started so far
  receipt  \* version that the executor's BootstrapReceipt says authenticates, 0 for none

command == <<writer, step, given, copy, writers>>
relay   == <<record, role, line, command, receipt>>
hvars   == <<bao, edits, custody, base, candidate, minted, phase, cand, roll,
             pc, cmd, path, got, reply, db, env, app, linked, target, plan, at, job,
             faults, record, role, line, writer, step, given, copy, writers, receipt>>

\* The version a deployment plan binds: the record is created with cas=0.
Expected == 1

-----------------------------------------------------------------------------
(* The deployment lock.                                                    *)

\* Mutant: the lock is not taken.
MutNoLock == TRUE
LockFree == at = "idle" /\ writer = "none"

\* The rotation's adapter starts under the lock or is refused.
RotationStep ==
  /\ Next
  /\ (at = "idle" /\ at' # "idle") => LockFree
  /\ UNCHANGED relay

SendRefused ==
  /\ pc = "send" /\ at = "idle" /\ ~LockFree
  /\ pc' = "idle"
  /\ UNCHANGED <<bao, edits, files, cmd, path, got, host, adapt, faults, relay>>

-----------------------------------------------------------------------------
(* The commands that rewrite .env.                                         *)

Release == writer' = "none" /\ step' = "idle" /\ given' = 0 /\ copy' = <<>>

\* A command takes the lock with nothing read yet.
Enter(w, v, first) ==
  /\ LockFree /\ writers < MaxWriters
  /\ writer' = w /\ step' = first /\ given' = v
  /\ writers' = writers + 1
  /\ UNCHANGED <<copy, vars, record, role, line, receipt>>

\* Its topology and the absence of a declaration are checked first; the
\* password on stdin is of any version read so far.
EnterDispatcher == line = 0 /\ \E v \in 1..record : Enter("dispatcher", v, "install")

EnterDeclarations == Enter("declarations", 0, "read")

\* bootstrap_dispatcher_credential: under an advisory lock, once
\* Mutant: the function alters the role whenever it is called.
MutAlwaysAlters(v) == role' = v
InstallOnce(v) == role' = IF role = 0 THEN v ELSE role

\* The given password authenticates and a wrong one does not.
Authenticates(v) == role' = v

\* Installed now, or "already present": either way the password is tried, over
\* the network of the database container.
InstallRole ==
  /\ step = "install"
  /\ InstallOnce(given)
  /\ IF Authenticates(given) THEN step' = "read" /\ UNCHANGED <<writer, given, copy>>
                             ELSE Release
  /\ UNCHANGED <<vars, record, line, writers, receipt>>

ReadEnvironment ==
  /\ step = "read"
  /\ writer = "dispatcher" => line = 0
  /\ copy' = <<env, line>> /\ step' = "write"
  /\ UNCHANGED <<vars, record, role, line, writer, given, writers, receipt>>

\* os.replace of the whole file: what was read, and the declaration added
ReplaceEnvironment ==
  /\ env' = copy[1]
  /\ line' = IF writer = "dispatcher" THEN given ELSE copy[2]

WriteDeclared ==
  /\ step = "write"
  /\ ReplaceEnvironment
  /\ Release
  /\ UNCHANGED <<bao, edits, files, coord, db, app, linked, target, plan, adapt, faults,
                 record, role, writers, receipt>>

\* The command raises or dies; its temporary file is never renamed.
WriterStops ==
  /\ step # "idle" /\ Release
  /\ UNCHANGED <<vars, record, role, line, writers, receipt>>

WriterStep == InstallRole \/ ReadEnvironment \/ WriteDeclared

-----------------------------------------------------------------------------
(* The executor of a deployment plan, which takes no lock.                 *)

\* _resolve_material: the record is still the version the plan binds.
Resolves == record = Expected

\* bootstrap_principal_credential commits before it proves, and may stop between;
\* a present credential is refused.
ExecInstall ==
  /\ receipt = 0 /\ Resolves /\ role = 0
  /\ InstallOnce(Expected)
  /\ receipt' \in {0} \cup IF Authenticates(Expected) THEN {Expected} ELSE {}
  /\ UNCHANGED <<vars, record, line, command>>

\* verify_credential reconciles such a stop by authenticating, without a session.
VerifyCredential ==
  /\ receipt = 0 /\ Resolves
  /\ UNCHANGED role
  /\ Authenticates(Expected)
  /\ receipt' = Expected
  /\ UNCHANGED <<vars, record, line, command>>

\* Somebody writes a new version of the relay-dispatcher record.
EditDispatcher ==
  /\ record < MaxVersions /\ record' = record + 1
  /\ UNCHANGED <<vars, role, line, command, receipt>>

-----------------------------------------------------------------------------

HostInit ==
  /\ Init
  /\ record = Expected /\ role = 0 /\ line = 0
  /\ writer = "none" /\ step = "idle" /\ given = 0 /\ copy = <<>> /\ writers = 0
  /\ receipt = 0

HostNext ==
  \/ RotationStep \/ SendRefused
  \/ EnterDispatcher \/ EnterDeclarations \/ WriterStep \/ WriterStops
  \/ ExecInstall \/ VerifyCredential \/ EditDispatcher

HostSpec == HostInit /\ [][HostNext]_hvars

\* Every process that was started runs, and the operator repeats the rotation.
HostFairness ==
  /\ WF_hvars(RotationStep /\ CoordinatorStep)
  /\ WF_hvars(RotationStep /\ AdapterStep)
  /\ WF_hvars(RotationStep /\ StartRotate)
  /\ WF_hvars(SendRefused) /\ WF_hvars(WriterStep)

FairHostSpec == HostSpec /\ HostFairness

-----------------------------------------------------------------------------
(* Properties.                                                             *)

\* The dispatcher password that .env declares, and the one a BootstrapReceipt
\* says was authenticated, is the one the database accepts, whichever of the
\* two executors installed it, with whichever version, and wherever either
\* stopped (bootstrap_relay_dispatcher_on_existing_host, verify_credential).
DispatcherIsAccepted ==
  /\ line # 0 => role = line
  /\ receipt # 0 => role = receipt

\* A command that rewrites .env never brings back secrets or loses a
\* declaration that another writer put there after it read the file
\* (production_deployment_lock).
NoLostUpdate ==
  [][/\ env' # env => at = "environment"
     /\ line' # line => line = 0]_hvars
=============================================================================
