--------------------------- MODULE TransitionFence ---------------------------
(***************************************************************************)
(* src/src/vendor_cp/deployment/transition_fence.py at the grain of one    *)
(* autocommit SQL statement, with the callers of cp_transition_host.py.    *)
(*                                                                         *)
(* One fencer works on one database.  Between any two of its statements    *)
(* writers connect and disconnect, another administrator edits the ACL or  *)
(* the role memberships, a statement raises, or the process is killed.     *)
(* The migration role owns the database, so its CONNECT is implicit and    *)
(* is never an ACL entry (the contract fence_writers checks up front).     *)
(***************************************************************************)
EXTENDS Naturals, FiniteSets

CONSTANTS
  Writers,      \* existing roles of WRITER_ROLES
  Outsiders,    \* other login roles: any of them may become a member of a writer
  Unfenceable,  \* outsiders that keep CONNECT through ownership or superuser
  PUBLIC,       \* the grantee "" of the decomposed ACL
  Owner,        \* the grantor whose entries REVOKE removes
  Stranger,     \* any other grantor: a holder of a grant option
  MaxCalls,     \* bound: fence, re-fence and restore calls in a behaviour
  MaxDrift,     \* bound: edits by the other administrator
  MaxTries      \* bound: termination requests before a drain's deadline

Logins   == Writers \cup Outsiders
Grantees == Logins \cup {PUBLIC}
Entries  == [to : Grantees, by : {Owner, Stranger}]

ASSUME WritersAssumption ==
  /\ Writers # {}
  /\ IsFiniteSet(Logins)
  /\ Writers \cap Outsiders = {}
  /\ Unfenceable \subseteq Outsiders
ASSUME NamesAssumption   == PUBLIC \notin Logins /\ Owner # Stranger
ASSUME BoundsAssumption  == {MaxCalls, MaxDrift, MaxTries} \subseteq Nat

NoProof == [id |-> 0, grants |-> {}, members |-> {}]
Proofs  == [id : Nat, grants : SUBSET Entries, members : SUBSET Outsiders]

Phases  == {"idle", "revoke", "verify", "drain", "grant",
            "rerevoke", "reverify", "redrain"}
Results == {"none", "fenced", "restored", "refused", "compensated",
            "not_restored", "sessions_survived", "compensation_failed", "crashed"}

VARIABLES
  acl,        \* the live ACL: pg_database.datacl decomposed by _current_grants
  members,    \* the outsiders that are members of a writer (_member_roles)
  arriving,   \* logins whose backend passed the CONNECT check, not yet listed
  sessions,   \* logins with a backend in pg_stat_activity (_writer_pids)
  pc,         \* the statement the fencer executes next
  eff,        \* the effective set this call resolved
  before,     \* before_grants: the ACL this call started from
  keep,       \* prior_grants of the proof this fence call will return
  target,     \* prior_grants of the proof the running restore reverses
  toRevoke,   \* grantees still to be revoked
  toGrant,    \* entries still to be granted
  zero,       \* the drain's first zero poll was read; the confirming one is due
  tries,      \* termination requests issued by the running drain
  comp,       \* the running restore compensates a failed fence_writers
  proof,      \* the proof the caller holds
  result,     \* how the last call ended
  calls,      \* calls begun: the caller's fence_id
  drifts,     \* edits made by the other administrator
  calm,       \* history: nobody else edited anything since the last call's last check
  orig,       \* history: the ACL before the first fence
  damaged,    \* history: a call died, or its own compensation failed
  unseen      \* history: logins mid-authentication at the last drain's first zero poll
              \* and not listed while that drain ran: no poll of it could show them

db    == <<acl, members>>
conns == <<arriving, sessions>>
args  == <<eff, before, keep, target, comp>>
work  == <<toRevoke, toGrant, zero, tries>>
hist  == <<drifts, calm, orig, damaged, unseen>>
vars  == <<acl, members, arriving, sessions, pc, eff, before, keep, target, toRevoke,
           toGrant, zero, tries, comp, proof, result, calls, drifts, calm, orig, damaged, unseen>>

-----------------------------------------------------------------------------
(* What the server answers.                                                *)

\* has_database_privilege(r, db, 'CONNECT') under the ACL a
Connects(a, r) ==
  \/ r \in Unfenceable
  \/ \E e \in a : \/ e.to \in {PUBLIC, r}
                  \/ r \in members /\ e.to \in Writers

CanConnect(r) == Connects(acl, r)

\* The set every check, revoke and drain of fence_writers runs over.
Effective == Writers \cup members

\* An entry the fence revokes and a restore may grant again.
Grantable(e, roles) == e.to \in roles \cup {PUBLIC} /\ e.by = Owner

\* A drain is running.
Draining == pc \in {"drain", "redrain"}

-----------------------------------------------------------------------------
(* The environment.                                                        *)

\* A client authenticates: the server reads the ACL now and lists the backend
\* a moment later.
Authenticate(r) ==
  /\ r \notin arriving \cup sessions
  /\ CanConnect(r)
  /\ arriving' = arriving \cup {r}
  /\ UNCHANGED <<db, sessions, pc, args, work, proof, result, calls, hist>>

Appear(r) ==
  /\ r \in arriving
  /\ arriving' = arriving \ {r}
  /\ sessions' = sessions \cup {r}
  /\ unseen' = IF Draining THEN unseen \ {r} ELSE unseen
  /\ UNCHANGED <<db, pc, args, work, proof, result, calls, drifts, calm, orig, damaged>>

Disconnect(r) ==
  /\ r \in sessions
  /\ sessions' = sessions \ {r}
  /\ UNCHANGED <<db, arriving, pc, args, work, proof, result, calls, hist>>

\* Another administrator, or a holder of a grant option, edits the ACL.
EditAcl(e) ==
  /\ drifts < MaxDrift
  /\ acl' \in {acl \cup {e}, acl \ {e}}
  /\ acl' # acl
  /\ drifts' = drifts + 1
  /\ calm' = FALSE
  /\ UNCHANGED <<members, conns, pc, args, work, proof, result, calls, orig, damaged, unseen>>

\* Another administrator edits who is a member of a writer role.
EditMembers(m) ==
  /\ drifts < MaxDrift
  /\ members' \in {members \cup {m}, members \ {m}}
  /\ members' # members
  /\ drifts' = drifts + 1
  /\ calm' = FALSE
  /\ UNCHANGED <<acl, conns, pc, args, work, proof, result, calls, orig, damaged, unseen>>

-----------------------------------------------------------------------------
(* fence_writers: the checks that run before any change.                   *)

\* No superuser, owner or otherwise inheriting role in the effective set, and
\* no CONNECT in its reach that a stranger granted.
Revocable ==
  /\ Effective \cap Unfenceable = {}
  /\ \A e \in acl : e.to \in Effective \cup {PUBLIC} => e.by = Owner

\* The bounds on prior=: the same roles, nothing live it does not account for,
\* and nothing beyond the live ACL that a restore could not grant.
PriorBound(p) ==
  /\ members = p.members
  /\ acl \subseteq p.grants
  /\ \A e \in p.grants \ acl : Grantable(e, Effective)

\* The host's admission without a proof (_check_fence_baseline): a writer that
\* already lacks CONNECT means somebody's fence is held.
MutBaselineUnchecked == TRUE
OpenBaseline == \A r \in Writers : CanConnect(r)

\* The ACL a proof records: what this call found, or what prior= carries.
MutRecordsTheFence == acl
Recorded == IF proof = NoProof THEN acl ELSE proof.grants

MayFence ==
  IF proof = NoProof THEN OpenBaseline /\ Revocable
                     ELSE PriorBound(proof) /\ Revocable

BeginFence ==
  /\ pc = "idle" /\ calls < MaxCalls
  /\ MayFence
  /\ eff' = Effective
  /\ before' = acl
  /\ keep' = Recorded
  /\ toRevoke' = Effective \cup {PUBLIC}
  /\ comp' = FALSE
  /\ pc' = "revoke"
  /\ result' = "none"
  /\ calls' = calls + 1
  /\ calm' = TRUE
  /\ UNCHANGED <<db, conns, target, toGrant, zero, tries, proof, drifts, orig, damaged, unseen>>

RefuseFence ==
  /\ pc = "idle" /\ calls < MaxCalls
  /\ ~MayFence
  /\ before' = acl
  /\ result' = "refused"
  /\ calls' = calls + 1
  /\ calm' = TRUE
  /\ UNCHANGED <<db, conns, pc, eff, keep, target, comp, work, proof, drifts, orig, damaged, unseen>>

(* _apply_fence: revoke PUBLIC, then each effective role; verify; drain.   *)

\* One REVOKE CONNECT; it removes only what the owner granted.
RevokeOne(here, next) ==
  /\ pc = here
  /\ \E g \in toRevoke :
       /\ PUBLIC \in toRevoke => g = PUBLIC
       /\ acl' = acl \ {[to |-> g, by |-> Owner]}
       /\ toRevoke' = toRevoke \ {g}
  /\ pc' = IF toRevoke' = {} THEN next ELSE here
  /\ UNCHANGED <<members, conns, args, toGrant, zero, tries, proof, result, calls, hist>>

Revoke == RevokeOne("revoke", "verify")

\* has_database_privilege is false for every effective role
Unreachable == \A r \in eff : ~CanConnect(r)

\* A passed check starts a drain.
StartDrain(here) ==
  /\ pc' = here /\ zero' = FALSE /\ tries' = 0
  /\ calm' = TRUE /\ unseen' = {}
  /\ UNCHANGED <<db, conns, args, toRevoke, toGrant, proof, result, calls, drifts, orig, damaged>>

Verify ==
  /\ pc = "verify"
  /\ Unreachable
  /\ StartDrain("drain")

(* _terminate_and_drain: two zero polls a poll interval apart.             *)

FirstZeroPoll ==
  /\ Draining /\ ~zero
  /\ sessions \cap eff = {}
  /\ zero' = TRUE
  /\ unseen' = arriving \cap eff
  /\ UNCHANGED <<db, conns, pc, args, toRevoke, toGrant, tries, proof, result, calls,
                 drifts, calm, orig, damaged>>

\* The confirming poll, a poll interval after the first, also read zero.  A
\* backend whose start-up outlasts the interval is listed after both.
MutOnePoll == sessions \cap eff = {}
Confirmed == zero /\ sessions \cap eff = {}

\* Backends remain: ask for their termination.  The terminator is not trusted:
\* it may end any of them, or none.
Terminate ==
  /\ Draining
  /\ sessions \cap eff # {}
  /\ tries < MaxTries
  /\ tries' = tries + 1
  /\ zero' = FALSE
  /\ \E K \in SUBSET (sessions \cap eff) : sessions' = sessions \ K
  /\ UNCHANGED <<db, arriving, pc, args, toRevoke, toGrant, proof, result, calls, hist>>

\* Backends remain at the deadline, or one terminator call outlasted it.
MutNoDeadline == FALSE
DeadlineMissed == Draining /\ sessions \cap eff # {}

\* The proof's member_roles: the effective set without the named writers.
MemberRoles == eff \ Writers

FenceDone ==
  /\ pc = "drain" /\ Confirmed
  /\ proof' = [id |-> calls, grants |-> keep, members |-> MemberRoles]
  /\ pc' = "idle"
  /\ result' = "fenced"
  /\ UNCHANGED <<db, conns, args, work, calls, hist>>

-----------------------------------------------------------------------------
(* restore_writers.                                                        *)

\* The entries a restore to the ACL a grants.
MutGrantsEveryRole(a) == [to : eff, by : {Owner}]
Missing(a) == a \ acl

\* Everything checked before the first GRANT.
MayRestore(grants, roles, mem) ==
  /\ members = mem
  /\ acl \subseteq grants
  /\ \A e \in Missing(grants) : Grantable(e, roles)

BeginRestore ==
  /\ pc = "idle" /\ calls < MaxCalls
  /\ proof # NoProof
  /\ MayRestore(proof.grants, Writers \cup proof.members, proof.members)
  /\ eff' = Writers \cup proof.members
  /\ before' = acl
  /\ target' = proof.grants
  /\ toGrant' = Missing(proof.grants)
  /\ comp' = FALSE
  /\ pc' = "grant"
  /\ result' = "none"
  /\ calls' = calls + 1
  /\ calm' = TRUE
  /\ UNCHANGED <<db, conns, keep, toRevoke, zero, tries, proof, drifts, orig, damaged, unseen>>

RefuseRestore ==
  /\ pc = "idle" /\ calls < MaxCalls
  /\ proof # NoProof
  /\ ~MayRestore(proof.grants, Writers \cup proof.members, proof.members)
  /\ before' = acl
  /\ result' = "refused"
  /\ calls' = calls + 1
  /\ calm' = TRUE
  /\ UNCHANGED <<db, conns, pc, eff, keep, target, comp, work, proof, drifts, orig, damaged, unseen>>

\* One GRANT CONNECT, PUBLIC first; the executing owner becomes its grantor.
Grant ==
  /\ pc = "grant"
  /\ \E e \in toGrant :
       /\ (\E p \in toGrant : p.to = PUBLIC) => e.to = PUBLIC
       /\ acl' = acl \cup {e}
       /\ toGrant' = toGrant \ {e}
  /\ UNCHANGED <<members, conns, pc, args, toRevoke, zero, tries, proof, result, calls, hist>>

\* The re-read after the last GRANT equals the recorded ACL
RereadMatches == acl = target

\* The restore is done, or the compensation is and fence_writers re-raises its
\* own refusal.
RestoreDone ==
  /\ pc = "grant" /\ toGrant = {}
  /\ RereadMatches
  /\ calm' = TRUE
  /\ pc' = "idle"
  /\ result' = IF comp THEN "compensated" ELSE "restored"
  /\ UNCHANGED <<db, conns, args, work, proof, calls, drifts, orig, damaged, unseen>>

\* A GRANT or the re-read raised, or the re-read differs: re-revoke the whole
\* effective set, whatever was granted.
RestoreFails ==
  /\ pc = "grant"
  /\ pc' = "rerevoke"
  /\ toRevoke' = eff \cup {PUBLIC}
  /\ UNCHANGED <<db, conns, args, toGrant, zero, tries, proof, result, calls, hist>>

(* _refence_and_redrain.                                                   *)

Rerevoke == RevokeOne("rerevoke", "reverify")

Reverify ==
  /\ pc = "reverify"
  /\ \A e \in acl : e.to # PUBLIC
  /\ Unreachable
  /\ StartDrain("redrain")

EndCall(r, bad) ==
  /\ pc' = "idle"
  /\ result' = r
  /\ damaged' = (damaged \/ bad)
  /\ UNCHANGED <<db, conns, args, work, proof, calls, drifts, calm, orig, unseen>>

RedrainDone ==
  /\ pc = "redrain" /\ Confirmed
  /\ IF comp THEN EndCall("compensation_failed", TRUE) ELSE EndCall("not_restored", FALSE)

RedrainMissed ==
  /\ pc = "redrain" /\ DeadlineMissed
  /\ IF comp THEN EndCall("compensation_failed", TRUE)
             ELSE EndCall("sessions_survived", FALSE)

\* The re-revoke or its verification fails, or the re-drain raises.
RefenceFails ==
  /\ pc \in {"rerevoke", "reverify", "redrain"}
  /\ EndCall("compensation_failed", TRUE)

-----------------------------------------------------------------------------
(* fence_writers' except clause: any exception after the first REVOKE is   *)
(* answered by restore_writers to the ACL this call started from.          *)

CompensationTarget == before

Compensate ==
  /\ pc \in {"revoke", "verify", "drain"}
  /\ MayRestore(CompensationTarget, eff, MemberRoles)
  /\ target' = CompensationTarget
  /\ toGrant' = Missing(CompensationTarget)
  /\ comp' = TRUE
  /\ pc' = "grant"
  /\ UNCHANGED <<db, conns, eff, before, keep, toRevoke, zero, tries, proof, result, calls, hist>>

\* The compensating restore refuses, or its first reads raise.
CompensationFails ==
  /\ pc \in {"revoke", "verify", "drain"}
  /\ EndCall("compensation_failed", TRUE)

\* The process is killed between two statements: no handler runs.  The caller
\* retained an earlier proof before it used it, so the proof survives.
Crash ==
  /\ pc # "idle"
  /\ EndCall("crashed", TRUE)

-----------------------------------------------------------------------------
\* Every writer can connect before the first fence; every entry in the reach of
\* the fence is the owner's.
Init ==
  /\ acl \in SUBSET [to : Grantees, by : {Owner}]
  /\ members \in SUBSET (Outsiders \ Unfenceable)
  /\ \A r \in Writers : CanConnect(r)
  /\ arriving = {} /\ sessions = {}
  /\ pc = "idle" /\ eff = {} /\ before = acl /\ keep = {} /\ target = {}
  /\ toRevoke = {} /\ toGrant = {} /\ zero = FALSE /\ tries = 0 /\ comp = FALSE
  /\ proof = NoProof /\ result = "none" /\ calls = 0
  /\ drifts = 0 /\ calm = TRUE /\ orig = acl /\ damaged = FALSE /\ unseen = {}

Environment ==
  \/ \E r \in Logins : Authenticate(r) \/ Appear(r) \/ Disconnect(r)
  \/ \E e \in Entries : EditAcl(e)
  \/ \E m \in Outsiders : EditMembers(m)

Call == BeginFence \/ RefuseFence \/ BeginRestore \/ RefuseRestore

\* The statements of a call that succeed.
Statement ==
  \/ Revoke \/ Verify \/ FirstZeroPoll \/ Terminate \/ FenceDone
  \/ Grant \/ RestoreDone
  \/ Rerevoke \/ Reverify \/ RedrainDone

\* What the handlers do once a statement raised or a check failed.
Abort ==
  \/ RestoreFails \/ RedrainMissed \/ RefenceFails
  \/ Compensate \/ CompensationFails

Next == Environment \/ Call \/ Statement \/ Abort \/ Crash

Spec == Init /\ [][Next]_vars

\* The checks of the running call that have failed: only Abort can follow.
CheckFailed ==
  \/ pc = "verify" /\ ~Unreachable
  \/ pc = "reverify" /\ (~Unreachable \/ \E e \in acl : e.to = PUBLIC)
  \/ pc = "grant" /\ toGrant = {} /\ ~RereadMatches
  \/ DeadlineMissed /\ tries = MaxTries

\* The fencer's thread keeps executing whatever the writers do in between.
Fairness == WF_vars(Statement \/ (CheckFailed /\ Abort))

FairSpec == Spec /\ Fairness

-----------------------------------------------------------------------------
(* Properties.                                                             *)

\* Type invariant: every variable stays in the set the code's own types give it.
TypeOK ==
  /\ acl \in SUBSET Entries /\ orig \in SUBSET Entries
  /\ members \in SUBSET Outsiders
  /\ arriving \in SUBSET Logins /\ sessions \in SUBSET Logins
  /\ pc \in Phases /\ result \in Results
  /\ eff \in SUBSET Logins
  /\ before \in SUBSET Entries /\ keep \in SUBSET Entries /\ target \in SUBSET Entries
  /\ toRevoke \in SUBSET Grantees /\ toGrant \in SUBSET Entries
  /\ unseen \in SUBSET Logins
  /\ zero \in BOOLEAN /\ comp \in BOOLEAN /\ calm \in BOOLEAN /\ damaged \in BOOLEAN
  /\ tries \in Nat /\ calls \in Nat /\ drifts \in Nat
  /\ proof \in Proofs

\* After fence_writers returned a proof, and until a further call or an edit
\* another administrator made after its privilege check, no effective role can
\* connect, and the only backends of one are those both polls of the drain missed:
\* they passed the CONNECT check before the revoke was verified and stayed
\* unlisted through the two polls (the start-up race of the module's known limits).
FencedMeansQuiet ==
  pc = "idle" /\ result = "fenced" /\ calm =>
    /\ \A r \in eff : ~CanConnect(r)
    /\ eff \cap (sessions \cup arriving) \subseteq unseen

\* A restore that reports success left exactly the ACL that stood before the
\* first fence, through any number of re-fences, failed fences and failed
\* restores, provided no call died and nobody else edited the ACL.
RestoredIsOriginal ==
  result = "restored" /\ ~damaged /\ drifts = 0 => acl = orig

\* A call that compensated or refused left the ACL it started from, and one that
\* reports the ACL not restored left it fully fenced and, but for backends no poll
\* could show, drained: there is no half-open outcome under a code other than
\* compensation_failed, unless another administrator edited the ACL after the
\* call's last check.
NoHalfOpenOutcome ==
  pc = "idle" /\ calm =>
    /\ result \in {"refused", "compensated"} => acl = before
    /\ result \in {"not_restored", "sessions_survived"} =>
         \A r \in eff : ~CanConnect(r)
    /\ result = "not_restored" => eff \cap (sessions \cup arriving) \subseteq unseen

\* Whatever crashes and failed compensations happened, the ACL a proof promises
\* to restore never holds a grant the original ACL did not hold.
NeverWidens == drifts = 0 => proof.grants \subseteq orig /\ acl \subseteq orig

\* A grant is only ever made by a restore, and only of an entry its proof holds:
\* no failure path opens the ACL further than the state the call started from.
GrantsOnlyWhatWasRecorded ==
  [][drifts' = drifts => acl' \ acl \subseteq target \cap (before \cup proof.grants)]_vars

\* The callers' view of a call: the gate it found and the one it left.
GateOf(a) ==
  IF \A r \in Effective : ~Connects(a, r) THEN "fenced"
  ELSE IF a = orig THEN "open" ELSE "partial"
GateSeen == IF pc = "idle" THEN GateOf(acl) ELSE GateOf(before)
HeldSeen == IF proof = NoProof THEN "none"
            ELSE IF proof.grants = orig THEN "exact" ELSE "narrow"

Contract == INSTANCE FenceContract WITH gate <- GateSeen, held <- HeldSeen

\* Statement by statement, with raised statements, compensations and kills, a
\* call is one atomic step of FenceContract: fenced, refused without effect,
\* restored, kept fenced, or lost.
ImplementsContract == Contract!Spec

\* Every call returns: each drain is bounded by its deadline however often
\* writers reconnect, and every refusal reaches the end of its compensation.
CallsReturn == pc # "idle" ~> pc = "idle"

=============================================================================
