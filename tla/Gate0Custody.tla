---------------------------- MODULE Gate0Custody ----------------------------
(***************************************************************************)
(* The issuer process of a Gate 0 ceremony before and beside its commands: *)
(* RoleCustody.bootstrap fetches the signing key and the two public trust  *)
(* records from OpenBao over a bounded transport, and refresh() and        *)
(* close(), which any thread of the process may call afterwards, install   *)
(* newer trust records or poison both trust states for good.  Both clocks  *)
(* bound everything.                                                       *)
(***************************************************************************)
EXTENDS Gate0Clocks

CONSTANTS Callers,     \* the threads that call RoleCustody.refresh or close
          MaxVersion,  \* bound: the versions of a trust record ever published
          Published,   \* the records the custody owner may publish later
          Leases,      \* the token lifetimes OpenBao grants, in ticks
          Budgets,     \* the token uses OpenBao grants
          MinVersion,  \* the durable floor a record's version may not go below
          MaxUses,     \* uses of one OpenBao token (32 in the code)
          NoOne        \* the holder of a free lock

ASSUME CustodyAssumption ==
  /\ MaxVersion \in Nat /\ MinVersion \in 1..MaxVersion
  /\ MaxUses \in Nat \ {0}
  /\ NoOne \notin Callers
  /\ Published \subseteq [ver : 1..MaxVersion, ok : BOOLEAN]
  /\ Leases \subseteq 1..Life /\ Budgets \subseteq 1..MaxUses

VARIABLES source,   \* source[r]: the trust record OpenBao holds for role r
          trust,    \* trust[r]: the RehearsalIssuerTrustState of role r
          lock,     \* lock[r]: the holder of its _refresh_lock
          custody,  \* the RoleCustody object
          call      \* call[c]: where thread c is in refresh() or close()

custodyVars == <<source, trust, lock, custody, call>>

Records == [ver : 1..MaxVersion, ok : BOOLEAN]
NoRecord == [ver |-> 0, ok |-> FALSE]

\* RoleCustody.bootstrap's requests, in order; "up" once it has returned.
Boot == {"lookup", "unwrap", "login", "self", "seed", "issuer", "attester"}

CustodyInit ==
  /\ ClocksStart
  /\ source \in [Roles -> {[ver |-> MinVersion, ok |-> TRUE]}]
  /\ trust = [r \in Roles |-> [avail |-> FALSE, rec |-> NoRecord]]
  /\ lock = [r \in Roles |-> NoOne]
  /\ custody = [at |-> "lookup", closed |-> FALSE, material |-> FALSE,
                uses |-> 0, deadline |-> Life]
  /\ call = [c \in Callers |-> [op |-> "idle", role |-> "issuer", rec |-> NoRecord]]

-----------------------------------------------------------------------------
(* Clocks and the custody owner.                                           *)

CustodyTick == ClocksTick /\ UNCHANGED custodyVars
CustodyStepWall == ClockStep /\ UNCHANGED custodyVars

\* The owner publishes a record: a newer one, or, by mistake, an older one or
\* other content under the current version.
Publish(r) == /\ \E rec \in Published \ {source[r]} : source' = [source EXCEPT ![r] = rec]
              /\ UNCHANGED <<clockVars, trust, lock, custody, call>>

-----------------------------------------------------------------------------
(* The bounded transport and RehearsalIssuerTrustState.                    *)

InLife == wall >= Started /\ wall < Expires
Eligible(r) == trust[r].avail /\ trust[r].rec.ok

\* Mutant: a request does not look at the closed flag.
MutRequestsWhenClosed == mono < custody.deadline /\ InLife

\* RoleCustody._request: refused when the object is closed or either clock
\* has left the window.
MayRequest == ~custody.closed /\ mono < custody.deadline /\ InLife

\* A request with the client token spends one use.
MayUseToken == MayRequest /\ custody.uses < MaxUses

\* What refresh accepts: not below the floor, no rollback, and no other
\* content under the version already installed.
Installable(r, rec) ==
  /\ rec.ver >= MinVersion
  /\ rec.ver >= trust[r].rec.ver
  /\ rec.ver = trust[r].rec.ver => rec = trust[r].rec

-----------------------------------------------------------------------------
(* RoleCustody.bootstrap.                                                  *)

\* The wrapping token is looked up, then unwrapped: no client token yet.
LookupWrap == /\ custody.at = "lookup" /\ MayRequest
              /\ custody' = [custody EXCEPT !.at = "unwrap"]
              /\ UNCHANGED <<clockVars, source, trust, lock, call>>

Unwrap == /\ custody.at = "unwrap" /\ MayRequest
          /\ custody' = [custody EXCEPT !.at = "login"]
          /\ UNCHANGED <<clockVars, source, trust, lock, call>>

\* The lease of the client token may only shorten the deadline.
Login == /\ custody.at = "login" /\ MayRequest
         /\ \E lease \in Leases :
              custody' = [custody EXCEPT !.at = "self",
                                         !.deadline = Least(@, mono + lease)]
         /\ UNCHANGED <<clockVars, source, trust, lock, call>>

\* lookup-self reports the uses left and the time to live.
LookupSelf ==
  /\ custody.at = "self" /\ MayUseToken
  /\ \E left \in Budgets, ttl \in Leases :
       custody' = [custody EXCEPT !.at = "seed", !.uses = MaxUses - left,
                                  !.deadline = Least(@, mono + ttl)]
  /\ UNCHANGED <<clockVars, source, trust, lock, call>>

ReadSeed == /\ custody.at = "seed" /\ MayUseToken
            /\ custody' = [custody EXCEPT !.at = "issuer", !.uses = @ + 1]
            /\ UNCHANGED <<clockVars, source, trust, lock, call>>

\* The two trust states are started from one read each.  After the second the
\* key must be open, or the whole bootstrap is refused.
StartTrust(r) ==
  /\ custody.at = r /\ MayUseToken
  /\ Installable(r, source[r])
  /\ trust' = [trust EXCEPT ![r] = [avail |-> TRUE, rec |-> source[r]]]
  /\ IF r = "issuer"
       THEN custody' = [custody EXCEPT !.at = "attester", !.uses = @ + 1]
       ELSE /\ Eligible("issuer")
            /\ custody' = [custody EXCEPT !.at = "up", !.uses = @ + 1,
                                          !.material = TRUE]
  /\ UNCHANGED <<clockVars, source, lock, call>>

\* Any failure of bootstrap closes the object; there is no second bootstrap.
BootFails == /\ custody.at \in Boot
             /\ custody' = [custody EXCEPT !.at = "failed", !.closed = TRUE]
             /\ UNCHANGED <<clockVars, source, trust, lock, call>>

-----------------------------------------------------------------------------
(* RoleCustody.refresh and RoleCustody.close, by any thread.               *)

At(c, op) == call[c].op = op
Goto(c, op, r, rec) == call' = [call EXCEPT ![c] = [op |-> op, role |-> r, rec |-> rec]]

\* refresh() checks the material and the closed flag once, at its start.
CallRefresh(c) == /\ At(c, "idle") /\ custody.material /\ ~custody.closed
                  /\ Goto(c, "refresh", "issuer", NoRecord)
                  /\ UNCHANGED <<clockVars, source, trust, lock, custody>>

\* TrustState.refresh takes the refresh lock and closes the gate before the
\* source is read.
CloseGate(c) ==
  /\ At(c, "refresh") /\ lock[call[c].role] = NoOne
  /\ lock' = [lock EXCEPT ![call[c].role] = c]
  /\ trust' = [trust EXCEPT ![call[c].role].avail = FALSE]
  /\ Goto(c, "read", call[c].role, NoRecord)
  /\ UNCHANGED <<clockVars, source, custody>>

ReadRecord(c) == /\ At(c, "read") /\ MayUseToken
                 /\ custody' = [custody EXCEPT !.uses = @ + 1]
                 /\ Goto(c, "install", call[c].role, source[call[c].role])
                 /\ UNCHANGED <<clockVars, source, trust, lock>>

\* A valid record is installed and the lock released; the issuer's state is
\* refreshed before the attester's.
InstallRecord(c) ==
  LET r == call[c].role IN
  /\ At(c, "install") /\ Installable(r, call[c].rec)
  /\ trust' = [trust EXCEPT ![r] = [avail |-> TRUE, rec |-> call[c].rec]]
  /\ lock' = [lock EXCEPT ![r] = NoOne]
  /\ IF r = "issuer" THEN Goto(c, "refresh", "attester", NoRecord)
                     ELSE Goto(c, "idle", "issuer", NoRecord)
  /\ UNCHANGED <<clockVars, source, custody>>

\* Mutant: the failure path keeps the refresh lock.
MutKeepsLock(c) ==
  /\ \/ At(c, "read")
     \/ At(c, "install") /\ ~Installable(call[c].role, call[c].rec)
  /\ custody' = [custody EXCEPT !.closed = TRUE]
  /\ Goto(c, "close", "issuer", NoRecord)
  /\ UNCHANGED <<clockVars, source, trust, lock>>

\* A read that fails, is refused or returns a record that may not be
\* installed leaves the gate closed, and refresh() calls close().
RefreshFails(c) ==
  /\ \/ At(c, "read")
     \/ At(c, "install") /\ ~Installable(call[c].role, call[c].rec)
  /\ lock' = [lock EXCEPT ![call[c].role] = NoOne]
  /\ custody' = [custody EXCEPT !.closed = TRUE]
  /\ Goto(c, "close", "issuer", NoRecord)
  /\ UNCHANGED <<clockVars, source, trust>>

\* close(): the flag and the token go first, so that no later request passes
\* MayRequest.  Without material there is no state to poison.
CallClose(c) ==
  /\ At(c, "idle") /\ custody.at = "up" /\ ~custody.closed
  /\ custody' = [custody EXCEPT !.closed = TRUE]
  /\ Goto(c, "close", "issuer", NoRecord)
  /\ UNCHANGED <<clockVars, source, trust, lock>>

\* Each state is poisoned by a refresh whose record never parses, which waits
\* for the state's refresh lock.
Poison(c) ==
  LET r == call[c].role IN
  /\ At(c, "close") /\ lock[r] = NoOne
  /\ trust' = [trust EXCEPT ![r].avail = FALSE]
  /\ IF r = "issuer"
       THEN Goto(c, "close", "attester", NoRecord) /\ UNCHANGED custody
       ELSE /\ Goto(c, "idle", "issuer", NoRecord)
            /\ custody' = [custody EXCEPT !.material = FALSE]
  /\ UNCHANGED <<clockVars, source, lock>>

-----------------------------------------------------------------------------

Bootstrap == LookupWrap \/ Unwrap \/ Login \/ LookupSelf \/ ReadSeed
             \/ (\E r \in Roles : StartTrust(r)) \/ BootFails

CallEnds(c) == CloseGate(c) \/ ReadRecord(c) \/ InstallRecord(c) \/ RefreshFails(c)
               \/ Poison(c)

CallStep(c) == CallRefresh(c) \/ CallClose(c) \/ CallEnds(c)

Environment == CustodyTick \/ CustodyStepWall \/ (\E r \in Roles : Publish(r))

CustodyNext == Environment \/ Bootstrap \/ (\E c \in Callers : CallStep(c))

processVars == <<clockVars, custodyVars>>
CustodySpec == CustodyInit /\ [][CustodyNext]_processVars

\* Time passes, a request ends with a record or a failure (the transport
\* kills its child at the deadline), and a thread inside refresh() or close()
\* runs on; nothing makes anyone call them.
CustodyFairSpec ==
  /\ CustodySpec
  /\ WF_processVars(CustodyTick) /\ WF_processVars(Bootstrap)
  /\ \A c \in Callers : WF_processVars(CallEnds(c))

-----------------------------------------------------------------------------
(* Properties.                                                             *)

CustodyTypeOK ==
  /\ wall \in Int /\ mono \in Nat /\ stepped \in 0..MaxSteps
  /\ source \in [Roles -> Records]
  /\ trust \in [Roles -> [avail : BOOLEAN, rec : Records \cup {NoRecord}]]
  /\ lock \in [Roles -> Callers \cup {NoOne}]
  /\ custody \in [at : Boot \cup {"up", "failed"}, closed : BOOLEAN,
                  material : BOOLEAN, uses : 0..MaxUses, deadline : 0..Life]
  /\ call \in [Callers -> [op : {"idle", "refresh", "read", "install", "close"},
                           role : Roles, rec : Records \cup {NoRecord}]]

\* RoleCustody.close() is for good: once it has returned (the material is
\* gone), the trust states handed to the signer, to the verifiers and to the
\* admission say unavailable, although a refresh() of another thread may have
\* read its record before the flag was set and may install it afterwards.
ClosedMeansUnavailable ==
  custody.at = "up" /\ ~custody.material => \A r \in Roles : ~trust[r].avail

\* A call of refresh() or close() returns: the threads never wait for one
\* another's refresh locks for good.
CallsEnd == \A c \in Callers : call[c].op # "idle" ~> call[c].op = "idle"
=============================================================================
