----------------------------- MODULE KernelLock -----------------------------
(***************************************************************************)
(* The kernel-lock workflow: three jobs that move the pin of the kernel,   *)
(* and of at most one declared module, and release a manifest and a lock.  *)
(* acquire holds the index credential and downloads a closed bundle,       *)
(* resolve runs Poetry against that bundle only, attest binds the pair.    *)
(* Between any two steps the index may republish or drop a file, and a job *)
(* may die and be run again under a new attempt number.                    *)
(*                                                                         *)
(* Poetry is external and not trusted: the lock it writes is any member of *)
(* Locks, which may drop, repeat, add or alter an entry.  A digest is the  *)
(* bytes it is taken of.                                                   *)
(***************************************************************************)
EXTENDS Naturals, Functions

CONSTANTS
  Kernel, Modules,   \* dotmac-kernel, and the declarable private packages
  Public,            \* packages locked from the public index
  Bytes, Base,       \* what a published file may hold, and first held
  Unframed,          \* bytes that are no well-framed archive,
  Misnamed,          \* ... or whose METADATA is malformed or of another project
  RequiresDist,      \* the requirements the METADATA of given bytes declares
  Normalised,        \* the project that a spelling of its name stands for
  Locks,             \* what poetry lock may write
  MaxRepublish,      \* changes the index makes to published files
  MaxAttempts,       \* attempts of one workflow run
  None

ASSUME BytesAssumption == Base \in Bytes \ (Unframed \cup Misnamed) /\ None \notin Bytes
ASSUME AttemptsAssumption == MaxAttempts \in Nat \ {0}
ASSUME PackagesAssumption ==
  /\ Kernel \notin Modules /\ Public \cap ({Kernel} \cup Modules) = {}
  /\ None \notin {Kernel} \cup Modules \cup Public

Private  == {Kernel} \cup Modules
Packages == Private \cup Public
Versions == {"old", "new"}
Kinds    == {"wheel", "sdist"}
Files    == Private \X Versions \X Kinds   \* a file name carries all three

VARIABLES
  ask,        \* the dispatch's inputs: the kernel version, a module and its versions
  flaw,       \* what is wrong with the tree at the dispatched commit, or "none"
  index,      \* the bytes each file is published with, or None
  changes,    \* republications so far
  attempt,    \* github.run_attempt
  at,         \* the next step of the running job
  manifest,   \* the working manifest: its pins and where its source points
  pages,      \* kinds found on the acquired pages
  staging,    \* the transfer in the staging directory
  files, digests,   \* artifacts at their final path, digests fetch returned
  lock,       \* the working lock
  bundles, pairs,   \* uploaded artifacts, by attempt
  released    \* the evidence that left the runner, and its attempt
jobv == <<manifest, pages, staging, files, digests, lock>>
upv  == <<bundles, pairs, released>>
vars == <<ask, flaw, index, changes, attempt, at, jobv, upv>>

Empty == [x \in {} |-> None]
Extended(f, x, y) == [n \in DOMAIN f \cup {x} |-> IF n \in DOMAIN f THEN f[n] ELSE y]

\* An entry: files maps the file names it lists to their hashes, deps is its
\* dependency table, rest all its other fields.
Entry(n, v, fs, ds, src, r) ==
  [name |-> n, ver |-> v, files |-> fs, deps |-> ds, source |-> src, rest |-> r]
FilesOf(p, v, kinds) == [n \in {p} \X {v} \X kinds |-> Base]

\* The committed lock: its entries by line, its other tables, and the manifest
\* its content-hash is of.
Before == [p \in Packages |->
             Entry(p, "old", FilesOf(p, "old", Kinds), RequiresDist[Base],
                   IF p \in Private THEN "index" ELSE "public", "same")]
LockBefore == [package |-> Before, rest |-> "same",
               hash |-> [pin |-> [p \in Private |-> "old"], source |-> "index"]]

ASSUME LocksAssumption ==
  \A l \in Locks :
    /\ l = [package |-> l.package, rest |-> l.rest, hash |-> l.hash]
    /\ \A i \in DOMAIN l.package :
         LET e == l.package[i] IN e = Entry(e.name, e.ver, e.files, e.deps, e.source, e.rest)

-----------------------------------------------------------------------------
(* The dispatch, and the tree at the commit it names.                       *)

\* An input that is absent, only white space, not listed or not a version.
Inputs == [kernel : Versions, dependency : Modules \cup {"", " ", "unlisted"},
           from : Versions \cup {"", " ", "inexact"}, to : Versions \cup {"", " ", "inexact"}]

\* All three inputs or none, a declarable name, exact versions, a movement.
InputProblems ==
  LET given == {ask.dependency, ask.from, ask.to}
  IN  \/ " " \in given
      \/ "" \in given /\ given # {""}
      \/ /\ "" \notin given
         /\ \/ ask.dependency \notin Modules
            \/ ~({ask.from, ask.to} \subseteq Versions)
            \/ ask.from = ask.to

\* The declared module, or None for a kernel-only run.
ParseDependencyDelta == IF ask.dependency \in Modules /\ ~InputProblems THEN ask.dependency ELSE None
Delta == ParseDependencyDelta

Flaws == {"poetry.toml", "unknown table", "off-index constraint", "direct reference",
          "unknown group key", "other source", "declared twice", "not an exact pin",
          "locked without a wheel"}

CheckoutProblems             == flaw = "poetry.toml"
UnrecognisedDependencyTables == flaw = "unknown table"
ConstraintProblems           == flaw = "off-index constraint"
RequirementProblems          == flaw = "direct reference"
GroupShapeProblems           == flaw = "unknown group key"
DependencyDeclarations       == IF flaw = "declared twice" THEN 2 ELSE 1

DependencyProblems ==
  UnrecognisedDependencyTables \/ GroupShapeProblems \/ ConstraintProblems \/ RequirementProblems

ReplaceKernelVersion(m) == [m EXCEPT !.pin[Kernel] = ask.kernel]

ReplaceDependencyVersion(m) == IF Delta = None THEN m ELSE [m EXCEPT !.pin[Delta] = ask.to]

\* Not exactly one declaration, at this version.  Asked before the pin is
\* rewritten, where it must hold dependency_from, and after.
DeclaredVersionProblems(m, v) == Delta # None /\ (DependencyDeclarations # 1 \/ m.pin[Delta] # v)

ManifestProblems(m) ==
  \/ flaw = "other source" \/ m.source # "index"
  \/ DependencyProblems
  \/ m.pin[Kernel] # ask.kernel

Moved == ReplaceDependencyVersion(ReplaceKernelVersion(LockBefore.hash))

\* The job's fresh checkout with the pins moved, or its refusal.
MovePins(next) ==
  /\ manifest' = Moved /\ lock' = LockBefore
  /\ at' = IF \/ InputProblems \/ DeclaredVersionProblems(LockBefore.hash, ask.from)
              \/ DeclaredVersionProblems(Moved, ask.to)
              \/ CheckoutProblems \/ ManifestProblems(Moved)
           THEN "failed" ELSE next

-----------------------------------------------------------------------------
(* acquire: the index is data, and it may change between two transfers.     *)

\* What the manifest binds to the private source, the locked rest of it, the kernel.
AcquisitionPlan == [p \in Private |-> IF p = Kernel THEN ask.kernel ELSE manifest.pin[p]]

CheckoutToAcquire ==
  /\ at = "acquire"
  /\ MovePins("plan")
  /\ pages' = Empty /\ files' = Empty /\ digests' = Empty /\ staging' = None
  /\ UNCHANGED upv

Plan ==
  /\ at = "plan"
  /\ at' = IF flaw = "not an exact pin" THEN "failed" ELSE "fetch"
  /\ UNCHANGED <<jobv, upv>>

Name(p, k) == <<p, AcquisitionPlan[p], k>>

\* The links of a page that name this release, all under the approved origin.
Wanted(p) == {k \in Kinds : index[Name(p, k)] # None}

\* Mutant: only the kernel's release must offer a wheel.
MutWheelOnly(p, kinds) == p = Kernel => "wheel" \in kinds
WheelOnly(p, kinds) == "wheel" \in kinds

KernelArtifactNames == Kinds

Offered(p) == /\ Wanted(p) # {} /\ WheelOnly(p, Wanted(p))
              /\ p = Kernel => Wanted(p) = KernelArtifactNames

Unfetched == {p \in DOMAIN pages : \E k \in pages[p] : Name(p, k) \notin DOMAIN digests}

\* A page that answers anything but 200 is a refusal too.
FetchPage(p) ==
  /\ at = "fetch" /\ staging = None /\ Unfetched = {} /\ p \notin DOMAIN pages
  /\ \/ /\ Offered(p)
        /\ pages' = Extended(pages, p, Wanted(p))
        /\ UNCHANGED at
     \/ ~Offered(p) /\ at' = "failed" /\ UNCHANGED pages
  /\ UNCHANGED <<manifest, staging, files, digests, lock, upv>>

\* A status but 200, a redirect included, or a bound exceeded.
TransferProblems(n) == index[n] = None

\* curl into the private staging directory.
Transfer(p, k) ==
  /\ at = "fetch" /\ staging = None /\ p \in Unfetched /\ k \in pages[p]
  /\ Name(p, k) \notin DOMAIN digests
  /\ \/ ~TransferProblems(Name(p, k))
        /\ staging' = [name |-> Name(p, k), bytes |-> index[Name(p, k)]] /\ UNCHANGED at
     \/ TransferProblems(Name(p, k)) /\ at' = "failed" /\ UNCHANGED staging
  /\ UNCHANGED <<manifest, pages, files, digests, lock, upv>>

\* os.link refuses a name that exists; nothing is visible before it.
PublishAtomically ==
  /\ at = "fetch" /\ staging # None /\ staging.name \notin DOMAIN files
  /\ files' = Extended(files, staging.name, staging.bytes)
  /\ UNCHANGED <<at, manifest, pages, staging, digests, lock, upv>>

\* The staging directory is removed and the digest taken before publication
\* is returned.
RecordDigest ==
  /\ at = "fetch" /\ staging # None /\ staging.name \in DOMAIN files
  /\ digests' = Extended(digests, staging.name, staging.bytes)
  /\ staging' = None
  /\ UNCHANGED <<at, manifest, pages, files, lock, upv>>

\* Cleanup fails: the publication is rolled back, or cannot be and the
\* artifact stays unrecorded.  Either way the bundle is not usable.
CleanupFails ==
  /\ at = "fetch" /\ staging # None /\ staging.name \in DOMAIN files
  /\ files' \in {files, Restrict(files, DOMAIN files \ {staging.name})}
  /\ at' = "failed"
  /\ UNCHANGED <<manifest, pages, staging, digests, lock, upv>>

UploadBundle ==
  /\ at = "fetch" /\ staging = None /\ DOMAIN pages = Private /\ Unfetched = {}
  /\ bundles' = [bundles EXCEPT ![attempt] = [pages |-> pages, files |-> files, digests |-> digests]]
  /\ at' = "resolve"
  /\ UNCHANGED <<jobv, pairs, released>>

-----------------------------------------------------------------------------
(* resolve: a fresh checkout of the same commit, Poetry against the bundle. *)

CheckoutToResolve ==
  /\ at = "resolve"
  /\ MovePins("mirror")
  /\ UNCHANGED <<pages, staging, files, digests, upv>>

Bundle == bundles[attempt]

\* The bundle is the one of this very attempt.
PointAtMirror ==
  /\ at = "mirror"
  /\ \/ Bundle # None /\ manifest' = [manifest EXCEPT !.source = "mirror"] /\ at' = "lock"
     \/ Bundle = None /\ at' = "failed" /\ UNCHANGED manifest
  /\ UNCHANGED <<pages, staging, files, digests, lock, upv>>

LockWheelProblems(l) ==
  \/ flaw = "locked without a wheel"
  \/ \E i \in DOMAIN l.package : \A n \in DOMAIN l.package[i].files : n[3] # "wheel"

\* wheel-only over the committed lock, then poetry lock.
PoetryLock ==
  /\ at = "lock"
  /\ \/ ~LockWheelProblems(lock) /\ lock' \in Locks /\ at' = "restore"
     \/ LockWheelProblems(lock) /\ at' = "failed" /\ UNCHANGED lock
  /\ UNCHANGED <<manifest, pages, staging, files, digests, upv>>

RestoreIndexUrl(l) ==
  [l EXCEPT !.package = [i \in DOMAIN @ |->
     IF @[i].source = "mirror" THEN [@[i] EXCEPT !.source = "index"] ELSE @[i]]]

\* The real URL goes back, then Poetry's own hash of the restored manifest
\* replaces the one it wrote, which must be there.
Restore ==
  /\ at = "restore"
  /\ manifest' = [manifest EXCEPT !.source = "index"]
  /\ \/ /\ lock.hash # None
        /\ lock' = [RestoreIndexUrl(lock) EXCEPT !.hash = manifest']
        /\ at' = "check"
     \/ lock.hash = None /\ lock' = RestoreIndexUrl(lock) /\ at' = "failed"
  /\ UNCHANGED <<pages, staging, files, digests, upv>>

ChangedFields(a, b) == {f \in DOMAIN a : a[f] # b[f]}

\* The lines of a package, and whether it has exactly one.
LinesOf(l, p) == {i \in DOMAIN l.package : l.package[i].name = p}
Sole(l, p) == \E i \in DOMAIN l.package : LinesOf(l, p) = {i}

\* _entries: no packages at all, or two entries of one name and version.
EntriesProblems(l) ==
  \/ DOMAIN l.package = {}
  \/ \E i, j \in DOMAIN l.package :
       i # j /\ l.package[i].name = l.package[j].name /\ l.package[i].ver = l.package[j].ver

KernelEntryProblems(l) ==
  \/ ~Sole(l, Kernel)
  \/ \E i \in LinesOf(l, Kernel) :
       \/ l.package[i] = Before[Kernel] /\ Delta = None
       \/ ChangedFields(Before[Kernel], l.package[i]) \ {"ver", "files"} # {}

\* What a wheel declares, or an entry's table records, is read as a map from
\* projects to constraints; a conditional constraint, or two spellings of one
\* project, is refused.
Unmodelled(R) == \/ \E q \in R : q.conditional
                 \/ \E q, t \in R : q # t /\ Normalised[q.name] = Normalised[t.name]
Mapping(R) == [n \in {Normalised[q.name] : q \in R} |->
                 (CHOOSE q \in R : Normalised[q.name] = n).spec]
MetadataDependencies(b) == Mapping(RequiresDist[b])
LockedDependencies(e)   == Mapping(e.deps)

ZipCentralDirectory(b) == b \notin Unframed
ParseCoreMetadata(b)   == b \notin Misnamed
WheelMetadata(b)       == ZipCentralDirectory(b) /\ ParseCoreMetadata(b)

WheelIdentity(m) == <<m, ask.to, "wheel">>

\* The wheel's bytes are hashed again and read, and the entry's dependencies
\* are the ones they declare.
MetadataBindingProblems(e, wheel) ==
  \/ wheel \notin DOMAIN Bundle.files \/ wheel \notin DOMAIN e.files
  \/ wheel \notin DOMAIN Bundle.digests \/ Bundle.files[wheel] # Bundle.digests[wheel]
  \/ e.files[wheel] # Bundle.files[wheel]
  \/ ~WheelMetadata(Bundle.files[wheel])
  \/ Unmodelled(RequiresDist[Bundle.files[wheel]]) \/ Unmodelled(e.deps)
  \/ LockedDependencies(e) # MetadataDependencies(Bundle.files[wheel])

DeclaredDeltaProblems(l, m) ==
  \/ ~Sole(l, m) \/ Before[m].ver # ask.from
  \/ \E i \in LinesOf(l, m) :
       \/ l.package[i].ver # ask.to \/ l.package[i] = Before[m]
       \/ ChangedFields(Before[m], l.package[i]) \ {"ver", "files", "deps"} # {}
       \/ MetadataBindingProblems(l.package[i], WheelIdentity(m))

\* Mutant: every declarable module is exempt, declared by this dispatch or not.
MutExcluded == {Kernel} \cup Modules
Excluded == {Kernel} \cup ({Delta} \ {None})

\* What is neither the kernel's nor the declared module's, line for line.
Others(entries) == {entries[i] : i \in {i \in DOMAIN entries : entries[i].name \notin Excluded}}

DriftProblems(l) ==
  \/ EntriesProblems(l)
  \/ Others(l.package) # Others(Before)
  \/ KernelEntryProblems(l)
  \/ Delta # None /\ DeclaredDeltaProblems(l, Delta)
  \/ l.rest # LockBefore.rest
  \/ l.hash = LockBefore.hash

\* An entry whose source reference is the index, whatever its URL.
FromIndex(e) == e.source \in {"index", "mirror"}

\* Mutant: only the kernel's hashes are compared with the bytes.
MutHashProblems(l) ==
  \/ ~Sole(l, Kernel)
  \/ \E i \in LinesOf(l, Kernel) :
       \/ l.package[i].ver # ask.kernel
       \/ l.package[i].files # [n \in {Kernel} \X {ask.kernel} \X Kinds |-> Bundle.digests[n]]
HashProblems(l) ==
  \/ ~Sole(l, Kernel)
  \/ \E i \in LinesOf(l, Kernel) :
       \/ l.package[i].ver # ask.kernel
       \/ DOMAIN l.package[i].files # {Kernel} \X {ask.kernel} \X KernelArtifactNames
  \/ \E i \in DOMAIN l.package :
       /\ FromIndex(l.package[i])
       /\ \E n \in DOMAIN l.package[i].files :
            n \notin DOMAIN Bundle.digests \/ Bundle.digests[n] # l.package[i].files[n]

\* Exactly one entry of the declared module at its new version, naming exactly
\* what was acquired for it.
AcquiredMatchesLock(l, m) ==
  LET lines == {i \in LinesOf(l, m) : l.package[i].ver = ask.to}
      acquired == {n \in DOMAIN Bundle.digests : n[1] = m /\ n[2] = ask.to}
  IN  \E i \in lines : lines = {i} /\ l.package[i].files = Restrict(Bundle.digests, acquired)

\* check --lock, drift, wheel-only and verify.
Clean(l) ==
  /\ l.hash = manifest
  /\ ~DriftProblems(l) /\ ~LockWheelProblems(l) /\ ~HashProblems(l)
  /\ Delta # None => AcquiredMatchesLock(l, Delta)

Verify ==
  /\ at = "check"
  /\ \/ /\ Clean(lock)
        /\ pairs' = [pairs EXCEPT ![attempt] = [manifest |-> manifest, lock |-> lock]]
        /\ at' = "attest"
     \/ ~Clean(lock) /\ at' = "failed" /\ UNCHANGED pairs
  /\ UNCHANGED <<jobv, bundles, released>>

-----------------------------------------------------------------------------
(* attest, failures and reruns.                                             *)

CredentialSightings == BOOLEAN

\* The two files are one artifact, bound to each other and to the attempt.
PairBinding(pair) == [pair |-> pair, by |-> attempt]

BuildEvidence ==
  /\ at = "attest"
  /\ \E sighted \in CredentialSightings :
       \/ /\ ~sighted /\ pairs[attempt] # None
          /\ released' = PairBinding(pairs[attempt])
          /\ at' = "done"
       \/ (sighted \/ pairs[attempt] = None) /\ at' = "failed" /\ UNCHANGED released
  /\ UNCHANGED <<jobv, bundles, pairs>>

\* A runner is lost.
Die == at \notin {"failed", "done"} /\ at' = "failed" /\ UNCHANGED <<jobv, upv>>

Reachable(job) ==
  \/ job = "acquire"
  \/ job = "resolve" /\ (\E a \in DOMAIN bundles : bundles[a] # None)
  \/ job = "attest" /\ (\E a \in DOMAIN pairs : pairs[a] # None)

\* A rerun of all jobs, or of the failed ones, takes the next attempt number.
Rerun(job) ==
  /\ at \in {"failed", "done"} /\ attempt < MaxAttempts /\ Reachable(job)
  /\ attempt' = attempt + 1 /\ at' = job
  /\ UNCHANGED <<ask, flaw, index, changes, jobv, upv>>

Republish(f, b) ==
  /\ changes < MaxRepublish /\ b # index[f]
  /\ index' = [index EXCEPT ![f] = b] /\ changes' = changes + 1
  /\ UNCHANGED <<ask, flaw, attempt, at, jobv, upv>>

Init ==
  /\ ask \in Inputs
  /\ flaw \in Flaws \cup {"none"}
  /\ index = [f \in Files |-> Base] /\ changes = 0
  /\ attempt = 1 /\ at = "acquire"
  /\ manifest = LockBefore.hash /\ lock = LockBefore
  /\ pages = Empty /\ staging = None /\ files = Empty /\ digests = Empty
  /\ bundles = [a \in 1 .. MaxAttempts |-> None]
  /\ pairs = [a \in 1 .. MaxAttempts |-> None]
  /\ released = None

Step ==
  /\ \/ CheckoutToAcquire \/ Plan \/ PublishAtomically \/ RecordDigest \/ CleanupFails
     \/ \E p \in Private : FetchPage(p) \/ \E k \in Kinds : Transfer(p, k)
     \/ UploadBundle \/ CheckoutToResolve \/ PointAtMirror \/ PoetryLock \/ Restore
     \/ Verify \/ BuildEvidence \/ Die
  /\ UNCHANGED <<ask, flaw, index, changes, attempt>>

Next == \/ Step
        \/ \E job \in {"acquire", "resolve", "attest"} : Rerun(job)
        \/ \E f \in Files, b \in Bytes \cup {None} : Republish(f, b)

Spec == Init /\ [][Next]_vars

-----------------------------------------------------------------------------
(* Properties.                                                              *)

\* hash_problems, fetch: every hash a released lock records for a private
\* file is the hash of the bytes its own attempt downloaded, whatever the
\* index published before, between and after the transfers.
ReleasedHashesAreBytes ==
  released # None =>
    \A i \in DOMAIN released.pair.lock.package :
      LET e == released.pair.lock.package[i] IN
      e.name \in Private =>
        \A n \in DOMAIN e.files : /\ n \in DOMAIN bundles[released.by].files
                                 /\ e.files[n] = bundles[released.by].files[n]

\* drift_problems, hash_problems, metadata_binding_problems: whatever Poetry
\* wrote, a released lock answers for its manifest.  It has one entry for each
\* package that was locked and for no other, a private one at the version the
\* manifest pins, and the declared module's constraints are those that the
\* wheel its own attempt downloaded declares.
LockAnswersForManifest ==
  released # None =>
    LET l == released.pair.lock
        pin == released.pair.manifest.pin
    IN  /\ \A p \in Packages : Sole(l, p)
        /\ \A i \in DOMAIN l.package :
             LET e == l.package[i] IN
             /\ e.name \in Packages
             /\ e.name \in Private => e.ver = pin[e.name]
             /\ e.name = Delta =>
                  LockedDependencies(e)
                    = MetadataDependencies(bundles[released.by].files[<<Delta, pin[Delta], "wheel">>])

\* wheel_only_problems: every private release Poetry could read offers it a
\* wheel, also when the index dropped one since the lock was committed.
NothingPrivateIsBuilt ==
  at \in {"lock", "restore", "check"} =>
    \A p \in Private : "wheel" \in Bundle.pages[p]

=============================================================================
