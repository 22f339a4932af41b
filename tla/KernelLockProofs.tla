-------------------------- MODULE KernelLockProofs --------------------------
(***************************************************************************)
(* Proofs about KernelLock.  What attest releases is bound to its attempt: *)
(* an attempt's bundle is written once, before its pair, and both are kept *)
(* as they were checked against each other.                                *)
(***************************************************************************)
EXTENDS KernelLock, TLAPS

Attempts == 1 .. MaxAttempts

-----------------------------------------------------------------------------
(* The inductive invariant.                                                 *)

\* Every line of the working lock has the fields of an entry.
EntryShape(e) == e = Entry(e.name, e.ver, e.files, e.deps, e.source, e.rest)
LockOK == /\ lock = [package |-> lock.package, rest |-> lock.rest, hash |-> lock.hash]
          /\ \A i \in DOMAIN lock.package : EntryShape(lock.package[i])

\* Resolve works on the manifest whose pins it moved itself.
ManifestOK ==
  at \in {"mirror", "lock", "restore", "check"} =>
    /\ manifest = [pin |-> manifest.pin, source |-> manifest.source]
    /\ manifest.pin = Moved.pin

\* The digests are of the files, and every page offered a wheel.
Recorded(fs, ds) == DOMAIN ds \subseteq DOMAIN fs /\ \A n \in DOMAIN ds : ds[n] = fs[n]
Wheels(ps) == \A p \in DOMAIN ps : "wheel" \in ps[p]

\* While acquire runs nothing is published but what has a digest and the one
\* transfer under way.
WorkOK ==
  at \in {"plan", "fetch"} =>
    /\ Recorded(files, digests) /\ Wheels(pages)
    /\ staging = None => DOMAIN files \subseteq DOMAIN digests
    /\ staging # None => /\ staging.name \notin DOMAIN digests
                         /\ DOMAIN files \subseteq DOMAIN digests \cup {staging.name}
                         /\ staging.name \in DOMAIN files => files[staging.name] = staging.bytes

BundleOK(b) == Recorded(b.files, b.digests) /\ Wheels(b.pages) /\ DOMAIN b.pages = Private

\* What the checks of resolve establish between a lock's entries and a bundle.
HashesHold(l, b) ==
  \A i \in DOMAIN l.package :
    l.package[i].name \in Private =>
      \A n \in DOMAIN l.package[i].files : n \in DOMAIN b.files /\ l.package[i].files[n] = b.files[n]
Answers(l, pin, b) ==
  /\ \A p \in Packages : Sole(l, p)
  /\ \A i \in DOMAIN l.package :
       /\ l.package[i].name \in Packages
       /\ l.package[i].name \in Private => l.package[i].ver = pin[l.package[i].name]
       /\ l.package[i].name = Delta =>
            LockedDependencies(l.package[i]) = MetadataDependencies(b.files[<<Delta, pin[Delta], "wheel">>])

\* Uploads: those of this attempt are made in order, those of a later one not yet.
Acquiring == {"acquire", "plan", "fetch"}
Resolving == {"resolve", "mirror", "lock", "restore", "check"}
UploadsOK ==
  /\ DOMAIN bundles = Attempts /\ DOMAIN pairs = Attempts /\ attempt \in Attempts
  /\ \A a \in Attempts :
       /\ a > attempt => bundles[a] = None /\ pairs[a] = None
       /\ bundles[a] # None => BundleOK(bundles[a])
       /\ pairs[a] # None => /\ HashesHold(pairs[a].lock, bundles[a])
                             /\ Answers(pairs[a].lock, pairs[a].manifest.pin, bundles[a])
  /\ at \in Acquiring => bundles[attempt] = None
  /\ at \in Acquiring \cup Resolving => pairs[attempt] = None
  /\ at \in {"lock", "restore", "check"} => bundles[attempt] # None

\* What left the runner is the pair of its attempt.
ReleaseOK == released # None => /\ released.by \in Attempts /\ pairs[released.by] # None
                                /\ released.pair = pairs[released.by]

IInv == LockOK /\ ManifestOK /\ WorkOK /\ UploadsOK /\ ReleaseOK

-----------------------------------------------------------------------------
(* Operators the steps are made of.                                         *)

\* The committed lock: one entry for each package, under its own name.
LEMMA Committed ==
  /\ DOMAIN Before = Packages
  /\ \A p \in Packages : EntryShape(Before[p]) /\ Before[p].name = p /\ Before[p].ver = "old"
  /\ \A p \in Private : Before[p].source = "index"
BY DEF EntryShape, Before, Entry, Private, Packages

\* The pins of the moved manifest.
LEMMA MovedPins ==
  /\ Delta \in Modules \cup {None}
  /\ Moved = [pin |-> Moved.pin, source |-> Moved.source]
  /\ Moved.pin[Kernel] = ask.kernel
  /\ Delta # None => Moved.pin[Delta] = ask.to
  /\ \A p \in Private \ {Kernel, Delta} : Moved.pin[p] = "old"
<1>1. Delta \in Modules \cup {None}
  BY DEF Delta, ParseDependencyDelta
<1> DEFINE k == ReplaceKernelVersion(LockBefore.hash)
<1>2. k = [pin |-> [p \in Private |-> IF p = Kernel THEN ask.kernel ELSE "old"], source |-> "index"]
  BY DEF ReplaceKernelVersion, LockBefore, Private
<1>3. CASE Delta = None
  BY <1>1, <1>2, <1>3 DEF Moved, ReplaceDependencyVersion, Private
<1>4. CASE Delta # None
  <2> HIDE DEF k
  <2>1. Moved = [k EXCEPT !.pin[Delta] = ask.to]
    BY <1>4 DEF Moved, ReplaceDependencyVersion, k
  <2>2. Delta \in Private /\ Delta # Kernel
    BY <1>1, <1>4, PackagesAssumption DEF Private
  <2>3. Moved = [pin |-> [k.pin EXCEPT ![Delta] = ask.to], source |-> "index"]
    BY <1>2, <2>1
  <2> QED BY <1>1, <1>2, <2>2, <2>3 DEF Private
<1> QED BY <1>3, <1>4

\* Restoring the URLs of a lock keeps its shape.
LEMMA RestoredShape ==
  ASSUME LockOK
  PROVE  LET r == RestoreIndexUrl(lock)
         IN  /\ r = [package |-> r.package, rest |-> r.rest, hash |-> r.hash]
             /\ \A i \in DOMAIN r.package : EntryShape(r.package[i])
<1> DEFINE f == [i \in DOMAIN lock.package |->
                   IF lock.package[i].source = "mirror" THEN [lock.package[i] EXCEPT !.source = "index"]
                   ELSE lock.package[i]]
<1>1. RestoreIndexUrl(lock) = [lock EXCEPT !.package = f]
  BY DEF RestoreIndexUrl
<1>2. ASSUME NEW i \in DOMAIN f PROVE EntryShape(f[i])
  <2>1. EntryShape(lock.package[i])
    BY <1>2 DEF LockOK
  <2>2. ASSUME NEW e, EntryShape(e) PROVE EntryShape([e EXCEPT !.source = "index"])
    BY <2>2 DEF EntryShape, Entry
  <2>3. EntryShape([lock.package[i] EXCEPT !.source = "index"])
    BY <2>1, <2>2, Zenon
  <2> QED BY <1>2, <2>1, <2>3, Zenon
<1> HIDE DEF f
<1>3. RestoreIndexUrl(lock) = [package |-> f, rest |-> lock.rest, hash |-> lock.hash]
  BY <1>1 DEF LockOK
<1> QED BY <1>2, <1>3

\* A field that has not changed.
LEMMA Unchanged ==
  ASSUME NEW p \in Private, NEW e, NEW S, ChangedFields(Before[p], e) \ S = {}, "source" \notin S
  PROVE  e.source = "index"
<1>1. p \in Packages
  BY DEF Packages
<1>2. "source" \in DOMAIN Before[p]
  BY <1>1, Committed DEF EntryShape, Entry
<1> QED BY <1>2, Committed DEF ChangedFields

\* A lock without drift: what each line is.
LEMMA LinesHold ==
  ASSUME NEW l, ~DriftProblems(l), NEW i \in DOMAIN l.package
  PROVE  \/ l.package[i].name = Kernel
         \/ Delta # None /\ l.package[i].name = Delta
         \/ \E p \in Packages \ {Kernel, Delta} : l.package[i] = Before[p] /\ l.package[i].name = p
<1>1. SUFFICES ASSUME l.package[i].name \notin Excluded
               PROVE  \E p \in Packages \ {Kernel, Delta} : l.package[i] = Before[p] /\ l.package[i].name = p
  BY DEF Excluded
<1>2. l.package[i] \in Others(l.package)
  BY <1>1 DEF Others
<1>3. l.package[i] \in Others(Before)
  BY <1>2 DEF DriftProblems
<1>4. PICK p \in Packages : l.package[i] = Before[p]
  BY <1>3, Committed DEF Others
<1>5. l.package[i].name = p /\ p # Kernel
  BY <1>1, <1>4, Committed DEF Excluded
<1>6. p # Delta
  <2>1. Delta # None => Delta \in Excluded
    BY DEF Excluded
  <2>2. p # None
    BY PackagesAssumption DEF Packages, Private
  <2> QED BY <1>1, <1>5, <2>1, <2>2
<1> QED BY <1>4, <1>5, <1>6

LEMMA SolesHold ==
  ASSUME NEW l, ~DriftProblems(l), NEW p \in Packages
  PROVE  Sole(l, p)
<1>1. CASE p \in Excluded
  BY <1>1 DEF DriftProblems, Excluded, KernelEntryProblems, DeclaredDeltaProblems
<1>2. CASE p \notin Excluded
  <2>1. Before[p] \in Others(Before)
    BY <1>2, Committed DEF Others
  <2>2. PICK i \in DOMAIN l.package : l.package[i] = Before[p]
    BY <2>1 DEF DriftProblems, Others
  <2>3. ASSUME NEW j \in LinesOf(l, p) PROVE j = i
    <3>1. j \in DOMAIN l.package /\ l.package[j].name = p
      BY <2>3 DEF LinesOf
    <3>2. l.package[j] = Before[p]
      BY <3>1, <1>2, LinesHold DEF Excluded
    <3> QED BY <2>2, <3>1, <3>2 DEF DriftProblems, EntriesProblems
  <2>4. i \in LinesOf(l, p)
    BY <2>2, Committed DEF LinesOf
  <2> QED BY <2>2, <2>3, <2>4 DEF Sole
<1> QED BY <1>1, <1>2

\* The checks of resolve establish what a pair is kept for.
LEMMA CleanHolds ==
  ASSUME BundleOK(Bundle), manifest.pin = Moved.pin, Clean(lock)
  PROVE  HashesHold(lock, Bundle) /\ Answers(lock, manifest.pin, Bundle)
<1>1. ~DriftProblems(lock) /\ ~HashProblems(lock)
  BY DEF Clean
<1>2. ASSUME NEW i \in DOMAIN lock.package, lock.package[i].name \in Private
      PROVE  FromIndex(lock.package[i])
  <2>1. CASE lock.package[i].name = Kernel
    <3>1. ChangedFields(Before[Kernel], lock.package[i]) \ {"ver", "files"} = {}
      BY <1>1, <2>1 DEF DriftProblems, KernelEntryProblems, LinesOf
    <3> QED BY <3>1, Unchanged DEF FromIndex, Private
  <2>2. CASE Delta # None /\ lock.package[i].name = Delta
    <3>1. ChangedFields(Before[Delta], lock.package[i]) \ {"ver", "files", "deps"} = {}
      BY <1>1, <2>2 DEF DriftProblems, DeclaredDeltaProblems, LinesOf
    <3> QED BY <1>2, <2>2, <3>1, Unchanged DEF FromIndex
  <2>3. CASE \E p \in Packages \ {Kernel, Delta} : lock.package[i] = Before[p] /\ lock.package[i].name = p
    BY <1>2, <2>3, Committed DEF FromIndex
  <2> QED BY <1>1, <2>1, <2>2, <2>3, LinesHold
<1>3. HashesHold(lock, Bundle)
  <2> SUFFICES ASSUME NEW i \in DOMAIN lock.package, lock.package[i].name \in Private,
                      NEW n \in DOMAIN lock.package[i].files
               PROVE  n \in DOMAIN Bundle.files /\ lock.package[i].files[n] = Bundle.files[n]
    BY DEF HashesHold
  <2>1. n \in DOMAIN Bundle.digests /\ Bundle.digests[n] = lock.package[i].files[n]
    BY <1>1, <1>2 DEF HashProblems
  <2> QED BY <2>1 DEF BundleOK, Recorded
<1>4. ASSUME NEW i \in DOMAIN lock.package
      PROVE  /\ lock.package[i].name \in Packages
             /\ lock.package[i].name \in Private => lock.package[i].ver = Moved.pin[lock.package[i].name]
             /\ lock.package[i].name = Delta =>
                  LockedDependencies(lock.package[i])
                    = MetadataDependencies(Bundle.files[<<Delta, Moved.pin[Delta], "wheel">>])
  <2>1. CASE lock.package[i].name = Kernel
    <3>1. lock.package[i].ver = ask.kernel
      BY <1>1, <2>1 DEF HashProblems, LinesOf
    <3>2. Kernel # Delta
      BY MovedPins, PackagesAssumption
    <3>3. Kernel \in Packages
      BY DEF Packages, Private
    <3> QED BY <2>1, <3>1, <3>2, <3>3, MovedPins
  <2>2. CASE Delta # None /\ lock.package[i].name = Delta
    <3>1. /\ lock.package[i].ver = ask.to
          /\ ~MetadataBindingProblems(lock.package[i], WheelIdentity(Delta))
      BY <1>1, <2>2 DEF DriftProblems, DeclaredDeltaProblems, LinesOf
    <3>2. LockedDependencies(lock.package[i]) = MetadataDependencies(Bundle.files[<<Delta, ask.to, "wheel">>])
      BY <3>1 DEF MetadataBindingProblems, WheelIdentity
    <3>3. Delta \in Packages
      BY <2>2, MovedPins DEF Packages, Private
    <3>4. Moved.pin[Delta] = ask.to
      BY <2>2, MovedPins
    <3> QED BY <2>2, <3>1, <3>2, <3>3, <3>4
  <2>3. CASE \E p \in Packages \ {Kernel, Delta} : lock.package[i] = Before[p] /\ lock.package[i].name = p
    BY <2>3, Committed, MovedPins
  <2> QED BY <1>1, <2>1, <2>2, <2>3, LinesHold
<1>5. Answers(lock, Moved.pin, Bundle)
  BY <1>1, <1>4, SolesHold DEF Answers
<1> QED BY <1>3, <1>5

-----------------------------------------------------------------------------
(* One step of the workflow keeps each part of the invariant.               *)

LEMMA Initially == Init => IInv
<1> SUFFICES ASSUME Init PROVE IInv
  OBVIOUS
<1>1. LockOK
  BY Committed DEF Init, LockOK, LockBefore
<1>2. WorkOK /\ ManifestOK
  BY DEF Init, WorkOK, ManifestOK
<1>3. UploadsOK
  BY AttemptsAssumption DEF Init, UploadsOK, Attempts, Acquiring, Resolving
<1>4. ReleaseOK
  BY DEF Init, ReleaseOK
<1> QED BY <1>1, <1>2, <1>3, <1>4 DEF IInv

\* The lock is the committed one, Poetry's, or Poetry's with the URLs restored.
LEMMA LockKeeps ==
  ASSUME LockOK, [Next]_vars
  PROVE  LockOK'
<1>1. CASE UNCHANGED lock
  BY <1>1 DEF LockOK
<1>2. CASE CheckoutToAcquire \/ CheckoutToResolve
  <2>1. lock' = LockBefore
    BY <1>2 DEF CheckoutToAcquire, CheckoutToResolve, MovePins
  <2> QED BY <2>1, Committed DEF LockOK, LockBefore
<1>3. CASE PoetryLock /\ lock' # lock
  <2>1. lock' \in Locks
    BY <1>3 DEF PoetryLock
  <2> QED BY <2>1, LocksAssumption DEF LockOK, EntryShape
<1>4. CASE Restore
  <2> DEFINE r == RestoreIndexUrl(lock)
  <2>1. /\ r = [package |-> r.package, rest |-> r.rest, hash |-> r.hash]
        /\ \A i \in DOMAIN r.package : EntryShape(r.package[i])
    BY RestoredShape
  <2>2. lock' = [r EXCEPT !.hash = manifest'] \/ lock' = r
    BY <1>4 DEF Restore
  <2> HIDE DEF r
  <2>3. lock' = [package |-> r.package, rest |-> r.rest, hash |-> lock'.hash]
    BY <2>1, <2>2
  <2> QED BY <2>1, <2>3 DEF LockOK, EntryShape
<1> QED BY <1>1, <1>2, <1>3, <1>4
  DEF Next, Step, Plan, PublishAtomically, RecordDigest, CleanupFails, FetchPage, Transfer, UploadBundle,
      PointAtMirror, Verify, BuildEvidence, Die, Rerun, Republish, vars, jobv

\* Resolve moves the pins of its own checkout and only ever repoints the source.
LEMMA ManifestKeeps ==
  ASSUME ManifestOK, [Next]_vars
  PROVE  ManifestOK'
<1> SUFFICES ASSUME at' \in {"mirror", "lock", "restore", "check"} PROVE ManifestOK'
  BY DEF ManifestOK
<1>1. Moved' = Moved
  BY DEF Next, Step, Rerun, Republish, vars, Moved, ReplaceDependencyVersion, ReplaceKernelVersion, Delta,
         ParseDependencyDelta, InputProblems, LockBefore
<1>2. CASE CheckoutToResolve
  <2>1. manifest' = Moved
    BY <1>2 DEF CheckoutToResolve, MovePins
  <2> QED BY <1>1, <2>1, MovedPins DEF ManifestOK
<1>3. CASE PointAtMirror \/ Restore
  <2>1. at \in {"mirror", "restore"} /\ \E x : manifest' = [manifest EXCEPT !.source = x]
    BY <1>3 DEF PointAtMirror, Restore
  <2> QED BY <1>1, <2>1 DEF ManifestOK
<1>4. CASE UNCHANGED manifest /\ at \in {"mirror", "lock", "restore", "check"}
  BY <1>1, <1>4 DEF ManifestOK
<1> QED BY <1>2, <1>3, <1>4
  DEF Next, Step, CheckoutToAcquire, MovePins, Plan, PublishAtomically, RecordDigest, CleanupFails, FetchPage,
      Transfer, UploadBundle, PoetryLock, Verify, BuildEvidence, Die, Rerun, Republish, vars, jobv

\* A digest is recorded of the bytes that were published, page by page.
LEMMA WorkKeeps ==
  ASSUME WorkOK, [Next]_vars
  PROVE  WorkOK'
<1> SUFFICES ASSUME at' \in {"plan", "fetch"} PROVE WorkOK'
  BY DEF WorkOK
<1>1. CASE CheckoutToAcquire
  BY <1>1 DEF CheckoutToAcquire, WorkOK, Recorded, Wheels, Empty
<1>2. CASE UNCHANGED <<pages, staging, files, digests>> /\ at \in {"plan", "fetch"}
  BY <1>2 DEF WorkOK, Recorded, Wheels
<1>3. ASSUME NEW p \in Private, FetchPage(p) PROVE WorkOK'
  BY <1>3 DEF FetchPage, Offered, WheelOnly, WorkOK, Recorded, Wheels, Extended
<1>4. ASSUME NEW p \in Private, NEW k \in Kinds, Transfer(p, k) PROVE WorkOK'
  <2>1. /\ at = "fetch" /\ staging = None /\ staging' = [name |-> Name(p, k), bytes |-> index[Name(p, k)]]
        /\ Name(p, k) \notin DOMAIN digests /\ UNCHANGED <<pages, files, digests>>
    BY <1>4 DEF Transfer
  <2>2. staging'.name = Name(p, k)
    BY <2>1
  <2>3. Name(p, k) \notin DOMAIN files /\ DOMAIN files \subseteq DOMAIN digests
    BY <2>1 DEF WorkOK
  <2>4. (Recorded(files, digests) /\ Wheels(pages))'
    BY <2>1 DEF WorkOK, Recorded, Wheels
  <2> HIDE DEF Name
  <2> QED BY <2>1, <2>2, <2>3, <2>4 DEF WorkOK
<1>5. CASE PublishAtomically
  BY <1>5 DEF PublishAtomically, WorkOK, Recorded, Wheels, Extended
<1>6. CASE RecordDigest
  BY <1>6 DEF RecordDigest, WorkOK, Recorded, Wheels, Extended
<1> QED BY <1>1, <1>2, <1>3, <1>4, <1>5, <1>6
  DEF Next, Step, Plan, CleanupFails, UploadBundle, CheckoutToResolve, MovePins, PointAtMirror, PoetryLock,
      Restore, Verify, BuildEvidence, Die, Rerun, Republish, vars, jobv

\* The dispatch does not change, and so neither does what it declares.
LEMMA SameDelta == ask' = ask => Delta' = Delta
BY DEF Delta, ParseDependencyDelta, InputProblems

\* A bundle is uploaded once, in its attempt, and its pair after it.
LEMMA UploadsKeep ==
  ASSUME ManifestOK, WorkOK, UploadsOK, [Next]_vars
  PROVE  UploadsOK'
<1> USE DEF Acquiring, Resolving
<1>1. CASE UploadBundle /\ UNCHANGED <<ask, attempt>>
  <2> DEFINE new == [pages |-> pages, files |-> files, digests |-> digests]
  <2>1. /\ bundles' = [bundles EXCEPT ![attempt] = new] /\ UNCHANGED pairs
        /\ at = "fetch" /\ at' = "resolve" /\ DOMAIN pages = Private
    BY <1>1 DEF UploadBundle
  <2>2. BundleOK(new)
    BY <2>1 DEF WorkOK, BundleOK
  <2> HIDE DEF new
  <2>3. pairs[attempt] = None /\ attempt \in Attempts
    BY <2>1 DEF UploadsOK
  <2>4. \A a \in Attempts : bundles'[a] = IF a = attempt THEN new ELSE bundles[a]
    BY <2>1 DEF UploadsOK
  <2>5. \A a \in Attempts : pairs'[a] # None => a # attempt /\ bundles'[a] = bundles[a]
    BY <2>1, <2>3, <2>4
  <2>6. \A a \in Attempts : pairs'[a] # None => /\ HashesHold(pairs[a].lock, bundles[a])'
                                                /\ Answers(pairs[a].lock, pairs[a].manifest.pin, bundles[a])'
    <3>1. \A a \in Attempts : pairs'[a] # None => /\ HashesHold(pairs'[a].lock, bundles'[a])
                                                  /\ Answers(pairs'[a].lock, pairs'[a].manifest.pin, bundles'[a])
      BY <2>1, <2>5 DEF UploadsOK
    <3> QED BY <1>1, <3>1, SameDelta DEF HashesHold, Answers, Sole, LinesOf, LockedDependencies, MetadataDependencies
  <2>7. \A a \in Attempts : bundles'[a] # None => BundleOK(bundles'[a])
    BY <2>2, <2>4 DEF UploadsOK
  <2>8. \A a \in Attempts : a > attempt' => bundles'[a] = None /\ pairs'[a] = None
    BY <1>1, <2>1, <2>3, <2>4 DEF UploadsOK, Attempts
  <2> QED BY <1>1, <2>1, <2>3, <2>6, <2>7, <2>8 DEF UploadsOK, BundleOK, Recorded, Wheels
<1>2. CASE Verify /\ UNCHANGED <<ask, attempt>> /\ pairs' # pairs
  <2> DEFINE new == [manifest |-> manifest, lock |-> lock]
  <2>1. /\ pairs' = [pairs EXCEPT ![attempt] = new] /\ UNCHANGED bundles /\ Clean(lock)
        /\ at = "check" /\ at' = "attest"
    BY <1>2 DEF Verify
  <2>2. attempt \in Attempts /\ bundles[attempt] # None /\ BundleOK(Bundle)
    BY <2>1 DEF UploadsOK, Bundle
  <2>3. HashesHold(lock, Bundle) /\ Answers(lock, manifest.pin, Bundle)
    BY <2>1, <2>2, CleanHolds DEF ManifestOK
  <2>4. new.lock = lock /\ new.manifest = manifest
    OBVIOUS
  <2> HIDE DEF new
  <2>5. \A a \in Attempts : pairs'[a] = IF a = attempt THEN new ELSE pairs[a]
    BY <2>1 DEF UploadsOK
  <2>6. \A a \in Attempts : pairs'[a] # None => /\ HashesHold(pairs'[a].lock, bundles[a])
                                                /\ Answers(pairs'[a].lock, pairs'[a].manifest.pin, bundles[a])
    BY <2>2, <2>3, <2>4, <2>5 DEF UploadsOK, Bundle
  <2>7. \A a \in Attempts : pairs'[a] # None => /\ HashesHold(pairs[a].lock, bundles[a])'
                                                /\ Answers(pairs[a].lock, pairs[a].manifest.pin, bundles[a])'
    BY <1>2, <2>1, <2>6, SameDelta DEF HashesHold, Answers, Sole, LinesOf, LockedDependencies, MetadataDependencies
  <2>8. \A a \in Attempts : /\ bundles'[a] # None => BundleOK(bundles'[a])
                            /\ a > attempt' => bundles'[a] = None /\ pairs'[a] = None
    BY <1>2, <2>1, <2>2, <2>5 DEF UploadsOK, Attempts
  <2> QED BY <1>2, <2>1, <2>2, <2>7, <2>8 DEF UploadsOK, BundleOK, Recorded, Wheels
<1>3. CASE UNCHANGED <<ask, bundles, pairs>>
  <2> DEFINE Ordered == /\ attempt' \in Attempts
                        /\ \A a \in Attempts : a > attempt' => a > attempt
                        /\ at' \in Acquiring => bundles[attempt'] = None
                        /\ at' \in Acquiring \cup Resolving => pairs[attempt'] = None
                        /\ at' \in {"lock", "restore", "check"} => bundles[attempt'] # None
  <2> SUFFICES Ordered
    <3>1. ASSUME Ordered PROVE UploadsOK'
      <4>1. \A a \in Attempts : pairs'[a] # None => /\ HashesHold(pairs[a].lock, bundles[a])
                                                    /\ Answers(pairs[a].lock, pairs[a].manifest.pin, bundles[a])
        BY <1>3 DEF UploadsOK
      <4>2. \A a \in Attempts : pairs'[a] # None => /\ HashesHold(pairs[a].lock, bundles[a])'
                                                    /\ Answers(pairs[a].lock, pairs[a].manifest.pin, bundles[a])'
        BY <1>3, <4>1, SameDelta DEF HashesHold, Answers, Sole, LinesOf, LockedDependencies, MetadataDependencies
      <4>3. \A a \in Attempts : /\ bundles'[a] # None => BundleOK(bundles[a])'
                                /\ a > attempt' => bundles'[a] = None /\ pairs'[a] = None
        BY <1>3, <3>1 DEF UploadsOK, BundleOK, Recorded, Wheels
      <4> QED BY <1>3, <3>1, <4>2, <4>3 DEF UploadsOK
    <3> QED BY <3>1
  <2>1. ASSUME NEW job \in {"acquire", "resolve", "attest"}, Rerun(job) PROVE Ordered
    BY <2>1, AttemptsAssumption DEF Rerun, UploadsOK, Attempts
  <2>2. CASE Step
    <3>1. attempt' = attempt /\ attempt \in Attempts
      BY <2>2 DEF Step, UploadsOK
    <3>2. at' \in Acquiring => at \in Acquiring
      BY <2>2 DEF Step, CheckoutToAcquire, MovePins, Plan, PublishAtomically, RecordDigest, CleanupFails,
                  FetchPage, Transfer, UploadBundle, CheckoutToResolve, PointAtMirror, PoetryLock, Restore,
                  Verify, BuildEvidence, Die
    <3>3. at' \in Resolving => at \in Acquiring \cup Resolving
      BY <2>2 DEF Step, CheckoutToAcquire, MovePins, Plan, PublishAtomically, RecordDigest, CleanupFails,
                  FetchPage, Transfer, UploadBundle, CheckoutToResolve, PointAtMirror, PoetryLock, Restore,
                  Verify, BuildEvidence, Die
    <3>4. at' \in {"lock", "restore", "check"} => at \in {"lock", "restore", "check"} \/ bundles[attempt] # None
      BY <2>2 DEF Step, CheckoutToAcquire, MovePins, Plan, PublishAtomically, RecordDigest, CleanupFails,
                  FetchPage, Transfer, UploadBundle, CheckoutToResolve, PointAtMirror, PoetryLock, Restore,
                  Verify, BuildEvidence, Die, Bundle
    <3> QED BY <3>1, <3>2, <3>3, <3>4 DEF UploadsOK
  <2>3. CASE UNCHANGED <<attempt, at>>
    BY <2>3 DEF UploadsOK
  <2> QED BY <2>1, <2>2, <2>3 DEF Next, Republish, vars
<1> QED BY <1>1, <1>2, <1>3
  DEF Next, Step, CheckoutToAcquire, Plan, PublishAtomically, RecordDigest, CleanupFails, FetchPage, Transfer,
      CheckoutToResolve, PointAtMirror, PoetryLock, Restore, Verify, BuildEvidence, Die, Rerun, Republish, vars,
      upv

\* A pair that was released is not written again.
LEMMA ReleaseKeeps ==
  ASSUME UploadsOK, ReleaseOK, [Next]_vars
  PROVE  ReleaseOK'
<1>1. CASE UNCHANGED <<pairs, released>>
  BY <1>1 DEF ReleaseOK
<1>2. CASE Verify /\ UNCHANGED released
  <2>1. at = "check"
    BY <1>2 DEF Verify
  <2>2. pairs[attempt] = None
    BY <2>1 DEF UploadsOK, Resolving
  <2>3. \A a \in Attempts : a # attempt => pairs'[a] = pairs[a]
    BY <1>2 DEF Verify, UploadsOK
  <2> QED BY <1>2, <2>2, <2>3 DEF ReleaseOK
<1>3. CASE BuildEvidence /\ UNCHANGED attempt
  <2>1. CASE UNCHANGED released
    BY <1>3, <2>1 DEF BuildEvidence, ReleaseOK
  <2>2. CASE released' = [pair |-> pairs[attempt], by |-> attempt] /\ pairs[attempt] # None
    BY <1>3, <2>2 DEF BuildEvidence, ReleaseOK, UploadsOK
  <2> QED BY <1>3, <2>1, <2>2 DEF BuildEvidence, PairBinding
<1> QED BY <1>1, <1>2, <1>3
  DEF Next, Step, CheckoutToAcquire, Plan, PublishAtomically, RecordDigest, CleanupFails, FetchPage, Transfer,
      UploadBundle, CheckoutToResolve, PointAtMirror, PoetryLock, Restore, Verify, Die, Rerun, Republish, vars, upv

LEMMA Always == Spec => []IInv
<1>1. IInv /\ [Next]_vars => IInv'
  BY LockKeeps, ManifestKeeps, WorkKeeps, UploadsKeep, ReleaseKeeps DEF IInv
<1> QED BY <1>1, Initially, PTL DEF Spec

-----------------------------------------------------------------------------
(* Theorems.                                                                *)

\* Every hash a released lock records for a private file is of the bytes its own
\* attempt downloaded, for any number of republications and attempts
\* (hash_problems, fetch, the publication under a private name).
THEOREM HashesAreBytes == Spec => []ReleasedHashesAreBytes
<1>1. IInv => ReleasedHashesAreBytes
  BY DEF IInv, ReleaseOK, UploadsOK, HashesHold, ReleasedHashesAreBytes
<1> QED BY <1>1, Always, PTL

\* Whatever Poetry wrote, of any number of packages and attempts, a released
\* lock has one entry for each package that was locked and for no other, the
\* private ones at the manifest's pins, and the declared module's constraints
\* are its wheel's own (drift_problems, metadata_binding_problems).
THEOREM ReleasedLockAnswers == Spec => []LockAnswersForManifest
<1>1. IInv => LockAnswersForManifest
  <2> SUFFICES ASSUME IInv, released # None PROVE LockAnswersForManifest
    BY DEF LockAnswersForManifest
  <2>1. Answers(released.pair.lock, released.pair.manifest.pin, bundles[released.by])
    BY DEF IInv, ReleaseOK, UploadsOK
  <2> QED BY <2>1 DEF Answers, LockAnswersForManifest
<1> QED BY <1>1, Always, PTL

\* Poetry never runs against a private release that offers it no wheel
\* (wheel_only_problems).
THEOREM WheelsOnly == Spec => []NothingPrivateIsBuilt
<1>1. IInv => NothingPrivateIsBuilt
  BY DEF IInv, UploadsOK, BundleOK, Wheels, NothingPrivateIsBuilt, Bundle
<1> QED BY <1>1, Always, PTL
=============================================================================
