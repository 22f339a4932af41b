---------------------------- MODULE MCKernelLock ----------------------------
(***************************************************************************)
(* TLC instance of KernelLock: one declarable module, one public package,  *)
(* and the locks that Poetry may write for them, honest or odd in one way. *)
(***************************************************************************)
EXTENDS KernelLock, TLC

CONSTANTS k, m, u, stranger, b0, b1, bu, bm, bc, bt

\* Two spellings of one project; b1 requires another version of it, bc under a
\* marker, bt twice.
Need(name, spec, conditional) == [name |-> name, spec |-> spec, conditional |-> conditional]
MCNormalised == [n \in {"x-y", "x_y"} |-> "x-y"]
MCRequiresDist == [b \in {b0, b1, bu, bm, bc, bt} |->
  IF b = b1 THEN {Need("x_y", 2, FALSE)}
  ELSE IF b = bc THEN {Need("x-y", 1, TRUE)}
  ELSE IF b = bt THEN {Need("x-y", 1, FALSE), Need("x_y", 2, FALSE)}
  ELSE {Need("x-y", 1, FALSE)}]

\* The hashes of a release as it was, or with one file republished.
Hashes(p, v, wheel, sdist) == (<<p, v, "wheel">> :> wheel) @@ (<<p, v, "sdist">> :> sdist)
HashSets(p, v) == {Hashes(p, v, b0, b0), Hashes(p, v, b1, b0), Hashes(p, v, b0, b1)}

Was(p) == Entry(p, "old", Hashes(p, "old", b0, b0), MCRequiresDist[b0],
                IF p = u THEN "public" ELSE "mirror", "same")

KernelEntries == {Was(k)} \cup {[Was(k) EXCEPT !.ver = "new", !.files = f] : f \in HashSets(k, "new")}
ModuleEntries ==
  {Was(m), [Was(m) EXCEPT !.ver = "new", !.files = <<m, "new", "wheel">> :> b0]}
  \cup {[Was(m) EXCEPT !.ver = "new", !.files = f, !.deps = MCRequiresDist[f[<<m, "new", "wheel">>]]] :
          f \in HashSets(m, "new") \cup {Hashes(m, "new", bu, b0), Hashes(m, "new", bm, b0),
                                         Hashes(m, "new", bc, b0), Hashes(m, "new", bt, b0)}}

Written(ek, em, eu) == (k :> ek) @@ (m :> em) @@ (u :> eu)
Lock(entries) == [package |-> entries, rest |-> "same", hash |-> "mirror"]
Honest == {Lock(Written(ek, em, Was(u))) : ek \in KernelEntries, em \in ModuleEntries}

\* Where an entry may differ from the one that was asked for.
OddEntries(e) ==
  {[e EXCEPT !.rest = "changed"], [e EXCEPT !.source = "public"], [e EXCEPT !.ver = "new"],
   [e EXCEPT !.files = Empty], [e EXCEPT !.deps = {}], [e EXCEPT !.deps = MCRequiresDist[b1]],
   [e EXCEPT !.deps = MCRequiresDist[bc]], [e EXCEPT !.deps = {Need("x_y", 1, FALSE)}]}

Odd(l) ==
  UNION {{[l EXCEPT !.package[p] = e] : e \in OddEntries(l.package[p])} : p \in {k, m, u}}
  \cup {[l EXCEPT !.package = Restrict(@, DOMAIN @ \ {p})] : p \in {k, m, u}}
  \cup {[l EXCEPT !.package = Extended(@, "again", @[p])] : p \in {k, m, u}}
  \cup {[l EXCEPT !.package = Extended(@, "again", [@[p] EXCEPT !.ver = "other"])] : p \in {k, m, u}}
  \cup {[l EXCEPT !.package = Extended(@, stranger, [@[u] EXCEPT !.name = stranger])],
        [l EXCEPT !.rest = "changed"], [l EXCEPT !.hash = None], [l EXCEPT !.package = Empty]}

MovedEntry(p) == [Was(p) EXCEPT !.ver = "new", !.files = Hashes(p, "new", b0, b0)]
MCLocks == Honest \cup UNION {Odd(l) : l \in {Lock(Written(MovedEntry(k), Was(m), Was(u))),
                                              Lock(Written(MovedEntry(k), MovedEntry(m), Was(u)))}}

\* A flawed tree is explored under the two usual dispatches.
Usual == {[kernel |-> "new", dependency |-> "", from |-> "", to |-> ""],
          [kernel |-> "new", dependency |-> m, from |-> "old", to |-> "new"]}
MCInit == Init /\ (flaw = "none" \/ ask \in Usual)

MCSpec == MCInit /\ [][Next]_vars

=============================================================================
