------------------------- MODULE SecretRotationProofs -------------------------
(***************************************************************************)
(* Proofs about SecretRotation for every set of material, every number of  *)
(* stops and edits, and every choice of mishaps.                           *)
(*                                                                         *)
(* FileInv ties each step of the coordinator to what its files then say;   *)
(* RecordInv fixes where a candidate may lie in a record's history, one    *)
(* version after the prior one and nowhere else; HostInv follows the host  *)
(* through the adapter's steps, relative to the payload it applies.        *)
(*                                                                         *)
(* HostEnvironment puts the other writers of .env beside the rotation:     *)
(* WriterInv ties each of them to the lock, the line it read and the       *)
(* password the database accepts.                                          *)
(***************************************************************************)
EXTENDS HostEnvironment, FiniteSetTheorems, TLAPS

RolledBack == {"rb_committed", "rolled_back"}
Ended      == {"proved", "rb_database_written"} \cup RolledBack
Committed  == {"committed"} \cup Ended

FileInv ==
  /\ minted = IF candidate = None THEN {} ELSE {candidate}
  /\ custody = "held" \/ phase # "none" => candidate # None
  /\ candidate # None /\ custody # "held" => phase \in Ended
  /\ candidate # None => \A p \in Paths : base[p] # 0
  /\ pc \in {"read", "custody"} => candidate = None /\ custody = "none" /\ cmd = "rotate"
  /\ pc = "custody" \/ (pc = "read" /\ path = "runtime") => base["database"] # 0
  /\ pc = "custody" => base["runtime"] # 0 /\ path = "database"
  /\ pc = "receipt" => custody = "held" /\ phase = "none" /\ cmd = "rotate" /\ path = "database"
  /\ pc = "unlink" => phase = "proved"

PhaseInv ==
  /\ pc \in {"put", "record"} /\ cmd = "rotate" =>
       /\ custody = "held"
       /\ phase \in IF path = "runtime" THEN {"database_written"}
                    ELSE {"prepared", "database_written", "committed", "rb_database_written"}
  /\ pc = "record" /\ cmd = "rotate" => phase # "rb_database_written"
  /\ pc \in {"put", "record"} /\ cmd = "rollback" =>
       phase \in IF path = "runtime" THEN {"rb_database_written"}
                 ELSE {"committed", "proved", "rb_database_written"}
  /\ pc \in {"send", "wait"} =>
       IF cmd = "rotate" THEN custody = "held" /\ phase \in Handed \cup {"committed"}
                         ELSE phase = "rb_committed"

RecordInv ==
  /\ \A p \in Paths :
       /\ Len(bao[p]) >= 1
       /\ \A v \in 1..Len(bao[p]) :
            bao[p][v] \in Fresh => bao[p][v] = candidate /\ v = base[p] + 1
       /\ cand[p] # 0 => cand[p] = base[p] + 1 /\ bao[p][cand[p]] = candidate /\ candidate # None
       /\ roll[p] # 0 => roll[p] = base[p] + 2 /\ candidate # None
  /\ phase \in {"database_written"} \cup Committed => cand["database"] # 0
  /\ phase \in Committed => cand["runtime"] # 0
  /\ phase \in {"rb_database_written"} \cup RolledBack => roll["database"] # 0
  /\ pc = "record" => IF cmd = "rotate" THEN got = base[path] + 1 /\ bao[path][got] = candidate
                                        ELSE got = base[path] + 2

AllAt(m)     == db = m /\ env = Both(m) /\ app = Both(m)
NewMaterial  == IF job = "rotate" THEN candidate ELSE Old
GoneMaterial == IF job = "rotate" THEN Old ELSE candidate
Bound        == candidate # None /\ \A p \in Paths : cand[p] # 0

AdapterInv ==
  /\ at = "admit" => Bound
  /\ at \in {"prestate", "receipt"} => target = "none" /\ job = "rotate"
  /\ at = "alter" => AllAt(GoneMaterial) /\ target = "prepared"
  /\ at \in {"alter-receipt", "environment"} =>
       /\ db = NewMaterial /\ env = Both(GoneMaterial) /\ app = Both(GoneMaterial)
       /\ target \in {"prepared", "database"}
  /\ at \in {"environment-receipt", "recreate"} =>
       /\ db = NewMaterial /\ env = Both(NewMaterial) /\ app = Both(GoneMaterial)
       /\ target \in {"prepared", "database", "environment"}
  /\ at = "recreate-receipt" =>
       AllAt(NewMaterial) /\ target \in {"prepared", "database", "environment"}
  /\ at = "prove" =>
       AllAt(NewMaterial) /\ target \in {"prepared", "database", "environment", "recreated"}
  /\ at = "clean" => target = "proved"
  /\ at = "classify" => target # "none"

HostInv ==
  /\ job = "rollback" => phase \in RolledBack
  /\ target = "none" => AllAt(Old)
  /\ target # "none" \/ at \in {"prestate", "receipt"} => Bound /\ Prior = Both(Old)
  /\ db \in {Old, candidate}
  /\ env \in {Both(Old), Both(candidate)}
  /\ app \in {None, Both(Old), Both(candidate)}
  /\ reply \in {"fresh", "historical"} => target = "proved"
  /\ target = "proved" /\ phase \notin RolledBack => AllAt(candidate)
  /\ phase = "proved" => target = "proved"
  /\ ReceiptNeverAhead

IInv == TypeOK /\ FileInv /\ PhaseInv /\ RecordInv /\ AdapterInv /\ HostInv

-----------------------------------------------------------------------------
(* Histories.                                                              *)

\* Every version a record had keeps its contents
History ==
  \A q \in Paths : /\ Len(bao'[q]) >= Len(bao[q])
                   /\ \A v \in 1..Len(bao[q]) : bao'[q][v] = bao[q][v]

\* Appending a version, by a compare-and-set or by somebody else, keeps the
\* history and the type of the records.
LEMMA AppendRecord ==
  ASSUME NEW p \in Paths, NEW m \in Material, bao \in [Paths -> Seq(Material)],
         bao' = [bao EXCEPT ![p] = Append(@, m)]
  PROVE  /\ bao' \in [Paths -> Seq(Material)]
         /\ Len(bao'[p]) = Len(bao[p]) + 1
         /\ bao'[p][Len(bao[p]) + 1] = m
         /\ \A q \in Paths : q # p => bao'[q] = bao[q]
         /\ History
  <1>1. bao'[p] = Append(bao[p], m) /\ bao[p] \in Seq(Material)
    OBVIOUS
  <1>2. \A q \in Paths : q # p => bao'[q] = bao[q]
    OBVIOUS
  <1>3. /\ Len(bao'[p]) = Len(bao[p]) + 1
        /\ bao'[p][Len(bao[p]) + 1] = m
        /\ \A v \in 1..Len(bao[p]) : bao'[p][v] = bao[p][v]
        /\ bao'[p] \in Seq(Material)
    BY <1>1
  <1>4. \A q \in Paths : Len(bao[q]) \in Nat
    OBVIOUS
  <1> QED
    BY <1>1, <1>2, <1>3, <1>4 DEF History

\* What _ensure_candidate_record or _ensure_restored_record did to its record:
\* nothing, or one version after the one it had to find.
LEMMA PutEffect ==
  ASSUME IInv, Put
  PROVE  /\ Wanted(path) \in Material
         /\ \/ bao' = bao
            \/ /\ bao' = [bao EXCEPT ![path] = Append(@, Wanted(path))]
               /\ Len(bao[path]) = IF cmd = "rotate" THEN base[path] ELSE base[path] + 1
         /\ bao' \in [Paths -> Seq(Material)]
         /\ History
         /\ pc' = "record" =>
              /\ got' \in 1..Len(bao'[path])
              /\ IF cmd = "rotate"
                 THEN /\ got' = base[path] + 1 /\ bao'[path][got'] = candidate
                      /\ phase # "rb_database_written"
                 ELSE got' = base[path] + 2
  <1> USE DEF IInv
  <1>0. /\ path \in Paths /\ pc = "put" /\ cmd \in {"rotate", "rollback"}
        /\ bao \in [Paths -> Seq(Material)] /\ candidate # None
        /\ base[path] \in 1..Len(bao[path]) /\ Len(bao[path]) \in Nat
        /\ cmd = "rollback" => cand[path] = base[path] + 1 /\ cand[path] <= Len(bao[path])
        /\ bao[path][base[path]] \in Material
        /\ candidate \in Material
    BY DEF Put, TypeOK, FileInv, PhaseInv, RecordInv, Commands, Paths, Ended, RolledBack,
           Committed, Material
  <1>1. Wanted(path) = IF cmd = "rotate" THEN candidate ELSE bao[path][base[path]]
    BY <1>0 DEF Wanted, Prior
  <1>2. Wanted(path) \in Material
    BY <1>0, <1>1
  <1>3. bao[path][base[path]] \notin Fresh
    BY <1>0 DEF RecordInv
  <1>4. CASE Current(path) = Wanted(path)
    <2>1. bao' = bao
      BY <1>4 DEF Put
    <2>2. CASE AlreadyPut(path)
      <3>1. got' = Len(bao[path])
        BY <1>4, <2>2, <1>0 DEF Put
      <3>2. cmd = "rotate" => Len(bao[path]) = base[path] + 1 /\ bao[path][Len(bao[path])] = candidate
        BY <1>0, <1>1, <1>4 DEF Current, RecordInv, TypeOK, Material
      <3>3. cmd = "rotate" => phase # "rb_database_written"
        <4>1. phase = "rb_database_written" /\ cmd = "rotate" => path = "database"
          BY <1>0 DEF PhaseInv, Paths
        <4>2. phase = "rb_database_written" => roll["database"] = base["database"] + 2
          BY DEF RecordInv, Paths
        <4>3. roll["database"] <= Len(bao["database"])
          BY DEF TypeOK, Paths
        <4> QED
          BY <1>0, <3>2, <4>1, <4>2, <4>3
      <3>4. cmd = "rollback" => Len(bao[path]) = base[path] + 2
        BY <1>0, <2>2 DEF AlreadyPut, Known, From, RecordInv, Paths
      <3> QED
        BY <1>0, <1>2, <2>1, <3>1, <3>2, <3>3, <3>4 DEF History
    <2>3. CASE ~AlreadyPut(path)
      BY <1>0, <1>2, <1>4, <2>1, <2>3 DEF Put, History
    <2> QED
      BY <2>2, <2>3
  <1>5. CASE Current(path) # Wanted(path) /\ Unmoved(path)
    <2>1. /\ bao' = [bao EXCEPT ![path] = Append(@, Wanted(path))]
          /\ got' = Len(bao[path]) + 1
      BY <1>5 DEF Put, NewVersion
    <2>2. Len(bao[path]) = IF cmd = "rotate" THEN base[path] ELSE base[path] + 1
      BY <1>0, <1>5 DEF Unmoved, From
    <2>3. /\ bao' \in [Paths -> Seq(Material)] /\ History
          /\ Len(bao'[path]) = Len(bao[path]) + 1
          /\ bao'[path][Len(bao[path]) + 1] = Wanted(path)
      BY <1>0, <1>2, <2>1, AppendRecord
    <2>4. cmd = "rotate" => phase # "rb_database_written"
      BY <1>0, <2>2 DEF RecordInv, PhaseInv, TypeOK, Paths
    <2> QED
      BY <1>0, <1>1, <1>2, <2>1, <2>2, <2>3, <2>4
  <1>6. CASE Current(path) # Wanted(path) /\ ~Unmoved(path)
    <2>1. bao' = bao /\ pc' = "idle"
      BY <1>6 DEF Put
    <2> QED
      BY <1>0, <1>2, <2>1 DEF History
  <1> QED
    BY <1>4, <1>5, <1>6

\* No step rewrites a version.
LEMMA HistoryStep ==
  ASSUME IInv, [Next]_vars
  PROVE  bao' \in [Paths -> Seq(Material)] /\ History
  <1>1. bao \in [Paths -> Seq(Material)]
    BY DEF IInv, TypeOK
  <1>2. bao' = bao => bao' \in [Paths -> Seq(Material)] /\ History
    <2> SUFFICES ASSUME bao' = bao PROVE History
      BY <1>1
    <2>1. \A q \in Paths : Len(bao[q]) \in Nat
      BY <1>1
    <2> QED
      BY <2>1 DEF History
  <1>3. CASE Put
    BY <1>3, PutEffect
  <1>4. ASSUME NEW p \in Paths, EditRecord(p) PROVE bao' \in [Paths -> Seq(Material)] /\ History
    <2>1. Foreign \in Material /\ bao' = [bao EXCEPT ![p] = Append(@, Foreign)]
      BY <1>4 DEF EditRecord, Material
    <2> QED
      BY <1>1, <2>1, AppendRecord
  <1>5. bao' = bao \/ Put \/ \E p \in Paths : EditRecord(p)
    BY DEF Next, CoordinatorStep, AdapterStep, vars, Outside, StartRotate, StartRollback, ReadPrior,
           WriteCustody, WriteReceipt, Record, Send, Complete, UnlinkCustody, CoordinatorStops,
           Admit, KeepPrestate, WriteTarget, Classify, AlterRoles, WriteEnvironment, RecreateApp,
           AdvanceTarget, Prove, RemovePrestate, AdapterStops, PoolDrops
  <1> QED
    BY <1>2, <1>3, <1>4, <1>5


\* The two parts of TypeOK: what the coordinator keeps, and the host's.
FileTypes ==
  /\ bao \in [Paths -> Seq(Material)] /\ edits \in 0..MaxEdits
  /\ custody \in {"none", "torn", "held"}
  /\ \A p \in Paths : {base[p], cand[p], roll[p]} \subseteq 0..Len(bao[p])
  /\ candidate \in Fresh \cup {None} /\ minted \subseteq Fresh
  /\ phase \in Phases /\ {base, cand, roll} \subseteq [Paths -> Nat]
  /\ pc \in CoordSteps /\ cmd \in Commands /\ path \in Paths
  /\ got \in Nat /\ (pc = "record" => got \in 1..Len(bao[path]))
  /\ faults \in 0..MaxFaults

HostTypes ==
  /\ reply \in {"none", "failed", "fresh", "historical"}
  /\ db \in Material /\ env \in Sets /\ app \in Sets \cup {None}
  /\ target \in {"none", "prepared", "database", "environment", "recreated", "proved"}
  /\ at \in AdaptSteps /\ job \in Commands

Flags == linked \in BOOLEAN /\ plan \in BOOLEAN

\* TypeOK splits into the types of the files, of the host and of the flags.
LEMMA TypeParts == TypeOK <=> FileTypes /\ HostTypes /\ Flags
  <1>1. {Targets[i] : i \in 1..Len(Targets)} =
          {"none", "prepared", "database", "environment", "recreated", "proved"}
    BY DEF Targets
  <1> QED
    BY <1>1, Zenon DEF TypeOK, FileTypes, HostTypes, Flags

\* The adapter changes the host and nothing else, the others never the host.
LEMMA AdapterKeeps ==
  ASSUME AdapterStep \/ PoolDrops
  PROVE  UNCHANGED <<bao, edits, files, coord, faults>>
  BY DEF AdapterStep, Admit, KeepPrestate, WriteTarget, Classify, AlterRoles, WriteEnvironment,
         RecreateApp, AdvanceTarget, Prove, RemovePrestate, PoolDrops, Outside

\* Every other process leaves the host alone, and only a send starts the adapter.
LEMMA OthersKeepHost ==
  ASSUME StartRotate \/ StartRollback \/ CoordinatorStep \/ CoordinatorStops
           \/ (\E p \in Paths : EditRecord(p)) \/ UNCHANGED vars
  PROVE  UNCHANGED host /\ (Send \/ UNCHANGED adapt)
  BY DEF StartRotate, StartRollback, CoordinatorStep, ReadPrior, WriteCustody, WriteReceipt, Put,
         Record, Complete, UnlinkCustody, CoordinatorStops, EditRecord, vars, host, adapt, Send

\* Every step keeps the types of the records and of the coordinator's files.
LEMMA FileTypesStep ==
  ASSUME IInv, [Next]_vars
  PROVE  FileTypes'
  <1> USE DEF FileTypes, files, coord, CoordSteps, Commands, Phases, Paths
  <1>0. FileTypes /\ bao' \in [Paths -> Seq(Material)] /\ History
    BY HistoryStep, TypeParts DEF IInv
  <1>1. \A p \in Paths : Len(bao[p]) \in Nat /\ Len(bao'[p]) \in Nat /\ Len(bao'[p]) >= Len(bao[p])
    BY <1>0 DEF History
  <1>2. MaxFaults \in Nat /\ MaxEdits \in Nat
    BY BoundsAssumption
  <1>3. CASE StartRotate
    BY <1>0, <1>1, <1>3 DEF StartRotate, Both, Handed
  <1>4. CASE StartRollback
    BY <1>0, <1>1, <1>4 DEF StartRollback
  <1>5. CASE ReadPrior
    BY <1>0, <1>1, <1>5 DEF ReadPrior
  <1>6. CASE WriteCustody
    BY <1>0, <1>1, <1>6 DEF WriteCustody
  <1>7. CASE WriteReceipt
    BY <1>0, <1>1, <1>7 DEF WriteReceipt
  <1>8. CASE Put
    <2>1. got' \in Nat /\ (pc' = "record" => got' \in 1..Len(bao'[path])) /\ pc' \in CoordSteps
      BY <1>0, <1>1, <1>8, PutEffect DEF Put, NewVersion
    <2> QED
      BY <1>0, <1>1, <1>8, <2>1 DEF Put
  <1>9. CASE Record
    BY <1>0, <1>1, <1>9 DEF Record, RecordedPhase, WithVersion, AfterRecord
  <1>10. CASE Send \/ Complete \/ UnlinkCustody
    BY <1>0, <1>1, <1>10 DEF Send, Complete, UnlinkCustody
  <1>11. CASE CoordinatorStops
    BY <1>0, <1>1, <1>2, <1>11 DEF CoordinatorStops
  <1>12. CASE AdapterStep \/ PoolDrops
    BY <1>0, <1>1, <1>12, AdapterKeeps
  <1>13. CASE AdapterStops
    BY <1>0, <1>1, <1>2, <1>13 DEF AdapterStops
  <1>14. ASSUME NEW p \in Paths, EditRecord(p) PROVE FileTypes'
    BY <1>0, <1>1, <1>2, <1>14 DEF EditRecord
  <1>15. CASE UNCHANGED vars
    BY <1>0, <1>1, <1>15 DEF vars
  <1> QED
    BY <1>3, <1>4, <1>5, <1>6, <1>7, <1>8, <1>9, <1>10, <1>11, <1>12, <1>13, <1>14, <1>15
       DEF Next, CoordinatorStep

\* Every step keeps the types of the host and of the adapter.
LEMMA HostTypesStep ==
  ASSUME IInv, [Next]_vars
  PROVE  HostTypes'
  <1> USE DEF HostTypes, host, adapt, Exit, Go, AdaptSteps, Commands
  <1>0. HostTypes
    BY TypeParts DEF IInv
  <1>1. CASE StartRotate \/ StartRollback \/ CoordinatorStep \/ CoordinatorStops
               \/ (\E p \in Paths : EditRecord(p)) \/ UNCHANGED vars
    <2>1. CASE Send
      <3>1. cmd \in Commands
        BY DEF IInv, TypeOK
      <3> QED
        BY <1>0, <2>1, <3>1 DEF Send
    <2> QED
      BY <1>0, <1>1, <2>1, OthersKeepHost
  <1>2. CASE Admit \/ KeepPrestate \/ WriteTarget
    BY <1>0, <1>2 DEF Admit, KeepPrestate, WriteTarget
  <1>3. CASE Classify
    BY <1>0, <1>3 DEF Classify
  <1>4. CASE AlterRoles \/ WriteEnvironment
    <2>1. Bound
      BY <1>4 DEF AlterRoles, WriteEnvironment, IInv, HostInv, AdapterInv
    <2>2. candidate \in Material /\ \A p \in Paths : bao[p][base[p]] \in Material
      BY <2>1 DEF Bound, IInv, TypeOK, FileInv, Material
    <2>3. Desired \in Sets
      BY <2>2 DEF Desired, Both, Prior, Sets
    <2> QED
      BY <1>0, <1>4, <2>3 DEF AlterRoles, WriteEnvironment, Sets, Paths
  <1>5. CASE RecreateApp \/ AdvanceTarget
    BY <1>0, <1>5 DEF RecreateApp, Recreated, AdvanceTarget
  <1>6. CASE Prove \/ RemovePrestate
    BY <1>0, <1>6 DEF Prove, RemovePrestate
  <1>7. CASE AdapterStops \/ PoolDrops
    BY <1>0, <1>7 DEF AdapterStops, PoolDrops
  <1> QED
    BY <1>1, <1>2, <1>3, <1>4, <1>5, <1>6, <1>7 DEF Next, AdapterStep

\* Every step keeps the host's two flags Boolean.
LEMMA FlagsStep ==
  ASSUME IInv, [Next]_vars
  PROVE  Flags'
  <1>0. linked \in BOOLEAN /\ plan \in BOOLEAN
    BY Zenon DEF IInv, TypeOK
  <1>1. CASE StartRotate \/ StartRollback \/ CoordinatorStep \/ CoordinatorStops
               \/ (\E p \in Paths : EditRecord(p)) \/ UNCHANGED vars
    <2>1. linked' = linked /\ plan' = plan
      BY <1>1, OthersKeepHost, Zenon DEF host
    <2> QED
      BY <1>0, <2>1, Zenon DEF Flags
  <1>2. CASE AlterRoles
    <2>1. linked' \in BOOLEAN
      BY <1>2, Zenon DEF AlterRoles
    <2>2. plan' = plan
      BY <1>2, Zenon DEF AlterRoles
    <2> QED
      BY <1>0, <2>1, <2>2, Zenon DEF Flags
  <1>3. CASE Admit \/ KeepPrestate \/ WriteTarget \/ WriteEnvironment \/ AdvanceTarget
               \/ Prove \/ RemovePrestate \/ AdapterStops
    <2>1. linked' = linked /\ (plan' = plan \/ plan' = TRUE \/ plan' = FALSE)
      BY <1>3, Zenon DEF Admit, KeepPrestate, WriteTarget, WriteEnvironment, AdvanceTarget, Prove,
                         RemovePrestate, AdapterStops, host
    <2> QED
      BY <1>0, <2>1, Zenon DEF Flags
  <1>4. CASE Classify
    <2>1. linked' = linked /\ (plan' = plan \/ plan' = FALSE)
      BY <1>4, Zenon DEF Classify
    <2> QED
      BY <1>0, <2>1, Zenon DEF Flags
  <1>5. CASE RecreateApp \/ PoolDrops
    <2>1. (linked' = TRUE \/ linked' = FALSE) /\ plan' = plan
      BY <1>5, Zenon DEF RecreateApp, PoolDrops
    <2> QED
      BY <1>0, <2>1, Zenon DEF Flags
  <1> QED
    BY <1>1, <1>2, <1>3, <1>4, <1>5 DEF Next, AdapterStep

-----------------------------------------------------------------------------
(* The coordinator's files.                                                *)

\* What an adapter step, a stop of the adapter, an edit or a stuttering step
\* leaves alone.
LEMMA OthersKeepFiles ==
  ASSUME AdapterStep \/ PoolDrops \/ AdapterStops \/ (\E p \in Paths : EditRecord(p))
           \/ UNCHANGED vars
  PROVE  UNCHANGED <<files, coord>>
  BY AdapterKeeps DEF AdapterStops, EditRecord, vars, files, coord

\* Every step keeps the agreement of custody, receipt and coordinator.
LEMMA FileStep ==
  ASSUME IInv, [Next]_vars
  PROVE  FileInv'
  <1> USE DEF FileInv, Ended, RolledBack
  <1>0. FileInv /\ FileTypes
    BY TypeParts DEF IInv
  <1>1. CASE StartRotate
    BY <1>0, <1>1 DEF StartRotate, MayMint, Handed
  <1>2. CASE StartRollback
    BY <1>0, <1>2 DEF StartRollback, files
  <1>3. CASE ReadPrior
    <2>1. Len(bao[path]) # 0 /\ path \in Paths /\ base \in [Paths -> Nat]
      BY <1>0 DEF IInv, RecordInv, FileTypes
    <2> QED
      BY <1>0, <1>3, <2>1 DEF ReadPrior, Paths
  <1>4. CASE WriteCustody
    <2>1. PICK m \in Fresh \ minted : candidate' = m /\ minted' = minted \cup {m}
      BY <1>4 DEF WriteCustody
    <2>2. m # None /\ minted = {}
      BY <1>0, <1>4, MaterialAssumption DEF WriteCustody
    <2> QED
      BY <1>0, <1>4, <2>1, <2>2 DEF WriteCustody, Paths
  <1>5. CASE WriteReceipt
    BY <1>0, <1>5 DEF WriteReceipt
  <1>6. CASE Put
    BY <1>0, <1>6 DEF Put, files
  <1>7. CASE Record
    <2>1. candidate # None /\ (cmd = "rotate" => custody = "held")
      BY <1>0, <1>7 DEF Record, IInv, PhaseInv, FileTypes, Commands
    <2> QED
      BY <1>0, <1>7, <2>1 DEF Record, RecordedPhase, AfterRecord, FileTypes, Commands
  <1>8. CASE Send \/ Complete \/ UnlinkCustody
    BY <1>0, <1>8 DEF Send, Complete, UnlinkCustody, files
  <1>9. CASE CoordinatorStops
    BY <1>0, <1>9 DEF CoordinatorStops
  <1>10. CASE UNCHANGED <<files, coord>>
    BY <1>0, <1>10 DEF files, coord
  <1> QED
    BY <1>1, <1>2, <1>3, <1>4, <1>5, <1>6, <1>7, <1>8, <1>9, <1>10, OthersKeepFiles
       DEF Next, CoordinatorStep

\* Every step keeps the receipt in a phase its command may meet.
LEMMA PhaseStep ==
  ASSUME IInv, [Next]_vars
  PROVE  PhaseInv'
  <1> USE DEF PhaseInv, Handed
  <1>0. PhaseInv /\ FileInv /\ FileTypes
    BY TypeParts DEF IInv
  <1>1. CASE StartRotate
    <2>1. phase \in Phases /\ phase' = phase
      BY <1>0, <1>1 DEF FileTypes, StartRotate
    <2>2. custody' = custody /\ cmd' = "rotate" /\ path' = "database"
          /\ pc' \in {"read", "receipt", "send", "put"}
          /\ (pc' \in {"send", "put"} => custody = "held")
          /\ (pc' = "send" => phase \in Handed)
          /\ (pc' = "put" => phase # "none" /\ phase \notin Handed)
      BY <1>1 DEF StartRotate
    <2> QED
      BY <2>1, <2>2 DEF Phases
  <1>2. CASE StartRollback
    BY <1>0, <1>2 DEF StartRollback, files
  <1>3. CASE ReadPrior \/ WriteCustody
    BY <1>3 DEF ReadPrior, WriteCustody
  <1>4. CASE WriteReceipt
    BY <1>0, <1>4 DEF WriteReceipt, FileInv
  <1>5. CASE Put
    <2>1. pc' \in {"record", "idle"} /\ UNCHANGED <<cmd, path, custody, phase>>
      BY <1>5 DEF Put, files
    <2> QED
      BY <1>0, <1>5, <2>1, PutEffect DEF Put
  <1>6. CASE Record
    BY <1>0, <1>6 DEF Record, RecordedPhase, AfterRecord, FileTypes, Commands
  <1>7. CASE Send \/ Complete \/ UnlinkCustody
    BY <1>0, <1>7 DEF Send, Complete, UnlinkCustody, files
  <1>8. CASE CoordinatorStops
    BY <1>8 DEF CoordinatorStops
  <1>9. CASE UNCHANGED <<files, coord>>
    BY <1>0, <1>9 DEF files, coord
  <1> QED
    BY <1>1, <1>2, <1>3, <1>4, <1>5, <1>6, <1>7, <1>8, <1>9, OthersKeepFiles
       DEF Next, CoordinatorStep

-----------------------------------------------------------------------------
(* The two records.                                                        *)

\* The part of RecordInv about one record's history, and the part about what
\* the files say of it.
RecordOf(p) ==
  /\ Len(bao[p]) >= 1
  /\ \A v \in 1..Len(bao[p]) : bao[p][v] \in Fresh => bao[p][v] = candidate /\ v = base[p] + 1
  /\ cand[p] # 0 => cand[p] = base[p] + 1 /\ bao[p][cand[p]] = candidate /\ candidate # None
  /\ roll[p] # 0 => roll[p] = base[p] + 2 /\ candidate # None

RecordPhases ==
  /\ phase \in {"database_written"} \cup Committed => cand["database"] # 0
  /\ phase \in Committed => cand["runtime"] # 0
  /\ phase \in {"rb_database_written"} \cup RolledBack => roll["database"] # 0

RecordPending ==
  pc = "record" => IF cmd = "rotate" THEN got = base[path] + 1 /\ bao[path][got] = candidate
                                     ELSE got = base[path] + 2

\* RecordInv splits by record.
LEMMA RecordParts == RecordInv <=> (\A p \in Paths : RecordOf(p)) /\ RecordPhases /\ RecordPending
  BY DEF RecordInv, RecordOf, RecordPhases, RecordPending

\* A record whose history grew, with the files as they were, is as it was.
LEMMA RecordGrows ==
  ASSUME IInv, FileTypes', History, NEW p \in Paths, UNCHANGED <<base, cand, roll, candidate>>,
         \A v \in (Len(bao[p]) + 1)..Len(bao'[p]) :
            bao'[p][v] \in Fresh => bao'[p][v] = candidate /\ v = base[p] + 1
  PROVE  RecordOf(p)'
  <1>1. RecordOf(p) /\ FileTypes
    BY RecordParts, TypeParts DEF IInv
  <1>a. bao \in [Paths -> Seq(Material)] /\ bao' \in [Paths -> Seq(Material)]
    BY <1>1 DEF FileTypes
  <1>b. Len(bao[p]) \in Nat /\ Len(bao'[p]) \in Nat
    BY <1>a
  <1>2. /\ Len(bao[p]) \in Nat /\ Len(bao'[p]) \in Nat /\ Len(bao'[p]) >= Len(bao[p])
        /\ \A v \in 1..Len(bao[p]) : bao'[p][v] = bao[p][v]
        /\ base[p] \in Nat /\ cand[p] \in 0..Len(bao[p])
    BY <1>1, <1>b DEF FileTypes, History
  <1>3. \A v \in 1..Len(bao'[p]) : bao'[p][v] \in Fresh => bao'[p][v] = candidate /\ v = base[p] + 1
    BY <1>1, <1>2 DEF RecordOf
  <1> QED
    BY <1>1, <1>2, <1>3 DEF RecordOf

\* Every step keeps a candidate one version after the prior one.
LEMMA RecordStep ==
  ASSUME IInv, [Next]_vars
  PROVE  RecordInv'
  <1> USE DEF Committed, Ended, RolledBack
  <1>0. /\ FileTypes /\ FileInv /\ PhaseInv /\ RecordPhases /\ RecordPending
        /\ \A p \in Paths : RecordOf(p)
        /\ FileTypes' /\ History
    BY RecordParts, TypeParts, FileTypesStep, HistoryStep DEF IInv
  <1>g. bao \in [Paths -> Seq(Material)] /\ bao' \in [Paths -> Seq(Material)]
    BY <1>0 DEF FileTypes
  <1>h. \A p \in Paths : Len(bao[p]) \in Nat /\ Len(bao'[p]) \in Nat
    BY <1>g
  <1> SUFFICES (\A p \in Paths : RecordOf(p)') /\ RecordPhases' /\ RecordPending'
    BY DEF RecordInv, RecordOf, RecordPhases, RecordPending
  <1>k. ASSUME UNCHANGED <<bao, base, cand, roll, candidate>>
        PROVE  \A p \in Paths : RecordOf(p)'
    BY <1>k, <1>0 DEF RecordOf
  <1>1. CASE StartRotate /\ UNCHANGED base
    BY <1>0, <1>k, <1>1 DEF StartRotate, RecordPhases, RecordPending
  <1>2. CASE (StartRotate /\ base' # base) \/ ReadPrior
    <2>1. candidate = None /\ phase = "none" /\ UNCHANGED <<bao, cand, roll, candidate, phase>>
      BY <1>0, <1>2 DEF StartRotate, ReadPrior, FileInv, MayMint
    <2>2. pc' # "record"
      BY <1>2 DEF StartRotate, ReadPrior
    <2>3. \A p \in Paths : RecordOf(p)'
      <3> SUFFICES ASSUME NEW p \in Paths PROVE RecordOf(p)'
        OBVIOUS
      <3>1. \A v \in 1..Len(bao[p]) : bao[p][v] \notin Fresh
        BY <1>0, <2>1, MaterialAssumption DEF RecordOf
      <3> QED
        BY <1>0, <2>1, <3>1 DEF RecordOf
    <2> QED
      BY <2>1, <2>2, <2>3 DEF RecordPhases, RecordPending
  <1>3. CASE WriteCustody
    <2>1. candidate = None /\ phase = "none" /\ UNCHANGED <<bao, base, cand, roll, phase>>
          /\ pc' # "record"
      BY <1>0, <1>3 DEF WriteCustody, FileInv
    <2>2. \A p \in Paths : RecordOf(p)'
      <3> SUFFICES ASSUME NEW p \in Paths PROVE RecordOf(p)'
        OBVIOUS
      <3>1. \A v \in 1..Len(bao[p]) : bao[p][v] \notin Fresh
        BY <1>0, <2>1, MaterialAssumption DEF RecordOf
      <3> QED
        BY <1>0, <2>1, <3>1 DEF RecordOf
    <2> QED
      BY <2>1, <2>2 DEF RecordPhases, RecordPending
  <1>4. CASE StartRollback \/ WriteReceipt \/ UnlinkCustody \/ Send \/ CoordinatorStops
    <2>1. UNCHANGED <<bao, base, cand, roll, candidate>> /\ pc' # "record"
          /\ (phase' = phase \/ phase' = "prepared")
      BY <1>4 DEF StartRollback, WriteReceipt, UnlinkCustody, Send, CoordinatorStops, files
    <2> QED
      BY <1>0, <1>k, <2>1 DEF RecordPhases, RecordPending
  <1>5. CASE Complete
    <2>1. UNCHANGED <<bao, base, cand, roll, candidate>> /\ pc' # "record"
      BY <1>5 DEF Complete
    <2>2. RecordPhases'
      BY <1>0, <1>5 DEF Complete, RecordPhases
    <2> QED
      BY <1>0, <1>k, <2>1, <2>2 DEF RecordPending
  <1>6. CASE Put
    <2>1. UNCHANGED <<base, cand, roll, candidate, phase, path, cmd>>
      BY <1>6 DEF Put, files
    <2>2. RecordPhases'
      BY <1>0, <2>1 DEF RecordPhases
    <2>3. RecordPending'
      BY <1>6, <2>1, PutEffect DEF RecordPending
    <2>4. ASSUME NEW p \in Paths PROVE RecordOf(p)'
      <3>1. CASE bao' = bao
        BY <1>k, <2>1, <3>1
      <3>2. CASE bao' # bao
        <4>1. /\ Wanted(path) \in Material /\ path \in Paths
              /\ bao' = [bao EXCEPT ![path] = Append(@, Wanted(path))]
              /\ Len(bao[path]) = IF cmd = "rotate" THEN base[path] ELSE base[path] + 1
          BY <1>0, <1>6, <3>2, PutEffect DEF FileTypes
        <4>2. /\ Len(bao'[path]) = Len(bao[path]) + 1
              /\ bao'[path][Len(bao[path]) + 1] = Wanted(path)
              /\ \A q \in Paths : q # path => bao'[q] = bao[q]
          BY <1>0, <4>1, AppendRecord DEF FileTypes
        <4>3. cmd = "rollback" => Wanted(path) \notin Fresh
          <5>1. candidate # None
            BY <1>0, <1>6 DEF Put, PhaseInv, FileInv, FileTypes, Commands
          <5>2. base[path] \in 0..Len(bao[path]) /\ base[path] # 0
            BY <1>0, <4>1, <5>1 DEF FileInv, FileTypes
          <5>3. base[path] \in 1..Len(bao[path])
            BY <1>h, <4>1, <5>2
          <5>4. cmd = "rollback" => Wanted(path) = bao[path][base[path]]
            BY <4>1 DEF Wanted, Prior
          <5>5. bao[path][base[path]] \notin Fresh
            BY <1>0, <4>1, <5>3 DEF RecordOf
          <5> QED
            BY <5>4, <5>5
        <4>4. cmd = "rotate" => Wanted(path) = candidate
          BY DEF Wanted
        <4>5. \A v \in (Len(bao[p]) + 1)..Len(bao'[p]) :
                 bao'[p][v] \in Fresh => bao'[p][v] = candidate /\ v = base[p] + 1
          <5>1. CASE p = path
            <6>1. cmd \in {"rotate", "rollback"} /\ base[p] \in Nat
              BY <1>0 DEF FileTypes, Commands
            <6>2. \A v \in (Len(bao[p]) + 1)..Len(bao'[p]) : v = Len(bao[p]) + 1
              BY <1>h, <4>2, <5>1
            <6> QED
              BY <4>1, <4>2, <4>3, <4>4, <5>1, <6>1, <6>2
          <5>2. CASE p # path
            BY <1>h, <4>2, <5>2
          <5> QED
            BY <5>1, <5>2
        <4> QED
          BY <1>0, <2>1, <4>5, RecordGrows
      <3> QED
        BY <3>1, <3>2
    <2> QED
      BY <2>2, <2>3, <2>4
  <1>7. CASE Record
    <2>1. UNCHANGED <<bao, base, candidate>> /\ pc' # "record"
      BY <1>7 DEF Record, AfterRecord
    <2>2. /\ path \in Paths /\ got # 0 /\ candidate # None /\ cand \in [Paths -> Nat]
          /\ roll \in [Paths -> Nat] /\ cmd \in {"rotate", "rollback"}
          /\ cmd = "rotate" => custody = "held"
      BY <1>0, <1>7 DEF Record, FileTypes, PhaseInv, FileInv, Commands
    <2>3. CASE cmd = "rotate"
      <3>1. cand' = [cand EXCEPT ![path] = got] /\ roll' = roll
        BY <1>7, <2>3 DEF Record, WithVersion
      <3>2. \A p \in Paths : RecordOf(p)'
        BY <1>0, <1>7, <2>1, <2>2, <2>3, <3>1 DEF RecordOf, RecordPending, Record
      <3>3. RecordPhases'
        BY <1>0, <1>7, <2>1, <2>2, <2>3, <3>1 DEF RecordPhases, Record, RecordedPhase, PhaseInv, Paths
      <3> QED
        BY <2>1, <3>2, <3>3 DEF RecordPending
    <2>4. CASE cmd = "rollback"
      <3>1. roll' = [roll EXCEPT ![path] = got] /\ cand' = cand
        BY <1>7, <2>4 DEF Record, WithVersion
      <3>2. \A p \in Paths : RecordOf(p)'
        BY <1>0, <1>7, <2>1, <2>2, <2>4, <3>1 DEF RecordOf, RecordPending, Record
      <3>3. RecordPhases'
        BY <1>0, <1>7, <2>1, <2>2, <2>4, <3>1 DEF RecordPhases, Record, RecordedPhase, PhaseInv, Paths
      <3> QED
        BY <2>1, <3>2, <3>3 DEF RecordPending
    <2> QED
      BY <2>2, <2>3, <2>4
  <1>8. CASE AdapterStep \/ PoolDrops \/ AdapterStops \/ UNCHANGED vars
    <2>1. UNCHANGED <<bao, files, coord>>
      BY <1>8, AdapterKeeps, OthersKeepFiles DEF AdapterStops, vars
    <2> QED
      BY <1>0, <1>k, <2>1 DEF RecordPhases, RecordPending, files, coord
  <1>9. ASSUME NEW q \in Paths, EditRecord(q)
        PROVE  (\A p \in Paths : RecordOf(p)') /\ RecordPhases' /\ RecordPending'
    <2>1. UNCHANGED <<files, coord>> /\ bao' = [bao EXCEPT ![q] = Append(@, Foreign)]
          /\ Foreign \in Material
      BY <1>9 DEF EditRecord, Material
    <2>2. /\ Len(bao'[q]) = Len(bao[q]) + 1 /\ bao'[q][Len(bao[q]) + 1] = Foreign
          /\ \A p \in Paths : p # q => bao'[p] = bao[p]
      BY <1>0, <2>1, AppendRecord DEF FileTypes
    <2>3. ASSUME NEW p \in Paths PROVE RecordOf(p)'
      <3>1. \A v \in (Len(bao[p]) + 1)..Len(bao'[p]) : bao'[p][v] \notin Fresh
        BY <1>h, <2>2, MaterialAssumption
      <3> QED
        BY <1>0, <2>1, <3>1, RecordGrows DEF files
    <2>4. RecordPhases' /\ RecordPending'
      BY <1>0, <1>h, <2>1 DEF RecordPhases, RecordPending, files, coord, FileTypes, History
    <2> QED
      BY <2>3, <2>4
  <1> QED
    BY <1>1, <1>2, <1>3, <1>4, <1>5, <1>6, <1>7, <1>8, <1>9 DEF Next, CoordinatorStep

-----------------------------------------------------------------------------
(* The host.                                                               *)

\* One set of material determines the two parts alike.
LEMMA BothFacts ==
  /\ \A m : Both(m)["database"] = m /\ Both(m)["runtime"] = m
  /\ \A m, n : Both(m) = Both(n) => m = n
  <1>1. \A m : Both(m)["database"] = m /\ Both(m)["runtime"] = m
    BY DEF Both, Paths
  <1> QED
    BY <1>1

\* The order of the target receipt's phases.
LEMMA Ranks ==
  /\ Rank("prepared") = 2 /\ Rank("database") = 3 /\ Rank("environment") = 4
  /\ Rank("recreated") = 5 /\ Rank("none") = 1 /\ Rank("proved") = 6
  BY DEF Rank, Targets

\* Once both versions are recorded the candidate and the prior set stand.
LEMMA BoundKept ==
  ASSUME IInv, [Next]_vars, Bound
  PROVE  Bound' /\ candidate' = candidate /\ Prior' = Prior
  <1>0. FileTypes /\ FileInv /\ History /\ FileTypes'
    BY TypeParts, HistoryStep, FileTypesStep DEF IInv
  <1>1. \A p \in Paths : base[p] # 0 /\ base[p] \in 0..Len(bao[p])
    BY <1>0 DEF Bound, FileInv, FileTypes
  <1>2. candidate' = candidate /\ base' = base
    BY <1>0, OthersKeepFiles
       DEF Next, CoordinatorStep, StartRotate, StartRollback, ReadPrior, WriteCustody, WriteReceipt,
           Put, Record, Send, Complete, UnlinkCustody, CoordinatorStops, files, MayMint, Bound,
           FileInv, Ended, RolledBack
  <1>3. \A p \in Paths : cand'[p] # 0
    <2>1. CASE Record
      <3>1. got # 0 /\ cand \in [Paths -> Nat]
        BY <1>0, <2>1 DEF Record, FileTypes
      <3> QED
        BY <2>1, <3>1 DEF Record, WithVersion, Bound
    <2>2. CASE cand' = cand
      BY <2>2 DEF Bound
    <2> QED
      BY <2>1, <2>2, OthersKeepFiles
         DEF Next, CoordinatorStep, StartRotate, StartRollback, ReadPrior, WriteCustody,
             WriteReceipt, Put, Send, Complete, UnlinkCustody, CoordinatorStops, files
  <1>4. \A p \in Paths : Len(bao[p]) \in Nat
    BY <1>0 DEF FileTypes
  <1>5. \A p \in Paths : bao'[p][base[p]] = bao[p][base[p]]
    BY <1>0, <1>1, <1>4 DEF History
  <1>6. Prior' = Prior
    BY <1>2, <1>5 DEF Prior
  <1> QED
    BY <1>2, <1>3, <1>6 DEF Bound

\* Before that no adapter runs, and none has changed the host.
LEMMA UnboundIsIdle ==
  ASSUME IInv, ~Bound
  PROVE  at = "idle" /\ target = "none"
  BY DEF IInv, TypeOK, AdaptSteps, AdapterInv, HostInv

\* A rollback that reached its second record is never left.
LEMMA RolledBackStands ==
  ASSUME IInv, [Next]_vars, phase \in RolledBack
  PROVE  phase' \in RolledBack
  BY OthersKeepFiles
     DEF IInv, PhaseInv, FileInv, RolledBack, Next, CoordinatorStep, StartRotate, StartRollback,
         ReadPrior, WriteCustody, WriteReceipt, Put, Record, Send, Complete, UnlinkCustody,
         CoordinatorStops, files, TypeOK, Commands

\* What the adapter's payload is, and what its classification tells it.
LEMMA PayloadFacts ==
  ASSUME IInv, target # "none"
  PROVE  candidate # Old /\ Desired = Both(NewMaterial) /\ Replaced = Both(GoneMaterial)
  <1>1. Bound /\ Prior = Both(Old) /\ job \in {"rotate", "rollback"}
    BY DEF IInv, HostInv, TypeOK, Commands
  <1>2. candidate # Old
    BY <1>1, MaterialAssumption DEF Bound, IInv, TypeOK
  <1> QED
    BY <1>1, <1>2 DEF Desired, Replaced, NewMaterial, GoneMaterial

\* What a classified state says of the roles, of .env and of the app.
LEMMA ObservedFacts ==
  ASSUME IInv, target # "none", app # None
  PROVE  /\ Observed = 2 => AllAt(GoneMaterial)
         /\ Observed = 3 => db = NewMaterial /\ env = Both(GoneMaterial) /\ app = Both(GoneMaterial)
         /\ Observed = 4 => db = NewMaterial /\ env = Both(NewMaterial) /\ app = Both(GoneMaterial)
         /\ Observed = 5 => AllAt(NewMaterial)
         /\ Observed \in {0, 2, 3, 4, 5}
  <1>1. app \in {Both(Old), Both(candidate)} /\ job \in {"rotate", "rollback"}
    BY DEF IInv, HostInv, TypeOK, Commands
  <1>2. app \in {Both(NewMaterial), Both(GoneMaterial)}
    BY <1>1 DEF NewMaterial, GoneMaterial
  <1>3. /\ RolesAt(Desired) => db = NewMaterial
        /\ RolesAt(Replaced) => db = GoneMaterial
        /\ EnvAt(Desired) => env = Both(NewMaterial)
        /\ EnvAt(Replaced) => env = Both(GoneMaterial)
        /\ AppAt(Desired) => app = Both(NewMaterial)
        /\ AppAt(Replaced) => app = Both(GoneMaterial)
    BY <1>2, PayloadFacts, BothFacts DEF RolesAt, EnvAt, AppAt
  <1>4. /\ Observed = 2 => RolesAt(Replaced) /\ EnvAt(Replaced) /\ AppAt(Replaced)
        /\ Observed = 3 => RolesAt(Desired) /\ EnvAt(Replaced) /\ AppAt(Replaced)
        /\ Observed = 4 => RolesAt(Desired) /\ EnvAt(Desired) /\ AppAt(Replaced)
        /\ Observed = 5 => RolesAt(Desired) /\ EnvAt(Desired) /\ AppAt(Desired)
        /\ Observed \in {0, 2, 3, 4, 5}
    BY DEF Observed
  <1> QED
    BY <1>3, <1>4 DEF AllAt

\* Every other process leaves the adapter and what it relies on alone.
LEMMA AdapterUndisturbed ==
  ASSUME IInv, [Next]_vars, ~AdapterStep, ~AdapterStops, ~PoolDrops
  PROVE  AdapterInv'
  <1>1. UNCHANGED host /\ (Send \/ UNCHANGED adapt)
    BY OthersKeepHost DEF Next
  <1>2. CASE Send
    <2>1. Bound
      <3>1. phase \in Committed /\ phase # "none" /\ path \in Paths
        BY <1>2 DEF Send, IInv, PhaseInv, Committed, Ended, RolledBack, Handed, TypeOK, Commands
      <3> QED
        BY <3>1 DEF IInv, RecordInv, FileInv, Bound, Paths
    <2>2. Bound' /\ candidate' = candidate
      BY <2>1, BoundKept
    <2> QED
      BY <1>1, <1>2, <2>2
         DEF Send, IInv, AdapterInv, host, adapt, AllAt, NewMaterial, GoneMaterial
  <1>3. CASE UNCHANGED adapt /\ Bound
    BY <1>1, <1>3, BoundKept DEF IInv, AdapterInv, host, adapt, AllAt, NewMaterial, GoneMaterial
  <1>4. CASE UNCHANGED adapt /\ ~Bound
    BY <1>1, <1>4, UnboundIsIdle DEF AdapterInv, adapt
  <1> QED
    BY <1>1, <1>2, <1>3, <1>4

\* Every step keeps what the adapter's next step relies on.
LEMMA AdapterInvStep ==
  ASSUME IInv, [Next]_vars
  PROVE  AdapterInv'
  <1> USE DEF Exit, Go
  <1>0. AdapterInv /\ HostInv /\ HostTypes
    BY TypeParts DEF IInv
  <1>1. CASE ~AdapterStep /\ ~AdapterStops /\ ~PoolDrops
    BY <1>1, AdapterUndisturbed
  <1>2. CASE AdapterStep \/ AdapterStops \/ PoolDrops
    <2>1. candidate' = candidate /\ (Bound <=> Bound')
      BY <1>2, AdapterKeeps DEF AdapterStops, files, Bound
    <2> USE DEF AdapterInv
    <2>2. CASE Admit
      <3>1. CASE target # "none"
        BY <1>0, <2>2, <3>1 DEF Admit, host
      <3>2. CASE target = "none" /\ at' = "prestate"
        <4>1. Observed = 2 /\ AllAt(Old) /\ job \in {"rotate", "rollback"}
          BY <1>0, <2>2, <3>2 DEF Admit, HostInv, HostTypes, Commands
        <4>2. RolesAt(Replaced)
          BY <4>1 DEF Observed
        <4>3. Bound /\ candidate # Old
          BY <1>0, <2>2, MaterialAssumption DEF Admit, Bound, IInv, TypeOK
        <4>4. job # "rollback"
          BY <4>1, <4>2, <4>3, BothFacts DEF RolesAt, Replaced, AllAt
        <4> QED
          BY <2>2, <3>2, <4>1, <4>4 DEF Admit, host
      <3>3. CASE target = "none" /\ at' # "prestate"
        BY <2>2, <3>3 DEF Admit
      <3> QED
        BY <3>1, <3>2, <3>3
    <2>3. CASE KeepPrestate \/ WriteTarget
      BY <1>0, <2>3 DEF KeepPrestate, WriteTarget
    <2>4. CASE Classify
      <3>1. CASE at' = "idle"
        BY <3>1
      <3>2. CASE at' # "idle"
        <4>1. /\ app # None /\ Observed >= Rank(target) /\ Observed # 0 /\ target # "none"
              /\ UNCHANGED <<db, env, app, target, job>> /\ target # "proved"
              /\ at' = CASE Observed = 2 -> "alter" [] Observed = 3 -> "environment"
                         [] Observed = 4 -> "recreate" [] OTHER -> "prove"
          BY <1>0, <2>4, <3>2 DEF Classify
        <4>2. AllAt(GoneMaterial)' <=> AllAt(GoneMaterial)
          BY <2>1, <4>1 DEF AllAt, GoneMaterial
        <4>3. AllAt(NewMaterial)' <=> AllAt(NewMaterial)
          BY <2>1, <4>1 DEF AllAt, NewMaterial
        <4>4. NewMaterial' = NewMaterial /\ GoneMaterial' = GoneMaterial
          BY <2>1, <4>1 DEF NewMaterial, GoneMaterial
        <4>5. target \in {"prepared", "database", "environment", "recreated"}
          BY <1>0, <4>1 DEF HostTypes
        <4>6. CASE Observed = 2
          <5>1. at' = "alter" /\ target = "prepared" /\ AllAt(GoneMaterial)
            BY <4>1, <4>5, <4>6, Ranks, ObservedFacts
          <5> QED
            BY <4>1, <4>2, <5>1
        <4>7. CASE Observed = 3
          <5>1. /\ at' = "environment" /\ target \in {"prepared", "database"} /\ db = NewMaterial
                /\ env = Both(GoneMaterial) /\ app = Both(GoneMaterial)
            BY <4>1, <4>5, <4>7, Ranks, ObservedFacts
          <5> QED
            BY <4>1, <4>4, <5>1
        <4>8. CASE Observed = 4
          <5>1. /\ at' = "recreate" /\ target \in {"prepared", "database", "environment"}
                /\ db = NewMaterial /\ env = Both(NewMaterial) /\ app = Both(GoneMaterial)
            BY <4>1, <4>5, <4>8, Ranks, ObservedFacts
          <5> QED
            BY <4>1, <4>4, <5>1
        <4>9. CASE Observed = 5
          <5>1. at' = "prove" /\ AllAt(NewMaterial)
            BY <4>1, <4>9, ObservedFacts
          <5> QED
            BY <4>1, <4>3, <4>5, <5>1
        <4> QED
          BY <4>1, <4>6, <4>7, <4>8, <4>9, ObservedFacts
      <3> QED
        BY <3>1, <3>2
    <2>5. CASE AlterRoles \/ WriteEnvironment \/ RecreateApp
      <3>1. target # "none"
        BY <1>0, <2>5 DEF AlterRoles, WriteEnvironment, RecreateApp
      <3>2. Desired = Both(NewMaterial)
        BY <3>1, PayloadFacts
      <3>3. NewMaterial' = NewMaterial /\ GoneMaterial' = GoneMaterial
        BY <2>1, <2>5 DEF NewMaterial, GoneMaterial, AlterRoles, WriteEnvironment, RecreateApp
      <3> QED
        BY <1>0, <2>5, <3>2, <3>3, BothFacts
           DEF AlterRoles, WriteEnvironment, RecreateApp, Recreated, AllAt
    <2>6. CASE AdvanceTarget
      <3>1. NewMaterial' = NewMaterial /\ GoneMaterial' = GoneMaterial
        BY <2>1, <2>6 DEF NewMaterial, GoneMaterial, AdvanceTarget
      <3> QED
        BY <1>0, <2>6, <3>1 DEF AdvanceTarget, AllAt
    <2>7. CASE Prove \/ RemovePrestate \/ AdapterStops
      BY <1>0, <2>7 DEF Prove, RemovePrestate, AdapterStops
    <2>8. CASE PoolDrops
      <3>1. NewMaterial' = NewMaterial /\ GoneMaterial' = GoneMaterial
        BY <2>1, <2>8 DEF NewMaterial, GoneMaterial, PoolDrops, adapt
      <3> QED
        BY <1>0, <2>1, <2>8, <3>1 DEF PoolDrops, adapt, AllAt
    <2> QED
      BY <1>2, <2>2, <2>3, <2>4, <2>5, <2>6, <2>7, <2>8 DEF AdapterStep
  <1> QED
    BY <1>1, <1>2

\* Every step keeps the host between the old set and the candidate.
LEMMA HostInvStep ==
  ASSUME IInv, [Next]_vars
  PROVE  HostInv'
  <1> USE DEF Exit, Go
  <1>0. AdapterInv /\ HostInv /\ HostTypes /\ RecordInv /\ PhaseInv /\ FileInv
    BY TypeParts DEF IInv
  <1>1. CASE ~AdapterStep /\ ~AdapterStops /\ ~PoolDrops
    <2>1. UNCHANGED host /\ (Send \/ UNCHANGED adapt)
      BY <1>1, OthersKeepHost DEF Next
    <2>2. (job = "rollback" => phase \in RolledBack)'
      <3>1. CASE Send
        <4>1. phase' = phase /\ job' \in {job, cmd} /\ (job' # job => pc = "send" /\ job' = cmd)
          BY <3>1 DEF Send, files, adapt
        <4>2. pc = "send" /\ cmd = "rollback" => phase \in RolledBack
          BY <1>0 DEF PhaseInv, RolledBack
        <4> QED
          BY <1>0, <4>1, <4>2 DEF HostInv, RolledBack
      <3>2. CASE UNCHANGED adapt
        BY <1>0, <3>2, RolledBackStands DEF HostInv, adapt
      <3> QED
        BY <2>1, <3>1, <3>2
    <2>3. (reply \in {"fresh", "historical"} => target = "proved")'
      BY <1>0, <2>1 DEF HostInv, host, adapt, Send
    <2>4. ReceiptNeverAhead'
      BY <1>0, <2>1 DEF HostInv, host, ReceiptNeverAhead
    <2>5. (target = "none" => AllAt(Old))'
      BY <1>0, <2>1 DEF HostInv, host, AllAt
    <2>6. (phase = "proved" => target = "proved")'
      <3>1. CASE Complete
        BY <1>0, <2>1, <3>1 DEF Complete, Proof, HostInv, host
      <3>2. CASE ~Complete
        <4>1. phase' = "proved" => phase = "proved"
          BY <1>1, <3>2, OthersKeepFiles
             DEF Next, CoordinatorStep, StartRotate, StartRollback, ReadPrior, WriteCustody,
                 WriteReceipt, Put, Record, RecordedPhase, Send, UnlinkCustody, CoordinatorStops, files
        <4> QED
          BY <1>0, <2>1, <4>1 DEF HostInv, host
      <3> QED
        BY <3>1, <3>2
    <2>7. CASE Bound
      <3>1. Bound' /\ candidate' = candidate /\ Prior' = Prior
        BY <2>7, BoundKept
      <3>2. (target # "none" \/ at \in {"prestate", "receipt"} => Bound /\ Prior = Both(Old))'
        BY <1>0, <2>1, <3>1 DEF HostInv, host, adapt, Send
      <3>3. (/\ db \in {Old, candidate} /\ env \in {Both(Old), Both(candidate)}
             /\ app \in {None, Both(Old), Both(candidate)})'
        BY <1>0, <2>1, <3>1 DEF HostInv, host
      <3>4. (target = "proved" /\ phase \notin RolledBack => AllAt(candidate))'
        BY <1>0, <2>1, <3>1, RolledBackStands DEF HostInv, host, AllAt
      <3> QED
        BY <2>2, <2>3, <2>4, <2>5, <2>6, <3>2, <3>3, <3>4 DEF HostInv
    <2>8. CASE ~Bound
      <3>1. at = "idle" /\ target = "none" /\ AllAt(Old)
        BY <1>0, <2>8, UnboundIsIdle DEF HostInv
      <3>2. target' = "none" /\ at' \notin {"prestate", "receipt"} /\ AllAt(Old)'
        BY <2>1, <3>1 DEF host, adapt, Send, AllAt
      <3> QED
        BY <2>2, <2>3, <2>4, <2>5, <2>6, <3>2 DEF HostInv, AllAt
    <2> QED
      BY <2>7, <2>8
  <1>2. CASE AdapterStep \/ AdapterStops \/ PoolDrops
    <2>1. UNCHANGED <<bao, files, coord>>
      BY <1>2, AdapterKeeps DEF AdapterStops
    <2>2. candidate' = candidate /\ (Bound <=> Bound') /\ Prior' = Prior /\ phase' = phase
      BY <2>1 DEF files, Bound, Prior
    <2> USE DEF HostInv, ReceiptNeverAhead
    <2>3. CASE Admit
      <3>1. CASE target # "none" \/ at' # "prestate"
        BY <1>0, <2>2, <2>3, <3>1 DEF Admit, host, AllAt
      <3>2. CASE target = "none" /\ at' = "prestate"
        <4>1. Observed = 2 /\ AllAt(Old) /\ Bound /\ UNCHANGED <<db, env, app, target, job, reply>>
          BY <1>0, <2>3, <3>2 DEF Admit, AdapterInv, host
        <4>2. EnvAt(Replaced)
          BY <4>1 DEF Observed
        <4>3. at' = "prestate" => job' = "rotate"
          BY AdapterInvStep DEF AdapterInv
        <4>4. Prior = Both(Old)
          BY <3>2, <4>1, <4>2, <4>3 DEF EnvAt, Replaced, AllAt
        <4> QED
          BY <1>0, <2>2, <4>1, <4>4 DEF AllAt
      <3> QED
        BY <3>1, <3>2
    <2>4. CASE KeepPrestate \/ WriteTarget
      BY <1>0, <2>2, <2>4 DEF KeepPrestate, WriteTarget, AdapterInv, AllAt
    <2>5. CASE Classify
      BY <1>0, <2>2, <2>5 DEF Classify, AllAt
    <2>6. CASE AlterRoles \/ WriteEnvironment
      <3>1. target # "none" /\ target # "proved" /\ Bound /\ Prior = Both(Old)
            /\ UNCHANGED <<target, job, app, reply>>
        BY <1>0, <2>6 DEF AlterRoles, WriteEnvironment, AdapterInv
      <3>2. Desired = Both(NewMaterial) /\ NewMaterial \in {Old, candidate}
        BY <3>1, PayloadFacts DEF NewMaterial
      <3>3. CASE AlterRoles
        <4>1. db' = NewMaterial /\ env' = env /\ app = env /\ target = "prepared" /\ at' = "alter-receipt"
          BY <1>0, <3>2, <3>3, BothFacts DEF AlterRoles, AdapterInv, AllAt
        <4> QED
          BY <1>0, <2>2, <3>1, <3>2, <4>1
      <3>4. CASE WriteEnvironment
        <4>1. env' = Both(NewMaterial) /\ db = NewMaterial /\ db' = db /\ at' = "environment-receipt"
              /\ target \in {"prepared", "database"}
          BY <1>0, <3>2, <3>4 DEF WriteEnvironment, AdapterInv
        <4> QED
          BY <1>0, <2>2, <3>1, <3>2, <4>1
      <3> QED
        BY <2>6, <3>3, <3>4
    <2>7. CASE RecreateApp
      BY <1>0, <2>2, <2>7 DEF RecreateApp, Recreated, AdapterInv, AllAt
    <2>8. CASE AdvanceTarget
      BY <1>0, <2>2, <2>8 DEF AdvanceTarget, AdapterInv, AllAt
    <2>9. CASE Prove
      <3>1. phase \notin RolledBack => job = "rotate"
        BY <1>0 DEF HostTypes, Commands
      <3>2. AllAt(NewMaterial) /\ target # "none" /\ target # "proved"
        BY <1>0, <2>9 DEF Prove, AdapterInv
      <3> QED
        BY <1>0, <2>2, <2>9, <3>1, <3>2 DEF Prove, AllAt, NewMaterial
    <2>10. CASE RemovePrestate
      BY <1>0, <2>2, <2>10 DEF RemovePrestate, AdapterInv, AllAt
    <2>11. CASE AdapterStops
      BY <1>0, <2>2, <2>11 DEF AdapterStops, AdapterInv, AllAt
    <2>12. CASE PoolDrops
      BY <1>0, <2>2, <2>12 DEF PoolDrops, adapt, AllAt
    <2> QED
      BY <1>2, <2>3, <2>4, <2>5, <2>6, <2>7, <2>8, <2>9, <2>10, <2>11, <2>12 DEF AdapterStep
  <1> QED
    BY <1>1, <1>2

-----------------------------------------------------------------------------
(* Theorems.                                                               *)

\* The inductive invariant holds at first.
LEMMA InitIInv == Init => IInv
  <1> SUFFICES ASSUME Init PROVE IInv
    OBVIOUS
  <1> USE DEF Init
  <1>1. FileTypes
    <2>1. Old \in Material /\ MaxEdits \in Nat /\ MaxFaults \in Nat
      BY BoundsAssumption DEF Material
    <2>2. bao \in [Paths -> Seq(Material)] /\ \A p \in Paths : Len(bao[p]) = 1 /\ bao[p][1] = Old
      BY <2>1 DEF Both
    <2> QED
      BY <2>1, <2>2 DEF FileTypes, Both, Paths, Phases, CoordSteps, Commands
  <1>2. HostTypes
    BY DEF HostTypes, Both, Sets, Material, AdaptSteps, Commands
  <1>3. Flags
    BY Zenon DEF Flags
  <1>4. FileInv /\ PhaseInv
    BY DEF FileInv, PhaseInv
  <1>5. RecordInv
    BY MaterialAssumption DEF RecordInv, Both, Paths, Committed, Ended, RolledBack
  <1>6. AdapterInv /\ HostInv
    BY DEF AdapterInv, HostInv, AllAt, RolledBack, ReceiptNeverAhead
  <1> QED
    BY <1>1, <1>2, <1>3, <1>4, <1>5, <1>6, TypeParts DEF IInv

\* Every step keeps the inductive invariant.
LEMMA InductiveStep == IInv /\ [Next]_vars => IInv'
  <1> SUFFICES ASSUME IInv, [Next]_vars PROVE IInv'
    OBVIOUS
  <1>1. TypeOK'
    <2>1. FileTypes' /\ HostTypes' /\ Flags'
      BY FileTypesStep, HostTypesStep, FlagsStep
    <2>2. {Targets[i] : i \in 1..Len(Targets)} =
            {"none", "prepared", "database", "environment", "recreated", "proved"}
      BY DEF Targets
    <2> QED
      BY <2>1, <2>2, Zenon DEF TypeOK, FileTypes, HostTypes, Flags
  <1> QED
    BY <1>1, FileStep, PhaseStep, RecordStep, AdapterInvStep, HostInvStep DEF IInv

\* The inductive invariant holds throughout.
LEMMA Invariance == Spec => []IInv
  BY InitIInv, InductiveStep, PTL DEF Spec

\* Recorded versions are really there, in every state of every rotation: the
\* receipt and the custody file never name a version OpenBao does not have.
THEOREM TypeCorrect == Spec => []TypeOK
  <1>1. IInv => TypeOK
    BY DEF IInv
  <1> QED
    BY <1>1, Invariance, PTL

\* A proved receipt is true of the roles, of .env and of the running app,
\* however often either process stopped and whatever was answered from an
\* older receipt (complete_secret_rotation).
THEOREM ProvedIsTrue == Spec => []ProvedIsInstalled
  <1>1. IInv => ProvedIsInstalled
    BY DEF IInv, HostInv, ProvedIsInstalled, AllAt, RolledBack
  <1> QED
    BY <1>1, Invariance, PTL

\* One incident mints one candidate (prepare_secret_rotation).
THEOREM MintedOnce == Spec => []OneCandidate
  <1>1. IInv => OneCandidate
    <2> SUFFICES ASSUME IInv PROVE OneCandidate
      OBVIOUS
    <2>1. minted = {} \/ minted = {candidate}
      BY DEF IInv, FileInv
    <2>2. Cardinality(minted) = 0 \/ Cardinality(minted) = 1
      BY <2>1, FS_EmptySet, FS_Singleton
    <2> QED
      BY <2>2 DEF OneCandidate
  <1> QED
    BY <1>1, Invariance, PTL

\* The host never holds a candidate that OpenBao does not keep in both records:
\* commit_openbao_rotation is over before transfer_rotation_payload.
THEOREM HostFollowsRecords == Spec => []HostMaterialIsKept
  <1>1. IInv => HostMaterialIsKept
    <2> SUFFICES ASSUME IInv, NEW m \in Fresh,
                        db = m \/ m \in {env[p] : p \in Paths}
                          \/ (app # None /\ m \in {app[p] : p \in Paths}),
                        NEW p \in Paths
                 PROVE  \E v \in 1..Len(bao[p]) : bao[p][v] = m
      BY DEF HostMaterialIsKept
    <2>1. m # Old
      BY MaterialAssumption
    <2>2. \A c : \A q \in Paths : Both(c)[q] = c
      BY DEF Both
    <2>3. m = candidate
      BY <2>1, <2>2 DEF IInv, HostInv
    <2>4. target # "none"
      BY <2>1, <2>2 DEF IInv, HostInv, AllAt
    <2>5. Bound
      BY <2>4 DEF IInv, HostInv
    <2>6. cand[p] \in 0..Len(bao[p]) /\ cand[p] # 0 /\ bao[p][cand[p]] = candidate
      BY <2>5, TypeParts DEF Bound, IInv, RecordInv, FileTypes
    <2>7. bao[p] \in Seq(Material)
      BY DEF IInv, TypeOK
    <2>8. Len(bao[p]) \in Nat
      BY <2>7
    <2>9. cand[p] \in 1..Len(bao[p])
      BY <2>6, <2>8
    <2> QED
      BY <2>3, <2>6, <2>9
  <1> QED
    BY <1>1, Invariance, PTL

\* Where a candidate in use is found follows from the records, the files and the
\* host together.
LEMMA FoundByInvariant == IInv => CandidateIsRecoverable
  <1> SUFFICES ASSUME IInv, db \in Fresh \/ \E p \in Paths : Current(p) \in Fresh,
                      custody # "held"
               PROVE  \A p \in Paths : cand[p] # 0 /\ bao[p][cand[p]] = candidate
    BY DEF CandidateIsRecoverable
  <1>1. CASE db \in Fresh
    <2>1. target # "none"
      BY <1>1, MaterialAssumption DEF IInv, HostInv, AllAt
    <2> QED
      BY <2>1 DEF IInv, HostInv, Bound, RecordInv
  <1>2. CASE \E p \in Paths : Current(p) \in Fresh
    <2>1. PICK p \in Paths : Current(p) \in Fresh
      BY <1>2
    <2>2. Len(bao[p]) \in Nat /\ Len(bao[p]) >= 1
      BY DEF IInv, TypeOK, RecordInv
    <2>3. Current(p) = candidate
      BY <2>1, <2>2 DEF Current, IInv, RecordInv
    <2>4. candidate # None
      BY <2>1, <2>3, MaterialAssumption
    <2>5. phase \in Committed
      BY <2>4 DEF IInv, FileInv, Committed
    <2> QED
      BY <2>5 DEF IInv, RecordInv, Paths, Committed
  <1> QED
    BY <1>1, <1>2

\* A candidate OpenBao or the host holds is in custody or in versions the
\* receipt names, so that the rotation can go on (or be rolled back).
THEOREM CandidateIsFound == Spec => []CandidateIsRecoverable
  BY FoundByInvariant, Invariance, PTL

\* The target receipt is never ahead of the host, and .env agrees with the
\* roles or with the app, in both directions (apply_secret_rotation_on_target).
THEOREM ReceiptIsBehind == Spec => []ReceiptNeverAhead
  <1>1. IInv => ReceiptNeverAhead
    BY DEF IInv, HostInv
  <1> QED
    BY <1>1, Invariance, PTL

\* Neither command overwrites an edit made after the prior version was read
\* (_ensure_candidate_record, _ensure_restored_record).
THEOREM EditsAreSafe == Spec => EditsAreKept
  <1>1. ASSUME IInv, [Next]_vars, NEW p \in Paths,
               base[p] # 0, custody # "none", Len(bao[p]) > base[p], Current(p) = Foreign
        PROVE  bao'[p][Len(bao'[p])] = Foreign
    <2>1. bao \in [Paths -> Seq(Material)]
      BY <1>1 DEF IInv, TypeOK
    <2>2. bao'[p] = bao[p] => bao'[p][Len(bao'[p])] = Foreign
      BY <1>1 DEF Current
    <2>3. CASE Put
      <3>1. CASE Unmoved(path) /\ path = p /\ bao' # bao
        <4>1. cmd = "rotate" => FALSE
          BY <1>1, <3>1 DEF Unmoved, From, IInv, TypeOK
        <4>2. cmd = "rollback" => Current(p) = candidate /\ candidate \in Fresh
          <5>1. cmd = "rollback" => phase \in Committed /\ phase # "none"
            BY <1>1, <2>3 DEF Put, IInv, PhaseInv, Committed, Ended
          <5>2. phase \in Committed => \A q \in Paths : cand[q] # 0
            BY <1>1 DEF IInv, RecordInv, Paths, Committed
          <5>3. cand[p] # 0 => bao[p][cand[p]] = candidate /\ candidate # None
            BY <1>1 DEF IInv, RecordInv
          <5>4. candidate # None => candidate \in Fresh
            BY <1>1 DEF IInv, TypeOK
          <5>5. cmd = "rollback" => Current(p) = bao[p][cand[p]]
            BY <1>1, <3>1 DEF Unmoved, FromFields
          <5> QED
            BY <5>1, <5>2, <5>3, <5>4, <5>5
        <4> QED
          BY <1>1, <4>1, <4>2, MaterialAssumption DEF IInv, TypeOK, Commands
      <3>2. CASE ~(Unmoved(path) /\ path = p /\ bao' # bao)
        <4>1. bao'[p] = bao[p]
          BY <2>1, <2>3, <3>2 DEF Put
        <4> QED
          BY <2>2, <4>1
      <3> QED
        BY <3>1, <3>2
    <2>4. ASSUME NEW q \in Paths, EditRecord(q) PROVE bao'[p][Len(bao'[p])] = Foreign
      <3>1. bao' = [bao EXCEPT ![q] = Append(@, Foreign)] /\ Foreign \in Material
        BY <2>4 DEF EditRecord, Material
      <3>2. /\ Len(bao'[q]) = Len(bao[q]) + 1 /\ bao'[q][Len(bao[q]) + 1] = Foreign
            /\ (p # q => bao'[p] = bao[p])
        BY <2>1, <3>1, AppendRecord
      <3> QED
        BY <2>2, <3>2
    <2>5. bao' = bao \/ Put \/ \E q \in Paths : EditRecord(q)
      BY <1>1 DEF Next, CoordinatorStep, AdapterStep, vars, Outside, StartRotate, StartRollback,
           ReadPrior, WriteCustody, WriteReceipt, Record, Send, Complete, UnlinkCustody,
           CoordinatorStops, Admit, KeepPrestate, WriteTarget, Classify, AlterRoles,
           WriteEnvironment, RecreateApp, AdvanceTarget, Prove, RemovePrestate, AdapterStops, PoolDrops
    <2> QED
      BY <2>2, <2>3, <2>4, <2>5
  <1>2. IInv /\ [Next]_vars =>
          [\A p \in Paths :
             (base[p] # 0 /\ custody # "none" /\ Len(bao[p]) > base[p] /\ Current(p) = Foreign)
               => bao'[p][Len(bao'[p])] = Foreign]_vars
    BY <1>1
  <1> QED
    BY <1>2, Invariance, PTL DEF Spec, EditsAreKept

-----------------------------------------------------------------------------
(* The rotation beside the other writers of .env (HostEnvironment).        *)

\* A command holds the lock from its first step to its last; what it read is
\* still there when it writes, and the password it is about to declare is the
\* one the role accepts.
WriterInv ==
  /\ step = "idle" <=> writer = "none"
  /\ writer # "none" => at = "idle"
  /\ step = "install" => writer = "dispatcher" /\ given # 0
  /\ writer = "dispatcher" => line = 0
  /\ step \in {"read", "write"} /\ writer = "dispatcher" => role = given /\ given # 0
  /\ step = "write" => copy[1] = env /\ copy[2] = line
  /\ step \in {"idle", "install", "read", "write"}
  /\ DispatcherIsAccepted

\* Only the adapter's own step writes .env, and only a send takes it off idle.
LEMMA RotationWrites ==
  ASSUME [Next]_vars
  PROVE  (env' # env => at = "environment")
  BY DEF Next, CoordinatorStep, AdapterStep, vars, host, Outside, StartRotate, StartRollback, ReadPrior,
         WriteCustody, WriteReceipt, Put, Record, Send, Complete, UnlinkCustody, CoordinatorStops,
         Admit, KeepPrestate, WriteTarget, Classify, AlterRoles, WriteEnvironment, RecreateApp,
         AdvanceTarget, Prove, RemovePrestate, AdapterStops, PoolDrops, EditRecord

\* A step of another command leaves everything the rotation works on as it is: the
\* file it replaces holds what it read.
LEMMA WritersLeaveRotation ==
  ASSUME WriterInv,
         EnterDispatcher \/ EnterDeclarations \/ WriterStep \/ WriterStops
           \/ ExecInstall \/ VerifyCredential \/ EditDispatcher
  PROVE  UNCHANGED vars
  <1>1. CASE WriteDeclared
    <2>1. env' = env
      BY <1>1 DEF WriteDeclared, ReplaceEnvironment, WriterInv
    <2> QED
      BY <1>1, <2>1 DEF WriteDeclared, vars, files, coord, adapt
  <1> QED
    BY <1>1 DEF EnterDispatcher, EnterDeclarations, Enter, WriterStep, InstallRole, ReadEnvironment,
       WriterStops, ExecInstall, VerifyCredential, EditDispatcher

\* Every step of the host keeps the lock and the dispatcher's password.
LEMMA WriterInvStep == WriterInv /\ [HostNext]_hvars => WriterInv'
  <1> SUFFICES ASSUME WriterInv, [HostNext]_hvars PROVE WriterInv'
    OBVIOUS
  <1> USE DEF WriterInv, DispatcherIsAccepted
  <1>1. CASE RotationStep
    <2>1. UNCHANGED <<record, role, line, writer, step, given, copy, writers, receipt>>
      BY <1>1 DEF RotationStep, relay, command
    <2>2. writer # "none" => at' = "idle" /\ env' = env
      BY <1>1, RotationWrites DEF RotationStep, LockFree
    <2> QED
      BY <2>1, <2>2
  <1>2. CASE SendRefused \/ UNCHANGED hvars
    BY <1>2 DEF SendRefused, relay, command, host, adapt, hvars
  <1>3. CASE ~RotationStep /\ ~SendRefused /\ ~UNCHANGED hvars
    <2>1. UNCHANGED <<env, at>>
      BY <1>3, WritersLeaveRotation DEF HostNext, vars
    <2>2. CASE EnterDispatcher \/ EnterDeclarations
      BY <2>1, <2>2 DEF EnterDispatcher, EnterDeclarations, Enter, LockFree
    <2>3. CASE InstallRole
      BY <2>1, <2>3 DEF InstallRole, InstallOnce, Authenticates, Release
    <2>4. CASE ReadEnvironment
      BY <2>1, <2>4 DEF ReadEnvironment
    <2>5. CASE WriteDeclared \/ WriterStops
      BY <2>1, <2>5 DEF WriteDeclared, ReplaceEnvironment, WriterStops, Release
    <2>6. CASE ExecInstall \/ VerifyCredential \/ EditDispatcher
      BY <2>1, <2>6 DEF ExecInstall, VerifyCredential, EditDispatcher, InstallOnce, Authenticates, Expected,
         command
    <2> QED
      BY <1>3, <2>2, <2>3, <2>4, <2>5, <2>6 DEF HostNext, WriterStep
  <1> QED
    BY <1>1, <1>2, <1>3

LEMMA WriterInvariance == HostSpec => []WriterInv
  <1>1. HostInit => WriterInv
    BY DEF HostInit, Init, WriterInv, DispatcherIsAccepted
  <1> QED
    BY <1>1, WriterInvStep, PTL DEF HostSpec

\* A rotation that is refused the lock is over, and may be repeated.
LEMMA RefusedKeeps ==
  ASSUME IInv, SendRefused
  PROVE  IInv'
  <1>1. /\ pc' = "idle"
        /\ UNCHANGED <<bao, edits, custody, base, candidate, minted, phase, cand, roll, cmd, path, got, reply,
                       db, env, app, linked, target, plan, at, job, faults>>
    BY DEF SendRefused, files, host, adapt
  <1>2. TypeOK'
    BY <1>1 DEF IInv, TypeOK, CoordSteps
  <1>3. FileInv' /\ PhaseInv'
    BY <1>1 DEF IInv, FileInv, PhaseInv
  <1>4. RecordInv'
    BY <1>1 DEF IInv, RecordInv
  <1>5. AdapterInv' /\ HostInv'
    BY <1>1 DEF IInv, AdapterInv, HostInv, AllAt, NewMaterial, GoneMaterial, Bound, Prior, ReceiptNeverAhead
  <1> QED
    BY <1>2, <1>3, <1>4, <1>5 DEF IInv

\* What is proved of the rotation alone holds beside the other writers too.
LEMMA HostInvariance == HostSpec => []IInv
  <1>1. HostInit => IInv
    BY InitIInv DEF HostInit
  <1>2. IInv /\ WriterInv /\ [HostNext]_hvars => IInv'
    <2> SUFFICES ASSUME IInv, WriterInv, [HostNext]_hvars PROVE IInv'
      OBVIOUS
    <2>1. CASE SendRefused
      BY <2>1, RefusedKeeps
    <2>2. CASE ~SendRefused
      <3>1. [Next]_vars
        BY <2>2, WritersLeaveRotation DEF HostNext, RotationStep, hvars, vars
      <3> QED
        BY <3>1, InductiveStep
    <2> QED
      BY <2>1, <2>2
  <1> QED
    BY <1>1, <1>2, WriterInvariance, PTL DEF HostSpec

\* The dispatcher password that .env declares, or a BootstrapReceipt names, is the
\* one the database accepts (bootstrap_relay_dispatcher_on_existing_host,
\* verify_credential), with two executors and any number of versions.
THEOREM DispatcherAuthenticates == HostSpec => []DispatcherIsAccepted
  <1>1. WriterInv => DispatcherIsAccepted
    BY DEF WriterInv
  <1> QED
    BY <1>1, WriterInvariance, PTL

\* No command that rewrites .env loses what another writer put there
\* (production_deployment_lock).
THEOREM NoUpdateIsLost == HostSpec => NoLostUpdate
  <1>1. WriterInv /\ [HostNext]_hvars =>
          [/\ env' # env => at = "environment"
           /\ line' # line => line = 0]_hvars
    <2> SUFFICES ASSUME WriterInv, HostNext
                 PROVE  (env' # env => at = "environment") /\ (line' # line => line = 0)
      OBVIOUS
    <2>1. CASE RotationStep
      BY <2>1, RotationWrites DEF RotationStep, relay
    <2>2. CASE SendRefused
      BY <2>2 DEF SendRefused, relay, host
    <2>3. CASE ~RotationStep /\ ~SendRefused
      <3>1. env' = env
        BY <2>3, WritersLeaveRotation DEF HostNext, vars
      <3>2. line' # line => line = 0
        BY <2>3 DEF HostNext, EnterDispatcher, EnterDeclarations, Enter, WriterStep, InstallRole,
           ReadEnvironment, WriteDeclared, ReplaceEnvironment, WriterStops, ExecInstall, VerifyCredential,
           EditDispatcher, WriterInv
      <3> QED
        BY <3>1, <3>2
    <2> QED
      BY <2>1, <2>2, <2>3
  <1> QED
    BY <1>1, WriterInvariance, PTL DEF HostSpec, NoLostUpdate

\* Beside the other commands, too, a proved receipt is true of the host.
THEOREM ProvedIsTrueOnHost == HostSpec => []ProvedIsInstalled
  <1>1. IInv => ProvedIsInstalled
    BY DEF IInv, HostInv, ProvedIsInstalled, AllAt, RolledBack
  <1> QED
    BY <1>1, HostInvariance, PTL

\* Nor do they make a candidate in use unrecoverable.
THEOREM CandidateIsFoundOnHost == HostSpec => []CandidateIsRecoverable
  BY FoundByInvariant, HostInvariance, PTL

=============================================================================
