------------------------- MODULE VolumeLedgerProofs -------------------------
(***************************************************************************)
(* What is proved of VolumeLedger.  From LedgerInv (VolumeLedgerSteps):    *)
(* live writers are left alone, files stay within their reservations,      *)
(* published recordings stay whole, no file is without an owner, readers   *)
(* keep their files, and recovery loses no indexed fragment.  From         *)
(* CapacityInv (VolumeLedgerCapacity): exact counters, an admission that   *)
(* fits, and removed volumes that stay empty.                              *)
(***************************************************************************)
EXTENDS VolumeLedgerSteps, VolumeLedgerCapacity

\* The invariant of the operations holds in every reachable state: rows, files, index entries, plans,
\* retirements, leases, writers and the worker stay in the relations OpInv states.
THEOREM Invariance == SafeSpec => []LedgerInv
BY LedgerInit, LedgerNext, PTL DEF SafeSpec

\* The lease of catalog/readers.rs keeps the recovery away from a recording whose writer lives.
THEOREM LiveWriterProtected == SafeSpec => []LiveWriterUntouched
<1>1. LedgerInv => LiveWriterUntouched
  <2> SUFFICES ASSUME LedgerInv, NEW o \in Ops
               PROVE  /\ writer[o].pc \notin {"idle", "gone", "placed", "revised"} => lease[o] = "writer"
                      /\ lease[o] = "writer" => plan[o] = NoPlan /\ row[o].state \in {None, "reserved"}
                      /\ worker.op = o => lease[o] = "worker"
    BY Zenon DEF LiveWriterUntouched
  <2>1. LeaseOK(writer[o], row[o], plan[o], retirement[o], lease[o], At(o)) BY Now, ZenonT(60) DEF OpInv
  <2> QED BY <2>1, WorkerKnown, Zenon DEF LeaseOK, Before
<1> QED BY <1>1, Invariance, PTL

\* A reservation is never overwritten: the file, what the row counts as materialized and the writer's
\* view of the reservation stay within the row, through lost replies and crashes.
THEOREM WritesAreReserved == SafeSpec => []WrittenWithinReservation
<1>1. LedgerInv => WrittenWithinReservation
  <2> SUFFICES ASSUME LedgerInv, NEW o \in Ops, row[o].state = "reserved"
               PROVE  /\ disk[o].len <= row[o].bytes
                      /\ plan[o] = NoPlan => row[o].materialized <= disk[o].synced
                      /\ writer[o].pc # "gone" => writer[o].bytes <= row[o].bytes
    BY Zenon DEF WrittenWithinReservation
  <2>1. FileOK(writer[o], row[o], disk[o], plan[o], At(o)) /\ RowOK(writer[o], row[o]) BY Now, ZenonT(60) DEF OpInv
  <2> QED BY <2>1, Zenon DEF FileOK, RowOK
<1> QED BY <1>1, Invariance, PTL

\* A published recording is whole, whoever published it, until its retirement removes the file.
THEOREM PublishedStaysWhole == SafeSpec => []PublishedIsWhole
<1>1. LedgerInv => PublishedIsWhole BY Now, ZenonT(60) DEF PublishedIsWhole, OpInv, PublishedOK
<1> QED BY <1>1, Invariance, PTL

\* Every file on disk belongs to a reserved or published row, so its bytes stay charged to its volume.
THEOREM FilesAreOwned == SafeSpec => []NoUnownedFile
<1>1. LedgerInv => NoUnownedFile BY Now, ZenonT(60) DEF NoUnownedFile, OpInv, FileOK
<1> QED BY <1>1, Invariance, PTL

\* A recording with an open reader keeps its file and its row.
THEOREM ReadersAreSafe == SafeSpec => []ReadersKeepRecording
<1>1. LedgerInv => ReadersKeepRecording
  <2> SUFFICES ASSUME LedgerInv, NEW o \in reading PROVE disk[o].exists /\ row[o].state # "cancelled"
    BY Zenon DEF ReadersKeepRecording
  <2>1. o \in Ops BY Zenon DEF LedgerInv, Tables
  <2>2. /\ ReadOK(row[o], disk[o], index[o], plan[o], At(o), Read(o))
        /\ FileOK(writer[o], row[o], disk[o], plan[o], At(o))
    BY <2>1, Now, Zenon DEF OpInv
  <2>3. Read(o) = "open" BY Zenon DEF Read
  <2>4. disk[o].exists BY <2>2, <2>3, ZenonT(60) DEF ReadOK
  <2> QED BY <2>2, <2>4, SMTT(30) DEF FileOK
<1> QED BY <1>1, Invariance, PTL

\* Recovery never loses an indexed fragment that is stored: a file gets shorter under one only through
\* a journaled retirement or the power failure of a crash.
THEOREM IndexedMediaIsKept == SafeSpec => IndexedMediaKept
<1>1. LedgerInv /\ [Next]_vars =>
        [\A o \in Ops : (\E f \in index[o].fragments : disk'[o].len < f /\ f <= disk[o].len)
            => retirement[o] = "journaled" \/ Crash]_vars
  BY MediaStep, Zenon
<1> QED BY <1>1, Invariance, PTL DEF SafeSpec, IndexedMediaKept

\* The capacity invariant holds in every reachable state: it needs the invariant of the operations
\* before and after the step.
THEOREM CapacityInvariance == SafeSpec => []CapacityInv
BY CapacityInit, CapacityNext, Invariance, PTL DEF SafeSpec

\* The triggers keep the counters of every volume equal to the sums over its rows (schema.sql).
THEOREM CountersStayExact == SafeSpec => []CountersExact
<1>1. CapacityInv => CountersExact BY ZenonT(60) DEF CapacityInv
<1> QED BY <1>1, CapacityInvariance, PTL

\* What the admission lets in fits: on every filesystem with all reservations written in full and the
\* smallest minimum free, and on every volume within its capacity.
THEOREM AdmissionFits == SafeSpec => []AdmittedFits
<1>1. CapacityInv => AdmittedFits BY Zenon DEF CapacityInv
<1> QED BY <1>1, CapacityInvariance, PTL

\* A volume whose removal was checked holds and owes nothing, through the save and the restart.
THEOREM RemovedStaysEmpty == SafeSpec => []RemovedIsEmpty
<1>1. CapacityInv /\ LedgerInv => RemovedIsEmpty
  <2> SUFFICES ASSUME CapacityInv, LedgerInv, NEW v \in Volumes, volume[v].config # "running",
                      NEW o \in Ops, row[o].volume = v
               PROVE  row[o].state = "cancelled" /\ ~disk[o].exists /\ ~Retiring(o) /\ ~Abandoning(o)
    BY Zenon DEF RemovedIsEmpty
  <2>1. Settled(o) BY Zenon DEF CapacityInv, RemovalOK
  <2>2. row[o].state = "cancelled" BY <2>1, Zenon DEF Settled
  <2>3. row[o].state \notin {"reserved", "published"} BY <2>2, SMTT(30)
  <2>4. ~disk[o].exists BY <2>3, Now, ZenonT(60) DEF OpInv, FileOK
  <2> QED BY <2>1, <2>4, ZenonT(60) DEF Settled
<1> QED BY <1>1, CapacityInvariance, Invariance, PTL

\* Every table, file, thread and counter stays in its type; the counters never go below zero.
THEOREM TypeCorrect == SafeSpec => []TypeOK
<1>1. CapacityInv /\ LedgerInv => TypeOK
  <2> SUFFICES ASSUME CapacityInv, LedgerInv PROVE TypeOK OBVIOUS
  <2>1. ASSUME NEW o \in Ops
        PROVE  Typed(writer[o], row[o], disk[o], index[o], plan[o], retirement[o], lease[o], At(o), Read(o))
    BY Now, ZenonT(60) DEF OpInv
  <2>2. /\ Table(writer) /\ Table(row) /\ Table(disk) /\ Table(index) /\ Table(plan) /\ Table(retirement)
        /\ Table(lease) /\ reading \subseteq Ops
        /\ worker = Resting \/ worker \in [pc : WorkerPcs \ {"idle"}, op : Ops]
    BY Zenon DEF LedgerInv, Tables
  <2>3. row \in [Ops -> Rows] /\ index \in [Ops -> Entries] /\ plan \in [Ops -> Plans]
    BY <2>1, <2>2, Zenon DEF Typed, Table
  <2>4. retirement \in [Ops -> Retirements] /\ disk \in [Ops -> Files] /\ writer \in [Ops -> Writers]
        /\ lease \in [Ops -> {None, "writer", "worker"}]
    BY <2>1, <2>2, ZenonT(60) DEF Typed, Table
  <2>5. worker \in [pc : {"idle", "work", "absent", "retained", "removed"}, op : Ops \cup {None}]
    BY <2>2, SMTT(30) DEF Resting, WorkerPcs
  <2>6. volume \in [Volumes -> [draining : BOOLEAN, allocated : Nat, reserved : Nat, config : Config]]
    <3>1. volume \in [Volumes -> VolumeRows] BY Zenon DEF CapacityInv, RestTyped
    <3>2. ASSUME NEW v \in Volumes PROVE volume[v].allocated \in Nat /\ volume[v].reserved \in Nat
      <4>1. volume[v].allocated = SumFunction(AllocatedRows(v)) /\ volume[v].reserved = SumFunction(PendingRows(v))
        BY Sums, Zenon DEF CapacityInv
      <4>2. AllocatedRows(v) \in [Ops -> Nat] /\ PendingRows(v) \in [Ops -> Nat] BY TermsNat, ZenonT(60)
      <4>3. SumFunction(AllocatedRows(v)) \in Nat /\ SumFunction(PendingRows(v)) \in Nat BY <4>2, SumOf, ZenonT(60)
      <4> QED BY <4>1, <4>3, ZenonT(60)
    <3> QED BY <3>1, <3>2, SMTT(30) DEF VolumeRows
  <2>7. RestTyped BY Zenon DEF CapacityInv
  <2> QED BY <2>2, <2>3, <2>4, <2>5, <2>6, <2>7, ZenonT(60) DEF TypeOK, RestTyped
<1> QED BY <1>1, CapacityInvariance, Invariance, PTL
=============================================================================
