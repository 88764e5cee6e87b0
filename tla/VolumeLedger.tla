---------------------------- MODULE VolumeLedger ----------------------------
(***************************************************************************)
(* The allocation ledger of the named recording volumes: admission of a    *)
(* recording against the capacity that several volumes of one filesystem   *)
(* share, growth of a live recording, publication, the recovery of an      *)
(* interrupted recording, retention, and the removal of a drained volume.  *)
(*                                                                         *)
(* Threads: one writer per recording, the volume worker (worker.rs), the   *)
(* retention and settings callers.  Every catalog request runs on the one  *)
(* catalog thread as a transaction, so it is a single step here; its reply *)
(* may still be lost (the caller's deadline passes), which is a fault.     *)
(*                                                                         *)
(* Bytes are counted in blocks.  A recording is its initialization segment *)
(* (one block, the initial reservation) followed by fragments of one block.*)
(* Only recordings are modelled; nothing else writes to the filesystems.   *)
(***************************************************************************)
EXTENDS Integers, FiniteSets, FiniteSetsExt

CONSTANTS
    Ops,          \* allocation operations, one per recording attempt
    Volumes,      \* named volumes
    Filesystem,   \* [Volumes -> filesystems]
    Capacity,     \* [filesystems -> Nat], blocks free when empty
    Limit,        \* [Volumes -> Nat], capacity_bytes of the configuration
    Minimum,      \* [Volumes -> Nat], minimum_free_bytes
    GrowthBytes,  \* GROWTH_BYTES of runtime.rs
    MaxPending,   \* MAX_PENDING_ALLOCATIONS of locations.rs
    Operated,     \* bound: the volumes that administrators drain and remove
    MaxLen,       \* bound: blocks of the longest recording
    MaxFaults     \* bound: lost replies, refused requests, crashes, power failures

ASSUME LedgerAssumption ==
    /\ IsFiniteSet(Ops) /\ IsFiniteSet(Volumes) /\ "none" \notin Ops \cup Volumes
    /\ MaxLen \in Nat \ {0} /\ GrowthBytes \in Nat \ {0} /\ MaxFaults \in Nat
    /\ Operated \subseteq Volumes
    /\ \A v \in Volumes : /\ Limit[v] \in Nat /\ Minimum[v] \in Nat /\ Capacity[Filesystem[v]] \in Nat
                          /\ Minimum[v] <= Capacity[Filesystem[v]]

VARIABLES
    row,         \* storage_volume_allocations
    volume,      \* storage_volume_bindings and the settings' view of the volume
    index,       \* recording_files and recording_fragments
    plan,        \* storage_recording_recovery
    retirement,  \* storage_recording_retirements
    disk,        \* the file of the operation and its retirement receipts
    fresh,       \* the caller's ledger revision is still the current one
    lease,       \* the operation's move lease (catalog/readers.rs)
    admission,   \* holder of the Manager's admission mutex
    writer,      \* the thread recording into the operation
    worker,      \* the volume worker
    reading,     \* recordings with an open reader lease
    faults       \* faults so far

catalog == <<row, volume, index, plan, retirement>>
vars == <<catalog, disk, fresh, lease, admission, writer, worker, reading, faults>>

None == "none"
InitBytes == 1
NoPlan == [mode |-> None, original |-> 0, retained |-> 0, complete |-> FALSE, acknowledged |-> FALSE]
Gone == [pc |-> "gone", target |-> None, bytes |-> 0, available |-> 0, attempt |-> 0,
         buffered |-> 0, flush |-> None]
Idle == [Gone EXCEPT !.pc = "idle"]
Resting == [pc |-> "idle", op |-> None]

Init ==
    /\ row = [o \in Ops |-> [state |-> None, volume |-> None, bytes |-> 0,
                             materialized |-> 0, identity |-> FALSE]]
    /\ volume = [v \in Volumes |-> [draining |-> FALSE, allocated |-> 0, reserved |-> 0,
                                    config |-> "running"]]
    /\ index = [o \in Ops |-> [recording |-> None, fragments |-> {}]]
    /\ plan = [o \in Ops |-> NoPlan]
    /\ retirement = [o \in Ops |-> None]
    /\ disk = [o \in Ops |-> [exists |-> FALSE, len |-> 0, synced |-> 0, receipt |-> "synced"]]
    /\ fresh = [o \in Ops |-> FALSE]
    /\ lease = [o \in Ops |-> None]
    /\ admission = None
    /\ writer = [o \in Ops |-> Idle]
    /\ worker = Resting
    /\ reading = {}
    /\ faults = 0

-----------------------------------------------------------------------------
(* The ledger's tables. *)

Allocated(r) == IF r.state \in {"reserved", "published"} THEN r.bytes ELSE 0
Unmaterialized(r) == IF r.state = "reserved" THEN r.bytes - r.materialized ELSE 0

\* Mutant: the trigger runs only on a change of state, so growth is not charged.
SetRowOnState(o, r) ==
    /\ row' = [row EXCEPT ![o] = r]
    /\ volume' = IF r.state = row[o].state THEN volume
                 ELSE [volume EXCEPT
                          ![r.volume].allocated = @ + Allocated(r) - Allocated(row[o]),
                          ![r.volume].reserved = @ + Unmaterialized(r) - Unmaterialized(row[o])]

\* An insert or update of the row with the counter triggers of schema.sql.
SetRow(o, r) ==
    /\ row' = [row EXCEPT ![o] = r]
    /\ volume' = [volume EXCEPT
          ![r.volume].allocated = @ + Allocated(r) - Allocated(row[o]),
          ![r.volume].reserved = @ + Unmaterialized(r) - Unmaterialized(row[o])]

\* bump_revision: every capacity observation taken before is superseded.
Bump == fresh' = [o \in Ops |-> FALSE]

OnFilesystem(o, d) == row[o].volume # None /\ Filesystem[row[o].volume] = d
Used(d) == SumFunction([o \in Ops |-> IF OnFilesystem(o, d) THEN disk[o].len ELSE 0])
Free(d) == Capacity[d] - Used(d)
ReservedOn(d) == SumFunction([v \in Volumes |-> IF Filesystem[v] = d THEN volume[v].reserved ELSE 0])
PendingCount == Cardinality({o \in Ops : row[o].state = "reserved"})

\* Mutant: a reservation does not look at the draining flag again.
AdmissionDraining(v, bytes, available, new) ==
    /\ new => PendingCount < MaxPending
    /\ bytes <= available - ReservedOn(Filesystem[v]) - Minimum[v]
    /\ bytes <= Limit[v] - volume[v].allocated

\* admission: the saturating subtractions of the code agree with these, the bytes being positive.
Admission(v, bytes, available, new) ==
    /\ new => ~volume[v].draining /\ PendingCount < MaxPending
    /\ bytes <= available - ReservedOn(Filesystem[v]) - Minimum[v]
    /\ bytes <= Limit[v] - volume[v].allocated

\* A request whose reply is lost: it commits or not, the caller sees an error either way.
Fault == faults < MaxFaults /\ faults' = faults + 1

-----------------------------------------------------------------------------
(* Retention: which recordings a request may journal for retirement. *)

Pressure(v, required) ==
    /\ volume[v].config # "gone"
    /\ required <= Limit[v]
    /\ \/ volume[v].allocated + required > Limit[v]
       \/ Free(Filesystem[v]) - ReservedOn(Filesystem[v]) < Minimum[v] + required

\* begin returns the unacknowledged retirement of the volume before it takes another recording.
Retirable(v) ==
    {o \in Ops : /\ row[o].volume = v /\ row[o].state = "published"
                 /\ index[o].recording = "final" /\ retirement[o] = None
                 /\ \A p \in Ops : row[p].volume = v => retirement[p] \notin {"journaled", "complete"}}

\* Journals at most one recording of each of the volumes; protected recordings are passed over.
JournalRetirement(vs) ==
    \E chosen \in SUBSET UNION {Retirable(v) : v \in vs} :
        /\ \A v \in vs : Cardinality(chosen \cap Retirable(v)) <= 1
        /\ retirement' = [o \in Ops |-> IF o \in chosen THEN "journaled" ELSE retirement[o]]
        /\ IF chosen = {} THEN fresh' = fresh ELSE Bump

QueueExpiry(o) ==
    /\ \E v \in Volumes : volume[v].config # "gone" /\ o \in Retirable(v)
    /\ retirement' = [retirement EXCEPT ![o] = "journaled"]
    /\ Bump
    /\ UNCHANGED <<row, volume, index, plan, disk, lease, admission, writer, worker, reading, faults>>

CheckPressure(v) ==
    /\ worker = Resting
    /\ Pressure(v, 0)
    /\ Retirable(v) # {}
    /\ JournalRetirement({v})
    /\ UNCHANGED <<row, volume, index, plan, disk, lease, admission, writer, worker, reading, faults>>

-----------------------------------------------------------------------------
(* Manager::reserve and the writer of a recording. *)

Step(o, pc) == writer' = [writer EXCEPT ![o].pc = pc]

\* The writer is dropped: its file closes, then its lease is released.
Drop(o) ==
    /\ writer' = [writer EXCEPT ![o] = Gone]
    /\ lease' = [lease EXCEPT ![o] = None]

Release(o) == admission' = IF admission = o THEN None ELSE admission

Eligible(v) ==
    /\ volume[v].config # "gone"
    /\ ~volume[v].draining
    /\ InitBytes <= Free(Filesystem[v]) - ReservedOn(Filesystem[v]) - Minimum[v]
    /\ InitBytes <= Limit[v] - volume[v].allocated

Place(o, v) ==
    /\ writer[o] = Idle /\ admission = None
    /\ Eligible(v)
    /\ admission' = o
    /\ writer' = [writer EXCEPT ![o].pc = "placed", ![o].target = v]
    /\ UNCHANGED <<catalog, disk, fresh, lease, worker, reading, faults>>

\* No destination: the volumes rejected for space are asked to retire a recording.
PlaceRefused(o) ==
    /\ writer[o] = Idle /\ admission = None
    /\ ~\E v \in Volumes : Eligible(v)
    /\ JournalRetirement({v \in Volumes : Pressure(v, InitBytes) /\ ~volume[v].draining})
    /\ UNCHANGED <<row, volume, index, plan, disk, lease, admission, writer, worker, reading, faults>>

\* volume_ledger_revision, before root.capacity probes the filesystem.
ReadRevision(o) ==
    /\ writer[o].pc \in {"placed", "locked"}
    /\ fresh' = [fresh EXCEPT ![o] = TRUE]
    /\ Step(o, IF writer[o].pc = "placed" THEN "revised" ELSE "growRevised")
    /\ UNCHANGED <<catalog, disk, lease, admission, worker, reading, faults>>

Probe(o) ==
    /\ writer[o].pc \in {"revised", "growRevised"}
    /\ LET new == writer[o].pc = "revised" IN
       /\ writer' = [writer EXCEPT ![o].pc = IF new THEN "reserve" ELSE "grow",
                                   ![o].available = Free(Filesystem[writer[o].target])]
       /\ lease' = IF new THEN [lease EXCEPT ![o] = "writer"] ELSE lease
    /\ UNCHANGED <<catalog, disk, fresh, admission, worker, reading, faults>>

ReserveAdmitted(o) ==
    /\ row[o].state = None
    /\ fresh[o]
    /\ Admission(writer[o].target, InitBytes, writer[o].available, TRUE)

ReserveCommit(o) ==
    /\ SetRow(o, [row[o] EXCEPT !.state = "reserved", !.volume = writer[o].target, !.bytes = InitBytes])
    /\ Bump

\* The request is repeated once after any error, then the reservation is given up.
ReserveError(o) ==
    IF writer[o].attempt = 0
    THEN writer' = [writer EXCEPT ![o].attempt = 1] /\ UNCHANGED <<lease, admission>>
    ELSE Drop(o) /\ Release(o)

\* reserve: a repeated request finds its own row and gets the same answer.
Reserve(o) ==
    /\ writer[o].pc = "reserve"
    /\ \/ /\ IF row[o].state = "reserved" THEN UNCHANGED <<row, volume, fresh>>
             ELSE ReserveAdmitted(o) /\ ReserveCommit(o)
          /\ writer' = [writer EXCEPT ![o].pc = "reserved", ![o].bytes = InitBytes,
                                      ![o].available = 0, ![o].attempt = 0]
          /\ Release(o)
          /\ UNCHANGED <<lease, faults>>
       \/ /\ row[o].state = None /\ ~ReserveAdmitted(o)
          /\ ReserveError(o)
          /\ UNCHANGED <<row, volume, fresh, faults>>
       \/ /\ Fault
          /\ \/ ReserveAdmitted(o) /\ ReserveCommit(o)
             \/ UNCHANGED <<row, volume, fresh>>
          /\ ReserveError(o)
    /\ UNCHANGED <<index, plan, retirement, disk, worker, reading>>

\* A writer that never saw a keyframe drops its reservation unopened.
NeverOpened(o) ==
    /\ writer[o].pc = "reserved"
    /\ Drop(o)
    /\ UNCHANGED <<catalog, disk, fresh, admission, worker, reading, faults>>

\* Reservation::open creates and synchronizes the file.
Open(o) ==
    /\ writer[o].pc = "reserved"
    /\ disk' = [disk EXCEPT ![o].exists = TRUE]
    /\ Step(o, "created")
    /\ UNCHANGED <<catalog, fresh, lease, admission, worker, reading, faults>>

\* checkpoint: the synchronized length and the identity of the file enter the row.
Checkpoint(o) ==
    /\ row[o].state = "reserved"
    /\ row[o].materialized <= disk[o].len /\ disk[o].len <= row[o].bytes
    /\ IF row[o].identity /\ row[o].materialized = disk[o].len
       THEN UNCHANGED <<row, volume, fresh>>
       ELSE /\ SetRow(o, [row[o] EXCEPT !.materialized = disk[o].len, !.identity = TRUE])
            /\ Bump

\* The checkpoint of open, and the one grow makes before it asks for more; an error fails the writer.
Materialize(o) ==
    /\ writer[o].pc \in {"created", "full"}
    /\ disk' = [disk EXCEPT ![o].synced = disk[o].len]
    /\ \/ /\ Checkpoint(o)
          /\ Step(o, IF writer[o].pc = "created" THEN "opened" ELSE "checkpointed")
          /\ UNCHANGED <<lease, faults>>
       \/ /\ Fault
          /\ \/ Checkpoint(o)
             \/ UNCHANGED <<row, volume, fresh>>
          /\ Drop(o)
    /\ UNCHANGED <<index, plan, retirement, admission, worker, reading>>

\* catalog_initialization; when it fails, the dropped buffer still writes its initialization segment.
Initialize(o) ==
    /\ writer[o].pc = "opened"
    /\ \/ /\ index' = [index EXCEPT ![o].recording = "open"]
          /\ writer' = [writer EXCEPT ![o].pc = "active", ![o].buffered = InitBytes]
          /\ UNCHANGED <<disk, lease, faults>>
       \/ /\ Fault
          /\ disk' = [disk EXCEPT ![o].len = InitBytes]
          /\ Drop(o)
          /\ index' = index
    /\ UNCHANGED <<row, volume, plan, retirement, fresh, admission, worker, reading>>

\* A fragment is complete ("next"), or the recording ends with one ("last") or without ("end").
Flush(o, flush) ==
    /\ writer[o].pc = "active"
    /\ flush # "end" => disk[o].len + writer[o].buffered < MaxLen
    /\ writer' = [writer EXCEPT ![o].pc = "flushing", ![o].flush = flush,
                                ![o].buffered = IF flush = "end" THEN @ ELSE @ + 1]
    /\ UNCHANGED <<catalog, disk, fresh, lease, admission, worker, reading, faults>>

\* The end of the next write into the file, within one growth increment.
Needed(o) == disk[o].len + Min({writer[o].buffered, GrowthBytes})

\* Mutant: the buffer's last block is not counted against the reservation.
WriteOffByOne(o) ==
    /\ writer[o].pc = "flushing" /\ writer[o].buffered > 0
    /\ Needed(o) <= writer[o].bytes + 1
    /\ \E end \in disk[o].len + 1 .. Needed(o) :
          /\ disk' = [disk EXCEPT ![o].len = end]
          /\ writer' = [writer EXCEPT ![o].buffered = @ - (end - disk[o].len)]
    /\ UNCHANGED <<catalog, fresh, lease, admission, worker, reading, faults>>

\* ReservedFile::write inside the reservation; the system may take only part of the buffer.
Write(o) ==
    /\ writer[o].pc = "flushing" /\ writer[o].buffered > 0
    /\ Needed(o) <= writer[o].bytes
    /\ \E end \in disk[o].len + 1 .. Needed(o) :
          /\ disk' = [disk EXCEPT ![o].len = end]
          /\ writer' = [writer EXCEPT ![o].buffered = @ - (end - disk[o].len)]
    /\ UNCHANGED <<catalog, fresh, lease, admission, worker, reading, faults>>

WriteFull(o) ==
    /\ writer[o].pc = "flushing" /\ writer[o].buffered > 0
    /\ Needed(o) > writer[o].bytes
    /\ Step(o, "full")
    /\ UNCHANGED <<catalog, disk, fresh, lease, admission, worker, reading, faults>>

LockGrowth(o) ==
    /\ writer[o].pc = "checkpointed" /\ admission = None
    /\ IF Needed(o) <= Limit[writer[o].target]
       THEN Step(o, "locked") /\ admission' = o
       ELSE Step(o, "failed") /\ UNCHANGED admission
    /\ UNCHANGED <<catalog, disk, fresh, lease, worker, reading, faults>>

\* The first request rounds up to a whole increment, the second asks only for what the write needs.
GrowthRequest(o) ==
    IF writer[o].attempt = 0
    THEN Min({((Needed(o) + GrowthBytes - 1) \div GrowthBytes) * GrowthBytes,
              Limit[writer[o].target], writer[o].bytes + GrowthBytes})
    ELSE Needed(o)

\* Mutant: the ledger revision of the capacity sample is not compared.
GrowAdmittedStale(o) ==
    /\ row[o].state = "reserved"
    /\ \/ GrowthRequest(o) <= row[o].bytes
       \/ Admission(row[o].volume, GrowthRequest(o) - row[o].bytes, writer[o].available, FALSE)

GrowAdmitted(o) ==
    /\ row[o].state = "reserved"
    /\ \/ GrowthRequest(o) <= row[o].bytes
       \/ /\ fresh[o]
          /\ Admission(row[o].volume, GrowthRequest(o) - row[o].bytes, writer[o].available, FALSE)

GrowCommit(o) ==
    IF GrowthRequest(o) <= row[o].bytes THEN UNCHANGED <<row, volume, fresh>>
    ELSE SetRow(o, [row[o] EXCEPT !.bytes = GrowthRequest(o)]) /\ Bump

GrowError(o) ==
    writer' = [writer EXCEPT ![o].pc = IF writer[o].attempt = 0 THEN "locked" ELSE "refused",
                             ![o].attempt = 1 - @, ![o].available = 0]

Grow(o) ==
    /\ writer[o].pc = "grow"
    /\ \/ /\ GrowAdmitted(o) /\ GrowCommit(o)
          /\ writer' = [writer EXCEPT ![o].pc = "flushing", ![o].available = 0, ![o].attempt = 0,
                                      ![o].bytes = Max({GrowthRequest(o), row[o].bytes})]
          /\ Release(o)
          /\ UNCHANGED faults
       \/ /\ ~GrowAdmitted(o)
          /\ GrowError(o)
          /\ UNCHANGED <<row, volume, fresh, admission, faults>>
       \/ /\ Fault
          /\ \/ GrowAdmitted(o) /\ GrowCommit(o)
             \/ UNCHANGED <<row, volume, fresh>>
          /\ GrowError(o)
          /\ UNCHANGED admission
    /\ UNCHANGED <<index, plan, retirement, disk, lease, worker, reading>>

\* After the second refusal the volume is asked for room if it is under pressure; the writer fails.
GrowRefused(o) ==
    /\ writer[o].pc = "refused"
    /\ IF Pressure(row[o].volume, Needed(o) - writer[o].bytes)
       THEN JournalRetirement({row[o].volume})
       ELSE UNCHANGED <<retirement, fresh>>
    /\ Step(o, "failed")
    /\ Release(o)
    /\ UNCHANGED <<row, volume, index, plan, disk, lease, worker, reading, faults>>

\* insert_catalog_fragment, after the flush; an error loses the entry of a fragment that is stored.
IndexFragment(o) ==
    /\ writer[o].pc = "flushing" /\ writer[o].buffered = 0 /\ writer[o].flush # "end"
    /\ LET last == writer[o].flush = "last" IN
       \/ /\ index' = [index EXCEPT ![o].fragments = @ \cup {disk[o].len}]
          /\ writer' = [writer EXCEPT ![o].pc = IF last THEN "sealing" ELSE "active", ![o].flush = None]
          /\ UNCHANGED <<lease, faults>>
       \/ /\ Fault
          /\ index' = index
          /\ IF last THEN Drop(o)
             ELSE writer' = [writer EXCEPT ![o].pc = "active", ![o].flush = None] /\ lease' = lease
    /\ UNCHANGED <<row, volume, plan, retirement, disk, fresh, admission, worker, reading>>

\* A failed writer refuses every write until its recording is rotated out and dropped.
DropFailed(o) ==
    /\ writer[o].pc = "failed"
    /\ Drop(o)
    /\ UNCHANGED <<catalog, disk, fresh, admission, worker, reading, faults>>

\* Mutant: the evidence of a publication does not synchronize the file.
EvidenceUnsynced(o) ==
    /\ \/ writer[o].pc = "sealing"
       \/ writer[o].pc = "flushing" /\ writer[o].buffered = 0 /\ writer[o].flush = "end"
    /\ writer' = [writer EXCEPT ![o].pc = "finalize", ![o].flush = None]
    /\ UNCHANGED <<catalog, disk, fresh, lease, admission, worker, reading, faults>>

\* evidence synchronizes the whole file.
Evidence(o) ==
    /\ \/ writer[o].pc = "sealing"
       \/ writer[o].pc = "flushing" /\ writer[o].buffered = 0 /\ writer[o].flush = "end"
    /\ disk' = [disk EXCEPT ![o].synced = disk[o].len]
    /\ writer' = [writer EXCEPT ![o].pc = "finalize", ![o].flush = None]
    /\ UNCHANGED <<catalog, fresh, lease, admission, worker, reading, faults>>

\* finalize and publish, one transaction over the recording and its allocation.
Publish(o, bytes, r) ==
    /\ row[o].state = "reserved" /\ index[o].recording = "open"
    /\ bytes <= row[o].bytes
    /\ SetRow(o, [r EXCEPT !.state = "published", !.bytes = bytes])
    /\ Bump

Finalize(o) ==
    /\ writer[o].pc = "finalize"
    /\ \/ /\ Publish(o, disk[o].len, row[o])
          /\ index' = [index EXCEPT ![o].recording = "final"]
          /\ UNCHANGED faults
       \/ /\ Fault
          /\ UNCHANGED <<row, volume, fresh, index>>
    /\ Drop(o)
    /\ UNCHANGED <<plan, retirement, disk, admission, worker, reading>>

-----------------------------------------------------------------------------
(* The volume worker: recovery of interrupted recordings and retirement. *)

Abandoning(o) == plan[o].mode = "abandon" /\ ~plan[o].acknowledged
Retiring(o) == retirement[o] \in {"journaled", "complete"}
Working(o, pc) == worker = [pc |-> pc, op |-> o]
Continue(pc) == worker' = [worker EXCEPT !.pc = pc]

Done(o) ==
    /\ worker' = Resting
    /\ lease' = [lease EXCEPT ![o] = None]

\* Mutant: the worker does not claim the operation's lease.
ClaimLive(o) ==
    /\ worker = Resting
    /\ row[o].state = "reserved" \/ Abandoning(o) \/ Retiring(o)
    /\ volume[row[o].volume].config # "gone"
    /\ worker' = [pc |-> "work", op |-> o]
    /\ UNCHANGED <<catalog, disk, fresh, lease, admission, writer, reading, faults>>

Claim(o) ==
    /\ worker = Resting /\ lease[o] = None
    /\ row[o].state = "reserved" \/ Abandoning(o) \/ Retiring(o)
    /\ volume[row[o].volume].config # "gone"
    /\ worker' = [pc |-> "work", op |-> o]
    /\ lease' = [lease EXCEPT ![o] = "worker"]
    /\ UNCHANGED <<catalog, disk, fresh, admission, writer, reading, faults>>

\* A request that is refused or whose reply is lost ends the attempt; the next scan repeats it.
WorkerError(o) ==
    /\ worker.op = o
    /\ Fault
    /\ Done(o)
    /\ UNCHANGED <<catalog, disk, fresh, admission, writer, reading>>

\* Mutant: a reservation without identity is taken for one that was never opened.
ConfirmAbsentUnseen(o) ==
    /\ Working(o, "work") /\ row[o].state = "reserved" /\ ~row[o].identity
    /\ Continue("absent")
    /\ UNCHANGED <<catalog, disk, fresh, lease, admission, writer, reading, faults>>

\* Without a recorded identity the row is released only when no file carries its name.
ConfirmAbsent(o) ==
    /\ Working(o, "work") /\ row[o].state = "reserved" /\ ~row[o].identity
    /\ IF disk[o].exists THEN Done(o) ELSE Continue("absent") /\ lease' = lease
    /\ UNCHANGED <<catalog, disk, fresh, admission, writer, reading, faults>>

ReleaseUnopened(o) ==
    /\ Working(o, "absent")
    /\ IF ~row[o].identity /\ index[o].recording = None
       THEN SetRow(o, [row[o] EXCEPT !.state = "cancelled"]) /\ Bump
       ELSE UNCHANGED <<row, volume, fresh>>
    /\ Done(o)
    /\ UNCHANGED <<index, plan, retirement, disk, admission, writer, reading, faults>>

\* prefix_endpoint: the indexed fragments that are stored follow the initialization without a gap.
Sealable(o) ==
    LET stored == {f \in index[o].fragments : f <= disk[o].len}
        lost == index[o].fragments \ stored
    IN /\ stored # {}
       /\ stored = InitBytes + 1 .. Max(stored)
       /\ lost # {} => Min(lost) = Max(stored) + 1

\* Nothing indexed: the file is empty or is exactly the catalogued initialization segment.
Abandonable(o) ==
    /\ index[o].fragments = {}
    /\ disk[o].len = 0 \/ (index[o].recording = "open" /\ disk[o].len = InitBytes)

\* Mutant: the retained prefix ends at the last checkpoint, the index is not consulted.
BeginRecoveryCheckpointed(o) ==
    /\ Working(o, "work")
    /\ row[o].state = "reserved" /\ row[o].identity /\ plan[o] = NoPlan
    /\ IF disk[o].exists /\ row[o].materialized <= disk[o].len /\ disk[o].len <= row[o].bytes
       THEN /\ plan' = [plan EXCEPT ![o].mode = "seal", ![o].original = disk[o].len,
                                    ![o].retained = Max({row[o].materialized, InitBytes})]
            /\ Bump
            /\ UNCHANGED <<worker, lease>>
       ELSE Done(o) /\ UNCHANGED <<plan, fresh>>
    /\ UNCHANGED <<row, volume, index, retirement, disk, admission, writer, reading, faults>>

\* begin_recording_recovery: an abandonment synchronizes the file, a seal does not.
BeginRecovery(o) ==
    /\ Working(o, "work")
    /\ row[o].state = "reserved" /\ row[o].identity /\ plan[o] = NoPlan
    /\ IF /\ disk[o].exists /\ row[o].materialized <= disk[o].len /\ disk[o].len <= row[o].bytes
          /\ Sealable(o) \/ Abandonable(o)
       THEN /\ plan' = [plan EXCEPT ![o].mode = IF Sealable(o) THEN "seal" ELSE "abandon",
                   ![o].original = disk[o].len,
                   ![o].retained = IF Sealable(o)
                                   THEN Max({f \in index[o].fragments : f <= disk[o].len})
                                   ELSE disk[o].len]
            /\ disk' = IF Sealable(o) THEN disk ELSE [disk EXCEPT ![o].synced = disk[o].len]
            /\ Bump
            /\ UNCHANGED <<worker, lease>>
       ELSE Done(o) /\ UNCHANGED <<plan, disk, fresh>>
    /\ UNCHANGED <<row, volume, index, retirement, admission, writer, reading, faults>>

\* Mutant: a retry does not accept a file that an earlier attempt already truncated.
RetainPrefixOnce(o) ==
    /\ Working(o, "work")
    /\ row[o].state = "reserved" /\ plan[o].mode = "seal"
    /\ IF disk[o].len = plan[o].original
       THEN /\ disk' = [disk EXCEPT ![o].len = plan[o].retained, ![o].synced = plan[o].retained]
            /\ Continue("retained") /\ lease' = lease
       ELSE Done(o) /\ disk' = disk
    /\ UNCHANGED <<catalog, fresh, admission, writer, reading, faults>>

\* retain_verified_prefix truncates and synchronizes a file that has one of the planned lengths.
RetainPrefix(o) ==
    /\ Working(o, "work")
    /\ row[o].state = "reserved" /\ plan[o].mode = "seal"
    /\ IF disk[o].len \in {plan[o].original, plan[o].retained}
       THEN /\ disk' = [disk EXCEPT ![o].len = plan[o].retained, ![o].synced = plan[o].retained]
            /\ Continue("retained") /\ lease' = lease
       ELSE Done(o) /\ disk' = disk
    /\ UNCHANGED <<catalog, fresh, admission, writer, reading, faults>>

CompleteSeal(o) ==
    /\ Working(o, "retained")
    /\ Publish(o, plan[o].retained, [row[o] EXCEPT !.materialized = plan[o].retained])
    /\ plan' = [plan EXCEPT ![o].complete = TRUE, ![o].acknowledged = TRUE]
    /\ index' = [index EXCEPT ![o].recording = "final",
                              ![o].fragments = {f \in @ : f <= plan[o].retained}]
    /\ Done(o)
    /\ UNCHANGED <<retirement, disk, admission, writer, reading, faults>>

\* A removal that was planned or journaled and is not recorded as complete.
RemovalDue(o) ==
    /\ Working(o, "work")
    /\ \/ Abandoning(o) /\ ~plan[o].complete
       \/ retirement[o] = "journaled"

RemovedLen(o) == IF Retiring(o) THEN row[o].bytes ELSE plan[o].retained

\* Mutant: the removal does not wait for the readers.
CanRemoveUnderReader(o) ==
    /\ disk[o].receipt # "torn"
    /\ disk[o].exists => disk[o].len = RemovedLen(o)

\* Mutant: a retry treats a file that is already gone as an error.
CanRemoveOnce(o) ==
    /\ disk[o].receipt # "torn"
    /\ Retiring(o) => o \notin reading
    /\ disk[o].exists /\ disk[o].len = RemovedLen(o)

\* Open readers postpone a retirement.  retire_owned reads the receipts of earlier attempts, and
\* refuses the operation for good when one of them is torn.
CanRemove(o) ==
    /\ disk[o].receipt # "torn"
    /\ Retiring(o) => o \notin reading
    /\ disk[o].exists => disk[o].len = RemovedLen(o)

\* retire_owned of an abandoned or a retired recording: the intent, the staged receipt, the unlink.
RemoveFile(o) ==
    /\ RemovalDue(o)
    /\ IF CanRemove(o)
       THEN /\ disk' = [disk EXCEPT ![o].exists = FALSE, ![o].len = 0, ![o].synced = 0]
            /\ Continue("removed") /\ lease' = lease
       ELSE Done(o) /\ disk' = disk
    /\ UNCHANGED <<catalog, fresh, admission, writer, reading, faults>>

\* Both receipts are written while the file still exists.
WritesReceipt(o) == RemovalDue(o) /\ CanRemove(o) /\ disk[o].exists

\* An error inside write_receipt, after it created the receipt: what is left of it is incomplete,
\* or complete and not synchronized.
Tear(o) ==
    /\ WritesReceipt(o)
    /\ Fault
    /\ \E left \in {"written", "torn"} : disk' = [disk EXCEPT ![o].receipt = left]
    /\ Done(o)
    /\ UNCHANGED <<catalog, fresh, admission, writer, reading>>

CompleteRemoval(o) ==
    /\ Working(o, "removed")
    /\ SetRow(o, [row[o] EXCEPT !.state = "cancelled"])
    /\ index' = [index EXCEPT ![o] = [recording |-> None, fragments |-> {}]]
    /\ IF Retiring(o) THEN retirement' = [retirement EXCEPT ![o] = "complete"] /\ plan' = plan
       ELSE plan' = [plan EXCEPT ![o].complete = TRUE] /\ retirement' = retirement
    /\ Bump
    /\ Continue("work")
    /\ UNCHANGED <<disk, lease, admission, writer, reading, faults>>

\* acknowledge_retirement reads the receipts again before it clears them.
CanAcknowledge(o) == disk[o].receipt # "torn" /\ (Retiring(o) => o \notin reading)

Acknowledge(o) ==
    /\ Working(o, "work")
    /\ \/ /\ retirement[o] = "complete"
          /\ retirement' = [retirement EXCEPT ![o] = IF CanAcknowledge(o) THEN "acknowledged" ELSE @]
          /\ plan' = plan
       \/ /\ Abandoning(o) /\ plan[o].complete
          /\ plan' = [plan EXCEPT ![o].acknowledged = CanAcknowledge(o)]
          /\ retirement' = retirement
    /\ disk' = [disk EXCEPT ![o].receipt = IF CanAcknowledge(o) THEN "synced" ELSE @]
    /\ Done(o)
    /\ UNCHANGED <<row, volume, index, fresh, admission, writer, reading, faults>>

-----------------------------------------------------------------------------
(* Readers, the settings of the volumes, and restarts. *)

\* owned_locations: no lease on a recording under retirement or recovery.
OpenReader(o) ==
    /\ o \notin reading
    /\ index[o].fragments # {} /\ retirement[o] = None
    /\ plan[o].mode = None \/ plan[o].complete
    /\ reading' = reading \cup {o}
    /\ UNCHANGED <<catalog, disk, fresh, lease, admission, writer, worker, faults>>

CloseReader(o) ==
    /\ o \in reading
    /\ reading' = reading \ {o}
    /\ UNCHANGED <<catalog, disk, fresh, lease, admission, writer, worker, faults>>

\* Refused while the settings are being changed, or were saved and wait for a restart.
SetDraining(v) ==
    /\ volume[v].config = "running"
    /\ \A u \in Volumes : volume[u].config \notin {"checked", "saved"}
    /\ volume' = [volume EXCEPT ![v].draining = ~@]
    /\ Bump
    /\ UNCHANGED <<row, index, plan, retirement, disk, lease, admission, writer, worker, reading, faults>>

\* validate_removals with the settings lock held, through the save of the configuration.
CheckRemoval(v) ==
    /\ volume[v].config = "running" /\ volume[v].draining
    /\ \A u \in Volumes : volume[u].config # "checked"
    /\ volume[v].allocated = 0 /\ volume[v].reserved = 0
    /\ \A o \in Ops : row[o].volume = v =>
          ~Retiring(o) /\ (plan[o].mode = None \/ plan[o].acknowledged)
    /\ volume' = [volume EXCEPT ![v].config = "checked"]
    /\ UNCHANGED <<row, index, plan, retirement, disk, fresh, lease, admission, writer, worker, reading, faults>>

\* The configuration without the volume is saved, or its save fails.
SaveRemoval(v) ==
    /\ volume[v].config = "checked"
    /\ \E config \in {"saved", "running"} : volume' = [volume EXCEPT ![v].config = config]
    /\ UNCHANGED <<row, index, plan, retirement, disk, fresh, lease, admission, writer, worker, reading, faults>>

\* The process stops and starts again; after a power failure a file keeps what was synchronized
\* and any part of the rest.  A receipt that was being written, or was never synchronized, may be
\* torn.  Threads, leases and unsaved settings are lost.
Crash ==
    /\ Fault
    /\ \E len \in [Ops -> 0 .. MaxLen],
          torn \in SUBSET {o \in Ops : disk[o].receipt = "written" \/ WritesReceipt(o)} :
          /\ \A o \in Ops : disk[o].synced <= len[o] /\ len[o] <= disk[o].len
          /\ disk' = [o \in Ops |-> [disk[o] EXCEPT !.len = len[o],
                                                    !.receipt = IF o \in torn THEN "torn" ELSE @]]
    /\ volume' = [v \in Volumes |-> [volume[v] EXCEPT !.config =
                     IF @ \in {"saved", "gone"} THEN "gone" ELSE "running"]]
    /\ writer' = [o \in Ops |-> IF writer[o] = Idle THEN Idle ELSE Gone]
    /\ lease' = [o \in Ops |-> None]
    /\ fresh' = [o \in Ops |-> FALSE]
    /\ admission' = None /\ worker' = Resting /\ reading' = {}
    /\ UNCHANGED <<row, index, plan, retirement>>

WriterStep(o) ==
    \/ \E v \in Volumes : Place(o, v)
    \/ PlaceRefused(o) \/ ReadRevision(o) \/ Probe(o) \/ Reserve(o) \/ NeverOpened(o) \/ Open(o)
    \/ Materialize(o) \/ Initialize(o)
    \/ \E flush \in {"next", "last", "end"} : Flush(o, flush)
    \/ Write(o) \/ WriteFull(o) \/ LockGrowth(o) \/ Grow(o) \/ GrowRefused(o)
    \/ IndexFragment(o) \/ DropFailed(o) \/ Evidence(o) \/ Finalize(o)

WorkerStep(o) ==
    \/ ConfirmAbsent(o) \/ ReleaseUnopened(o) \/ BeginRecovery(o) \/ RetainPrefix(o) \/ CompleteSeal(o)
    \/ RemoveFile(o) \/ CompleteRemoval(o) \/ Acknowledge(o)

Next ==
    \/ \E o \in Ops : \/ WriterStep(o) \/ WorkerStep(o) \/ Claim(o) \/ WorkerError(o) \/ Tear(o)
                      \/ QueueExpiry(o) \/ OpenReader(o) \/ CloseReader(o)
    \/ \E v \in Volumes : CheckPressure(v)
    \/ \E v \in Operated : SetDraining(v) \/ CheckRemoval(v) \/ SaveRemoval(v)
    \/ Crash

\* The worker's loop never stops and its scan returns to every pending operation (JournalScan);
\* readers finish.  Nothing is assumed of the writers: they may stall for ever.
Fairness ==
    \A o \in Ops : WF_vars(WorkerStep(o)) /\ SF_vars(Claim(o)) /\ WF_vars(CloseReader(o))

SafeSpec == Init /\ [][Next]_vars
Spec == SafeSpec /\ Fairness

-----------------------------------------------------------------------------
(* Properties. *)

Config == {"running", "checked", "saved", "gone"}
Pcs == {"idle", "gone", "placed", "revised", "reserve", "reserved", "created", "opened", "active",
        "flushing", "full", "checkpointed", "locked", "growRevised", "grow", "refused", "failed",
        "sealing", "finalize"}

Rows == [state : {None, "reserved", "published", "cancelled"}, volume : Volumes \cup {None},
         bytes : Nat, materialized : Nat, identity : BOOLEAN]
Entries == [recording : {None, "open", "final"}, fragments : SUBSET (2 .. MaxLen)]
Plans == [mode : {None, "seal", "abandon"}, original : 0 .. MaxLen, retained : 0 .. MaxLen,
          complete : BOOLEAN, acknowledged : BOOLEAN]
Retirements == {None, "journaled", "complete", "acknowledged"}
Files == [exists : BOOLEAN, len : 0 .. MaxLen, synced : 0 .. MaxLen,
          receipt : {"synced", "written", "torn"}]
Writers == [pc : Pcs, target : Volumes \cup {None}, bytes : Nat, available : Int,
            attempt : {0, 1}, buffered : 0 .. MaxLen, flush : {None, "next", "last", "end"}]

\* Every variable stays in its type: the tables, the files, the threads and the counters of the code.
TypeOK ==
    /\ row \in [Ops -> Rows] /\ index \in [Ops -> Entries] /\ plan \in [Ops -> Plans]
    /\ volume \in [Volumes -> [draining : BOOLEAN, allocated : Nat, reserved : Nat, config : Config]]
    /\ retirement \in [Ops -> Retirements] /\ disk \in [Ops -> Files]
    /\ fresh \in [Ops -> BOOLEAN] /\ lease \in [Ops -> {None, "writer", "worker"}]
    /\ admission \in Ops \cup {None} /\ reading \subseteq Ops /\ faults \in 0 .. MaxFaults
    /\ writer \in [Ops -> Writers]
    /\ worker \in [pc : {"idle", "work", "absent", "retained", "removed"}, op : Ops \cup {None}]

Filesystems == {Filesystem[v] : v \in Volumes}
MinimumOn(d) == Min({Minimum[v] : v \in {u \in Volumes : Filesystem[u] = d}})

\* The triggers of schema.sql keep the counters of every volume equal to the sums over its rows,
\* through growth, checkpoints, publication at a smaller size, recovery and cancellation.
CountersExact ==
    \A v \in Volumes :
        /\ volume[v].allocated =
              SumFunction([o \in Ops |-> IF row[o].volume = v THEN Allocated(row[o]) ELSE 0])
        /\ volume[v].reserved =
              SumFunction([o \in Ops |-> IF row[o].volume = v THEN Unmaterialized(row[o]) ELSE 0])

\* What a recording may come to occupy: its whole reservation until it is published, cancelled or
\* under recovery, which never writes; after that the blocks it has.
Claimed(o) == IF row[o].state = "reserved" /\ plan[o] = NoPlan THEN row[o].bytes ELSE disk[o].len

\* Whatever was admitted on a filesystem, by all its volumes together, still fits when every
\* reservation that can be written is written in full, and leaves the smallest minimum free.  It
\* rests on the revision: a sample taken before another writer's checkpoint must be refused.
\* Nor does a volume own more than its capacity, counting reservations in full.
AdmittedFits ==
    /\ \A v \in Volumes : volume[v].allocated <= Limit[v]
    /\ \A d \in Filesystems :
          SumFunction([o \in Ops |-> IF OnFilesystem(o, d) THEN Claimed(o) ELSE 0]) + MinimumOn(d)
              <= Capacity[d]

\* A file never outgrows its reservation, although a writer and the ledger may disagree about its
\* size after a lost growth reply: the writer's view is the smaller one.  What the row counts as
\* materialized is on stable storage, until a recovery truncates or removes the file.
WrittenWithinReservation ==
    \A o \in Ops : row[o].state = "reserved" =>
        /\ disk[o].len <= row[o].bytes
        /\ plan[o] = NoPlan => row[o].materialized <= disk[o].synced
        /\ writer[o].pc # "gone" => writer[o].bytes <= row[o].bytes

\* The lease of an operation keeps the worker away from a recording that is still written: no
\* recovery is planned and nothing is released under a live writer, whatever the worker loaded.
LiveWriterUntouched ==
    \A o \in Ops :
        /\ writer[o].pc \notin {"idle", "gone", "placed", "revised"} => lease[o] = "writer"
        /\ lease[o] = "writer" => plan[o] = NoPlan /\ row[o].state \in {None, "reserved"}
        /\ worker.op = o => lease[o] = "worker"

\* A published recording is on disk, synchronized, at the recorded size and holds every fragment
\* its index names, whether its writer or the recovery published it, until its retirement removes it.
PublishedIsWhole ==
    \A o \in Ops : row[o].state = "published" /\ (disk[o].exists \/ retirement[o] # "journaled") =>
        /\ disk[o].exists /\ disk[o].len = row[o].bytes /\ disk[o].synced = row[o].bytes
        /\ index[o].recording = "final" /\ index[o].fragments \subseteq 1 .. row[o].bytes

\* No file outlives its row: what is on disk stays charged to its volume, a file without a
\* recorded identity and the leftovers that recovery refuses to touch included.
NoUnownedFile ==
    \A o \in Ops : disk[o].exists => row[o].state \in {"reserved", "published"}

\* An indexed fragment that is stored disappears only through a journaled retirement or the
\* power failure of a crash, never through recovery.
IndexedMediaKept ==
    [][\A o \in Ops : (\E f \in index[o].fragments : disk'[o].len < f /\ f <= disk[o].len)
          => retirement[o] = "journaled" \/ Crash]_vars

\* A recording that a reader holds keeps its file: journaling a retirement refuses new readers,
\* and the removal waits for the old ones.
ReadersKeepRecording == \A o \in reading : disk[o].exists /\ row[o].state # "cancelled"

\* A volume whose removal was saved holds nothing and owes nothing, from the check to the restart
\* and after: no reservation slips in between the check and the save.
RemovedIsEmpty ==
    \A v \in Volumes : volume[v].config # "running" =>
        \A o \in Ops : row[o].volume = v =>
            row[o].state = "cancelled" /\ ~disk[o].exists /\ ~Retiring(o) /\ ~Abandoning(o)

\* What the recovery leaves to an administrator: a file created but not yet identified, stored
\* bytes none of which are indexed, an index with a gap, a planned prefix lost by a power failure,
\* an abandonment whose receipt was torn.
NeedsInspection(o) ==
    \/ disk[o].exists /\ ~row[o].identity
    \/ disk[o].len > 0 /\ index[o].fragments = {} /\ ~Abandonable(o)
    \/ index[o].fragments # {} /\ ~Sealable(o)
    \/ plan[o].mode = "seal" /\ disk[o].len \notin {plan[o].original, plan[o].retained}
    \/ Abandoning(o) /\ disk[o].receipt = "torn"

\* A reservation whose writer is gone is published, released, or found to need inspection.
InterruptedSettles ==
    \A o \in Ops : (row[o].state = "reserved" /\ writer[o].pc = "gone")
        ~> (row[o].state \in {"published", "cancelled"} \/ NeedsInspection(o))

\* A journaled retirement or abandonment is finished and acknowledged, over crashes and readers,
\* unless one of its receipts is torn: retire_owned and acknowledge_retirement then refuse it for
\* ever, and begin journals nothing else on its volume.
RemovalSettles ==
    \A o \in Ops : (Retiring(o) \/ Abandoning(o))
        ~> (~(Retiring(o) \/ Abandoning(o)) \/ disk[o].receipt = "torn")
=============================================================================
