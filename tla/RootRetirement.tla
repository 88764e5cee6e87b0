--------------------------- MODULE RootRetirement ---------------------------
(***************************************************************************)
(* How a volume root removes a file it owns: Root::retire_owned and        *)
(* Root::acknowledge_retirement, at the level of system calls.             *)
(*                                                                         *)
(* A retirement writes intent.json, renames the file into the quarantine   *)
(* directory of its operation, writes staged.json and unlinks the file.    *)
(* Once the catalog has recorded the completion, the acknowledgement moves *)
(* staged.json out to <operation>.ack, empties and removes the directory,  *)
(* and removes the .ack last.  A step that fails, or a process that stops, *)
(* leaves what is on disk to the next attempt; a power failure also undoes *)
(* what was not synchronized.  Entries become durable in the order of the  *)
(* changes, as on a journalled filesystem; the contents of a file become   *)
(* durable only when the file itself is synchronized.                      *)
(*                                                                         *)
(* Each operation owns one file under one key.  Foreign files, replaced    *)
(* directories and changed evidence are not modelled: the code refuses.    *)
(***************************************************************************)
EXTENDS Naturals, FiniteSets

CONSTANTS
  Ops,              \* operations: moves, exports, images, archive transfers
  MaxReceipts,      \* MAX_RECEIPTS: quarantine directories on one volume
  MaxFaults,        \* bound on failed steps and stopped processes
  MaxPowerFailures

ASSUME BoundsAssumption ==
  /\ IsFiniteSet(Ops)
  /\ MaxReceipts \in Nat \ {0}
  /\ MaxFaults \in Nat
  /\ MaxPowerFailures \in Nat

VARIABLES
  disk,     \* of each operation: what its files look like to a process
  saved,    \* of each operation: the same as of the last synchronization
  catalog,  \* of each operation: its journal row
  pc,       \* of each operation: the step its caller is at
  faults, outages

vars == <<disk, saved, catalog, pc, faults, outages>>

\* A receipt is absent, incomplete, complete but not synchronized, or durable.
Receipt == {"none", "torn", "written", "synced"}

Files == [media : {"key", "leaf", "gone"}, dir : BOOLEAN,
          intent : Receipt, staged : Receipt, ack : Receipt]

\* Steps at which a directory has to be synchronized, and what follows.
Synced ==
  [sync_rename |-> "quarantined", sync_unlink |-> "retired",
   sync_ack |-> "clear", sync_clear |-> "rmdir", sync_rmdir |-> "remove_ack",
   sync_remove |-> "acknowledged"]

\* Steps outside the two operations of Root, when the lock is not held.
Unlocked == {"idle", "retired", "acknowledged"}

Steps == Unlocked \union DOMAIN Synced \union
  {"intent", "sync_intent", "finish", "quarantined", "sync_staged", "unlink",
   "ack", "clear", "rmdir", "remove_ack"}

\* Values have the right shape.
TypeOK ==
  /\ disk \in [Ops -> Files]
  /\ saved \in [Ops -> Files]
  /\ catalog \in [Ops -> {"open", "complete", "closed"}]
  /\ pc \in [Ops -> Steps]
  /\ faults \in 0 .. MaxFaults
  /\ outages \in 0 .. MaxPowerFailures

Untouched == [media |-> "key", dir |-> FALSE,
              intent |-> "none", staged |-> "none", ack |-> "none"]

Init ==
  /\ disk = [o \in Ops |-> Untouched]
  /\ saved = [o \in Ops |-> Untouched]
  /\ catalog = [o \in Ops |-> "open"]
  /\ pc = [o \in Ops |-> "idle"]
  /\ faults = 0
  /\ outages = 0

-----------------------------------------------------------------------------
(* Steps shared by both operations. *)

Goto(o, step) == pc' = [pc EXCEPT ![o] = step]

\* Directories are synchronized, then the files of an operation become f.
SyncThen(o, f) ==
  /\ saved' = disk
  /\ disk' = [disk EXCEPT ![o] = f]

\* The files of an operation become f, and that is made durable.
ThenSync(o, f) ==
  /\ disk' = [disk EXCEPT ![o] = f]
  /\ saved' = disk'

\* lock_staging: one operation of Root at a time on a volume.
LockFree == \A p \in Ops : pc[p] \in Unlocked

\* read_receipt returns the receipt; it returns None for an absent file and
\* fails for a torn one.
Readable(receipt) == receipt \in {"written", "synced"}

Sync(o) ==
  /\ pc[o] \in DOMAIN Synced
  /\ saved' = disk
  /\ Goto(o, Synced[pc[o]])
  /\ UNCHANGED <<disk, catalog, faults, outages>>

\* The end of write_receipt: the file and then its directory.
SyncReceipt(o) ==
  /\ \/ /\ pc[o] = "sync_intent" /\ Goto(o, "finish")
        /\ ThenSync(o, [disk[o] EXCEPT !.intent = "synced"])
     \/ /\ pc[o] = "sync_staged" /\ Goto(o, "unlink")
        /\ ThenSync(o, [disk[o] EXCEPT !.staged = "synced"])
  /\ UNCHANGED <<catalog, faults, outages>>

-----------------------------------------------------------------------------
(* Retirement. *)

\* Mutant: the limit counts one directory too many.
HasRoomOffByOne(o) ==
  disk[o].dir \/ Cardinality({p \in Ops : disk[p].dir}) <= MaxReceipts

\* bounded_directory
HasRoom(o) ==
  disk[o].dir \/ Cardinality({p \in Ops : disk[p].dir}) < MaxReceipts

\* Retirement::prepare up to the intent.
Prepare(o) ==
  /\ pc[o] = "idle" /\ catalog[o] = "open" /\ LockFree /\ HasRoom(o)
  /\ ThenSync(o, [disk[o] EXCEPT !.dir = TRUE])
  /\ Goto(o, "intent")
  /\ UNCHANGED <<catalog, faults, outages>>

\* An intent of an earlier attempt is taken up.
ReadIntent(o) ==
  /\ pc[o] = "intent" /\ Readable(disk[o].intent)
  /\ Goto(o, "finish")
  /\ UNCHANGED <<disk, saved, catalog, faults, outages>>

\* Without an intent the quarantine must be empty and the file in its place.
CanIntend(o) ==
  disk[o].intent = "none" /\ disk[o].staged = "none" /\ disk[o].media = "key"

\* Mutant: the file is taken before its owner is on record.
WriteIntentSkipped(o) ==
  /\ pc[o] = "intent" /\ CanIntend(o)
  /\ Goto(o, "finish")
  /\ UNCHANGED <<disk, saved, catalog, faults, outages>>

WriteIntent(o) ==
  /\ pc[o] = "intent" /\ CanIntend(o)
  /\ SyncThen(o, [disk[o] EXCEPT !.intent = "written"])
  /\ Goto(o, "sync_intent")
  /\ UNCHANGED <<catalog, faults, outages>>

CanQuarantine(o) == disk[o].staged = "none" /\ disk[o].media = "key"

\* The file is renamed into the quarantine.
Quarantine(o) ==
  /\ pc[o] = "finish" /\ CanQuarantine(o)
  /\ SyncThen(o, [disk[o] EXCEPT !.media = "leaf"])
  /\ Goto(o, "sync_rename")
  /\ UNCHANGED <<catalog, faults, outages>>

\* Mutant: a file with a staged receipt must have left the quarantine.
CanContinueFresh(o) == disk[o].staged = "none" /\ disk[o].media = "leaf"

CanContinue(o) == disk[o].staged # "torn" /\ disk[o].media = "leaf"

\* An earlier attempt renamed it.
Continue(o) ==
  /\ pc[o] = "finish" /\ CanContinue(o)
  /\ Goto(o, "quarantined")
  /\ UNCHANGED <<disk, saved, catalog, faults, outages>>

CanSkip(o) == Readable(disk[o].staged) /\ disk[o].media = "gone"

\* An earlier attempt unlinked it, and its staged receipt says so.
AlreadyUnlinked(o) ==
  /\ pc[o] = "finish" /\ CanSkip(o)
  /\ saved' = disk
  /\ Goto(o, "retired")
  /\ UNCHANGED <<disk, catalog, faults, outages>>

\* Mutant: the file is unlinked on the strength of the intent.
WriteStagedSkipped(o) ==
  /\ pc[o] = "quarantined" /\ disk[o].staged = "none"
  /\ SyncThen(o, disk[o])
  /\ Goto(o, "unlink")
  /\ UNCHANGED <<catalog, faults, outages>>

WriteStaged(o) ==
  /\ pc[o] = "quarantined" /\ disk[o].staged = "none"
  /\ SyncThen(o, [disk[o] EXCEPT !.staged = "written"])
  /\ Goto(o, "sync_staged")
  /\ UNCHANGED <<catalog, faults, outages>>

\* A staged receipt that was read at the start is not written again.
StagedBefore(o) ==
  /\ pc[o] = "quarantined" /\ disk[o].staged # "none"
  /\ Goto(o, "unlink")
  /\ UNCHANGED <<disk, saved, catalog, faults, outages>>

\* revalidate synchronizes the directory before the file is removed.
Unlink(o) ==
  /\ pc[o] = "unlink"
  /\ SyncThen(o, [disk[o] EXCEPT !.media = "gone"])
  /\ Goto(o, "sync_unlink")
  /\ UNCHANGED <<catalog, faults, outages>>

\* The caller records in the catalog that the file is gone.
Complete(o) ==
  /\ pc[o] = "retired"
  /\ catalog' = [catalog EXCEPT ![o] = "complete"]
  /\ Goto(o, "idle")
  /\ UNCHANGED <<disk, saved, faults, outages>>

-----------------------------------------------------------------------------
(* Acknowledgement. *)

\* Root::acknowledge_retirement up to the lock; opening synchronizes.
Acknowledge(o) ==
  /\ pc[o] = "idle" /\ catalog[o] = "complete" /\ LockFree
  /\ saved' = disk
  /\ Goto(o, "ack")
  /\ UNCHANGED <<disk, catalog, faults, outages>>

\* Neither directory nor receipt: an earlier attempt finished.
NothingToClear(o) ==
  /\ pc[o] = "ack" /\ disk[o].ack = "none" /\ ~disk[o].dir
  /\ Goto(o, "acknowledged")
  /\ UNCHANGED <<disk, saved, catalog, faults, outages>>

CanMoveReceipt(o) ==
  /\ disk[o].ack = "none" /\ disk[o].dir /\ Readable(disk[o].staged)
  /\ disk[o].media = "gone" /\ disk[o].intent # "torn"

MoveReceipt(o) ==
  /\ pc[o] = "ack" /\ CanMoveReceipt(o)
  /\ SyncThen(o, [disk[o] EXCEPT !.ack = disk[o].staged, !.staged = "none"])
  /\ Goto(o, "sync_ack")
  /\ UNCHANGED <<catalog, faults, outages>>

ReceiptMovedBefore(o) ==
  /\ pc[o] = "ack" /\ Readable(disk[o].ack)
  /\ Goto(o, "clear")
  /\ UNCHANGED <<disk, saved, catalog, faults, outages>>

CanClear(o) ==
  /\ disk[o].dir /\ disk[o].media = "gone"
  /\ disk[o].staged = "none" /\ disk[o].intent # "torn"

\* finish_ack with a directory: its remaining receipt goes first.
RemoveIntent(o) ==
  /\ pc[o] = "clear" /\ CanClear(o)
  /\ SyncThen(o, [disk[o] EXCEPT !.intent = "none"])
  /\ Goto(o, "sync_clear")
  /\ UNCHANGED <<catalog, faults, outages>>

\* finish_ack without one.
DirectoryGone(o) ==
  /\ pc[o] = "clear" /\ ~disk[o].dir
  /\ Goto(o, "remove_ack")
  /\ UNCHANGED <<disk, saved, catalog, faults, outages>>

\* Mutant: the receipt goes together with the directory.
RemoveDirectoryAndAck(o) ==
  /\ pc[o] = "rmdir"
  /\ SyncThen(o, [disk[o] EXCEPT !.ack = "none"])
  /\ Goto(o, "sync_rmdir")
  /\ UNCHANGED <<catalog, faults, outages>>

RemoveDirectory(o) ==
  /\ pc[o] = "rmdir"
  /\ SyncThen(o, [disk[o] EXCEPT !.dir = FALSE])
  /\ Goto(o, "sync_rmdir")
  /\ UNCHANGED <<catalog, faults, outages>>

RemoveAck(o) ==
  /\ pc[o] = "remove_ack"
  /\ SyncThen(o, [disk[o] EXCEPT !.ack = "none"])
  /\ Goto(o, "sync_remove")
  /\ UNCHANGED <<catalog, faults, outages>>

\* The caller records that nothing of the operation is left.
Close(o) ==
  /\ pc[o] = "acknowledged"
  /\ catalog' = [catalog EXCEPT ![o] = "closed"]
  /\ Goto(o, "idle")
  /\ UNCHANGED <<disk, saved, faults, outages>>

-----------------------------------------------------------------------------
(* Refusals, faults and power failures. *)

\* What is on disk fails a check; the caller will try again.
Refuse(o) ==
  /\ \/ pc[o] = "intent" /\ ~Readable(disk[o].intent) /\ ~CanIntend(o)
     \/ pc[o] = "finish" /\ ~CanQuarantine(o) /\ ~CanContinue(o) /\ ~CanSkip(o)
     \/ /\ pc[o] = "ack"
        /\ disk[o].ack = "torn" \/ (disk[o].ack = "none" /\ disk[o].dir)
        /\ ~CanMoveReceipt(o)
     \/ pc[o] = "clear" /\ disk[o].dir /\ ~CanClear(o)
  /\ Goto(o, "idle")
  /\ UNCHANGED <<disk, saved, catalog, faults, outages>>

\* A system call or a catalog request fails, the deadline passes, or the
\* process stops: the lock is released and nothing is undone.
Fault(o) ==
  /\ pc[o] # "idle" /\ faults < MaxFaults
  /\ faults' = faults + 1
  /\ Goto(o, "idle")
  /\ UNCHANGED <<disk, saved, catalog, outages>>

\* The same inside write_receipt, after the file was created.
Tear(o) ==
  /\ faults < MaxFaults
  /\ \/ /\ pc[o] = "intent" /\ CanIntend(o)
        /\ SyncThen(o, [disk[o] EXCEPT !.intent = "torn"])
     \/ /\ pc[o] = "quarantined" /\ disk[o].staged = "none"
        /\ SyncThen(o, [disk[o] EXCEPT !.staged = "torn"])
  /\ faults' = faults + 1
  /\ Goto(o, "idle")
  /\ UNCHANGED <<catalog, outages>>

\* What a power failure may leave of a receipt.
Kept(receipt) == IF receipt = "written" THEN {"torn", "synced"} ELSE {receipt}

\* What it may leave of files f.
Survivors(f) ==
  [media : {f.media}, dir : {f.dir}, intent : Kept(f.intent),
   staged : Kept(f.staged), ack : Kept(f.ack)]

\* The last change of an entry survives or does not; a rename is never half
\* done.
PowerFailure ==
  /\ outages < MaxPowerFailures
  /\ outages' = outages + 1
  /\ \E view \in {disk, saved} :
       disk' \in {d \in [Ops -> UNION {Survivors(view[o]) : o \in Ops}] :
                    \A o \in Ops : d[o] \in Survivors(view[o])}
  /\ saved' = disk'
  /\ pc' = [o \in Ops |-> "idle"]
  /\ UNCHANGED <<catalog, faults>>

Retire(o) ==
  \/ Prepare(o) \/ ReadIntent(o) \/ WriteIntent(o)
  \/ Quarantine(o) \/ Continue(o) \/ AlreadyUnlinked(o)
  \/ WriteStaged(o) \/ StagedBefore(o) \/ Unlink(o) \/ Complete(o)

AcknowledgeRetirement(o) ==
  \/ Acknowledge(o) \/ NothingToClear(o) \/ MoveReceipt(o) \/ ReceiptMovedBefore(o)
  \/ RemoveIntent(o) \/ DirectoryGone(o) \/ RemoveDirectory(o) \/ RemoveAck(o) \/ Close(o)

Step(o) ==
  Retire(o) \/ AcknowledgeRetirement(o) \/ Sync(o) \/ SyncReceipt(o) \/ Refuse(o)

Next == PowerFailure \/ \E o \in Ops : Step(o) \/ Fault(o) \/ Tear(o)

Spec == Init /\ [][Next]_vars

\* An attempt runs to its end, and every caller keeps retrying, so that it
\* finds the lock free and room in the quarantine again and again.
Fairness ==
  \A o \in Ops : SF_vars(Prepare(o)) /\ SF_vars(Acknowledge(o)) /\ WF_vars(pc[o] # "idle" /\ Step(o))

LiveSpec == Spec /\ Fairness

-----------------------------------------------------------------------------
(* Properties. *)

\* The two views of an operation's files: now, and after a power failure.
Views(o) == {disk[o], saved[o]}

\* A file never disappears without a staged receipt, now or after a power
\* failure, until the catalog knows: finish writes the receipt first.  Without
\* it the next attempt of retire_owned rejects "ambiguous absence" for ever.
AbsenceIsExplained ==
  \A o \in Ops : catalog[o] = "open" =>
    \A f \in Views(o) : f.media = "gone" => f.dir /\ f.intent # "none" /\ f.staged # "none"

\* A file in the quarantine has an intent that names its owner.
QuarantineIsOwned ==
  \A o \in Ops : \A f \in Views(o) :
    f.media = "leaf" => f.dir /\ f.intent # "none" /\ catalog[o] = "open"

\* As long as the directory of a completed operation is there, so is a
\* receipt that lets acknowledge_retirement resume; the .ack goes last.
CleanupHasProof ==
  \A o \in Ops : catalog[o] = "complete" =>
    \A f \in Views(o) : f.media = "gone" /\ (f.dir => "none" # f.staged \/ "none" # f.ack)

IsCleared(f) ==
  /\ f.media = "gone" /\ ~f.dir
  /\ f.intent = "none" /\ f.staged = "none" /\ f.ack = "none"

\* A closed operation has left nothing behind, even after a power failure.
NothingLeftBehind ==
  \A o \in Ops : catalog[o] = "closed" =>
    \A f \in Views(o) : IsCleared(f)

\* "4096 retained jobs stop new work", also across failures.
QuarantineBounded == Cardinality({o \in Ops : disk[o].dir}) <= MaxReceipts

Torn(o) == "torn" \in {disk[o].intent, disk[o].staged, disk[o].ack}

\* A torn receipt of its own, or a quarantine full of torn ones.
Blocked(o) ==
  \/ Torn(o)
  \/ ~disk[o].dir /\ Cardinality({p \in Ops : disk[p].dir /\ Torn(p)}) >= MaxReceipts

\* Every retirement is finished and acknowledged in the end, whatever step
\* failed before, unless a torn receipt stands in the way.
RetirementFinishes == \A o \in Ops : <>[](catalog[o] = "closed" \/ Blocked(o))

\* The receipt of an operation as its callers see it.
Proof(f) ==
  IF Readable(f.staged) \/ Readable(f.ack) THEN "staged"
  ELSE IF f.media = "leaf" THEN "moved" ELSE "none"

Removal == INSTANCE OwnedRemoval WITH
  placed <- {o \in Ops : disk[o].media = "key"},
  receipt <- [o \in Ops |-> Proof(disk[o])],
  done <- {o \in Ops : catalog[o] # "open"}

\* Every step but a power failure, failed ones and those of a recovery
\* included, is a step of the removal with a receipt that VolumeMove takes for
\* granted, or does not show there.
ImplementsRemoval ==
  Removal!Init /\ [][outages' = outages => [Removal!Next]_(Removal!vars)]_vars

\* Violated.  The receipt that proves the removal of an unlinked file is
\* durable: a power failure does not tear it.
ReceiptSurvives ==
  \A o \in Ops : disk[o].media = "gone" => "torn" \notin {disk[o].staged, disk[o].ack}

-----------------------------------------------------------------------------
(* The inductive invariant of the proofs. *)

\* Both views of the files agree with the journal row.
FilesInv(f, row) ==
  /\ row = "open" =>
       /\ f.ack = "none"
       /\ f.media # "key" => f.intent # "none"
       /\ f.media = "gone" => f.staged # "none"
       /\ f.staged # "none" => f.media # "key"
       /\ f.intent # "none" => f.dir
  /\ row = "complete" =>
       /\ f.media = "gone"
       /\ f.dir => f.staged # "none" \/ f.ack # "none"
       /\ ~f.dir => f.staged = "none" /\ f.intent = "none"
  /\ row = "closed" => IsCleared(f)

\* What the caller has established at each step.
StepInv(step, f, s, row) ==
  /\ step \in {"intent", "sync_intent", "finish", "sync_rename", "quarantined",
               "sync_staged", "unlink", "sync_unlink", "retired"} => row = "open" /\ f.dir
  /\ step = "sync_intent" => f.intent = "written"
  /\ step = "finish" => f.intent # "none"
  /\ step \in {"sync_rename", "quarantined", "sync_staged", "unlink"} => f.media = "leaf"
  /\ step \in {"sync_rename", "quarantined"} => f.staged # "torn"
  /\ step = "sync_staged" => f.staged = "written"
  /\ step \in {"unlink", "sync_unlink", "retired"} => Readable(f.staged)
  /\ step \in {"sync_unlink", "retired"} => f.media = "gone"
  /\ step \in {"retired", "ack", "acknowledged"} => s = f
  /\ step \in {"ack", "sync_ack", "clear", "sync_clear", "rmdir", "sync_rmdir",
               "remove_ack", "sync_remove", "acknowledged"} => row = "complete"
  /\ step \in {"sync_ack", "clear", "sync_clear", "rmdir", "sync_rmdir", "remove_ack"} =>
       Readable(f.ack)
  /\ step \in {"sync_clear", "rmdir"} => f.intent = "none" /\ f.staged = "none"
  /\ step \in {"sync_rmdir", "remove_ack"} => ~f.dir
  /\ step \in {"sync_remove", "acknowledged"} => IsCleared(f)

OpInv(o) ==
  /\ FilesInv(disk[o], catalog[o])
  /\ FilesInv(saved[o], catalog[o])
  /\ StepInv(pc[o], disk[o], saved[o], catalog[o])

\* The inductive invariant.
IInv == TypeOK /\ \A o \in Ops : OpInv(o)
=============================================================================
