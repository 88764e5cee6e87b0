----------------------------- MODULE VolumeMove -----------------------------
(***************************************************************************)
(* Moves of one stored object between named volumes.                       *)
(*                                                                         *)
(* The durable state is the catalog (the move journal and the allocation   *)
(* ledger) and the files on the volumes.  Every catalog request runs as    *)
(* one transaction of a single actor, so each is one atomic action.  File  *)
(* operations and catalog requests of a worker are separate actions:       *)
(* cancellation, readers, faults and power failures fall between any two.  *)
(*                                                                         *)
(* A destination allocation has the identifier of its job.  An allocation  *)
(* owns at most one file, created once under its temporary name, so "the   *)
(* file has the recorded identity" is "an identity was recorded".          *)
(***************************************************************************)
EXTENDS Naturals, FiniteSets

CONSTANTS
  Jobs,       \* identifiers of the moves an operator or a policy may admit
  Origin,     \* the operation that published the object in the first place
  Volumes,    \* named volumes
  Home,       \* the volume of the original allocation
  Workers,    \* threads that run move jobs
  Readers,    \* playback, export and image readers
  Size,       \* length of the object, in copied blocks
  MaxFaults   \* bound on failed steps and power failures

Ops == Jobs \union {Origin}
None == "none"

ASSUME ConstantsAssumption ==
  /\ Origin \notin Jobs
  /\ None \notin Ops
  /\ Home \in Volumes
  /\ Size \in Nat \ {0}
  /\ MaxFaults \in Nat

VARIABLES
  \* The journal, storage_volume_moves.
  phase, source,  \* of each job: how far it is, and the allocation it leaves
  cancelling,     \* jobs whose cancellation was requested
  evidence,       \* of each job: the target file a cancellation has captured
  acked,          \* jobs whose receipt was acknowledged
  \* The ledger, storage_volume_allocations.
  state, volume,  \* of each allocation
  owner,          \* the allocation whose row names the object
  identified,     \* allocations with a recorded file identity
  materialized,   \* of each allocation: bytes known to be on disk
  revision,       \* of each allocation: location revision
  \* Files, one per allocation: name, length, durable length.
  at, bytes, synced,
  damaged,        \* allocations whose file does not hold the object's bytes
  receipt,        \* of each job: its removal receipt in a volume's quarantine
  contents,       \* of each job: whether that receipt is durable and readable
  \* Processes.
  pc, claim,      \* of each worker: its step, and the job it has claimed
  captured,       \* of each worker: the cancellation evidence it has found
  lease,          \* of each reader: the allocation whose path it holds
  faults

journal == <<phase, source, cancelling, evidence, acked>>
ledger  == <<state, volume, owner, identified, materialized, revision>>
files   == <<at, bytes, synced, damaged, receipt, contents>>
worker  == <<pc, claim, captured>>
vars    == <<journal, ledger, files, worker, lease, faults>>

Phases == {"absent", "reserved", "verified", "file_published", "published",
           "retiring", "complete", "cancelled"}
Cancellable == {"reserved", "verified", "file_published"}
SourceSuperseded == {"published", "retiring", "complete"}
Terminal == {"complete", "cancelled"}

Evidence == {None, "empty", "tmp", "final"}

\* What the intent and the staged receipt of a job hold: all of it, all of it
\* but not synchronized, or less, which read_receipt refuses.
Contents == {"synced", "written", "torn"}

Steps == {"idle", "open", "checkpoint", "copy", "verify", "rename", "inspect",
          "file_published", "publish", "ready", "pin", "retiring", "remove",
          "stage", "retired", "pin_source", "capture", "record", "confirm",
          "cancelled", "ack_receipt", "acknowledge"}

TypeOK ==
  /\ phase \in [Jobs -> Phases] /\ source \in [Jobs -> Ops]
  /\ cancelling \subseteq Jobs /\ acked \subseteq Jobs
  /\ evidence \in [Jobs -> Evidence]
  /\ state \in [Ops -> {"absent", "reserved", "published", "cancelled"}]
  /\ volume \in [Ops -> Volumes]
  /\ owner \in Ops /\ identified \subseteq Ops
  /\ materialized \in [Ops -> 0..Size] /\ revision \in [Ops -> Nat]
  /\ at \in [Ops -> {None, "tmp", "final"}]
  /\ bytes \in [Ops -> 0..Size] /\ synced \in [Ops -> 0..Size]
  /\ damaged \subseteq Ops
  /\ receipt \in [Jobs -> {None, "moved", "staged"}]
  /\ contents \in [Jobs -> Contents]
  /\ pc \in [Workers -> Steps] /\ claim \in [Workers -> Jobs \union {None}]
  /\ captured \in [Workers -> Evidence]
  /\ lease \in [Readers -> Ops \union {None}]
  /\ faults \in 0..MaxFaults

\* The object was recorded, sealed and published on its home volume.
Init ==
  /\ phase = [j \in Jobs |-> "absent"] /\ source = [j \in Jobs |-> Origin]
  /\ cancelling = {} /\ acked = {} /\ evidence = [j \in Jobs |-> None]
  /\ state = [o \in Ops |-> IF o = Origin THEN "published" ELSE "absent"]
  /\ volume = [o \in Ops |-> Home]
  /\ owner = Origin /\ identified = {Origin}
  /\ materialized = [o \in Ops |-> IF o = Origin THEN Size ELSE 0]
  /\ revision = [o \in Ops |-> IF o = Origin THEN 1 ELSE 0]
  /\ at = [o \in Ops |-> IF o = Origin THEN "final" ELSE None]
  /\ bytes = materialized /\ synced = materialized /\ damaged = {}
  /\ receipt = [j \in Jobs |-> None] /\ contents = [j \in Jobs |-> "synced"]
  /\ pc = [w \in Workers |-> "idle"] /\ claim = [w \in Workers |-> None]
  /\ captured = [w \in Workers |-> None]
  /\ lease = [r \in Readers |-> None]
  /\ faults = 0

-----------------------------------------------------------------------------
(* Catalog queries and file checks. *)

\* ownership::lookup: the published allocation that names the object, unless a
\* published move has superseded it.
Lookup ==
  {o \in {owner} : /\ state[o] = "published"
                   /\ ~ \E j \in Jobs : source[j] = o /\ phase[j] \in SourceSuperseded}

\* The file hashes to the object's digest.
Complete(o) == bytes[o] = Size /\ o \notin damaged

\* verify_published and its likes: the complete object under its final name.
Published(o) == at[o] = "final" /\ Complete(o)

\* verify_authority: the destination is where the object lives now, one
\* location revision after the source.
VerifyAuthority(j) ==
  /\ Lookup = {j}
  /\ j \in identified
  /\ revision[j] = revision[source[j]] + 1

\* moves::ensure_writable
EnsureWritable(j) == phase[j] = "reserved" /\ j \notin cancelling

\* Registry::conflicts: somebody reads the object, at whichever path.
Conflicts == \E r \in Readers : lease[r] # None

(* How a worker proceeds. *)

Goto(w, step) == pc' = [pc EXCEPT ![w] = step] /\ UNCHANGED <<claim, captured>>

\* The end of a job, by success or by an error, drops the claim.
Leave(w) ==
  /\ pc' = [pc EXCEPT ![w] = "idle"]
  /\ claim' = [claim EXCEPT ![w] = None]
  /\ captured' = [captured EXCEPT ![w] = None]

\* Registry::claim_move: at most one worker holds a job.
ClaimMove(w, j, step) ==
  /\ pc[w] = "idle"
  /\ \A v \in Workers : claim[v] # j
  /\ pc' = [pc EXCEPT ![w] = step]
  /\ claim' = [claim EXCEPT ![w] = j]
  /\ UNCHANGED <<journal, ledger, files, captured, lease, faults>>

-----------------------------------------------------------------------------
(* Requests of the operator and of readers. *)

\* moves::begin: one journal row and one reserved allocation in a transaction.
\* The object has at most one move that is not complete or cancelled.
Begin(j, v) ==
  /\ phase[j] = "absent"
  /\ \A k \in Jobs : phase[k] \in Terminal \union {"absent"}
  /\ \E o \in Lookup : volume[o] # v /\ source' = [source EXCEPT ![j] = o]
  /\ phase' = [phase EXCEPT ![j] = "reserved"]
  /\ state' = [state EXCEPT ![j] = "reserved"]
  /\ volume' = [volume EXCEPT ![j] = v]
  /\ UNCHANGED <<cancelling, evidence, acked, owner, identified, materialized, revision>>
  /\ UNCHANGED <<files, worker, lease, faults>>

\* moves::cancel latches the request; a worker carries it out later.
Cancel(j) ==
  /\ phase[j] \in Cancellable
  /\ cancelling' = cancelling \union {j}
  /\ UNCHANGED <<phase, source, evidence, acked, ledger, files, worker, lease, faults>>

\* A reader resolves the object and takes its lease in one catalog request.
Lease(r) ==
  /\ lease[r] = None
  /\ \E o \in Lookup : lease' = [lease EXCEPT ![r] = o]
  /\ UNCHANGED <<journal, ledger, files, worker, faults>>

Release(r) ==
  /\ lease[r] # None
  /\ lease' = [lease EXCEPT ![r] = None]
  /\ UNCHANGED <<journal, ledger, files, worker, faults>>

-----------------------------------------------------------------------------
(* Copying: resume_move and finish_copy. *)

\* resume_move claims the job, loads it and dispatches on its phase.
Resume(w, j) ==
  /\ j \notin cancelling
  /\ \/ phase[j] = "reserved" /\ ClaimMove(w, j, "open")
     \/ phase[j] = "verified" /\ ClaimMove(w, j, "rename")
     \/ phase[j] = "file_published" /\ ClaimMove(w, j, "inspect")

\* The temporary file is created when the journal knows no file, and reopened
\* when it does.  create_file never replaces an existing name.
CanOpen(j) ==
  /\ at[source[j]] = "final"
  /\ j \in identified => at[j] = "tmp" /\ bytes[j] >= materialized[j]
  /\ j \notin identified => at[j] # "tmp"

OpenTemporary(w) ==
  /\ pc[w] = "open" /\ CanOpen(claim[w])
  /\ at' = [at EXCEPT ![claim[w]] = "tmp"]
  /\ Goto(w, "checkpoint")
  /\ UNCHANGED <<journal, ledger, bytes, synced, damaged, receipt, contents, lease, faults>>

\* ReservedFile::checkpoint syncs the file; materialization::checkpoint then
\* records its identity and length.
CanCheckpoint(j) ==
  /\ EnsureWritable(j)
  /\ state[j] = "reserved"
  /\ bytes[j] >= materialized[j]

Checkpoint(w) ==
  /\ pc[w] \in {"checkpoint", "copy"} /\ CanCheckpoint(claim[w])
  /\ synced' = [synced EXCEPT ![claim[w]] = bytes[claim[w]]]
  /\ identified' = identified \union {claim[w]}
  /\ materialized' = [materialized EXCEPT ![claim[w]] = bytes[claim[w]]]
  /\ Goto(w, "copy")
  /\ UNCHANGED <<journal, state, volume, owner, revision>>
  /\ UNCHANGED <<at, bytes, damaged, receipt, contents, lease, faults>>

\* The sync of a checkpoint that the catalog refuses.
CheckpointRefused(w) ==
  /\ pc[w] \in {"checkpoint", "copy"} /\ ~CanCheckpoint(claim[w])
  /\ synced' = [synced EXCEPT ![claim[w]] = bytes[claim[w]]]
  /\ Leave(w)
  /\ UNCHANGED <<journal, ledger, at, bytes, damaged, receipt, contents, lease, faults>>

\* One block of copy_bytes.  The copy starts at the length it found.
CopyBlock(w) ==
  /\ pc[w] = "copy" /\ bytes[claim[w]] < Size
  /\ bytes' = [bytes EXCEPT ![claim[w]] = @ + 1]
  /\ UNCHANGED <<journal, ledger, at, synced, damaged, receipt, contents, worker, lease, faults>>

\* Mutant: the copy is hashed from the page cache without a sync.
HashCopyUnsynced(w) ==
  /\ pc[w] = "copy" /\ bytes[claim[w]] = Size
  /\ \/ claim[w] \notin damaged /\ Goto(w, "verify")
     \/ claim[w] \in damaged /\ Leave(w)
  /\ UNCHANGED <<journal, ledger, files, lease, faults>>

\* OwnedFile::evidence syncs and hashes the complete copy.
HashCopy(w) ==
  /\ pc[w] = "copy" /\ bytes[claim[w]] = Size
  /\ synced' = [synced EXCEPT ![claim[w]] = Size]
  /\ \/ claim[w] \notin damaged /\ Goto(w, "verify")
     \/ claim[w] \in damaged /\ Leave(w)
  /\ UNCHANGED <<journal, ledger, at, bytes, damaged, receipt, contents, lease, faults>>

\* moves::verify
CanVerify(j) ==
  /\ j \notin cancelling
  /\ phase[j] \in {"reserved", "verified"}
  /\ state[j] = "reserved"

Verify(w) ==
  /\ pc[w] = "verify" /\ CanVerify(claim[w])
  /\ phase' = [phase EXCEPT ![claim[w]] = "verified"]
  /\ identified' = identified \union {claim[w]}
  /\ materialized' = [materialized EXCEPT ![claim[w]] = Size]
  /\ Goto(w, "rename")
  /\ UNCHANGED <<source, cancelling, evidence, acked, state, volume, owner, revision>>
  /\ UNCHANGED <<files, lease, faults>>

\* publish_staged gives the temporary file its final name.  Recovery of a
\* verified move skips the rename when the temporary name is gone.
CanRename(j) == at[j] = "tmp" => Complete(j)

Rename(w) ==
  /\ pc[w] = "rename" /\ CanRename(claim[w])
  /\ at' = [at EXCEPT ![claim[w]] = IF @ = "tmp" THEN "final" ELSE @]
  /\ Goto(w, "inspect")
  /\ UNCHANGED <<journal, ledger, bytes, synced, damaged, receipt, contents, lease, faults>>

\* verify_published
Inspect(w) ==
  /\ pc[w] = "inspect" /\ Published(claim[w])
  /\ Goto(w, IF phase[claim[w]] = "verified" THEN "file_published" ELSE "publish")
  /\ UNCHANGED <<journal, ledger, files, lease, faults>>

\* Step::FilePublished
CanFilePublish(j) == j \notin cancelling /\ phase[j] \in {"verified", "file_published"}

FilePublished(w) ==
  /\ pc[w] = "file_published" /\ CanFilePublish(claim[w])
  /\ phase' = [phase EXCEPT ![claim[w]] = "file_published"]
  /\ Goto(w, "publish")
  /\ UNCHANGED <<source, cancelling, evidence, acked, ledger, files, lease, faults>>

\* Mutant: publication overlooks a latched cancellation.
CanPublishCancelled(j) ==
  /\ phase[j] = "file_published"
  /\ Lookup = {source[j]}
  /\ state[j] = "reserved" /\ j \in identified

\* moves::publish: authority passes from the source to the destination.  The
\* worker drops its claim and takes it again to retire the source.
CanPublish(j) ==
  /\ j \notin cancelling
  /\ phase[j] = "file_published"
  /\ Lookup = {source[j]}
  /\ state[j] = "reserved" /\ j \in identified

Publish(w) ==
  /\ pc[w] = "publish" /\ CanPublish(claim[w])
  /\ phase' = [phase EXCEPT ![claim[w]] = "published"]
  /\ state' = [state EXCEPT ![claim[w]] = "published"]
  /\ owner' = claim[w]
  /\ revision' = [revision EXCEPT ![claim[w]] = revision[source[claim[w]]] + 1]
  /\ Leave(w)
  /\ UNCHANGED <<source, cancelling, evidence, acked, volume, identified, materialized>>
  /\ UNCHANGED <<files, lease, faults>>

-----------------------------------------------------------------------------
(* Retirement of the old copy: retire_move. *)

Retire(w, j) ==
  \/ phase[j] \in {"published", "retiring"} /\ ClaimMove(w, j, "ready")
  \/ phase[j] = "complete" /\ j \notin acked /\ ClaimMove(w, j, "ack_receipt")

\* Mutant: retirement does not ask whether anybody reads.
CanBeReadyUnread(j) ==
  /\ phase[j] \in {"published", "retiring"}
  /\ \E o \in Lookup : revision[o] > revision[source[j]]

\* retirement_ready: authority has moved on and nobody reads the object.
CanBeReady(j) ==
  /\ phase[j] \in {"published", "retiring"}
  /\ \E o \in Lookup : revision[o] > revision[source[j]]
  /\ ~Conflicts

Ready(w) ==
  /\ pc[w] = "ready" /\ CanBeReady(claim[w])
  /\ Goto(w, "pin")
  /\ UNCHANGED <<journal, ledger, files, lease, faults>>

\* pin_retirement_destination
CanPin(j) == VerifyAuthority(j) /\ Published(j)

\* Mutant: the old copy is removed before the journal says so.
PinDestinationAndRemove(w) ==
  /\ pc[w] = "pin" /\ CanPin(claim[w])
  /\ Goto(w, "remove")
  /\ UNCHANGED <<journal, ledger, files, lease, faults>>

PinDestination(w) ==
  /\ pc[w] = "pin" /\ CanPin(claim[w])
  /\ Goto(w, "retiring")
  /\ UNCHANGED <<journal, ledger, files, lease, faults>>

\* Step::Retiring
CanStartRetiring(j) ==
  /\ j \notin cancelling
  /\ VerifyAuthority(j)
  /\ phase[j] \in {"published", "retiring"}

Retiring(w) ==
  /\ pc[w] = "retiring" /\ CanStartRetiring(claim[w])
  /\ phase' = [phase EXCEPT ![claim[w]] = "retiring"]
  /\ Goto(w, "remove")
  /\ UNCHANGED <<source, cancelling, evidence, acked, ledger, files, lease, faults>>

\* Root::retire_owned removes the victim of the job: the old copy, or the
\* target of a cancelled move.  A receipt makes the removal repeatable.
Victim(j) == IF j \in cancelling THEN j ELSE source[j]
VictimKey(j) == IF j \in cancelling THEN evidence[j] ELSE "final"
Present(j) == at[Victim(j)] = VictimKey(j)
AfterRemoval(j) == IF j \in cancelling THEN "cancelled" ELSE "retired"

CanRemove(j) ==
  /\ contents[j] # "torn"
  /\ \/ receipt[j] = None /\ Present(j)
     \/ receipt[j] = "moved"
     \/ receipt[j] = "staged" /\ ~Present(j)

\* The intent is written and the file renamed into the quarantine.
Remove(w) ==
  /\ pc[w] = "remove" /\ receipt[claim[w]] = None /\ CanRemove(claim[w])
  /\ at' = [at EXCEPT ![Victim(claim[w])] = None]
  /\ receipt' = [receipt EXCEPT ![claim[w]] = "moved"]
  /\ Goto(w, "stage")
  /\ UNCHANGED <<journal, ledger, bytes, synced, damaged, contents, lease, faults>>

\* Mutant: any receipt from an earlier attempt is taken for a staged one.
RemoveAgainUnstaged(w) ==
  /\ pc[w] = "remove" /\ receipt[claim[w]] # None /\ CanRemove(claim[w])
  /\ Goto(w, AfterRemoval(claim[w]))
  /\ UNCHANGED <<journal, ledger, files, lease, faults>>

\* A receipt from an earlier attempt is taken up where it was left.
RemoveAgain(w) ==
  /\ pc[w] = "remove" /\ receipt[claim[w]] # None /\ CanRemove(claim[w])
  /\ Goto(w, IF receipt[claim[w]] = "moved" THEN "stage" ELSE AfterRemoval(claim[w]))
  /\ UNCHANGED <<journal, ledger, files, lease, faults>>

\* The staged receipt is written and the quarantined file unlinked.
Stage(w) ==
  /\ pc[w] = "stage"
  /\ receipt' = [receipt EXCEPT ![claim[w]] = "staged"]
  /\ Goto(w, AfterRemoval(claim[w]))
  /\ UNCHANGED <<journal, ledger, at, bytes, synced, damaged, contents, lease, faults>>

\* moves::retire: the source allocation gives its bytes back.
CanRetire(j) ==
  /\ j \notin cancelling
  /\ phase[j] = "retiring"
  /\ VerifyAuthority(j)
  /\ state[source[j]] = "published"

Retired(w) ==
  /\ pc[w] = "retired" /\ CanRetire(claim[w])
  /\ phase' = [phase EXCEPT ![claim[w]] = "complete"]
  /\ state' = [state EXCEPT ![source[claim[w]]] = "cancelled"]
  /\ Goto(w, "ack_receipt")
  /\ UNCHANGED <<source, cancelling, evidence, acked>>
  /\ UNCHANGED <<volume, owner, identified, materialized, revision, files, lease, faults>>

\* Root::acknowledge_retirement clears the receipt, which it has to read.
CanClearReceipt(j) ==
  receipt[j] = None \/ (receipt[j] = "staged" /\ contents[j] # "torn" /\ ~Present(j))

AcknowledgeReceipt(w) ==
  /\ pc[w] = "ack_receipt" /\ CanClearReceipt(claim[w])
  /\ receipt' = [receipt EXCEPT ![claim[w]] = None]
  /\ contents' = [contents EXCEPT ![claim[w]] = "synced"]
  /\ Goto(w, "acknowledge")
  /\ UNCHANGED <<journal, ledger, at, bytes, synced, damaged, lease, faults>>

\* moves::acknowledge
CanAcknowledge(j) == phase[j] \in Terminal

Acknowledge(w) ==
  /\ pc[w] = "acknowledge" /\ CanAcknowledge(claim[w])
  /\ acked' = acked \union {claim[w]}
  /\ Leave(w)
  /\ UNCHANGED <<phase, source, cancelling, evidence, ledger, files, lease, faults>>

-----------------------------------------------------------------------------
(* Cancellation: finish_cancelled_move. *)

AfterCancelled(j) == IF evidence[j] = "empty" THEN "acknowledge" ELSE "ack_receipt"

\* Mutant: a cancelled move that was not acknowledged is not taken up again.
FinishCancelledOnce(w, j) ==
  /\ j \in cancelling
  /\ phase[j] \in Cancellable /\ ClaimMove(w, j, "pin_source")

FinishCancelled(w, j) ==
  /\ j \in cancelling
  /\ \/ phase[j] \in Cancellable /\ ClaimMove(w, j, "pin_source")
     \/ phase[j] = "cancelled" /\ j \notin acked /\ ClaimMove(w, j, AfterCancelled(j))

\* pin_cancellation_source, then the stored evidence when there is some.
CanPinSource(j) == Lookup = {source[j]} /\ Published(source[j])

\* Mutant: recorded evidence is taken for a finished removal.
PinSourceTrusting(w) ==
  /\ pc[w] = "pin_source" /\ CanPinSource(claim[w])
  /\ Goto(w, IF evidence[claim[w]] = None THEN "capture" ELSE "cancelled")
  /\ UNCHANGED <<journal, ledger, files, lease, faults>>

PinSource(w) ==
  /\ pc[w] = "pin_source" /\ CanPinSource(claim[w])
  /\ Goto(w, CASE evidence[claim[w]] = None    -> "capture"
               [] evidence[claim[w]] = "empty" -> "confirm"
               [] OTHER                        -> "remove")
  /\ UNCHANGED <<journal, ledger, files, lease, faults>>

\* capture_target: which file the move owns.  Without a recorded identity the
\* target must not exist under any name.
CanCaptureNothing(j) ==
  /\ j \notin identified
  /\ phase[j] = "reserved" /\ materialized[j] = 0
  /\ at[j] = None

CanCaptureFile(j) ==
  /\ j \in identified
  /\ phase[j] = "reserved" => at[j] = "tmp" /\ bytes[j] >= materialized[j]
  /\ phase[j] = "verified" => at[j] # None /\ Complete(j)
  /\ phase[j] = "file_published" => Published(j)

CanCapture(j) == CanCaptureNothing(j) \/ CanCaptureFile(j)

Capture(w) ==
  /\ pc[w] = "capture" /\ CanCapture(claim[w])
  /\ pc' = [pc EXCEPT ![w] = "record"]
  /\ captured' = [captured EXCEPT ![w] =
       IF claim[w] \in identified THEN at[claim[w]] ELSE "empty"]
  /\ synced' = [synced EXCEPT ![claim[w]] =
       IF phase[claim[w]] = "reserved" THEN bytes[claim[w]] ELSE @]
  /\ UNCHANGED <<journal, ledger, at, bytes, damaged, receipt, contents, claim, lease, faults>>

\* cancellation::verify and validate_evidence
CanRecord(j, key) ==
  /\ j \in cancelling
  /\ evidence[j] # None => evidence[j] = key
  /\ evidence[j] = None =>
       /\ phase[j] \in Cancellable
       /\ Lookup = {source[j]}
       /\ key = "empty" => j \notin identified /\ materialized[j] = 0 /\ phase[j] = "reserved"
       /\ key # "empty" => j \in identified /\ (phase[j] = "file_published" => key = "final")

CancellationVerified(w) ==
  /\ pc[w] = "record" /\ CanRecord(claim[w], captured[w])
  /\ evidence' = [evidence EXCEPT ![claim[w]] = captured[w]]
  /\ pc' = [pc EXCEPT ![w] = IF captured[w] = "empty" THEN "confirm" ELSE "remove"]
  /\ captured' = [captured EXCEPT ![w] = None]
  /\ UNCHANGED <<phase, source, cancelling, acked, claim, ledger, files, lease, faults>>

\* confirm_absent: nothing exists under either name of the target.
CanConfirm(j) == at[j] = None

ConfirmAbsent(w) ==
  /\ pc[w] = "confirm" /\ CanConfirm(claim[w])
  /\ Goto(w, "cancelled")
  /\ UNCHANGED <<journal, ledger, files, lease, faults>>

\* cancellation::complete: the destination allocation gives its bytes back.
CanComplete(j) ==
  /\ j \in cancelling /\ evidence[j] # None
  /\ phase[j] \in Cancellable
  /\ Lookup = {source[j]}
  /\ state[j] = "reserved"

Cancelled(w) ==
  /\ pc[w] = "cancelled" /\ CanComplete(claim[w])
  /\ phase' = [phase EXCEPT ![claim[w]] = "cancelled"]
  /\ state' = [state EXCEPT ![claim[w]] = "cancelled"]
  /\ Goto(w, AfterCancelled(claim[w]))
  /\ UNCHANGED <<source, cancelling, evidence, acked>>
  /\ UNCHANGED <<volume, owner, identified, materialized, revision, files, lease, faults>>

-----------------------------------------------------------------------------
(* Refusals and faults. *)

\* Whether the checks of a worker's next step hold.
Permitted(w) ==
  LET j == claim[w] IN
  CASE pc[w] = "open"           -> CanOpen(j)
    [] pc[w] = "verify"         -> CanVerify(j)
    [] pc[w] = "rename"         -> CanRename(j)
    [] pc[w] = "inspect"        -> Published(j)
    [] pc[w] = "file_published" -> CanFilePublish(j)
    [] pc[w] = "publish"        -> CanPublish(j)
    [] pc[w] = "ready"          -> CanBeReady(j)
    [] pc[w] = "pin"            -> CanPin(j)
    [] pc[w] = "retiring"       -> CanStartRetiring(j)
    [] pc[w] = "remove"         -> CanRemove(j)
    [] pc[w] = "retired"        -> CanRetire(j)
    [] pc[w] = "ack_receipt"    -> CanClearReceipt(j)
    [] pc[w] = "acknowledge"    -> CanAcknowledge(j)
    [] pc[w] = "pin_source"     -> CanPinSource(j)
    [] pc[w] = "capture"        -> CanCapture(j)
    [] pc[w] = "record"         -> CanRecord(j, captured[w])
    [] pc[w] = "confirm"        -> CanConfirm(j)
    [] pc[w] = "cancelled"      -> CanComplete(j)
    [] OTHER                    -> TRUE

\* A refused step ends the attempt and changes nothing; the journal keeps the
\* job for the next scan.
Refuse(w) ==
  /\ ~Permitted(w)
  /\ Leave(w)
  /\ UNCHANGED <<journal, ledger, files, lease, faults>>

\* An I/O error, a catalog timeout, an expired deadline or an orderly stop ends
\* the attempt of one worker at any point.
Fault(w) ==
  /\ pc[w] # "idle"
  /\ faults < MaxFaults
  /\ faults' = faults + 1
  /\ Leave(w)
  /\ UNCHANGED <<journal, ledger, files, lease>>

\* The worker is about to write a receipt of its job, the intent or the staged
\* one.
WritesReceipt(w) ==
  pc[w] = "stage" \/ (pc[w] = "remove" /\ receipt[claim[w]] = None /\ CanRemove(claim[w]))

\* The same as Fault inside write_receipt, after the file was created: the
\* receipt stays behind incomplete, or complete and not synchronized.
Tear(w) ==
  /\ WritesReceipt(w)
  /\ faults < MaxFaults
  /\ faults' = faults + 1
  /\ \E left \in {"written", "torn"} : contents' = [contents EXCEPT ![claim[w]] = left]
  /\ Leave(w)
  /\ UNCHANGED <<journal, ledger, at, bytes, synced, damaged, receipt, lease>>

\* Jobs with a receipt that a power failure may tear.
AtRisk ==
  {j \in Jobs : contents[j] = "written" \/ \E w \in Workers : claim[w] = j /\ WritesReceipt(w)}

\* A power failure stops every worker and reader.  Bytes that were never
\* synced are lost, or survive with other contents.
PowerFailure ==
  /\ faults < MaxFaults
  /\ faults' = faults + 1
  /\ pc' = [w \in Workers |-> "idle"]
  /\ claim' = [w \in Workers |-> None]
  /\ captured' = [w \in Workers |-> None]
  /\ lease' = [r \in Readers |-> None]
  /\ bytes' \in [Ops -> 0..Size]
  /\ \A o \in Ops : IF at[o] = None THEN bytes'[o] = bytes[o]
                                    ELSE bytes'[o] \in synced[o]..bytes[o]
  /\ \E lost \in SUBSET {o \in Ops : at[o] # None /\ bytes'[o] > synced[o]} :
       damaged' = damaged \union lost
  /\ \E torn \in SUBSET AtRisk :
       contents' = [j \in Jobs |-> IF j \in torn THEN "torn"
                                  ELSE IF contents[j] = "written" THEN "synced" ELSE contents[j]]
  /\ UNCHANGED <<journal, ledger, at, synced, receipt>>

WorkerStep(w) ==
  \/ OpenTemporary(w) \/ Checkpoint(w) \/ CheckpointRefused(w) \/ CopyBlock(w)
  \/ HashCopy(w) \/ Verify(w) \/ Rename(w) \/ Inspect(w) \/ FilePublished(w)
  \/ Publish(w)
  \/ Ready(w) \/ PinDestination(w) \/ Retiring(w) \/ Remove(w) \/ RemoveAgain(w)
  \/ Stage(w) \/ Retired(w) \/ AcknowledgeReceipt(w) \/ Acknowledge(w)
  \/ PinSource(w) \/ Capture(w) \/ CancellationVerified(w) \/ ConfirmAbsent(w)
  \/ Cancelled(w)
  \/ Refuse(w)

Dispatch(w, j) == Resume(w, j) \/ Retire(w, j) \/ FinishCancelled(w, j)

Next ==
  \/ \E j \in Jobs : Cancel(j) \/ \E v \in Volumes : Begin(j, v)
  \/ \E r \in Readers : Lease(r) \/ Release(r)
  \/ \E w \in Workers : WorkerStep(w) \/ Fault(w) \/ Tear(w) \/ \E j \in Jobs : Dispatch(w, j)
  \/ PowerFailure

Spec == Init /\ [][Next]_vars

\* A claimed job runs on until it ends, and the journal scan of worker.rs goes
\* round all pending jobs: a job that can be dispatched again and again is.
\* Nothing is assumed of operators, of readers or of faults.
Fairness ==
  /\ \A w \in Workers : WF_vars(WorkerStep(w))
  /\ \A j \in Jobs : SF_vars(\E w \in Workers : Dispatch(w, j))

LiveSpec == Spec /\ Fairness

-----------------------------------------------------------------------------
(* Properties. *)

\* In every state, across any crash, the catalog names exactly one location of
\* the object and the file there is the complete, undamaged object.  A
\* partial, damaged or removed copy is never authoritative (moves::publish).
AuthoritativeCopy == Lookup = {owner} /\ Published(owner)

\* A reader that holds a lease can read: no removal takes the file it was
\* given, although retirement checks readers long before it unlinks.
ReadersKeepTheirFile == \A r \in Readers : lease[r] # None => Published(lease[r])

\* "Moves retain the source until the destination is verified and published":
\* until a job is retiring, the old copy is intact and still accounted for.
SourceRetained ==
  \A j \in Jobs : phase[j] \in Cancellable \union {"published"} =>
    Published(source[j]) /\ state[source[j]] = "published"

\* The ledger never gives back the bytes of a file that still exists: an
\* allocation that is free or cancelled owns no file under any name.
ReleasedBytesAreFree ==
  \A o \in Ops : state[o] \in {"absent", "cancelled"} => at[o] = None

\* An acknowledged job has left no receipt behind, so the journal row that
\* would lead recovery to it may be forgotten.
AcknowledgedLeavesNoReceipt == \A j \in acked : receipt[j] = None

\* A latched cancellation wins against the worker that is copying: the move is
\* never published afterwards, however far that worker has got.
CancelledNeverPublishes ==
  [][\A j \in cancelling : phase'[j] \notin SourceSuperseded]_vars

\* The two ways a move can stay unfinished for ever.  Its temporary file exists
\* and the journal cannot use it: it was created and its identity never
\* recorded, or a power failure damaged the copied prefix and nobody has
\* cancelled the move.  Or a receipt of its removal is torn: retire_owned and
\* acknowledge_retirement refuse it at every retry, and nothing rewrites it.
Wedged(j) ==
  \/ at[j] = "tmp" /\ (j \notin identified \/ (j \in damaged /\ j \notin cancelling))
  \/ contents[j] = "torn"

\* Once readers leave the object alone, every admitted move is at last complete
\* or cancelled with its receipt acknowledged, for good; or it stays wedged.
MovesFinish ==
  <>[]~Conflicts =>
    <>[](\A j \in Jobs : phase[j] # "absent" => j \in acked \/ Wedged(j))

\* "A busy worker leaves cancellation latched for retry" (cancel_move): without
\* any fault, the retries of a latched cancellation eventually carry it out.
CancellationFinishes ==
  \A j \in Jobs : j \in cancelling ~> phase[j] = "cancelled"

-----------------------------------------------------------------------------
(* The inductive invariant behind the safety properties. *)

Active(j) == phase[j] \notin Terminal \union {"absent"}

\* The file is complete, undamaged and on disk, so no power failure changes it.
Durable(o) == bytes[o] = Size /\ synced[o] = Size /\ o \notin damaged

\* The allocation that names the object is published and owns a durable file.
OwnerInv == state[owner] = "published" /\ at[owner] = "final" /\ Durable(owner)

\* What the phase of a job says about its two allocations.
PhaseInv(j) ==
  /\ source[j] # j
  /\ phase[j] = "absent" =>
       /\ state[j] = "absent" /\ receipt[j] = None
       /\ j \notin cancelling /\ owner # j
       /\ \A k \in Jobs : phase[k] # "absent" => source[k] # j
  /\ phase[j] \in Cancellable => source[j] = owner /\ state[j] = "reserved"
  /\ phase[j] \in {"published", "retiring"} =>
       owner = j /\ state[source[j]] = "published"
  /\ phase[j] = "complete" => state[source[j]] = "cancelled"
  /\ j \in cancelling => phase[j] \in Cancellable \union {"cancelled"}
  /\ j \in acked => phase[j] \in Terminal

OneActive == \A j, k \in Jobs : Active(j) /\ Active(k) => j = k

JobInv == OneActive /\ \A j \in Jobs : PhaseInv(j)

\* How far the files of a job have got, and what a receipt proves.
CopyInv(j) ==
  /\ phase[j] \in {"verified", "file_published"} /\ at[j] # None => Durable(j)
  /\ phase[j] = "published" => at[source[j]] = "final" /\ Durable(source[j])
  /\ receipt[j] # None =>
       /\ j \in cancelling \/ phase[j] \in {"retiring", "complete"}
       /\ j \in cancelling => evidence[j] \in {"tmp", "final"}
       /\ j \notin acked
       /\ at[Victim(j)] = None

FileInv == ReleasedBytesAreFree /\ \A j \in Jobs : CopyInv(j)

\* A lease names a durable published file that no retirement has claimed.
LeaseInv(r) ==
  lease[r] # None =>
    /\ state[lease[r]] = "published"
    /\ at[lease[r]] = "final" /\ Durable(lease[r])
    /\ \A j \in Jobs : phase[j] \in {"retiring", "complete"} => source[j] # lease[r]

ReaderInv == \A r \in Readers : LeaseInv(r)

\* What a worker that has reached a step relies on.
StepInv(w, j) ==
  /\ phase[j] # "absent"
  /\ pc[w] \in {"open", "checkpoint", "copy", "verify"} => phase[j] = "reserved"
  /\ pc[w] \in {"rename", "file_published"} => phase[j] = "verified"
  /\ pc[w] = "inspect" => phase[j] \in {"verified", "file_published"}
  /\ pc[w] = "publish" => phase[j] = "file_published"
  /\ pc[w] \in {"open", "checkpoint", "copy", "verify", "rename", "inspect",
                "file_published", "publish"} => receipt[j] = None
  /\ pc[w] \in {"checkpoint", "copy", "verify"} => at[j] = "tmp"
  /\ pc[w] = "verify" => Durable(j)
  /\ pc[w] \in {"file_published", "publish"} => at[j] = "final"
  /\ pc[w] \in {"ready", "pin", "retiring"} => phase[j] \in {"published", "retiring"}
  /\ pc[w] \in {"pin", "retiring"} => \A r \in Readers : lease[r] # source[j]
  /\ pc[w] \in {"remove", "stage"} =>
       /\ j \in cancelling => phase[j] \in Cancellable /\ evidence[j] \in {"tmp", "final"}
       /\ j \notin cancelling => phase[j] = "retiring"
  /\ pc[w] = "stage" => receipt[j] = "moved"
  /\ pc[w] = "retired" =>
       j \notin cancelling /\ phase[j] = "retiring" /\ receipt[j] = "staged"
  /\ pc[w] \in {"pin_source", "capture", "record", "confirm", "cancelled"} =>
       j \in cancelling /\ phase[j] \in Cancellable
  /\ pc[w] = "record" => captured[w] # None
  /\ pc[w] = "confirm" => evidence[j] = "empty"
  /\ pc[w] = "cancelled" =>
       at[j] = None /\ (evidence[j] = "empty" \/ receipt[j] = "staged")
  /\ pc[w] \in {"ack_receipt", "acknowledge"} => phase[j] \in Terminal
  /\ pc[w] = "acknowledge" => receipt[j] = None

\* Claims are exclusive, and every claimed job is where its worker left it.
ClaimInv ==
  /\ \A w \in Workers : claim[w] = None <=> pc[w] = "idle"
  /\ \A v, w \in Workers : claim[v] # None /\ claim[v] = claim[w] => v = w

WorkerInv == ClaimInv /\ \A w \in Workers : claim[w] # None => StepInv(w, claim[w])

Inv == TypeOK /\ OwnerInv /\ JobInv /\ FileInv /\ ReaderInv /\ WorkerInv

-----------------------------------------------------------------------------
(* What moves ask of a volume root. *)

\* Jobs whose victim the ledger has written off.  A cancelled move that never
\* had a file removes none.
WrittenOff ==
  {j \in Jobs : phase[j] = "complete" \/ (phase[j] = "cancelled" /\ evidence[j] # "empty")}

\* Jobs that have not removed their victim.
Unremoved == {j \in Jobs \ WrittenOff : receipt[j] = None}

Removal == INSTANCE OwnedRemoval WITH
  Ops <- Jobs, placed <- Unremoved, receipt <- receipt, done <- WrittenOff

\* Every job, retired or cancelled, by whichever workers and across any faults,
\* follows the order OwnedRemoval states: its victim is removed once, the
\* ledger writes it off only with a staged receipt, and the receipt is cleared
\* only after that.  RootRetirement implements the same specification, so the
\* moves ask of a volume root what it promises.
RemovesInOrder == Removal!Spec

=============================================================================
