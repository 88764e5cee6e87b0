# KeepPeek: TLA+ specifications

KeepPeek is a network video recorder. Its process records camera streams into
segments, keeps a catalog of recordings, events, exports and images, moves stored
objects between volumes and archives, and forwards events to other systems. This
directory models the parts whose correctness depends on the order of steps of
several threads, on crashes, or on an unreliable peer.

## Inventory

| Part | Source (under `src/src/`) | State | Concurrency and failure | Here |
| --- | --- | --- | --- | --- |
| Volume moves | `storage/catalog/locations/moves*`, `storage/volumes/runtime/{movement,cancellation,retirement,worker}*` | move journal, allocation ledger, files, receipts | worker threads, readers, cancellation, crash at any step | `VolumeMove` |
| Reader leases, ownership | `storage/catalog/{readers,locations/ownership}.rs` | leases, published location | readers race retirement | in `VolumeMove` (one object), `VolumeLedger` (recordings) |
| Volume roots | `storage/volumes/root/*` | files, `.retired` quarantine | crash between system calls | `RootRetirement`, `OwnedRemoval`; files of moves in `VolumeMove` |
| MQTT forwarder | `event_forwarder/*`, `server/mqtt_integration.rs` | channel, outbox, session, status | two threads, editors, lost acknowledgements | `EventForwarder` |
| Volume ledger, drain, removal | `storage/catalog/locations.rs`, `locations/{growth,materialization,removal}.rs`, `schema.sql`, `storage/volumes/{placement,runtime}.rs` | reservations, counters, revision | concurrent admission at the limit, lost replies | `VolumeLedger` |
| Recording writer, recovery, retention | `storage/medium_term.rs`, `locations/{recordings,recording_recovery}*`, `runtime/{recording_retention,recording_recovery}*` | recordings, index, recovery plans, retirements | crash, readers, writer against worker | `VolumeLedger` |
| Volume worker | `storage/volumes/runtime/worker.rs` | cursor, page, wakeups | journaling during a pass, errors | `JournalScan` |
| API sessions | `server/session_lifecycle.rs`, sessions of `server.rs`, `webrtc/session_registry.rs` | directory, admission mutexes, registries | creation, admission, close and expiry race | `SessionLifecycle` |
| Operational events | `operational_events.rs` | intervals, retry queue, catalog rows | one sink of several fails, restart | `OperationalEvents` |
| Export cleanup, maintenance, archive, authority | `storage/catalog/{maintenance,archive,authority}*`, `locations/export_cleanup.rs` | job tables | leases, restarts | not modelled |
| Demand leases, short-term buffer, event clips | `storage/demand.rs`, `storage/engine*` | leases, open segments | expiry | not modelled |
| State store, notifications, publications, subscriptions | `server/state_store*`, `notifications*`, `server/event_*` | keys, queues | slow consumers, TTL | not modelled |
| Backup, configuration, camera events, wake | `backup*`, `config*`, `camera_events/*`, `battery_wake.rs` | files, subscriptions | crash in a restore, renewals | not modelled |
| Media, protocols, access, UI, crates | the rest | data | | not modelled: codecs, I/O, tables, generated code |

`PROJECT.json` lists every part with its sources, and the hazards with the line
where each one bites.

## Modules

**`VolumeMove`** follows one stored object. The variables are the rows of
`storage_volume_moves` (phase, source, cancellation, evidence, acknowledgement) and
`storage_volume_allocations` (state, volume, owner, identity, materialized bytes,
revision), one file per allocation (name, length, durable length, damage), the
removal receipt of each job with whether it can be read, and per worker the step it
has reached. A catalog request is one action, because `execute` in `locations.rs` runs each as one
transaction of a single actor. A file operation is one action. Between any two,
readers, cancellation, other workers, faults and power failures may act. An action
carries its check as a `Can...` operator named for the function that makes it;
`Refuse` is the error return of all of them.

What the abstraction keeps: every phase transition with its guards, the order of
file operations and requests, the sync points, resumption from the journal. What it
leaves out: byte capacity, digests (a file either holds the object or is damaged),
several objects (claims and journal rows of different objects are independent), the
system calls inside `Root::retire_owned` (the receipt is `moved` once the file is in
quarantine and `staged` once it may be unlinked), deadlines (an expired deadline is a
`Fault`). `Tear` is an error inside `write_receipt`, while either receipt is written: it
leaves a receipt that is incomplete, or complete and not synchronized, and a power failure
may tear one that is being written or was never synchronized (`contents`). A torn receipt
is refused by `read_receipt` in every later attempt. When the error comes between the
creation of `intent.json` and the rename, the file is still at its key, so `receipt` keeps
the order of the steps and `contents` says whether the next attempt can read what is there.
The limit on the number of receipts is left to `RootRetirement`.

**`EventForwarder`** has one step for each region between two lock operations of
`writer_loop`, `publisher_loop`, `Handle::update_config` and the settings handler.
The broker is external: the sequence numbers it has received and the retained status
message. Its faults are the ones the code handles: failed connections, lost items,
lost acknowledgements, failed disconnects. A configuration is its revision, the
enabled flag and the outbox limit. Topic, credentials and encodings are left out.
Publications are acknowledged (QoS 1 or 2) and the status is retained (the
defaults). Thread-local values are reset when a loop iteration ends.

**`RootRetirement`** opens the removal that `VolumeMove` treats as two steps:
`Root::retire_owned` and `Root::acknowledge_retirement`, one action per system call
that changes the disk. It covers every caller of the two (moves, exports, images,
recordings, archive), each an operation that owns one file. Of each operation there
are two views: `disk`, what a process sees, and `saved`, the same as of the last
synchronization. A `Fault` is any error return, an expired deadline or a stopped
process: the lock is released and nothing is undone. `Tear` stops inside
`write_receipt`. A power failure falls back to `saved` or keeps `disk`, and tears any
receipt whose contents were not synchronized. Two assumptions about the filesystem:
entries become durable in the order of the changes and a rename is never half done
(journalled metadata); contents become durable only by `sync_all` on the file.
Foreign files, replaced directories and changed evidence are left out: the code
refuses them, and nothing in the program makes them.

**`OwnedRemoval`** is what callers rely on: the file leaves its key once, a receipt
proves it before the catalog completes the operation, the receipt goes afterwards.
It lies between two modules. Every step of `RootRetirement` but a power failure
implements it (`ImplementsRemoval`). `VolumeMove` uses it: its `Remove`, `Stage` and
`AcknowledgeReceipt` are steps of a worker, the end of a job is `Complete`, and a move
follows the order whatever happens between two of its steps (`RemovesInOrder`). A power
failure in a root may tear a receipt and may bring back a file whose removal was not yet
synchronized. `VolumeMove` has the first. The second it does not need: there the rename and
the synchronization behind it are one step, so a file that comes back is a step that did not
happen.

**`VolumeLedger`** follows recordings on named volumes from the reservation to the
removal. Its variables are the catalog's tables (`row`, `volume` with the counters of
the triggers, `index`, `plan`, `retirement`), the file of each operation with what of
it is synchronized, the leases, the admission mutex, and the program counters of one
writer per recording and of the volume worker. A catalog request is one action. The
revision of the ledger is the flag `fresh`: any change of the ledger (`Bump`) makes the
capacity samples taken before it stale, which is all the comparison of revisions can
observe. A `Fault` is a request that fails or whose reply is lost, so the transaction
may or may not have happened; a crash keeps what was synchronized of each file and any
part of the rest, and catalog commits are durable. A removal is one step, and beside it
`Tear`, an error while one of its receipts is written; a crash may tear a receipt that is
being written or was never synchronized. A torn receipt stops the removal and its
acknowledgement for good (`CanRemove`, `CanAcknowledge`), and with a retirement the
retention of its volume, which takes one at a time, and the removal of the volume. A block is the unit of bytes: the
initialization segment and a fragment are one block each, so an index is the set of
the blocks at which fragments end. Left out: the reservations of moves, archives,
exports and thumbnails, a changed limit of a bound volume, and other programs that
write to the filesystem. `Place` observes all candidates in one step; the admission
mutex is held and the request compares the revision again. When a spill of the
initialization buffer fails, the fault of `Initialize` stands for it.

**`JournalScan`** is `Scan` and the loop around it: wakeups, pages of the journal, the
limit of a pass, errors, the interval. Identifiers are numbers, so that a page is the
set of the least ones behind the cursor and its order is theirs. `ScanReachesAll` is the
strong fairness that `VolumeMove` and `VolumeLedger` assume of dispatching a job.

**`SessionLifecycle`** has one step per lock of `admit`, `close`, `create_api_session`
and their callers. A registry stands for each place that `close` clears (talkback,
watches, publications, subscriptions, discovery, proofs, cursors). Two places differ.
`event_search::close_session` only sets the tokens of the session's searches, and the
thread of a search removes its entry later (`Searches`, `cancelled`). Cameras that a session
moves are kept in `ptz_owners` under a mutex of its own: a PTZ command does not go through
`admit`, it takes that mutex, checks the session and then acts (`PtzLock`, `PtzCheck`,
`PtzExecute`), and `close` waits for the same mutex (`CloseCameras`). A camera that does not
answer the stop remains owned by the closed session (`unstopped`) and refuses every other
one until `stop_for_privacy` reaches it. A session may always be revoked, deleted or left by
its peer.

**`OperationalEvents`** is the monitor's thread: observe the failing keys, persist,
notify, forward. Time is counted in observations. A crash loses the tracker and the
queue and keeps the catalog's rows. The two flushes of a turn are one, because a turn
may also find no health; a crash between two rows of a flush is a failed `Persist`
followed by `Restart`. The order of the cameras in a snapshot is open, so `Observe`
queues the transitions of one observation in any order.

**`MCVolumeMove`, `MCEventForwarder`, `MCRootRetirement`, `MCVolumeLedger`,
`MCServices`** give constants to TLC. `MCServices` holds the three last modules. They
share no state, so a behaviour is one of a single service; and a behaviour of the sessions
has work of one kind (a registry, a search or a camera), which are cleared independently of
each other, registered work only of the first session. In `MCEventForwarder` a
behaviour has many events under one configuration, or one event and many
configurations.

**`VolumeMoveProofs`, `VolumeLedgerInvariant`, `VolumeLedgerSteps`,
`VolumeLedgerCapacity`, `VolumeLedgerProofs`, `EventForwarderProofs`,
`LifecycleProofs` (sessions, removals in a volume root, the journal scan) and
`OperationalEventsProofs`** hold the proofs.

Operators introduced by "Mutant" or "Variant" comments are faulty versions of the
definition that follows them. Each violates the property `PROJECT.json` names, which
shows that the property depends on that line of the code.

## Runs

| Run | Configuration | Shows |
| --- | --- | --- |
| `volume_move` | 2 jobs, 2 volumes, 2 workers, 1 reader, 2 blocks, 1 fault | the safety properties of moves; their removals implement `OwnedRemoval`; every move finishes, or is wedged |
| `volume_move_cancel` | 1 job, no fault | counterexample: a cancellation that never completes |
| `forwarder` | 3 keys, 3 publications, outbox of 2 items and 2 bytes, 1 receipt; or 1 publication and 3 revisions | nothing lost, order, accounting; the queue drains, the enabled flag settles |
| `forwarder_session`, `forwarder_drafts` | 1 publication, up to 3 revisions, up to 2 editors | counterexamples, see below |
| `root_retirement` | 3 operations, room for 2, 1 fault, 1 power failure | removal and cleanup are explained by what is on disk; every step but a power failure implements `OwnedRemoval`; every retirement finishes, or a torn receipt blocks it |
| `root_retirement_receipt` | 1 operation, 1 fault, 1 power failure | counterexample: a receipt torn after the unlink |
| `volume_ledger` | 2 recordings, 2 volumes on 5 blocks, limits 4 and 3, 1 fault | the counters, admission, ownership of files, removal of a volume |
| `volume_ledger_live` | 1 recording, 3 faults | recovery keeps indexed media; interrupted recordings and removals settle |
| `services` | 3 jobs in pages of 2; 2 sessions, 1 request, 1 closer, 1 registry, 1 search, 1 camera; 1 camera key, queue of 3 | the scan reaches everything, closed sessions are released, intervals close |
| `session_stale` | 2 sessions | counterexample: a live session closed as stale |
| `operational_delivery` | queue of 2, 3 refused deliveries | counterexample: an interval that stays open |

Bounds. Two jobs let a second move leave the copy that the first one made, so a
stale source, an acknowledged job and an active one coexist; two workers race for
them. Two blocks make a partial copy different from an empty and a complete one. In
the forwarder, three keys with an outbox of two items reach the item limit, the
two-byte key reaches the byte limit, and one receipt makes the window roll over,
after which a key is accepted a second time. Three revisions allow enabled, disabled
and enabled again within one iteration of the publisher. In `RootRetirement`, more
operations than the quarantine holds make one wait for the cleanup of another; a
fault followed by a power failure is what it takes to lose contents that a retry
relied on. In `VolumeLedger`, two recordings of up to three blocks do not fit on five
blocks with a minimum free, and each limit can be the one that refuses; an increment
of two blocks and a recording of three make a writer grow once; three faults allow a
lost reply, a crash, and a crash in the recovery. In `JournalScan` three jobs, a page
of two and a limit of two make a pass stop before the end. Two sessions and a limit
of one meet at the limit; the creator of a session is itself a thread that closes
others. In `OperationalEvents` three changes are an outage, its recovery and the next
outage; three catalog errors hold a recovery back over it.

Deadlock is not checked in the forwarder runs, because the process stops, in the
retirement runs, which end when every operation is closed, and in the ledger and the
services, which rest when the recordings are over and nothing is journaled.

Fairness. In `VolumeMove` a worker that has claimed a job continues (weak fairness),
and a job that can be dispatched again and again is dispatched (strong fairness):
`Scan` in `worker.rs` walks the whole journal periodically. Nothing is assumed of
operators, readers and faults; `MovesFinish` assumes that readers eventually leave
the object alone, because `retirement_ready` waits for them. In `EventForwarder` both
threads run, and a broker that is asked again and again eventually accepts a
connection and acknowledges an item (strong fairness): without it no retry loop
delivers anything. In `RootRetirement` a call that has begun returns (weak fairness),
and callers repeat a call that found the lock taken or the quarantine full until it
gets through (strong fairness): each of them is a periodic scan of journal rows. In
`VolumeLedger` the worker continues what it claimed, the scan returns to what is
pending, and readers finish; writers may stall for ever. In `JournalScan` only the
worker's thread and the clock are fair, and in particular not the wakeups. In
`SessionLifecycle` threads inside `admit` and `close` run on, the reaper sweeps, and
the idle deadline of a session without a peer passes. A PTZ command that has the lock of
`ptz_owners` runs on, and of the closers that wait for it again and again one gets it (strong
fairness): commands only try the lock and it is free between any two, but the standard
mutex does not promise it to a waiting thread, so this is an assumption, and without it
`SessionLeaves` fails. In `OperationalEvents` the
thread runs and health is available again and again (strong fairness); the catalog
and the forwarder fail a bounded number of times.

## Properties

`AuthoritativeCopy`: the catalog names one location of the object and the complete
object is there, in every state and after any power failure. `ReadersKeepTheirFile`:
a leased file stays, although readers are checked long before the unlink.
`SourceRetained`, `ReleasedBytesAreFree`, `AcknowledgedLeavesNoReceipt`: the old copy,
the ledger and the receipts change in the only safe order. `CancelledNeverPublishes`:
a latched cancellation wins. `MovesFinish`: the journal always leads to an
acknowledged end; the exception, `Wedged`, names the states with no way out: a temporary
file that was never identified, or that is damaged and not being cancelled, and a torn
receipt of the removal.

`NothingLost`, `DrainedInSequence`, `AccountsAreExact`: the outbox is a queue that
delivers at least once and in order, with an exact window and exact limits, although it
is unlocked during deliveries.
`AcceptedIsDelivered`, `EnabledSettles`: neither retries nor configuration changes
strand the queue or the enabled flag.

`AbsenceIsExplained`, `QuarantineIsOwned`, `CleanupHasProof`, `NothingLeftBehind` are
stated of both views, so they hold now and after a power failure: a missing file, a
quarantined file, a half-cleaned directory and a closed operation can always be told
apart. They speak of the receipt being there, which is all the code guarantees; that
it can be read is `ReceiptSurvives`, which fails. `QuarantineBounded`: the limit holds
although a power failure can bring directories back. `RetirementFinishes`: retries
reach the end from every state except those with a torn receipt.

`CountersExact`: the triggers of `schema.sql` keep the sums of every volume.
`AdmittedFits`: all that was admitted on a filesystem still fits when it is written in
full, however samples, checkpoints and requests of several writers interleave, and no
volume outgrows its limit. `WrittenWithinReservation`: no file outgrows what it was
given, also when a writer and the ledger disagree after a lost reply.
Both make an exception for a recording under recovery: `retain_prefix` and the removal
shorten or remove the file before the catalog corrects `materialized_bytes`, so that
for a while the row counts blocks that are gone. The exception is harmless, because
recovery never writes; without it the two properties are false, as an attempt to prove
them showed and TLC confirmed on a larger instance. `LiveWriterUntouched`:
the worker plans nothing against a recording that is still written. `NoUnownedFile`:
no file outlives its row. `PublishedIsWhole`, `IndexedMediaKept`: a published recording
is complete and durable, and recovery never drops stored media that the index names.
`ReadersKeepRecording`, `RemovedIsEmpty`: removal waits for readers, and a removed
volume holds and owes nothing. `InterruptedSettles`, `RemovalSettles`: recovery and
retention come to an end; `NeedsInspection` names the leftovers the code refuses to
touch (a file created and never identified, stored bytes that are not indexed, an index with
a gap after a failed insert, a planned prefix lost by a power failure, an abandonment
with a torn receipt), and `RemovalSettles` excepts the removals with a torn receipt. Without
the exceptions both are violated: one error inside `write_receipt` is enough.

`WakeupsAnswered`, `ScanReachesAll`: a wakeup in the middle of a pass is answered by
another pass, and no operation starves behind others that stay pending.

`NothingSurvivesClose`, `CloseReturnsClean`: admission and close exclude each other, and
a revocation that returned has taken effect, for every caller. What taking effect means is
`Released`: the registries have nothing of the session, its searches have been told to stop,
and its cameras are free except those that refused to stop. The PTZ part rests on the order
in `close`: the flag is set before the lock of `ptz_owners` is taken, and a command reads the
flag under that lock. `SessionLeaves`: expired,
marked and abandoned sessions leave the directory. `SessionTypeOK` includes the limit of
sessions, which concurrent creators cannot exceed.

`CatalogFirst`, `StoreAdvances`: the catalog comes first and only advances.
`OneOpenInterval`, `OutageCloses`: a camera has one
open interval that somebody will close, over catalog errors and restarts, unless the
retry queue overflowed.

## Where code and documentation disagree

- A move cancelled (or stopped) between `create_file` and the first checkpoint
  leaves a temporary file that the journal does not know. `capture_target` refuses
  it on every retry, so the cancellation never completes (`volume_move_cancel`).
- `publisher_loop` reads configuration and generation separately; a session of the
  old configuration can stay (`forwarder_session`).
- `writer_loop` stores counts it read before it takes the status lock, so an idle
  forwarder may show a pending item that was delivered; disabling the forwarder leaves
  `connected` as the retained status. Both are steps of `EventForwarder`; no run is
  devoted to them.
- `remove_stale_api_sessions` reads the active WebRTC sessions before the directory;
  a session created in between is closed as stale (`session_stale`).
- The retry queue of operational events keeps a transition until the forwarder took it
  and drops new ones when it is full, the end of an outage included, so a delivery
  failure can keep the stored interval open for ever (`operational_delivery`), which
  the chapter on camera health excludes. A full MQTT outbox is enough: it makes
  `publish_operational` fail until the broker is back.
- `put` checks the expected revision outside the update lock (`forwarder_drafts`).
- `finish` trusts a `staged.json` that an earlier attempt wrote and did not
  synchronize. The file is unlinked, and a power failure can still tear the receipt
  (`root_retirement_receipt`), although the comment on `retire_owned` calls it
  durable. The same holds of `intent.json`, where the file stays in the quarantine.

## Proofs

`VolumeMoveProofs` proves the safety properties of `VolumeMove` for every set of
jobs, volumes, workers and readers, every size and every number of faults. The only
assumption is `ConstantsAssumption`: the origin is not a job, `None` is no
operation, the home volume exists, the size is positive.

None of the properties is inductive: that the owner's file survives a power failure
depends on what was synced, which depends on how far a worker has got. `Inv` adds

- `OwnerInv`: the owner's file is durable, not only complete;
- `JobInv`: at most one job is active, and what each phase says of the two
  allocations of a job;
- `FileInv`: verified copies are durable, and a receipt proves that its victim has
  no name;
- `ReaderInv`: a leased allocation is not the source of a job that is retiring;
- `WorkerInv`: claims are exclusive, and what a worker at each step relies on (a
  worker that passed `retirement_ready` has no reader on its source, because a new
  lease can only be on the destination).

The module shows for each worker step which conjuncts it can disturb and that it
preserves them, then the same of requests, dispatch and faults, and concludes
`Invariance`, from which the theorems `TypeCorrect`, `AuthorityIsComplete`,
`LeasesHold`, `SourceOutlivesMove`, `ReleaseFollowsRemoval`, `AcknowledgementIsLast`
and `CancellationWins` follow.

The module ends with a refinement, `RemovalsAreOrdered`: moves implement
`OwnedRemoval`. An operation is a job, completed when the ledger has written off its
victim (`WrittenOff`); a cancelled move that never had a file removes nothing and leaves
the abstract state alone. `Remove`, `Stage`, `Retired` or `Cancelled`, and
`AcknowledgeReceipt` are the four steps; all others, faults and power failures included,
change nothing (`OrderUntouched`). What has to be known is in `StepInv`: whichever attempt
staged the receipt, a worker about to end a job finds it staged, and a worker that found
nothing to remove has that on record. With `Refinement` below, the two sides of the
interface are shown against the same specification.

`EventForwarderProofs` proves of the forwarder `ForwarderInvariance`, `ForwarderTypes`,
`AcceptedIsKept`, `DrainsInOrder` and `OutboxAccounts` for any keys, sizes, limits,
capacities, editors and numbers of publications and revisions (`ForwarderAssumption`:
sizes and capacities are positive). The difficulty is that the publisher delivers and
removes an item while the writer may add others. `ForwarderInv` says that the sequence
numbers of the outbox are consecutive up to the last one given out (`QueueInv`), that
the item in the publisher's hands is still the first one, that the broker has exactly
the items that left the outbox and at most the first of the others (`ReceivedInv`),
and that a key is pending once, a receipt once, and not both (`KeysInv`). `HandedOver`
counts what is on the way, so that the bound on publications bounds the sequence
numbers. From the first three follow order and completeness at the broker; the
accounts are part of the invariant.

`LifecycleProofs` has three parts. It proves the safety properties of `RootRetirement`
for every finite set of operations, every limit and every number of faults and power failures
(`BoundsAssumption`). The inductive invariant `IInv` says of each operation what its
files look like under each journal row, in both views (`FilesInv`), and what its
caller has established at each step (`StepInv`). It is local to an operation: a step
of another changes at most `saved`, to the value of `disk` (`OthersKept`). The lock
enters only through `Prepare`, where it makes counting the directories and creating
one a single step. This part has one case per action and power failures, the theorems
`TypeCorrect`, `AbsenceExplained`, `QuarantineOwned`, `CleanupResumes`, `ClosedIsClean`,
and `QuarantineStaysBounded`, whose invariant bounds both views (`BoundInv`). It ends
with `Refinement`: `Quarantine`, `WriteStaged`, `Complete` and `RemoveAck` are the four
steps of `OwnedRemoval`, and every other step, refusal and fault leaves what it sees
unchanged; with no power failures this is `Spec => Removal!Spec` (`PoweredRefinement`).

Of the sessions, it proves `SessionTypes`, `SessionNothingSurvives` and
`SessionCloseReturns` for any sessions, requests, closers, registries, searches, cameras
and limit (`SessionAssumption`: the threads are distinct). `SInv` says who holds the
admission mutex: a request past its check and a closer that clears are its holder
(`RequestInv`, `CloserInv`), a request that may register still sees the record, and a
closer that clears has released the registries it has been to, and past `CloseCameras` the
cameras. `CommandInv` is the same of the other mutex: the session of a PTZ command that
passed its check has a record, and no closer of it is past `CloseCameras`. A step of one
thread keeps the part of every other (`RequestFrame`, `CloserFrame`, `ClosersFrame`,
`CommandFrame`), and a session that is released stays so under every step that neither
registers work for it nor gives it a camera (`Undisturbed`).

Of the scan, it proves `ScanInvariance` and `WakeupsAreAnswered` for any number of
operations, any page size and any limit of a pass. `WakeupsAnswered` is about the step
that ends a pass. It follows from `ScanInv`: unless another pass is due, whatever waits
lies behind the cursor or in the page (`Ahead`), and between two passes no page is held.
What needs an argument is the query: a page has everything between the cursor and its last
operation, and is empty only at the end of the journal (`PageIsComplete`).

`OperationalEventsProofs` proves `CatalogIsFirst`, `StoredEventsAdvance` and
`IntervalsAreSingle` for any finite set of keys, any hold-downs and debounce, any length
of the queue and any number of errors and restarts (`EventsAssumption`). Four places
hold the same events: tracker, queue, catalog and forwarder. `EventsInv` says that there
is a `p` such that the first `p` transitions of the queue are the persisted ones and in
the catalog (`Flags`, `InStore`), and

- `QueueInv`: in the queue the revisions of an event ascend and nothing follows its end,
  identifiers are used up in order, and the tracked event is open and the newest;
- `RowsInv`: the same of the rows, and a closed row is as new as all that is queued of
  it, so that storing a transition late or twice never reopens it (`Final`);
- `OpenInv`, until the queue drops a transition: one row of a key is open, it is tracked
  or its end is queued, and another event of the key is queued only behind that end.

`Persist` stores some transitions one after the other: `StoredInStep` takes them one at
a time over the history of the catalog (`HistoryExists`), which needs an induction that
is done with the set of the numbers that have such a history. An observation concerns
every key at once; `Emission` says what it may do to one key (nothing, a first
transition, the next revision, the end), and `ObservedQueue`, `ObservedRows` and
`ObservedOpen` need only that. A restart tracks one of the open rows of a key and queues
all of them (`RestartStep`).

The proofs about `VolumeLedger` cover every safety property of its runs, for any finite
sets of recordings and volumes, any filesystems, capacities, limits, growth increments
and numbers of faults. `LedgerAssumption` asks that `none` names no recording and no
volume, that sizes are natural numbers, and that no minimum exceeds its filesystem.

`VolumeLedgerInvariant` states the invariant of one recording, `OpInv`, as a relation of the
values that belong to it: who owns it (`LeaseOK`), the row and the writer's view of it
(`RowOK`), the file against both (`FileOK`), the index (`IndexOK`), what is buffered
(`BufferOK`), the recovery plan and the worker's progress (`PlanOK`), what publication
promises (`PublishedOK`) and what a reader may rely on (`ReadOK`). None of the
properties is inductive alone: that a row is cancelled after its file is gone rests on
what the worker saw some steps earlier, that a published recording is whole rests on
what the writer buffered and synchronized. `VolumeLedgerSteps` has one lemma per step of
the code over these values and connects them to the tables: an action changes the entries
of one recording (`To`, `WorkerTo`, `RetirementTo`, `ReadTo`) and the others keep theirs
(`Confined`). `VolumeLedgerProofs` concludes `Invariance`, `LiveWriterProtected`,
`WritesAreReserved`, `PublishedStaysWhole`, `FilesAreOwned`, `ReadersAreSafe` and, of
steps, `IndexedMediaIsKept`.

`VolumeLedgerCapacity` adds the sums. `CapacityInv` holds the exact counters, the fit,
the removal of volumes and, as the key, `SampleOK`: while the revision of a capacity
sample is current, the free space it saw plus the base of the recordings is at most the
capacity. The base is what a sample must have seen: the materialized blocks of a
reservation that is being written, the whole file of any other recording. A write inside a
reservation does not change it; a checkpoint, a reservation and growth do, and bump the
revision; recovery and removal shrink it. The counters hold back what reservations may
still write, so a request that passes the check of the code leaves room for every claim
(`AdmissionFits`). `RemovedStaysEmpty` uses that the counters are exact: a volume
whose counters are zero has no row that owns anything. The sums are
`SumFunction` over the recordings; that they can be taken apart one recording at a time
is proved with least elements (`LeastNat`, `SmallestSubset`), because the induction rules
of the library are out of reach.

The proofs about the ledger are four modules because each fact a step cites costs the
prover time that grows with the definitions in sight: `VolumeLedgerSteps` and
`VolumeLedgerCapacity` share only the invariant. Leaves name `Zenon` where it is the
prover that finds them.

Every invariant and action property of the passing runs is proved. Only model-checked is
liveness (`MovesFinish`, `AcceptedIsDelivered`, `EnabledSettles`, `RetirementFinishes`,
`InterruptedSettles`, `RemovalSettles`, `ScanReachesAll`, `SessionLeaves`,
`OutageCloses`): it depends on fairness, which the prover does not handle.

Only proved: `AcknowledgedLeavesNoReceipt`, `NothingLeftBehind` and the types of
`VolumeMove`, `RootRetirement` and `VolumeLedger` are in no run.

## Not modelled

- Media: codecs, containers, playback timing, WebRTC transport, camera protocols. Data
  flow and numerics with little shared state, outside what TLC can enumerate.
- Access control, cryptography, parsing, HTTP routing, health projection, metrics:
  tables and functions of their input.
- SQL itself. A catalog request is taken to be one transaction, as `execute` makes it.
- Local archive, export cleanup, maintenance jobs, state store, notifications,
  publications and subscriptions, backup, camera events, catalog authority: protocols
  that a module could describe and none here does. Archive, exports and thumbnails
  remove their files through the receipts of `RootRetirement`.
- Demand leases: one mutex around a map of deadlines; no step lies between reading and
  writing it.
- Limits on the number of journal rows (1024 and 4096): a model of one object does not
  reach them; the pending limit of `VolumeLedger` is modelled.
- `VolumeMove` and `VolumeLedger` are not composed. They meet in the allocation rows:
  a move reserves and releases like a recording, and a recording with an unfinished
  move is not retired (the query in `recordings.rs`).
