------------------------- MODULE VolumeLedgerSteps -------------------------
(***************************************************************************)
(* Every step of VolumeLedger keeps LedgerInv.                             *)
(*                                                                         *)
(* The invariant relates, for every operation, the values that belong to   *)
(* it.  The module begins with lemmas over these values, one per thing that *)
(* may happen to an operation; none of them speaks of the tables.  A step  *)
(* is about one operation: To, RetirementTo, WorkerTo and ReadTo say what  *)
(* becomes of its entries, Confined that the other operations keep theirs, *)
(* and a lemma over values that the operation keeps its invariant.         *)
(***************************************************************************)
EXTENDS VolumeLedgerInvariant

-----------------------------------------------------------------------------
(* What may happen to one operation, in the order of the writer's life. *)

USE DEF OpInv, Typed, LeaseOK, RowOK, FileOK, IndexOK, BufferOK, PlanOK, PublishedOK, ReadOK,
        Writers, Rows, Files, Entries, Plans, Retirements, Before, Opening, Recording, WorkerPcs, Pcs,
        None, NoPlan, InitBytes

\* A destination is chosen.
LEMMA Placed ==
  ASSUME NEW w, NEW r, NEW d, NEW x, NEW p, NEW t, NEW l, NEW k, NEW b, OpInv(w, r, d, x, p, t, l, k, b),
         w.pc = "idle", NEW v \in Volumes,
         NEW w2, w2 = [w EXCEPT !.pc = "placed", !.target = v]
  PROVE  OpInv(w2, r, d, x, p, t, l, k, b)
<1>1. w2 \in Writers BY Zenon
<1> QED BY <1>1, SMT

\* The revision is read, for a reservation or for growth.
LEMMA Revised ==
  ASSUME NEW w, NEW r, NEW d, NEW x, NEW p, NEW t, NEW l, NEW k, NEW b, OpInv(w, r, d, x, p, t, l, k, b),
         NEW pc, \/ w.pc = "placed" /\ pc = "revised"
                 \/ w.pc = "locked" /\ pc = "growRevised",
         NEW w2, w2 = [w EXCEPT !.pc = pc]
  PROVE  OpInv(w2, r, d, x, p, t, l, k, b)
<1>1. w2 \in Writers BY ZenonT(60)
<1> QED BY <1>1, SMT

\* The filesystem is probed for a reservation, and the operation's lease is taken.
LEMMA Probed ==
  ASSUME NEW w, NEW r, NEW d, NEW x, NEW p, NEW t, NEW l, NEW k, NEW b, OpInv(w, r, d, x, p, t, l, k, b),
         w.pc = "revised", NEW free \in Int,
         NEW w2, w2 = [w EXCEPT !.pc = "reserve", !.available = free]
  PROVE  OpInv(w2, r, d, x, p, t, "writer", k, b)
<1>1. w2 \in Writers BY Zenon
<1> QED BY <1>1, SMT

\* The filesystem is probed for growth.
LEMMA GrowthProbed ==
  ASSUME NEW w, NEW r, NEW d, NEW x, NEW p, NEW t, NEW l, NEW k, NEW b, OpInv(w, r, d, x, p, t, l, k, b),
         w.pc = "growRevised", NEW free \in Int,
         NEW w2, w2 = [w EXCEPT !.pc = "grow", !.available = free]
  PROVE  OpInv(w2, r, d, x, p, t, l, k, b)
<1>1. w2 \in Writers BY Zenon
<1> QED BY <1>1, SMT

\* The ledger enters the reservation, whether or not the writer hears of it.
LEMMA ReserveEntered ==
  ASSUME NEW w, NEW r, NEW d, NEW x, NEW p, NEW t, NEW l, NEW k, NEW b, OpInv(w, r, d, x, p, t, l, k, b),
         w.pc = "reserve", r.state = None,
         NEW r2, r2 = [r EXCEPT !.state = "reserved", !.volume = w.target, !.bytes = InitBytes]
  PROVE  OpInv(w, r2, d, x, p, t, l, k, b)
<1>1. InitBytes \in Nat BY SMT, LedgerAssumption
<1>2. r2 \in Rows BY <1>1, Zenon
<1> QED BY <1>2, SMT

\* The writer hears that it has its reservation.
LEMMA ReserveHeard ==
  ASSUME NEW w, NEW r, NEW d, NEW x, NEW p, NEW t, NEW l, NEW k, NEW b, OpInv(w, r, d, x, p, t, l, k, b),
         w.pc = "reserve", r.state = "reserved",
         NEW w2, w2 = [w EXCEPT !.pc = "reserved", !.bytes = InitBytes, !.available = 0, !.attempt = 0]
  PROVE  OpInv(w2, r, d, x, p, t, l, k, b)
<1>1. 0 \in Int /\ 0 \in {0, 1} /\ InitBytes \in Nat BY SMT, LedgerAssumption
<1>2. w2 \in Writers BY <1>1, Zenon
<1> QED BY <1>2, SMT

\* The request is repeated.
LEMMA ReserveRepeated ==
  ASSUME NEW w, NEW r, NEW d, NEW x, NEW p, NEW t, NEW l, NEW k, NEW b, OpInv(w, r, d, x, p, t, l, k, b),
         w.pc = "reserve",
         NEW w2, w2 = [w EXCEPT !.attempt = 1]
  PROVE  OpInv(w2, r, d, x, p, t, l, k, b)
<1>1. w2 \in Writers BY Zenon
<1> QED BY <1>1, SMT

\* A writer may give up at any time.
LEMMA Dropped ==
  ASSUME NEW w, NEW r, NEW d, NEW x, NEW p, NEW t, NEW l, NEW k, NEW b, OpInv(w, r, d, x, p, t, l, k, b),
         l = "writer"
  PROVE  OpInv(Gone, r, d, x, p, t, None, k, b)
BY SMT DEF Gone

\* The file is created.
LEMMA Opened ==
  ASSUME NEW w, NEW r, NEW d, NEW x, NEW p, NEW t, NEW l, NEW k, NEW b, OpInv(w, r, d, x, p, t, l, k, b),
         w.pc = "reserved",
         NEW w2, w2 = [w EXCEPT !.pc = "created"],
         NEW d2, d2 = [d EXCEPT !.exists = TRUE]
  PROVE  OpInv(w2, r, d2, x, p, t, l, k, b)
<1>1. w2 \in Writers /\ d2 \in Files BY Zenon
<1> QED BY <1>1, SMT

\* A file may be synchronized at any time.
LEMMA Synchronized ==
  ASSUME NEW w, NEW r, NEW d, NEW x, NEW p, NEW t, NEW l, NEW k, NEW b, OpInv(w, r, d, x, p, t, l, k, b),
         NEW d2, d2 = [d EXCEPT !.synced = d.len]
  PROVE  OpInv(w, r, d2, x, p, t, l, k, b)
<1>1. d2 \in Files BY Zenon
<1> QED BY <1>1, SMT

\* The synchronized length enters the row.
LEMMA Checkpointed ==
  ASSUME NEW w, NEW r, NEW d, NEW x, NEW p, NEW t, NEW l, NEW k, NEW b, OpInv(w, r, d, x, p, t, l, k, b),
         r.state = "reserved", d.synced = d.len,
         NEW r2, r2 = [r EXCEPT !.materialized = d.len, !.identity = TRUE]
  PROVE  OpInv(w, r2, d, x, p, t, l, k, b)
<1>1. d.len \in Nat BY SMT, LedgerAssumption
<1>2. r2 \in Rows BY <1>1, Zenon
<1> QED BY <1>2, SMT

\* The writer goes on after a checkpoint.
LEMMA CheckpointHeard ==
  ASSUME NEW w, NEW r, NEW d, NEW x, NEW p, NEW t, NEW l, NEW k, NEW b, OpInv(w, r, d, x, p, t, l, k, b),
         NEW pc, \/ w.pc = "created" /\ pc = "opened"
                 \/ w.pc = "full" /\ pc = "checkpointed",
         NEW w2, w2 = [w EXCEPT !.pc = pc]
  PROVE  OpInv(w2, r, d, x, p, t, l, k, b)
<1>1. w2 \in Writers BY ZenonT(60)
<1> QED BY <1>1, SMT

\* The recording is catalogued; its initialization segment is buffered.
LEMMA Initialized ==
  ASSUME NEW w, NEW r, NEW d, NEW x, NEW p, NEW t, NEW l, NEW k, NEW b, OpInv(w, r, d, x, p, t, l, k, b),
         w.pc = "opened",
         NEW w2, w2 = [w EXCEPT !.pc = "active", !.buffered = InitBytes],
         NEW x2, x2 = [x EXCEPT !.recording = "open"]
  PROVE  OpInv(w2, r, d, x2, p, t, l, k, b)
<1>1. InitBytes \in 0 .. MaxLen BY SMTT(30), LedgerAssumption
<1>2. w2 \in Writers /\ x2 \in Entries BY <1>1, Zenon
<1> QED BY <1>2, SMT, LedgerAssumption

\* The recording is not catalogued; its initialization segment is written all the same.
LEMMA InitializationLost ==
  ASSUME NEW w, NEW r, NEW d, NEW x, NEW p, NEW t, NEW l, NEW k, NEW b, OpInv(w, r, d, x, p, t, l, k, b),
         w.pc = "opened",
         NEW d2, d2 = [d EXCEPT !.len = InitBytes]
  PROVE  OpInv(Gone, r, d2, x, p, t, None, k, b)
<1>1. InitBytes \in 0 .. MaxLen BY SMTT(30), LedgerAssumption
<1>2. d2 \in Files BY <1>1, Zenon
<1> QED BY <1>2, SMTT(30), LedgerAssumption DEF Gone

\* A fragment is buffered, or the recording ends.
LEMMA Flushed ==
  ASSUME NEW w, NEW r, NEW d, NEW x, NEW p, NEW t, NEW l, NEW k, NEW b, OpInv(w, r, d, x, p, t, l, k, b),
         w.pc = "active", NEW flush \in {"next", "last", "end"}, flush # "end" => d.len + w.buffered < MaxLen,
         NEW w2, w2 = [w EXCEPT !.pc = "flushing", !.flush = flush, !.buffered = IF flush = "end" THEN w.buffered ELSE w.buffered + 1]
  PROVE  OpInv(w2, r, d, x, p, t, l, k, b)
<1>1. (IF flush = "end" THEN w.buffered ELSE w.buffered + 1) \in 0 .. MaxLen BY SMT, LedgerAssumption
<1>2. w2 \in Writers BY <1>1, Zenon
<1> QED BY <1>2, SMTT(30), LedgerAssumption

\* A part of the buffer is written inside the reservation.
LEMMA Written ==
  ASSUME NEW w, NEW r, NEW d, NEW x, NEW p, NEW t, NEW l, NEW k, NEW b, OpInv(w, r, d, x, p, t, l, k, b),
         w.pc = "flushing", NEW end \in d.len + 1 .. d.len + w.buffered, end <= w.bytes,
         NEW w2, w2 = [w EXCEPT !.buffered = w.buffered - (end - d.len)],
         NEW d2, d2 = [d EXCEPT !.len = end]
  PROVE  OpInv(w2, r, d2, x, p, t, l, k, b)
<1>1. w.buffered - (end - d.len) \in 0 .. MaxLen /\ end \in 0 .. MaxLen BY SMT, LedgerAssumption
<1>2. w2 \in Writers /\ d2 \in Files BY <1>1, Zenon
<1> QED BY <1>2, SMTT(30), LedgerAssumption

\* The writer waits for growth, gets the admission lock, or fails.
LEMMA Moved ==
  ASSUME NEW w, NEW r, NEW d, NEW x, NEW p, NEW t, NEW l, NEW k, NEW b, OpInv(w, r, d, x, p, t, l, k, b),
         NEW pc, \/ w.pc = "flushing" /\ pc = "full"
                 \/ w.pc = "checkpointed" /\ pc \in {"locked", "failed"}
                 \/ w.pc = "refused" /\ pc = "failed",
         NEW w2, w2 = [w EXCEPT !.pc = pc]
  PROVE  OpInv(w2, r, d, x, p, t, l, k, b)
<1>1. w2 \in Writers BY ZenonT(60)
<1> QED BY <1>1, SMT

\* The ledger enters a larger reservation, whether or not the writer hears of it.
LEMMA GrowthEntered ==
  ASSUME NEW w, NEW r, NEW d, NEW x, NEW p, NEW t, NEW l, NEW k, NEW b, OpInv(w, r, d, x, p, t, l, k, b),
         r.state = "reserved", NEW bytes \in Int, bytes > r.bytes,
         NEW r2, r2 = [r EXCEPT !.bytes = bytes]
  PROVE  OpInv(w, r2, d, x, p, t, l, k, b)
<1>1. bytes \in Nat BY SMT, LedgerAssumption
<1>2. r2 \in Rows BY <1>1, Zenon
<1> QED BY <1>2, SMT

\* The writer hears how large its reservation is.
LEMMA GrowthHeard ==
  ASSUME NEW w, NEW r, NEW d, NEW x, NEW p, NEW t, NEW l, NEW k, NEW b, OpInv(w, r, d, x, p, t, l, k, b),
         w.pc = "grow",
         NEW w2, w2 = [w EXCEPT !.pc = "flushing", !.available = 0, !.attempt = 0, !.bytes = r.bytes]
  PROVE  OpInv(w2, r, d, x, p, t, l, k, b)
<1>1. 0 \in Int /\ 0 \in {0, 1} /\ r.bytes \in Nat BY SMT, LedgerAssumption
<1>2. w2 \in Writers BY <1>1, Zenon
<1> QED BY <1>2, SMTT(30)

\* The writer repeats its request for less, or gives up.
LEMMA GrowthUnheard ==
  ASSUME NEW w, NEW r, NEW d, NEW x, NEW p, NEW t, NEW l, NEW k, NEW b, OpInv(w, r, d, x, p, t, l, k, b),
         w.pc = "grow", NEW pc \in {"locked", "refused"},
         NEW w2, w2 = [w EXCEPT !.pc = pc, !.attempt = 1 - w.attempt, !.available = 0]
  PROVE  OpInv(w2, r, d, x, p, t, l, k, b)
<1>1. 0 \in Int /\ 1 - w.attempt \in {0, 1} BY SMTT(30), LedgerAssumption
<1>2. w2 \in Writers BY <1>1, Zenon
<1> QED BY <1>2, SMTT(30)

\* The stored fragment is indexed.
LEMMA Indexed ==
  ASSUME NEW w, NEW r, NEW d, NEW x, NEW p, NEW t, NEW l, NEW k, NEW b, OpInv(w, r, d, x, p, t, l, k, b),
         w.pc = "flushing", w.buffered = 0, w.flush \in {"next", "last"},
         NEW x2, x2 = [x EXCEPT !.fragments = x.fragments \cup {d.len}]
  PROVE  OpInv(w, r, d, x2, p, t, l, k, b)
<1>1. x.fragments \cup {d.len} \in SUBSET (2 .. MaxLen) BY SMTT(30), LedgerAssumption
<1>2. x2 \in Entries BY <1>1, Zenon
<1> QED BY <1>2, SMTT(30), LedgerAssumption

\* The writer goes on after a fragment.
LEMMA FragmentDone ==
  ASSUME NEW w, NEW r, NEW d, NEW x, NEW p, NEW t, NEW l, NEW k, NEW b, OpInv(w, r, d, x, p, t, l, k, b),
         w.pc = "flushing", w.buffered = 0, NEW pc \in {"active", "sealing"},
         NEW w2, w2 = [w EXCEPT !.pc = pc, !.flush = None]
  PROVE  OpInv(w2, r, d, x, p, t, l, k, b)
<1>1. w2 \in Writers BY ZenonT(60)
<1> QED BY <1>1, SMTT(30)

\* The synchronized file is ready to be published.
LEMMA Evidenced ==
  ASSUME NEW w, NEW r, NEW d, NEW x, NEW p, NEW t, NEW l, NEW k, NEW b, OpInv(w, r, d, x, p, t, l, k, b),
         w.pc \in {"sealing", "flushing"}, w.buffered = 0, d.synced = d.len,
         NEW w2, w2 = [w EXCEPT !.pc = "finalize", !.flush = None]
  PROVE  OpInv(w2, r, d, x, p, t, l, k, b)
<1>1. w2 \in Writers BY ZenonT(60)
<1> QED BY <1>1, SMT

\* The writer's recording is published.
LEMMA Finalized ==
  ASSUME NEW w, NEW r, NEW d, NEW x, NEW p, NEW t, NEW l, NEW k, NEW b, OpInv(w, r, d, x, p, t, l, k, b),
         w.pc = "finalize",
         NEW r2, r2 = [r EXCEPT !.state = "published", !.bytes = d.len],
         NEW x2, x2 = [x EXCEPT !.recording = "final"]
  PROVE  OpInv(Gone, r2, d, x2, p, t, None, k, b)
<1>1. d.len \in Nat BY SMTT(30), LedgerAssumption
<1>2. r2 \in Rows /\ x2 \in Entries BY <1>1, Zenon
<1> QED BY <1>2, SMT, LedgerAssumption DEF Gone

-----------------------------------------------------------------------------
(* What may happen to it under the worker, retention, readers and restarts.*)

\* The worker claims an operation that nobody holds.
LEMMA Taken ==
  ASSUME NEW w, NEW r, NEW d, NEW x, NEW p, NEW t, NEW l, NEW k, NEW b, OpInv(w, r, d, x, p, t, l, k, b),
         l = None, k = "idle", r.state # None
  PROVE  OpInv(w, r, d, x, p, t, "worker", "work", b)
BY Zenon

\* The worker lets go of it.
LEMMA GivenBack ==
  ASSUME NEW w, NEW r, NEW d, NEW x, NEW p, NEW t, NEW l, NEW k, NEW b, OpInv(w, r, d, x, p, t, l, k, b),
         l = "worker"
  PROVE  OpInv(w, r, d, x, p, t, None, "idle", b)
BY Zenon

\* The worker finds no file.
LEMMA FoundAbsent ==
  ASSUME NEW w, NEW r, NEW d, NEW x, NEW p, NEW t, NEW l, NEW k, NEW b, OpInv(w, r, d, x, p, t, l, k, b),
         k = "work", ~d.exists
  PROVE  OpInv(w, r, d, x, p, t, l, "absent", b)
BY Zenon

\* A reservation that was never opened is released.
LEMMA Released ==
  ASSUME NEW w, NEW r, NEW d, NEW x, NEW p, NEW t, NEW l, NEW k, NEW b, OpInv(w, r, d, x, p, t, l, k, b),
         k = "absent", ~r.identity,
         NEW r2, r2 = [r EXCEPT !.state = "cancelled"]
  PROVE  OpInv(w, r2, d, x, p, t, l, k, b)
<1>1. r2 \in Rows BY Zenon
<1> QED BY <1>1, Zenon

\* The last indexed fragment that is stored.
LastStored(n, d, x) ==
  n \in x.fragments /\ n <= d.len /\ \A f \in x.fragments : f <= d.len => f <= n

\* The stored prefix that is indexed is to be sealed.
LEMMA SealPlanned ==
  ASSUME NEW w, NEW r, NEW d, NEW x, NEW p, NEW t, NEW l, NEW k, NEW b, OpInv(w, r, d, x, p, t, l, k, b),
         k = "work", r.state = "reserved", r.identity, p = NoPlan, d.exists,
         NEW n, LastStored(n, d, x),
         NEW p2, p2 = [p EXCEPT !.mode = "seal", !.original = d.len, !.retained = n]
  PROVE  OpInv(w, r, d, x, p2, t, l, k, b)
<1>1. n \in 0 .. MaxLen BY SMTT(30), LedgerAssumption DEF LastStored
<1>2. p2 \in Plans BY <1>1, Zenon
<1> QED BY <1>2, SMTT(30) DEF LastStored

\* A recording of which nothing is indexed is to be abandoned.
LEMMA AbandonPlanned ==
  ASSUME NEW w, NEW r, NEW d, NEW x, NEW p, NEW t, NEW l, NEW k, NEW b, OpInv(w, r, d, x, p, t, l, k, b),
         k = "work", r.state = "reserved", r.identity, p = NoPlan, d.exists, x.fragments = {},
         NEW p2, p2 = [p EXCEPT !.mode = "abandon", !.original = d.len, !.retained = d.len]
  PROVE  OpInv(w, r, d, x, p2, t, l, k, b)
<1>1. p2 \in Plans BY Zenon
<1> QED BY <1>1, Zenon

\* The file is truncated to the planned prefix.
LEMMA PrefixRetained ==
  ASSUME NEW w, NEW r, NEW d, NEW x, NEW p, NEW t, NEW l, NEW k, NEW b, OpInv(w, r, d, x, p, t, l, k, b),
         k = "work", r.state = "reserved", p.mode = "seal", d.len \in {p.original, p.retained},
         NEW d2, d2 = [d EXCEPT !.len = p.retained, !.synced = p.retained]
  PROVE  OpInv(w, r, d2, x, p, t, l, "retained", b)
<1>1. d2 \in Files BY ZenonT(60)
<1> QED BY <1>1, SMTT(30)

\* A row, a plan and an index entry that publish the retained prefix.
PrefixIn(r, p, r2, p2, x2) ==
  /\ r2 \in Rows /\ p2 \in Plans /\ x2 \in Entries
  /\ r2.state = "published" /\ r2.bytes = p.retained /\ r2.volume = r.volume /\ r2.identity = r.identity
  /\ p2.mode = p.mode /\ p2.original = p.original /\ p2.retained = p.retained /\ p2.complete = TRUE
  /\ x2.recording = "final" /\ \A f \in x2.fragments : f <= p.retained

\* A recording whose prefix is retained may be published with it.
LEMMA PrefixPublished ==
  ASSUME NEW w, NEW r, NEW d, NEW x, NEW p, NEW t, NEW l, NEW k, NEW b, OpInv(w, r, d, x, p, t, l, k, b),
         k = "retained", NEW r2, NEW p2, NEW x2, PrefixIn(r, p, r2, p2, x2)
  PROVE  OpInv(w, r2, d, x2, p2, t, None, "idle", b)
BY SMT DEF PrefixIn

\* The row, plan and index entry of a recording whose prefix is published.
SealTo(r, p, x, r2, p2, x2) ==
  /\ r2 = [[r EXCEPT !.materialized = p.retained] EXCEPT !.state = "published", !.bytes = p.retained]
  /\ p2 = [p EXCEPT !.complete = TRUE, !.acknowledged = TRUE]
  /\ x2 = [x EXCEPT !.recording = "final", !.fragments = {f \in x.fragments : f <= p.retained}]

\* The prefix is published.
LEMMA Sealed ==
  ASSUME NEW w, NEW r, NEW d, NEW x, NEW p, NEW t, NEW l, NEW k, NEW b, OpInv(w, r, d, x, p, t, l, k, b),
         k = "retained", NEW r2, NEW p2, NEW x2, SealTo(r, p, x, r2, p2, x2)
  PROVE  OpInv(w, r2, d, x2, p2, t, None, "idle", b)
<1> USE DEF SealTo
<1>1. p.retained \in Nat /\ {f \in x.fragments : f <= p.retained} \in SUBSET (2 .. MaxLen)
  BY SMTT(30), LedgerAssumption
<1>2. r2 \in Rows /\ p2 \in Plans /\ x2 \in Entries BY <1>1, ZenonT(60)
<1>3. r2.state = "published" /\ r2.bytes = p.retained /\ r2.volume = r.volume /\ r2.identity = r.identity BY Zenon
<1>4. p2.mode = p.mode /\ p2.original = p.original /\ p2.retained = p.retained /\ p2.complete = TRUE BY Zenon
<1>5. x2.recording = "final" /\ \A f \in x2.fragments : f <= p.retained BY Zenon
<1>6. PrefixIn(r, p, r2, p2, x2) BY <1>2, <1>3, <1>4, <1>5, ZenonT(60) DEF PrefixIn
<1> HIDE DEF OpInv, None
<1> QED BY <1>6, PrefixPublished, Zenon

\* The file may go: the recording is abandoned, or retired and not read.
Removable(p, t, b) == (p.mode = "abandon" /\ ~p.complete) \/ (t = "journaled" /\ b = None)

FileGone(d, d2) == d2 = [d EXCEPT !.exists = FALSE, !.len = 0, !.synced = 0]

\* The file is removed, if nobody reads it.
LEMMA FileRemoved ==
  ASSUME NEW w, NEW r, NEW d, NEW x, NEW p, NEW t, NEW l, NEW k, NEW b, OpInv(w, r, d, x, p, t, l, k, b),
         k = "work", Removable(p, t, b), NEW d2, FileGone(d, d2)
  PROVE  OpInv(w, r, d2, x, p, t, l, "removed", b)
<1>1. 0 \in 0 .. MaxLen BY SMTT(30), LedgerAssumption
<1>2. d2 \in Files /\ ~d2.exists /\ d2.len = 0 /\ d2.synced = 0 BY <1>1, ZenonT(60) DEF FileGone
<1> QED BY <1>2, SMTT(30) DEF Removable

NewReceipt(d, d2) == \E c \in {"synced", "written", "torn"} : d2 = [d EXCEPT !.receipt = c]

\* The receipts of a removal are none of the invariant's concern.
LEMMA ReceiptChanged ==
  ASSUME NEW w, NEW r, NEW d, NEW x, NEW p, NEW t, NEW l, NEW k, NEW b, OpInv(w, r, d, x, p, t, l, k, b),
         NEW d2, NewReceipt(d, d2)
  PROVE  OpInv(w, r, d2, x, p, t, l, k, b)
<1>1. d2 \in Files /\ d2.exists = d.exists /\ d2.len = d.len /\ d2.synced = d.synced
  BY ZenonT(60) DEF NewReceipt
<1> QED BY <1>1, SMTT(30)

\* A retirement is complete.
LEMMA RetirementDone ==
  ASSUME NEW w, NEW r, NEW d, NEW x, NEW p, NEW t, NEW l, NEW k, NEW b, OpInv(w, r, d, x, p, t, l, k, b),
         k = "removed", t = "journaled",
         NEW r2, r2 = [r EXCEPT !.state = "cancelled"], NEW x2, x2 = [recording |-> None, fragments |-> {}]
  PROVE  OpInv(w, r2, d, x2, p, "complete", l, "work", b)
<1>1. {} \in SUBSET (2 .. MaxLen) BY ZenonT(60), LedgerAssumption
<1>2. r2 \in Rows /\ x2 \in Entries BY <1>1, ZenonT(60)
<1> QED BY <1>2, SMTT(30)

\* An abandonment is complete.
LEMMA AbandonDone ==
  ASSUME NEW w, NEW r, NEW d, NEW x, NEW p, NEW t, NEW l, NEW k, NEW b, OpInv(w, r, d, x, p, t, l, k, b),
         k = "removed", t \notin {"journaled", "complete"},
         NEW r2, r2 = [r EXCEPT !.state = "cancelled"], NEW x2, x2 = [recording |-> None, fragments |-> {}],
         NEW p2, p2 = [p EXCEPT !.complete = TRUE]
  PROVE  OpInv(w, r2, d, x2, p2, t, l, "work", b)
<1>1. {} \in SUBSET (2 .. MaxLen) BY ZenonT(60), LedgerAssumption
<1>2. r2 \in Rows /\ x2 \in Entries /\ p2 \in Plans BY <1>1, ZenonT(60)
<1> QED BY <1>2, SMTT(30)

\* A complete retirement is acknowledged.
LEMMA RetirementSeen ==
  ASSUME NEW w, NEW r, NEW d, NEW x, NEW p, NEW t, NEW l, NEW k, NEW b, OpInv(w, r, d, x, p, t, l, k, b),
         t = "complete"
  PROVE  OpInv(w, r, d, x, p, "acknowledged", l, k, b)
BY ZenonT(60)

\* A complete abandonment is acknowledged, or not yet.
LEMMA AbandonSeen ==
  ASSUME NEW w, NEW r, NEW d, NEW x, NEW p, NEW t, NEW l, NEW k, NEW b, OpInv(w, r, d, x, p, t, l, k, b),
         p.mode = "abandon", NEW a \in BOOLEAN,
         NEW p2, p2 = [p EXCEPT !.acknowledged = a]
  PROVE  OpInv(w, r, d, x, p2, t, l, k, b)
<1>1. p2 \in Plans BY ZenonT(60)
<1> QED BY <1>1, SMTT(30)

\* A published recording is journaled for retirement.
LEMMA RetirementJournaled ==
  ASSUME NEW w, NEW r, NEW d, NEW x, NEW p, NEW t, NEW l, NEW k, NEW b, OpInv(w, r, d, x, p, t, l, k, b),
         t = None, r.state = "published"
  PROVE  OpInv(w, r, d, x, p, "journaled", l, k, b)
BY Zenon

\* A reader opens a recording that is neither retired nor under recovery.
LEMMA ReaderOpened ==
  ASSUME NEW w, NEW r, NEW d, NEW x, NEW p, NEW t, NEW l, NEW k, NEW b, OpInv(w, r, d, x, p, t, l, k, b),
         x.fragments # {}, t = None, p.mode = None \/ p.complete
  PROVE  OpInv(w, r, d, x, p, t, l, k, "open")
BY Zenon

\* A reader is done.
LEMMA ReaderClosed ==
  ASSUME NEW w, NEW r, NEW d, NEW x, NEW p, NEW t, NEW l, NEW k, NEW b, OpInv(w, r, d, x, p, t, l, k, b)
  PROVE  OpInv(w, r, d, x, p, t, l, k, None)
BY ZenonT(60)

\* The process stops; the file keeps what was synchronized and any part of the rest.
LEMMA Restarted ==
  ASSUME NEW w, NEW r, NEW d, NEW x, NEW p, NEW t, NEW l, NEW k, NEW b, OpInv(w, r, d, x, p, t, l, k, b),
         NEW w2, w2 = IF w = Idle THEN Idle ELSE Gone,
         NEW d2 \in Files, d2.exists = d.exists, d2.synced = d.synced, d2.len \in d.synced .. d.len
  PROVE  OpInv(w2, r, d2, x, p, t, None, "idle", None)
<1>1. w2 \in Writers BY SMTT(30), LedgerAssumption DEF Idle, Gone
<1> QED BY <1>1, SMTT(30) DEF Idle, Gone

HIDE DEF OpInv, Typed, LeaseOK, RowOK, FileOK, IndexOK, BufferOK, PlanOK, PublishedOK, ReadOK,
         Writers, Rows, Files, Entries, Plans, Retirements, Before, Opening, Recording, WorkerPcs, Pcs,
         None, NoPlan, InitBytes

-----------------------------------------------------------------------------
(* A step of one operation leaves the others as they are. *)

\* A step of one operation keeps the invariant if it keeps that of the operation.
LEMMA Confined ==
  ASSUME LedgerInv, NEW o \in Ops, NEW w, NEW r, NEW d, NEW x, NEW p, NEW t, NEW l, NEW k, NEW b,
         To(o, writer, writer', w), To(o, row, row', r), To(o, disk, disk', d), To(o, index, index', x),
         To(o, plan, plan', p), RetirementTo(o, t), To(o, lease, lease', l), WorkerTo(o, k), ReadTo(o, b),
         OpInv(w, r, d, x, p, t, l, k, b)
  PROVE  LedgerInv'
<1>1. Tables' BY Zenon DEF Tables, To, RetirementTo, WorkerTo, ReadTo
<1>2. Holds(o)' BY Zenon DEF Holds, To, RetirementTo, WorkerTo, ReadTo
<1>3. ASSUME NEW q \in Ops, q # o PROVE Holds(q)'
  <2>1. OpInv(writer[q], row[q], disk[q], index[q], plan[q], retirement[q], lease[q], At(q), Read(q))
    BY Zenon DEF LedgerInv, Holds
  <2>2. /\ writer'[q] = writer[q] /\ row'[q] = row[q] /\ disk'[q] = disk[q] /\ index'[q] = index[q]
        /\ plan'[q] = plan[q] /\ lease'[q] = lease[q] /\ At(q)' = At(q) /\ Read(q)' = Read(q)
    BY <1>3, Zenon DEF To, WorkerTo, ReadTo
  <2>3. OpInv(writer[q], row[q], disk[q], index[q], plan[q], retirement'[q], lease[q], At(q), Read(q))
    BY <1>3, <2>1, RetirementJournaled, Zenon DEF RetirementTo
  <2> QED BY <2>2, <2>3, Zenon DEF Holds
<1> QED BY <1>1, <1>2, <1>3, Zenon DEF LedgerInv

\* What a step leaves alone, for the operation it is about.
LEMMA Stays ==
  ASSUME LedgerInv, NEW o \in Ops
  PROVE  /\ writer' = writer => To(o, writer, writer', writer[o])
         /\ row' = row => To(o, row, row', row[o])
         /\ disk' = disk => To(o, disk, disk', disk[o])
         /\ index' = index => To(o, index, index', index[o])
         /\ plan' = plan => To(o, plan, plan', plan[o])
         /\ retirement' = retirement => RetirementTo(o, retirement[o])
         /\ lease' = lease => To(o, lease, lease', lease[o])
         /\ worker' = worker => WorkerTo(o, At(o))
         /\ reading' = reading => ReadTo(o, Read(o))
BY Zenon DEF LedgerInv, Tables, To, RetirementTo, WorkerTo, ReadTo, Table, At, Read

-----------------------------------------------------------------------------
(* The writer. *)

\* A writer that changes nothing but itself and its lease.
LEMMA WriterAlone ==
  ASSUME LedgerInv, NEW o \in Ops, NEW w, NEW l, To(o, writer, writer', w), To(o, lease, lease', l),
         UNCHANGED <<row, disk, index, plan, retirement, worker, reading>>,
         OpInv(w, row[o], disk[o], index[o], plan[o], retirement[o], l, At(o), Read(o))
  PROVE  LedgerInv'
BY Stays, Confined, Zenon

\* Place keeps the invariant.
LEMMA PlaceStep ==
  ASSUME LedgerInv, NEW o \in Ops, NEW v \in Volumes, Place(o, v)
  PROVE  LedgerInv'
<1> DEFINE w == [writer[o] EXCEPT !.pc = "placed", !.target = v]
<1>1. To(o, writer, writer', w) BY Zenon DEF Place, To, Table, LedgerInv, Tables
<1>2. OpInv(w, row[o], disk[o], index[o], plan[o], retirement[o], lease[o], At(o), Read(o))
  <2>1. writer[o].pc = "idle" BY Zenon DEF Place, Idle, Gone
  <2> QED BY <2>1, Now, Placed, Zenon
<1>3. UNCHANGED <<row, disk, index, plan, retirement, lease, worker, reading>> BY Zenon DEF Place, catalog
<1>4. To(o, lease, lease', lease[o]) BY <1>3, Stays, Zenon
<1> HIDE DEF w
<1> QED BY <1>1, <1>2, <1>3, <1>4, WriterAlone, Zenon

\* ReadRevision keeps the invariant.
LEMMA ReadRevisionStep ==
  ASSUME LedgerInv, NEW o \in Ops, ReadRevision(o)
  PROVE  LedgerInv'
<1> DEFINE pc == IF writer[o].pc = "placed" THEN "revised" ELSE "growRevised"
           w == [writer[o] EXCEPT !.pc = pc]
<1>1. To(o, writer, writer', w) BY Zenon DEF ReadRevision, Step, To, Table, LedgerInv, Tables
<1>2. OpInv(w, row[o], disk[o], index[o], plan[o], retirement[o], lease[o], At(o), Read(o))
  <2>1. \/ writer[o].pc = "placed" /\ pc = "revised"
        \/ writer[o].pc = "locked" /\ pc = "growRevised"
    BY Zenon DEF ReadRevision
  <2> HIDE DEF pc
  <2> QED BY <2>1, Now, Revised, Zenon
<1>3. UNCHANGED <<row, disk, index, plan, retirement, lease, worker, reading>> BY Zenon DEF ReadRevision, catalog
<1>4. To(o, lease, lease', lease[o]) BY <1>3, Stays, Zenon
<1> HIDE DEF w
<1> QED BY <1>1, <1>2, <1>3, <1>4, WriterAlone, Zenon

\* The free space of a volume's filesystem is an integer.
LEMMA FreeInt ==
  ASSUME LedgerInv, NEW v \in Volumes
  PROVE  Free(Filesystem[v]) \in Int
<1> DEFINE f == [q \in Ops |-> IF OnFilesystem(q, Filesystem[v]) THEN disk[q].len ELSE 0]
<1>1. ASSUME NEW q \in Ops PROVE disk[q].len \in Int
  <2>1. disk[q] \in Files BY Now, Zenon DEF OpInv, Typed
  <2> QED BY <2>1, LedgerAssumption DEF Files
<1>2. f \in [Ops -> Int] BY <1>1
<1> HIDE DEF f
<1>3. SumFunction(f) \in Int BY <1>2, SumInt, LedgerAssumption, Zenon
<1> QED BY <1>3, LedgerAssumption, SMTT(30) DEF Free, Used, f

\* Probe keeps the invariant.
LEMMA ProbeStep ==
  ASSUME LedgerInv, NEW o \in Ops, Probe(o)
  PROVE  LedgerInv'
<1> DEFINE free == Free(Filesystem[writer[o].target])
           w == [writer[o] EXCEPT !.pc = IF writer[o].pc = "revised" THEN "reserve" ELSE "grow", !.available = free]
           l == IF writer[o].pc = "revised" THEN "writer" ELSE lease[o]
<1>1. To(o, writer, writer', w) BY Zenon DEF Probe, To, Table, LedgerInv, Tables
<1>2. OpInv(w, row[o], disk[o], index[o], plan[o], retirement[o], l, At(o), Read(o))
  <2>1. writer[o].pc \in {"revised", "growRevised"} BY Zenon DEF Probe
  <2>2. writer[o].target \in Volumes BY <2>1, WriterKnown, Zenon
  <2>3. free \in Int BY <2>2, FreeInt, Zenon
  <2> HIDE DEF free
  <2>4. CASE writer[o].pc = "revised"
    <3>1. w = [writer[o] EXCEPT !.pc = "reserve", !.available = free] /\ l = "writer" BY <2>4, Zenon
    <3> HIDE DEF w, l
    <3> QED BY <2>3, <2>4, <3>1, Now, Probed, Zenon
  <2>5. CASE writer[o].pc = "growRevised"
    <3>1. w = [writer[o] EXCEPT !.pc = "grow", !.available = free] /\ l = lease[o] BY <2>5, Zenon
    <3> HIDE DEF w, l
    <3> QED BY <2>3, <2>5, <3>1, Now, GrowthProbed, Zenon
  <2> QED BY <2>1, <2>4, <2>5, Zenon
<1>3. UNCHANGED <<row, disk, index, plan, retirement, worker, reading>> BY Zenon DEF Probe, catalog
<1>4. To(o, lease, lease', l) BY Zenon DEF Probe, To, Table, LedgerInv, Tables
<1> HIDE DEF w, l
<1> QED BY <1>1, <1>2, <1>3, <1>4, WriterAlone, Zenon

\* A writer that gives up keeps the invariant, whatever its last request did to the row.
LEMMA GivesUp ==
  ASSUME LedgerInv, NEW o \in Ops, NEW r, NEW d, NEW x, lease[o] = "writer", Drop(o),
         To(o, row, row', r), To(o, disk, disk', d), To(o, index, index', x),
         UNCHANGED <<plan, retirement, worker, reading>>,
         OpInv(writer[o], r, d, x, plan[o], retirement[o], lease[o], At(o), Read(o))
  PROVE  LedgerInv'
<1>1. OpInv(Gone, r, d, x, plan[o], retirement[o], None, At(o), Read(o)) BY Dropped, Zenon
<1> QED BY <1>1, DropTo, Stays, Confined, Zenon

\* A writer that changes its row too.
LEMMA WriterWithRow ==
  ASSUME LedgerInv, NEW o \in Ops, NEW w, NEW r, To(o, writer, writer', w), To(o, row, row', r),
         UNCHANGED <<disk, index, plan, retirement, lease, worker, reading>>,
         OpInv(w, r, disk[o], index[o], plan[o], retirement[o], lease[o], At(o), Read(o))
  PROVE  LedgerInv'
BY Stays, Confined, Zenon

\* Reserve keeps the invariant: the row of a lost reply is the one that the repeated request finds.
LEMMA ReserveStep ==
  ASSUME LedgerInv, NEW o \in Ops, Reserve(o)
  PROVE  LedgerInv'
<1> DEFINE Inv(w, r) == OpInv(w, r, disk[o], index[o], plan[o], retirement[o], lease[o], At(o), Read(o))
           new == [row[o] EXCEPT !.state = "reserved", !.volume = writer[o].target, !.bytes = InitBytes]
           heard == [writer[o] EXCEPT !.pc = "reserved", !.bytes = InitBytes, !.available = 0, !.attempt = 0]
           again == [writer[o] EXCEPT !.attempt = 1]
<1>1. writer[o].pc = "reserve" /\ UNCHANGED <<disk, index, plan, retirement, worker, reading>>
  BY Zenon DEF Reserve
<1>2. Table(row) /\ Table(writer) BY Zenon DEF LedgerInv, Tables
<1>3. Inv(writer[o], row[o]) BY Now, Zenon
<1>4. lease[o] = "writer" BY <1>1, WriterKnown, Zenon
<1>5. ASSUME ReserveAdmitted(o), ReserveCommit(o) PROVE To(o, row, row', new) /\ Inv(writer[o], new) /\ new.state = "reserved"
  <2>1. row[o].state = None BY <1>5, Zenon DEF ReserveAdmitted
  <2>2. Inv(writer[o], new) BY <1>1, <1>3, <2>1, ReserveEntered, Zenon
  <2>3. row[o] \in Rows BY WriterKnown, Zenon
  <2>4. new.state = "reserved" BY <2>3, Zenon DEF Rows
  <2> QED BY <1>2, <1>5, <2>2, <2>4, Zenon DEF ReserveCommit, SetRow, To, Table
<1>6. PICK r : /\ To(o, row, row', r) /\ Inv(writer[o], r)
               /\ \/ /\ r.state = "reserved"
                     /\ writer' = [writer EXCEPT ![o].pc = "reserved", ![o].bytes = InitBytes,
                                                 ![o].available = 0, ![o].attempt = 0]
                     /\ UNCHANGED lease
                  \/ ReserveError(o)
  <2>1. UNCHANGED row => To(o, row, row', row[o]) BY Stays, Zenon
  <2> HIDE DEF Inv, new
  <2> QED BY <1>3, <1>5, <2>1, Zenon DEF Reserve
<1>7. CASE /\ r.state = "reserved" /\ UNCHANGED lease
           /\ writer' = [writer EXCEPT ![o].pc = "reserved", ![o].bytes = InitBytes,
                                       ![o].available = 0, ![o].attempt = 0]
  <2>1. To(o, writer, writer', heard) BY <1>2, <1>7, Zenon DEF To, Table
  <2>2. Inv(heard, r) BY <1>1, <1>6, <1>7, ReserveHeard, Zenon
  <2> HIDE DEF heard
  <2> QED BY <1>1, <1>6, <1>7, <2>1, <2>2, WriterWithRow, Zenon
<1>8. CASE ReserveError(o) /\ writer[o].attempt = 0
  <2>1. To(o, writer, writer', again) /\ UNCHANGED lease BY <1>2, <1>8, Zenon DEF To, Table, ReserveError
  <2>2. Inv(again, r) BY <1>1, <1>6, ReserveRepeated, Zenon
  <2> HIDE DEF again
  <2> QED BY <1>1, <1>6, <2>1, <2>2, WriterWithRow, Zenon
<1>9. CASE ReserveError(o) /\ writer[o].attempt # 0
  <2>1. Drop(o) BY <1>9, Zenon DEF ReserveError
  <2>2. To(o, disk, disk', disk[o]) /\ To(o, index, index', index[o]) BY <1>1, Stays, Zenon
  <2> QED BY <1>1, <1>4, <1>6, <2>1, <2>2, GivesUp, Zenon
<1> QED BY <1>6, <1>7, <1>8, <1>9, Zenon

\* A writer that gives up without another trace.
LEMMA GivesUpAsIs ==
  ASSUME LedgerInv, NEW o \in Ops, lease[o] = "writer", Drop(o),
         UNCHANGED <<row, disk, index, plan, retirement, worker, reading>>
  PROVE  LedgerInv'
BY Stays, Now, GivesUp, Zenon

\* NeverOpened keeps the invariant.
LEMMA NeverOpenedStep ==
  ASSUME LedgerInv, NEW o \in Ops, NeverOpened(o)
  PROVE  LedgerInv'
<1>1. lease[o] = "writer" BY WriterKnown, Zenon DEF NeverOpened
<1> QED BY <1>1, GivesUpAsIs, Zenon DEF NeverOpened, catalog

\* DropFailed keeps the invariant.
LEMMA DropFailedStep ==
  ASSUME LedgerInv, NEW o \in Ops, DropFailed(o)
  PROVE  LedgerInv'
<1>1. lease[o] = "writer" BY WriterKnown, Zenon DEF DropFailed
<1> QED BY <1>1, GivesUpAsIs, Zenon DEF DropFailed, catalog

\* A writer that changes its row, its file and its index entry.
LEMMA WriterMakes ==
  ASSUME LedgerInv, NEW o \in Ops, NEW w, NEW r, NEW d, NEW x, To(o, writer, writer', w),
         To(o, row, row', r), To(o, disk, disk', d), To(o, index, index', x),
         UNCHANGED <<plan, retirement, lease, worker, reading>>,
         OpInv(w, r, d, x, plan[o], retirement[o], lease[o], At(o), Read(o))
  PROVE  LedgerInv'
BY Stays, Confined, Zenon

\* Open keeps the invariant.
LEMMA OpenStep ==
  ASSUME LedgerInv, NEW o \in Ops, Open(o)
  PROVE  LedgerInv'
<1> DEFINE w == [writer[o] EXCEPT !.pc = "created"]
           d == [disk[o] EXCEPT !.exists = TRUE]
<1>1. To(o, writer, writer', w) /\ To(o, disk, disk', d)
  BY Zenon DEF Open, Step, To, Table, LedgerInv, Tables
<1>2. UNCHANGED <<row, index, plan, retirement, lease, worker, reading>> BY Zenon DEF Open, catalog
<1>3. OpInv(w, row[o], d, index[o], plan[o], retirement[o], lease[o], At(o), Read(o))
  BY Now, Opened, Zenon DEF Open
<1> HIDE DEF w, d
<1> QED BY <1>1, <1>2, <1>3, Stays, WriterMakes, ZenonT(60)

\* Materialize keeps the invariant, also when the checkpoint was made and its reply is lost.
LEMMA MaterializeStep ==
  ASSUME LedgerInv, NEW o \in Ops, Materialize(o)
  PROVE  LedgerInv'
<1> DEFINE Inv(w, r, d) == OpInv(w, r, d, index[o], plan[o], retirement[o], lease[o], At(o), Read(o))
           new == [row[o] EXCEPT !.materialized = disk[o].len, !.identity = TRUE]
           d == [disk[o] EXCEPT !.synced = disk[o].len]
           pc == IF writer[o].pc = "created" THEN "opened" ELSE "checkpointed"
           w == [writer[o] EXCEPT !.pc = pc]
<1>1. writer[o].pc \in {"created", "full"} /\ UNCHANGED <<index, plan, retirement, worker, reading>>
  BY Zenon DEF Materialize
<1>2. Table(row) /\ Table(writer) /\ Table(disk) BY Zenon DEF LedgerInv, Tables
<1>3. lease[o] = "writer" /\ row[o].state = "reserved" /\ disk[o] \in Files
  <2>1. writer[o].pc \notin {"idle", "gone", "placed", "revised", "reserve"} BY <1>1, Zenon
  <2> QED BY <2>1, WriterKnown, Zenon
<1>4. To(o, disk, disk', d) BY <1>2, Zenon DEF Materialize, To, Table
<1>5. Inv(writer[o], row[o], d) BY Now, Synchronized, Zenon
<1>6. d.len = disk[o].len /\ d.synced = d.len BY <1>3, Zenon DEF Files
<1>7. To(o, index, index', index[o]) BY <1>1, Stays, Zenon
<1> HIDE DEF d
<1>8. Inv(writer[o], new, d) BY <1>3, <1>5, <1>6, Checkpointed, ZenonT(60)
<1> HIDE DEF Inv
<1>9. PICK r : To(o, row, row', r) /\ Inv(writer[o], r, d) /\ ((Step(o, pc) /\ UNCHANGED lease) \/ Drop(o))
  <2>1. UNCHANGED row => To(o, row, row', row[o]) BY Stays, Zenon
  <2>2. SetRow(o, new) => To(o, row, row', new) BY <1>2, Zenon DEF SetRow, To, Table
  <2> QED BY <1>5, <1>8, <2>1, <2>2, ZenonT(60) DEF Materialize, Checkpoint
<1>10. CASE Step(o, pc) /\ UNCHANGED lease
  <2>1. To(o, writer, writer', w) BY <1>2, <1>10, Zenon DEF Step, To, Table
  <2>2. \/ writer[o].pc = "created" /\ pc = "opened"
        \/ writer[o].pc = "full" /\ pc = "checkpointed"
    BY <1>1, Zenon
  <2> HIDE DEF pc
  <2>3. Inv(w, r, d) BY <1>9, <2>2, CheckpointHeard, Zenon DEF Inv
  <2> HIDE DEF w
  <2> QED BY <1>1, <1>4, <1>7, <1>9, <1>10, <2>1, <2>3, WriterMakes, ZenonT(60) DEF Inv
<1>11. CASE Drop(o)
  BY <1>1, <1>3, <1>4, <1>7, <1>9, <1>11, GivesUp, ZenonT(60) DEF Inv
<1> QED BY <1>9, <1>10, <1>11, Zenon

\* Initialize keeps the invariant.
LEMMA InitializeStep ==
  ASSUME LedgerInv, NEW o \in Ops, Initialize(o)
  PROVE  LedgerInv'
<1> DEFINE w == [writer[o] EXCEPT !.pc = "active", !.buffered = InitBytes]
           x == [index[o] EXCEPT !.recording = "open"]
           d == [disk[o] EXCEPT !.len = InitBytes]
<1>1. writer[o].pc = "opened" /\ UNCHANGED <<row, plan, retirement, worker, reading>> BY Zenon DEF Initialize
<1>2. Table(index) /\ Table(writer) /\ Table(disk) BY Zenon DEF LedgerInv, Tables
<1>3. CASE /\ index' = [index EXCEPT ![o].recording = "open"] /\ UNCHANGED <<disk, lease>>
           /\ writer' = [writer EXCEPT ![o].pc = "active", ![o].buffered = InitBytes]
  <2>1. To(o, writer, writer', w) /\ To(o, index, index', x) BY <1>2, <1>3, Zenon DEF To, Table
  <2>2. OpInv(w, row[o], disk[o], x, plan[o], retirement[o], lease[o], At(o), Read(o))
    BY <1>1, Now, Initialized, Zenon
  <2> HIDE DEF w, x
  <2> QED BY <1>1, <1>3, <2>1, <2>2, Stays, WriterMakes, ZenonT(60)
<1>4. CASE index' = index /\ Drop(o) /\ disk' = [disk EXCEPT ![o].len = InitBytes]
  <2>1. To(o, disk, disk', d) BY <1>2, <1>4, Zenon DEF To, Table
  <2>2. OpInv(Gone, row[o], d, index[o], plan[o], retirement[o], None, At(o), Read(o))
    BY <1>1, Now, InitializationLost, Zenon
  <2> HIDE DEF d
  <2> QED BY <1>1, <1>4, <2>1, <2>2, DropTo, Stays, Confined, ZenonT(60)
<1> QED BY <1>3, <1>4, Zenon DEF Initialize

\* Flush keeps the invariant.
LEMMA FlushStep ==
  ASSUME LedgerInv, NEW o \in Ops, NEW flush \in {"next", "last", "end"}, Flush(o, flush)
  PROVE  LedgerInv'
<1> DEFINE w == [writer[o] EXCEPT !.pc = "flushing", !.flush = flush,
                   !.buffered = IF flush = "end" THEN writer[o].buffered ELSE writer[o].buffered + 1]
<1>1. To(o, writer, writer', w) BY Zenon DEF Flush, To, Table, LedgerInv, Tables
<1>2. OpInv(w, row[o], disk[o], index[o], plan[o], retirement[o], lease[o], At(o), Read(o))
  <2>1. writer[o].pc = "active" /\ (flush # "end" => disk[o].len + writer[o].buffered < MaxLen)
    BY Zenon DEF Flush
  <2> QED BY <2>1, Now, Flushed, Zenon
<1>3. UNCHANGED <<row, disk, index, plan, retirement, lease, worker, reading>> BY Zenon DEF Flush, catalog
<1>4. To(o, lease, lease', lease[o]) BY <1>3, Stays, Zenon
<1> HIDE DEF w
<1> QED BY <1>1, <1>2, <1>3, <1>4, WriterAlone, Zenon

\* Write keeps the invariant: the file stays within the reservation.
LEMMA WriteStep ==
  ASSUME LedgerInv, NEW o \in Ops, Write(o)
  PROVE  LedgerInv'
<1>1. PICK end \in disk[o].len + 1 .. Needed(o) :
          /\ disk' = [disk EXCEPT ![o].len = end]
          /\ writer' = [writer EXCEPT ![o].buffered = @ - (end - disk[o].len)]
  BY Zenon DEF Write
<1> DEFINE w == [writer[o] EXCEPT !.buffered = writer[o].buffered - (end - disk[o].len)]
           d == [disk[o] EXCEPT !.len = end]
<1>2. To(o, writer, writer', w) /\ To(o, disk, disk', d) BY <1>1, Zenon DEF To, Table, LedgerInv, Tables
<1>3. writer[o].pc = "flushing" /\ Needed(o) <= writer[o].bytes
      /\ UNCHANGED <<row, index, plan, retirement, lease, worker, reading>> BY Zenon DEF Write, catalog
<1>4. end \in disk[o].len + 1 .. disk[o].len + writer[o].buffered /\ end <= writer[o].bytes
  <2>1. writer[o].bytes \in Int BY WriterKnown DEF Writers
  <2> QED BY <1>1, <1>3, <2>1, NeededWithin, SMTT(30)
<1>5. OpInv(w, row[o], d, index[o], plan[o], retirement[o], lease[o], At(o), Read(o))
  BY <1>3, <1>4, Now, Written, ZenonT(60)
<1> HIDE DEF w, d
<1> QED BY <1>2, <1>3, <1>5, Stays, WriterMakes, Zenon

\* WriteFull keeps the invariant.
LEMMA WriteFullStep ==
  ASSUME LedgerInv, NEW o \in Ops, WriteFull(o)
  PROVE  LedgerInv'
<1> DEFINE w == [writer[o] EXCEPT !.pc = "full"]
<1>1. To(o, writer, writer', w) BY Zenon DEF WriteFull, Step, To, Table, LedgerInv, Tables
<1>2. OpInv(w, row[o], disk[o], index[o], plan[o], retirement[o], lease[o], At(o), Read(o))
  BY Now, Moved, Zenon DEF WriteFull
<1>3. UNCHANGED <<row, disk, index, plan, retirement, lease, worker, reading>> BY Zenon DEF WriteFull, catalog
<1>4. To(o, lease, lease', lease[o]) BY <1>3, Stays, Zenon
<1> HIDE DEF w
<1> QED BY <1>1, <1>2, <1>3, <1>4, WriterAlone, Zenon

\* LockGrowth keeps the invariant.
LEMMA LockGrowthStep ==
  ASSUME LedgerInv, NEW o \in Ops, LockGrowth(o)
  PROVE  LedgerInv'
<1>1. PICK pc \in {"locked", "failed"} : Step(o, pc) BY Zenon DEF LockGrowth
<1> DEFINE w == [writer[o] EXCEPT !.pc = pc]
<1>2. To(o, writer, writer', w) BY <1>1, Zenon DEF Step, To, Table, LedgerInv, Tables
<1>3. OpInv(w, row[o], disk[o], index[o], plan[o], retirement[o], lease[o], At(o), Read(o))
  BY <1>1, Now, Moved, Zenon DEF LockGrowth
<1>4. UNCHANGED <<row, disk, index, plan, retirement, lease, worker, reading>> BY Zenon DEF LockGrowth, catalog
<1>5. To(o, lease, lease', lease[o]) BY <1>4, Stays, Zenon
<1> HIDE DEF w
<1> QED BY <1>2, <1>3, <1>4, <1>5, WriterAlone, Zenon

\* Grow keeps the invariant, also when the row grew and the reply is lost.
LEMMA GrowStep ==
  ASSUME LedgerInv, NEW o \in Ops, Grow(o)
  PROVE  LedgerInv'
<1> DEFINE Inv(w, r) == OpInv(w, r, disk[o], index[o], plan[o], retirement[o], lease[o], At(o), Read(o))
           asked == GrowthRequest(o)
           new == [row[o] EXCEPT !.bytes = asked]
           after == IF asked <= row[o].bytes THEN row[o] ELSE new
           heard == [writer[o] EXCEPT !.pc = "flushing", !.available = 0, !.attempt = 0, !.bytes = after.bytes]
           pc == IF writer[o].attempt = 0 THEN "locked" ELSE "refused"
           unheard == [writer[o] EXCEPT !.pc = pc, !.attempt = 1 - writer[o].attempt, !.available = 0]
<1>1. writer[o].pc = "grow" /\ UNCHANGED <<disk, index, plan, retirement, lease, worker, reading>>
  BY Zenon DEF Grow
<1>2. Table(row) /\ Table(writer) BY Zenon DEF LedgerInv, Tables
<1>3. writer[o].target \in Volumes /\ row[o].state = "reserved" /\ row[o] \in Rows
  <2>1. writer[o].pc \notin {"idle", "gone", "placed", "revised", "reserve"} BY <1>1, Zenon
  <2> QED BY <2>1, WriterKnown, Zenon
<1>4. asked \in Int BY <1>3, GrowthRequestInt, Zenon
<1>5. row[o].bytes \in Int BY <1>3 DEF Rows
<1>6. Max({GrowthRequest(o), row[o].bytes}) = IF asked <= row[o].bytes THEN row[o].bytes ELSE asked
  BY <1>4, <1>5, MaxOfTwo, Zenon
<1>7. Inv(writer[o], row[o]) BY Now, Zenon
<1> HIDE DEF asked
<1>8. after.bytes = IF asked <= row[o].bytes THEN row[o].bytes ELSE asked BY <1>3, Zenon DEF Rows
<1>9. Inv(writer[o], after)
  <2>1. CASE asked <= row[o].bytes BY <1>7, <2>1, Zenon
  <2>2. CASE ~(asked <= row[o].bytes)
    <3>1. asked > row[o].bytes BY <1>4, <1>5, <2>2, SMTT(30)
    <3>2. Inv(writer[o], new) BY <1>3, <1>4, <1>7, <3>1, GrowthEntered, ZenonT(60)
    <3> QED BY <2>2, <3>2, Zenon
  <2> QED BY <2>1, <2>2, Zenon
<1>10. GrowCommit(o) => To(o, row, row', after)
  <2>1. UNCHANGED row => To(o, row, row', row[o]) BY Stays, Zenon
  <2>2. SetRow(o, new) => To(o, row, row', new) BY <1>2, Zenon DEF SetRow, To, Table
  <2> QED BY <2>1, <2>2, Zenon DEF GrowCommit, asked
<1>11. CASE /\ GrowCommit(o)
            /\ writer' = [writer EXCEPT ![o].pc = "flushing", ![o].available = 0, ![o].attempt = 0,
                                        ![o].bytes = Max({GrowthRequest(o), row[o].bytes})]
  <2>1. To(o, writer, writer', heard) BY <1>2, <1>6, <1>8, <1>11, ZenonT(60) DEF To, Table
  <2> HIDE DEF after
  <2>2. Inv(heard, after) BY <1>1, <1>9, GrowthHeard, Zenon
  <2> HIDE DEF heard
  <2> QED BY <1>1, <1>10, <1>11, <2>1, <2>2, WriterWithRow, ZenonT(60)
<1>12. CASE GrowError(o) /\ (GrowCommit(o) \/ UNCHANGED row)
  <2> HIDE DEF Inv, after
  <2>1. To(o, writer, writer', unheard) BY <1>2, <1>12, Zenon DEF To, Table, GrowError
  <2>2. PICK r : To(o, row, row', r) /\ Inv(writer[o], r)
    BY <1>7, <1>9, <1>10, <1>12, Stays, ZenonT(60)
  <2>3. pc \in {"locked", "refused"} BY Zenon
  <2> HIDE DEF pc
  <2>4. Inv(unheard, r) BY <1>1, <2>2, <2>3, GrowthUnheard, Zenon DEF Inv
  <2> HIDE DEF unheard
  <2> QED BY <1>1, <2>1, <2>2, <2>4, WriterWithRow, Zenon DEF Inv
<1> HIDE DEF Inv, new, after, heard, unheard
<1> QED BY <1>11, <1>12, Zenon DEF Grow

\* GrowRefused keeps the invariant.
LEMMA GrowRefusedStep ==
  ASSUME LedgerInv, NEW o \in Ops, GrowRefused(o)
  PROVE  LedgerInv'
<1> DEFINE w == [writer[o] EXCEPT !.pc = "failed"]
<1>1. To(o, writer, writer', w) BY Zenon DEF GrowRefused, Step, To, Table, LedgerInv, Tables
<1>2. OpInv(w, row[o], disk[o], index[o], plan[o], retirement[o], lease[o], At(o), Read(o))
  BY Now, Moved, Zenon DEF GrowRefused
<1>3. row[o].state = "reserved"
  <2>1. writer[o].pc \notin {"idle", "gone", "placed", "revised", "reserve"} BY Zenon DEF GrowRefused
  <2> QED BY <2>1, WriterKnown, Zenon
<1>4. RetirementTo(o, retirement[o])
  <2>1. CASE UNCHANGED retirement BY <2>1, Stays, Zenon
  <2>2. CASE JournalRetirement({row[o].volume}) BY <1>3, <2>2, Journaled, Zenon DEF RetirementTo
  <2> QED BY <2>1, <2>2, Zenon DEF GrowRefused
<1>5. UNCHANGED <<row, disk, index, plan, lease, worker, reading>> BY Zenon DEF GrowRefused
<1> HIDE DEF w
<1> QED BY <1>1, <1>2, <1>4, <1>5, Stays, Confined, ZenonT(60)

\* IndexFragment keeps the invariant.
LEMMA IndexFragmentStep ==
  ASSUME LedgerInv, NEW o \in Ops, IndexFragment(o)
  PROVE  LedgerInv'
<1> DEFINE pc == IF writer[o].flush = "last" THEN "sealing" ELSE "active"
           w == [writer[o] EXCEPT !.pc = pc, !.flush = None]
           x == [index[o] EXCEPT !.fragments = index[o].fragments \cup {disk[o].len}]
<1>1. /\ writer[o].pc = "flushing" /\ writer[o].buffered = 0 /\ writer[o].flush # "end"
      /\ UNCHANGED <<row, disk, plan, retirement, worker, reading>>
  BY Zenon DEF IndexFragment
<1>2. Table(index) /\ Table(writer) BY ZenonT(60) DEF LedgerInv, Tables
<1>3. writer[o].flush \in {"next", "last"}
  BY <1>1, Now, ZenonT(60) DEF OpInv, Typed, Writers, BufferOK, Recording, None
<1>4. lease[o] = "writer" BY <1>1, WriterKnown, Zenon
<1>5. pc \in {"active", "sealing"} BY Zenon
<1>6. OpInv(w, row[o], disk[o], index[o], plan[o], retirement[o], lease[o], At(o), Read(o))
  <2> HIDE DEF pc
  <2> QED BY <1>1, <1>5, Now, FragmentDone, ZenonT(60)
<1>7. CASE /\ index' = [index EXCEPT ![o].fragments = @ \cup {disk[o].len}] /\ UNCHANGED lease
           /\ writer' = [writer EXCEPT ![o].pc = pc, ![o].flush = None]
  <2>1. To(o, writer, writer', w) /\ To(o, index, index', x)
    <3> HIDE DEF pc
    <3> QED BY <1>2, <1>7, Zenon DEF To, Table
  <2>2. OpInv(writer[o], row[o], disk[o], x, plan[o], retirement[o], lease[o], At(o), Read(o))
    BY <1>1, <1>3, Now, Indexed, ZenonT(60)
  <2> HIDE DEF x, pc
  <2>3. OpInv(w, row[o], disk[o], x, plan[o], retirement[o], lease[o], At(o), Read(o))
    BY <1>1, <1>5, <2>2, FragmentDone, ZenonT(60)
  <2> HIDE DEF w
  <2> QED BY <1>1, <1>7, <2>1, <2>3, Stays, WriterMakes, ZenonT(60)
<1>8. CASE index' = index /\ Drop(o) BY <1>1, <1>4, <1>8, GivesUpAsIs, Zenon
<1>9. CASE /\ index' = index /\ UNCHANGED lease
           /\ writer' = [writer EXCEPT ![o].pc = pc, ![o].flush = None]
  <2> HIDE DEF pc
  <2>1. To(o, writer, writer', w) BY <1>2, <1>9, Zenon DEF To, Table
  <2> HIDE DEF w
  <2> QED BY <1>1, <1>6, <1>9, <2>1, Stays, WriterMakes, ZenonT(60)
<1> HIDE DEF w, x
<1> QED BY <1>7, <1>8, <1>9, Zenon DEF IndexFragment

\* Evidence keeps the invariant.
LEMMA EvidenceStep ==
  ASSUME LedgerInv, NEW o \in Ops, Evidence(o)
  PROVE  LedgerInv'
<1> DEFINE d == [disk[o] EXCEPT !.synced = disk[o].len]
           w == [writer[o] EXCEPT !.pc = "finalize", !.flush = None]
<1>1. UNCHANGED <<row, index, plan, retirement, lease, worker, reading>> BY Zenon DEF Evidence, catalog
<1>2. To(o, writer, writer', w) /\ To(o, disk, disk', d) BY Zenon DEF Evidence, To, Table, LedgerInv, Tables
<1>3. OpInv(writer[o], row[o], d, index[o], plan[o], retirement[o], lease[o], At(o), Read(o))
  BY Now, Synchronized, Zenon
<1>4. disk[o] \in Files /\ writer[o].pc \in {"sealing", "flushing"} BY WriterKnown, Zenon DEF Evidence
<1>5. d.synced = d.len BY <1>4, Zenon DEF Files
<1>6. writer[o].buffered = 0 BY Now, Zenon DEF Evidence, OpInv, BufferOK, Recording
<1> HIDE DEF d
<1>7. OpInv(w, row[o], d, index[o], plan[o], retirement[o], lease[o], At(o), Read(o))
  BY <1>3, <1>4, <1>5, <1>6, Evidenced, ZenonT(60)
<1> HIDE DEF w
<1> QED BY <1>1, <1>2, <1>7, Stays, WriterMakes, ZenonT(60)

\* Finalize keeps the invariant.
LEMMA FinalizeStep ==
  ASSUME LedgerInv, NEW o \in Ops, Finalize(o)
  PROVE  LedgerInv'
<1> DEFINE r == [row[o] EXCEPT !.state = "published", !.bytes = disk[o].len]
           x == [index[o] EXCEPT !.recording = "final"]
<1>1. writer[o].pc = "finalize" /\ Drop(o) /\ UNCHANGED <<plan, retirement, disk, worker, reading>>
  BY Zenon DEF Finalize
<1>2. lease[o] = "writer" BY <1>1, WriterKnown, Zenon
<1>3. CASE SetRow(o, r) /\ index' = [index EXCEPT ![o].recording = "final"]
  <2>1. To(o, row, row', r) /\ To(o, index, index', x)
    BY <1>3, Zenon DEF SetRow, To, Table, LedgerInv, Tables
  <2>2. OpInv(Gone, r, disk[o], x, plan[o], retirement[o], None, At(o), Read(o))
    BY <1>1, Now, Finalized, Zenon
  <2> HIDE DEF r, x
  <2> QED BY <1>1, <2>1, <2>2, DropTo, Stays, Confined, ZenonT(60)
<1>4. CASE UNCHANGED <<row, index>> BY <1>1, <1>2, <1>4, GivesUpAsIs, Zenon
<1> QED BY <1>3, <1>4, Zenon DEF Finalize, Publish

\* A step that only journals retirements keeps the invariant.
LEMMA JournalStep ==
  ASSUME LedgerInv, Table(retirement'),
         \A q \in Ops : \/ retirement'[q] = retirement[q]
                        \/ retirement[q] = None /\ row[q].state = "published" /\ retirement'[q] = "journaled",
         UNCHANGED <<row, index, plan, disk, lease, writer, worker, reading>>
  PROVE  LedgerInv'
<1>1. Tables' BY Zenon DEF Tables, LedgerInv, Table
<1>2. ASSUME NEW q \in Ops PROVE Holds(q)'
  <2>1. OpInv(writer[q], row[q], disk[q], index[q], plan[q], retirement'[q], lease[q], At(q), Read(q))
    BY Now, RetirementJournaled, Zenon
  <2>2. At(q)' = At(q) /\ Read(q)' = Read(q) BY Zenon DEF At, Read
  <2> QED BY <2>1, <2>2, Zenon DEF Holds
<1> QED BY <1>1, <1>2, Zenon DEF LedgerInv

\* PlaceRefused and CheckPressure keep the invariant.
LEMMA PressureStep ==
  ASSUME LedgerInv, NEW vs, JournalRetirement(vs),
         UNCHANGED <<row, index, plan, disk, lease, writer, worker, reading>>
  PROVE  LedgerInv'
BY Journaled, JournalStep, Zenon

\* QueueExpiry keeps the invariant.
LEMMA QueueExpiryStep ==
  ASSUME LedgerInv, NEW o \in Ops, QueueExpiry(o)
  PROVE  LedgerInv'
<1>1. row[o].state = "published" /\ retirement[o] = None BY Zenon DEF QueueExpiry, Retirable
<1>2. Table(retirement') /\ \A q \in Ops : retirement'[q] = IF q = o THEN "journaled" ELSE retirement[q]
  BY Zenon DEF QueueExpiry, Table, LedgerInv, Tables
<1>3. UNCHANGED <<row, index, plan, disk, lease, writer, worker, reading>> BY Zenon DEF QueueExpiry
<1> QED BY <1>1, <1>2, <1>3, JournalStep, ZenonT(60)

-----------------------------------------------------------------------------
(* The volume worker. *)

\* The worker goes on with another step.
LEMMA ContinueTo ==
  ASSUME LedgerInv, NEW o \in Ops, worker.op = o, NEW pc \in WorkerPcs \ {"idle"}, Continue(pc)
  PROVE  WorkerTo(o, pc)
<1>1. worker' \in [pc : WorkerPcs \ {"idle"}, op : Ops] /\ worker'.pc = pc /\ worker'.op = o
  BY WorkerKnown, Zenon DEF Continue
<1> QED BY <1>1, Zenon DEF WorkerTo, At

\* The worker ends with the operation.
LEMMA DoneTo ==
  ASSUME LedgerInv, NEW o \in Ops, worker.op = o, Done(o)
  PROVE  WorkerTo(o, "idle") /\ To(o, lease, lease', None)
<1>1. None \notin Ops BY LedgerAssumption, Zenon DEF None
<1>2. worker'.op = None /\ worker' = Resting BY Zenon DEF Done, Resting
<1>3. WorkerTo(o, "idle") BY <1>1, <1>2, Zenon DEF WorkerTo, At
<1>4. To(o, lease, lease', None) BY Zenon DEF Done, To, Table, LedgerInv, Tables
<1> QED BY <1>3, <1>4, Zenon

\* The worker ends with an operation whose row, index entry, plan, retirement and file may have changed.
LEMMA WorkerEnds ==
  ASSUME LedgerInv, NEW o \in Ops, worker.op = o, Done(o), NEW r, NEW d, NEW x, NEW p, NEW t,
         To(o, row, row', r), To(o, disk, disk', d), To(o, index, index', x), To(o, plan, plan', p),
         RetirementTo(o, t), UNCHANGED <<writer, reading>>,
         OpInv(writer[o], r, d, x, p, t, lease[o], At(o), Read(o))
  PROVE  LedgerInv'
<1>1. lease[o] = "worker" BY WorkerKnown, Zenon
<1>2. OpInv(writer[o], r, d, x, p, t, None, "idle", Read(o)) BY <1>1, GivenBack, Zenon
<1> QED BY <1>2, DoneTo, Stays, Confined, ZenonT(60)

\* The worker gives an operation back as it is.
LEMMA WorkerLeaves ==
  ASSUME LedgerInv, NEW o \in Ops, worker.op = o, Done(o),
         UNCHANGED <<row, index, plan, retirement, disk, writer, reading>>
  PROVE  LedgerInv'
BY Now, Stays, WorkerEnds, Zenon

\* Claim keeps the invariant.
LEMMA ClaimStep ==
  ASSUME LedgerInv, NEW o \in Ops, Claim(o)
  PROVE  LedgerInv'
<1>1. /\ worker = Resting /\ lease[o] = None /\ (row[o].state = "reserved" \/ Abandoning(o) \/ Retiring(o))
      /\ UNCHANGED <<row, index, plan, retirement, disk, writer, reading>>
  BY Zenon DEF Claim, catalog
<1>2. None \notin Ops BY LedgerAssumption, Zenon DEF None
<1>3. \A q \in Ops : At(q) = "idle" BY <1>1, <1>2, Zenon DEF At, Resting
<1>4. worker' \in [pc : WorkerPcs \ {"idle"}, op : Ops] /\ worker'.op = o /\ worker'.pc = "work"
  BY Zenon DEF Claim, WorkerPcs
<1>5. WorkerTo(o, "work") BY <1>2, <1>3, <1>4, Zenon DEF WorkerTo, At
<1>6. To(o, lease, lease', "worker") BY Zenon DEF Claim, To, Table, LedgerInv, Tables
<1>7. row[o].state # None
  <2>1. CASE row[o].state = "reserved" BY <2>1, Zenon DEF None
  <2>2. CASE Abandoning(o) BY <2>2, Now, Zenon DEF Abandoning, OpInv, PlanOK, None
  <2>3. CASE Retiring(o) BY <2>3, Now, Zenon DEF Retiring, OpInv, PublishedOK, None
  <2> QED BY <1>1, <2>1, <2>2, <2>3, ZenonT(60)
<1>8. OpInv(writer[o], row[o], disk[o], index[o], plan[o], retirement[o], "worker", "work", Read(o))
  BY <1>1, <1>3, <1>7, Now, Taken, ZenonT(60)
<1> QED BY <1>1, <1>5, <1>6, <1>8, Stays, Confined, ZenonT(60)

\* WorkerError keeps the invariant.
LEMMA WorkerErrorStep ==
  ASSUME LedgerInv, NEW o \in Ops, WorkerError(o)
  PROVE  LedgerInv'
BY WorkerLeaves, Zenon DEF WorkerError, catalog

\* ConfirmAbsent keeps the invariant.
LEMMA ConfirmAbsentStep ==
  ASSUME LedgerInv, NEW o \in Ops, ConfirmAbsent(o)
  PROVE  LedgerInv'
<1>1. worker.op = o /\ At(o) = "work" BY WorkingOn, Zenon DEF ConfirmAbsent
<1>2. UNCHANGED <<row, index, plan, retirement, disk, writer, reading>> BY Zenon DEF ConfirmAbsent, catalog
<1>3. CASE Done(o) BY <1>1, <1>2, <1>3, WorkerLeaves, ZenonT(60)
<1>4. CASE ~disk[o].exists /\ Continue("absent") /\ UNCHANGED lease
  <2>1. WorkerTo(o, "absent") BY <1>1, <1>4, ContinueTo, Zenon DEF WorkerPcs
  <2>2. OpInv(writer[o], row[o], disk[o], index[o], plan[o], retirement[o], lease[o], "absent", Read(o))
    BY <1>1, <1>4, Now, FoundAbsent, Zenon
  <2> QED BY <1>2, <1>4, <2>1, <2>2, Stays, Confined, ZenonT(60)
<1> QED BY <1>3, <1>4, Zenon DEF ConfirmAbsent

\* ReleaseUnopened keeps the invariant.
LEMMA ReleaseUnopenedStep ==
  ASSUME LedgerInv, NEW o \in Ops, ReleaseUnopened(o)
  PROVE  LedgerInv'
<1> DEFINE r == [row[o] EXCEPT !.state = "cancelled"]
<1>1. worker.op = o /\ At(o) = "absent" BY WorkingOn, Zenon DEF ReleaseUnopened
<1>2. Done(o) /\ UNCHANGED <<index, plan, retirement, disk, writer, reading>> BY Zenon DEF ReleaseUnopened
<1>3. CASE ~row[o].identity /\ SetRow(o, r)
  <2>1. To(o, row, row', r) BY <1>3, Zenon DEF SetRow, To, Table, LedgerInv, Tables
  <2>2. OpInv(writer[o], r, disk[o], index[o], plan[o], retirement[o], lease[o], At(o), Read(o))
    BY <1>1, <1>3, Now, Released, ZenonT(60)
  <2> HIDE DEF r
  <2> QED BY <1>1, <1>2, <2>1, <2>2, Stays, WorkerEnds, Zenon
<1>4. CASE UNCHANGED row BY <1>1, <1>2, <1>4, WorkerLeaves, ZenonT(60)
<1> QED BY <1>3, <1>4, Zenon DEF ReleaseUnopened

\* BeginRecovery keeps the invariant: a seal retains every indexed fragment that is stored.
LEMMA BeginRecoveryStep ==
  ASSUME LedgerInv, NEW o \in Ops, BeginRecovery(o)
  PROVE  LedgerInv'
<1> DEFINE stored == {f \in index[o].fragments : f <= disk[o].len}
           n == Max(stored)
           sealed == [plan[o] EXCEPT !.mode = "seal", !.original = disk[o].len, !.retained = n]
           dropped == [plan[o] EXCEPT !.mode = "abandon", !.original = disk[o].len, !.retained = disk[o].len]
           d == [disk[o] EXCEPT !.synced = disk[o].len]
<1>1. worker.op = o /\ At(o) = "work" BY WorkingOn, Zenon DEF BeginRecovery
<1>2. UNCHANGED <<row, index, retirement, writer, reading>> BY Zenon DEF BeginRecovery
<1>3. Table(plan) /\ Table(disk) BY Zenon DEF LedgerInv, Tables
<1>4. CASE Done(o) /\ UNCHANGED <<plan, disk>> BY <1>1, <1>2, <1>4, WorkerLeaves, Zenon
<1>5. CASE /\ row[o].state = "reserved" /\ row[o].identity /\ plan[o] = NoPlan /\ disk[o].exists
           /\ Sealable(o) /\ plan' = [plan EXCEPT ![o].mode = "seal", ![o].original = disk[o].len,
                                                  ![o].retained = Max(stored)]
           /\ UNCHANGED <<disk, worker, lease>>
  <2>1. To(o, plan, plan', sealed)
    <3> HIDE DEF stored
    <3> QED BY <1>3, <1>5, Zenon DEF To, Table
  <2>2. stored # {} BY <1>5, Zenon DEF Sealable
  <2>3. stored \in SUBSET (0 .. MaxLen) /\ MaxLen \in Nat BY WriterKnown, LedgerAssumption DEF Entries
  <2>4. Max(stored) \in stored /\ \A f \in stored : f <= Max(stored)
    <3> HIDE DEF stored
    <3> QED BY <2>2, <2>3, MaxIs, Zenon
  <2>5. LastStored(n, disk[o], index[o])
    <3> HIDE DEF n
    <3> QED BY <2>4, Zenon DEF n, LastStored
  <2> HIDE DEF n, stored
  <2>6. OpInv(writer[o], row[o], disk[o], index[o], sealed, retirement[o], lease[o], At(o), Read(o))
    <3>1. sealed = [plan[o] EXCEPT !.mode = "seal", !.original = disk[o].len, !.retained = n] BY Zenon
    <3> HIDE DEF sealed
    <3>2. row[o].state = "reserved" /\ row[o].identity /\ plan[o] = NoPlan /\ disk[o].exists BY <1>5, Zenon
    <3> QED BY <1>1, <2>5, <3>1, <3>2, Now, SealPlanned, ZenonT(120)
  <2> HIDE DEF sealed
  <2> QED BY <1>2, <1>5, <2>1, <2>6, Stays, Confined, ZenonT(60)
<1>6. CASE /\ row[o].state = "reserved" /\ row[o].identity /\ plan[o] = NoPlan /\ disk[o].exists
           /\ Abandonable(o) /\ plan' = [plan EXCEPT ![o].mode = "abandon", ![o].original = disk[o].len,
                                                     ![o].retained = disk[o].len]
           /\ disk' = [disk EXCEPT ![o].synced = disk[o].len]
           /\ UNCHANGED <<worker, lease>>
  <2>1. To(o, plan, plan', dropped) /\ To(o, disk, disk', d) BY <1>3, <1>6, Zenon DEF To, Table
  <2>2. OpInv(writer[o], row[o], d, index[o], plan[o], retirement[o], lease[o], At(o), Read(o))
    BY Now, Synchronized, Zenon
  <2>3. disk[o] \in Files BY WriterKnown, Zenon
  <2>4. d.exists /\ d.len = disk[o].len BY <1>6, <2>3, Zenon DEF Files
  <2>5. index[o].fragments = {} BY <1>6, Zenon DEF Abandonable
  <2> HIDE DEF d
  <2>6. OpInv(writer[o], row[o], d, index[o], dropped, retirement[o], lease[o], At(o), Read(o))
    BY <1>1, <1>6, <2>2, <2>4, <2>5, AbandonPlanned, ZenonT(60)
  <2> HIDE DEF dropped
  <2> QED BY <1>2, <1>6, <2>1, <2>6, Stays, Confined, Zenon
<1> HIDE DEF sealed, dropped, d
<1> QED
  <2>1. CASE Sealable(o) BY <1>4, <1>5, <2>1, Zenon DEF BeginRecovery
  <2>2. CASE ~Sealable(o) BY <1>4, <1>6, <2>2, Zenon DEF BeginRecovery
  <2> QED BY <2>1, <2>2, Zenon

\* RetainPrefix keeps the invariant, also when it repeats one that was interrupted.
LEMMA RetainPrefixStep ==
  ASSUME LedgerInv, NEW o \in Ops, RetainPrefix(o)
  PROVE  LedgerInv'
<1> DEFINE d == [disk[o] EXCEPT !.len = plan[o].retained, !.synced = plan[o].retained]
<1>1. worker.op = o /\ At(o) = "work" BY WorkingOn, Zenon DEF RetainPrefix
<1>2. UNCHANGED <<row, index, plan, retirement, writer, reading>> BY Zenon DEF RetainPrefix, catalog
<1>3. CASE Done(o) /\ UNCHANGED disk BY <1>1, <1>2, <1>3, WorkerLeaves, ZenonT(60)
<1>4. CASE /\ disk[o].len \in {plan[o].original, plan[o].retained}
           /\ disk' = [disk EXCEPT ![o].len = plan[o].retained, ![o].synced = plan[o].retained]
           /\ Continue("retained") /\ UNCHANGED lease
  <2>1. WorkerTo(o, "retained") BY <1>1, <1>4, ContinueTo, ZenonT(60) DEF WorkerPcs
  <2>2. To(o, disk, disk', d) BY <1>4, Zenon DEF To, Table, LedgerInv, Tables
  <2>3. OpInv(writer[o], row[o], d, index[o], plan[o], retirement[o], lease[o], "retained", Read(o))
    BY <1>1, <1>4, Now, PrefixRetained, ZenonT(60) DEF RetainPrefix
  <2> HIDE DEF d
  <2> QED BY <1>2, <1>4, <2>1, <2>2, <2>3, Stays, Confined, ZenonT(60)
<1> QED BY <1>3, <1>4, Zenon DEF RetainPrefix

\* CompleteSeal keeps the invariant.
LEMMA CompleteSealStep ==
  ASSUME LedgerInv, NEW o \in Ops, CompleteSeal(o)
  PROVE  LedgerInv'
<1> DEFINE r == [[row[o] EXCEPT !.materialized = plan[o].retained]
                   EXCEPT !.state = "published", !.bytes = plan[o].retained]
           p == [plan[o] EXCEPT !.complete = TRUE, !.acknowledged = TRUE]
           x == [index[o] EXCEPT !.recording = "final",
                   !.fragments = {f \in index[o].fragments : f <= plan[o].retained}]
<1>1. worker.op = o /\ At(o) = "retained" BY WorkingOn, Zenon DEF CompleteSeal
<1>2. Done(o) /\ UNCHANGED <<retirement, disk, writer, reading>> BY Zenon DEF CompleteSeal
<1>3. To(o, row, row', r) BY Zenon DEF CompleteSeal, Publish, SetRow, To, Table, LedgerInv, Tables
<1>4. To(o, plan, plan', p) /\ To(o, index, index', x) BY Zenon DEF CompleteSeal, To, Table, LedgerInv, Tables
<1>5. OpInv(writer[o], r, disk[o], x, p, retirement[o], None, "idle", Read(o))
  <2>1. SealTo(row[o], plan[o], index[o], r, p, x) BY Zenon DEF SealTo
  <2> HIDE DEF r, p, x
  <2>2. OpInv(writer[o], row[o], disk[o], index[o], plan[o], retirement[o], lease[o], "retained", Read(o)) BY <1>1, Now, Zenon
  <2> QED BY <2>1, <2>2, Sealed, Zenon
<1> HIDE DEF r, p, x
<1> QED BY <1>1, <1>2, <1>3, <1>4, <1>5, DoneTo, Stays, Confined, Zenon

\* RemoveFile keeps the invariant: the file goes only when nobody reads a recording under retirement.
LEMMA RemoveFileStep ==
  ASSUME LedgerInv, NEW o \in Ops, RemoveFile(o)
  PROVE  LedgerInv'
<1> DEFINE d == [disk[o] EXCEPT !.exists = FALSE, !.len = 0, !.synced = 0]
<1>1. worker.op = o /\ At(o) = "work" BY WorkingOn, Zenon DEF RemoveFile, RemovalDue
<1>2. UNCHANGED <<row, index, plan, retirement, writer, reading>> BY ZenonT(60) DEF RemoveFile, catalog
<1>3. CASE Done(o) /\ UNCHANGED disk BY <1>1, <1>2, <1>3, WorkerLeaves, Zenon
<1>4. CASE /\ Retiring(o) => o \notin reading
           /\ disk' = [disk EXCEPT ![o].exists = FALSE, ![o].len = 0, ![o].synced = 0]
           /\ Continue("removed") /\ UNCHANGED lease
  <2>1. WorkerTo(o, "removed") BY <1>1, <1>4, ContinueTo, ZenonT(60) DEF WorkerPcs
  <2>2. To(o, disk, disk', d) BY <1>4, Zenon DEF To, Table, LedgerInv, Tables
  <2>3. Removable(plan[o], retirement[o], Read(o))
    BY <1>4, Zenon DEF RemoveFile, RemovalDue, Abandoning, Retiring, Read, Removable
  <2>4. OpInv(writer[o], row[o], d, index[o], plan[o], retirement[o], lease[o], "removed", Read(o))
    <3>1. OpInv(writer[o], row[o], disk[o], index[o], plan[o], retirement[o], lease[o], "work", Read(o)) BY <1>1, Now, Zenon
    <3>2. FileGone(disk[o], d) BY Zenon DEF FileGone
    <3> HIDE DEF d
    <3> QED BY <2>3, <3>1, <3>2, FileRemoved, Zenon
  <2> HIDE DEF d
  <2> QED BY <1>2, <1>4, <2>1, <2>2, <2>4, Stays, Confined, ZenonT(60)
<1> QED BY <1>3, <1>4, Zenon DEF RemoveFile, CanRemove

\* Tear keeps the invariant: only a receipt changes.
LEMMA TearStep ==
  ASSUME LedgerInv, NEW o \in Ops, Tear(o)
  PROVE  LedgerInv'
<1>1. PICK left \in {"written", "torn"} : disk' = [disk EXCEPT ![o].receipt = left] BY Zenon DEF Tear
<1> DEFINE d == [disk[o] EXCEPT !.receipt = left]
<1>2. worker.op = o /\ Done(o) /\ UNCHANGED <<row, index, plan, retirement, writer, reading>>
  BY WorkingOn, Zenon DEF Tear, WritesReceipt, RemovalDue, catalog
<1>3. To(o, disk, disk', d) BY <1>1, Zenon DEF To, Table, LedgerInv, Tables
<1>4. OpInv(writer[o], row[o], d, index[o], plan[o], retirement[o], lease[o], At(o), Read(o))
  <2>1. NewReceipt(disk[o], d) BY Zenon DEF NewReceipt
  <2> HIDE DEF d
  <2> QED BY <2>1, Now, ReceiptChanged, Zenon
<1> HIDE DEF d
<1> QED BY <1>2, <1>3, <1>4, Stays, WorkerEnds, ZenonT(60)

\* CompleteRemoval keeps the invariant.
LEMMA CompleteRemovalStep ==
  ASSUME LedgerInv, NEW o \in Ops, CompleteRemoval(o)
  PROVE  LedgerInv'
<1> DEFINE r == [row[o] EXCEPT !.state = "cancelled"]
           x == [recording |-> None, fragments |-> {}]
           p == [plan[o] EXCEPT !.complete = TRUE]
<1>1. worker.op = o /\ At(o) = "removed" BY WorkingOn, Zenon DEF CompleteRemoval
<1>2. UNCHANGED <<disk, lease, writer, reading>> BY Zenon DEF CompleteRemoval
<1>3. To(o, row, row', r) BY Zenon DEF CompleteRemoval, SetRow, To, Table, LedgerInv, Tables
<1>4. To(o, index, index', x) BY Zenon DEF CompleteRemoval, To, Table, LedgerInv, Tables
<1>5. WorkerTo(o, "work") BY <1>1, ContinueTo, Zenon DEF WorkerPcs, CompleteRemoval
<1>6. Table(plan) /\ Table(retirement) BY Zenon DEF LedgerInv, Tables
<1>7. CASE Retiring(o) /\ retirement' = [retirement EXCEPT ![o] = "complete"] /\ plan' = plan
  <2>1. RetirementTo(o, "complete") BY <1>6, <1>7, ZenonT(60) DEF RetirementTo, Table
  <2>2. retirement[o] = "journaled" BY <1>1, <1>7, Now, ZenonT(60) DEF Retiring, OpInv, PlanOK, None
  <2>3. OpInv(writer[o], r, disk[o], x, plan[o], "complete", lease[o], "work", Read(o))
    <3>1. r = [row[o] EXCEPT !.state = "cancelled"] /\ x = [recording |-> None, fragments |-> {}] BY Zenon
    <3>2. OpInv(writer[o], row[o], disk[o], index[o], plan[o], retirement[o], lease[o], At(o), Read(o)) BY Now, Zenon
    <3> HIDE DEF r, x
    <3> QED BY <1>1, <2>2, <3>1, <3>2, RetirementDone, SMTT(30)
  <2> HIDE DEF r, x
  <2> QED BY <1>2, <1>3, <1>4, <1>5, <1>7, <2>1, <2>3, Stays, Confined, ZenonT(60)
<1>8. CASE ~Retiring(o) /\ plan' = [plan EXCEPT ![o].complete = TRUE] /\ retirement' = retirement
  <2>1. To(o, plan, plan', p) BY <1>6, <1>8, Zenon DEF To, Table
  <2>2. retirement[o] \notin {"journaled", "complete"} BY <1>8, Zenon DEF Retiring
  <2>3. OpInv(writer[o], r, disk[o], x, p, retirement[o], lease[o], "work", Read(o))
    <3>1. /\ r = [row[o] EXCEPT !.state = "cancelled"] /\ x = [recording |-> None, fragments |-> {}]
          /\ p = [plan[o] EXCEPT !.complete = TRUE]
      BY Zenon
    <3> HIDE DEF r, x, p
    <3>2. OpInv(writer[o], row[o], disk[o], index[o], plan[o], retirement[o], lease[o], "removed", Read(o)) BY <1>1, Now, Zenon
    <3> QED BY <2>2, <3>1, <3>2, AbandonDone, ZenonT(60)
  <2> HIDE DEF r, x, p
  <2> QED BY <1>2, <1>3, <1>4, <1>5, <1>8, <2>1, <2>3, Stays, Confined, Zenon
<1> QED BY <1>7, <1>8, Zenon DEF CompleteRemoval

\* Acknowledge keeps the invariant.
LEMMA AcknowledgeStep ==
  ASSUME LedgerInv, NEW o \in Ops, Acknowledge(o)
  PROVE  LedgerInv'
<1> DEFINE a == CanAcknowledge(o)
           p == [plan[o] EXCEPT !.acknowledged = a]
           c == IF a THEN "synced" ELSE disk[o].receipt
           d == [disk[o] EXCEPT !.receipt = c]
           t == IF a THEN "acknowledged" ELSE retirement[o]
<1>1. worker.op = o /\ At(o) = "work" BY WorkingOn, Zenon DEF Acknowledge
<1>2. Done(o) /\ UNCHANGED <<row, index, writer, reading>> BY Zenon DEF Acknowledge
<1>3. Table(plan) /\ Table(retirement) /\ Table(disk) BY Zenon DEF LedgerInv, Tables
<1>4. disk' = [disk EXCEPT ![o].receipt = c] BY Zenon DEF Acknowledge
<1>5. To(o, disk, disk', d) BY <1>3, <1>4, Zenon DEF To, Table
<1>6. OpInv(writer[o], row[o], d, index[o], plan[o], retirement[o], lease[o], At(o), Read(o))
  <2>1. c \in {"synced", "written", "torn"} BY WriterKnown, Zenon DEF Files
  <2> HIDE DEF c
  <2>2. NewReceipt(disk[o], d) BY <2>1, Zenon DEF NewReceipt
  <2> HIDE DEF d
  <2> QED BY <2>2, Now, ReceiptChanged, Zenon
<1> HIDE DEF d
<1>7. CASE retirement[o] = "complete" /\ plan' = plan /\ retirement' = [retirement EXCEPT ![o] = t]
  <2>1. RetirementTo(o, t) BY <1>3, <1>7, Zenon DEF RetirementTo, Table
  <2>2. OpInv(writer[o], row[o], d, index[o], plan[o], t, lease[o], At(o), Read(o))
    BY <1>6, <1>7, RetirementSeen, Zenon
  <2> HIDE DEF t
  <2> QED BY <1>1, <1>2, <1>5, <1>7, <2>1, <2>2, Stays, WorkerEnds, ZenonT(60)
<1>8. CASE plan[o].mode = "abandon" /\ retirement' = retirement /\ plan' = [plan EXCEPT ![o].acknowledged = a]
  <2>1. To(o, plan, plan', p) BY <1>3, <1>8, Zenon DEF To, Table
  <2>2. OpInv(writer[o], row[o], d, index[o], p, retirement[o], lease[o], At(o), Read(o))
    <3>1. a \in BOOLEAN BY Zenon DEF CanAcknowledge
    <3> HIDE DEF a
    <3> QED BY <1>6, <1>8, <3>1, AbandonSeen, Zenon
  <2> HIDE DEF p
  <2> QED BY <1>1, <1>2, <1>5, <1>8, <2>1, <2>2, Stays, WorkerEnds, ZenonT(60)
<1> QED BY <1>7, <1>8, ZenonT(60) DEF Acknowledge, Abandoning

-----------------------------------------------------------------------------
(* Readers, volumes, restarts. *)

\* OpenReader keeps the invariant.
LEMMA OpenReaderStep ==
  ASSUME LedgerInv, NEW o \in Ops, OpenReader(o)
  PROVE  LedgerInv'
<1>1. UNCHANGED <<row, index, plan, retirement, disk, lease, writer, worker>> BY Zenon DEF OpenReader, catalog
<1>2. ReadTo(o, "open") BY Zenon DEF OpenReader, ReadTo, Read, LedgerInv, Tables
<1>3. OpInv(writer[o], row[o], disk[o], index[o], plan[o], retirement[o], lease[o], At(o), "open")
  BY Now, ReaderOpened, Zenon DEF OpenReader
<1> QED BY <1>1, <1>2, <1>3, Stays, Confined, ZenonT(60)

\* CloseReader keeps the invariant.
LEMMA CloseReaderStep ==
  ASSUME LedgerInv, NEW o \in Ops, CloseReader(o)
  PROVE  LedgerInv'
<1>1. UNCHANGED <<row, index, plan, retirement, disk, lease, writer, worker>> BY Zenon DEF CloseReader, catalog
<1>2. ReadTo(o, None) BY Zenon DEF CloseReader, ReadTo, Read, LedgerInv, Tables
<1>3. OpInv(writer[o], row[o], disk[o], index[o], plan[o], retirement[o], lease[o], At(o), None)
  BY Now, ReaderClosed, Zenon
<1> QED BY <1>1, <1>2, <1>3, Stays, Confined, Zenon

\* A step that changes no operation keeps the invariant.
LEMMA IdleStep ==
  ASSUME LedgerInv, UNCHANGED <<row, index, plan, retirement, disk, lease, writer, worker, reading>>
  PROVE  LedgerInv'
<1>1. Tables' BY Zenon DEF LedgerInv, Tables, Table
<1>2. \A q \in Ops : Holds(q)' BY Zenon DEF LedgerInv, Holds, At, Read
<1> QED BY <1>1, <1>2, Zenon DEF LedgerInv

\* Crash keeps the invariant.
LEMMA CrashStep ==
  ASSUME LedgerInv, Crash
  PROVE  LedgerInv'
<1>1. PICK len \in [Ops -> 0 .. MaxLen],
           torn \in SUBSET {o \in Ops : disk[o].receipt = "written" \/ WritesReceipt(o)} :
         /\ \A o \in Ops : disk[o].synced <= len[o] /\ len[o] <= disk[o].len
         /\ disk' = [o \in Ops |-> [disk[o] EXCEPT !.len = len[o],
                                                   !.receipt = IF o \in torn THEN "torn" ELSE disk[o].receipt]]
  BY Zenon DEF Crash
<1>2. /\ writer' = [o \in Ops |-> IF writer[o] = Idle THEN Idle ELSE Gone]
      /\ lease' = [o \in Ops |-> None] /\ worker' = Resting /\ reading' = {}
      /\ UNCHANGED <<row, index, plan, retirement>>
  BY Zenon DEF Crash
<1>3. Tables'
  <2>1. Table(writer') /\ Table(disk') /\ Table(lease') BY <1>1, <1>2, Zenon DEF Table
  <2> QED BY <1>2, <2>1, ZenonT(60) DEF LedgerInv, Tables, Table
<1>4. ASSUME NEW q \in Ops PROVE Holds(q)'
  <2>1. q # None BY LedgerAssumption, Zenon DEF None
  <2>2. At(q)' = "idle" /\ Read(q)' = None BY <1>2, <2>1, Zenon DEF At, Read, Resting
  <2>3. len[q] \in disk[q].synced .. disk[q].len
    <3>1. disk[q].synced \in Int /\ disk[q].len \in Int /\ len[q] \in Int BY WriterKnown, LedgerAssumption, SMTT(30) DEF Files
    <3>2. disk[q].synced <= len[q] /\ len[q] <= disk[q].len BY <1>1, Zenon
    <3> QED BY <3>1, <3>2, SMTT(30)
  <2> DEFINE c == IF q \in torn THEN "torn" ELSE disk[q].receipt
  <2>4. /\ writer'[q] = (IF writer[q] = Idle THEN Idle ELSE Gone) /\ lease'[q] = None
        /\ disk'[q] = [disk[q] EXCEPT !.len = len[q], !.receipt = c]
    BY <1>1, <1>2, Zenon
  <2>5. OpInv(writer'[q], row[q], disk'[q], index[q], plan[q], retirement[q], None, "idle", None)
    <3>1. c \in {"synced", "written", "torn"} BY WriterKnown, Zenon DEF Files
    <3>2. OpInv(writer[q], row[q], disk[q], index[q], plan[q], retirement[q], lease[q], At(q), Read(q)) BY Now, Zenon
    <3> HIDE DEF c
    <3>3. /\ disk'[q] \in Files /\ disk'[q].exists = disk[q].exists /\ disk'[q].synced = disk[q].synced
          /\ disk'[q].len \in disk[q].synced .. disk[q].len
      <4>1. disk[q] \in Files /\ len[q] \in 0 .. MaxLen BY WriterKnown, <1>1, Zenon
      <4> QED BY <2>3, <2>4, <3>1, <4>1, ZenonT(60) DEF Files
    <3>4. writer'[q] = (IF writer[q] = Idle THEN Idle ELSE Gone) BY <2>4, Zenon
    <3> QED BY <3>2, <3>3, <3>4, Restarted, SMTT(30)
  <2> QED BY <1>2, <2>2, <2>4, <2>5, ZenonT(60) DEF Holds
<1> QED BY <1>3, <1>4, Zenon DEF LedgerInv

-----------------------------------------------------------------------------
(* All steps together. *)

\* Every step of a writer keeps the invariant.
LEMMA WriterNext ==
  ASSUME LedgerInv, NEW o \in Ops, WriterStep(o)
  PROVE  LedgerInv'
<1>1. ASSUME PlaceRefused(o) PROVE LedgerInv' BY <1>1, PressureStep, Zenon DEF PlaceRefused
<1> QED BY <1>1, PlaceStep, ReadRevisionStep, ProbeStep, ReserveStep, NeverOpenedStep, OpenStep, MaterializeStep,
           InitializeStep, FlushStep, WriteStep, WriteFullStep, LockGrowthStep, GrowStep, GrowRefusedStep,
           IndexFragmentStep, DropFailedStep, EvidenceStep, FinalizeStep, Zenon DEF WriterStep

\* Every step of the worker keeps the invariant.
LEMMA WorkerNext ==
  ASSUME LedgerInv, NEW o \in Ops, WorkerStep(o)
  PROVE  LedgerInv'
BY ConfirmAbsentStep, ReleaseUnopenedStep, BeginRecoveryStep, RetainPrefixStep, CompleteSealStep, RemoveFileStep,
   CompleteRemovalStep, AcknowledgeStep, ZenonT(60) DEF WorkerStep

\* Every step keeps the invariant.
LEMMA LedgerNext == LedgerInv /\ [Next]_vars => LedgerInv'
<1> SUFFICES ASSUME LedgerInv, [Next]_vars PROVE LedgerInv' BY Zenon
<1>1. ASSUME UNCHANGED vars PROVE LedgerInv' BY <1>1, IdleStep, Zenon DEF vars, catalog
<1>2. ASSUME NEW v \in Volumes, CheckPressure(v) PROVE LedgerInv'
  BY <1>2, PressureStep, Zenon DEF CheckPressure
<1>3. ASSUME NEW v \in Operated, SetDraining(v) \/ CheckRemoval(v) \/ SaveRemoval(v) PROVE LedgerInv'
  BY <1>3, IdleStep, Zenon DEF SetDraining, CheckRemoval, SaveRemoval
<1> QED BY <1>1, <1>2, <1>3, WriterNext, WorkerNext, ClaimStep, WorkerErrorStep, TearStep, QueueExpiryStep,
           OpenReaderStep, CloseReaderStep, CrashStep, ZenonT(60) DEF Next

\* A step shortens a file under an indexed fragment only to retire it or by a power failure.
LEMMA MediaStep ==
  ASSUME LedgerInv, [Next]_vars, NEW o \in Ops, NEW f \in index[o].fragments,
         disk'[o].len < f, f <= disk[o].len, ~Crash
  PROVE  retirement[o] = "journaled"
<1>1. disk[o] \in Files /\ index[o] \in Entries /\ Table(disk) BY WriterKnown, Zenon DEF LedgerInv, Tables
<1>2. f \in Nat /\ disk[o].len \in Nat BY <1>1, LedgerAssumption, SMTT(30) DEF Files, Entries
<1>3. disk'[o].len # disk[o].len BY <1>2
<1>4. disk' # disk BY <1>3, Zenon
<1>5. ASSUME NEW q \in Ops, NEW n, disk' = [disk EXCEPT ![q].len = n] PROVE q = o /\ disk'[o].len = n
  <2>1. q = o BY <1>1, <1>3, <1>5, Zenon DEF Table
  <2>2. disk'[o] = [disk[o] EXCEPT !.len = n] BY <1>1, <1>5, <2>1, Zenon DEF Table
  <2> QED BY <1>1, <2>1, <2>2, Zenon DEF Files
<1>6. ASSUME NEW q \in Ops, Open(q) PROVE FALSE
  <2>1. disk'[o] = IF q = o THEN [disk[o] EXCEPT !.exists = TRUE] ELSE disk[o] BY <1>1, <1>6, Zenon DEF Open, Table
  <2> QED BY <1>1, <1>3, <2>1, Zenon DEF Files
<1>7. ASSUME NEW q \in Ops, disk' = [disk EXCEPT ![q].synced = disk[q].len] PROVE FALSE
  <2>1. disk'[o] = IF q = o THEN [disk[o] EXCEPT !.synced = disk[o].len] ELSE disk[o] BY <1>1, <1>7, Zenon DEF Table
  <2> QED BY <1>1, <1>3, <2>1, Zenon DEF Files
<1>8. ASSUME NEW q \in Ops, Initialize(q) PROVE FALSE
  <2>1. disk' = [disk EXCEPT ![q].len = InitBytes] /\ writer[q].pc = "opened" BY <1>4, <1>8, Zenon DEF Initialize
  <2>2. q = o BY <1>5, <2>1, Zenon
  <2>3. index[o].fragments = {} BY <2>1, <2>2, Now, ZenonT(60) DEF OpInv, IndexOK, Opening
  <2> QED BY <2>3, Zenon
<1>9. ASSUME NEW q \in Ops, Write(q) PROVE FALSE
  <2>1. PICK end \in disk[q].len + 1 .. Needed(q) : disk' = [disk EXCEPT ![q].len = end] BY <1>9, Zenon DEF Write
  <2>2. q = o /\ disk'[o].len = end BY <1>5, <2>1, Zenon
  <2>3. end > disk[o].len BY <1>2, <2>1, <2>2, NeededWithin, SMTT(30)
  <2> QED BY <1>2, <2>2, <2>3, SMTT(30)
<1>10. ASSUME NEW q \in Ops, RetainPrefix(q) PROVE FALSE
  <2> DEFINE n == plan[q].retained
  <2>1. /\ disk' = [disk EXCEPT ![q].len = n, ![q].synced = n]
        /\ disk[q].len \in {plan[q].original, plan[q].retained} /\ plan[q].mode = "seal"
    BY <1>4, <1>10, Zenon DEF RetainPrefix
  <2>2. q = o BY <1>1, <1>3, <2>1, Zenon DEF Table
  <2>3. disk'[o] = [disk[o] EXCEPT !.len = n, !.synced = n] BY <1>1, <2>1, <2>2, Zenon DEF Table
  <2>4. disk'[o].len = plan[o].retained BY <1>1, <2>2, <2>3, Zenon DEF Files
  <2>5. /\ plan[o] \in Plans /\ plan[o].retained <= plan[o].original
        /\ f <= plan[o].original => f <= plan[o].retained
    BY <2>1, <2>2, Now, ZenonT(60) DEF OpInv, Typed, PlanOK
  <2>6. plan[o].retained \in Nat /\ plan[o].original \in Nat BY <2>5, LedgerAssumption DEF Plans
  <2> QED BY <1>2, <2>1, <2>2, <2>4, <2>5, <2>6, SMTT(30)
<1>11. ASSUME NEW q \in Ops, RemoveFile(q) PROVE retirement[o] = "journaled"
  <2>1. /\ disk' = [disk EXCEPT ![q].exists = FALSE, ![q].len = 0, ![q].synced = 0]
        /\ plan[q].mode = "abandon" \/ retirement[q] = "journaled"
    BY <1>4, <1>11, Zenon DEF RemoveFile, RemovalDue, Abandoning
  <2>2. q = o BY <1>1, <1>3, <2>1, Zenon DEF Table
  <2>3. plan[o].mode # "abandon" BY Now, Zenon DEF OpInv, PlanOK
  <2> QED BY <2>1, <2>2, <2>3, Zenon
<1>12. ASSUME NEW q \in Ops, NEW c, disk' = [disk EXCEPT ![q].receipt = c] PROVE FALSE
  <2>1. disk'[o] = IF q = o THEN [disk[o] EXCEPT !.receipt = c] ELSE disk[o] BY <1>1, <1>12, Zenon DEF Table
  <2> QED BY <1>1, <1>3, <2>1, Zenon DEF Files
<1>13. ASSUME NEW q \in Ops, WriterStep(q) PROVE FALSE
  <2>1. Open(q) \/ Materialize(q) \/ Initialize(q) \/ Write(q) \/ Evidence(q)
    BY <1>4, <1>13, Zenon DEF WriterStep, Place, PlaceRefused, ReadRevision, Probe, Reserve, NeverOpened, Flush,
       WriteFull, LockGrowth, Grow, GrowRefused, IndexFragment, DropFailed, Finalize
  <2> QED BY <1>6, <1>7, <1>8, <1>9, <2>1, ZenonT(60) DEF Materialize, Evidence
<1>14. ASSUME NEW q \in Ops, WorkerStep(q) PROVE retirement[o] = "journaled"
  <2>1. BeginRecovery(q) \/ RetainPrefix(q) \/ RemoveFile(q) \/ Acknowledge(q)
    BY <1>4, <1>14, Zenon DEF WorkerStep, ConfirmAbsent, ReleaseUnopened, CompleteSeal, CompleteRemoval
  <2>2. ASSUME BeginRecovery(q) PROVE FALSE BY <1>4, <1>7, <2>2, Zenon DEF BeginRecovery
  <2>3. ASSUME Acknowledge(q) PROVE FALSE BY <1>12, <2>3, Zenon DEF Acknowledge
  <2> QED BY <1>10, <1>11, <2>1, <2>2, <2>3, Zenon
<1>15. ASSUME NEW q \in Ops, Tear(q) PROVE FALSE BY <1>12, <1>15, Zenon DEF Tear
<1> QED BY <1>4, <1>13, <1>14, <1>15, ZenonT(60) DEF Next, Claim, WorkerError, QueueExpiry, OpenReader, CloseReader,
           CheckPressure, SetDraining, CheckRemoval, SaveRemoval, vars
=============================================================================
