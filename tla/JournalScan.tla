----------------------------- MODULE JournalScan -----------------------------
(***************************************************************************)
(* The scan of the volume worker over the pending operations of the        *)
(* catalog (storage/volumes/runtime/worker.rs).  It pages through the      *)
(* journal in the order of the identifiers, hands one operation to each    *)
(* turn of the worker, stops for an interval after a full pass, an error   *)
(* or SCAN_LIMIT operations, and is woken by whoever journals an operation.*)
(* VolumeLedger and VolumeMove assume that it returns to every pending     *)
(* operation; ScanReachesAll is that assumption.                           *)
(***************************************************************************)
EXTENDS Integers, FiniteSets, FiniteSetsExt

CONSTANTS
    Jobs,           \* identifiers, positive integers in the catalog's order
    QueueCapacity,  \* QUEUE_CAPACITY, the page of the scan
    ScanLimit,      \* SCAN_LIMIT
    MaxJournaled,   \* bound: operations journaled in a behaviour
    MaxScanErrors   \* bound: failed passes

ASSUME ScanAssumption ==
    /\ Jobs \subseteq Nat \ {0} /\ IsFiniteSet(Jobs)
    /\ QueueCapacity \in Nat \ {0} /\ ScanLimit \in Nat \ {0}

VARIABLES
    journal,    \* what the catalog's query for pending operations returns
    signal,     \* a wakeup in the channel, or rescan_requested
    scan,       \* Scan: after (0 is none), pending (visited in ascending order), seen, due, active, rescan
    turn,       \* where the worker's loop is, and the operation it executes
    waiting,    \* journaled before the latest wakeup taken and not visited since
    scanErrors, \* failed passes so far
    journaled   \* operations journaled so far

scanVars == <<journal, signal, scan, turn, waiting, scanErrors, journaled>>

NoJob == 0

ScanInit ==
    /\ journal \in SUBSET Jobs
    /\ signal = FALSE
    /\ scan = [after |-> 0, pending |-> {}, seen |-> 0, due |-> TRUE, active |-> FALSE, rescan |-> FALSE]
    /\ turn = [pc |-> "head", job |-> NoJob]
    /\ waiting = {} /\ scanErrors = 0 /\ journaled = 0

-----------------------------------------------------------------------------
(* The writers of the journal. *)

Journal(j) ==
    /\ j \notin journal /\ journaled < MaxJournaled
    /\ journal' = journal \cup {j} /\ journaled' = journaled + 1
    /\ UNCHANGED <<signal, scan, turn, waiting, scanErrors>>

\* Handle::scan and rescan_requested; anybody may wake the scan at any time, a full channel is one wakeup.
Wake ==
    /\ signal' = TRUE
    /\ UNCHANGED <<journal, scan, turn, waiting, scanErrors, journaled>>

\* The operation is settled by somebody else, a reservation by its own writer for instance.
Withdraw(j) ==
    /\ j \in journal /\ turn.job # j
    /\ journal' = journal \ {j} /\ waiting' = waiting \ {j}
    /\ UNCHANGED <<signal, scan, turn, scanErrors, journaled>>

-----------------------------------------------------------------------------
(* Scan, and the loop of the worker. *)

\* Mutant: a wakeup in the middle of a pass only makes the next pass due.
WokenForgetful(s) == [s EXCEPT !.due = TRUE]

Woken(s) == [s EXCEPT !.rescan = @ \/ s.active \/ s.after # 0, !.due = TRUE]

Deferred(s) == [s EXCEPT !.active = FALSE, !.pending = {}, !.due = FALSE]

NextTurn == turn' = [pc |-> "head", job |-> NoJob]

\* try_recv or swap at the head of the loop, recv_timeout at the end of a turn without work.
TakeSignal ==
    /\ turn.pc = "head" /\ signal
    /\ signal' = FALSE
    /\ scan' = Woken(scan)
    /\ waiting' = journal
    /\ turn' = [turn EXCEPT !.pc = "next"]
    /\ UNCHANGED <<journal, scanErrors, journaled>>

\* Without a wakeup the turns of a resting scan do nothing until it is due.
NoSignal ==
    /\ turn.pc = "head" /\ ~signal
    /\ scan.active \/ scan.due
    /\ turn' = [turn EXCEPT !.pc = "next"]
    /\ UNCHANGED <<journal, signal, scan, waiting, scanErrors, journaled>>

\* SCAN_INTERVAL after a deferred pass the next one is due.
IntervalPasses ==
    /\ ~scan.due /\ ~scan.active
    /\ scan' = [scan EXCEPT !.due = TRUE]
    /\ UNCHANGED <<journal, signal, turn, waiting, scanErrors, journaled>>

\* A pass that begins counts anew; the cursor stays where the one before left it.
Begun == IF scan.active THEN scan ELSE [scan EXCEPT !.seen = 0, !.active = TRUE]

\* The catalog's query: the least identifiers behind the cursor.
Behind(after) == {j \in journal : j > after}
Page(after) == {j \in Behind(after) : Cardinality({i \in Behind(after) : i < j}) < QueueCapacity}

Visit(s) ==
    /\ scan' = [s EXCEPT !.pending = @ \ {Min(@)}]
    /\ turn' = [pc |-> "execute", job |-> Min(s.pending)]
    /\ waiting' = waiting \ {Min(s.pending)}
    /\ UNCHANGED <<journal, signal, scanErrors, journaled>>

NextJob ==
    /\ turn.pc = "next" /\ Begun.pending # {}
    /\ Visit(Begun)

Fetching == turn.pc = "next" /\ Begun.pending = {} /\ Begun.seen < ScanLimit

FetchPage ==
    /\ Fetching /\ Page(Begun.after) # {}
    /\ LET page == Page(Begun.after)
       IN Visit([Begun EXCEPT !.after = Max(page), !.seen = @ + Cardinality(page), !.pending = page])

\* The wakeups taken during the pass are answered by another one, at once.
EndPass ==
    /\ Fetching /\ Page(Begun.after) = {}
    /\ scan' = [Deferred(Begun) EXCEPT !.after = 0, !.rescan = FALSE, !.due = Begun.rescan]
    /\ NextTurn
    /\ UNCHANGED <<journal, signal, waiting, scanErrors, journaled>>

\* Mutant: the pass after a long one starts from the first operation again.
ReachLimitRestarting ==
    /\ turn.pc = "next" /\ Begun.pending = {} /\ Begun.seen >= ScanLimit
    /\ scan' = [Deferred(Begun) EXCEPT !.after = 0]
    /\ NextTurn
    /\ UNCHANGED <<journal, signal, waiting, scanErrors, journaled>>

ReachLimit ==
    /\ turn.pc = "next" /\ Begun.pending = {} /\ Begun.seen >= ScanLimit
    /\ scan' = Deferred(Begun)
    /\ NextTurn
    /\ UNCHANGED <<journal, signal, waiting, scanErrors, journaled>>

\* recover_roots fails at the beginning of a pass, or the catalog does not answer.
ScanError ==
    /\ turn.pc = "next" /\ (~scan.active \/ Fetching)
    /\ scanErrors < MaxScanErrors /\ scanErrors' = scanErrors + 1
    /\ scan' = Deferred(Begun)
    /\ NextTurn
    /\ UNCHANGED <<journal, signal, waiting, journaled>>

\* process: the operation is settled or stays pending, for a later pass.
Process ==
    /\ turn.pc = "execute"
    /\ \E settled \in BOOLEAN : journal' = IF settled THEN journal \ {turn.job} ELSE journal
    /\ waiting' = waiting \cap journal'
    /\ NextTurn
    /\ UNCHANGED <<signal, scan, scanErrors, journaled>>

WorkerTurn ==
    \/ TakeSignal \/ NoSignal \/ NextJob \/ FetchPage \/ EndPass \/ ReachLimit \/ ScanError \/ Process

ScanNext ==
    \/ \E j \in Jobs : Journal(j) \/ Withdraw(j)
    \/ Wake \/ IntervalPasses \/ WorkerTurn

\* The worker's thread keeps running and time passes.  Nothing is assumed of the wakeups.
ScanFairness == WF_scanVars(WorkerTurn) /\ WF_scanVars(IntervalPasses)

ScanSpec == ScanInit /\ [][ScanNext]_scanVars /\ ScanFairness

-----------------------------------------------------------------------------
(* Properties. *)

\* No wakeup is lost in a pass: when a pass reaches the end of the journal and rests, every
\* operation that was journaled before the latest wakeup was visited after it, although the
\* operation may have been journaled behind the cursor.
WakeupsAnswered == [][EndPass /\ ~scan'.due => waiting = {}]_scanVars

\* Every pending operation is visited again and again until it is settled, however many others
\* stay pending, whatever fails before it and however often the scan is woken.
ScanReachesAll == \A j \in Jobs : (j \in journal) ~> (turn.job = j \/ j \notin journal)
==============================================================================
