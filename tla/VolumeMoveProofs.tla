-------------------------- MODULE VolumeMoveProofs --------------------------
(***************************************************************************)
(* Inv of VolumeMove is inductive, and it implies the safety properties of *)
(* the module.                                                             *)
(*                                                                         *)
(* A step of a worker acts for the one job it has claimed.  While that job *)
(* is active no other job is (the unique index of the journal), so what    *)
(* the step does to files and allocations (Local) leaves every other job   *)
(* and every other worker (Same) where the invariant puts them.  The       *)
(* module has facts about a state, frame lemmas, every step of a worker,   *)
(* then requests, faults and power failures.                               *)
(***************************************************************************)
EXTENDS VolumeMove, TLAPS

\* The files, but for what the receipts hold, which no invariant speaks of.
stored == <<at, bytes, synced, damaged, receipt>>

\* Nothing that a worker on job k relies on has changed.
Same(k) ==
  /\ phase'[k] = phase[k] /\ source'[k] = source[k] /\ evidence'[k] = evidence[k]
  /\ k \in cancelling' <=> k \in cancelling
  /\ receipt'[k] = receipt[k]
  /\ at'[k] = at[k] \/ (at'[k] = None /\ ~Active(k))
  /\ Durable(k) => Durable(k)'

\* Worker w acts for job j: no other worker holds j or moves.
ActsFor(w, j) ==
  \A v \in Workers \ {w} : /\ claim[v] # j
                           /\ pc'[v] = pc[v]
                           /\ claim'[v] = claim[v]
                           /\ captured'[v] = captured[v]

\* Afterwards w has dropped its claim, or holds j at a step it may be at.
EndsUp(w, j) ==
  \/ claim'[w] = None /\ pc'[w] = "idle"
  \/ claim'[w] = j /\ pc'[w] # "idle" /\ StepInv(w, j)'

\* What a step for job j may do to the rest of the state: remove its victim,
\* release its source and take over the object.
Local(j) ==
  /\ \A k \in Jobs \ {j} :
       /\ phase'[k] = phase[k] /\ evidence'[k] = evidence[k] /\ receipt'[k] = receipt[k]
       /\ k \in acked' <=> k \in acked
  /\ \A o \in Ops \ {j} :
       /\ at'[o] = at[o] \/ (o = Victim(j) /\ at'[o] = None)
       /\ Durable(o) => Durable(o)'
       /\ state'[o] = state[o] \/ (o = source[j] /\ state'[o] = "cancelled")
  /\ owner' \in {owner, j}
  /\ UNCHANGED <<source, cancelling, lease>>

-----------------------------------------------------------------------------
(* Facts about a state. *)

\* What the invariant says of one job.
LEMMA JobFacts ==
  ASSUME Inv, NEW j \in Jobs
  PROVE  /\ j \in Ops /\ j # None /\ source[j] \in Ops
         /\ PhaseInv(j) /\ CopyInv(j)
  BY ConstantsAssumption, Zenon DEF Inv, TypeOK, JobInv, FileInv, Ops

\* A claimed job is at a step its worker may be at, and has no other worker.
LEMMA ClaimFacts ==
  ASSUME Inv, NEW w \in Workers, NEW j \in Jobs, claim[w] = j
  PROVE  /\ StepInv(w, j) /\ pc[w] # "idle"
         /\ \A v \in Workers \ {w} : claim[v] # j
  BY ConstantsAssumption, Zenon DEF Inv, WorkerInv, ClaimInv, Ops

\* The types that the frame arguments need.
LEMMA Types ==
  ASSUME Inv
  PROVE  /\ phase \in [Jobs -> Phases] /\ source \in [Jobs -> Ops]
         /\ evidence \in [Jobs -> Evidence]
         /\ state \in [Ops -> {"absent", "reserved", "published", "cancelled"}]
         /\ owner \in Ops
         /\ at \in [Ops -> {None, "tmp", "final"}]
         /\ bytes \in [Ops -> 0..Size] /\ synced \in [Ops -> 0..Size]
         /\ receipt \in [Jobs -> {None, "moved", "staged"}]
         /\ pc \in [Workers -> Steps] /\ claim \in [Workers -> Jobs \union {None}]
         /\ captured \in [Workers -> Evidence]
         /\ lease \in [Readers -> Ops \union {None}]
  BY Zenon DEF Inv, TypeOK

\* ownership::lookup finds the owner and nothing else.
LEMMA LookupIsOwner ==
  ASSUME Inv
  PROVE  Lookup = {owner}
<1>1. ASSUME NEW j \in Jobs, phase[j] \in SourceSuperseded PROVE source[j] # owner
  BY <1>1, JobFacts, Zenon DEF PhaseInv, Inv, OwnerInv, SourceSuperseded
<1> QED BY <1>1, Zenon DEF Lookup, Inv, OwnerInv

\* An active job has a live target, and no other job is active.
LEMMA ActiveFacts ==
  ASSUME Inv, NEW j \in Jobs, Active(j)
  PROVE  /\ state[j] \in {"reserved", "published"} /\ phase[j] # "absent"
         /\ \A k \in Jobs \ {j} : phase[k] \in {"absent", "complete", "cancelled"}
<1>1. phase[j] \in Phases
  BY Types, Zenon
<1>2. state[j] \in {"reserved", "published"} /\ phase[j] # "absent"
  BY <1>1, JobFacts, Zenon DEF Active, Terminal, Phases, PhaseInv, Cancellable, Inv, OwnerInv
<1>3. \A k \in Jobs \ {j} : ~Active(k)
  BY Zenon DEF Inv, JobInv, OneActive
<1> QED BY <1>2, <1>3, Zenon DEF Active, Terminal

-----------------------------------------------------------------------------
(* Frame lemmas. *)

\* Steps that change no durable state but what the receipts hold, and no lease,
\* keep the durable invariants.
LEMMA Frame ==
  ASSUME Inv, UNCHANGED <<journal, ledger, stored, lease>>
  PROVE  OwnerInv' /\ JobInv' /\ FileInv' /\ ReaderInv'
<1>1. OwnerInv'
  BY Zenon DEF Inv, OwnerInv, Durable, ledger, stored
<1>2. JobInv'
  BY ZenonT(60) DEF Inv, JobInv, OneActive, Active, PhaseInv, journal, ledger, stored
<1>3. FileInv'
  BY Zenon DEF Inv, FileInv, ReleasedBytesAreFree, CopyInv, Durable, Victim, journal, ledger, stored
<1>4. ReaderInv'
  BY Zenon DEF Inv, ReaderInv, LeaseInv, Durable, journal, ledger, stored
<1> QED BY <1>1, <1>2, <1>3, <1>4, Zenon

\* A worker relies on nothing but its own job, the leases and its own state.
LEMMA StepInvSame ==
  ASSUME NEW v \in Workers, NEW k \in Jobs, StepInv(v, k), Same(k),
         pc'[v] = pc[v], captured'[v] = captured[v], lease' = lease
  PROVE  StepInv(v, k)'
<1>1. CASE at'[k] = at[k]
  BY <1>1 DEF StepInv, Same
<1>2. CASE at'[k] = None /\ ~Active(k)
  <2>1. pc[v] \notin {"open", "checkpoint", "copy", "verify", "file_published", "publish"}
    BY <1>2, Zenon DEF StepInv, Active, Terminal
  <2> QED BY <1>2, <2>1, SMTT(30) DEF StepInv, Same
<1> QED BY <1>1, <1>2, Zenon DEF Same

\* A step for one job leaves every other worker where its invariant holds.
LEMMA WorkersKeep ==
  ASSUME Inv, NEW w \in Workers, NEW j \in Jobs, lease' = lease,
         ActsFor(w, j), EndsUp(w, j), \A k \in Jobs \ {j} : Same(k)
  PROVE  WorkerInv'
<1>0. /\ claim \in [Workers -> Jobs \union {None}] /\ j # None
      /\ ClaimInv /\ \A v \in Workers : claim[v] # None => StepInv(v, claim[v])
  BY Types, JobFacts, Zenon DEF Inv, WorkerInv
<1>1. ClaimInv'
  BY <1>0 DEF ClaimInv, ActsFor, EndsUp
<1>2. ASSUME NEW v \in Workers, NEW k \in Jobs, claim'[v] = k PROVE StepInv(v, k)'
  <2>1. CASE v = w
    BY <1>2, <2>1, JobFacts, Zenon DEF EndsUp
  <2>2. CASE v # w
    <3>1. claim[v] = k /\ k # j /\ StepInv(v, k) /\ Same(k)
      BY <1>0, <1>2, <2>2, JobFacts, Zenon DEF ActsFor
    <3> QED BY <2>2, <3>1, StepInvSame, Zenon DEF ActsFor
  <2> QED BY <2>1, <2>2, Zenon
<1>3. ASSUME NEW v \in Workers, claim'[v] # None PROVE claim'[v] \in Jobs
  BY <1>0, <1>3, Zenon DEF ActsFor, EndsUp
<1> QED BY <1>1, <1>2, <1>3, Zenon DEF WorkerInv

\* Steps that only move a worker.
LEMMA WorkerOnly ==
  ASSUME Inv, NEW w \in Workers, NEW j \in Jobs, TypeOK',
         UNCHANGED <<journal, ledger, stored, lease>>, ActsFor(w, j), EndsUp(w, j)
  PROVE  Inv'
<1>1. \A k \in Jobs : Same(k)
  BY Zenon DEF Same, Durable, journal, stored
<1> QED BY <1>1, Frame, WorkersKeep, Zenon DEF Inv

\* Steps for an active job disturb the invariants of no other job.
LEMMA LocalStep ==
  ASSUME Inv, NEW j \in Jobs, Active(j), Local(j), phase'[j] # "absent",
         PhaseInv(j)', CopyInv(j)', ReleasedBytesAreFree'
  PROVE  JobInv' /\ FileInv' /\ \A k \in Jobs \ {j} : Same(k)
<1>0. /\ state[j] \in {"reserved", "published"} /\ phase[j] # "absent"
      /\ \A k \in Jobs \ {j} : /\ phase[k] \in {"absent", "complete", "cancelled"}
                               /\ phase'[k] = phase[k]
  BY ActiveFacts, Zenon DEF Local
<1>1. OneActive'
  BY <1>0, Zenon DEF OneActive, Active, Terminal
<1>2. ASSUME NEW k \in Jobs \ {j} PROVE PhaseInv(k)' /\ CopyInv(k)' /\ Same(k)
  <2>0. /\ PhaseInv(k) /\ CopyInv(k) /\ k \in Ops /\ source[k] \in Ops
        /\ phase[k] \in {"absent", "complete", "cancelled"} /\ phase'[k] = phase[k]
    BY <1>0, JobFacts, Zenon
  <2>1. PhaseInv(k)'
    <3>1. phase[k] = "absent" => state'[k] = "absent"
      BY <1>0, <2>0, Zenon DEF PhaseInv, Local
    <3>2. phase[k] = "absent" => \A i \in Jobs : phase'[i] # "absent" => source[i] # k
      BY <1>0, <2>0, Zenon DEF PhaseInv
    <3>3. phase[k] = "complete" => state'[source[k]] = "cancelled"
      BY <1>0, <2>0, Zenon DEF PhaseInv, Local
    <3> QED BY <2>0, <3>1, <3>2, <3>3, Zenon DEF PhaseInv, Local, Cancellable, Terminal
  <2>2. CopyInv(k)'
    <3>1. receipt[k] # None => at'[Victim(k)] = None
      BY <1>0, <2>0 DEF CopyInv, PhaseInv, Victim, Local
    <3> QED BY <2>0, <3>1, Zenon DEF CopyInv, Victim, Local
  <2>3. Same(k)
    BY <2>0, Zenon DEF Same, Local, Active, Terminal
  <2> QED BY <2>1, <2>2, <2>3, Zenon
<1> QED BY <1>1, <1>2, Zenon DEF JobInv, FileInv

-----------------------------------------------------------------------------
(* Steps that only move a worker. *)

\* What Goto and Leave do to the workers.
LEMMA GotoFacts ==
  ASSUME Inv, NEW w \in Workers, NEW j \in Jobs, claim[w] = j,
         NEW step \in Steps, Goto(w, step)
  PROVE  /\ ActsFor(w, j) /\ pc'[w] = step /\ claim'[w] = j /\ captured'[w] = captured[w]
         /\ pc' \in [Workers -> Steps] /\ claim' \in [Workers -> Jobs \union {None}]
         /\ captured' \in [Workers -> Evidence]
  BY Types, ClaimFacts, Zenon DEF Goto, ActsFor

\* What the end of a job does to the workers.
LEMMA LeaveFacts ==
  ASSUME Inv, NEW w \in Workers, NEW j \in Jobs, claim[w] = j, Leave(w)
  PROVE  /\ ActsFor(w, j) /\ EndsUp(w, j)
         /\ pc' \in [Workers -> Steps] /\ claim' \in [Workers -> Jobs \union {None}]
         /\ captured' \in [Workers -> Evidence]
<1>1. /\ pc' = [pc EXCEPT ![w] = "idle"] /\ claim' = [claim EXCEPT ![w] = None]
      /\ captured' = [captured EXCEPT ![w] = None]
  BY Zenon DEF Leave
<1>2. /\ pc' \in [Workers -> Steps] /\ claim' \in [Workers -> Jobs \union {None}]
      /\ captured' \in [Workers -> Evidence]
  BY <1>1, Types, Zenon DEF Steps, Evidence
<1>3. ActsFor(w, j) /\ EndsUp(w, j)
  BY <1>1, Types, ClaimFacts, Zenon DEF ActsFor, EndsUp
<1> QED BY <1>2, <1>3, Zenon

\* A worker that is not idle holds a job.
LEMMA BusyClaims ==
  ASSUME Inv, NEW w \in Workers, pc[w] # "idle"
  PROVE  claim[w] \in Jobs
  BY Types, Zenon DEF Inv, WorkerInv, ClaimInv

\* Dropping a claim preserves the invariant, whatever the reason.
LEMMA LeavePreserves ==
  ASSUME Inv, NEW w \in Workers, NEW j \in Jobs, claim[w] = j, Leave(w),
         faults' \in 0..MaxFaults, contents' \in [Jobs -> Contents],
         UNCHANGED <<journal, ledger, stored, lease>>
  PROVE  Inv'
<1>1. TypeOK'
  BY LeaveFacts, Zenon DEF Inv, TypeOK, journal, ledger, stored
<1> QED BY <1>1, LeaveFacts, WorkerOnly, Zenon

\* Going to a step whose invariant holds already.
LEMMA GotoPreserves ==
  ASSUME Inv, NEW w \in Workers, NEW j \in Jobs, claim[w] = j, NEW step \in Steps,
         step # "idle", Goto(w, step), StepInv(w, j)',
         UNCHANGED <<journal, ledger, files, lease, faults>>
  PROVE  Inv'
<1>1. TypeOK'
  BY GotoFacts, Zenon DEF Inv, TypeOK, journal, ledger, files
<1>2. ActsFor(w, j) /\ EndsUp(w, j) /\ UNCHANGED stored
  BY GotoFacts, Zenon DEF EndsUp, files, stored
<1> QED BY <1>1, <1>2, WorkerOnly, Zenon

\* Claiming a free job at a step whose invariant holds already.
LEMMA ClaimPreserves ==
  ASSUME Inv, NEW w \in Workers, NEW j \in Jobs, NEW step \in Steps, step # "idle",
         ClaimMove(w, j, step), StepInv(w, j)'
  PROVE  Inv'
<1>1. TypeOK'
  BY Zenon DEF Inv, TypeOK, ClaimMove, journal, ledger, files
<1>2. ActsFor(w, j) /\ EndsUp(w, j)
  BY Types, Zenon DEF ActsFor, EndsUp, ClaimMove
<1>3. UNCHANGED <<journal, ledger, stored, lease>>
  BY Zenon DEF ClaimMove, files, stored
<1> QED BY <1>1, <1>2, <1>3, WorkerOnly, Zenon

\* resume_move claims a job at the step its phase calls for.
LEMMA ResumePreserves ==
  ASSUME Inv, NEW w \in Workers, NEW j \in Jobs, Resume(w, j)
  PROVE  Inv'
<1>1. PICK step \in {"open", "rename", "inspect"} :
        /\ ClaimMove(w, j, step)
        /\ step = "open" => phase[j] = "reserved"
        /\ step = "rename" => phase[j] = "verified"
        /\ step = "inspect" => phase[j] = "file_published"
  BY Zenon DEF Resume
<1>2. receipt[j] = None
  BY JobFacts, Zenon DEF Resume, CopyInv
<1>3. StepInv(w, j)'
  <2>1. pc'[w] = step /\ phase' = phase /\ receipt' = receipt
    BY <1>1, Types, Zenon DEF ClaimMove, journal, files
  <2> QED BY <1>1, <1>2, <2>1, Zenon DEF StepInv
<1> QED BY <1>1, <1>3, ClaimPreserves, Zenon DEF Steps

\* retire_move claims a published or a completed job.
LEMMA RetirePreserves ==
  ASSUME Inv, NEW w \in Workers, NEW j \in Jobs, Retire(w, j)
  PROVE  Inv'
<1>1. PICK step \in {"ready", "ack_receipt"} :
        /\ ClaimMove(w, j, step)
        /\ step = "ready" => phase[j] \in {"published", "retiring"}
        /\ step = "ack_receipt" => phase[j] = "complete"
  BY Zenon DEF Retire
<1>2. StepInv(w, j)'
  <2>1. pc'[w] = step /\ phase' = phase
    BY <1>1, Types, Zenon DEF ClaimMove, journal
  <2> QED BY <1>1, <2>1, Zenon DEF StepInv, Terminal
<1> QED BY <1>1, <1>2, ClaimPreserves, Zenon DEF Steps

\* finish_cancelled_move claims a job whose cancellation is latched.
LEMMA FinishCancelledPreserves ==
  ASSUME Inv, NEW w \in Workers, NEW j \in Jobs, FinishCancelled(w, j)
  PROVE  Inv'
<1>1. PICK step \in {"pin_source", "acknowledge", "ack_receipt"} :
        /\ ClaimMove(w, j, step)
        /\ step = "pin_source" => phase[j] \in Cancellable
        /\ step # "pin_source" => phase[j] = "cancelled"
        /\ step = "acknowledge" => evidence[j] = "empty"
  BY Zenon DEF FinishCancelled, AfterCancelled
<1>2. j \in cancelling /\ (evidence[j] = "empty" => receipt[j] = None)
  BY JobFacts, Zenon DEF FinishCancelled, CopyInv
<1>3. StepInv(w, j)'
  <2>1. pc'[w] = step /\ UNCHANGED <<phase, cancelling, receipt>>
    BY <1>1, Types, Zenon DEF ClaimMove, journal, files
  <2> QED BY <1>1, <1>2, <2>1, Zenon DEF StepInv, Terminal, Cancellable
<1> QED BY <1>1, <1>3, ClaimPreserves, Zenon DEF Steps

\* verify_published finds the file under its final name.
LEMMA InspectPreserves ==
  ASSUME Inv, NEW w \in Workers, NEW j \in Jobs, claim[w] = j, Inspect(w)
  PROVE  Inv'
<1>0. /\ StepInv(w, j) /\ pc[w] = "inspect" /\ at[j] = "final"
      /\ UNCHANGED <<journal, ledger, files, lease, faults>>
  BY ClaimFacts, Zenon DEF Inspect, Published
<1>1. PICK step \in {"file_published", "publish"} :
        /\ Goto(w, step)
        /\ step = "file_published" => phase[j] = "verified"
        /\ step = "publish" => phase[j] # "verified"
  BY Zenon DEF Inspect
<1>2. StepInv(w, j)'
  <2>1. pc'[w] = step /\ UNCHANGED <<phase, receipt, at>>
    BY <1>0, <1>1, GotoFacts, Zenon DEF Steps, journal, files
  <2> QED BY <1>0, <1>1, <2>1, Zenon DEF StepInv
<1> QED BY <1>0, <1>1, <1>2, GotoPreserves, Zenon DEF Steps

\* No reader holds the source when a retirement is found ready.
LEMMA ReadyPreserves ==
  ASSUME Inv, NEW w \in Workers, NEW j \in Jobs, claim[w] = j, Ready(w)
  PROVE  Inv'
<1>0. /\ phase[j] \in {"published", "retiring"} /\ Goto(w, "pin")
      /\ \A r \in Readers : lease[r] = None
      /\ UNCHANGED <<journal, ledger, files, lease, faults>>
  BY Zenon DEF Ready, CanBeReady, Conflicts
<1>1. StepInv(w, j)'
  <2>1. pc'[w] = "pin" /\ UNCHANGED <<phase, source, lease>> /\ source[j] # None
    BY <1>0, GotoFacts, Types, ConstantsAssumption DEF Steps, journal
  <2> QED BY <1>0, <2>1, Zenon DEF StepInv
<1> QED BY <1>0, <1>1, GotoPreserves, Zenon DEF Steps

\* pin_retirement_destination changes nothing but the worker's step.
LEMMA PinDestinationPreserves ==
  ASSUME Inv, NEW w \in Workers, NEW j \in Jobs, claim[w] = j, PinDestination(w)
  PROVE  Inv'
<1>0. /\ StepInv(w, j) /\ pc[w] = "pin" /\ Goto(w, "retiring")
      /\ UNCHANGED <<journal, ledger, files, lease, faults>>
  BY ClaimFacts, Zenon DEF PinDestination
<1>1. StepInv(w, j)'
  <2>1. pc'[w] = "retiring" /\ UNCHANGED <<phase, source, lease>>
    BY <1>0, GotoFacts, Zenon DEF Steps, journal
  <2> QED BY <1>0, <2>1, Zenon DEF StepInv
<1> QED BY <1>0, <1>1, GotoPreserves, Zenon DEF Steps

\* Where a worker stands after a removal whose receipt is staged.
LEMMA AfterRemovalHolds ==
  ASSUME Inv, NEW w \in Workers, NEW j \in Jobs, claim[w] = j,
         pc[w] \in {"remove", "stage"}, receipt[j] # None,
         receipt'[j] = "staged", pc'[w] = AfterRemoval(j),
         UNCHANGED <<phase, source, cancelling, at>>
  PROVE  StepInv(w, j)'
<1>0. StepInv(w, j) /\ CopyInv(j)
  BY ClaimFacts, JobFacts, Zenon
<1>1. CASE j \in cancelling
  BY <1>0, <1>1, Zenon DEF StepInv, CopyInv, AfterRemoval, Victim
<1>2. CASE j \notin cancelling
  BY <1>0, <1>2, Zenon DEF StepInv, AfterRemoval
<1> QED BY <1>1, <1>2, Zenon

\* retire_owned takes up the receipt of an earlier attempt.
LEMMA RemoveAgainPreserves ==
  ASSUME Inv, NEW w \in Workers, NEW j \in Jobs, claim[w] = j, RemoveAgain(w)
  PROVE  Inv'
<1>0. /\ StepInv(w, j) /\ pc[w] = "remove" /\ receipt[j] # None
      /\ UNCHANGED <<journal, ledger, files, lease, faults>>
  BY ClaimFacts, Zenon DEF RemoveAgain
<1>1. PICK step \in {"stage", "cancelled", "retired"} :
        /\ Goto(w, step)
        /\ \/ step = "stage" /\ receipt[j] = "moved"
           \/ step = AfterRemoval(j) /\ receipt[j] = "staged"
  <2>1. CASE receipt[j] = "moved"
    BY <2>1, Zenon DEF RemoveAgain
  <2>2. CASE receipt[j] = "staged"
    BY <2>2, Zenon DEF RemoveAgain, AfterRemoval
  <2> QED BY <2>1, <2>2, Zenon DEF RemoveAgain, CanRemove
<1>2. StepInv(w, j)'
  <2>1. pc'[w] = step /\ UNCHANGED <<phase, source, cancelling, evidence, receipt, at>>
    BY <1>0, <1>1, GotoFacts, ZenonT(60) DEF Steps, journal, files
  <2>2. CASE step = "stage" /\ receipt[j] = "moved"
    BY <1>0, <2>1, <2>2, Zenon DEF StepInv
  <2>3. CASE step = AfterRemoval(j) /\ receipt[j] = "staged"
    BY <1>0, <2>1, <2>3, AfterRemovalHolds, Zenon
  <2> QED BY <1>1, <2>2, <2>3, Zenon
<1> QED BY <1>0, <1>1, <1>2, GotoPreserves, Zenon DEF Steps

\* pin_cancellation_source leads to the step the stored evidence calls for.
LEMMA PinSourcePreserves ==
  ASSUME Inv, NEW w \in Workers, NEW j \in Jobs, claim[w] = j, PinSource(w)
  PROVE  Inv'
<1>0. /\ StepInv(w, j) /\ pc[w] = "pin_source" /\ evidence[j] \in Evidence
      /\ UNCHANGED <<journal, ledger, files, lease, faults>>
  BY ClaimFacts, Types, Zenon DEF PinSource
<1>1. PICK step \in {"capture", "confirm", "remove"} :
        /\ Goto(w, step)
        /\ step = "remove" => evidence[j] \in {"tmp", "final"}
        /\ step = "confirm" => evidence[j] = "empty"
  <2>1. CASE evidence[j] = None
    BY <2>1, Zenon DEF PinSource
  <2>2. CASE evidence[j] = "empty"
    BY <2>2, Zenon DEF PinSource, None
  <2>3. CASE evidence[j] \in {"tmp", "final"}
    BY <2>3, Zenon DEF PinSource, None
  <2> QED BY <1>0, <2>1, <2>2, <2>3, Zenon DEF Evidence
<1>2. StepInv(w, j)'
  <2>1. pc'[w] = step /\ UNCHANGED <<phase, cancelling, evidence>>
    BY <1>0, <1>1, GotoFacts, Zenon DEF Steps, journal
  <2> QED BY <1>0, <1>1, <2>1, Zenon DEF StepInv
<1> QED BY <1>0, <1>1, <1>2, GotoPreserves, Zenon DEF Steps

\* confirm_absent has seen that the target does not exist.
LEMMA ConfirmAbsentPreserves ==
  ASSUME Inv, NEW w \in Workers, NEW j \in Jobs, claim[w] = j, ConfirmAbsent(w)
  PROVE  Inv'
<1>0. /\ StepInv(w, j) /\ pc[w] = "confirm" /\ at[j] = None /\ Goto(w, "cancelled")
      /\ UNCHANGED <<journal, ledger, files, lease, faults>>
  BY ClaimFacts, Zenon DEF ConfirmAbsent, CanConfirm
<1>1. StepInv(w, j)'
  <2>1. pc'[w] = "cancelled" /\ UNCHANGED <<phase, cancelling, evidence, at>>
    BY <1>0, GotoFacts, Zenon DEF Steps, journal, files
  <2> QED BY <1>0, <2>1, Zenon DEF StepInv
<1> QED BY <1>0, <1>1, GotoPreserves, Zenon DEF Steps

-----------------------------------------------------------------------------
(* Steps that write the copy of an unpublished job. *)

\* Writing to the target of a reserved move disturbs nothing else.
LEMMA CopyWrite ==
  ASSUME Inv, NEW w \in Workers, NEW j \in Jobs, phase[j] \in Cancellable, TypeOK',
         UNCHANGED <<journal, state, owner, damaged, receipt, contents, lease>>,
         \A o \in Ops \ {j} : at'[o] = at[o] /\ bytes'[o] = bytes[o] /\ synced'[o] = synced[o],
         at'[j] # at[j] => receipt[j] = None,
         phase[j] # "reserved" /\ at'[j] # None => Durable(j)',
         ActsFor(w, j), EndsUp(w, j)
  PROVE  Inv'
<1>e. UNCHANGED <<phase, source, cancelling, evidence, acked>>
  BY Zenon DEF journal
<1>0. /\ j \in Ops /\ PhaseInv(j) /\ CopyInv(j) /\ source[j] \in Ops /\ source[j] # j
      /\ state[j] = "reserved" /\ source[j] = owner /\ Active(j)
  BY JobFacts, Zenon DEF PhaseInv, Active, Terminal, Cancellable
<1>1. Local(j)
  BY <1>e, Zenon DEF Local, Durable
<1>2. PhaseInv(j)'
  BY <1>0, <1>e, Zenon DEF PhaseInv
<1>3. CopyInv(j)'
  <2>1. receipt[j] # None => j \in cancelling /\ Victim(j) = j
    BY <1>0, Zenon DEF CopyInv, Victim, Cancellable
  <2> QED BY <1>0, <1>e, <2>1, Zenon DEF CopyInv, Victim, Cancellable
<1>4. ReleasedBytesAreFree'
  BY <1>0, Zenon DEF Inv, FileInv, ReleasedBytesAreFree
<1>5. JobInv' /\ FileInv' /\ \A k \in Jobs \ {j} : Same(k)
  BY <1>0, <1>1, <1>2, <1>3, <1>4, <1>e, LocalStep, Zenon DEF Active
<1>6. OwnerInv'
  BY <1>0, Types, Zenon DEF Inv, OwnerInv, Durable
<1>7. ASSUME NEW r \in Readers PROVE LeaseInv(r)'
  <2>1. lease[r] # None => lease[r] \in Ops \ {j} /\ LeaseInv(r)
    BY <1>0, Types, Zenon DEF Inv, ReaderInv, LeaseInv
  <2> QED BY <1>e, <2>1, Zenon DEF LeaseInv, Durable
<1>8. WorkerInv'
  BY <1>5, WorkersKeep, Zenon
<1> QED BY <1>5, <1>6, <1>7, <1>8, Zenon DEF Inv, ReaderInv

\* Creating or reopening the temporary file.
LEMMA OpenPreserves ==
  ASSUME Inv, NEW w \in Workers, NEW j \in Jobs, claim[w] = j, OpenTemporary(w)
  PROVE  Inv'
<1>0. /\ at' = [at EXCEPT ![j] = "tmp"] /\ Goto(w, "checkpoint")
      /\ UNCHANGED <<journal, ledger, bytes, synced, damaged, receipt, contents, lease, faults>>
      /\ phase[j] = "reserved" /\ receipt[j] = None /\ j \in Ops /\ "checkpoint" \in Steps
  BY ClaimFacts, JobFacts, Zenon DEF OpenTemporary, StepInv, Steps
<1>1. TypeOK'
  BY <1>0, GotoFacts, Zenon DEF Inv, TypeOK, journal, ledger
<1>2. at'[j] = "tmp" /\ \A o \in Ops \ {j} : at'[o] = at[o]
  BY <1>0, Types, Zenon
<1>3. ActsFor(w, j) /\ EndsUp(w, j)
  <2>1. ActsFor(w, j) /\ pc'[w] = "checkpoint" /\ claim'[w] = j
    BY <1>0, GotoFacts, Zenon
  <2> QED BY <1>0, <1>2, <2>1, Zenon DEF EndsUp, StepInv, journal
<1> QED BY <1>0, <1>1, <1>2, <1>3, CopyWrite, Zenon DEF ledger, Cancellable

\* A checkpoint syncs the target and records its identity.
LEMMA CheckpointPreserves ==
  ASSUME Inv, NEW w \in Workers, NEW j \in Jobs, claim[w] = j, Checkpoint(w)
  PROVE  Inv'
<1>0. /\ synced' = [synced EXCEPT ![j] = bytes[j]] /\ identified' = identified \union {j}
      /\ materialized' = [materialized EXCEPT ![j] = bytes[j]] /\ Goto(w, "copy")
      /\ UNCHANGED <<journal, state, volume, owner, revision>>
      /\ UNCHANGED <<at, bytes, damaged, receipt, contents, lease, faults>>
      /\ phase[j] = "reserved" /\ receipt[j] = None /\ at[j] = "tmp"
      /\ j \in Ops /\ "copy" \in Steps
  BY ClaimFacts, JobFacts, ZenonT(40) DEF Checkpoint, StepInv, Steps
<1>1. TypeOK'
  BY <1>0, GotoFacts, ZenonT(40) DEF Inv, TypeOK, journal
<1>2. \A o \in Ops \ {j} : synced'[o] = synced[o]
  BY <1>0, Types, Zenon
<1>3. ActsFor(w, j) /\ EndsUp(w, j)
  <2>1. ActsFor(w, j) /\ pc'[w] = "copy" /\ claim'[w] = j
    BY <1>0, GotoFacts, Zenon
  <2> QED BY <1>0, <2>1, Zenon DEF EndsUp, StepInv, journal
<1> QED BY <1>0, <1>1, <1>2, <1>3, CopyWrite, Zenon DEF Cancellable

\* A refused checkpoint has synced the target.
LEMMA CheckpointRefusedPreserves ==
  ASSUME Inv, NEW w \in Workers, NEW j \in Jobs, claim[w] = j, CheckpointRefused(w)
  PROVE  Inv'
<1>0. /\ synced' = [synced EXCEPT ![j] = bytes[j]] /\ Leave(w)
      /\ UNCHANGED <<journal, ledger, at, bytes, damaged, receipt, contents, lease, faults>>
      /\ phase[j] = "reserved" /\ j \in Ops
  BY ClaimFacts, JobFacts, Zenon DEF CheckpointRefused, StepInv
<1>1. TypeOK'
  BY <1>0, LeaveFacts, Zenon DEF Inv, TypeOK, journal, ledger
<1>2. \A o \in Ops \ {j} : synced'[o] = synced[o]
  BY <1>0, Types, Zenon
<1> QED BY <1>0, <1>1, <1>2, LeaveFacts, CopyWrite, Zenon DEF ledger, Cancellable

\* One more block of the target.
LEMMA CopyBlockPreserves ==
  ASSUME Inv, NEW w \in Workers, NEW j \in Jobs, claim[w] = j, CopyBlock(w)
  PROVE  Inv'
<1>0. /\ bytes[j] < Size /\ bytes' = [bytes EXCEPT ![j] = bytes[j] + 1]
      /\ UNCHANGED <<journal, ledger, at, synced, damaged, receipt, contents, worker, lease, faults>>
      /\ phase[j] = "reserved" /\ receipt[j] = None /\ at[j] = "tmp" /\ pc[w] = "copy"
      /\ j \in Ops
  BY ClaimFacts, JobFacts, Zenon DEF CopyBlock, StepInv
<1>1. TypeOK'
  BY <1>0, ConstantsAssumption DEF Inv, TypeOK, journal, ledger, worker
<1>2. \A o \in Ops \ {j} : bytes'[o] = bytes[o]
  BY <1>0, Types, Zenon
<1>3. ActsFor(w, j) /\ EndsUp(w, j)
  BY <1>0, ClaimFacts, Zenon DEF ActsFor, EndsUp, StepInv, journal, worker
<1> QED BY <1>0, <1>1, <1>2, <1>3, CopyWrite, Zenon DEF ledger, Cancellable

\* The complete copy is synced before it is hashed.
LEMMA HashCopyPreserves ==
  ASSUME Inv, NEW w \in Workers, NEW j \in Jobs, claim[w] = j, HashCopy(w)
  PROVE  Inv'
<1>0. /\ synced' = [synced EXCEPT ![j] = Size] /\ bytes[j] = Size
      /\ UNCHANGED <<journal, ledger, at, bytes, damaged, receipt, contents, lease, faults>>
      /\ phase[j] = "reserved" /\ receipt[j] = None /\ at[j] = "tmp"
      /\ j \in Ops /\ "verify" \in Steps
      /\ (j \notin damaged /\ Goto(w, "verify")) \/ Leave(w)
  BY ClaimFacts, JobFacts, Zenon DEF HashCopy, StepInv, Steps
<1>1. TypeOK'
  BY <1>0, GotoFacts, LeaveFacts, ConstantsAssumption, ZenonT(60) DEF Inv, TypeOK, journal, ledger
<1>2. synced'[j] = Size /\ \A o \in Ops \ {j} : synced'[o] = synced[o]
  BY <1>0, Types, Zenon
<1>3. ActsFor(w, j) /\ EndsUp(w, j)
  <2>1. CASE j \notin damaged /\ Goto(w, "verify")
    <3>1. ActsFor(w, j) /\ pc'[w] = "verify" /\ claim'[w] = j
      BY <1>0, <2>1, GotoFacts, Zenon
    <3> QED BY <1>0, <1>2, <2>1, <3>1, Zenon DEF EndsUp, StepInv, Durable, journal
  <2> QED BY <1>0, <2>1, LeaveFacts, Zenon
<1> QED BY <1>0, <1>1, <1>2, <1>3, CopyWrite, Zenon DEF ledger, Cancellable

\* publish_staged renames a durable file.
LEMMA RenamePreserves ==
  ASSUME Inv, NEW w \in Workers, NEW j \in Jobs, claim[w] = j, Rename(w)
  PROVE  Inv'
<1>a. /\ pc[w] = "rename" /\ Goto(w, "inspect")
      /\ at' = [at EXCEPT ![j] = IF at[j] = "tmp" THEN "final" ELSE at[j]]
      /\ UNCHANGED <<journal, ledger, bytes, synced, damaged, receipt, contents, lease, faults>>
  BY DEF Rename
<1>b. phase[j] = "verified" /\ receipt[j] = None
  BY <1>a, ClaimFacts, ZenonT(40) DEF StepInv
<1>0. /\ at' = [at EXCEPT ![j] = IF at[j] = "tmp" THEN "final" ELSE at[j]]
      /\ Goto(w, "inspect")
      /\ UNCHANGED <<journal, ledger, bytes, synced, damaged, receipt, contents, lease, faults>>
      /\ phase[j] = "verified" /\ receipt[j] = None /\ j \in Ops /\ "inspect" \in Steps
      /\ CopyInv(j)
  BY <1>a, <1>b, JobFacts, Zenon DEF Steps
<1>1. TypeOK'
  BY <1>0, GotoFacts, Zenon DEF Inv, TypeOK, journal, ledger
<1>2. (at'[j] # None => at[j] # None) /\ \A o \in Ops \ {j} : at'[o] = at[o]
  BY <1>0, Types, Zenon DEF None
<1>3. at'[j] # None => Durable(j)'
  BY <1>0, <1>2, Zenon DEF CopyInv, Durable
<1>4. ActsFor(w, j) /\ EndsUp(w, j)
  <2>1. ActsFor(w, j) /\ pc'[w] = "inspect" /\ claim'[w] = j
    BY <1>0, GotoFacts, Zenon
  <2> QED BY <1>0, <2>1, Zenon DEF EndsUp, StepInv, journal
<1> QED BY <1>0, <1>1, <1>2, <1>3, <1>4, CopyWrite, Zenon DEF ledger, Cancellable

\* capture_target syncs the file it has found.
LEMMA CapturePreserves ==
  ASSUME Inv, NEW w \in Workers, NEW j \in Jobs, claim[w] = j, Capture(w)
  PROVE  Inv'
<1>0. /\ pc' = [pc EXCEPT ![w] = "record"] /\ claim' = claim
      /\ captured' = [captured EXCEPT ![w] = IF j \in identified THEN at[j] ELSE "empty"]
      /\ synced' = [synced EXCEPT ![j] = IF phase[j] = "reserved" THEN bytes[j] ELSE synced[j]]
      /\ UNCHANGED <<journal, ledger, at, bytes, damaged, receipt, contents, lease, faults>>
      /\ j \in cancelling /\ phase[j] \in Cancellable /\ j \in Ops /\ CopyInv(j)
      /\ CanCapture(j) /\ at[j] \in {None, "tmp", "final"}
  BY ClaimFacts, JobFacts, Types, Zenon DEF Capture, StepInv
<1>1. TypeOK'
  BY <1>0, Zenon DEF Inv, TypeOK, Steps, Evidence, journal, ledger
<1>2. /\ \A o \in Ops \ {j} : synced'[o] = synced[o]
      /\ phase[j] # "reserved" => synced'[j] = synced[j]
  BY <1>0, Types, Zenon
<1>3. phase[j] # "reserved" /\ at'[j] # None => Durable(j)'
  BY <1>0, <1>2, Zenon DEF CopyInv, Durable, Cancellable
<1>4. captured'[w] # None
  <2>1. j \in identified => at[j] # None
    BY <1>0, Zenon DEF CanCapture, CanCaptureNothing, CanCaptureFile, Published, Cancellable, None
  <2> QED BY <1>0, <2>1, Types, Zenon DEF None
<1>5. ActsFor(w, j) /\ EndsUp(w, j)
  <2>1. ActsFor(w, j) /\ pc'[w] = "record" /\ claim'[w] = j
    BY <1>0, Types, ClaimFacts, Zenon DEF ActsFor
  <2> QED BY <1>0, <1>4, <2>1, Zenon DEF EndsUp, StepInv, journal, Cancellable
<1> QED BY <1>0, <1>1, <1>2, <1>3, <1>5, CopyWrite, Zenon DEF ledger

-----------------------------------------------------------------------------
(* Transactions of the journal and the ledger. *)

\* A transaction that touches no file, for an active job.
LEMMA Transaction ==
  ASSUME Inv, NEW w \in Workers, NEW j \in Jobs, Active(j), TypeOK', Local(j),
         UNCHANGED files, phase'[j] # "absent", PhaseInv(j)', CopyInv(j)',
         ReleasedBytesAreFree', OwnerInv', ReaderInv', ActsFor(w, j), EndsUp(w, j)
  PROVE  Inv'
<1>1. JobInv' /\ FileInv' /\ \A k \in Jobs \ {j} : Same(k)
  BY LocalStep, Zenon
<1>2. WorkerInv'
  BY <1>1, WorkersKeep, Zenon DEF Local
<1> QED BY <1>1, <1>2, Zenon DEF Inv

\* Verified and FilePublished advance a job that is not published.
LEMMA AdvancePreserves ==
  ASSUME Inv, NEW w \in Workers, NEW j \in Jobs, phase[j] \in Cancellable, Durable(j),
         NEW p \in {"verified", "file_published"}, phase' = [phase EXCEPT ![j] = p],
         UNCHANGED <<source, cancelling, evidence, acked, state, owner, files, lease>>,
         TypeOK', ActsFor(w, j), EndsUp(w, j)
  PROVE  Inv'
<1>0. /\ phase'[j] = p /\ \A k \in Jobs \ {j} : phase'[k] = phase[k]
      /\ UNCHANGED <<at, bytes, synced, damaged, receipt, contents>>
      /\ PhaseInv(j) /\ CopyInv(j) /\ Active(j)
  BY Types, JobFacts, Zenon DEF files, Active, Terminal, Cancellable
<1>1. Local(j)
  BY <1>0, Zenon DEF Local, Durable
<1>2. PhaseInv(j)' /\ CopyInv(j)'
  BY <1>0, Zenon DEF PhaseInv, CopyInv, Durable, Victim, Cancellable, Terminal
<1>3. ReleasedBytesAreFree' /\ OwnerInv'
  BY <1>0, Zenon DEF Inv, FileInv, ReleasedBytesAreFree, OwnerInv, Durable
<1>4. ASSUME NEW r \in Readers PROVE LeaseInv(r)'
  BY <1>0, Zenon DEF Inv, ReaderInv, LeaseInv, Durable
<1> QED BY <1>0, <1>1, <1>2, <1>3, <1>4, Transaction, Zenon DEF ReaderInv

\* moves::verify records a durable copy.
LEMMA VerifyPreserves ==
  ASSUME Inv, NEW w \in Workers, NEW j \in Jobs, claim[w] = j, Verify(w)
  PROVE  Inv'
<1>0. /\ phase' = [phase EXCEPT ![j] = "verified"] /\ Goto(w, "rename")
      /\ identified' = identified \union {j}
      /\ materialized' = [materialized EXCEPT ![j] = Size]
      /\ UNCHANGED <<source, cancelling, evidence, acked, state, volume, owner, revision>>
      /\ UNCHANGED <<files, lease, faults>>
      /\ phase[j] = "reserved" /\ receipt[j] = None /\ Durable(j) /\ j \in Ops
      /\ "rename" \in Steps
  BY ClaimFacts, JobFacts, ZenonT(60) DEF Verify, StepInv, Steps
<1>1. TypeOK'
  BY <1>0, GotoFacts, ConstantsAssumption DEF Inv, TypeOK, Phases, files
<1>2. ActsFor(w, j) /\ EndsUp(w, j)
  <2>1. ActsFor(w, j) /\ pc'[w] = "rename" /\ claim'[w] = j /\ phase'[j] = "verified"
    BY <1>0, GotoFacts, Types, Zenon
  <2> QED BY <1>0, <2>1, Zenon DEF EndsUp, StepInv, files
<1>3. /\ phase[j] \in Cancellable /\ "verified" \in {"verified", "file_published"}
      /\ UNCHANGED <<source, cancelling, evidence, acked, state, owner, files, lease>>
  BY <1>0, Zenon DEF Cancellable
<1> QED BY <1>0, <1>1, <1>2, <1>3, AdvancePreserves, Zenon

\* Step::FilePublished records a renamed copy.
LEMMA FilePublishedPreserves ==
  ASSUME Inv, NEW w \in Workers, NEW j \in Jobs, claim[w] = j, FilePublished(w)
  PROVE  Inv'
<1>0. /\ phase' = [phase EXCEPT ![j] = "file_published"] /\ Goto(w, "publish")
      /\ UNCHANGED <<source, cancelling, evidence, acked, ledger, files, lease, faults>>
      /\ phase[j] = "verified" /\ receipt[j] = None /\ at[j] = "final" /\ j \in Ops
      /\ "publish" \in Steps
  BY ClaimFacts, JobFacts, ZenonT(40) DEF FilePublished, StepInv, Steps
<1>1. TypeOK'
  BY <1>0, GotoFacts, Zenon DEF Inv, TypeOK, Phases, ledger, files
<1>2. Durable(j)
  BY <1>0, JobFacts, Zenon DEF CopyInv, None
<1>3. ActsFor(w, j) /\ EndsUp(w, j)
  <2>1. ActsFor(w, j) /\ pc'[w] = "publish" /\ claim'[w] = j /\ phase'[j] = "file_published"
    BY <1>0, GotoFacts, Types, Zenon
  <2> QED BY <1>0, <2>1, Zenon DEF EndsUp, StepInv, files
<1>4. /\ phase[j] \in Cancellable /\ "file_published" \in {"verified", "file_published"}
      /\ UNCHANGED <<source, cancelling, evidence, acked, state, owner, files, lease>>
  BY <1>0, Zenon DEF Cancellable, ledger
<1> QED BY <1>0, <1>1, <1>2, <1>3, <1>4, AdvancePreserves, Zenon

\* Authority passes to a copy that is complete and durable.
LEMMA PublishPreserves ==
  ASSUME Inv, NEW w \in Workers, NEW j \in Jobs, claim[w] = j, Publish(w)
  PROVE  Inv'
<1>0. /\ phase' = [phase EXCEPT ![j] = "published"]
      /\ state' = [state EXCEPT ![j] = "published"]
      /\ owner' = j /\ revision' = [revision EXCEPT ![j] = revision[source[j]] + 1]
      /\ UNCHANGED <<source, cancelling, evidence, acked, volume, identified, materialized>>
      /\ UNCHANGED <<at, bytes, synced, damaged, receipt, contents, lease, faults>>
      /\ Leave(w)
  BY Zenon DEF Publish, files
<1>1. /\ phase[j] = "file_published" /\ receipt[j] = None /\ at[j] = "final"
      /\ j \in Ops /\ source[j] \in Ops /\ PhaseInv(j) /\ CopyInv(j) /\ j \notin cancelling
  BY ClaimFacts, JobFacts, Zenon DEF Publish, CanPublish, StepInv
<1>2. /\ state[j] = "reserved" /\ source[j] = owner /\ source[j] # j /\ Durable(j)
      /\ state[source[j]] = "published" /\ at[source[j]] = "final" /\ Durable(source[j])
  BY <1>1, Zenon DEF PhaseInv, CopyInv, Cancellable, None, Inv, OwnerInv
<1>3. /\ phase'[j] = "published" /\ \A k \in Jobs \ {j} : phase'[k] = phase[k]
      /\ state'[j] = "published" /\ \A o \in Ops \ {j} : state'[o] = state[o]
  BY <1>0, <1>1, Types, Zenon
<1>4. TypeOK'
  BY <1>0, <1>1, LeaveFacts DEF Inv, TypeOK, Phases
<1>5. Local(j) /\ Active(j)
  BY <1>0, <1>1, <1>3, Zenon DEF Local, Durable, Active, Terminal
<1>6. PhaseInv(j)'
  BY <1>0, <1>1, <1>2, <1>3 DEF PhaseInv, Cancellable, Terminal
<1>7. CopyInv(j)'
  BY <1>0, <1>1, <1>2, <1>3, Zenon DEF CopyInv, Durable
<1>8. ReleasedBytesAreFree' /\ OwnerInv'
  BY <1>0, <1>1, <1>2, <1>3, Zenon DEF Inv, FileInv, ReleasedBytesAreFree, OwnerInv, Durable
<1>9. ASSUME NEW r \in Readers PROVE LeaseInv(r)'
  BY <1>0, <1>1, <1>2, <1>3, Types DEF Inv, ReaderInv, LeaseInv, Durable
<1> QED BY <1>0, <1>3, <1>4, <1>5, <1>6, <1>7, <1>8, <1>9, LeaveFacts, Transaction, Zenon
        DEF ReaderInv, files

\* No reader holds the source when its retirement is authorised.
LEMMA RetiringPreserves ==
  ASSUME Inv, NEW w \in Workers, NEW j \in Jobs, claim[w] = j, Retiring(w)
  PROVE  Inv'
<1>0. /\ phase' = [phase EXCEPT ![j] = "retiring"] /\ Goto(w, "remove") /\ "remove" \in Steps
      /\ UNCHANGED <<source, cancelling, evidence, acked, ledger, files, lease, faults>>
  BY Zenon DEF Retiring, Steps
<1>a. /\ pc[w] = "retiring" /\ j \notin cancelling
      /\ StepInv(w, j) /\ PhaseInv(j) /\ CopyInv(j) /\ j \in Ops
  BY ClaimFacts, JobFacts, Zenon DEF Retiring, CanStartRetiring
<1>1. /\ phase[j] \in {"published", "retiring"} /\ j \notin cancelling
      /\ PhaseInv(j) /\ CopyInv(j) /\ j \in Ops
      /\ \A r \in Readers : lease[r] # source[j]
  BY <1>a, Zenon DEF StepInv
<1>2. /\ phase'[j] = "retiring" /\ \A k \in Jobs \ {j} : phase'[k] = phase[k]
      /\ UNCHANGED <<state, owner, at, bytes, synced, damaged, receipt, contents>>
  BY <1>0, Types, Zenon DEF ledger, files
<1>3. TypeOK'
  BY <1>0, GotoFacts, Zenon DEF Inv, TypeOK, Phases, ledger, files
<1>4. Local(j) /\ Active(j)
  BY <1>0, <1>1, <1>2, Zenon DEF Local, Durable, Active, Terminal
<1>5. PhaseInv(j)' /\ CopyInv(j)'
  BY <1>0, <1>1, <1>2, Zenon DEF PhaseInv, CopyInv, Victim, Cancellable, Terminal
<1>6. ReleasedBytesAreFree' /\ OwnerInv'
  BY <1>2, Zenon DEF Inv, FileInv, ReleasedBytesAreFree, OwnerInv, Durable
<1>7. ASSUME NEW r \in Readers PROVE LeaseInv(r)'
  BY <1>0, <1>1, <1>2, Zenon DEF Inv, ReaderInv, LeaseInv, Durable
<1>8. ActsFor(w, j) /\ EndsUp(w, j)
  <2>1. ActsFor(w, j) /\ pc'[w] = "remove" /\ claim'[w] = j
    BY <1>0, GotoFacts, Zenon
  <2> QED BY <1>0, <1>1, <1>2, <2>1, Zenon DEF EndsUp, StepInv
<1> QED BY <1>0, <1>2, <1>3, <1>4, <1>5, <1>6, <1>7, <1>8, Transaction, Zenon DEF ReaderInv

\* The ledger gives back the bytes of a source whose file is gone.
LEMMA RetiredPreserves ==
  ASSUME Inv, NEW w \in Workers, NEW j \in Jobs, claim[w] = j, Retired(w)
  PROVE  Inv'
<1>0. /\ phase' = [phase EXCEPT ![j] = "complete"]
      /\ state' = [state EXCEPT ![source[j]] = "cancelled"]
      /\ Goto(w, "ack_receipt") /\ "ack_receipt" \in Steps
      /\ UNCHANGED <<source, cancelling, evidence, acked>>
      /\ UNCHANGED <<volume, owner, identified, materialized, revision, files, lease, faults>>
  BY Zenon DEF Retired, Steps
<1>1. /\ phase[j] = "retiring" /\ j \notin cancelling /\ receipt[j] # None
      /\ PhaseInv(j) /\ CopyInv(j) /\ j \in Ops /\ source[j] \in Ops
  BY ClaimFacts, JobFacts DEF Retired, StepInv, None
<1>2. /\ source[j] # j /\ owner = j /\ at[source[j]] = None /\ j \notin acked
  BY <1>1, Zenon DEF PhaseInv, CopyInv, Victim
<1>3. /\ phase'[j] = "complete" /\ \A k \in Jobs \ {j} : phase'[k] = phase[k]
      /\ state'[source[j]] = "cancelled" /\ \A o \in Ops \ {source[j]} : state'[o] = state[o]
      /\ UNCHANGED <<at, bytes, synced, damaged, receipt, contents>>
  BY <1>0, <1>1, Types, Zenon DEF files
<1>4. TypeOK'
  BY <1>0, <1>1, GotoFacts, Zenon DEF Inv, TypeOK, Phases, files
<1>5. Local(j) /\ Active(j)
  BY <1>0, <1>1, <1>3, Zenon DEF Local, Durable, Active, Terminal
<1>6. PhaseInv(j)' /\ CopyInv(j)'
  BY <1>0, <1>1, <1>2, <1>3, Zenon DEF PhaseInv, CopyInv, Victim, Cancellable, Terminal
<1>7. ReleasedBytesAreFree' /\ OwnerInv'
  BY <1>0, <1>1, <1>2, <1>3 DEF Inv, FileInv, ReleasedBytesAreFree, OwnerInv, Durable
<1>8. ASSUME NEW r \in Readers PROVE LeaseInv(r)'
  <2>1. lease[r] # None => lease[r] \in Ops /\ lease[r] # source[j] /\ LeaseInv(r)
    BY <1>1, Types, Zenon DEF Inv, ReaderInv, LeaseInv
  <2> QED BY <1>0, <1>3, <2>1, ZenonT(60) DEF LeaseInv, Durable
<1>9. ActsFor(w, j) /\ EndsUp(w, j)
  <2>1. ActsFor(w, j) /\ pc'[w] = "ack_receipt" /\ claim'[w] = j
    BY <1>0, GotoFacts, Zenon
  <2> QED BY <1>3, <2>1, Zenon DEF EndsUp, StepInv, Terminal
<1> QED BY <1>0, <1>3, <1>4, <1>5, <1>6, <1>7, <1>8, <1>9, Transaction, Zenon DEF ReaderInv

\* The ledger gives back the bytes of a target whose file is gone.
LEMMA CancelledPreserves ==
  ASSUME Inv, NEW w \in Workers, NEW j \in Jobs, claim[w] = j, Cancelled(w)
  PROVE  Inv'
<1>0. /\ phase' = [phase EXCEPT ![j] = "cancelled"]
      /\ state' = [state EXCEPT ![j] = "cancelled"]
      /\ Goto(w, AfterCancelled(j)) /\ AfterCancelled(j) \in Steps
      /\ UNCHANGED <<source, cancelling, evidence, acked>>
      /\ UNCHANGED <<volume, owner, identified, materialized, revision, files, lease, faults>>
  BY Zenon DEF Cancelled, AfterCancelled, Steps
<1>1. /\ phase[j] \in Cancellable /\ j \in cancelling /\ at[j] = None
      /\ PhaseInv(j) /\ CopyInv(j) /\ j \in Ops
  BY ClaimFacts, JobFacts, Zenon DEF Cancelled, StepInv
<1>2. /\ state[j] = "reserved" /\ source[j] # j /\ owner = source[j]
      /\ (evidence[j] = "empty" => receipt[j] = None)
  BY <1>1, Zenon DEF PhaseInv, CopyInv
<1>3. /\ phase'[j] = "cancelled" /\ \A k \in Jobs \ {j} : phase'[k] = phase[k]
      /\ state'[j] = "cancelled" /\ \A o \in Ops \ {j} : state'[o] = state[o]
      /\ UNCHANGED <<at, bytes, synced, damaged, receipt, contents>>
  BY <1>0, <1>1, Types, Zenon DEF files
<1>4. TypeOK'
  BY <1>0, <1>1, GotoFacts, Zenon DEF Inv, TypeOK, Phases, files
<1>5. Local(j) /\ Active(j)
  BY <1>0, <1>1, <1>3, Zenon DEF Local, Durable, Active, Terminal, Cancellable
<1>6. PhaseInv(j)' /\ CopyInv(j)'
  BY <1>0, <1>1, <1>2, <1>3, Zenon DEF PhaseInv, CopyInv, Victim, Cancellable, Terminal
<1>7. ReleasedBytesAreFree' /\ OwnerInv'
  BY <1>0, <1>1, <1>2, <1>3, Types, Zenon DEF Inv, FileInv, ReleasedBytesAreFree, OwnerInv, Durable
<1>8. ASSUME NEW r \in Readers PROVE LeaseInv(r)'
  <2>1. lease[r] # None => lease[r] \in Ops \ {j} /\ LeaseInv(r)
    BY <1>2, Types, Zenon DEF Inv, ReaderInv, LeaseInv
  <2> QED BY <1>0, <1>3, <2>1, Zenon DEF LeaseInv, Durable
<1>9. ActsFor(w, j) /\ EndsUp(w, j)
  <2>1. ActsFor(w, j) /\ pc'[w] = AfterCancelled(j) /\ claim'[w] = j
    BY <1>0, GotoFacts, Zenon
  <2> QED BY <1>2, <1>3, <2>1, Zenon DEF EndsUp, StepInv, Terminal, AfterCancelled
<1> QED BY <1>0, <1>3, <1>4, <1>5, <1>6, <1>7, <1>8, <1>9, Transaction, Zenon DEF ReaderInv

\* cancellation::verify stores what capture_target has found.
LEMMA CancellationVerifiedPreserves ==
  ASSUME Inv, NEW w \in Workers, NEW j \in Jobs, claim[w] = j, CancellationVerified(w)
  PROVE  Inv'
<1>0. /\ evidence' = [evidence EXCEPT ![j] = captured[w]]
      /\ pc' = [pc EXCEPT ![w] = IF captured[w] = "empty" THEN "confirm" ELSE "remove"]
      /\ captured' = [captured EXCEPT ![w] = None] /\ claim' = claim
      /\ UNCHANGED <<phase, source, cancelling, acked, ledger, files, lease, faults>>
  BY Zenon DEF CancellationVerified
<1>1. /\ phase[j] \in Cancellable /\ j \in cancelling /\ captured[w] # None
      /\ PhaseInv(j) /\ CopyInv(j) /\ (evidence[j] # None => evidence[j] = captured[w])
      /\ captured[w] \in Evidence
  BY ClaimFacts, JobFacts, Types, Zenon DEF CancellationVerified, CanRecord, StepInv
<1>2. /\ evidence'[j] = captured[w] /\ \A k \in Jobs \ {j} : evidence'[k] = evidence[k]
      /\ UNCHANGED <<state, owner, at, bytes, synced, damaged, receipt, contents>>
      /\ receipt[j] # None => captured[w] \in {"tmp", "final"}
  BY <1>0, <1>1, Types, Zenon DEF files, ledger, CopyInv, None
<1>3. TypeOK'
  BY <1>0, <1>1, Zenon DEF Inv, TypeOK, Steps, Evidence, ledger, files
<1>4. Local(j) /\ Active(j)
  BY <1>0, <1>1, <1>2, Zenon DEF Local, Durable, Active, Terminal, Cancellable
<1>5. PhaseInv(j)' /\ CopyInv(j)'
  BY <1>0, <1>1, <1>2, Zenon DEF PhaseInv, CopyInv, Durable, Victim
<1>6. ReleasedBytesAreFree' /\ OwnerInv'
  BY <1>2, Zenon DEF Inv, FileInv, ReleasedBytesAreFree, OwnerInv, Durable
<1>7. ASSUME NEW r \in Readers PROVE LeaseInv(r)'
  BY <1>0, <1>2, Zenon DEF Inv, ReaderInv, LeaseInv, Durable
<1>8. ActsFor(w, j) /\ EndsUp(w, j)
  <2>1. /\ ActsFor(w, j) /\ claim'[w] = j
        /\ pc'[w] = IF captured[w] = "empty" THEN "confirm" ELSE "remove"
    BY <1>0, Types, ClaimFacts, Zenon DEF ActsFor
  <2>2. phase' = phase /\ cancelling' = cancelling /\ phase[j] # "absent"
    BY <1>0, <1>1, Zenon DEF Cancellable
  <2>3. CASE captured[w] = "empty"
    <3>1. pc'[w] = "confirm"
      BY <2>1, <2>3, Zenon
    <3> QED BY <1>1, <1>2, <2>1, <2>2, <2>3, <3>1, Zenon DEF EndsUp, StepInv
  <2>4. CASE captured[w] \in {"tmp", "final"}
    <3>1. pc'[w] = "remove"
      BY <2>1, <2>4, Zenon
    <3> QED BY <1>1, <1>2, <2>1, <2>2, <2>4, <3>1, Zenon DEF EndsUp, StepInv
  <2> QED BY <1>1, <2>3, <2>4, Zenon DEF Evidence
<1> QED BY <1>0, <1>1, <1>3, <1>4, <1>5, <1>6, <1>7, <1>8, Transaction, Zenon
        DEF ReaderInv, PhaseInv, Cancellable

\* A removal takes the target of a cancelled move or a retired source, which
\* neither the catalog nor a reader names.
LEMMA RemovePreserves ==
  ASSUME Inv, NEW w \in Workers, NEW j \in Jobs, claim[w] = j, Remove(w)
  PROVE  Inv'
<1>0. /\ at' = [at EXCEPT ![Victim(j)] = None]
      /\ receipt' = [receipt EXCEPT ![j] = "moved"]
      /\ Goto(w, "stage") /\ "stage" \in Steps
      /\ UNCHANGED <<phase, source, cancelling, evidence, acked, ledger>>
      /\ UNCHANGED <<bytes, synced, damaged, contents, lease, faults>>
  BY Zenon DEF Remove, Steps, journal
<1>1. /\ j \in cancelling => phase[j] \in Cancellable /\ evidence[j] \in {"tmp", "final"}
      /\ j \notin cancelling => phase[j] = "retiring"
      /\ PhaseInv(j) /\ CopyInv(j) /\ j \in Ops /\ source[j] \in Ops
  BY ClaimFacts, JobFacts, Zenon DEF Remove, StepInv
<1>2. /\ Active(j) /\ j \notin acked /\ Victim(j) \in Ops \ {owner}
      /\ state[Victim(j)] \in {"reserved", "published"}
  BY <1>1, Zenon DEF Active, Terminal, Cancellable, PhaseInv, Victim
<1>3. \A r \in Readers : lease[r] # Victim(j)
  BY <1>1, <1>2, ConstantsAssumption, Zenon DEF Inv, ReaderInv, LeaseInv, PhaseInv, Victim
<1>4. /\ at'[Victim(j)] = None /\ \A o \in Ops \ {Victim(j)} : at'[o] = at[o]
      /\ receipt'[j] = "moved" /\ \A k \in Jobs \ {j} : receipt'[k] = receipt[k]
      /\ UNCHANGED <<state, owner>>
  BY <1>0, <1>2, Types, Zenon DEF ledger
<1>5. TypeOK'
  BY <1>0, <1>2, GotoFacts, Zenon DEF Inv, TypeOK, ledger
<1>6. Local(j)
  BY <1>0, <1>4, Zenon DEF Local, Durable
<1>7. PhaseInv(j)'
  BY <1>0, <1>1, <1>4, Zenon DEF PhaseInv, Cancellable
<1>8. CopyInv(j)'
  <2>1. CASE j \in cancelling
    BY <1>0, <1>1, <1>2, <1>4, <2>1, Zenon DEF CopyInv, Durable, Victim, Cancellable
  <2>2. CASE j \notin cancelling
    <3>1. phase[j] = "retiring" /\ Victim(j) = source[j]
      BY <1>1, <2>2, Zenon DEF Victim
    <3> QED BY <1>0, <1>2, <1>4, <2>2, <3>1, Zenon DEF CopyInv, Victim
  <2> QED BY <2>1, <2>2, Zenon
<1>9. ReleasedBytesAreFree' /\ OwnerInv'
  BY <1>0, <1>2, <1>4, Types, Zenon DEF Inv, FileInv, ReleasedBytesAreFree, OwnerInv, Durable
<1>10. ASSUME NEW r \in Readers PROVE LeaseInv(r)'
  <2>1. CASE lease[r] = None
    BY <1>0, <2>1, Zenon DEF LeaseInv
  <2>2. CASE lease[r] # None
    <3>1. lease[r] \in Ops \ {Victim(j)} /\ LeaseInv(r)
      BY <1>3, <2>2, Types, Zenon DEF Inv, ReaderInv
    <3>2. at'[lease[r]] = at[lease[r]]
      BY <1>4, <3>1, Zenon
    <3> QED BY <1>0, <1>4, <2>2, <3>1, <3>2, Zenon DEF LeaseInv, Durable
  <2> QED BY <2>1, <2>2, Zenon
<1>11. ActsFor(w, j) /\ EndsUp(w, j)
  <2>1. ActsFor(w, j) /\ pc'[w] = "stage" /\ claim'[w] = j
    BY <1>0, GotoFacts, Zenon
  <2> QED BY <1>0, <1>1, <1>4, <2>1, Zenon DEF EndsUp, StepInv, None, Cancellable
<1>12. JobInv' /\ FileInv' /\ \A k \in Jobs \ {j} : Same(k)
  BY <1>0, <1>2, <1>6, <1>7, <1>8, <1>9, LocalStep, ActiveFacts, Zenon
<1>13. WorkerInv'
  BY <1>0, <1>11, <1>12, WorkersKeep, Zenon
<1> QED BY <1>5, <1>9, <1>10, <1>12, <1>13, Zenon DEF Inv, ReaderInv

\* The staged receipt proves that the victim is gone.
LEMMA StagePreserves ==
  ASSUME Inv, NEW w \in Workers, NEW j \in Jobs, claim[w] = j, Stage(w)
  PROVE  Inv'
<1>0. /\ receipt' = [receipt EXCEPT ![j] = "staged"]
      /\ Goto(w, AfterRemoval(j)) /\ AfterRemoval(j) \in Steps
      /\ UNCHANGED <<phase, source, cancelling, evidence, acked, ledger>>
      /\ UNCHANGED <<at, bytes, synced, damaged, contents, lease, faults>>
  BY Zenon DEF Stage, AfterRemoval, Steps, journal
<1>1. /\ j \in cancelling => phase[j] \in Cancellable /\ evidence[j] \in {"tmp", "final"}
      /\ j \notin cancelling => phase[j] = "retiring"
      /\ receipt[j] # None /\ PhaseInv(j) /\ CopyInv(j)
  BY ClaimFacts, JobFacts, Zenon DEF Stage, StepInv, None
<1>2. Active(j) /\ at[Victim(j)] = None
  BY <1>1, Zenon DEF Active, Terminal, Cancellable, CopyInv
<1>3. /\ receipt'[j] = "staged" /\ \A k \in Jobs \ {j} : receipt'[k] = receipt[k]
      /\ UNCHANGED <<state, owner>>
  BY <1>0, Types, Zenon DEF ledger
<1>4. TypeOK'
  BY <1>0, GotoFacts, Zenon DEF Inv, TypeOK, ledger
<1>5. Local(j)
  BY <1>0, <1>3, Zenon DEF Local, Durable
<1>6. PhaseInv(j)'
  BY <1>0, <1>1, <1>3, Zenon DEF PhaseInv, Cancellable
<1>7. CopyInv(j)'
  BY <1>0, <1>1, <1>3, Zenon DEF CopyInv, Durable, Victim
<1>8. ReleasedBytesAreFree' /\ OwnerInv'
  BY <1>0, <1>3, Zenon DEF Inv, FileInv, ReleasedBytesAreFree, OwnerInv, Durable
<1>9. ASSUME NEW r \in Readers PROVE LeaseInv(r)'
  BY <1>0, <1>3, Zenon DEF Inv, ReaderInv, LeaseInv, Durable
<1>10. ActsFor(w, j) /\ EndsUp(w, j)
  <2>1. ActsFor(w, j) /\ pc'[w] = AfterRemoval(j) /\ claim'[w] = j
    BY <1>0, GotoFacts, Zenon
  <2>2. CASE j \in cancelling
    <3>1. pc'[w] = "cancelled" /\ at'[j] = None
      BY <1>0, <1>2, <2>1, <2>2, Zenon DEF AfterRemoval, Victim
    <3> QED BY <1>0, <1>1, <1>3, <2>1, <2>2, <3>1, Zenon DEF EndsUp, StepInv, Cancellable
  <2>3. CASE j \notin cancelling
    <3>1. pc'[w] = "retired"
      BY <2>1, <2>3, Zenon DEF AfterRemoval
    <3> QED BY <1>0, <1>1, <1>3, <2>1, <2>3, <3>1, Zenon DEF EndsUp, StepInv, None
  <2> QED BY <2>2, <2>3, Zenon
<1>11. JobInv' /\ FileInv' /\ \A k \in Jobs \ {j} : Same(k)
  BY <1>0, <1>2, <1>5, <1>6, <1>7, <1>8, LocalStep, ActiveFacts, Zenon
<1>12. WorkerInv'
  BY <1>0, <1>10, <1>11, WorkersKeep, Zenon
<1> QED BY <1>4, <1>8, <1>9, <1>11, <1>12, Zenon DEF Inv, ReaderInv

\* Steps that clear the receipt of a finished job or mark it acknowledged.
LEMMA ReceiptFrame ==
  ASSUME Inv, NEW w \in Workers, NEW j \in Jobs, phase[j] \in Terminal,
         UNCHANGED <<phase, source, cancelling, evidence, ledger>>,
         UNCHANGED <<at, bytes, synced, damaged, lease>>,
         receipt'[j] = None, TypeOK',
         \A k \in Jobs \ {j} : receipt'[k] = receipt[k] /\ (k \in acked' <=> k \in acked),
         ActsFor(w, j), EndsUp(w, j)
  PROVE  Inv'
<1>1. UNCHANGED <<state, owner>>
  BY Zenon DEF ledger
<1>2. OwnerInv' /\ ReleasedBytesAreFree'
  BY <1>1, Zenon DEF Inv, OwnerInv, FileInv, ReleasedBytesAreFree, Durable
<1>3. ASSUME NEW r \in Readers PROVE LeaseInv(r)'
  BY <1>1, Zenon DEF Inv, ReaderInv, LeaseInv, Durable
<1>4. OneActive'
  BY Zenon DEF Inv, JobInv, OneActive, Active
<1>5. PhaseInv(j)' /\ CopyInv(j)'
  BY <1>1, JobFacts, Zenon DEF PhaseInv, CopyInv, Durable, Terminal
<1>6. ASSUME NEW k \in Jobs \ {j} PROVE PhaseInv(k)' /\ CopyInv(k)' /\ Same(k)
  <2>1. PhaseInv(k) /\ CopyInv(k)
    BY JobFacts, Zenon
  <2>2. PhaseInv(k)'
    BY <1>1, <2>1, Zenon DEF PhaseInv
  <2>3. CopyInv(k)'
    BY <2>1, Zenon DEF CopyInv, Durable, Victim
  <2> QED BY <2>2, <2>3, Zenon DEF Same, Durable
<1>7. JobInv' /\ FileInv'
  BY <1>2, <1>4, <1>5, <1>6, Zenon DEF JobInv, FileInv
<1>8. WorkerInv'
  BY <1>6, WorkersKeep, Zenon
<1> QED BY <1>2, <1>3, <1>7, <1>8, Zenon DEF Inv, ReaderInv

\* acknowledge_retirement clears the receipt of a finished job.
LEMMA AcknowledgeReceiptPreserves ==
  ASSUME Inv, NEW w \in Workers, NEW j \in Jobs, claim[w] = j, AcknowledgeReceipt(w)
  PROVE  Inv'
<1>0. /\ receipt' = [receipt EXCEPT ![j] = None]
      /\ contents' = [contents EXCEPT ![j] = "synced"]
      /\ Goto(w, "acknowledge") /\ "acknowledge" \in Steps
      /\ UNCHANGED <<phase, source, cancelling, evidence, acked, ledger>>
      /\ UNCHANGED <<at, bytes, synced, damaged, lease, faults>>
  BY Zenon DEF AcknowledgeReceipt, Steps, journal
<1>1. phase[j] \in Terminal /\ phase[j] # "absent"
  BY ClaimFacts, Zenon DEF AcknowledgeReceipt, StepInv
<1>2. receipt'[j] = None /\ \A k \in Jobs \ {j} : receipt'[k] = receipt[k]
  BY <1>0, Types, Zenon
<1>3. TypeOK'
  BY <1>0, GotoFacts, Zenon DEF Inv, TypeOK, Contents, ledger
<1>4. ActsFor(w, j) /\ EndsUp(w, j)
  <2>1. ActsFor(w, j) /\ pc'[w] = "acknowledge" /\ claim'[w] = j
    BY <1>0, GotoFacts, Zenon
  <2> QED BY <1>0, <1>1, <1>2, <2>1, Zenon DEF EndsUp, StepInv
<1> QED BY <1>0, <1>1, <1>2, <1>3, <1>4, ReceiptFrame, Zenon

\* moves::acknowledge marks a finished job without a receipt.
LEMMA AcknowledgePreserves ==
  ASSUME Inv, NEW w \in Workers, NEW j \in Jobs, claim[w] = j, Acknowledge(w)
  PROVE  Inv'
<1>0. /\ acked' = acked \union {j} /\ Leave(w)
      /\ UNCHANGED <<phase, source, cancelling, evidence, ledger, files, lease, faults>>
  BY Zenon DEF Acknowledge
<1>1. phase[j] \in Terminal /\ receipt[j] = None
  BY ClaimFacts, ZenonT(60) DEF Acknowledge, StepInv
<1>2. TypeOK'
  BY <1>0, LeaveFacts, Zenon DEF Inv, TypeOK, ledger, files
<1>3. UNCHANGED <<at, bytes, synced, damaged, receipt, contents>>
  BY <1>0, Zenon DEF files
<1> QED BY <1>0, <1>1, <1>2, <1>3, LeaveFacts, ReceiptFrame, Zenon

-----------------------------------------------------------------------------
(* Requests, faults and power failures. *)

\* Workers stay where they are while a request leaves the jobs they hold alone.
LEMMA WorkersStay ==
  ASSUME Inv, UNCHANGED <<worker, lease>>, \A k \in Jobs : phase[k] # "absent" => Same(k)
  PROVE  WorkerInv'
<1>1. UNCHANGED <<pc, claim, captured>>
  BY Zenon DEF worker
<1>2. ClaimInv'
  BY <1>1, Zenon DEF Inv, WorkerInv, ClaimInv
<1>3. ASSUME NEW w \in Workers, claim[w] # None PROVE StepInv(w, claim[w])'
  <2>1. PICK k \in Jobs : claim[w] = k /\ StepInv(w, k)
    BY <1>3, Types, Zenon DEF Inv, WorkerInv
  <2>2. Same(k)
    BY <2>1, Zenon DEF StepInv
  <2>3. StepInv(w, k)'
    BY <1>1, <2>1, <2>2, StepInvSame, Zenon
  <2> QED BY <1>1, <2>1, <2>3, Zenon
<1> QED BY <1>1, <1>2, <1>3, Zenon DEF WorkerInv

\* A new job starts from the one authoritative location.
LEMMA BeginPreserves ==
  ASSUME Inv, NEW j \in Jobs, NEW v \in Volumes, Begin(j, v)
  PROVE  Inv'
<1>0. /\ phase[j] = "absent" /\ \A k \in Jobs : ~Active(k)
      /\ phase' = [phase EXCEPT ![j] = "reserved"]
      /\ state' = [state EXCEPT ![j] = "reserved"]
      /\ volume' = [volume EXCEPT ![j] = v]
      /\ UNCHANGED <<cancelling, evidence, acked, owner, identified, materialized, revision>>
      /\ UNCHANGED <<files, worker, lease, faults>>
  BY Zenon DEF Begin, Active
<1>1. source' = [source EXCEPT ![j] = owner]
  BY LookupIsOwner, Zenon DEF Begin
<1>2. /\ PhaseInv(j) /\ CopyInv(j) /\ j \in Ops /\ owner \in Ops
      /\ UNCHANGED <<at, bytes, synced, damaged, receipt, contents>>
  BY <1>0, JobFacts, Types, Zenon DEF files
<1>3. /\ state[j] = "absent" /\ receipt[j] = None /\ j \notin cancelling /\ owner # j
      /\ \A k \in Jobs : phase[k] # "absent" => source[k] # j
  BY <1>0, <1>2, Zenon DEF PhaseInv
<1>4. /\ phase'[j] = "reserved" /\ \A k \in Jobs \ {j} : phase'[k] = phase[k]
      /\ source'[j] = owner /\ \A k \in Jobs \ {j} : source'[k] = source[k]
      /\ state'[j] = "reserved" /\ \A o \in Ops \ {j} : state'[o] = state[o]
  BY <1>0, <1>1, <1>2, Types, Zenon
<1>5. TypeOK'
  BY <1>0, <1>1, <1>2, Zenon DEF Inv, TypeOK, Phases, worker, files
<1>6. OwnerInv' /\ ReleasedBytesAreFree'
  BY <1>0, <1>2, <1>3, <1>4, Zenon DEF Inv, OwnerInv, FileInv, ReleasedBytesAreFree, Durable
<1>7. OneActive'
  BY <1>0, <1>4, ZenonT(60) DEF OneActive, Active
<1>8. PhaseInv(j)' /\ CopyInv(j)'
  <2>1. j \notin acked
    BY <1>0, <1>2, Zenon DEF PhaseInv, Terminal
  <2> QED BY <1>0, <1>2, <1>3, <1>4, <2>1, Zenon DEF PhaseInv, CopyInv, Cancellable
<1>9. ASSUME NEW k \in Jobs \ {j} PROVE PhaseInv(k)' /\ CopyInv(k)'
  <2>1. PhaseInv(k) /\ CopyInv(k) /\ k \in Ops /\ source[k] \in Ops
    BY JobFacts, Zenon
  <2>2. phase[k] = "absent" => \A i \in Jobs : phase'[i] # "absent" => source'[i] # k
    BY <1>4, <2>1, Zenon DEF PhaseInv
  <2>3. phase[k] # "absent" => state'[source[k]] = state[source[k]]
    BY <1>3, <1>4, <2>1, Zenon
  <2>4. PhaseInv(k)'
    BY <1>0, <1>2, <1>4, <2>1, <2>2, <2>3, Zenon DEF PhaseInv, Cancellable, Terminal
  <2>5. CopyInv(k)'
    BY <1>0, <1>2, <1>4, <2>1, Zenon DEF CopyInv, Durable, Victim
  <2> QED BY <2>4, <2>5, Zenon
<1>10. ASSUME NEW r \in Readers PROVE LeaseInv(r)'
  <2>1. lease[r] # None => lease[r] \in Ops \ {j} /\ LeaseInv(r)
    BY <1>3, Types, Zenon DEF Inv, ReaderInv, LeaseInv
  <2> QED BY <1>0, <1>2, <1>4, <2>1, Zenon DEF LeaseInv, Durable
<1>11. \A k \in Jobs : phase[k] # "absent" => Same(k)
  BY <1>0, <1>2, <1>4, Zenon DEF Same, Durable
<1>12. WorkerInv'
  BY <1>0, <1>11, WorkersStay, Zenon
<1>13. JobInv' /\ FileInv'
  BY <1>6, <1>7, <1>8, <1>9, Zenon DEF JobInv, FileInv
<1> QED BY <1>5, <1>6, <1>10, <1>12, <1>13, Zenon DEF Inv, ReaderInv

\* A cancellation is latched before authority has passed; no removal for the
\* job can have started.
LEMMA CancelPreserves ==
  ASSUME Inv, NEW j \in Jobs, Cancel(j)
  PROVE  Inv'
<1>0. /\ phase[j] \in Cancellable /\ cancelling' = cancelling \union {j}
      /\ UNCHANGED <<phase, source, evidence, acked, ledger, files, worker, lease, faults>>
  BY Zenon DEF Cancel
<1>1. UNCHANGED <<state, owner, at, bytes, synced, damaged, receipt, contents, pc, claim, captured>>
  BY <1>0, Zenon DEF ledger, files, worker
<1>2. TypeOK'
  BY <1>0, Zenon DEF Inv, TypeOK, ledger, files, worker
<1>3. OwnerInv' /\ ReleasedBytesAreFree' /\ OneActive'
  BY <1>0, <1>1, Zenon DEF Inv, OwnerInv, FileInv, ReleasedBytesAreFree, Durable,
                    JobInv, OneActive, Active
<1>4. ASSUME NEW k \in Jobs PROVE PhaseInv(k)' /\ CopyInv(k)'
  <2>1. PhaseInv(k) /\ CopyInv(k) /\ (k \notin cancelling /\ k \in cancelling' => k = j)
    BY <1>0, JobFacts, Zenon
  <2>2. PhaseInv(k)'
    BY <1>0, <1>1, <2>1, Zenon DEF PhaseInv, Cancellable
  <2>3. CopyInv(k)'
    BY <1>0, <1>1, <2>1, Zenon DEF CopyInv, Durable, Victim, Cancellable
  <2> QED BY <2>2, <2>3, Zenon
<1>5. ASSUME NEW r \in Readers PROVE LeaseInv(r)'
  BY <1>0, <1>1, Zenon DEF Inv, ReaderInv, LeaseInv, Durable
<1>6. ASSUME NEW w \in Workers, claim[w] # None PROVE StepInv(w, claim[w])'
  <2>1. PICK k \in Jobs : claim[w] = k /\ StepInv(w, k)
    BY <1>6, Types, Zenon DEF Inv, WorkerInv
  <2>2. StepInv(w, k)'
    <3>1. CASE k # j \/ j \in cancelling
      <4>1. k \in cancelling' <=> k \in cancelling
        BY <1>0, <3>1, Zenon
      <4> QED BY <1>0, <1>1, <2>1, <4>1, ZenonT(40) DEF StepInv, Durable
    <3>2. CASE k = j /\ j \notin cancelling
      <4>1. pc[w] \notin {"remove", "stage", "retired"}
        BY <1>0, <2>1, <3>2, Zenon DEF StepInv, Cancellable
      <4>2. j \in cancelling' /\ phase' = phase /\ phase[j] \in Cancellable
        BY <1>0, Zenon
      <4> QED BY <1>0, <1>1, <2>1, <3>2, <4>1, <4>2, Zenon DEF StepInv, Durable
    <3> QED BY <3>1, <3>2, Zenon
  <2> QED BY <1>1, <2>1, <2>2, Zenon
<1>7. WorkerInv'
  <2>1. ClaimInv'
    BY <1>1, Zenon DEF Inv, WorkerInv, ClaimInv
  <2> QED BY <1>1, <1>6, <2>1, Zenon DEF WorkerInv
<1> QED BY <1>2, <1>3, <1>4, <1>5, <1>7, Zenon DEF Inv, JobInv, FileInv, ReaderInv

\* A lease names the owner, which no job is retiring; a job past its reader
\* check retires another allocation.
LEMMA LeasePreserves ==
  ASSUME Inv, NEW r \in Readers, Lease(r) \/ Release(r)
  PROVE  Inv'
<1>0. UNCHANGED <<journal, ledger, files, worker, faults>>
  BY Zenon DEF Lease, Release
<1>1. /\ UNCHANGED <<phase, source, cancelling, evidence, acked, state, owner>>
      /\ UNCHANGED <<at, bytes, synced, damaged, receipt, contents, pc, claim, captured>>
  BY <1>0, Zenon DEF journal, ledger, files, worker
<1>2. PICK o \in {owner, None} : lease' = [lease EXCEPT ![r] = o]
  BY LookupIsOwner, Zenon DEF Lease, Release
<1>3. lease'[r] = o /\ \A q \in Readers \ {r} : lease'[q] = lease[q]
  BY <1>2, Types, Zenon
<1>4. TypeOK'
  BY <1>0, <1>2, Zenon DEF Inv, TypeOK, journal, ledger, files, worker
<1>5. \A j \in Jobs : phase[j] \in SourceSuperseded => source[j] # owner /\ source[j] # None
  <2>1. \A j \in Jobs : phase[j] \in SourceSuperseded => source[j] # owner
    BY LookupIsOwner, Zenon DEF Lookup
  <2> QED BY <2>1, JobFacts, ConstantsAssumption, Zenon
<1>6. ASSUME NEW q \in Readers PROVE LeaseInv(q)'
  <2>1. CASE q = r
    BY <1>1, <1>3, <1>5, <2>1, Zenon DEF LeaseInv, Durable, Inv, OwnerInv, SourceSuperseded
  <2>2. CASE q # r
    BY <1>1, <1>3, <2>2, ZenonT(60) DEF LeaseInv, Durable, Inv, ReaderInv
  <2> QED BY <2>1, <2>2, Zenon
<1>7. OwnerInv' /\ JobInv' /\ FileInv'
  BY <1>1 DEF Inv, OwnerInv, JobInv, OneActive, Active, PhaseInv,
              FileInv, ReleasedBytesAreFree, CopyInv, Durable, Victim
<1>8. ASSUME NEW w \in Workers, claim[w] # None PROVE StepInv(w, claim[w])'
  <2>1. PICK k \in Jobs : claim[w] = k /\ StepInv(w, k)
    BY <1>8, Types, Zenon DEF Inv, WorkerInv
  <2>2. pc[w] \in {"pin", "retiring"} => \A q \in Readers : lease'[q] # source[k]
    BY <1>3, <1>5, <2>1, Zenon DEF StepInv, SourceSuperseded
  <2>3. StepInv(w, k)'
    BY <1>1, <2>1, <2>2, ZenonT(40) DEF StepInv, Durable
  <2> QED BY <1>1, <2>1, <2>3, Zenon
<1>9. WorkerInv'
  <2>1. ClaimInv'
    BY <1>1, Zenon DEF Inv, WorkerInv, ClaimInv
  <2> QED BY <1>1, <1>8, <2>1, Zenon DEF WorkerInv
<1> QED BY <1>4, <1>6, <1>7, <1>9, Zenon DEF Inv, ReaderInv

\* A power failure leaves durable files alone, and nobody survives it.
LEMMA PowerFailurePreserves ==
  ASSUME Inv, PowerFailure
  PROVE  Inv'
<1>0. /\ faults' = faults + 1 /\ faults < MaxFaults
      /\ pc' = [w \in Workers |-> "idle"] /\ claim' = [w \in Workers |-> None]
      /\ captured' = [w \in Workers |-> None] /\ lease' = [r \in Readers |-> None]
      /\ bytes' \in [Ops -> 0..Size]
      /\ \A o \in Ops : IF at[o] = None THEN bytes'[o] = bytes[o]
                                        ELSE bytes'[o] \in synced[o]..bytes[o]
      /\ UNCHANGED <<journal, ledger, at, synced, receipt>>
  BY Zenon DEF PowerFailure
<1>1. PICK lost \in SUBSET {o \in Ops : at[o] # None /\ bytes'[o] > synced[o]} :
        damaged' = damaged \union lost
  BY Zenon DEF PowerFailure
<1>2. UNCHANGED <<phase, source, cancelling, evidence, acked, state, owner>>
  BY <1>0, Zenon DEF journal, ledger
<1>3. ASSUME NEW o \in Ops, Durable(o) PROVE Durable(o)'
  <2>1. bytes[o] = Size /\ synced[o] = Size /\ o \notin damaged /\ Size \in Nat
    BY <1>3, ConstantsAssumption, Zenon DEF Durable
  <2>2. bytes'[o] = Size
    BY <1>0, <2>1
  <2> QED BY <1>0, <1>1, <2>1, <2>2 DEF Durable
<1>4. TypeOK'
  <2>1. faults' \in 0..MaxFaults
    BY <1>0, ConstantsAssumption DEF Inv, TypeOK
  <2>2. contents' \in [Jobs -> Contents]
    <3>1. PICK torn \in SUBSET AtRisk :
            contents' = [j \in Jobs |-> IF j \in torn THEN "torn"
                                       ELSE IF contents[j] = "written" THEN "synced" ELSE contents[j]]
      BY Zenon DEF PowerFailure
    <3> QED BY <3>1, Zenon DEF Inv, TypeOK, Contents
  <2> QED BY <1>0, <1>1, <2>1, <2>2, Zenon DEF Inv, TypeOK, journal, ledger, Steps, Evidence
<1>5. OwnerInv' /\ ReleasedBytesAreFree' /\ OneActive'
  BY <1>0, <1>2, <1>3, Types, Zenon DEF Inv, OwnerInv, FileInv, ReleasedBytesAreFree,
                                 JobInv, OneActive, Active
<1>6. ASSUME NEW j \in Jobs PROVE PhaseInv(j)' /\ CopyInv(j)'
  <2>1. PhaseInv(j) /\ CopyInv(j) /\ j \in Ops /\ source[j] \in Ops
    BY JobFacts, Zenon
  <2>2. PhaseInv(j)'
    BY <1>0, <1>2, <2>1, Zenon DEF PhaseInv
  <2>3. CopyInv(j)'
    BY <1>0, <1>2, <1>3, <2>1, Zenon DEF CopyInv, Victim
  <2> QED BY <2>2, <2>3, Zenon
<1>7. ReaderInv'
  BY <1>0, Zenon DEF ReaderInv, LeaseInv
<1>8. WorkerInv'
  BY <1>0, Zenon DEF WorkerInv, ClaimInv
<1> QED BY <1>4, <1>5, <1>6, <1>7, <1>8, Zenon DEF Inv, JobInv, FileInv

-----------------------------------------------------------------------------
(* The inductive invariant. *)

\* Only a worker that has claimed a job takes a step.
LEMMA StepsAreBusy ==
  ASSUME NEW w \in Workers, WorkerStep(w) \/ Fault(w) \/ Tear(w)
  PROVE  pc[w] # "idle"
<1>1. CASE Refuse(w)
  BY <1>1, Zenon DEF Refuse, Permitted
<1>2. CASE \/ OpenTemporary(w) \/ Checkpoint(w) \/ CheckpointRefused(w) \/ CopyBlock(w)
           \/ HashCopy(w) \/ Verify(w) \/ Rename(w) \/ Inspect(w) \/ FilePublished(w)
           \/ Publish(w)
  BY <1>2, Zenon DEF OpenTemporary, Checkpoint, CheckpointRefused, CopyBlock, HashCopy, Verify,
              Rename, Inspect, FilePublished, Publish
<1>3. CASE \/ Ready(w) \/ PinDestination(w) \/ Retiring(w) \/ Remove(w) \/ RemoveAgain(w)
           \/ Stage(w) \/ Retired(w) \/ AcknowledgeReceipt(w) \/ Acknowledge(w)
  BY <1>3, Zenon DEF Ready, PinDestination, Retiring, Remove, RemoveAgain, Stage, Retired,
              AcknowledgeReceipt, Acknowledge
<1>4. CASE \/ PinSource(w) \/ Capture(w) \/ CancellationVerified(w) \/ ConfirmAbsent(w)
           \/ Cancelled(w) \/ Fault(w) \/ Tear(w)
  BY <1>4, Zenon DEF PinSource, Capture, CancellationVerified, ConfirmAbsent, Cancelled, Fault,
              Tear, WritesReceipt
<1> QED BY <1>1, <1>2, <1>3, <1>4, Zenon DEF WorkerStep

\* Every step of a worker preserves the invariant.
LEMMA WorkerStepPreserves ==
  ASSUME Inv, NEW w \in Workers, WorkerStep(w) \/ Fault(w) \/ Tear(w)
  PROVE  Inv'
<1>0. PICK j \in Jobs : claim[w] = j
  BY StepsAreBusy, BusyClaims, Zenon
<1>1. CASE OpenTemporary(w)        BY <1>0, <1>1, OpenPreserves, Zenon
<1>2. CASE Checkpoint(w)           BY <1>0, <1>2, CheckpointPreserves, Zenon
<1>3. CASE CheckpointRefused(w)    BY <1>0, <1>3, CheckpointRefusedPreserves, Zenon
<1>4. CASE CopyBlock(w)            BY <1>0, <1>4, CopyBlockPreserves, Zenon
<1>5. CASE HashCopy(w)             BY <1>0, <1>5, HashCopyPreserves, Zenon
<1>6. CASE Verify(w)               BY <1>0, <1>6, VerifyPreserves, Zenon
<1>7. CASE Rename(w)               BY <1>0, <1>7, RenamePreserves, Zenon
<1>8. CASE Inspect(w)              BY <1>0, <1>8, InspectPreserves, Zenon
<1>9. CASE FilePublished(w)        BY <1>0, <1>9, FilePublishedPreserves, Zenon
<1>10. CASE Publish(w)             BY <1>0, <1>10, PublishPreserves, Zenon
<1>11. CASE Ready(w)               BY <1>0, <1>11, ReadyPreserves, Zenon
<1>12. CASE PinDestination(w)      BY <1>0, <1>12, PinDestinationPreserves, Zenon
<1>13. CASE Retiring(w)            BY <1>0, <1>13, RetiringPreserves, Zenon
<1>14. CASE Remove(w)              BY <1>0, <1>14, RemovePreserves, Zenon
<1>15. CASE RemoveAgain(w)         BY <1>0, <1>15, RemoveAgainPreserves, Zenon
<1>16. CASE Stage(w)               BY <1>0, <1>16, StagePreserves, Zenon
<1>17. CASE Retired(w)             BY <1>0, <1>17, RetiredPreserves, Zenon
<1>18. CASE AcknowledgeReceipt(w)  BY <1>0, <1>18, AcknowledgeReceiptPreserves, Zenon
<1>19. CASE Acknowledge(w)         BY <1>0, <1>19, AcknowledgePreserves, Zenon
<1>20. CASE PinSource(w)           BY <1>0, <1>20, PinSourcePreserves, Zenon
<1>21. CASE Capture(w)             BY <1>0, <1>21, CapturePreserves, Zenon
<1>22. CASE CancellationVerified(w) BY <1>0, <1>22, CancellationVerifiedPreserves, Zenon
<1>23. CASE ConfirmAbsent(w)       BY <1>0, <1>23, ConfirmAbsentPreserves, Zenon
<1>24. CASE Cancelled(w)           BY <1>0, <1>24, CancelledPreserves, Zenon
<1>25. CASE Refuse(w)
  <2>1. Leave(w) /\ UNCHANGED <<journal, ledger, files, lease, faults>>
    BY <1>25, Zenon DEF Refuse
  <2>2. faults' \in 0..MaxFaults /\ contents' \in [Jobs -> Contents] /\ UNCHANGED stored
    BY <2>1, Zenon DEF Inv, TypeOK, files, stored
  <2> QED BY <1>0, <2>1, <2>2, LeavePreserves, Zenon
<1>26. CASE Fault(w)
  <2>1. Leave(w) /\ faults' \in 0..MaxFaults /\ UNCHANGED <<journal, ledger, files, lease>>
    BY <1>26, ConstantsAssumption DEF Fault, Inv, TypeOK
  <2>2. contents' \in [Jobs -> Contents] /\ UNCHANGED stored
    BY <2>1, Zenon DEF Inv, TypeOK, files, stored
  <2> QED BY <1>0, <2>1, <2>2, LeavePreserves, Zenon
<1>27. CASE Tear(w)
  <2>1. Leave(w) /\ faults' \in 0..MaxFaults
    BY <1>27, ConstantsAssumption DEF Tear, Inv, TypeOK
  <2>2. contents' \in [Jobs -> Contents] /\ UNCHANGED <<journal, ledger, stored, lease>>
    BY <1>0, <1>27, Zenon DEF Tear, Inv, TypeOK, Contents, stored
  <2> QED BY <1>0, <2>1, <2>2, LeavePreserves, Zenon
<1> QED
  BY <1>1, <1>2, <1>3, <1>4, <1>5, <1>6, <1>7, <1>8, <1>9, <1>10, <1>11, <1>12, <1>13,
     <1>14, <1>15, <1>16, <1>17, <1>18, <1>19, <1>20, <1>21, <1>22, <1>23, <1>24, <1>25,
     <1>26, <1>27, ZenonT(60) DEF WorkerStep

\* The invariant holds of the recorded, sealed and published object.
LEMMA InitInv == Init => Inv
<1> SUFFICES ASSUME Init PROVE Inv
  OBVIOUS
<1>1. TypeOK
  BY ConstantsAssumption DEF Init, TypeOK, Ops, Phases, Evidence, Contents, Steps
<1>2. OwnerInv
  BY ConstantsAssumption, Zenon DEF Init, OwnerInv, Durable, Ops
<1>3. JobInv
  BY ConstantsAssumption, Zenon DEF Init, JobInv, OneActive, Active, PhaseInv, Ops, Cancellable
<1>4. FileInv
  BY ConstantsAssumption, Zenon DEF Init, FileInv, ReleasedBytesAreFree, CopyInv, Ops
<1>5. ReaderInv
  BY Zenon DEF Init, ReaderInv, LeaseInv
<1>6. WorkerInv
  BY Zenon DEF Init, WorkerInv, ClaimInv
<1> QED BY <1>1, <1>2, <1>3, <1>4, <1>5, <1>6, Zenon DEF Inv

\* Every step of the system preserves the invariant.
LEMMA NextInv == Inv /\ [Next]_vars => Inv'
<1> SUFFICES ASSUME Inv, [Next]_vars PROVE Inv'
  OBVIOUS
<1>1. CASE UNCHANGED vars
  <2>1. TypeOK'
    BY <1>1, Zenon DEF Inv, TypeOK, vars, journal, ledger, files, worker
  <2>2. UNCHANGED <<journal, ledger, files, worker, lease>>
    BY <1>1, Zenon DEF vars
  <2>3. WorkerInv'
    BY <2>2, WorkersStay, Zenon DEF Same, Durable, journal, files
  <2> QED BY <2>1, <2>2, <2>3, Frame, Zenon DEF Inv, files, stored
<1>2. ASSUME NEW j \in Jobs, Cancel(j) PROVE Inv'
  BY <1>2, CancelPreserves, Zenon
<1>3. ASSUME NEW j \in Jobs, NEW v \in Volumes, Begin(j, v) PROVE Inv'
  BY <1>3, BeginPreserves, Zenon
<1>4. ASSUME NEW r \in Readers, Lease(r) \/ Release(r) PROVE Inv'
  BY <1>4, LeasePreserves, Zenon
<1>5. ASSUME NEW w \in Workers, WorkerStep(w) \/ Fault(w) \/ Tear(w) PROVE Inv'
  BY <1>5, WorkerStepPreserves, Zenon
<1>6. ASSUME NEW w \in Workers, NEW j \in Jobs, Dispatch(w, j) PROVE Inv'
  BY <1>6, ResumePreserves, RetirePreserves, FinishCancelledPreserves, Zenon DEF Dispatch
<1>7. CASE PowerFailure
  BY <1>7, PowerFailurePreserves, Zenon
<1> QED BY <1>1, <1>2, <1>3, <1>4, <1>5, <1>6, <1>7, Zenon DEF Next

\* The inductive invariant holds in every reachable state, for any number of
\* jobs, volumes, workers and readers and any number of faults.
THEOREM Invariance == Spec => []Inv
BY InitInv, NextInv, PTL DEF Spec

-----------------------------------------------------------------------------
(* The properties. *)

\* Type correctness of the journal, the ledger, the files and the workers.
THEOREM TypeCorrect == Spec => []TypeOK
<1>1. Inv => TypeOK
  BY Zenon DEF Inv
<1> QED BY <1>1, Invariance, PTL

\* The catalog always names exactly one location, and the file there is the
\* complete object: moves::publish hands authority over only to such a file,
\* and retirement and power failures never take it away.
THEOREM AuthorityIsComplete == Spec => []AuthoritativeCopy
<1>1. Inv => AuthoritativeCopy
  BY LookupIsOwner, Zenon DEF AuthoritativeCopy, Published, Complete, Inv, OwnerInv, Durable
<1> QED BY <1>1, Invariance, PTL

\* A leased file is never removed, although retire_move consults the readers
\* three steps before it unlinks.
THEOREM LeasesHold == Spec => []ReadersKeepTheirFile
<1>1. Inv => ReadersKeepTheirFile
  BY Zenon DEF ReadersKeepTheirFile, Published, Complete, Inv, ReaderInv, LeaseInv, Durable
<1> QED BY <1>1, Invariance, PTL

\* The old copy outlives the verification and publication of the new one.
THEOREM SourceOutlivesMove == Spec => []SourceRetained
<1>1. ASSUME Inv, NEW j \in Jobs, phase[j] \in Cancellable \union {"published"}
      PROVE  Published(source[j]) /\ state[source[j]] = "published"
  <2>1. PhaseInv(j) /\ CopyInv(j) /\ OwnerInv
    BY <1>1, JobFacts, Zenon DEF Inv
  <2> QED BY <1>1, <2>1, Zenon DEF PhaseInv, CopyInv, OwnerInv, Published, Complete, Durable
<1>2. Inv => SourceRetained
  BY <1>1, Zenon DEF SourceRetained
<1> QED BY <1>2, Invariance, PTL

\* moves::retire and cancellation::complete give back bytes only after the file
\* is gone.
THEOREM ReleaseFollowsRemoval == Spec => []ReleasedBytesAreFree
<1>1. Inv => ReleasedBytesAreFree
  BY Zenon DEF Inv, FileInv
<1> QED BY <1>1, Invariance, PTL

\* moves::acknowledge runs only after the receipt has been cleared.
THEOREM AcknowledgementIsLast == Spec => []AcknowledgedLeavesNoReceipt
<1>1. Inv => AcknowledgedLeavesNoReceipt
  BY Zenon DEF AcknowledgedLeavesNoReceipt, Inv, TypeOK, FileInv, CopyInv
<1> QED BY <1>1, Invariance, PTL

\* No step takes a cancellation back.
LEMMA CancelGrows ==
  ASSUME [Next]_vars
  PROVE  cancelling \subseteq cancelling'
<1>1. ASSUME NEW w \in Workers, WorkerStep(w) \/ Fault(w) \/ Tear(w) PROVE cancelling' = cancelling
  <2>1. CASE \/ OpenTemporary(w) \/ Checkpoint(w) \/ CheckpointRefused(w) \/ CopyBlock(w)
             \/ HashCopy(w) \/ Verify(w) \/ Rename(w) \/ Inspect(w) \/ FilePublished(w)
             \/ Publish(w)
    BY <2>1, Zenon DEF OpenTemporary, Checkpoint, CheckpointRefused, CopyBlock, HashCopy,
                Verify, Rename, Inspect, FilePublished, Publish, journal
  <2>2. CASE \/ Ready(w) \/ PinDestination(w) \/ Retiring(w) \/ Remove(w) \/ RemoveAgain(w)
             \/ Stage(w) \/ Retired(w) \/ AcknowledgeReceipt(w) \/ Acknowledge(w)
    BY <2>2, Zenon DEF Ready, PinDestination, Retiring, Remove, RemoveAgain, Stage, Retired,
                AcknowledgeReceipt, Acknowledge, journal
  <2>3. CASE \/ PinSource(w) \/ Capture(w) \/ CancellationVerified(w) \/ ConfirmAbsent(w)
             \/ Cancelled(w) \/ Refuse(w) \/ Fault(w) \/ Tear(w)
    BY <2>3, Zenon DEF PinSource, Capture, CancellationVerified, ConfirmAbsent, Cancelled, Refuse,
                Fault, Tear, journal
  <2> QED BY <1>1, <2>1, <2>2, <2>3, Zenon DEF WorkerStep
<1>2. ASSUME NEW w \in Workers, NEW j \in Jobs, Dispatch(w, j) PROVE cancelling' = cancelling
  BY <1>2, Zenon DEF Dispatch, Resume, Retire, FinishCancelled, ClaimMove, journal
<1>3. ASSUME NEW j \in Jobs, NEW v \in Volumes, Begin(j, v) PROVE cancelling' = cancelling
  BY <1>3, Zenon DEF Begin
<1>4. ASSUME NEW j \in Jobs, Cancel(j) PROVE cancelling \subseteq cancelling'
  BY <1>4, Zenon DEF Cancel
<1>5. ASSUME NEW r \in Readers, Lease(r) \/ Release(r) PROVE cancelling' = cancelling
  BY <1>5, Zenon DEF Lease, Release, journal
<1>6. PowerFailure \/ UNCHANGED vars => cancelling' = cancelling
  BY Zenon DEF PowerFailure, vars, journal
<1> QED BY <1>1, <1>2, <1>3, <1>4, <1>5, <1>6, Zenon DEF Next

\* After a cancellation has been latched no step publishes the move, whichever
\* worker is how far.
THEOREM CancellationWins == Spec => CancelledNeverPublishes
<1>1. ASSUME Inv, Inv', [Next]_vars
      PROVE  \A j \in cancelling : phase'[j] \notin SourceSuperseded
  <2>1. cancelling \subseteq cancelling'
    BY <1>1, CancelGrows, Zenon
  <2>2. \A j \in cancelling : PhaseInv(j)'
    BY <1>1, <2>1, Zenon DEF Inv, TypeOK, JobInv
  <2> QED BY <2>1, <2>2, Zenon DEF PhaseInv, Cancellable, SourceSuperseded
<1>2. Inv /\ Inv' /\ [Next]_vars => [\A j \in cancelling : phase'[j] \notin SourceSuperseded]_vars
  BY <1>1, Zenon
<1> QED BY <1>2, Invariance, PTL DEF Spec, CancelledNeverPublishes

-----------------------------------------------------------------------------
(* The order of removals. *)

\* Steps that end no job, record no evidence for a finished one and leave the
\* receipts alone.
LEMMA OrderUntouched ==
  ASSUME receipt' = receipt,
         \A k \in Jobs : \/ phase'[k] = phase[k] /\ evidence'[k] = evidence[k]
                         \/ phase[k] \notin Terminal /\ phase'[k] \notin Terminal
  PROVE  UNCHANGED Removal!vars
<1>1. \A k \in Jobs : k \in WrittenOff' <=> k \in WrittenOff
  BY Zenon DEF WrittenOff, Terminal
<1>2. WrittenOff' = WrittenOff
  BY <1>1, Zenon DEF WrittenOff
<1>3. Unremoved' = Unremoved
  BY <1>2, Zenon DEF Unremoved
<1> QED BY <1>2, <1>3, Zenon DEF Removal!vars

\* moves::retire and cancellation::complete write off the victim of a job
\* whose receipt is staged.
LEMMA WritesOff ==
  ASSUME NEW j \in Jobs, phase[j] \notin Terminal, receipt[j] = "staged",
         phase'[j] = "complete" \/ (phase'[j] = "cancelled" /\ evidence[j] # "empty"),
         \A k \in Jobs \ {j} : phase'[k] = phase[k],
         UNCHANGED <<evidence, receipt>>
  PROVE  Removal!Complete(j)
<1>1. j \notin WrittenOff /\ j \in WrittenOff'
  BY Zenon DEF WrittenOff, Terminal
<1>2. \A k \in Jobs \ {j} : k \in WrittenOff' <=> k \in WrittenOff
  BY Zenon DEF WrittenOff
<1>3. WrittenOff' = WrittenOff \union {j}
  <2>1. WrittenOff \subseteq Jobs /\ WrittenOff' \subseteq Jobs
    BY Zenon DEF WrittenOff
  <2> QED BY <1>1, <1>2, <2>1, Zenon
<1>4. Unremoved' = Unremoved
  <2>1. receipt[j] # None
    BY Zenon DEF None
  <2> QED BY <1>3, <2>1, Zenon DEF Unremoved
<1> QED BY <1>1, <1>3, <1>4, Zenon DEF Removal!Complete

\* The removal of a file and the stages of its receipt.
LEMMA RemovalSteps ==
  ASSUME Inv, NEW w \in Workers, NEW j \in Jobs, claim[w] = j,
         Remove(w) \/ Stage(w) \/ AcknowledgeReceipt(w)
  PROVE  [\E o \in Jobs : Removal!Remove(o) \/ Removal!Stage(o) \/ Removal!Clear(o)]_(Removal!vars)
<1>0. StepInv(w, j) /\ receipt \in [Jobs -> {None, "moved", "staged"}]
  BY ClaimFacts, Types, Zenon
<1>1. phase' = phase /\ evidence' = evidence
  BY Zenon DEF Remove, Stage, AcknowledgeReceipt, journal
<1>2. WrittenOff' = WrittenOff
  BY <1>1, Zenon DEF WrittenOff
<1>3. CASE Remove(w)
  <2>1. /\ receipt[j] = None /\ receipt' = [receipt EXCEPT ![j] = "moved"]
        /\ j \notin WrittenOff
    BY <1>0, <1>3, Zenon DEF Remove, StepInv, WrittenOff, Cancellable
  <2>2. j \in Unremoved
    BY <2>1, Zenon DEF Unremoved
  <2>3. Unremoved' = Unremoved \ {j}
    <3>1. "moved" # None /\ receipt'[j] = "moved" /\ \A k \in Jobs \ {j} : receipt'[k] = receipt[k]
      BY <1>0, <2>1, Zenon DEF None
    <3> QED BY <1>2, <3>1, Zenon DEF Unremoved
  <2> QED BY <1>2, <2>1, <2>2, <2>3, Zenon DEF Removal!Remove, None
<1>4. CASE Stage(w)
  <2>1. receipt[j] = "moved" /\ receipt' = [receipt EXCEPT ![j] = "staged"]
    BY <1>0, <1>4, Zenon DEF Stage, StepInv
  <2>2. Unremoved' = Unremoved
    <3>1. /\ receipt[j] # None /\ receipt'[j] # None
          /\ \A k \in Jobs \ {j} : receipt'[k] = receipt[k]
      BY <1>0, <2>1, Zenon DEF None
    <3> QED BY <1>2, <3>1, Zenon DEF Unremoved
  <2> QED BY <1>2, <2>1, <2>2, Zenon DEF Removal!Stage
<1>5. CASE AcknowledgeReceipt(w) /\ receipt[j] = None
  <2>1. receipt' = receipt
    BY <1>0, <1>5, Zenon DEF AcknowledgeReceipt
  <2> QED BY <1>1, <2>1, OrderUntouched, Zenon
<1>6. CASE AcknowledgeReceipt(w) /\ receipt[j] # None
  <2>1. /\ receipt[j] = "staged" /\ receipt' = [receipt EXCEPT ![j] = None]
        /\ phase[j] \in Terminal
    BY <1>0, <1>6, Zenon DEF AcknowledgeReceipt, CanClearReceipt, StepInv
  <2>2. j \in WrittenOff
    <3>1. phase[j] = "cancelled" => evidence[j] # "empty"
      BY <1>6, JobFacts, Zenon DEF CopyInv
    <3> QED BY <2>1, <3>1, Zenon DEF WrittenOff, Terminal
  <2>3. Unremoved' = Unremoved
    <3>1. \A k \in Jobs \ {j} : receipt'[k] = receipt[k]
      BY <1>0, <2>1, Zenon
    <3> QED BY <1>2, <2>2, <3>1, Zenon DEF Unremoved
  <2> QED BY <1>2, <2>1, <2>2, <2>3, Zenon DEF Removal!Clear, None
<1> QED BY <1>3, <1>4, <1>5, <1>6, Zenon

\* The steps that end a job.
LEMMA EndingSteps ==
  ASSUME Inv, NEW w \in Workers, NEW j \in Jobs, claim[w] = j, Retired(w) \/ Cancelled(w)
  PROVE  Removal!Complete(j) \/ UNCHANGED Removal!vars
<1>0. StepInv(w, j) /\ phase \in [Jobs -> Phases]
  BY ClaimFacts, Types, Zenon
<1>1. UNCHANGED <<evidence, receipt>>
  BY Zenon DEF Retired, Cancelled, files
<1>2. CASE Retired(w)
  <2>1. phase[j] = "retiring" /\ receipt[j] = "staged" /\ phase' = [phase EXCEPT ![j] = "complete"]
    BY <1>0, <1>2, Zenon DEF Retired, StepInv
  <2>2. phase'[j] = "complete" /\ \A k \in Jobs \ {j} : phase'[k] = phase[k]
    BY <1>0, <2>1, Zenon
  <2> QED BY <1>1, <2>1, <2>2, WritesOff, Zenon DEF Terminal
<1>3. CASE Cancelled(w)
  <2>1. /\ phase[j] \in Cancellable /\ (evidence[j] = "empty" \/ receipt[j] = "staged")
        /\ phase' = [phase EXCEPT ![j] = "cancelled"]
    BY <1>0, <1>3, Zenon DEF Cancelled, StepInv
  <2>2. phase'[j] = "cancelled" /\ \A k \in Jobs \ {j} : phase'[k] = phase[k]
    BY <1>0, <2>1, Zenon
  <2>3. CASE evidence[j] # "empty"
    BY <1>1, <2>1, <2>2, <2>3, WritesOff, Zenon DEF Terminal, Cancellable
  <2>4. CASE evidence[j] = "empty"
    <3>1. \A k \in Jobs : k \in WrittenOff' <=> k \in WrittenOff
      BY <1>1, <2>1, <2>2, <2>4, Zenon DEF WrittenOff, Cancellable
    <3>2. WrittenOff' = WrittenOff
      BY <3>1, Zenon DEF WrittenOff
    <3>3. Unremoved' = Unremoved
      BY <1>1, <3>2, Zenon DEF Unremoved
    <3> QED BY <1>1, <3>2, <3>3, Zenon DEF Removal!vars
  <2> QED BY <2>3, <2>4, Zenon
<1> QED BY <1>2, <1>3, Zenon

\* The steps that advance a job before its end.
LEMMA AdvancingSteps ==
  ASSUME Inv, NEW w \in Workers, NEW j \in Jobs, claim[w] = j,
         \/ Verify(w) \/ FilePublished(w) \/ Publish(w) \/ Retiring(w)
         \/ CancellationVerified(w)
  PROVE  UNCHANGED Removal!vars
<1>0. /\ StepInv(w, j) /\ phase \in [Jobs -> Phases] /\ evidence \in [Jobs -> Evidence]
  BY ClaimFacts, Types, Zenon
<1>1. receipt' = receipt
  BY Zenon DEF Verify, FilePublished, Publish, Retiring, CancellationVerified, files
<1>2. CASE CancellationVerified(w)
  <2>1. /\ phase[j] \in Cancellable /\ phase' = phase
        /\ evidence' = [evidence EXCEPT ![j] = captured[w]]
    BY <1>0, <1>2, Zenon DEF CancellationVerified, StepInv
  <2>2. \A k \in Jobs \ {j} : evidence'[k] = evidence[k]
    BY <1>0, <2>1, Zenon
  <2> QED BY <1>1, <2>1, <2>2, OrderUntouched, Zenon DEF Cancellable, Terminal
<1>3. CASE Verify(w) \/ FilePublished(w) \/ Publish(w) \/ Retiring(w)
  <2>1. /\ phase[j] \in {"reserved", "verified", "file_published", "published", "retiring"}
        /\ evidence' = evidence
    BY <1>0, <1>3, Zenon DEF Verify, FilePublished, Publish, Retiring, StepInv
  <2>2. PICK p \in {"verified", "file_published", "published", "retiring"} :
          phase' = [phase EXCEPT ![j] = p]
    BY <1>3, Zenon DEF Verify, FilePublished, Publish, Retiring
  <2>3. phase'[j] = p /\ \A k \in Jobs \ {j} : phase'[k] = phase[k]
    BY <1>0, <2>2, Zenon
  <2> QED BY <1>1, <2>1, <2>3, OrderUntouched, Zenon DEF Terminal
<1> QED BY <1>2, <1>3, Zenon

\* The other steps of a worker.
LEMMA OtherSteps ==
  ASSUME NEW w \in Workers,
         \/ OpenTemporary(w) \/ Checkpoint(w) \/ CheckpointRefused(w) \/ CopyBlock(w)
         \/ HashCopy(w) \/ Rename(w) \/ Inspect(w) \/ Ready(w) \/ PinDestination(w)
         \/ RemoveAgain(w) \/ Acknowledge(w) \/ PinSource(w) \/ Capture(w)
         \/ ConfirmAbsent(w) \/ Refuse(w) \/ Fault(w) \/ Tear(w)
  PROVE  UNCHANGED Removal!vars
<1>1. CASE \/ OpenTemporary(w) \/ Checkpoint(w) \/ CheckpointRefused(w) \/ CopyBlock(w)
           \/ HashCopy(w) \/ Rename(w) \/ Inspect(w) \/ Ready(w)
  <2>1. UNCHANGED <<phase, evidence, receipt>>
    BY <1>1, Zenon DEF OpenTemporary, Checkpoint, CheckpointRefused, CopyBlock, HashCopy,
                Rename, Inspect, Ready, journal, files
  <2> QED BY <2>1, OrderUntouched, Zenon
<1>2. CASE \/ PinDestination(w) \/ RemoveAgain(w) \/ Acknowledge(w) \/ PinSource(w)
           \/ Capture(w) \/ ConfirmAbsent(w) \/ Refuse(w) \/ Fault(w) \/ Tear(w)
  <2>1. UNCHANGED <<phase, evidence, receipt>>
    BY <1>2, Zenon DEF PinDestination, RemoveAgain, Acknowledge, PinSource, Capture,
                ConfirmAbsent, Refuse, Fault, Tear, journal, files
  <2> QED BY <2>1, OrderUntouched, Zenon
<1> QED BY <1>1, <1>2, Zenon

\* Requests, dispatches and power failures.
LEMMA RequestsKeepOrder ==
  ASSUME Inv,
         \/ \E j \in Jobs : Cancel(j) \/ \E v \in Volumes : Begin(j, v)
         \/ \E r \in Readers : Lease(r) \/ Release(r)
         \/ \E w \in Workers, j \in Jobs : Dispatch(w, j)
         \/ PowerFailure \/ UNCHANGED vars
  PROVE  UNCHANGED Removal!vars
<1>1. ASSUME NEW j \in Jobs, NEW v \in Volumes, Begin(j, v) PROVE UNCHANGED Removal!vars
  <2>1. /\ phase[j] = "absent" /\ phase' = [phase EXCEPT ![j] = "reserved"]
        /\ UNCHANGED <<evidence, receipt>>
    BY <1>1, Zenon DEF Begin, files
  <2>2. phase'[j] = "reserved" /\ \A k \in Jobs \ {j} : phase'[k] = phase[k]
    BY <2>1, Types, Zenon
  <2> QED BY <2>1, <2>2, OrderUntouched, Zenon DEF Terminal
<1>2. ASSUME \/ \E j \in Jobs : Cancel(j)
             \/ \E r \in Readers : Lease(r) \/ Release(r)
             \/ \E w \in Workers, j \in Jobs : Dispatch(w, j)
             \/ PowerFailure \/ UNCHANGED vars
      PROVE  UNCHANGED Removal!vars
  <2>1. UNCHANGED <<phase, evidence, receipt>>
    BY <1>2, ZenonT(40) DEF Cancel, Lease, Release, Dispatch, Resume, Retire, FinishCancelled,
                ClaimMove, PowerFailure, vars, journal, files
  <2> QED BY <2>1, OrderUntouched, Zenon
<1> QED BY <1>1, <1>2, Zenon

\* Every step of the moves is a step of OwnedRemoval or leaves its state alone.
LEMMA StepsInOrder == Inv /\ [Next]_vars => [Removal!Next]_(Removal!vars)
<1> SUFFICES ASSUME Inv, [Next]_vars PROVE [Removal!Next]_(Removal!vars)
  OBVIOUS
<1>1. ASSUME NEW w \in Workers, WorkerStep(w) \/ Fault(w) \/ Tear(w) PROVE [Removal!Next]_(Removal!vars)
  <2>0. PICK j \in Jobs : claim[w] = j
    BY <1>1, StepsAreBusy, BusyClaims, Zenon
  <2>1. CASE Remove(w) \/ Stage(w) \/ AcknowledgeReceipt(w)
    BY <2>0, <2>1, RemovalSteps, Zenon DEF Removal!Next
  <2>2. CASE Retired(w) \/ Cancelled(w)
    BY <2>0, <2>2, EndingSteps, Zenon DEF Removal!Next
  <2>3. CASE \/ Verify(w) \/ FilePublished(w) \/ Publish(w) \/ Retiring(w)
             \/ CancellationVerified(w)
    BY <2>0, <2>3, AdvancingSteps, Zenon
  <2>4. CASE \/ OpenTemporary(w) \/ Checkpoint(w) \/ CheckpointRefused(w) \/ CopyBlock(w)
             \/ HashCopy(w) \/ Rename(w) \/ Inspect(w) \/ Ready(w) \/ PinDestination(w)
             \/ RemoveAgain(w) \/ Acknowledge(w) \/ PinSource(w) \/ Capture(w)
             \/ ConfirmAbsent(w) \/ Refuse(w) \/ Fault(w) \/ Tear(w)
    BY <2>4, OtherSteps, Zenon
  <2> QED BY <1>1, <2>1, <2>2, <2>3, <2>4, Zenon DEF WorkerStep
<1>2. CASE \/ \E j \in Jobs : Cancel(j) \/ \E v \in Volumes : Begin(j, v)
           \/ \E r \in Readers : Lease(r) \/ Release(r)
           \/ \E w \in Workers, j \in Jobs : Dispatch(w, j)
           \/ PowerFailure \/ UNCHANGED vars
  BY <1>2, RequestsKeepOrder, Zenon
<1> QED BY <1>1, <1>2, Zenon DEF Next

\* Moves implement OwnedRemoval across workers, faults and power failures: no
\* victim is removed twice, moves::retire and cancellation::complete write it
\* off only with a staged receipt, and acknowledge_retirement clears the
\* receipt only after that.
THEOREM RemovalsAreOrdered == Spec => RemovesInOrder
<1>1. Init => Removal!Init
  <2> SUFFICES ASSUME Init PROVE Removal!Init
    OBVIOUS
  <2>1. WrittenOff = {} /\ receipt = [j \in Jobs |-> "none"]
    BY Zenon DEF Init, WrittenOff, None
  <2>2. Unremoved = Jobs
    BY <2>1, Zenon DEF Unremoved, None
  <2> QED BY <2>1, <2>2, Zenon DEF Removal!Init
<1> QED BY <1>1, StepsInOrder, Invariance, PTL DEF Spec, RemovesInOrder, Removal!Spec

=============================================================================
