---------------------------- MODULE OwnedRemoval ----------------------------
(***************************************************************************)
(* What a volume root promises to the callers of retire_owned and          *)
(* acknowledge_retirement, and what VolumeMove assumes of it: a file leaves*)
(* its key once, a receipt that proves it is there before the catalog      *)
(* completes the operation, and the receipt goes only afterwards.          *)
(***************************************************************************)
CONSTANT Ops

VARIABLES
  placed,   \* operations whose file is under its key
  receipt,  \* of each operation, as in VolumeMove
  done      \* operations the catalog has completed

vars == <<placed, receipt, done>>

Init ==
  /\ placed = Ops
  /\ receipt = [o \in Ops |-> "none"]
  /\ done = {}

\* The file is taken from its key into the quarantine.
Remove(o) ==
  /\ o \in placed /\ receipt[o] = "none"
  /\ placed' = placed \ {o}
  /\ receipt' = [receipt EXCEPT ![o] = "moved"]
  /\ UNCHANGED done

\* The removal is recorded.
Stage(o) ==
  /\ receipt[o] = "moved"
  /\ receipt' = [receipt EXCEPT ![o] = "staged"]
  /\ UNCHANGED <<placed, done>>

\* The catalog completes the operation.
Complete(o) ==
  /\ o \notin done /\ receipt[o] = "staged"
  /\ done' = done \union {o}
  /\ UNCHANGED <<placed, receipt>>

\* The receipt is cleared.
Clear(o) ==
  /\ o \in done /\ receipt[o] = "staged"
  /\ receipt' = [receipt EXCEPT ![o] = "none"]
  /\ UNCHANGED <<placed, done>>

Next == \E o \in Ops : Remove(o) \/ Stage(o) \/ Complete(o) \/ Clear(o)

Spec == Init /\ [][Next]_vars
=============================================================================
