--------------------------- MODULE MCVolumeLedger ---------------------------
(* Two volumes that share one small filesystem. *)
EXTENDS VolumeLedger, TLC

CONSTANTS v1, v2, o1, o2

MCFilesystem == v1 :> "disk" @@ v2 :> "disk"
MCCapacity == [d \in {"disk"} |-> 5]
MCLimit == v1 :> 4 @@ v2 :> 3
MCMinimum == v1 :> 0 @@ v2 :> 1
OpSymmetry == Permutations(Ops)
=============================================================================
