------------------------- MODULE VolumeLedgerCapacity -------------------------
(***************************************************************************)
(* What the admission of VolumeLedger guarantees, for any numbers of       *)
(* operations and volumes, any capacities and any growth increment: exact  *)
(* counters, reservations that fit on their filesystem and volume, and     *)
(* removed volumes that hold nothing.                                      *)
(*                                                                         *)
(* The argument.  A capacity sample is taken after the ledger revision was *)
(* read.  While that revision is current, the free space the sample saw    *)
(* plus the base of the recordings (the blocks that no counter holds back) *)
(* is at most the capacity (SampleOK): writes inside a reservation do not  *)
(* change the base, and whatever does bumps the revision or shrinks it.    *)
(* The counters hold what the reservations may still write, so a request   *)
(* that fits the sample minus the counters leaves room for every claim.    *)
(***************************************************************************)
EXTENDS VolumeLedgerInvariant

-----------------------------------------------------------------------------
(* The invariant of the volumes, on top of that of the operations. *)

\* The sums over the rows of a volume, and over the recordings of a filesystem.
AllocatedRows(v) == [o \in Ops |-> IF row[o].volume = v THEN Allocated(row[o]) ELSE 0]
PendingRows(v) == [o \in Ops |-> IF row[o].volume = v THEN Unmaterialized(row[o]) ELSE 0]
PendingOn(d) == [o \in Ops |-> IF OnFilesystem(o, d) THEN Unmaterialized(row[o]) ELSE 0]
ClaimedOn(d) == [o \in Ops |-> IF OnFilesystem(o, d) THEN Claimed(o) ELSE 0]

\* What a capacity sample must have seen of a recording: its blocks, but of a reservation that is
\* still written only those the row counts as materialized.
Base(o) == IF row[o].state = "reserved" /\ plan[o] = NoPlan THEN row[o].materialized ELSE disk[o].len
BaseOn(d) == [o \in Ops |-> IF OnFilesystem(o, d) THEN Base(o) ELSE 0]

\* The rows of the volumes; that the counters stay natural numbers follows from the sums.
VolumeRows == [draining : BOOLEAN, allocated : Int, reserved : Int, config : Config]

\* The counters of a filesystem's volumes add up to the pending bytes of its recordings.
FilesystemExact == \A d \in Filesystems : ReservedOn(d) = SumFunction(PendingOn(d))

\* A sample whose revision is current does not count more free space than there is beside the base.
Sampling(o) == writer[o].pc \in {"reserve", "grow"} /\ fresh[o]
SampleOK(o) ==
  Sampling(o) => LET d == Filesystem[writer[o].target]
                 IN writer[o].available + SumFunction(BaseOn(d)) <= Capacity[d]

\* Nothing is left of an operation but its row.
Settled(o) == row[o].state = "cancelled" /\ ~Retiring(o) /\ ~Abandoning(o)
RemovalOK == \A v \in Volumes : volume[v].config # "running" =>
                volume[v].draining /\ \A o \in Ops : row[o].volume = v => Settled(o)

\* The types of the variables that are no table of the operations.
RestTyped ==
  /\ volume \in [Volumes -> VolumeRows]
  /\ fresh \in [Ops -> BOOLEAN] /\ admission \in Ops \cup {None} /\ faults \in 0 .. MaxFaults

\* The invariant: exact counters, admitted reservations that fit, samples that may be trusted while
\* their revision is current, and volumes that are settled once their removal is checked.
CapacityInv ==
  /\ RestTyped /\ CountersExact /\ FilesystemExact /\ AdmittedFits /\ RemovalOK
  /\ \A o \in Ops : SampleOK(o)

-----------------------------------------------------------------------------
(* The terms of the sums. *)

\* The same terms over values.
Claims(r, p, d) == IF r.state = "reserved" /\ p = NoPlan THEN r.bytes ELSE d.len
Basis(r, p, d) == IF r.state = "reserved" /\ p = NoPlan THEN r.materialized ELSE d.len

\* A recording claims at most its pending bytes and its base.
Weighs(r, p, d) ==
  /\ r \in Rows /\ d.len \in Nat /\ (r.volume = None <=> r.state = None)
  /\ Allocated(r) \in Nat /\ Unmaterialized(r) \in Nat /\ Claims(r, p, d) \in Nat /\ Basis(r, p, d) \in Nat
  /\ Basis(r, p, d) <= d.len /\ Claims(r, p, d) <= Unmaterialized(r) + Basis(r, p, d)
  /\ r.state \in {"reserved", "published"} => Allocated(r) > 0
  /\ r.state = None => Allocated(r) = 0 /\ Unmaterialized(r) = 0
  /\ r.state = "reserved" => d.len <= r.bytes

\* The invariant of an operation gives the facts about its terms.
LEMMA Weighed ==
  ASSUME NEW w, NEW r, NEW d, NEW x, NEW p, NEW t, NEW l, NEW k, NEW b, OpInv(w, r, d, x, p, t, l, k, b)
  PROVE  Weighs(r, p, d)
<1>1. r \in Rows /\ d \in Files /\ RowOK(w, r) /\ FileOK(w, r, d, p, k) BY Zenon DEF OpInv, Typed
<1>2. r.bytes \in Nat /\ r.materialized \in Nat /\ d.len \in Nat /\ d.synced \in Nat
  BY <1>1, LedgerAssumption DEF Rows, Files
<1>3. None \notin Volumes BY LedgerAssumption, Zenon DEF None
<1> QED BY <1>1, <1>2, <1>3 DEF Weighs, Allocated, Unmaterialized, Claims, Basis, RowOK, FileOK, None

\* The terms before and after a step.
LEMMA Terms ==
  ASSUME NEW o \in Ops
  PROVE  /\ LedgerInv => Weighs(row[o], plan[o], disk[o])
         /\ LedgerInv' => Weighs(row'[o], plan'[o], disk'[o])
         /\ Claimed(o) = Claims(row[o], plan[o], disk[o]) /\ Base(o) = Basis(row[o], plan[o], disk[o])
         /\ Claimed(o)' = Claims(row'[o], plan'[o], disk'[o]) /\ Base(o)' = Basis(row'[o], plan'[o], disk'[o])
<1>1. LedgerInv => Weighs(row[o], plan[o], disk[o]) BY Now, Weighed, Zenon
<1>2. ASSUME LedgerInv' PROVE Weighs(row'[o], plan'[o], disk'[o])
  <2>1. OpInv(writer'[o], row'[o], disk'[o], index'[o], plan'[o], retirement'[o], lease'[o], At(o)', Read(o)')
    BY <1>2, Zenon DEF LedgerInv, Holds
  <2> QED BY <2>1, Weighed, Zenon
<1>3. Claimed(o) = Claims(row[o], plan[o], disk[o]) /\ Base(o) = Basis(row[o], plan[o], disk[o])
  BY Zenon DEF Claimed, Base, Claims, Basis
<1>4. Claimed(o)' = Claims(row'[o], plan'[o], disk'[o]) /\ Base(o)' = Basis(row'[o], plan'[o], disk'[o])
  BY Zenon DEF Claimed, Base, Claims, Basis
<1> QED BY <1>1, <1>2, <1>3, <1>4, Zenon

\* The sums are over functions into the natural numbers, before and after a step.
LEMMA TermsNat ==
  ASSUME NEW v, NEW d
  PROVE  /\ LedgerInv => /\ AllocatedRows(v) \in [Ops -> Nat] /\ PendingRows(v) \in [Ops -> Nat]
                         /\ PendingOn(d) \in [Ops -> Nat] /\ ClaimedOn(d) \in [Ops -> Nat] /\ BaseOn(d) \in [Ops -> Nat]
         /\ LedgerInv' => /\ AllocatedRows(v)' \in [Ops -> Nat] /\ PendingRows(v)' \in [Ops -> Nat]
                          /\ PendingOn(d)' \in [Ops -> Nat] /\ ClaimedOn(d)' \in [Ops -> Nat]
                          /\ BaseOn(d)' \in [Ops -> Nat]
<1>1. ASSUME LedgerInv PROVE /\ AllocatedRows(v) \in [Ops -> Nat] /\ PendingRows(v) \in [Ops -> Nat]
                             /\ PendingOn(d) \in [Ops -> Nat] /\ ClaimedOn(d) \in [Ops -> Nat]
                             /\ BaseOn(d) \in [Ops -> Nat]
  <2>1. \A o \in Ops : /\ Allocated(row[o]) \in Nat /\ Unmaterialized(row[o]) \in Nat
                       /\ Claimed(o) \in Nat /\ Base(o) \in Nat
    BY <1>1, Terms, Zenon DEF Weighs
  <2>2. 0 \in Nat BY Zenon
  <2> QED BY <2>1, <2>2, Zenon DEF AllocatedRows, PendingRows, PendingOn, ClaimedOn, BaseOn
<1>2. ASSUME LedgerInv' PROVE /\ AllocatedRows(v)' \in [Ops -> Nat] /\ PendingRows(v)' \in [Ops -> Nat]
                              /\ PendingOn(d)' \in [Ops -> Nat] /\ ClaimedOn(d)' \in [Ops -> Nat]
                              /\ BaseOn(d)' \in [Ops -> Nat]
  <2>1. \A o \in Ops : /\ Allocated(row'[o]) \in Nat /\ Unmaterialized(row'[o]) \in Nat
                       /\ Claimed(o)' \in Nat /\ Base(o)' \in Nat
    BY <1>2, Terms, Zenon DEF Weighs
  <2>2. 0 \in Nat BY Zenon
  <2> QED BY <2>1, <2>2, Zenon DEF AllocatedRows, PendingRows, PendingOn, ClaimedOn, BaseOn
<1> QED BY <1>1, <1>2, Zenon

\* A function into the natural numbers sums to one; it is a function into the integers.
LEMMA SumOf ==
  ASSUME NEW f \in [Ops -> Nat]
  PROVE  f \in [Ops -> Int] /\ SumFunction(f) \in Nat
<1>1. f \in [Ops -> Int] OBVIOUS
<1>2. SumFunction(f) \in Nat BY SumNat, LedgerAssumption, Zenon
<1> QED BY <1>1, <1>2, Zenon

\* Smaller terms have a smaller sum.
LEMMA SumsFall ==
  ASSUME NEW f \in [Ops -> Nat], NEW g \in [Ops -> Nat], \A o \in Ops : g[o] <= f[o]
  PROVE  SumFunction(g) \in Nat /\ SumFunction(f) \in Nat /\ SumFunction(g) <= SumFunction(f)
BY SumOf, SumMonotone, LedgerAssumption, Zenon

-----------------------------------------------------------------------------
(* The counters. *)

\* The state properties in terms of the sums above.
LEMMA Sums ==
  /\ CountersExact <=> \A v \in Volumes : /\ volume[v].allocated = SumFunction(AllocatedRows(v))
                                          /\ volume[v].reserved = SumFunction(PendingRows(v))
  /\ CountersExact' <=> \A v \in Volumes : /\ volume'[v].allocated = SumFunction(AllocatedRows(v)')
                                           /\ volume'[v].reserved = SumFunction(PendingRows(v)')
  /\ AdmittedFits <=> /\ \A v \in Volumes : volume[v].allocated <= Limit[v]
                      /\ \A d \in Filesystems : SumFunction(ClaimedOn(d)) + MinimumOn(d) <= Capacity[d]
  /\ AdmittedFits' <=> /\ \A v \in Volumes : volume'[v].allocated <= Limit[v]
                       /\ \A d \in Filesystems : SumFunction(ClaimedOn(d)') + MinimumOn(d) <= Capacity[d]
<1>1. CountersExact <=> \A v \in Volumes : /\ volume[v].allocated = SumFunction(AllocatedRows(v))
                                           /\ volume[v].reserved = SumFunction(PendingRows(v))
  BY Zenon DEF CountersExact, AllocatedRows, PendingRows
<1>2. CountersExact' <=> \A v \in Volumes : /\ volume'[v].allocated = SumFunction(AllocatedRows(v)')
                                            /\ volume'[v].reserved = SumFunction(PendingRows(v)')
  BY Zenon DEF CountersExact, AllocatedRows, PendingRows
<1>3. AdmittedFits <=> /\ \A v \in Volumes : volume[v].allocated <= Limit[v]
                       /\ \A d \in Filesystems : SumFunction(ClaimedOn(d)) + MinimumOn(d) <= Capacity[d]
  BY Zenon DEF AdmittedFits, ClaimedOn
<1>4. AdmittedFits' <=> /\ \A v \in Volumes : volume'[v].allocated <= Limit[v]
                        /\ \A d \in Filesystems : SumFunction(ClaimedOn(d)') + MinimumOn(d) <= Capacity[d]
  BY Zenon DEF AdmittedFits, ClaimedOn, MinimumOn
<1> QED BY <1>1, <1>2, <1>3, <1>4, Zenon

\* The settings of the volumes may change, their counters do not.
SameCounters ==
  /\ volume' \in [Volumes -> VolumeRows]
  /\ \A v \in Volumes : volume'[v].allocated = volume[v].allocated /\ volume'[v].reserved = volume[v].reserved

\* Without a change of the rows and of the counters, the counters stay exact.
LEMMA CountersKept ==
  ASSUME CapacityInv, UNCHANGED row, SameCounters
  PROVE  CountersExact' /\ FilesystemExact'
<1>1. ASSUME NEW v \in Volumes PROVE AllocatedRows(v)' = AllocatedRows(v) /\ PendingRows(v)' = PendingRows(v)
  BY Zenon DEF AllocatedRows, PendingRows
<1>2. CountersExact' BY <1>1, Sums, Zenon DEF CapacityInv, SameCounters
<1>3. ASSUME NEW d \in Filesystems PROVE ReservedOn(d)' = SumFunction(PendingOn(d)')
  <2> DEFINE f == [v \in Volumes |-> IF Filesystem[v] = d THEN volume[v].reserved ELSE 0]
             g == [v \in Volumes |-> IF Filesystem[v] = d THEN volume'[v].reserved ELSE 0]
  <2>1. f = g BY Zenon DEF SameCounters
  <2>2. ReservedOn(d) = SumFunction(f) /\ ReservedOn(d)' = SumFunction(g) BY Zenon DEF ReservedOn
  <2>3. PendingOn(d)' = PendingOn(d) BY Zenon DEF PendingOn, OnFilesystem
  <2>4. ReservedOn(d) = SumFunction(PendingOn(d)) BY Zenon DEF CapacityInv, FilesystemExact
  <2> HIDE DEF f, g
  <2> QED BY <2>1, <2>2, <2>3, <2>4, Zenon
<1>4. FilesystemExact' BY <1>3, Zenon DEF FilesystemExact, Filesystems
<1> QED BY <1>2, <1>4, Zenon

\* What SetRow does to the counters.
LEMMA SetRowTo ==
  ASSUME CapacityInv, LedgerInv, LedgerInv', NEW o \in Ops, NEW r, r.volume \in Volumes, SetRow(o, r)
  PROVE  /\ To(o, row, row', r) /\ volume' \in [Volumes -> VolumeRows]
         /\ \A v \in Volumes :
              /\ volume'[v].draining = volume[v].draining /\ volume'[v].config = volume[v].config
              /\ volume'[v].allocated = volume[v].allocated
                   + (IF v = r.volume THEN Allocated(r) - Allocated(row[o]) ELSE 0)
              /\ volume'[v].reserved = volume[v].reserved
                   + (IF v = r.volume THEN Unmaterialized(r) - Unmaterialized(row[o]) ELSE 0)
<1> DEFINE u == r.volume
           a == volume[u].allocated + Allocated(r) - Allocated(row[o])
           e == volume[u].reserved + Unmaterialized(r) - Unmaterialized(row[o])
<1>1. To(o, row, row', r) BY Zenon DEF SetRow, To, Table, LedgerInv, Tables
<1>2. volume \in [Volumes -> VolumeRows] BY Zenon DEF CapacityInv, RestTyped
<1>3. volume' = [volume EXCEPT ![u].allocated = a, ![u].reserved = e] BY Zenon DEF SetRow
<1>4. row'[o] = r BY <1>1, Zenon DEF To
<1>5. /\ Allocated(r) \in Int /\ Unmaterialized(r) \in Int
      /\ Allocated(row[o]) \in Int /\ Unmaterialized(row[o]) \in Int
  BY <1>4, Terms DEF Weighs
<1>6. a \in Int /\ e \in Int BY <1>2, <1>5 DEF VolumeRows
<1>7. volume' = [v \in Volumes |-> IF v = u THEN [volume[u] EXCEPT !.allocated = a, !.reserved = e] ELSE volume[v]]
  <2> HIDE DEF a, e
  <2> QED BY <1>2, <1>3, Zenon
<1>8. [volume[u] EXCEPT !.allocated = a, !.reserved = e] \in VolumeRows
  <2> HIDE DEF a, e, u
  <2>1. volume[u] \in VolumeRows BY <1>2, Zenon DEF u
  <2> QED BY <1>6, <2>1, Zenon DEF VolumeRows
<1>9. volume' \in [Volumes -> VolumeRows]
  <2> HIDE DEF a, e, u
  <2> QED BY <1>2, <1>7, <1>8, Zenon
<1>10. ASSUME NEW v \in Volumes
       PROVE  /\ volume'[v].draining = volume[v].draining /\ volume'[v].config = volume[v].config
              /\ volume'[v].allocated = volume[v].allocated
                   + (IF v = u THEN Allocated(r) - Allocated(row[o]) ELSE 0)
              /\ volume'[v].reserved = volume[v].reserved
                   + (IF v = u THEN Unmaterialized(r) - Unmaterialized(row[o]) ELSE 0)
  <2>1. volume[v] \in VolumeRows BY <1>2, Zenon
  <2>2. CASE v = u
    <3>1. volume'[v] = [volume[v] EXCEPT !.allocated = a, !.reserved = e]
      <4> HIDE DEF a, e, u
      <4> QED BY <1>7, <2>2, Zenon
    <3>2. /\ volume'[v].draining = volume[v].draining /\ volume'[v].config = volume[v].config
          /\ volume'[v].allocated = a /\ volume'[v].reserved = e
      <4> HIDE DEF a, e, u
      <4> QED BY <2>1, <3>1, Zenon DEF VolumeRows
    <3> QED BY <1>5, <2>1, <2>2, <3>2, Zenon DEF VolumeRows
  <2>3. CASE v # u
    <3>1. volume'[v] = volume[v]
      <4> HIDE DEF a, e, u
      <4> QED BY <1>7, <2>3, Zenon
    <3> QED BY <2>1, <2>3, <3>1 DEF VolumeRows
  <2> QED BY <2>2, <2>3, Zenon
<1> QED BY <1>1, <1>9, <1>10, Zenon

\* The triggers of schema.sql keep the counters exact, whatever becomes of the row.
LEMMA CountersSet ==
  ASSUME CapacityInv, LedgerInv, LedgerInv', NEW o \in Ops, NEW r, r.volume \in Volumes,
         row[o].volume \in {r.volume, None}, SetRow(o, r)
  PROVE  CountersExact' /\ FilesystemExact'
<1>1. To(o, row, row', r) BY SetRowTo, Zenon
<1>2. row'[o] = r /\ \A q \in Ops : q # o => row'[q] = row[q] BY <1>1, Zenon DEF To
<1>3. row[o].volume = None => Allocated(row[o]) = 0 /\ Unmaterialized(row[o]) = 0 BY Terms, Zenon DEF Weighs
<1>4. /\ Allocated(r) \in Int /\ Unmaterialized(r) \in Int
      /\ Allocated(row[o]) \in Int /\ Unmaterialized(row[o]) \in Int
  BY <1>2, Terms DEF Weighs
<1>5. None \notin Volumes BY LedgerAssumption, Zenon DEF None
<1>6. ASSUME NEW v \in Volumes
      PROVE  /\ volume'[v].allocated = SumFunction(AllocatedRows(v)')
             /\ volume'[v].reserved = SumFunction(PendingRows(v)')
  <2> DEFINE a == AllocatedRows(v)   aa == AllocatedRows(v)'
             e == PendingRows(v)     ee == PendingRows(v)'
  <2>1. a \in [Ops -> Int] /\ aa \in [Ops -> Int] /\ e \in [Ops -> Int] /\ ee \in [Ops -> Int]
    BY TermsNat, SumOf, Zenon
  <2>2. \A q \in Ops : q # o => aa[q] = a[q] /\ ee[q] = e[q] BY <1>2, Zenon DEF AllocatedRows, PendingRows
  <2>3. /\ a[o] = (IF row[o].volume = v THEN Allocated(row[o]) ELSE 0)
        /\ e[o] = (IF row[o].volume = v THEN Unmaterialized(row[o]) ELSE 0)
    BY Zenon DEF AllocatedRows, PendingRows
  <2>4. /\ aa[o] = (IF r.volume = v THEN Allocated(r) ELSE 0)
        /\ ee[o] = (IF r.volume = v THEN Unmaterialized(r) ELSE 0)
    BY <1>2, Zenon DEF AllocatedRows, PendingRows
  <2>5. volume[v].allocated = SumFunction(a) /\ volume[v].reserved = SumFunction(e)
    BY Sums, Zenon DEF CapacityInv
  <2> HIDE DEF a, aa, e, ee
  <2>6. SumFunction(aa) = SumFunction(a) - a[o] + aa[o] BY <2>1, <2>2, SumUpdate, LedgerAssumption
  <2>7. SumFunction(ee) = SumFunction(e) - e[o] + ee[o] BY <2>1, <2>2, SumUpdate, LedgerAssumption
  <2>8. /\ volume'[v].allocated = volume[v].allocated
                   + (IF v = r.volume THEN Allocated(r) - Allocated(row[o]) ELSE 0)
        /\ volume'[v].reserved = volume[v].reserved
                   + (IF v = r.volume THEN Unmaterialized(r) - Unmaterialized(row[o]) ELSE 0)
    BY SetRowTo, Zenon
  <2>9. SumFunction(a) \in Int /\ SumFunction(e) \in Int BY <2>1, SumInt, LedgerAssumption, Zenon
  <2>10. volume'[v].allocated = SumFunction(aa)
    BY <1>3, <1>4, <1>5, <2>3, <2>4, <2>5, <2>6, <2>8, <2>9, SMTT(30)
  <2>11. volume'[v].reserved = SumFunction(ee)
    BY <1>3, <1>4, <1>5, <2>3, <2>4, <2>5, <2>7, <2>8, <2>9, SMTT(30)
  <2> QED BY <2>10, <2>11, Zenon DEF aa, ee
<1>7. ASSUME NEW d \in Filesystems PROVE ReservedOn(d)' = SumFunction(PendingOn(d)')
  <2> DEFINE f == [v \in Volumes |-> IF Filesystem[v] = d THEN volume[v].reserved ELSE 0]
             g == [v \in Volumes |-> IF Filesystem[v] = d THEN volume'[v].reserved ELSE 0]
             e == PendingOn(d)     ee == PendingOn(d)'
             n == Unmaterialized(r) - Unmaterialized(row[o])
  <2>1. e \in [Ops -> Int] /\ ee \in [Ops -> Int] BY TermsNat, SumOf, Zenon
  <2>2. \A q \in Ops : q # o => ee[q] = e[q] BY <1>2, Zenon DEF PendingOn, OnFilesystem
  <2>3. e[o] = (IF row[o].volume # None /\ Filesystem[row[o].volume] = d THEN Unmaterialized(row[o]) ELSE 0)
    BY Zenon DEF PendingOn, OnFilesystem
  <2>4. ee[o] = (IF r.volume # None /\ Filesystem[r.volume] = d THEN Unmaterialized(r) ELSE 0)
    BY <1>2, Zenon DEF PendingOn, OnFilesystem
  <2>5. ReservedOn(d) = SumFunction(f) /\ ReservedOn(d)' = SumFunction(g) BY Zenon DEF ReservedOn
  <2>6. ReservedOn(d) = SumFunction(e) BY Zenon DEF CapacityInv, FilesystemExact
  <2>7. \A v \in Volumes : volume[v].reserved \in Int /\ volume'[v].reserved \in Int
    BY SetRowTo, Zenon DEF CapacityInv, RestTyped, VolumeRows
  <2>8. f \in [Volumes -> Int] /\ g \in [Volumes -> Int] BY <2>7
  <2>9. \A v \in Volumes : volume'[v].reserved = volume[v].reserved + (IF v = r.volume THEN n ELSE 0)
    BY SetRowTo, Zenon
  <2>10. \A v \in Volumes : v # r.volume => g[v] = f[v] BY <2>7, <2>9
  <2>11. g[r.volume] = f[r.volume] + (IF Filesystem[r.volume] = d THEN n ELSE 0) BY <1>4, <2>7, <2>9
  <2> HIDE DEF f, g, e, ee
  <2>12. SumFunction(g) = SumFunction(f) - f[r.volume] + g[r.volume]
    BY <2>8, <2>10, SumUpdate, LedgerAssumption
  <2>13. SumFunction(ee) = SumFunction(e) - e[o] + ee[o] BY <2>1, <2>2, SumUpdate, LedgerAssumption
  <2>14. SumFunction(f) \in Int /\ SumFunction(e) \in Int /\ f[r.volume] \in Int
    BY <2>1, <2>8, SumInt, LedgerAssumption, Zenon
  <2>15. SumFunction(g) = SumFunction(ee)
    <3>0. SumFunction(f) = SumFunction(e) BY <2>5, <2>6, Zenon
    <3>1. CASE Filesystem[r.volume] = d
      <4>1. e[o] = Unmaterialized(row[o]) /\ ee[o] = Unmaterialized(r) BY <1>3, <1>5, <2>3, <2>4, <3>1, Zenon
      <4>2. g[r.volume] = f[r.volume] + n BY <2>11, <3>1, Zenon
      <4> QED BY <1>4, <2>12, <2>13, <2>14, <3>0, <4>1, <4>2
    <3>2. CASE Filesystem[r.volume] # d
      <4>1. e[o] = 0 /\ ee[o] = 0 BY <1>5, <2>3, <2>4, <3>2, Zenon
      <4>2. g[r.volume] = f[r.volume] BY <2>11, <2>14, <3>2
      <4> QED BY <2>12, <2>13, <2>14, <3>0, <4>1, <4>2
    <3> QED BY <3>1, <3>2, Zenon
  <2> QED BY <2>5, <2>15, Zenon DEF ee
<1>8. CountersExact' BY <1>6, Sums, Zenon
<1>9. FilesystemExact' BY <1>7, Zenon DEF FilesystemExact, Filesystems
<1> QED BY <1>8, <1>9, Zenon

-----------------------------------------------------------------------------
(* Room. *)

\* A step that asks for no more of an operation than it had.
Lightens(q) ==
  /\ row'[q].volume = row[q].volume /\ Claimed(q)' <= Claimed(q) /\ Allocated(row'[q]) <= Allocated(row[q])
  /\ Settled(q) => Settled(q)'

\* A step that leaves the sample of a writer alone, or ends it.
SampleStays(q) ==
  Sampling(q)' => /\ Sampling(q)
                  /\ writer'[q].available = writer[q].available /\ writer'[q].target = writer[q].target

\* The smallest minimum of the volumes of a filesystem.
LEMMA MinimumIs ==
  ASSUME NEW d \in Filesystems
  PROVE  /\ MinimumOn(d) \in Int /\ Capacity[d] \in Int
         /\ \A v \in Volumes : Filesystem[v] = d => MinimumOn(d) <= Minimum[v]
<1> DEFINE T == {Minimum[v] : v \in {u \in Volumes : Filesystem[u] = d}}
<1>1. PICK u \in Volumes : d = Filesystem[u] BY Zenon DEF Filesystems
<1>2. T \in SUBSET Nat /\ T # {} BY <1>1, LedgerAssumption, Zenon
<1>3. Min(T) \in T /\ \A x \in T : Min(T) <= x
  <2> HIDE DEF T
  <2> QED BY <1>2, MinIs, Zenon
<1>4. MinimumOn(d) = Min(T) BY Zenon DEF MinimumOn
<1>5. \A v \in Volumes : Filesystem[v] = d => Minimum[v] \in T BY Zenon
<1>6. Capacity[d] \in Int BY <1>1, LedgerAssumption
<1> HIDE DEF T
<1>7. MinimumOn(d) \in Int
  <2>1. MinimumOn(d) \in Nat BY <1>2, <1>3, <1>4, Zenon
  <2> QED BY <2>1
<1> QED BY <1>3, <1>4, <1>5, <1>6, <1>7, Zenon

\* What was admitted still fits when nobody asks for more.
LEMMA FitsLightened ==
  ASSUME CapacityInv, LedgerInv, LedgerInv', CountersExact', \A q \in Ops : Lightens(q)
  PROVE  AdmittedFits'
<1>1. ASSUME NEW v \in Volumes PROVE volume'[v].allocated <= Limit[v]
  <2> DEFINE f == AllocatedRows(v)   g == AllocatedRows(v)'
  <2>1. f \in [Ops -> Nat] /\ g \in [Ops -> Nat] BY TermsNat, Zenon
  <2>2. volume[v].allocated = SumFunction(f) /\ volume'[v].allocated = SumFunction(g)
        /\ volume[v].allocated <= Limit[v]
    BY Sums, Zenon DEF CapacityInv
  <2>3. ASSUME NEW q \in Ops PROVE g[q] <= f[q]
    <3>1. f[q] = IF row[q].volume = v THEN Allocated(row[q]) ELSE 0 BY Zenon DEF AllocatedRows
    <3>2. g[q] = IF row'[q].volume = v THEN Allocated(row'[q]) ELSE 0 BY Zenon DEF AllocatedRows
    <3> HIDE DEF f, g
    <3> QED BY <3>1, <3>2 DEF Lightens
  <2> HIDE DEF f, g
  <2>4. SumFunction(g) \in Nat /\ SumFunction(f) \in Nat /\ SumFunction(g) <= SumFunction(f) BY <2>1, <2>3, SumsFall, Zenon
  <2>5. Limit[v] \in Nat BY LedgerAssumption, Zenon
  <2> QED BY <2>2, <2>4, <2>5
<1>2. ASSUME NEW d \in Filesystems PROVE SumFunction(ClaimedOn(d)') + MinimumOn(d) <= Capacity[d]
  <2> DEFINE f == ClaimedOn(d)   g == ClaimedOn(d)'
  <2>1. f \in [Ops -> Nat] /\ g \in [Ops -> Nat] BY TermsNat, Zenon
  <2>2. SumFunction(f) + MinimumOn(d) <= Capacity[d] BY Sums, Zenon DEF CapacityInv
  <2>3. ASSUME NEW q \in Ops PROVE g[q] <= f[q]
    <3>1. f[q] = IF row[q].volume # None /\ Filesystem[row[q].volume] = d THEN Claimed(q) ELSE 0
      BY Zenon DEF ClaimedOn, OnFilesystem
    <3>2. g[q] = IF row'[q].volume # None /\ Filesystem[row'[q].volume] = d THEN Claimed(q)' ELSE 0
      BY Zenon DEF ClaimedOn, OnFilesystem
    <3>3. row'[q].volume = row[q].volume /\ Claimed(q)' <= Claimed(q) BY Zenon DEF Lightens
    <3> HIDE DEF f, g
    <3> QED BY <3>1, <3>2, <3>3
  <2> HIDE DEF f, g
  <2>4. SumFunction(g) \in Nat /\ SumFunction(f) \in Nat /\ SumFunction(g) <= SumFunction(f) BY <2>1, <2>3, SumsFall, Zenon
  <2>5. MinimumOn(d) \in Int /\ Capacity[d] \in Int BY MinimumIs, Zenon
  <2>6. SumFunction(g) + MinimumOn(d) <= Capacity[d] BY <2>2, <2>4, <2>5
  <2> QED BY <2>6, Zenon DEF g
<1> QED BY <1>1, <1>2, Sums, Zenon

\* A new revision ends every sample.
LEMMA SamplesBumped ==
  ASSUME Bump
  PROVE  \A q \in Ops : SampleOK(q)'
<1>1. \A q \in Ops : ~fresh'[q] BY Zenon DEF Bump
<1> QED BY <1>1, Zenon DEF SampleOK, Sampling

\* The samples stay good while the base does not grow.
LEMMA SamplesKept ==
  ASSUME CapacityInv, LedgerInv, LedgerInv',
         \A q \in Ops : row'[q].volume = row[q].volume /\ Base(q)' <= Base(q),
         NEW o \in Ops, SampleStays(o)
  PROVE  SampleOK(o)'
<1> SUFFICES ASSUME Sampling(o)' PROVE SampleOK(o)' BY Zenon DEF SampleOK
<1>0. PICK d : d = Filesystem[writer[o].target] BY Zenon
<1> DEFINE f == BaseOn(d)   g == BaseOn(d)'
<1>1. Sampling(o) /\ writer'[o].available = writer[o].available /\ writer'[o].target = writer[o].target
  BY Zenon DEF SampleStays
<1>2. f \in [Ops -> Nat] /\ g \in [Ops -> Nat] BY TermsNat, Zenon
<1>3. ASSUME NEW q \in Ops PROVE g[q] <= f[q]
  <2>1. f[q] = IF row[q].volume # None /\ Filesystem[row[q].volume] = d THEN Base(q) ELSE 0
    BY Zenon DEF BaseOn, OnFilesystem
  <2>2. g[q] = IF row'[q].volume # None /\ Filesystem[row'[q].volume] = d THEN Base(q)' ELSE 0
    BY Zenon DEF BaseOn, OnFilesystem
  <2>3. row'[q].volume = row[q].volume /\ Base(q)' <= Base(q) BY Zenon
  <2> HIDE DEF f, g
  <2> QED BY <2>1, <2>2, <2>3
<1>4. writer[o].available + SumFunction(f) <= Capacity[d] BY <1>0, <1>1, Zenon DEF CapacityInv, SampleOK
<1>5. writer[o].target \in Volumes /\ writer[o] \in Writers
  <2>1. writer[o].pc \notin {"idle", "gone"} BY <1>1, Zenon DEF Sampling
  <2> QED BY <2>1, WriterKnown, Zenon
<1>6. writer[o].available \in Int /\ Capacity[d] \in Int BY <1>0, <1>5, LedgerAssumption DEF Writers
<1>7. writer'[o].available + SumFunction(g) <= Capacity[d] => SampleOK(o)' BY <1>0, <1>1, Zenon DEF SampleOK
<1> HIDE DEF f, g
<1>8. SumFunction(g) \in Nat /\ SumFunction(f) \in Nat /\ SumFunction(g) <= SumFunction(f) BY <1>2, <1>3, SumsFall, Zenon
<1>9. writer'[o].available + SumFunction(g) <= Capacity[d] BY <1>1, <1>4, <1>6, <1>8
<1> QED BY <1>7, <1>9, Zenon

\* No volume that is leaving gets anything back.
LEMMA RemovalKept ==
  ASSUME CapacityInv, \A q \in Ops : row'[q].volume = row[q].volume /\ (Settled(q) => Settled(q)'),
         \A v \in Volumes : volume'[v].config # "running" => volume[v].config # "running" /\ volume'[v].draining
  PROVE  RemovalOK'
BY Zenon DEF CapacityInv, RemovalOK

\* A step that changes no row.
LEMMA QuietStep ==
  ASSUME CapacityInv, LedgerInv, LedgerInv', RestTyped', UNCHANGED row, SameCounters,
         \A v \in Volumes : volume'[v].config # "running" => volume[v].config # "running" /\ volume'[v].draining,
         \A q \in Ops : Lightens(q),
         Bump \/ \A q \in Ops : Base(q)' <= Base(q) /\ SampleStays(q)
  PROVE  CapacityInv'
<1>1. CountersExact' /\ FilesystemExact' BY CountersKept, Zenon
<1>2. AdmittedFits' BY <1>1, FitsLightened, Zenon
<1>3. \A q \in Ops : row'[q].volume = row[q].volume /\ (Settled(q) => Settled(q)') BY Zenon DEF Lightens
<1>4. RemovalOK' BY <1>3, RemovalKept, Zenon
<1>5. \A q \in Ops : SampleOK(q)'
  <2>1. CASE Bump BY <2>1, SamplesBumped, Zenon
  <2>2. CASE \A q \in Ops : Base(q)' <= Base(q) /\ SampleStays(q) BY <1>3, <2>2, SamplesKept, Zenon
  <2> QED BY <2>1, <2>2, Zenon
<1> QED BY <1>1, <1>2, <1>4, <1>5, Zenon DEF CapacityInv

\* A step that changes a row without asking for more.
LEMMA ChargedStep ==
  ASSUME CapacityInv, LedgerInv, LedgerInv', RestTyped', NEW o \in Ops, NEW r, SetRow(o, r), Bump,
         r.volume \in Volumes, row[o].volume = r.volume, \A q \in Ops : Lightens(q)
  PROVE  CapacityInv'
<1>1. CountersExact' /\ FilesystemExact' BY CountersSet, Zenon
<1>2. AdmittedFits' BY <1>1, FitsLightened, Zenon
<1>3. \A q \in Ops : row'[q].volume = row[q].volume /\ (Settled(q) => Settled(q)') BY Zenon DEF Lightens
<1>4. \A v \in Volumes : volume'[v].draining = volume[v].draining /\ volume'[v].config = volume[v].config
  BY SetRowTo, Zenon
<1>5. RemovalOK' BY <1>3, <1>4, RemovalKept, Zenon DEF CapacityInv, RemovalOK
<1> QED BY <1>1, <1>2, <1>5, SamplesBumped, Zenon DEF CapacityInv

\* What a sample with a current revision admits fits: the sample has seen the base of every recording
\* of the filesystem, and the counters hold what they may still write.
LEMMA CommitFits ==
  ASSUME CapacityInv, LedgerInv, LedgerInv', NEW o \in Ops, NEW r, NEW v \in Volumes,
         r.volume = v, row[o].volume \in {v, None}, SetRow(o, r), UNCHANGED <<plan, disk>>,
         v = writer[o].target, Sampling(o), NEW n \in Int,
         n <= writer[o].available - ReservedOn(Filesystem[v]) - Minimum[v],
         n <= Limit[v] - volume[v].allocated,
         Allocated(r) = Allocated(row[o]) + n,
         Claims(r, plan[o], disk[o]) =
           n + (IF row[o].volume = None THEN 0 ELSE Claims(row[o], plan[o], disk[o]))
  PROVE  AdmittedFits'
<1>1. To(o, row, row', r) BY SetRowTo, Zenon
<1>2. row'[o] = r /\ \A q \in Ops : q # o => row'[q] = row[q] BY <1>1, Zenon DEF To
<1>3. Weighs(r, plan[o], disk[o]) /\ Weighs(row[o], plan[o], disk[o]) BY <1>2, Terms, Zenon
<1>4. None \notin Volumes BY LedgerAssumption, Zenon DEF None
<1>5. ASSUME NEW u \in Volumes PROVE volume'[u].allocated <= Limit[u]
  <2>0. r.volume \in Volumes BY Zenon
  <2>1. volume'[u].allocated = volume[u].allocated + (IF u = r.volume THEN Allocated(r) - Allocated(row[o]) ELSE 0)
    BY <2>0, SetRowTo, ZenonT(60)
  <2>2. volume[u].allocated \in Int /\ Limit[u] \in Int BY LedgerAssumption, SMTT(30) DEF CapacityInv, RestTyped, VolumeRows
  <2>3. Allocated(r) \in Int /\ Allocated(row[o]) \in Int BY <1>3 DEF Weighs
  <2>4. volume[u].allocated <= Limit[u] BY Sums, Zenon DEF CapacityInv
  <2> QED BY <2>1, <2>2, <2>3, <2>4, SMTT(30)
<1>6. ASSUME NEW d \in Filesystems PROVE SumFunction(ClaimedOn(d)') + MinimumOn(d) <= Capacity[d]
  <2> DEFINE f == ClaimedOn(d)   g == ClaimedOn(d)'   e == PendingOn(d)   c == BaseOn(d)
  <2>1. /\ f \in [Ops -> Nat] /\ g \in [Ops -> Nat] /\ e \in [Ops -> Nat] /\ c \in [Ops -> Nat]
        /\ f \in [Ops -> Int] /\ g \in [Ops -> Int] /\ e \in [Ops -> Int] /\ c \in [Ops -> Int]
    BY TermsNat, SumOf, Zenon
  <2>2. ASSUME NEW q \in Ops, q # o PROVE g[q] = f[q]
    <3>1. row'[q] = row[q] BY <1>2, <2>2, Zenon
    <3> QED BY <3>1, Zenon DEF ClaimedOn, OnFilesystem, Claimed
  <2>3. f[o] = IF row[o].volume # None /\ Filesystem[row[o].volume] = d THEN Claims(row[o], plan[o], disk[o]) ELSE 0
    BY Zenon DEF ClaimedOn, OnFilesystem, Claimed, Claims
  <2>4. g[o] = IF v # None /\ Filesystem[v] = d THEN Claims(r, plan[o], disk[o]) ELSE 0
    BY <1>2, Zenon DEF ClaimedOn, OnFilesystem, Claimed, Claims
  <2>5. MinimumOn(d) \in Int /\ Capacity[d] \in Int /\ (Filesystem[v] = d => MinimumOn(d) <= Minimum[v])
    BY MinimumIs, Zenon
  <2>6. SumFunction(f) + MinimumOn(d) <= Capacity[d] BY Sums, Zenon DEF CapacityInv
  <2>7. \A q \in Ops : f[q] <= e[q] + c[q]
    <3> SUFFICES ASSUME NEW q \in Ops PROVE f[q] <= e[q] + c[q] BY Zenon
    <3>1. /\ f[q] = (IF OnFilesystem(q, d) THEN Claimed(q) ELSE 0)
          /\ e[q] = (IF OnFilesystem(q, d) THEN Unmaterialized(row[q]) ELSE 0)
          /\ c[q] = (IF OnFilesystem(q, d) THEN Base(q) ELSE 0)
      BY Zenon DEF ClaimedOn, PendingOn, BaseOn
    <3>2. Claimed(q) <= Unmaterialized(row[q]) + Base(q) BY Terms, Zenon DEF Weighs
    <3> HIDE DEF f, e, c
    <3> QED BY <3>1, <3>2
  <2>8. ReservedOn(d) = SumFunction(e) BY Zenon DEF CapacityInv, FilesystemExact
  <2>9. Filesystem[v] = d => writer[o].available + SumFunction(c) <= Capacity[d]
    BY Zenon DEF CapacityInv, SampleOK
  <2> HIDE DEF f, g, e, c
  <2>10. SumFunction(g) = SumFunction(f) - f[o] + g[o] BY <2>1, <2>2, SumUpdate, LedgerAssumption, SMTT(30)
  <2>11. SumFunction(f) <= SumFunction(e) + SumFunction(c) BY <2>1, <2>7, SumBound, LedgerAssumption, Zenon
  <2>12. SumFunction(f) \in Int /\ SumFunction(e) \in Int /\ SumFunction(c) \in Int /\ f[o] \in Int
    BY <2>1, SumInt, LedgerAssumption, Zenon
  <2>13. SumFunction(g) + MinimumOn(d) <= Capacity[d]
    <3>1. CASE Filesystem[v] = d
      <4>1. g[o] = f[o] + n
        <5>1. g[o] = Claims(r, plan[o], disk[o]) BY <1>4, <2>4, <3>1, Zenon
        <5>2. f[o] = IF row[o].volume = None THEN 0 ELSE Claims(row[o], plan[o], disk[o])
          BY <1>4, <2>3, <3>1, ZenonT(60)
        <5> QED BY <2>12, <5>1, <5>2
      <4>2. writer[o].available \in Int /\ Minimum[v] \in Int
        <5>1. writer[o] \in Writers BY WriterKnown, Zenon
        <5> QED BY <5>1, LedgerAssumption DEF Writers
      <4>3. n <= writer[o].available - SumFunction(e) - Minimum[v] BY <2>8, <3>1, Zenon
      <4>4. SumFunction(g) = SumFunction(f) + n BY <2>10, <2>12, <4>1, SMTT(30)
      <4>5. writer[o].available + SumFunction(c) <= Capacity[d] /\ MinimumOn(d) <= Minimum[v] BY <2>5, <2>9, <3>1, Zenon
      <4> QED BY <2>5, <2>11, <2>12, <4>2, <4>3, <4>4, <4>5, SMTT(30)
    <3>2. CASE Filesystem[v] # d
      <4>1. g[o] = 0 /\ f[o] = 0 BY <1>4, <2>3, <2>4, <3>2, Zenon
      <4>2. SumFunction(g) = SumFunction(f) BY <2>10, <2>12, <4>1
      <4> QED BY <2>6, <4>2, Zenon
    <3> QED BY <3>1, <3>2, Zenon
  <2> QED BY <2>13, Zenon DEF g
<1> QED BY <1>5, <1>6, Sums, Zenon

\* Probe: the sample sees every block that is on the filesystem.
LEMMA ProbeSamples ==
  ASSUME CapacityInv, LedgerInv, LedgerInv', NEW o \in Ops, Probe(o)
  PROVE  SampleOK(o)'
<1>0. PICK d : d = Filesystem[writer[o].target] BY Zenon
<1> DEFINE f == [q \in Ops |-> IF OnFilesystem(q, d) THEN disk[q].len ELSE 0]
           g == BaseOn(d)
<1>1. writer[o].target \in Volumes /\ writer[o] \in Writers
  <2>1. writer[o].pc \notin {"idle", "gone"} BY Zenon DEF Probe
  <2> QED BY <2>1, WriterKnown, Zenon
<1>2. writer'[o].available = Free(d) /\ writer'[o].target = writer[o].target
  <2>1. PICK pc : writer' = [writer EXCEPT ![o].pc = pc, ![o].available = Free(Filesystem[writer[o].target])]
    BY Zenon DEF Probe
  <2>2. writer'[o] = [writer[o] EXCEPT !.pc = pc, !.available = Free(d)]
    BY <1>0, <2>1, Zenon DEF LedgerInv, Tables, Table
  <2> QED BY <1>1, <2>2, Zenon DEF Writers
<1>3. UNCHANGED <<row, plan, disk>> BY Zenon DEF Probe, catalog
<1>4. BaseOn(d)' = g BY <1>3, Zenon DEF BaseOn, Base, OnFilesystem
<1>5. \A q \in Ops : disk[q].len \in Nat /\ Base(q) \in Nat /\ Base(q) <= disk[q].len BY Terms, Zenon DEF Weighs
<1>6. f \in [Ops -> Nat] /\ g \in [Ops -> Nat] BY <1>5, TermsNat, Zenon
<1>7. \A q \in Ops : g[q] <= f[q] BY <1>5 DEF BaseOn
<1>8. Free(d) = Capacity[d] - SumFunction(f) BY Zenon DEF Free, Used
<1>9. Capacity[d] \in Int BY <1>0, <1>1, LedgerAssumption
<1> HIDE DEF f, g
<1>10. SumFunction(g) \in Nat /\ SumFunction(f) \in Nat /\ SumFunction(g) <= SumFunction(f)
  BY <1>6, <1>7, SumsFall, Zenon
<1>11. writer'[o].available + SumFunction(g) <= Capacity[d] BY <1>2, <1>8, <1>9, <1>10
<1> QED BY <1>0, <1>2, <1>4, <1>11, Zenon DEF SampleOK

-----------------------------------------------------------------------------
(* What a step does to the operations it is not about. *)

\* A step that leaves the row and lets nothing grow that is not covered by a reservation.
Touch(q) ==
  /\ row'[q] = row[q] /\ (plan'[q] = plan[q] \/ row[q].state # "reserved")
  /\ \/ disk'[q] = disk[q] \/ disk'[q].len <= disk[q].len
     \/ row[q].state = "reserved" /\ plan[q] = NoPlan
  /\ ~Settled(q) \/ (plan'[q] = plan[q] /\ retirement'[q] = retirement[q])

\* Such a step claims nothing.
LEMMA Touched ==
  ASSUME LedgerInv, LedgerInv', NEW q \in Ops, Touch(q)
  PROVE  Lightens(q) /\ Base(q)' <= Base(q)
<1> DEFINE r == row[q]   p == plan[q]   p2 == plan'[q]   d == disk[q]   d2 == disk'[q]
<1>1. row'[q] = r /\ Weighs(r, p, d) /\ Weighs(r, p2, d2) BY Terms, Zenon DEF Touch
<1>2. Claims(r, p2, d2) <= Claims(r, p, d) /\ Basis(r, p2, d2) <= Basis(r, p, d) /\ Allocated(r) <= Allocated(r)
  <2>1. /\ p2 = p \/ r.state # "reserved"
        /\ d2 = d \/ d2.len <= d.len \/ (r.state = "reserved" /\ p = NoPlan)
    BY Zenon DEF Touch
  <2>2. Claims(r, p, d) \in Nat /\ Basis(r, p, d) \in Nat /\ Allocated(r) \in Nat /\ d.len \in Nat BY <1>1, Zenon DEF Weighs
  <2> HIDE DEF r, p, p2, d, d2
  <2> QED BY <2>1, <2>2 DEF Claims, Basis
<1>3. Settled(q) => Settled(q)' BY Zenon DEF Touch, Settled, Retiring, Abandoning
<1> HIDE DEF p, p2, d, d2
<1> QED BY <1>1, <1>2, <1>3, Terms, Zenon DEF Lightens, p, p2, d, d2

\* The variables that belong to no operation and no volume keep their types.
Housed == fresh' \in [Ops -> BOOLEAN] /\ admission' \in Ops \cup {None} /\ faults' \in 0 .. MaxFaults

\* The caller revisions, the admission mutex and the fault count stay in their types.
LEMMA House ==
  ASSUME CapacityInv,
         fresh' = fresh \/ Bump \/ (\E o \in Ops : fresh' = [fresh EXCEPT ![o] = TRUE]),
         admission' = admission \/ admission' = None \/ admission' \in Ops,
         UNCHANGED faults \/ Fault
  PROVE  Housed
<1>1. fresh \in [Ops -> BOOLEAN] /\ admission \in Ops \cup {None} /\ faults \in 0 .. MaxFaults
  BY Zenon DEF CapacityInv, RestTyped
<1>2. fresh' \in [Ops -> BOOLEAN] BY <1>1, Zenon DEF Bump
<1>3. faults' \in 0 .. MaxFaults BY <1>1, LedgerAssumption DEF Fault
<1> QED BY <1>1, <1>2, <1>3, Zenon DEF Housed

\* A step that changes neither the rows nor the counters.
LEMMA CalmStep ==
  ASSUME CapacityInv, LedgerInv, LedgerInv', Housed, UNCHANGED <<row, volume>>, \A q \in Ops : Touch(q),
         Bump \/ \A q \in Ops : SampleStays(q)
  PROVE  CapacityInv'
<1>1. volume \in [Volumes -> VolumeRows] BY Zenon DEF CapacityInv, RestTyped
<1>2. RestTyped' /\ SameCounters BY <1>1, Zenon DEF Housed, RestTyped, SameCounters
<1>3. \A v \in Volumes : volume'[v].config # "running" => volume[v].config # "running" /\ volume'[v].draining
  BY Zenon DEF CapacityInv, RemovalOK
<1>4. \A q \in Ops : Lightens(q) /\ Base(q)' <= Base(q) BY Touched, Zenon
<1>5. UNCHANGED row BY Zenon
<1> QED BY <1>2, <1>3, <1>4, <1>5, QuietStep, Zenon

\* The writer of o moves to pc.
Moves(o, pc) == writer'[o].pc = pc /\ \A q \in Ops : q # o => writer'[q] = writer[q]

\* A writer's step that takes no sample keeps the samples of the others.
LEMMA SamplesElsewhere ==
  ASSUME NEW o \in Ops, NEW pc, pc \notin {"reserve", "grow"}, Moves(o, pc),
         \A q \in Ops : q # o => fresh'[q] = fresh[q]
  PROVE  \A q \in Ops : SampleStays(q)
BY Zenon DEF Moves, SampleStays, Sampling

\* A writer's step that changes neither the row nor the journals.
LEMMA WriterCalm ==
  ASSUME CapacityInv, LedgerInv, LedgerInv', NEW o \in Ops, Housed,
         UNCHANGED <<row, volume, plan, retirement>>, NEW pc, pc \notin {"reserve", "grow"}, Moves(o, pc),
         \A q \in Ops : q # o => fresh'[q] = fresh[q],
         \A q \in Ops : \/ disk'[q] = disk[q] \/ disk'[q].len <= disk[q].len
                        \/ row[q].state = "reserved" /\ plan[q] = NoPlan
  PROVE  CapacityInv'
<1>1. \A q \in Ops : Touch(q) BY Zenon DEF Touch
<1> QED BY <1>1, SamplesElsewhere, CalmStep, Zenon

\* The forms in which a writer moves.
LEMMA StepMoves ==
  ASSUME LedgerInv, NEW o \in Ops
  PROVE  /\ \A pc : Step(o, pc) => Moves(o, pc)
         /\ Drop(o) => Moves(o, "gone")
<1>1. writer[o] \in Writers BY WriterKnown, Zenon
<1>2. ASSUME NEW pc, Step(o, pc) PROVE Moves(o, pc)
  <2>1. To(o, writer, writer', [writer[o] EXCEPT !.pc = pc]) BY <1>2, Zenon DEF Step, To, Table, LedgerInv, Tables
  <2>2. [writer[o] EXCEPT !.pc = pc].pc = pc BY <1>1, Zenon DEF Writers
  <2> QED BY <2>1, <2>2, Zenon DEF To, Moves
<1>3. ASSUME Drop(o) PROVE Moves(o, "gone")
  <2>1. Gone.pc = "gone" BY Zenon DEF Gone
  <2> QED BY <1>3, <2>1, DropTo, Zenon DEF To, Moves
<1> QED BY <1>2, <1>3, Zenon

-----------------------------------------------------------------------------
(* The steps of the writer. *)

\* Place keeps the invariant.
LEMMA CapacityPlace ==
  ASSUME CapacityInv, LedgerInv, LedgerInv', NEW o \in Ops, NEW v \in Volumes, Place(o, v)
  PROVE  CapacityInv'
<1>1. writer[o] \in Writers BY WriterKnown, Zenon
<1>2. To(o, writer, writer', [writer[o] EXCEPT !.pc = "placed", !.target = v])
  BY Zenon DEF Place, To, Table, LedgerInv, Tables
<1>3. Moves(o, "placed")
  <2>1. [writer[o] EXCEPT !.pc = "placed", !.target = v].pc = "placed" BY <1>1, Zenon DEF Writers
  <2> QED BY <1>2, <2>1, Zenon DEF To, Moves
<1>4. Housed BY House, Zenon DEF Place
<1>5. UNCHANGED <<row, volume, plan, retirement, disk, fresh>> BY Zenon DEF Place, catalog
<1> QED BY <1>3, <1>4, <1>5, WriterCalm, Zenon

\* ReadRevision keeps the invariant: the sample is not taken yet.
LEMMA CapacityReadRevision ==
  ASSUME CapacityInv, LedgerInv, LedgerInv', NEW o \in Ops, ReadRevision(o)
  PROVE  CapacityInv'
<1>1. PICK pc \in {"revised", "growRevised"} : Step(o, pc) BY Zenon DEF ReadRevision
<1>2. Moves(o, pc) BY <1>1, StepMoves, Zenon
<1>3. Housed BY House, Zenon DEF ReadRevision
<1>4. UNCHANGED <<row, volume, plan, retirement, disk>> BY Zenon DEF ReadRevision, catalog
<1>5. fresh \in [Ops -> BOOLEAN] BY Zenon DEF CapacityInv, RestTyped
<1>6. \A q \in Ops : q # o => fresh'[q] = fresh[q] BY <1>5, Zenon DEF ReadRevision
<1> QED BY <1>2, <1>3, <1>4, <1>6, WriterCalm, Zenon

\* A writer that is dropped keeps the invariant: its reservation stays claimed.
LEMMA CapacityDrop ==
  ASSUME CapacityInv, LedgerInv, LedgerInv', NEW o \in Ops, NeverOpened(o) \/ DropFailed(o)
  PROVE  CapacityInv'
<1>1. Moves(o, "gone") BY StepMoves, Zenon DEF NeverOpened, DropFailed
<1>2. Housed BY House, Zenon DEF NeverOpened, DropFailed
<1>3. UNCHANGED <<row, volume, plan, retirement, disk, fresh>> BY Zenon DEF NeverOpened, DropFailed, catalog
<1> QED BY <1>1, <1>2, <1>3, WriterCalm, Zenon

\* Open keeps the invariant.
LEMMA CapacityOpen ==
  ASSUME CapacityInv, LedgerInv, LedgerInv', NEW o \in Ops, Open(o)
  PROVE  CapacityInv'
<1>1. Moves(o, "created") BY StepMoves, Zenon DEF Open
<1>2. Housed BY House, Zenon DEF Open
<1>3. UNCHANGED <<row, volume, plan, retirement, fresh>> BY Zenon DEF Open, catalog
<1>4. To(o, disk, disk', [disk[o] EXCEPT !.exists = TRUE]) BY Zenon DEF Open, To, Table, LedgerInv, Tables
<1>5. row[o].state = "reserved" /\ plan[o] = NoPlan
  <2>1. writer[o].pc \notin {"idle", "gone", "placed", "revised", "reserve"} BY Zenon DEF Open
  <2> QED BY <2>1, WriterKnown, Zenon
<1>6. \A q \in Ops : disk'[q] = disk[q] \/ (row[q].state = "reserved" /\ plan[q] = NoPlan)
  BY <1>4, <1>5, Zenon DEF To
<1> QED BY <1>1, <1>2, <1>3, <1>6, WriterCalm, Zenon

\* Initialize keeps the invariant: the initialization segment was reserved.
LEMMA CapacityInitialize ==
  ASSUME CapacityInv, LedgerInv, LedgerInv', NEW o \in Ops, Initialize(o)
  PROVE  CapacityInv'
<1>1. writer[o] \in Writers BY WriterKnown, Zenon
<1>2. \E pc \in {"active", "gone"} : Moves(o, pc)
  <2>1. CASE writer' = [writer EXCEPT ![o].pc = "active", ![o].buffered = InitBytes]
    <3>1. To(o, writer, writer', [writer[o] EXCEPT !.pc = "active", !.buffered = InitBytes])
      BY <2>1, Zenon DEF To, Table, LedgerInv, Tables
    <3>2. [writer[o] EXCEPT !.pc = "active", !.buffered = InitBytes].pc = "active" BY <1>1, Zenon DEF Writers
    <3> QED BY <3>1, <3>2, Zenon DEF To, Moves
  <2>2. CASE Drop(o) BY <2>2, StepMoves, Zenon
  <2> QED BY <2>1, <2>2, Zenon DEF Initialize
<1>3. PICK pc \in {"active", "gone"} : Moves(o, pc) BY <1>2, Zenon
<1>4. Housed BY House, Zenon DEF Initialize
<1>5. UNCHANGED <<row, volume, plan, retirement, fresh>> BY Zenon DEF Initialize
<1>6. row[o].state = "reserved" /\ plan[o] = NoPlan
  <2>1. writer[o].pc \notin {"idle", "gone", "placed", "revised", "reserve"} BY Zenon DEF Initialize
  <2> QED BY <2>1, WriterKnown, Zenon
<1>7. \A q \in Ops : disk'[q] = disk[q] \/ (row[q].state = "reserved" /\ plan[q] = NoPlan)
  <2>1. \A q \in Ops : q # o => disk'[q] = disk[q] BY Zenon DEF Initialize, LedgerInv, Tables, Table
  <2> QED BY <1>6, <2>1, Zenon
<1> QED BY <1>3, <1>4, <1>5, <1>7, WriterCalm, Zenon

\* Flush keeps the invariant.
LEMMA CapacityFlush ==
  ASSUME CapacityInv, LedgerInv, LedgerInv', NEW o \in Ops, NEW flush \in {"next", "last", "end"}, Flush(o, flush)
  PROVE  CapacityInv'
<1>1. writer[o] \in Writers BY WriterKnown, Zenon
<1>2. PICK n : To(o, writer, writer', [writer[o] EXCEPT !.pc = "flushing", !.flush = flush, !.buffered = n])
  BY Zenon DEF Flush, To, Table, LedgerInv, Tables
<1>3. Moves(o, "flushing")
  <2>1. [writer[o] EXCEPT !.pc = "flushing", !.flush = flush, !.buffered = n].pc = "flushing"
    BY <1>1, Zenon DEF Writers
  <2> QED BY <1>2, <2>1, Zenon DEF To, Moves
<1>4. Housed BY House, Zenon DEF Flush
<1>5. UNCHANGED <<row, volume, plan, retirement, disk, fresh>> BY Zenon DEF Flush, catalog
<1> QED BY <1>3, <1>4, <1>5, WriterCalm, Zenon

\* Write keeps the invariant: what it adds to the file was reserved.
LEMMA CapacityWrite ==
  ASSUME CapacityInv, LedgerInv, LedgerInv', NEW o \in Ops, Write(o)
  PROVE  CapacityInv'
<1>1. writer[o] \in Writers BY WriterKnown, Zenon
<1>2. PICK n : To(o, writer, writer', [writer[o] EXCEPT !.buffered = n])
  <2>1. PICK n : writer' = [writer EXCEPT ![o].buffered = n] BY Zenon DEF Write
  <2> QED BY <2>1, Zenon DEF To, Table, LedgerInv, Tables
<1>3. Moves(o, "flushing")
  <2>1. [writer[o] EXCEPT !.buffered = n].pc = writer[o].pc BY <1>1, Zenon DEF Writers
  <2> QED BY <1>2, <2>1, Zenon DEF To, Moves, Write
<1>4. Housed BY House, Zenon DEF Write
<1>5. UNCHANGED <<row, volume, plan, retirement, fresh>> BY Zenon DEF Write, catalog
<1>6. row[o].state = "reserved" /\ plan[o] = NoPlan
  <2>1. writer[o].pc \notin {"idle", "gone", "placed", "revised", "reserve"} BY Zenon DEF Write
  <2> QED BY <2>1, WriterKnown, Zenon
<1>7. \A q \in Ops : disk'[q] = disk[q] \/ (row[q].state = "reserved" /\ plan[q] = NoPlan)
  <2>1. \A q \in Ops : q # o => disk'[q] = disk[q] BY Zenon DEF Write, LedgerInv, Tables, Table
  <2> QED BY <1>6, <2>1, Zenon
<1> QED BY <1>3, <1>4, <1>5, <1>7, WriterCalm, Zenon

\* A full reservation and the wait for the admission mutex keep the invariant.
LEMMA CapacityWriteFull ==
  ASSUME CapacityInv, LedgerInv, LedgerInv', NEW o \in Ops, WriteFull(o) \/ LockGrowth(o)
  PROVE  CapacityInv'
<1>1. PICK pc \in {"full", "locked", "failed"} : Step(o, pc) BY Zenon DEF WriteFull, LockGrowth
<1>2. Moves(o, pc) BY <1>1, StepMoves, Zenon
<1>3. Housed BY House, Zenon DEF WriteFull, LockGrowth
<1>4. UNCHANGED <<row, volume, plan, retirement, disk, fresh>> BY Zenon DEF WriteFull, LockGrowth, catalog
<1> QED BY <1>2, <1>3, <1>4, WriterCalm, Zenon

\* IndexFragment keeps the invariant.
LEMMA CapacityIndexFragment ==
  ASSUME CapacityInv, LedgerInv, LedgerInv', NEW o \in Ops, IndexFragment(o)
  PROVE  CapacityInv'
<1>1. writer[o] \in Writers BY WriterKnown, Zenon
<1>2. \/ Drop(o)
      \/ \E pc \in {"sealing", "active"} : writer' = [writer EXCEPT ![o].pc = pc, ![o].flush = None]
  BY Zenon DEF IndexFragment
<1>3. \E pc \in {"sealing", "active", "gone"} : Moves(o, pc)
  <2>1. CASE Drop(o) BY <2>1, StepMoves, Zenon
  <2>2. ASSUME NEW pc \in {"sealing", "active"}, writer' = [writer EXCEPT ![o].pc = pc, ![o].flush = None]
        PROVE  Moves(o, pc)
    <3>1. To(o, writer, writer', [writer[o] EXCEPT !.pc = pc, !.flush = None])
      BY <2>2, Zenon DEF To, Table, LedgerInv, Tables
    <3>2. [writer[o] EXCEPT !.pc = pc, !.flush = None].pc = pc BY <1>1, Zenon DEF Writers
    <3> QED BY <3>1, <3>2, Zenon DEF To, Moves
  <2> QED BY <1>2, <2>1, <2>2, Zenon
<1>4. PICK pc \in {"sealing", "active", "gone"} : Moves(o, pc) BY <1>3, Zenon
<1>5. Housed BY House, Zenon DEF IndexFragment
<1>6. UNCHANGED <<row, volume, plan, retirement, disk, fresh>> BY Zenon DEF IndexFragment
<1> QED BY <1>4, <1>5, <1>6, WriterCalm, Zenon

\* Evidence keeps the invariant.
LEMMA CapacityEvidence ==
  ASSUME CapacityInv, LedgerInv, LedgerInv', NEW o \in Ops, Evidence(o)
  PROVE  CapacityInv'
<1>1. writer[o] \in Writers BY WriterKnown, Zenon
<1>2. To(o, writer, writer', [writer[o] EXCEPT !.pc = "finalize", !.flush = None])
  BY Zenon DEF Evidence, To, Table, LedgerInv, Tables
<1>3. Moves(o, "finalize")
  <2>1. [writer[o] EXCEPT !.pc = "finalize", !.flush = None].pc = "finalize" BY <1>1, Zenon DEF Writers
  <2> QED BY <1>2, <2>1, Zenon DEF To, Moves
<1>4. Housed BY House, Zenon DEF Evidence
<1>5. UNCHANGED <<row, volume, plan, retirement, fresh>> BY Zenon DEF Evidence, catalog
<1>6. row[o].state = "reserved" /\ plan[o] = NoPlan
  <2>1. writer[o].pc \notin {"idle", "gone", "placed", "revised", "reserve"} BY Zenon DEF Evidence
  <2> QED BY <2>1, WriterKnown, Zenon
<1>7. \A q \in Ops : disk'[q] = disk[q] \/ (row[q].state = "reserved" /\ plan[q] = NoPlan)
  <2>1. \A q \in Ops : q # o => disk'[q] = disk[q] BY Zenon DEF Evidence, LedgerInv, Tables, Table
  <2> QED BY <1>6, <2>1, Zenon
<1> QED BY <1>3, <1>4, <1>5, <1>7, WriterCalm, ZenonT(60)

\* A round of retirements touches no settled operation and ends no sample, or all of them.
LEMMA JournalCalm ==
  ASSUME CapacityInv, LedgerInv, LedgerInv', NEW vs, JournalRetirement(vs) \/ UNCHANGED <<retirement, fresh>>,
         UNCHANGED <<row, volume, plan, disk, faults>>, admission' \in {admission, None},
         (UNCHANGED fresh) => \A q \in Ops : SampleStays(q)
  PROVE  CapacityInv'
<1>1. UNCHANGED fresh \/ Bump BY Zenon DEF JournalRetirement
<1>2. Housed BY <1>1, House, Zenon
<1>3. \A q \in Ops : retirement'[q] = retirement[q] \/ row[q].state = "published" BY Journaled, Zenon
<1>4. \A q \in Ops : Touch(q)
  <2>1. \A q \in Ops : row[q].state = "published" => ~Settled(q) BY Zenon DEF Settled
  <2> QED BY <1>3, <2>1, Zenon DEF Touch
<1> QED BY <1>1, <1>2, <1>4, CalmStep, Zenon

\* The pressure checks of the worker and of a refused placement keep the invariant.
LEMMA CapacityPressure ==
  ASSUME CapacityInv, LedgerInv, LedgerInv', NEW vs, JournalRetirement(vs),
         UNCHANGED <<row, volume, plan, disk, faults, admission, writer>>
  PROVE  CapacityInv'
<1>1. (UNCHANGED fresh) => \A q \in Ops : SampleStays(q) BY Zenon DEF SampleStays, Sampling
<1> QED BY <1>1, JournalCalm, Zenon

\* GrowRefused keeps the invariant.
LEMMA CapacityGrowRefused ==
  ASSUME CapacityInv, LedgerInv, LedgerInv', NEW o \in Ops, GrowRefused(o)
  PROVE  CapacityInv'
<1>1. Moves(o, "failed") BY StepMoves, Zenon DEF GrowRefused
<1>2. (UNCHANGED fresh) => \A q \in Ops : SampleStays(q) BY <1>1, SamplesElsewhere, Zenon
<1>3. PICK vs : JournalRetirement(vs) \/ UNCHANGED <<retirement, fresh>> BY Zenon DEF GrowRefused
<1>4. UNCHANGED <<row, volume, plan, disk, faults>> /\ admission' \in {admission, None} BY Zenon DEF GrowRefused, Release
<1> QED BY <1>2, <1>3, <1>4, JournalCalm, Zenon

\* QueueExpiry keeps the invariant.
LEMMA CapacityQueueExpiry ==
  ASSUME CapacityInv, LedgerInv, LedgerInv', NEW o \in Ops, QueueExpiry(o)
  PROVE  CapacityInv'
<1>1. Bump /\ UNCHANGED <<row, volume, plan, disk, faults, admission>> BY Zenon DEF QueueExpiry
<1>2. Housed BY <1>1, House, Zenon
<1>3. row[o].state = "published" BY Zenon DEF QueueExpiry, Retirable
<1>4. \A q \in Ops : q # o => retirement'[q] = retirement[q] BY Zenon DEF QueueExpiry, LedgerInv, Tables, Table
<1>5. ~Settled(o) BY <1>3, Zenon DEF Settled
<1>6. \A q \in Ops : Touch(q) BY <1>1, <1>4, <1>5, Zenon DEF Touch
<1> QED BY <1>1, <1>2, <1>6, CalmStep, Zenon

\* Probe takes a sample that sees the base of every recording.
LEMMA CapacityProbe ==
  ASSUME CapacityInv, LedgerInv, LedgerInv', NEW o \in Ops, Probe(o)
  PROVE  CapacityInv'
<1>1. UNCHANGED <<row, volume, plan, retirement, disk, fresh, admission, faults>> BY Zenon DEF Probe, catalog
<1>2. Housed BY <1>1, House, Zenon
<1>3. volume \in [Volumes -> VolumeRows] BY Zenon DEF CapacityInv, RestTyped
<1>4. RestTyped' /\ SameCounters BY <1>1, <1>2, <1>3, Zenon DEF Housed, RestTyped, SameCounters
<1>5. \A q \in Ops : Touch(q) BY <1>1, Zenon DEF Touch
<1>6. \A q \in Ops : Lightens(q) /\ Base(q)' <= Base(q) BY <1>5, Touched, Zenon
<1>7. CountersExact' /\ FilesystemExact' BY <1>1, <1>4, CountersKept, Zenon
<1>8. AdmittedFits' BY <1>6, <1>7, FitsLightened, Zenon
<1>9. \A q \in Ops : row'[q].volume = row[q].volume /\ (Settled(q) => Settled(q)') BY <1>6, Zenon DEF Lightens
<1>10. RemovalOK' BY <1>1, Zenon DEF CapacityInv, RemovalOK, Settled, Retiring, Abandoning
<1>11. ASSUME NEW q \in Ops PROVE SampleOK(q)'
  <2>1. CASE q = o BY <2>1, ProbeSamples, Zenon
  <2>2. CASE q # o
    <3>1. writer'[q] = writer[q] BY <2>2, Zenon DEF Probe, LedgerInv, Tables, Table
    <3>2. SampleStays(q) BY <1>1, <3>1, Zenon DEF SampleStays, Sampling
    <3> QED BY <1>6, <1>9, <3>2, SamplesKept, Zenon
  <2> QED BY <2>1, <2>2, Zenon
<1> QED BY <1>4, <1>7, <1>8, <1>10, <1>11, Zenon DEF CapacityInv

\* A step that sets the row of o to r and leaves the others: what is left to show is about o.
LEMMA ChargedTo ==
  ASSUME CapacityInv, LedgerInv, LedgerInv', NEW o \in Ops, NEW r, SetRow(o, r), Bump, r.volume = row[o].volume,
         row[o].state # None, UNCHANGED faults \/ Fault, UNCHANGED admission,
         \A q \in Ops : q # o => plan'[q] = plan[q] /\ disk'[q] = disk[q] /\ retirement'[q] = retirement[q],
         Claims(r, plan'[o], disk'[o]) <= Claims(row[o], plan[o], disk[o]), Allocated(r) <= Allocated(row[o]),
         Settled(o) => Settled(o)'
  PROVE  CapacityInv'
<1>1. row[o].volume \in Volumes BY Now, Zenon DEF OpInv, RowOK
<1>2. r.volume \in Volumes BY <1>1, Zenon
<1>3. Housed BY House, Zenon
<1>4. To(o, row, row', r) /\ volume' \in [Volumes -> VolumeRows] BY <1>2, SetRowTo, Zenon
<1>5. RestTyped' BY <1>3, <1>4, Zenon DEF Housed, RestTyped
<1>6. ASSUME NEW q \in Ops PROVE Lightens(q)
  <2>1. CASE q = o BY <1>4, <2>1, Terms, Zenon DEF To, Lightens
  <2>2. CASE q # o
    <3>1. Touch(q) BY <1>4, <2>2, Zenon DEF To, Touch
    <3> QED BY <3>1, Touched, Zenon
  <2> QED BY <2>1, <2>2, Zenon
<1> QED BY <1>1, <1>2, <1>5, <1>6, ChargedStep, Zenon

\* A checkpoint moves bytes from pending to base; they were claimed before.
LEMMA CapacityMaterialize ==
  ASSUME CapacityInv, LedgerInv, LedgerInv', NEW o \in Ops, Materialize(o)
  PROVE  CapacityInv'
<1> DEFINE r == [row[o] EXCEPT !.materialized = disk[o].len, !.identity = TRUE]
           d == [disk[o] EXCEPT !.synced = disk[o].len]
<1>1. /\ UNCHANGED <<plan, retirement, admission>> /\ (UNCHANGED faults \/ Fault)
      /\ UNCHANGED <<row, volume, fresh>> \/ (SetRow(o, r) /\ Bump)
  BY Zenon DEF Materialize, Checkpoint
<1>2. To(o, disk, disk', d) BY Zenon DEF Materialize, To, Table, LedgerInv, Tables
<1>3. row[o].state = "reserved" /\ plan[o] = NoPlan /\ row[o] \in Rows
  <2>1. writer[o].pc \notin {"idle", "gone", "placed", "revised", "reserve"} BY Zenon DEF Materialize
  <2> QED BY <2>1, WriterKnown, Zenon
<1>4. PICK pc \in {"opened", "checkpointed", "gone"} : Moves(o, pc) BY StepMoves, Zenon DEF Materialize
<1>5. CASE UNCHANGED <<row, volume, fresh>>
  <2>1. Housed BY <1>1, <1>5, House, Zenon
  <2>2. \A q \in Ops : disk'[q] = disk[q] \/ (row[q].state = "reserved" /\ plan[q] = NoPlan)
    BY <1>2, <1>3, Zenon DEF To
  <2> QED BY <1>1, <1>4, <1>5, <2>1, <2>2, WriterCalm, Zenon
<1>6. CASE SetRow(o, r) /\ Bump
  <2>1. r.state = "reserved" /\ r.bytes = row[o].bytes /\ r.volume = row[o].volume BY <1>3, Zenon DEF Rows
  <2>2. row[o].bytes \in Int BY <1>3 DEF Rows
  <2> HIDE DEF r
  <2>3. Claims(r, plan'[o], disk'[o]) = row[o].bytes /\ Claims(row[o], plan[o], disk[o]) = row[o].bytes
        /\ Allocated(r) = row[o].bytes /\ Allocated(row[o]) = row[o].bytes
    BY <1>1, <1>3, <2>1, Zenon DEF Claims, Allocated
  <2>4. /\ Claims(r, plan'[o], disk'[o]) <= Claims(row[o], plan[o], disk[o]) /\ Allocated(r) <= Allocated(row[o])
        /\ ~Settled(o) /\ row[o].state # None
    BY <1>3, <2>2, <2>3 DEF Settled, None
  <2>5. \A q \in Ops : q # o => plan'[q] = plan[q] /\ disk'[q] = disk[q] /\ retirement'[q] = retirement[q]
    BY <1>1, <1>2, Zenon DEF To
  <2> QED BY <1>1, <1>6, <2>1, <2>4, <2>5, ChargedTo, Zenon
<1> QED BY <1>1, <1>5, <1>6, Zenon

\* A publication gives back what was reserved and not written.
LEMMA CapacityFinalize ==
  ASSUME CapacityInv, LedgerInv, LedgerInv', NEW o \in Ops, Finalize(o)
  PROVE  CapacityInv'
<1> DEFINE r == [row[o] EXCEPT !.state = "published", !.bytes = disk[o].len]
<1>1. /\ UNCHANGED <<plan, retirement, admission, disk>> /\ (UNCHANGED faults \/ Fault)
      /\ UNCHANGED <<row, volume, fresh>> \/ (disk[o].len <= row[o].bytes /\ SetRow(o, r) /\ Bump)
  BY Zenon DEF Finalize, Publish
<1>2. row[o].state = "reserved" /\ plan[o] = NoPlan /\ row[o] \in Rows
  <2>1. writer[o].pc \notin {"idle", "gone", "placed", "revised", "reserve"} BY Zenon DEF Finalize
  <2> QED BY <2>1, WriterKnown, Zenon
<1>3. Moves(o, "gone") BY StepMoves, Zenon DEF Finalize
<1>4. CASE UNCHANGED <<row, volume, fresh>>
  <2>1. Housed BY <1>1, <1>4, House, Zenon
  <2> QED BY <1>1, <1>3, <1>4, <2>1, WriterCalm, Zenon
<1>5. CASE disk[o].len <= row[o].bytes /\ SetRow(o, r) /\ Bump
  <2>1. r.state = "published" /\ r.bytes = disk[o].len /\ r.volume = row[o].volume BY <1>2, Zenon DEF Rows
  <2> HIDE DEF r
  <2>2. Claims(r, plan'[o], disk'[o]) = disk[o].len /\ Claims(row[o], plan[o], disk[o]) = row[o].bytes
        /\ Allocated(r) = disk[o].len /\ Allocated(row[o]) = row[o].bytes
    BY <1>1, <1>2, <2>1, Zenon DEF Claims, Allocated
  <2>3. ~Settled(o) /\ row[o].state # None BY <1>2, Zenon DEF Settled, None
  <2>4. Claims(r, plan'[o], disk'[o]) <= Claims(row[o], plan[o], disk[o]) /\ Allocated(r) <= Allocated(row[o])
    BY <1>5, <2>2, Zenon
  <2> QED BY <1>1, <1>5, <2>1, <2>3, <2>4, ChargedTo, Zenon
<1> QED BY <1>1, <1>4, <1>5, Zenon

\* An admitted request: nobody asks for room on a volume that is leaving.
LEMMA CommitStep ==
  ASSUME CapacityInv, LedgerInv, LedgerInv', NEW o \in Ops, NEW r, NEW v \in Volumes,
         r.volume = v, row[o].volume \in {v, None}, SetRow(o, r), UNCHANGED <<plan, disk>>,
         v = writer[o].target, Sampling(o), NEW n \in Int,
         n <= writer[o].available - ReservedOn(Filesystem[v]) - Minimum[v],
         n <= Limit[v] - volume[v].allocated,
         Allocated(r) = Allocated(row[o]) + n,
         Claims(r, plan[o], disk[o]) =
           n + (IF row[o].volume = None THEN 0 ELSE Claims(row[o], plan[o], disk[o])),
         Bump, UNCHANGED retirement, Housed,
         ~volume[v].draining \/ (row[o].volume = v /\ row[o].state = "reserved")
  PROVE  CapacityInv'
<1>1. r.volume \in Volumes /\ row[o].volume \in {r.volume, None} BY Zenon
<1>2. To(o, row, row', r) /\ volume' \in [Volumes -> VolumeRows] BY <1>1, SetRowTo, Zenon
<1>3. \A u \in Volumes : volume'[u].draining = volume[u].draining /\ volume'[u].config = volume[u].config
  BY <1>1, SetRowTo, Zenon
<1>4. RestTyped' BY <1>2, Zenon DEF Housed, RestTyped
<1>5. CountersExact' /\ FilesystemExact' BY <1>1, CountersSet, ZenonT(40)
<1>6. AdmittedFits' BY CommitFits, Zenon
<1>7. volume[v].config = "running"
  <2>1. row[o].state = "reserved" => ~Settled(o) BY Zenon DEF Settled
  <2> QED BY <2>1, ZenonT(40) DEF CapacityInv, RemovalOK
<1>8. ASSUME NEW u \in Volumes, volume'[u].config # "running"
      PROVE  volume'[u].draining /\ \A q \in Ops : row'[q].volume = u => Settled(q)'
  <2>1. volume[u].config # "running" /\ u # v /\ volume'[u].draining = volume[u].draining BY <1>3, <1>7, <1>8, Zenon
  <2>2. volume[u].draining /\ \A q \in Ops : row[q].volume = u => Settled(q) BY <2>1, Zenon DEF CapacityInv, RemovalOK
  <2>3. ASSUME NEW q \in Ops, row'[q].volume = u PROVE Settled(q)'
    <3>1. q # o BY <1>2, <2>1, <2>3, Zenon DEF To
    <3>2. row'[q] = row[q] BY <1>2, <3>1, Zenon DEF To
    <3> QED BY <2>2, <2>3, <3>2, Zenon DEF Settled, Retiring, Abandoning
  <2> QED BY <2>1, <2>2, <2>3, Zenon
<1>9. RemovalOK' BY <1>8, ZenonT(40) DEF RemovalOK
<1> QED BY <1>4, <1>5, <1>6, <1>9, SamplesBumped, ZenonT(40) DEF CapacityInv

\* The reservation of a new recording.
LEMMA CapacityReserveCommit ==
  ASSUME CapacityInv, LedgerInv, LedgerInv', NEW o \in Ops, writer[o].pc = "reserve",
         ReserveAdmitted(o), ReserveCommit(o), UNCHANGED <<plan, disk, retirement>>, Housed
  PROVE  CapacityInv'
<1> DEFINE v == writer[o].target
           r == [row[o] EXCEPT !.state = "reserved", !.volume = v, !.bytes = InitBytes]
<1>1. /\ row[o].state = None /\ fresh[o] /\ ~volume[v].draining /\ SetRow(o, r) /\ Bump
      /\ InitBytes <= writer[o].available - ReservedOn(Filesystem[v]) - Minimum[v]
      /\ InitBytes <= Limit[v] - volume[v].allocated
  BY Zenon DEF ReserveAdmitted, ReserveCommit, Admission
<1>2. v \in Volumes /\ plan[o] = NoPlan /\ row[o] \in Rows
  <2>1. writer[o].pc \notin {"idle", "gone", "placed", "revised"} BY Zenon
  <2> QED BY <2>1, WriterKnown, ZenonT(40)
<1>3. row[o].volume = None /\ Allocated(row[o]) = 0 BY <1>1, Terms, Zenon DEF Weighs
<1>4. r.state = "reserved" /\ r.bytes = InitBytes /\ r.volume = v BY <1>2, Zenon DEF Rows
<1>5. Sampling(o) BY <1>1, Zenon DEF Sampling
<1>6. InitBytes \in Int BY DEF InitBytes
<1> HIDE DEF v, r
<1>7. Allocated(r) = Allocated(row[o]) + InitBytes BY <1>3, <1>4, <1>6, SMTT(30) DEF Allocated
<1>8. Claims(r, plan[o], disk[o]) = InitBytes + (IF row[o].volume = None THEN 0 ELSE Claims(row[o], plan[o], disk[o]))
  BY <1>2, <1>3, <1>4, <1>6, SMTT(30) DEF Claims
<1>9. v = writer[o].target BY Zenon DEF v
<1> QED BY <1>1, <1>2, <1>3, <1>4, <1>5, <1>6, <1>7, <1>8, <1>9, CommitStep, ZenonT(60)

\* The growth of a recording.
LEMMA CapacityGrowCommit ==
  ASSUME CapacityInv, LedgerInv, LedgerInv', NEW o \in Ops, writer[o].pc = "grow", GrowAdmitted(o),
         SetRow(o, [row[o] EXCEPT !.bytes = GrowthRequest(o)]), Bump, ~(GrowthRequest(o) <= row[o].bytes),
         UNCHANGED <<plan, disk, retirement>>, Housed
  PROVE  CapacityInv'
<1> DEFINE v == writer[o].target
           a == GrowthRequest(o)
           n == a - row[o].bytes
           r == [row[o] EXCEPT !.bytes = a]
<1>1. v \in Volumes /\ plan[o] = NoPlan /\ row[o] \in Rows /\ row[o].state = "reserved" /\ row[o].volume = v
  <2>1. writer[o].pc \notin {"idle", "gone", "placed", "revised", "reserve"} BY Zenon
  <2> QED BY <2>1, WriterKnown, Zenon
<1>2. a \in Int BY <1>1, GrowthRequestInt, Zenon
<1>3. row[o].bytes \in Int /\ n \in Int BY <1>1, <1>2 DEF Rows
<1>4. /\ fresh[o] /\ SetRow(o, r)
      /\ n <= writer[o].available - ReservedOn(Filesystem[v]) - Minimum[v]
      /\ n <= Limit[v] - volume[v].allocated
  BY <1>1, Zenon DEF GrowAdmitted, Admission
<1>5. r.state = "reserved" /\ r.bytes = a /\ r.volume = v BY <1>1, Zenon DEF Rows
<1>6. Sampling(o) BY <1>4, Zenon DEF Sampling
<1> HIDE DEF a, r
<1>7. Allocated(r) = Allocated(row[o]) + n BY <1>1, <1>2, <1>3, <1>5, SMTT(30) DEF Allocated
<1>8. row[o].volume # None BY <1>1, LedgerAssumption, Zenon DEF None
<1>9. Claims(r, plan[o], disk[o]) = n + (IF row[o].volume = None THEN 0 ELSE Claims(row[o], plan[o], disk[o]))
  BY <1>1, <1>2, <1>3, <1>5, <1>8, SMTT(30) DEF Claims
<1> HIDE DEF n
<1>10. v = writer[o].target BY Zenon DEF v
<1>11. row[o].volume \in {v, None} BY <1>1, Zenon
<1> HIDE DEF v
<1> QED BY <1>1, <1>3, <1>4, <1>5, <1>6, <1>7, <1>9, <1>10, <1>11, CommitStep, Zenon

\* A writer's step that changes only the writer, and does not touch its sample.
LEMMA RequestCalm ==
  ASSUME CapacityInv, LedgerInv, LedgerInv', NEW o \in Ops, Housed,
         UNCHANGED <<row, volume, plan, retirement, disk, fresh>>, SampleStays(o),
         \A q \in Ops : q # o => writer'[q] = writer[q]
  PROVE  CapacityInv'
<1>1. \A q \in Ops : Touch(q) BY Zenon DEF Touch
<1>2. \A q \in Ops : SampleStays(q) BY Zenon DEF SampleStays, Sampling
<1> QED BY <1>1, <1>2, CalmStep, Zenon

\* Reserve keeps the invariant, with a lost reply and with a repeated request.
LEMMA CapacityReserve ==
  ASSUME CapacityInv, LedgerInv, LedgerInv', NEW o \in Ops, Reserve(o)
  PROVE  CapacityInv'
<1>1. /\ writer[o].pc = "reserve" /\ UNCHANGED <<plan, retirement, disk>> /\ (UNCHANGED faults \/ Fault)
      /\ UNCHANGED <<row, volume, fresh>> \/ (ReserveAdmitted(o) /\ ReserveCommit(o))
      /\ \/ writer' = [writer EXCEPT ![o].pc = "reserved", ![o].bytes = InitBytes,
                                     ![o].available = 0, ![o].attempt = 0] /\ Release(o)
         \/ ReserveError(o)
  BY Zenon DEF Reserve
<1>2. admission' \in {admission, None} BY <1>1, Zenon DEF Release, ReserveError
<1>3. UNCHANGED fresh \/ Bump BY <1>1, Zenon DEF ReserveCommit
<1>4. Housed BY <1>1, <1>2, <1>3, House, Zenon
<1>5. CASE ReserveAdmitted(o) /\ ReserveCommit(o) BY <1>1, <1>4, <1>5, CapacityReserveCommit, Zenon
<1>6. CASE UNCHANGED <<row, volume, fresh>>
  <2>1. writer[o] \in Writers BY WriterKnown, Zenon
  <2>2. CASE writer' = [writer EXCEPT ![o].pc = "reserved", ![o].bytes = InitBytes, ![o].available = 0, ![o].attempt = 0]
    <3> DEFINE w == [writer[o] EXCEPT !.pc = "reserved", !.bytes = InitBytes, !.available = 0, !.attempt = 0]
    <3>1. To(o, writer, writer', w) BY <2>2, Zenon DEF To, Table, LedgerInv, Tables
    <3>2. w.pc = "reserved" BY <2>1, Zenon DEF Writers
    <3> HIDE DEF w
    <3>3. Moves(o, "reserved") BY <3>1, <3>2, Zenon DEF To, Moves
    <3> QED BY <1>1, <1>4, <1>6, <3>3, WriterCalm, ZenonT(60)
  <2>3. CASE writer' = [writer EXCEPT ![o].attempt = 1]
    <3> DEFINE w == [writer[o] EXCEPT !.attempt = 1]
    <3>1. To(o, writer, writer', w) BY <2>3, Zenon DEF To, Table, LedgerInv, Tables
    <3>2. w.pc = writer[o].pc /\ w.available = writer[o].available /\ w.target = writer[o].target
      BY <2>1, Zenon DEF Writers
    <3> HIDE DEF w
    <3>3. SampleStays(o) BY <1>6, <3>1, <3>2, Zenon DEF To, SampleStays, Sampling
    <3>4. \A q \in Ops : q # o => writer'[q] = writer[q] BY <3>1, Zenon DEF To
    <3> QED BY <1>1, <1>4, <1>6, <3>3, <3>4, RequestCalm, ZenonT(60)
  <2>4. CASE Drop(o)
    <3>1. Moves(o, "gone") BY <2>4, StepMoves, Zenon
    <3> QED BY <1>1, <1>4, <1>6, <3>1, WriterCalm, ZenonT(60)
  <2> QED BY <1>1, <2>2, <2>3, <2>4, Zenon DEF ReserveError
<1> QED BY <1>1, <1>5, <1>6, Zenon

\* Grow keeps the invariant, also when the row grew and the reply is lost.
LEMMA CapacityGrow ==
  ASSUME CapacityInv, LedgerInv, LedgerInv', NEW o \in Ops, Grow(o)
  PROVE  CapacityInv'
<1>1. /\ writer[o].pc = "grow" /\ UNCHANGED <<plan, retirement, disk>> /\ (UNCHANGED faults \/ Fault)
      /\ UNCHANGED <<row, volume, fresh>> \/ (GrowAdmitted(o) /\ GrowCommit(o))
      /\ Release(o) \/ UNCHANGED admission
  BY Zenon DEF Grow
<1>2. admission' \in {admission, None} BY <1>1, Zenon DEF Release
<1>3. \/ UNCHANGED <<row, volume, fresh>>
      \/ /\ GrowAdmitted(o) /\ SetRow(o, [row[o] EXCEPT !.bytes = GrowthRequest(o)]) /\ Bump
         /\ ~(GrowthRequest(o) <= row[o].bytes)
  BY <1>1, Zenon DEF GrowCommit
<1>4. Housed BY <1>1, <1>2, <1>3, House, Zenon
<1>5. CASE /\ GrowAdmitted(o) /\ SetRow(o, [row[o] EXCEPT !.bytes = GrowthRequest(o)]) /\ Bump
           /\ ~(GrowthRequest(o) <= row[o].bytes)
  BY <1>1, <1>4, <1>5, CapacityGrowCommit, Zenon
<1>6. CASE UNCHANGED <<row, volume, fresh>>
  <2>1. writer[o] \in Writers BY WriterKnown, Zenon
  <2>2. PICK pc \in {"flushing", "locked", "refused"} : \E attempt, bytes :
          \/ writer' = [writer EXCEPT ![o].pc = pc, ![o].available = 0, ![o].attempt = attempt, ![o].bytes = bytes]
          \/ writer' = [writer EXCEPT ![o].pc = pc, ![o].attempt = attempt, ![o].available = 0]
    BY Zenon DEF Grow, GrowError
  <2>3. PICK attempt, bytes :
          \/ writer' = [writer EXCEPT ![o].pc = pc, ![o].available = 0, ![o].attempt = attempt, ![o].bytes = bytes]
          \/ writer' = [writer EXCEPT ![o].pc = pc, ![o].attempt = attempt, ![o].available = 0]
    BY <2>2, Zenon
  <2>4. \/ To(o, writer, writer', [writer[o] EXCEPT !.pc = pc, !.available = 0, !.attempt = attempt, !.bytes = bytes])
        \/ To(o, writer, writer', [writer[o] EXCEPT !.pc = pc, !.attempt = attempt, !.available = 0])
    BY <2>3, Zenon DEF To, Table, LedgerInv, Tables
  <2>5. /\ [writer[o] EXCEPT !.pc = pc, !.available = 0, !.attempt = attempt, !.bytes = bytes].pc = pc
        /\ [writer[o] EXCEPT !.pc = pc, !.attempt = attempt, !.available = 0].pc = pc
    BY <2>1, Zenon DEF Writers
  <2>6. Moves(o, pc) BY <2>4, <2>5, Zenon DEF To, Moves
  <2> QED BY <1>1, <1>4, <1>6, <2>6, WriterCalm, Zenon
<1> QED BY <1>3, <1>5, <1>6, Zenon

-----------------------------------------------------------------------------
(* The steps of the worker, the readers, the settings, and restarts. *)

\* A step that is not a writer's and lets nothing grow.
LEMMA OthersCalm ==
  ASSUME CapacityInv, LedgerInv, LedgerInv', UNCHANGED <<row, volume, fresh, admission, writer>>,
         UNCHANGED faults \/ Fault, \A q \in Ops : Touch(q)
  PROVE  CapacityInv'
<1>1. Housed BY House, Zenon
<1>2. \A q \in Ops : SampleStays(q) BY Zenon DEF SampleStays, Sampling
<1> QED BY <1>1, <1>2, CalmStep, Zenon

\* Claims, failures of the worker and readers keep the invariant.
LEMMA CapacityAside ==
  ASSUME CapacityInv, LedgerInv, LedgerInv', NEW o \in Ops,
         Claim(o) \/ WorkerError(o) \/ ConfirmAbsent(o) \/ OpenReader(o) \/ CloseReader(o)
  PROVE  CapacityInv'
<1>1. /\ UNCHANGED <<row, volume, plan, retirement, disk, fresh, admission, writer>>
      /\ UNCHANGED faults \/ Fault
  BY Zenon DEF Claim, WorkerError, ConfirmAbsent, OpenReader, CloseReader, catalog
<1>2. \A q \in Ops : Touch(q) BY <1>1, Zenon DEF Touch
<1> QED BY <1>1, <1>2, OthersCalm, Zenon

\* Truncation and removal give blocks back.
LEMMA CapacityRetainPrefix ==
  ASSUME CapacityInv, LedgerInv, LedgerInv', NEW o \in Ops, RetainPrefix(o) \/ RemoveFile(o)
  PROVE  CapacityInv'
<1>1. UNCHANGED <<row, volume, plan, retirement, fresh, admission, writer, faults>>
  BY Zenon DEF RetainPrefix, RemoveFile, catalog
<1>2. disk[o] \in Files /\ disk[o].len \in Nat
  <2>1. disk[o] \in Files BY WriterKnown, Zenon
  <2> QED BY <2>1, LedgerAssumption DEF Files
<1>3. \A q \in Ops : q # o => disk'[q] = disk[q] BY Zenon DEF RetainPrefix, RemoveFile, LedgerInv, Tables, Table
<1>4. disk'[o] = disk[o] \/ disk'[o].len <= disk[o].len
  <2>1. CASE RetainPrefix(o)
    <3>1. \/ UNCHANGED disk
          \/ /\ disk[o].len \in {plan[o].original, plan[o].retained}
             /\ disk'[o] = [disk[o] EXCEPT !.len = plan[o].retained, !.synced = plan[o].retained]
      BY <2>1, Zenon DEF RetainPrefix, LedgerInv, Tables, Table
    <3>2. plan[o] \in Plans /\ plan[o].retained <= plan[o].original
      <4>1. plan[o].mode = "seal" BY <2>1, Zenon DEF RetainPrefix
      <4> QED BY <4>1, Now, Zenon DEF OpInv, Typed, PlanOK
    <3>3. plan[o].retained \in Int /\ plan[o].original \in Int BY <3>2, LedgerAssumption DEF Plans
    <3>4. [disk[o] EXCEPT !.len = plan[o].retained, !.synced = plan[o].retained].len = plan[o].retained
      BY <1>2, Zenon DEF Files
    <3>5. UNCHANGED disk \/ (disk'[o].len = plan[o].retained /\ disk[o].len \in {plan[o].original, plan[o].retained})
      BY <3>1, <3>4, Zenon
    <3> QED BY <1>2, <3>2, <3>3, <3>5, SMTT(30)
  <2>2. CASE RemoveFile(o)
    <3>1. disk'[o] = disk[o] \/ disk'[o] = [disk[o] EXCEPT !.exists = FALSE, !.len = 0, !.synced = 0]
      BY <2>2, Zenon DEF RemoveFile, LedgerInv, Tables, Table
    <3>2. [disk[o] EXCEPT !.exists = FALSE, !.len = 0, !.synced = 0].len = 0 BY <1>2, Zenon DEF Files
    <3>3. disk'[o] = disk[o] \/ disk'[o].len = 0 BY <3>1, <3>2, Zenon
    <3> QED BY <1>2, <3>3, SMTT(30)
  <2> QED BY <2>1, <2>2, Zenon
<1>5. \A q \in Ops : Touch(q) BY <1>1, <1>3, <1>4, Zenon DEF Touch
<1> QED BY <1>1, <1>5, OthersCalm, Zenon

\* A receipt takes no block.
LEMMA SameLength ==
  ASSUME LedgerInv, NEW o \in Ops, NEW c, disk' = [disk EXCEPT ![o].receipt = c], NEW q \in Ops
  PROVE  disk'[q] = disk[q] \/ disk'[q].len <= disk[q].len
<1>1. disk[q] \in Files /\ disk[q].len \in Nat
  <2>1. disk[q] \in Files BY WriterKnown, Zenon
  <2> QED BY <2>1, LedgerAssumption DEF Files
<1>2. disk'[q] = IF q = o THEN [disk[q] EXCEPT !.receipt = c] ELSE disk[q]
  BY Zenon DEF LedgerInv, Tables, Table
<1>3. [disk[q] EXCEPT !.receipt = c].len = disk[q].len BY <1>1, Zenon DEF Files
<1>4. disk'[q] = disk[q] \/ disk'[q].len = disk[q].len BY <1>2, <1>3, Zenon
<1> QED BY <1>1, <1>4, SMTT(30)

\* An acknowledgement settles an operation whose row is cancelled.
LEMMA CapacityAcknowledge ==
  ASSUME CapacityInv, LedgerInv, LedgerInv', NEW o \in Ops, Acknowledge(o)
  PROVE  CapacityInv'
<1>1. /\ UNCHANGED <<row, volume, fresh, admission, writer, faults>>
      /\ \E c : disk' = [disk EXCEPT ![o].receipt = c]
  BY Zenon DEF Acknowledge
<1>2. \A q \in Ops : q # o => plan'[q] = plan[q] /\ retirement'[q] = retirement[q]
  BY Zenon DEF Acknowledge, LedgerInv, Tables, Table
<1>3. ~Settled(o) /\ (plan'[o] = plan[o] \/ row[o].state # "reserved")
  <2>1. CASE retirement[o] = "complete" /\ plan' = plan BY <2>1, Zenon DEF Settled, Retiring
  <2>2. CASE Abandoning(o) /\ plan[o].complete
    <3>1. plan[o].mode # None BY <2>2, Zenon DEF Abandoning, None
    <3>2. row[o].state # "reserved" BY <2>2, <3>1, Now, Zenon DEF OpInv, PlanOK
    <3> QED BY <2>2, <3>2, Zenon DEF Settled
  <2> QED BY <2>1, <2>2, Zenon DEF Acknowledge
<1>4. \A q \in Ops : disk'[q] = disk[q] \/ disk'[q].len <= disk[q].len BY <1>1, SameLength, Zenon
<1>5. \A q \in Ops : Touch(q) BY <1>1, <1>2, <1>3, <1>4, Zenon DEF Touch
<1> QED BY <1>1, <1>5, OthersCalm, Zenon

\* So does a torn receipt.
LEMMA CapacityTear ==
  ASSUME CapacityInv, LedgerInv, LedgerInv', NEW o \in Ops, Tear(o)
  PROVE  CapacityInv'
<1>1. /\ UNCHANGED <<row, volume, plan, retirement, fresh, admission, writer>> /\ Fault
      /\ \E c : disk' = [disk EXCEPT ![o].receipt = c]
  BY Zenon DEF Tear, catalog
<1>2. \A q \in Ops : disk'[q] = disk[q] \/ disk'[q].len <= disk[q].len BY <1>1, SameLength, Zenon
<1>3. \A q \in Ops : Touch(q) BY <1>1, <1>2, Zenon DEF Touch
<1> QED BY <1>1, <1>3, OthersCalm, Zenon

\* A recovery plan turns the whole reservation into the blocks that are on disk.
LEMMA CapacityBeginRecovery ==
  ASSUME CapacityInv, LedgerInv, LedgerInv', NEW o \in Ops, BeginRecovery(o)
  PROVE  CapacityInv'
<1>1. UNCHANGED <<row, volume, retirement, admission, writer, faults>> BY Zenon DEF BeginRecovery
<1>2. row[o].state = "reserved" /\ plan[o] = NoPlan BY Zenon DEF BeginRecovery
<1>3. CASE UNCHANGED <<plan, disk, fresh>>
  <2>1. \A q \in Ops : Touch(q) BY <1>1, <1>3, Zenon DEF Touch
  <2> QED BY <1>1, <1>3, <2>1, OthersCalm, Zenon
<1>4. CASE Bump
  <2>1. \A q \in Ops : q # o => plan'[q] = plan[q] /\ disk'[q] = disk[q]
    BY Zenon DEF BeginRecovery, LedgerInv, Tables, Table
  <2>2. Housed BY <1>1, <1>4, House, Zenon
  <2>3. volume \in [Volumes -> VolumeRows] BY Zenon DEF CapacityInv, RestTyped
  <2>4. RestTyped' /\ SameCounters BY <1>1, <2>2, <2>3, Zenon DEF Housed, RestTyped, SameCounters
  <2>5. \A v \in Volumes : volume'[v].config # "running" => volume[v].config # "running" /\ volume'[v].draining
    BY <1>1, Zenon DEF CapacityInv, RemovalOK
  <2>6. Lightens(o)
    <3> DEFINE r == row[o]   p2 == plan'[o]   d2 == disk'[o]
    <3>1. Weighs(r, plan[o], disk[o]) /\ Weighs(row'[o], p2, d2) /\ row'[o] = r BY <1>1, Terms, Zenon
    <3>2. d2.len <= r.bytes /\ Claims(r, plan[o], disk[o]) = r.bytes /\ Allocated(r) = r.bytes
      BY <1>2, <3>1, ZenonT(40) DEF Weighs, Claims, Allocated
    <3>3. r.bytes \in Nat BY <3>1, Zenon DEF Weighs, Rows
    <3> HIDE DEF r, p2, d2
    <3>4. Claims(r, p2, d2) <= r.bytes /\ r.bytes <= r.bytes BY <3>2, <3>3, SMTT(30) DEF Claims
    <3>5. ~Settled(o) BY <1>2, Zenon DEF Settled
    <3> QED BY <3>1, <3>2, <3>4, <3>5, Terms, ZenonT(60) DEF Lightens, r, p2, d2
  <2>7. ASSUME NEW q \in Ops PROVE Lightens(q)
    <3>1. CASE q = o BY <2>6, <3>1, Zenon
    <3>2. CASE q # o
      <4>1. Touch(q) BY <1>1, <2>1, <3>2, Zenon DEF Touch
      <4> QED BY <4>1, Touched, Zenon
    <3> QED BY <3>1, <3>2, Zenon
  <2>8. UNCHANGED row BY <1>1, Zenon
  <2> QED BY <1>4, <2>4, <2>5, <2>7, <2>8, QuietStep, ZenonT(60)
<1> QED BY <1>3, <1>4, Zenon DEF BeginRecovery

\* The releases of the worker.
LEMMA CapacityReleased ==
  ASSUME CapacityInv, LedgerInv, LedgerInv', NEW o \in Ops, worker.op = o,
         SetRow(o, [row[o] EXCEPT !.state = "cancelled"]), Bump, UNCHANGED <<disk, admission, faults>>,
         \A q \in Ops : q # o => plan'[q] = plan[q] /\ retirement'[q] = retirement[q], Settled(o) => Settled(o)'
  PROVE  CapacityInv'
<1> DEFINE r == [row[o] EXCEPT !.state = "cancelled"]
<1>1. Weighs(row[o], plan[o], disk[o]) BY Terms, Zenon
<1>2. row[o].state # None
  <2>1. At(o) # "idle" BY WorkerKnown, Zenon
  <2> QED BY <2>1, Now, Zenon DEF OpInv, LeaseOK
<1>3. r.state = "cancelled" /\ r.volume = row[o].volume BY <1>1, Zenon DEF Weighs, Rows
<1>4. SetRow(o, r) BY Zenon
<1> HIDE DEF r
<1>5. Claims(r, plan'[o], disk'[o]) = disk[o].len /\ Allocated(r) = 0 BY <1>3, Zenon DEF Claims, Allocated
<1>6. Allocated(row[o]) \in Nat /\ disk[o].len \in Nat /\ (row[o].state = "reserved" => disk[o].len <= row[o].bytes)
  BY <1>1, Zenon DEF Weighs
<1>7. Claims(r, plan'[o], disk'[o]) <= Claims(row[o], plan[o], disk[o]) BY <1>5, <1>6 DEF Claims
<1>8. Allocated(r) <= Allocated(row[o]) BY <1>5, <1>6
<1> QED BY <1>2, <1>3, <1>4, <1>7, <1>8, ChargedTo, ZenonT(60)

\* ReleaseUnopened keeps the invariant.
LEMMA CapacityReleaseUnopened ==
  ASSUME CapacityInv, LedgerInv, LedgerInv', NEW o \in Ops, ReleaseUnopened(o)
  PROVE  CapacityInv'
<1>1. /\ UNCHANGED <<plan, retirement, disk, admission, writer, faults>> /\ worker.op = o
      /\ UNCHANGED <<row, volume, fresh>> \/ (SetRow(o, [row[o] EXCEPT !.state = "cancelled"]) /\ Bump)
  BY WorkingOn, Zenon DEF ReleaseUnopened
<1>2. CASE UNCHANGED <<row, volume, fresh>>
  <2>1. \A q \in Ops : Touch(q) BY <1>1, <1>2, Zenon DEF Touch
  <2> QED BY <1>1, <1>2, <2>1, OthersCalm, Zenon
<1>3. CASE SetRow(o, [row[o] EXCEPT !.state = "cancelled"]) /\ Bump
  <2>1. row' = [row EXCEPT ![o] = [row[o] EXCEPT !.state = "cancelled"]] BY <1>3, Zenon DEF SetRow
  <2>2. row'[o] = [row[o] EXCEPT !.state = "cancelled"] BY <2>1, Zenon DEF LedgerInv, Tables, Table
  <2>3. row'[o].state = "cancelled" BY <2>2, WriterKnown, Zenon DEF Rows
  <2>4. Settled(o) => Settled(o)' BY <1>1, <2>3, Zenon DEF Settled, Retiring, Abandoning
  <2> QED BY <1>1, <1>3, <2>4, CapacityReleased, Zenon
<1> QED BY <1>1, <1>2, <1>3, Zenon

\* CompleteRemoval keeps the invariant: the operation was not settled before.
LEMMA CapacityCompleteRemoval ==
  ASSUME CapacityInv, LedgerInv, LedgerInv', NEW o \in Ops, CompleteRemoval(o)
  PROVE  CapacityInv'
<1>1. /\ UNCHANGED <<disk, admission, faults>> /\ worker.op = o /\ At(o) = "removed"
      /\ SetRow(o, [row[o] EXCEPT !.state = "cancelled"]) /\ Bump
  BY WorkingOn, Zenon DEF CompleteRemoval
<1>2. \A q \in Ops : q # o => plan'[q] = plan[q] /\ retirement'[q] = retirement[q]
  BY Zenon DEF CompleteRemoval, LedgerInv, Tables, Table
<1>3. ~Settled(o)
  <2>1. retirement[o] = "journaled" \/ (plan[o].mode = "abandon" /\ ~plan[o].complete)
    BY <1>1, Now, Zenon DEF OpInv, PlanOK
  <2>2. CASE retirement[o] = "journaled" BY <2>2, Zenon DEF Settled, Retiring
  <2>3. CASE plan[o].mode = "abandon" /\ ~plan[o].complete
    <3>1. plan[o].mode # None BY <2>3, Zenon DEF None
    <3>2. row[o].state = "reserved" BY <2>3, <3>1, Now, Zenon DEF OpInv, PlanOK
    <3> QED BY <3>2, Zenon DEF Settled
  <2> QED BY <2>1, <2>2, <2>3, Zenon
<1> QED BY <1>1, <1>2, <1>3, CapacityReleased, Zenon

\* A sealed recording keeps the blocks of its prefix.
LEMMA CapacityCompleteSeal ==
  ASSUME CapacityInv, LedgerInv, LedgerInv', NEW o \in Ops, CompleteSeal(o)
  PROVE  CapacityInv'
<1> DEFINE m == [row[o] EXCEPT !.materialized = plan[o].retained]
           r == [m EXCEPT !.state = "published", !.bytes = plan[o].retained]
<1>1. /\ UNCHANGED <<disk, admission, retirement, faults>> /\ row[o].state = "reserved" /\ At(o) = "retained"
      /\ plan[o].retained <= row[o].bytes /\ SetRow(o, r) /\ Bump
  BY WorkingOn, Zenon DEF CompleteSeal, Publish
<1>2. \A q \in Ops : q # o => plan'[q] = plan[q] BY Zenon DEF CompleteSeal, LedgerInv, Tables, Table
<1>3. row[o] \in Rows BY WriterKnown, Zenon
<1>4. r.state = "published" /\ r.bytes = plan[o].retained /\ r.volume = row[o].volume BY <1>3, Zenon DEF Rows
<1>5. plan[o].mode = "seal" /\ disk[o].len = plan[o].retained BY <1>1, Now, Zenon DEF OpInv, PlanOK
<1>6. plan[o] # NoPlan BY <1>5 DEF NoPlan, None
<1>7. disk[o].len \in Nat BY Terms, Zenon DEF Weighs
<1> HIDE DEF m, r
<1>8. Claims(r, plan'[o], disk'[o]) = disk[o].len /\ Claims(row[o], plan[o], disk[o]) = disk[o].len
      /\ Allocated(r) = plan[o].retained /\ Allocated(row[o]) = row[o].bytes
  BY <1>1, <1>4, <1>6, ZenonT(60) DEF Claims, Allocated
<1>9. /\ Claims(r, plan'[o], disk'[o]) <= Claims(row[o], plan[o], disk[o]) /\ Allocated(r) <= Allocated(row[o])
      /\ ~Settled(o) /\ row[o].state # None
  BY <1>1, <1>7, <1>8, SMTT(30) DEF Settled, None
<1> QED BY <1>1, <1>2, <1>4, <1>9, ChargedTo, Zenon

\* The counters of a volume whose flags change.
LEMMA FlagsStep ==
  ASSUME CapacityInv, LedgerInv, LedgerInv', UNCHANGED <<row, plan, retirement, disk, writer, admission, faults>>,
         UNCHANGED fresh \/ Bump, SameCounters, RemovalOK'
  PROVE  CapacityInv'
<1>1. Housed BY House, Zenon
<1>2. RestTyped' BY <1>1, Zenon DEF Housed, RestTyped, SameCounters
<1>3. UNCHANGED row BY Zenon
<1>4. CountersExact' /\ FilesystemExact' BY <1>3, CountersKept, Zenon
<1>5. \A q \in Ops : Touch(q) BY Zenon DEF Touch
<1>6. \A q \in Ops : Lightens(q) /\ Base(q)' <= Base(q) BY <1>5, Touched, Zenon
<1>7. AdmittedFits' BY <1>4, <1>6, FitsLightened, Zenon
<1>8. \A q \in Ops : SampleOK(q)'
  <2>1. CASE Bump BY <2>1, SamplesBumped, Zenon
  <2>2. CASE UNCHANGED fresh
    <3>1. \A q \in Ops : SampleStays(q) BY <2>2, Zenon DEF SampleStays, Sampling
    <3>2. \A q \in Ops : row'[q].volume = row[q].volume BY <1>3, Zenon
    <3> QED BY <1>6, <3>1, <3>2, SamplesKept, Zenon
  <2> QED BY <2>1, <2>2, Zenon
<1> QED BY <1>2, <1>4, <1>7, <1>8, Zenon DEF CapacityInv

\* SetDraining keeps the invariant: it is refused for a volume that is leaving.
LEMMA CapacitySetDraining ==
  ASSUME CapacityInv, LedgerInv, LedgerInv', NEW v \in Operated, SetDraining(v)
  PROVE  CapacityInv'
<1>1. volume \in [Volumes -> VolumeRows] /\ v \in Volumes BY LedgerAssumption, Zenon DEF CapacityInv, RestTyped
<1>2. /\ UNCHANGED <<row, plan, retirement, disk, writer, admission, faults>> /\ Bump
      /\ volume[v].config = "running" /\ volume' = [volume EXCEPT ![v].draining = ~volume[v].draining]
  BY Zenon DEF SetDraining
<1>3. volume[v] \in VolumeRows BY <1>1, Zenon
<1>4. volume' = [u \in Volumes |-> IF u = v THEN [volume[v] EXCEPT !.draining = ~volume[v].draining] ELSE volume[u]]
  BY <1>1, <1>2, Zenon
<1>5. ASSUME NEW u \in Volumes
      PROVE  /\ volume'[u] \in VolumeRows /\ volume'[u].config = volume[u].config
             /\ volume'[u].allocated = volume[u].allocated /\ volume'[u].reserved = volume[u].reserved
             /\ u # v => volume'[u] = volume[u]
  BY <1>1, <1>3, <1>4, Zenon DEF VolumeRows
<1>6. SameCounters
  <2>1. volume' \in [Volumes -> VolumeRows] BY <1>4, <1>5, Zenon
  <2> QED BY <1>5, <2>1, Zenon DEF SameCounters
<1>7. RemovalOK'
  <2>1. \A u \in Volumes : volume'[u].config # "running" => volume'[u] = volume[u] BY <1>2, <1>5, Zenon
  <2> QED BY <1>2, <2>1, Zenon DEF CapacityInv, RemovalOK, Settled, Retiring, Abandoning
<1> QED BY <1>2, <1>6, <1>7, FlagsStep, Zenon

\* A volume is checked for removal only when its rows are cancelled: the counters say so.
LEMMA CheckedIsSettled ==
  ASSUME CapacityInv, LedgerInv, NEW v \in Volumes, CheckRemoval(v), NEW o \in Ops, row[o].volume = v
  PROVE  Settled(o)
<1> DEFINE f == AllocatedRows(v)
<1>1. f \in [Ops -> Nat] BY TermsNat, Zenon
<1>2. SumFunction(f) = 0
  <2>1. volume[v].allocated = SumFunction(f) BY Sums, Zenon DEF CapacityInv
  <2> QED BY <2>1, Zenon DEF CheckRemoval
<1>3. f[o] = Allocated(row[o]) BY Zenon DEF AllocatedRows
<1> HIDE DEF f
<1>4. f[o] = 0 BY <1>1, <1>2, SumNat, LedgerAssumption, ZenonT(60)
<1>5. Weighs(row[o], plan[o], disk[o]) BY Terms, Zenon
<1>6. row[o].state \notin {"reserved", "published"} BY <1>3, <1>4, <1>5, SMTT(30) DEF Weighs
<1>7. row[o].state = "cancelled"
  <2>1. row[o].state # None BY <1>5, LedgerAssumption, Zenon DEF Weighs, None
  <2> QED BY <1>5, <1>6, <2>1, Zenon DEF Weighs, Rows
<1>8. ~Retiring(o) /\ (plan[o].mode = None \/ plan[o].acknowledged) BY Zenon DEF CheckRemoval
<1>9. ~Abandoning(o) BY <1>8, Zenon DEF Abandoning, None
<1> QED BY <1>7, <1>8, <1>9, Zenon DEF Settled

\* The check and the save of a removal keep the invariant.
LEMMA CapacityCheckRemoval ==
  ASSUME CapacityInv, LedgerInv, LedgerInv', NEW v \in Operated, CheckRemoval(v) \/ SaveRemoval(v)
  PROVE  CapacityInv'
<1>1. volume \in [Volumes -> VolumeRows] /\ v \in Volumes BY LedgerAssumption, Zenon DEF CapacityInv, RestTyped
<1>2. PICK config \in Config : volume' = [volume EXCEPT ![v].config = config]
  BY Zenon DEF CheckRemoval, SaveRemoval, Config
<1>3. UNCHANGED <<row, plan, retirement, disk, writer, admission, faults, fresh>> BY Zenon DEF CheckRemoval, SaveRemoval
<1>4. volume[v] \in VolumeRows BY <1>1, Zenon
<1>5. volume' = [u \in Volumes |-> IF u = v THEN [volume[v] EXCEPT !.config = config] ELSE volume[u]]
  BY <1>1, <1>2, Zenon
<1>6. ASSUME NEW u \in Volumes
      PROVE  /\ volume'[u] \in VolumeRows /\ volume'[u].draining = volume[u].draining
             /\ volume'[u].allocated = volume[u].allocated /\ volume'[u].reserved = volume[u].reserved
             /\ u # v => volume'[u] = volume[u]
  BY <1>1, <1>2, <1>4, <1>5, SMTT(30) DEF VolumeRows
<1>7. SameCounters
  <2>1. volume' \in [Volumes -> VolumeRows] BY <1>5, <1>6, Zenon
  <2> QED BY <1>6, <2>1, Zenon DEF SameCounters
<1>8. volume[v].draining /\ \A q \in Ops : row[q].volume = v => Settled(q)
  <2>1. CASE CheckRemoval(v) BY <1>1, <2>1, CheckedIsSettled, Zenon DEF CheckRemoval
  <2>2. CASE SaveRemoval(v)
    <3>1. volume[v].config # "running" BY <2>2, Zenon DEF SaveRemoval
    <3> QED BY <1>1, <3>1, Zenon DEF CapacityInv, RemovalOK
  <2> QED BY <2>1, <2>2, Zenon
<1>9. RemovalOK'
  <2>1. \A q \in Ops : row'[q].volume = row[q].volume /\ (Settled(q) => Settled(q)')
    BY <1>3, Zenon DEF Settled, Retiring, Abandoning
  <2>2. ASSUME NEW u \in Volumes, volume'[u].config # "running"
        PROVE  volume'[u].draining /\ \A q \in Ops : row[q].volume = u => Settled(q)
    <3>1. CASE u = v BY <1>6, <1>8, <3>1, Zenon
    <3>2. CASE u # v BY <1>6, <2>2, <3>2, Zenon DEF CapacityInv, RemovalOK
    <3> QED BY <3>1, <3>2, Zenon
  <2> QED BY <2>1, <2>2, Zenon DEF RemovalOK
<1> QED BY <1>3, <1>7, <1>9, FlagsStep, Zenon

\* After a restart the removed volumes stay settled, the samples are gone and no file is longer.
LEMMA CapacityCrash ==
  ASSUME CapacityInv, LedgerInv, LedgerInv', Crash
  PROVE  CapacityInv'
<1>1. UNCHANGED <<row, plan, retirement>> /\ Bump /\ admission' = None /\ Fault BY Zenon DEF Crash, Bump
<1>2. Housed BY <1>1, House, Zenon
<1>3. volume \in [Volumes -> VolumeRows] BY Zenon DEF CapacityInv, RestTyped
<1>4. volume' = [v \in Volumes |-> [volume[v] EXCEPT !.config =
                    IF volume[v].config \in {"saved", "gone"} THEN "gone" ELSE "running"]]
  BY Zenon DEF Crash
<1>5. ASSUME NEW v \in Volumes
      PROVE  /\ volume'[v] \in VolumeRows /\ volume'[v].draining = volume[v].draining
             /\ volume'[v].allocated = volume[v].allocated /\ volume'[v].reserved = volume[v].reserved
             /\ volume'[v].config # "running" => volume[v].config # "running"
  <2> DEFINE c == IF volume[v].config \in {"saved", "gone"} THEN "gone" ELSE "running"
  <2>1. volume[v] \in VolumeRows /\ volume'[v] = [volume[v] EXCEPT !.config = c] BY <1>3, <1>4, Zenon
  <2>2. c \in Config /\ (c # "running" => volume[v].config # "running") BY Zenon DEF Config
  <2> HIDE DEF c
  <2> QED BY <2>1, <2>2, Zenon DEF VolumeRows
<1>6. SameCounters
  <2>1. volume' \in [Volumes -> VolumeRows] BY <1>4, <1>5, Zenon
  <2> QED BY <1>5, <2>1, Zenon DEF SameCounters
<1>7. RestTyped' BY <1>2, <1>6, Zenon DEF Housed, RestTyped, SameCounters
<1>8. \A v \in Volumes : volume'[v].config # "running" => volume[v].config # "running" /\ volume'[v].draining
  BY <1>5, Zenon DEF CapacityInv, RemovalOK
<1>9. ASSUME NEW q \in Ops PROVE Lightens(q)
  <2> PICK len \in [Ops -> 0 .. MaxLen],
           torn \in SUBSET {o \in Ops : disk[o].receipt = "written" \/ WritesReceipt(o)} :
         /\ \A o \in Ops : disk[o].synced <= len[o] /\ len[o] <= disk[o].len
         /\ disk' = [o \in Ops |-> [disk[o] EXCEPT !.len = len[o],
                                                   !.receipt = IF o \in torn THEN "torn" ELSE disk[o].receipt]]
    BY Zenon DEF Crash
  <2> DEFINE n == len[q]  c == IF q \in torn THEN "torn" ELSE disk[q].receipt
  <2>1. n <= disk[q].len /\ disk'[q] = [disk[q] EXCEPT !.len = n, !.receipt = c] BY Zenon
  <2> HIDE DEF n, c
  <2>2. disk'[q].len = n
    <3>1. disk[q] \in Files BY WriterKnown, Zenon
    <3> QED BY <2>1, <3>1, Zenon DEF Files
  <2>3. Touch(q) BY <1>1, <2>1, <2>2, Zenon DEF Touch
  <2> QED BY <2>3, Touched, Zenon
<1>10. UNCHANGED row BY <1>1, Zenon
<1> QED BY <1>1, <1>6, <1>7, <1>8, <1>9, <1>10, QuietStep, ZenonT(60)

-----------------------------------------------------------------------------
(* All steps together. *)

\* The empty ledger satisfies the invariant.
LEMMA CapacityInit == Init => CapacityInv
<1> SUFFICES ASSUME Init PROVE CapacityInv BY Zenon
<1>1. LedgerInv BY LedgerInit, Zenon
<1>2. volume = [v \in Volumes |-> [draining |-> FALSE, allocated |-> 0, reserved |-> 0, config |-> "running"]]
  BY Zenon DEF Init
<1>3. ASSUME NEW v \in Volumes
      PROVE  /\ volume[v] \in VolumeRows /\ volume[v].allocated = 0 /\ volume[v].reserved = 0
             /\ volume[v].config = "running"
  BY <1>2, SMTT(30) DEF VolumeRows, Config
<1>4. RestTyped
  <2>1. volume \in [Volumes -> VolumeRows] BY <1>2, <1>3, ZenonT(60)
  <2>2. faults \in 0 .. MaxFaults BY LedgerAssumption DEF Init
  <2> QED BY <2>1, <2>2, Zenon DEF Init, RestTyped
<1>5. ASSUME NEW o \in Ops
      PROVE  /\ row[o].volume = None /\ row[o].state = None /\ Allocated(row[o]) = 0 /\ Unmaterialized(row[o]) = 0
             /\ ~fresh[o]
  BY Zenon DEF Init, Allocated, Unmaterialized, None
<1>6. CountersExact
  <2>1. ASSUME NEW v \in Volumes
        PROVE  SumFunction(AllocatedRows(v)) = 0 /\ SumFunction(PendingRows(v)) = 0
    <3>1. \A o \in Ops : AllocatedRows(v)[o] = 0 /\ PendingRows(v)[o] = 0 BY <1>5, Zenon DEF AllocatedRows, PendingRows
    <3>2. AllocatedRows(v) \in [Ops -> Int] /\ PendingRows(v) \in [Ops -> Int] BY <1>1, TermsNat, SumOf, Zenon
    <3> QED BY <3>1, <3>2, SumZero, LedgerAssumption, ZenonT(60)
  <2> QED BY <1>3, <2>1, Zenon DEF CountersExact, AllocatedRows, PendingRows
<1>7. FilesystemExact
  <2>1. ASSUME NEW d \in Filesystems PROVE ReservedOn(d) = SumFunction(PendingOn(d))
    <3> DEFINE f == [v \in Volumes |-> IF Filesystem[v] = d THEN volume[v].reserved ELSE 0]   g == PendingOn(d)
    <3>1. f \in [Volumes -> Int] /\ \A v \in Volumes : f[v] = 0 BY <1>3
    <3>2. g \in [Ops -> Int] /\ \A o \in Ops : g[o] = 0
      <4>1. g \in [Ops -> Int] BY <1>1, TermsNat, SumOf, Zenon
      <4>2. \A o \in Ops : g[o] = 0 BY <1>5, Zenon DEF PendingOn
      <4> QED BY <4>1, <4>2, Zenon
    <3>3. ReservedOn(d) = SumFunction(f) BY Zenon DEF ReservedOn
    <3> HIDE DEF f, g
    <3>4. SumFunction(f) = 0 /\ SumFunction(g) = 0 BY <3>1, <3>2, SumZero, LedgerAssumption, ZenonT(60)
    <3> QED BY <3>3, <3>4, ZenonT(60) DEF g
  <2> QED BY <2>1, Zenon DEF FilesystemExact
<1>8. AdmittedFits
  <2>1. ASSUME NEW v \in Volumes PROVE volume[v].allocated <= Limit[v] BY <1>3, LedgerAssumption, SMTT(30)
  <2>2. ASSUME NEW d \in Filesystems PROVE SumFunction(ClaimedOn(d)) + MinimumOn(d) <= Capacity[d]
    <3> DEFINE g == ClaimedOn(d)
    <3>1. g \in [Ops -> Int] BY <1>1, TermsNat, SumOf, Zenon
    <3>2. \A o \in Ops : g[o] = 0 BY <1>5, Zenon DEF ClaimedOn, OnFilesystem
    <3> HIDE DEF g
    <3>3. SumFunction(g) = 0 BY <3>1, <3>2, SumZero, LedgerAssumption, ZenonT(60)
    <3>4. PICK v \in Volumes : Filesystem[v] = d BY Zenon DEF Filesystems
    <3>5. MinimumOn(d) \in Int /\ MinimumOn(d) <= Minimum[v] BY <3>4, MinimumIs, Zenon
    <3>6. Minimum[v] \in Int /\ Capacity[d] \in Int /\ Minimum[v] <= Capacity[d] BY <3>4, LedgerAssumption
    <3> QED BY <3>3, <3>5, <3>6, SMTT(30) DEF g
  <2> QED BY <2>1, <2>2, Sums, ZenonT(60)
<1>9. RemovalOK BY <1>3, Zenon DEF RemovalOK
<1>10. \A o \in Ops : SampleOK(o) BY <1>5, Zenon DEF SampleOK, Sampling
<1> QED BY <1>4, <1>6, <1>7, <1>8, <1>9, <1>10, ZenonT(60) DEF CapacityInv

\* Every step of a writer or of the worker keeps the invariant.
LEMMA CapacityOfOp ==
  ASSUME CapacityInv, LedgerInv, LedgerInv', NEW o \in Ops, WriterStep(o) \/ WorkerStep(o)
  PROVE  CapacityInv'
<1>1. ASSUME PlaceRefused(o) PROVE CapacityInv' BY <1>1, CapacityPressure, Zenon DEF PlaceRefused
<1>2. ASSUME WriterStep(o) PROVE CapacityInv'
  BY <1>1, <1>2, CapacityPlace, CapacityReadRevision, CapacityProbe, CapacityReserve, CapacityDrop, CapacityOpen,
     CapacityMaterialize, CapacityInitialize, CapacityFlush, CapacityWrite, CapacityWriteFull, CapacityGrow,
     CapacityGrowRefused, CapacityIndexFragment, CapacityEvidence, CapacityFinalize, ZenonT(60) DEF WriterStep
<1>3. ASSUME WorkerStep(o) PROVE CapacityInv'
  BY <1>3, CapacityAside, CapacityReleaseUnopened, CapacityBeginRecovery, CapacityRetainPrefix, CapacityCompleteSeal,
     CapacityCompleteRemoval, CapacityAcknowledge, ZenonT(60) DEF WorkerStep
<1> QED BY <1>2, <1>3, Zenon

\* Every step keeps the invariant.
LEMMA CapacityNext == CapacityInv /\ LedgerInv /\ LedgerInv' /\ [Next]_vars => CapacityInv'
<1> SUFFICES ASSUME CapacityInv, LedgerInv, LedgerInv', [Next]_vars PROVE CapacityInv' BY Zenon
<1>1. ASSUME UNCHANGED vars PROVE CapacityInv'
  <2>1. UNCHANGED <<row, volume, plan, retirement, disk, fresh, admission, writer, faults>>
    BY <1>1, Zenon DEF vars, catalog
  <2>2. \A q \in Ops : Touch(q) BY <2>1, Zenon DEF Touch
  <2> QED BY <2>1, <2>2, OthersCalm, Zenon
<1>2. ASSUME NEW v \in Volumes, CheckPressure(v) PROVE CapacityInv'
  BY <1>2, CapacityPressure, Zenon DEF CheckPressure
<1>3. ASSUME NEW v \in Operated, SetDraining(v) \/ CheckRemoval(v) \/ SaveRemoval(v) PROVE CapacityInv'
  BY <1>3, CapacitySetDraining, CapacityCheckRemoval, Zenon
<1> QED BY <1>1, <1>2, <1>3, CapacityOfOp, CapacityAside, CapacityTear, CapacityQueueExpiry, CapacityCrash, ZenonT(60) DEF Next
=============================================================================
