------------------------- MODULE VolumeLedgerInvariant -------------------------
(***************************************************************************)
(* The inductive invariant of VolumeLedger, with the facts both halves of  *)
(* its proof need: sums over functions, least and largest elements, what a *)
(* step does to the entries of one operation, and what the invariant says  *)
(* of the writer, the worker and a round of retirements.                   *)
(***************************************************************************)
EXTENDS VolumeLedger, FiniteSetTheorems, TLAPS

-----------------------------------------------------------------------------
(* The invariant of one operation, over the values that belong to it: its  *)
(* writer w, row r, file d, index entry x, recovery plan p, retirement t,  *)
(* lease l, the step k of the worker on it, and b, whether it is read.     *)

\* The steps of a writer before it has its lease, while it opens its file, and while it records.
Before == {"idle", "placed", "revised"}
Opening == {"reserve", "reserved", "created", "opened"}
Recording == {"active", "flushing", "full", "checkpointed", "locked", "growRevised", "grow", "refused",
              "sealing", "finalize"}

\* Who may touch the operation, and what its row is while it has a writer.
LeaseOK(w, r, p, t, l, k) ==
  /\ w.pc \notin Before \cup {"gone"} => l = "writer"
  /\ l = "writer" => p = NoPlan /\ r.state \in {None, "reserved"}
  /\ k # "idle" => l = "worker" /\ r.state # None
  /\ w.pc \in Before => r.state = None /\ p = NoPlan /\ t = None /\ l = None
  /\ w.pc \notin Before \cup {"gone", "reserve"} => r.state = "reserved"

\* The row, and the writer's view of its reservation.
RowOK(w, r) ==
  /\ r.state = None => r.volume = None /\ r.bytes = 0 /\ r.materialized = 0
  /\ r.state # None => r.volume \in Volumes
  /\ r.state \in {"reserved", "published"} => r.bytes >= 1
  /\ r.state = "reserved" => r.materialized <= r.bytes
  /\ r.state = "reserved" /\ w.pc # "gone" => r.volume = w.target /\ w.bytes <= r.bytes
  /\ w.pc \notin {"idle", "gone"} => w.target \in Volumes
  /\ w.pc \in Before \cup {"reserve"} => w.bytes = 0

\* The file, against the row and the progress of its writer or of the worker.
FileOK(w, r, d, p, k) ==
  /\ d.synced <= d.len
  /\ ~d.exists => d.len = 0
  /\ d.exists => r.state \in {"reserved", "published"}
  /\ r.state = "reserved" => d.len <= r.bytes
  /\ r.state = "reserved" /\ p = NoPlan => r.materialized <= d.synced
  /\ w.pc \notin Before \cup {"gone", "reserve", "reserved"} => d.exists
  /\ w.pc \in Before \cup {"reserve", "reserved"} => ~d.exists
  /\ k \in {"absent", "removed"} => ~d.exists

\* The index never names what the writer has not stored.
IndexOK(w, d, x, t) ==
  /\ w.pc \in Before \cup Opening => x.fragments = {}
  /\ w.pc \in Recording => x.recording = "open"
  /\ w.pc # "gone" => \A f \in x.fragments : f <= d.len
  /\ x.fragments # {} /\ t = None => d.exists

\* What the writer has buffered follows what it has written.
BufferOK(w, d) ==
  /\ w.pc \in {"created", "opened"} => d.len = 0
  /\ w.pc \in Recording => 1 <= d.len + w.buffered /\ d.len + w.buffered <= MaxLen
  /\ w.pc \in Recording \ {"active"} /\ w.flush \in {"next", "last"} => d.len + w.buffered >= 2
  /\ w.pc \in Recording \ {"active", "sealing", "finalize"} => w.flush # None
  /\ w.pc \in {"sealing", "finalize"} => w.buffered = 0
  /\ w.pc = "finalize" => d.synced = d.len

\* A recovery plan, and how far the worker is with it.
PlanOK(r, d, x, p, t, k) ==
  /\ p.mode = None => p = NoPlan
  /\ p.mode = "seal" => /\ 1 <= p.retained /\ p.retained <= p.original
                        /\ \A f \in x.fragments : f <= p.original => f <= p.retained
  /\ p.mode # None => r.identity /\ (r.state = "reserved" <=> ~p.complete)
  /\ p.mode = "abandon" => x.fragments = {} /\ r.state \in {"reserved", "cancelled"} /\ t = None
  /\ k = "retained" => /\ p.mode = "seal" /\ ~p.complete /\ d.exists
                       /\ d.len = p.retained /\ d.synced = p.retained
  /\ k = "removed" => t = "journaled" \/ (p.mode = "abandon" /\ ~p.complete)

\* A published recording is whole until its retirement removes it.
PublishedOK(r, d, x, t) ==
  /\ t # None => r.state \in {"published", "cancelled"}
  /\ t \in {"complete", "acknowledged"} => r.state = "cancelled"
  /\ r.state = "published" /\ (d.exists \/ t # "journaled") =>
       /\ d.exists /\ d.len = r.bytes /\ d.synced = r.bytes
       /\ x.recording = "final" /\ x.fragments \subseteq 1 .. r.bytes

\* A recording that is read keeps its file.
ReadOK(r, d, x, p, k, b) ==
  b = "open" => /\ d.exists /\ p.mode # "abandon" /\ k # "removed"
                /\ p.mode = None => x.fragments # {}

\* The steps of the worker on an operation.
WorkerPcs == {"idle", "work", "absent", "retained", "removed"}

\* The types of the values.
Typed(w, r, d, x, p, t, l, k, b) ==
  /\ w \in Writers /\ r \in Rows /\ d \in Files /\ x \in Entries /\ p \in Plans /\ t \in Retirements
  /\ l \in {None, "writer", "worker"} /\ k \in WorkerPcs /\ b \in {None, "open"}

\* The invariant of one operation.
OpInv(w, r, d, x, p, t, l, k, b) ==
  /\ Typed(w, r, d, x, p, t, l, k, b)
  /\ LeaseOK(w, r, p, t, l, k)
  /\ RowOK(w, r)
  /\ FileOK(w, r, d, p, k)
  /\ IndexOK(w, d, x, t)
  /\ BufferOK(w, d)
  /\ PlanOK(r, d, x, p, t, k)
  /\ PublishedOK(r, d, x, t)
  /\ ReadOK(r, d, x, p, k, b)

\* The worker's step on the operation, and whether the operation is read.
At(o) == IF worker.op = o THEN worker.pc ELSE "idle"
Read(o) == IF o \in reading THEN "open" ELSE None

\* The invariant of one operation, of the values it has.
Holds(o) == OpInv(writer[o], row[o], disk[o], index[o], plan[o], retirement[o], lease[o], At(o), Read(o))

\* A table has an entry for every operation.
Table(f) == f = [o \in Ops |-> f[o]]

\* Every table has its entries, and the worker rests or works on an operation.
Tables ==
  /\ Table(writer) /\ Table(row) /\ Table(disk) /\ Table(index) /\ Table(plan) /\ Table(retirement)
  /\ Table(lease) /\ reading \subseteq Ops
  /\ worker = Resting \/ worker \in [pc : WorkerPcs \ {"idle"}, op : Ops]

\* The inductive invariant.
LedgerInv == Tables /\ \A o \in Ops : Holds(o)

-----------------------------------------------------------------------------
(* Sums, least and largest elements. *)

\* A nonempty set of natural numbers has a least element.
LEMMA LeastNat ==
  ASSUME NEW T \in SUBSET Nat, T # {}
  PROVE  \E x \in T : \A y \in T : x <= y
<1> DEFINE R == OpToRel(<, Nat)
<1>1. PICK x \in T : \A y \in T : ~(<<y, x>> \in R)
  BY WFMin, NatLessThanWellFounded, Zenon
<1>2. \A y \in T : ~(y < x)
  BY <1>1, Zenon DEF OpToRel
<1> QED BY <1>2

\* Among any subsets of a finite set there is one that holds no other of them with one element less.
LEMMA SmallestSubset ==
  ASSUME NEW A, IsFiniteSet(A), NEW U \in SUBSET (SUBSET A), U # {}
  PROVE  \E s \in U : \A x \in s : s \ {x} \notin U
<1> DEFINE T == {Cardinality(s) : s \in U}
<1>1. \A s \in U : IsFiniteSet(s) /\ Cardinality(s) \in Nat BY FS_Subset, FS_CardinalityType, Zenon
<1>2. T \in SUBSET Nat /\ T # {} BY <1>1
<1>3. PICK n \in T : \A m \in T : n <= m BY <1>2, LeastNat, Zenon
<1>4. PICK s \in U : n = Cardinality(s) BY <1>3
<1>5. ASSUME NEW x \in s, s \ {x} \in U PROVE FALSE
  <2>1. Cardinality(s \ {x}) = Cardinality(s) - 1 BY <1>1, FS_RemoveElement
  <2>2. Cardinality(s \ {x}) \in T BY <1>5
  <2>3. n <= Cardinality(s \ {x}) BY <1>3, <2>2, Zenon
  <2>4. Cardinality(s) \in Nat BY <1>1
  <2> HIDE DEF T
  <2> QED BY <1>4, <2>1, <2>3, <2>4
<1> QED BY <1>5

\* g holds the sum of f over every subset of A.
Additive(f, A, g) ==
  /\ g \in [SUBSET A -> Int] /\ g[{}] = 0
  /\ \A s \in SUBSET A : \A x \in s : g[s] = f[x] + g[s \ {x}]

\* The sums over the subsets exist.
LEMMA SumsExist ==
  ASSUME NEW A, IsFiniteSet(A), NEW f \in [A -> Int]
  PROVE  \E g : Additive(f, A, g)
<1> DEFINE U == {s \in SUBSET A : ~\E g : Additive(f, s, g)}
<1> SUFFICES ASSUME U # {} PROVE FALSE OBVIOUS
<1>1. PICK s \in U : \A x \in s : s \ {x} \notin U BY SmallestSubset, Zenon
<1>2. s # {}
  <2>1. Additive(f, {}, [q \in SUBSET {} |-> 0]) BY DEF Additive
  <2> QED BY <1>1, <2>1, Zenon
<1>3. PICK a : a \in s BY <1>2
<1> DEFINE u == s \ {a}
<1>4. PICK g : Additive(f, u, g) BY <1>1, <1>3
<1> DEFINE h == [q \in SUBSET s |-> IF a \in q THEN f[a] + g[q \ {a}] ELSE g[q]]
<1>5. f[a] \in Int BY <1>3
<1>6. \A q \in SUBSET s : (q \ {a}) \in SUBSET u /\ (a \notin q => q \in SUBSET u) OBVIOUS
<1>7. h \in [SUBSET s -> Int] /\ h[{}] = 0 BY <1>4, <1>5, <1>6 DEF Additive
<1>8. ASSUME NEW q \in SUBSET s, NEW x \in q PROVE h[q] = f[x] + h[q \ {x}]
  <2>1. f[x] \in Int OBVIOUS
  <2>2. CASE x = a BY <2>2, <1>6
  <2>3. CASE x # a /\ a \notin q
    <3>1. g[q] = f[x] + g[q \ {x}] BY <2>3, <1>4, <1>6 DEF Additive
    <3> QED BY <2>3, <3>1
  <2>4. CASE x # a /\ a \in q
    <3>1. x \in q \ {a} /\ a \in q \ {x} /\ (q \ {a}) \ {x} = (q \ {x}) \ {a} BY <2>4
    <3>2. g[q \ {a}] = f[x] + g[(q \ {a}) \ {x}] BY <3>1, <1>4, <1>6, Zenon DEF Additive
    <3>3. g[q \ {a}] = f[x] + g[(q \ {x}) \ {a}] BY <3>1, <3>2, Zenon
    <3>4. h[q] = f[a] + g[q \ {a}] BY <2>4
    <3>5. h[q \ {x}] = f[a] + g[(q \ {x}) \ {a}] BY <2>4, <3>1
    <3>6. g[(q \ {x}) \ {a}] \in Int BY <3>1, <1>4, <1>6 DEF Additive
    <3> HIDE DEF h
    <3> QED BY <1>5, <2>1, <3>3, <3>4, <3>5, <3>6
  <2> QED BY <2>2, <2>3, <2>4
<1> HIDE DEF h
<1>9. Additive(f, s, h) BY <1>7, <1>8 DEF Additive
<1> QED BY <1>1, <1>9

\* SumFunction is the sum over all.
LEMMA SumIs ==
  ASSUME NEW A, IsFiniteSet(A), NEW f \in [A -> Int], NEW g, Additive(f, A, g)
  PROVE  SumFunction(f) = g[A]
<1> DEFINE ch(s) == CHOOSE x \in s : TRUE
           Body(it) == [s \in SUBSET A |-> IF s = {} THEN 0 ELSE f[ch(s)] + it[s \ {ch(s)}]]
           iter == CHOOSE it : it = Body(it)
<1>1. DOMAIN f = A OBVIOUS
<1>2. SumFunction(f) = iter[A]
  BY <1>1 DEF SumFunction, SumFunctionOnSet, FoldFunctionOnSet, MapThenFoldSet
<1>3. \A s \in SUBSET A : s # {} => ch(s) \in s OBVIOUS
<1>4. g = Body(g)
  <2>1. \A s \in SUBSET A : g[s] = Body(g)[s] BY <1>3, Zenon DEF Additive
  <2> QED BY <2>1, Zenon DEF Additive
<1>5. iter = Body(iter) BY <1>4, Zenon
<1> HIDE DEF iter
<1>6. \A s \in SUBSET A : iter[s] = IF s = {} THEN 0 ELSE f[ch(s)] + iter[s \ {ch(s)}] BY <1>5
<1> DEFINE U == {s \in SUBSET A : iter[s] # g[s]}
<1>7. U = {}
  <2> SUFFICES ASSUME U # {} PROVE FALSE OBVIOUS
  <2>1. PICK s \in U : \A x \in s : s \ {x} \notin U BY SmallestSubset, Zenon
  <2>2. s # {} BY <2>1, <1>6, Zenon DEF Additive
  <2>3. iter[s \ {ch(s)}] = g[s \ {ch(s)}] BY <2>1, <2>2, <1>3, Zenon
  <2>4. g[s] = f[ch(s)] + g[s \ {ch(s)}] BY <2>2, <1>3, Zenon DEF Additive
  <2>5. iter[s] = f[ch(s)] + iter[s \ {ch(s)}] BY <2>2, <1>6
  <2> QED BY <2>1, <2>3, <2>4, <2>5
<1> QED BY <1>2, <1>7

\* A sum of integers is an integer.
LEMMA SumInt ==
  ASSUME NEW A, IsFiniteSet(A), NEW f \in [A -> Int]
  PROVE  SumFunction(f) \in Int
<1>1. PICK g : Additive(f, A, g) BY SumsExist
<1>2. g[A] \in Int BY <1>1 DEF Additive
<1> QED BY <1>1, <1>2, SumIs

\* A sum changes with each of its terms.
LEMMA SumUpdate ==
  ASSUME NEW A, IsFiniteSet(A), NEW f \in [A -> Int], NEW h \in [A -> Int], NEW x \in A,
         \A y \in A : y # x => h[y] = f[y]
  PROVE  SumFunction(h) = SumFunction(f) - f[x] + h[x]
<1>1. PICK g : Additive(f, A, g) BY SumsExist
<1> DEFINE e == [s \in SUBSET A |-> IF x \in s THEN g[s] - f[x] + h[x] ELSE g[s]]
<1>2. f[x] \in Int /\ h[x] \in Int OBVIOUS
<1>3. e \in [SUBSET A -> Int] /\ e[{}] = 0 BY <1>1, <1>2 DEF Additive
<1>4. ASSUME NEW s \in SUBSET A, NEW y \in s PROVE e[s] = h[y] + e[s \ {y}]
  <2>1. g[s] = f[y] + g[s \ {y}] /\ g[s \ {y}] \in Int /\ f[y] \in Int BY <1>1 DEF Additive
  <2>2. CASE y = x BY <2>1, <2>2, <1>2
  <2>3. CASE y # x
    <3>1. h[y] = f[y] BY <2>3
    <3> QED BY <2>1, <2>3, <3>1, <1>2
  <2> QED BY <2>2, <2>3
<1> HIDE DEF e
<1>5. Additive(h, A, e) BY <1>3, <1>4 DEF Additive
<1>6. SumFunction(h) = e[A] /\ SumFunction(f) = g[A] BY <1>1, <1>5, SumIs
<1> QED BY <1>6 DEF e

\* A sum is bounded by the sums of what bounds its terms.
LEMMA SumBound ==
  ASSUME NEW A, IsFiniteSet(A), NEW f \in [A -> Int], NEW h \in [A -> Int], NEW e \in [A -> Int],
         \A x \in A : f[x] <= h[x] + e[x]
  PROVE  SumFunction(f) <= SumFunction(h) + SumFunction(e)
<1>1. PICK gf : Additive(f, A, gf) BY SumsExist
<1>2. PICK gh : Additive(h, A, gh) BY SumsExist
<1>3. PICK ge : Additive(e, A, ge) BY SumsExist, SMTT(30)
<1> DEFINE U == {s \in SUBSET A : ~(gf[s] <= gh[s] + ge[s])}
<1>4. U = {}
  <2> SUFFICES ASSUME U # {} PROVE FALSE OBVIOUS
  <2>1. PICK s \in U : \A x \in s : s \ {x} \notin U BY SmallestSubset, Zenon
  <2>2. s # {}
    <3>1. gf[{}] = 0 /\ gh[{}] = 0 /\ ge[{}] = 0 BY <1>1, <1>2, <1>3, Zenon DEF Additive
    <3>2. gf[{}] <= gh[{}] + ge[{}] BY <3>1
    <3> QED BY <2>1, <3>2, Zenon
  <2>3. PICK x : x \in s BY <2>2
  <2>4. gf[s \ {x}] <= gh[s \ {x}] + ge[s \ {x}] BY <2>1, <2>3, Zenon
  <2>5. gf[s] = f[x] + gf[s \ {x}] /\ gh[s] = h[x] + gh[s \ {x}] /\ ge[s] = e[x] + ge[s \ {x}]
    BY <2>3, <1>1, <1>2, <1>3, Zenon DEF Additive
  <2>6. gf[s \ {x}] \in Int /\ gh[s \ {x}] \in Int /\ ge[s \ {x}] \in Int /\ f[x] \in Int /\ h[x] \in Int /\ e[x] \in Int
    BY <2>3, <1>1, <1>2, <1>3 DEF Additive
  <2> QED BY <2>1, <2>3, <2>4, <2>5, <2>6, SMTT(30)
<1>5. SumFunction(f) = gf[A] /\ SumFunction(h) = gh[A] /\ SumFunction(e) = ge[A]
  BY <1>1, <1>2, <1>3, SumIs
<1> QED BY <1>4, <1>5

\* The sum of nothing but zeros.
LEMMA SumZero ==
  ASSUME NEW A, IsFiniteSet(A)
  PROVE  SumFunction([x \in A |-> 0]) = 0
<1> DEFINE g == [s \in SUBSET A |-> 0]
<1>1. Additive([x \in A |-> 0], A, g) BY DEF Additive
<1> QED BY <1>1, SumIs

\* A sum is monotone.
LEMMA SumMonotone ==
  ASSUME NEW A, IsFiniteSet(A), NEW f \in [A -> Int], NEW h \in [A -> Int], \A x \in A : f[x] <= h[x]
  PROVE  SumFunction(f) <= SumFunction(h)
<1> DEFINE z == [x \in A |-> 0]
<1>1. z \in [A -> Int] /\ \A x \in A : f[x] <= h[x] + z[x] OBVIOUS
<1>2. SumFunction(z) = 0 BY SumZero
<1> HIDE DEF z
<1> QED BY <1>1, <1>2, SumBound, SumInt

\* A sum of natural numbers is one, and is zero only if all its terms are.
LEMMA SumNat ==
  ASSUME NEW A, IsFiniteSet(A), NEW f \in [A -> Nat]
  PROVE  SumFunction(f) \in Nat /\ (SumFunction(f) = 0 => \A x \in A : f[x] = 0)
<1> DEFINE z == [x \in A |-> 0]
<1>1. SumFunction(z) = 0 BY SumZero
<1>2. ASSUME NEW h \in [A -> Nat] PROVE SumFunction(h) \in Int /\ 0 <= SumFunction(h)
  <2>1. z \in [A -> Int] /\ h \in [A -> Int] /\ \A x \in A : z[x] <= h[x] OBVIOUS
  <2> HIDE DEF z
  <2> QED BY <1>1, <2>1, SumMonotone, SumInt
<1>3. ASSUME NEW x \in A, SumFunction(f) = 0 PROVE f[x] = 0
  <2> DEFINE h == [y \in A |-> IF y = x THEN 0 ELSE f[y]]
  <2>1. h \in [A -> Nat] /\ h \in [A -> Int] /\ f \in [A -> Int] OBVIOUS
  <2>2. \A y \in A : y # x => h[y] = f[y] OBVIOUS
  <2>3. h[x] = 0 /\ f[x] \in Nat OBVIOUS
  <2> HIDE DEF h
  <2>4. SumFunction(h) = SumFunction(f) - f[x] + h[x] BY <2>1, <2>2, SumUpdate
  <2>5. 0 <= SumFunction(h) BY <1>2, <2>1
  <2> QED BY <1>3, <2>3, <2>4, <2>5
<1> QED BY <1>2, <1>3

\* The least element of a set of natural numbers.
LEMMA MinIs ==
  ASSUME NEW T \in SUBSET Nat, T # {}
  PROVE  Min(T) \in T /\ \A x \in T : Min(T) <= x
<1>1. \E x \in T : \A y \in T : x <= y BY LeastNat
<1> QED BY <1>1, Zenon DEF Min

\* The largest element of a set of natural numbers that has a bound.
LEMMA MaxIs ==
  ASSUME NEW n \in Nat, NEW T \in SUBSET (0 .. n), T # {}
  PROVE  Max(T) \in T /\ \A x \in T : x <= Max(T)
<1> DEFINE U == {n - x : x \in T}
<1>1. U \in SUBSET Nat /\ U # {}
  <2>1. \A x \in T : n - x \in Nat OBVIOUS
  <2> QED BY <2>1, Zenon
<1>2. PICK u \in U : \A y \in U : u <= y BY <1>1, LeastNat, Zenon
<1>3. PICK x \in T : u = n - x BY <1>2
<1>4. ASSUME NEW y \in T PROVE x >= y
  <2>1. n - y \in U OBVIOUS
  <2>2. u <= n - y BY <1>2, <2>1
  <2> QED BY <1>3, <2>2
<1>5. \E z \in T : \A y \in T : z >= y BY <1>4
<1>6. Max(T) \in T /\ \A y \in T : Max(T) >= y BY <1>5, Zenon DEF Max
<1> QED BY <1>6

\* The smaller of two integers.
LEMMA MinOfTwo ==
  ASSUME NEW a \in Int, NEW c \in Int
  PROVE  Min({a, c}) \in Int /\ Min({a, c}) \in {a, c} /\ Min({a, c}) <= a /\ Min({a, c}) <= c
<1>1. \E x \in {a, c} : \A y \in {a, c} : x <= y OBVIOUS
<1> QED BY <1>1 DEF Min

\* The smallest of three integers is one.
LEMMA MinOfThree ==
  ASSUME NEW a \in Int, NEW c \in Int, NEW e \in Int
  PROVE  Min({a, c, e}) \in Int
<1>1. \E x \in {a, c, e} : \A y \in {a, c, e} : x <= y OBVIOUS
<1> QED BY <1>1 DEF Min

\* The larger of two integers.
LEMMA MaxOfTwo ==
  ASSUME NEW a \in Int, NEW c \in Int
  PROVE  Max({a, c}) = IF a <= c THEN c ELSE a
<1>1. \E x \in {a, c} : \A y \in {a, c} : x >= y OBVIOUS
<1> QED BY <1>1 DEF Max

-----------------------------------------------------------------------------
(* A step changes the entries of one operation. *)

\* The entry of o becomes e, the others stay.
To(o, f, g, e) == Table(g) /\ g[o] = e /\ \A q \in Ops : q # o => g[q] = f[q]

\* The same for retirements, where a published recording may be journaled on the way.
RetirementTo(o, t) ==
  /\ Table(retirement') /\ retirement'[o] = t
  /\ \A q \in Ops : \/ q = o \/ retirement'[q] = retirement[q]
                    \/ retirement[q] = None /\ row[q].state = "published" /\ retirement'[q] = "journaled"

\* The same for the step of the worker and for the readers.
WorkerTo(o, k) ==
  /\ worker' = Resting \/ worker' \in [pc : WorkerPcs \ {"idle"}, op : Ops]
  /\ At(o)' = k /\ \A q \in Ops : q # o => At(q)' = At(q)
ReadTo(o, b) == reading' \subseteq Ops /\ Read(o)' = b /\ \A q \in Ops : q # o => Read(q)' = Read(q)

-----------------------------------------------------------------------------
(* What the invariant says of a writer, of the worker and of a round of retirements. *)

\* The invariant of an operation.
LEMMA Now ==
  ASSUME LedgerInv, NEW o \in Ops
  PROVE  OpInv(writer[o], row[o], disk[o], index[o], plan[o], retirement[o], lease[o], At(o), Read(o))
BY Zenon DEF LedgerInv, Holds

\* What is known of a writer.
LEMMA WriterKnown ==
  ASSUME LedgerInv, NEW o \in Ops
  PROVE  /\ writer[o] \in Writers /\ row[o] \in Rows /\ disk[o] \in Files /\ index[o] \in Entries
         /\ writer[o].pc \notin {"idle", "gone"} => writer[o].target \in Volumes
         /\ writer[o].pc \notin {"idle", "gone", "placed", "revised"} =>
              lease[o] = "writer" /\ plan[o] = NoPlan
         /\ writer[o].pc \notin {"idle", "gone", "placed", "revised", "reserve"} =>
              row[o].state = "reserved" /\ row[o].volume = writer[o].target
<1>1. OpInv(writer[o], row[o], disk[o], index[o], plan[o], retirement[o], lease[o], At(o), Read(o)) BY Now
<1> QED BY <1>1, Zenon DEF OpInv, Typed, LeaseOK, RowOK, Before

\* What the next write needs lies within what is buffered.
LEMMA NeededWithin ==
  ASSUME LedgerInv, NEW o \in Ops
  PROVE  /\ Needed(o) \in Int /\ disk[o].len <= Needed(o) /\ Needed(o) <= disk[o].len + writer[o].buffered
         /\ writer[o].buffered > 0 => disk[o].len < Needed(o)
         /\ disk[o].len \in Int /\ writer[o].buffered \in Int
<1>1. disk[o].len \in Nat /\ writer[o].buffered \in Nat /\ writer[o].buffered \in Int
  BY WriterKnown, LedgerAssumption DEF Files, Writers
<1>2. GrowthBytes \in Int /\ GrowthBytes > 0 BY LedgerAssumption
<1> DEFINE m == Min({writer[o].buffered, GrowthBytes})
<1>3. m \in Int /\ m \in {writer[o].buffered, GrowthBytes} /\ m <= writer[o].buffered BY <1>1, <1>2, MinOfTwo, Zenon
<1>4. Needed(o) = disk[o].len + m BY DEF Needed
<1> HIDE DEF m
<1> QED BY <1>1, <1>2, <1>3, <1>4, SMTT(30)

\* What a writer asks for is an integer.
LEMMA GrowthRequestInt ==
  ASSUME LedgerInv, NEW o \in Ops, writer[o].target \in Volumes
  PROVE  GrowthRequest(o) \in Int
<1> DEFINE a == ((Needed(o) + GrowthBytes - 1) \div GrowthBytes) * GrowthBytes
<1>1. Needed(o) \in Int BY NeededWithin, Zenon
<1>2. GrowthBytes \in Int /\ GrowthBytes > 0 /\ Limit[writer[o].target] \in Int BY LedgerAssumption
<1>3. a \in Int
  <2>1. (Needed(o) + GrowthBytes - 1) \div GrowthBytes \in Int BY <1>1, <1>2
  <2> QED BY <1>2, <2>1
<1>4. writer[o].bytes + GrowthBytes \in Int BY <1>2, WriterKnown DEF Writers
<1>5. GrowthRequest(o) = IF writer[o].attempt = 0
                         THEN Min({a, Limit[writer[o].target], writer[o].bytes + GrowthBytes})
                         ELSE Needed(o)
  BY DEF GrowthRequest
<1> DEFINE limit == Limit[writer[o].target]
           grown == writer[o].bytes + GrowthBytes
<1> HIDE DEF a, limit, grown
<1>6. limit \in Int /\ grown \in Int BY <1>2, <1>4 DEF limit, grown
<1>7. Min({a, limit, grown}) \in Int BY <1>3, <1>6, MinOfThree, Zenon
<1> QED BY <1>1, <1>5, <1>7, Zenon DEF limit, grown

\* A writer that is dropped.
LEMMA DropTo ==
  ASSUME LedgerInv, NEW o \in Ops, Drop(o)
  PROVE  To(o, writer, writer', Gone) /\ To(o, lease, lease', None)
BY Zenon DEF LedgerInv, Tables, Table, Drop, To

\* A round of retirements journals only published recordings that are not under retirement.
LEMMA Journaled ==
  ASSUME LedgerInv, NEW vs, JournalRetirement(vs)
  PROVE  /\ Table(retirement')
         /\ \A q \in Ops : \/ retirement'[q] = retirement[q]
                           \/ retirement[q] = None /\ row[q].state = "published" /\ retirement'[q] = "journaled"
<1>1. PICK chosen \in SUBSET UNION {Retirable(v) : v \in vs} :
        retirement' = [q \in Ops |-> IF q \in chosen THEN "journaled" ELSE retirement[q]]
  BY Zenon DEF JournalRetirement
<1>2. \A q \in chosen : row[q].state = "published" /\ retirement[q] = None BY Zenon DEF Retirable
<1> QED BY <1>1, <1>2, Zenon DEF Table

\* The worker's step on the operation it has, and what it then knows of it.
LEMMA WorkerKnown ==
  ASSUME LedgerInv, NEW o \in Ops, worker.op = o
  PROVE  /\ worker \in [pc : WorkerPcs \ {"idle"}, op : Ops] /\ At(o) = worker.pc
         /\ lease[o] = "worker" /\ o # None
<1>1. o # None BY LedgerAssumption DEF None
<1>2. worker # Resting BY <1>1 DEF Resting
<1>3. worker \in [pc : WorkerPcs \ {"idle"}, op : Ops] BY <1>2, Zenon DEF LedgerInv, Tables
<1>4. At(o) = worker.pc /\ worker.pc # "idle" BY <1>3 DEF At
<1>5. lease[o] = "worker" BY <1>4, Now, Zenon DEF OpInv, LeaseOK
<1> QED BY <1>1, <1>3, <1>4, <1>5

\* The step of a worker that is working.
LEMMA WorkingOn ==
  ASSUME LedgerInv, NEW o \in Ops, NEW pc, Working(o, pc)
  PROVE  worker.op = o /\ At(o) = pc
BY DEF Working, At

\* The initial states satisfy the invariant.
LEMMA LedgerInit == Init => LedgerInv
<1> SUFFICES ASSUME Init PROVE LedgerInv OBVIOUS
<1>1. Tables BY Zenon DEF Init, Tables, Table
<1>2. ASSUME NEW o \in Ops PROVE Holds(o)
  <2>1. /\ row[o] = [state |-> None, volume |-> None, bytes |-> 0, materialized |-> 0, identity |-> FALSE]
        /\ index[o] = [recording |-> None, fragments |-> {}] /\ plan[o] = NoPlan /\ retirement[o] = None
        /\ disk[o] = [exists |-> FALSE, len |-> 0, synced |-> 0, receipt |-> "synced"]
        /\ lease[o] = None /\ writer[o] = Idle
    BY Zenon DEF Init
  <2>2. At(o) = "idle" /\ Read(o) = None
    <3>1. o # None BY LedgerAssumption DEF None
    <3> QED BY <3>1, Zenon DEF Init, At, Read, Resting
  <2>3. Typed(writer[o], row[o], disk[o], index[o], plan[o], retirement[o], lease[o], At(o), Read(o))
    BY <2>1, <2>2, LedgerAssumption DEF Typed, Writers, Rows, Files, Entries, Plans, Retirements, WorkerPcs,
       Pcs, None, NoPlan, Idle, Gone
  <2>4. OpInv(writer[o], row[o], disk[o], index[o], plan[o], retirement[o], lease[o], At(o), Read(o))
    BY <2>1, <2>2, <2>3 DEF OpInv, LeaseOK, RowOK, FileOK, IndexOK, BufferOK, PlanOK, PublishedOK, ReadOK,
       Before, Opening, Recording, None, NoPlan, Idle, Gone
  <2> QED BY <2>4, Zenon DEF Holds
<1> QED BY <1>1, <1>2, Zenon DEF LedgerInv
=============================================================================
