----------------------- MODULE OperationalEventsProofs -----------------------
(***************************************************************************)
(* What is proved of OperationalEvents, for any finite set of keys, any    *)
(* hold-downs and any length of the retry queue: the catalog is first, a   *)
(* stored event only advances, and a key has one open interval.            *)
(*                                                                         *)
(* EventsInv relates four things that hold the same events: the tracker,   *)
(* the queue, the rows of the catalog and what was forwarded.  The queue   *)
(* has the revisions of an event in order and nothing behind its end; the  *)
(* catalog has the first p transitions of the queue, the persisted ones;   *)
(* what the tracker holds is open and the newest.  Of the rows that are    *)
(* open, each is tracked or its end is queued, and the next event of the   *)
(* key is queued behind that end, until the queue drops a transition.      *)
(*                                                                         *)
(* An observation is reasoned about through what it does to each key       *)
(* (Emission): only its identifiers, revisions and ends matter.            *)
(***************************************************************************)
EXTENDS OperationalEvents, FiniteSetTheorems, WellFoundedInduction, TLAPS

\* A nonempty set of natural numbers has a least element.
LEMMA LeastNat ==
    ASSUME NEW T \in SUBSET Nat, T # {}
    PROVE  \E x \in T : \A y \in T : x <= y
<1> DEFINE R == OpToRel(<, Nat)
<1>1. PICK x \in T : \A y \in T : ~(<<y, x>> \in R)
  BY WFMin, NatLessThanWellFounded, Zenon
<1>2. \A y \in T : ~(y < x)
  BY <1>1, Zenon DEF OpToRel
<1> QED BY <1>2

\* A nonempty finite set of natural numbers has a largest element.
LEMMA LargestNat ==
    ASSUME NEW T \in SUBSET Nat, T # {}, IsFiniteSet(T)
    PROVE  Max(T) \in T /\ \A y \in T : y <= Max(T)
<1> DEFINE Below(x) == {y \in T : y < x}
           C == {Cardinality(T) - Cardinality(Below(x)) : x \in T}
<1>1. ASSUME NEW x \in T
      PROVE  /\ IsFiniteSet(Below(x)) /\ Cardinality(Below(x)) \in Nat /\ Cardinality(T) \in Nat
             /\ Cardinality(T) - Cardinality(Below(x)) \in Nat
  <2>1. Below(x) \in SUBSET T BY Zenon
  <2>2. /\ IsFiniteSet(Below(x)) /\ Cardinality(Below(x)) \in Nat /\ Cardinality(T) \in Nat
        /\ Cardinality(Below(x)) <= Cardinality(T)
    BY <2>1, FS_Subset, FS_CardinalityType, Zenon
  <2> HIDE DEF Below
  <2> QED BY <2>2
<1>2. C \in SUBSET Nat /\ C # {}
  <2> HIDE DEF Below
  <2> QED BY <1>1, Zenon
<1>3. PICK c \in C : \A d \in C : c <= d
  <2> HIDE DEF C
  <2> QED BY <1>2, LeastNat, Zenon
<1>4. PICK x \in T : c = Cardinality(T) - Cardinality(Below(x))
  <2> HIDE DEF Below
  <2> QED BY <1>3, Zenon
<1>5. ASSUME NEW y \in T, x < y PROVE FALSE
  <2>1. Below(x) \cup {x} \in SUBSET Below(y)
    <3>1. x \in Nat /\ y \in Nat BY Zenon
    <3>2. ASSUME NEW z \in T, z < x PROVE z < y
      <4>1. z \in Nat BY Zenon
      <4> QED BY <1>5, <3>1, <3>2, <4>1
    <3> QED BY <1>5, <3>2, Zenon
  <2>2. x \notin Below(x)
    <3>1. x \in Nat BY Zenon
    <3> QED BY <3>1
  <2>3. Cardinality(Below(x) \cup {x}) = Cardinality(Below(x)) + 1 BY <1>1, <2>2, FS_AddElement, Zenon
  <2>4. Cardinality(Below(x) \cup {x}) <= Cardinality(Below(y)) BY <1>1, <2>1, FS_Subset, Zenon
  <2>5. c <= Cardinality(T) - Cardinality(Below(y)) BY <1>3, Zenon
  <2>6. Cardinality(Below(x)) \in Nat /\ Cardinality(Below(y)) \in Nat /\ Cardinality(T) \in Nat BY <1>1, Zenon
  <2> HIDE DEF Below, C
  <2> QED BY <1>4, <2>3, <2>4, <2>5, <2>6
<1>6. \A y \in T : y <= x
  <2> SUFFICES ASSUME NEW y \in T PROVE y <= x BY Zenon
  <2>1. x \in Nat /\ y \in Nat BY Zenon
  <2> QED BY <1>5, <2>1
<1>7. x \in T /\ \A y \in T : x >= y
  <2> SUFFICES ASSUME NEW y \in T PROVE x >= y BY Zenon
  <2>1. x \in Nat /\ y \in Nat /\ y <= x BY <1>6, Zenon
  <2> QED BY <2>1, Zenon
<1>8. Max(T) \in T /\ \A y \in T : Max(T) >= y BY <1>7, Zenon DEF Max
<1> SUFFICES ASSUME NEW y \in T PROVE y <= Max(T) BY <1>8, Zenon
<1>9. Max(T) \in Nat /\ y \in Nat /\ Max(T) >= y BY <1>8, Zenon
<1> QED BY <1>9, Zenon

-----------------------------------------------------------------------------
(* The inductive invariant. *)

\* The values: events by key and number, the items of the queue, the tracker's intervals.
Ids == Keys \X Nat
Events == [id : Ids, revision : Nat, critical : BOOLEAN, open : BOOLEAN]
Items == [event : Events, persisted : BOOLEAN, notified : BOOLEAN]
Intervals == [tracked : BOOLEAN, age : Nat, changed : BOOLEAN, recovering : Nat, event : Events \cup {NoEvent}]

\* The revisions of an event in the queue ascend, and nothing follows its end.
Ordered(q) ==
    \A m, n \in DOMAIN q : m < n /\ q[m].id = q[n].id =>
        q[m].revision < q[n].revision /\ q[m].open

\* Identifiers are used up in order.
Numbered(q, s) == \A n \in DOMAIN q : q[n].id[2] <= s[q[n].id[1]]

\* The event of an interval is open and at least as new as what is queued of it.
Tracked(q, iv) ==
    \A n \in DOMAIN q : iv[q[n].id[1]].event.id = q[n].id =>
        q[n].open /\ q[n].revision <= iv[q[n].id[1]].event.revision

\* The end of an event is queued between m and n.
Closing(q, id, m, n) == \E j \in m .. n : q[j].id = id /\ ~q[j].open

\* An event of a key is queued only behind the end of the one before.
Relieved(q) ==
    \A m, n \in DOMAIN q : m < n /\ q[m].id[1] = q[n].id[1] /\ q[m].id # q[n].id =>
        Closing(q, q[m].id, m, n - 1)

\* What is queued of an event is tracked, or its end follows.
Followed(q, iv) ==
    \A n \in DOMAIN q : iv[q[n].id[1]].event.id = q[n].id \/ Closing(q, q[n].id, n, Len(q))

\* The catalog: finitely many rows, by identifier, none newer than the tracker knows.
RowsTyped(st) ==
    /\ IsFiniteSet(DOMAIN st) /\ DOMAIN st \subseteq Ids /\ st = [id \in DOMAIN st |-> st[id]]
    /\ \A id \in DOMAIN st : st[id] \in Events /\ st[id].id = id
RowsNumbered(st, s) == \A id \in DOMAIN st : id[2] <= s[id[1]]
RowsTracked(st, iv) ==
    \A id \in DOMAIN st : iv[id[1]].event.id = id =>
        st[id].open /\ st[id].revision <= iv[id[1]].event.revision

\* A closed row is as new as all that is queued of it; the end of an open row is newer than the row.
Final(st, q) ==
    \A id \in DOMAIN st, n \in DOMAIN q : q[n].id = id =>
        /\ ~st[id].open => q[n].revision <= st[id].revision
        /\ st[id].open /\ ~q[n].open => st[id].revision < q[n].revision

\* The first p transitions are in the catalog.
InStore(st, q, p) ==
    \A n \in 1 .. p : q[n].id \in DOMAIN st /\ q[n].revision <= st[q[n].id].revision

\* A key has one open row; another event is queued behind the end of it, and that end is queued
\* unless the row is tracked.
Single(st) == \A a, b \in DOMAIN st : st[a].open /\ st[b].open /\ a[1] = b[1] => a = b
Superseded(st, q, p) ==
    \A n \in p + 1 .. Len(q), id \in DOMAIN st :
        st[id].open /\ id[1] = q[n].id[1] /\ id # q[n].id => Closing(q, id, p + 1, n - 1)
Watched(st, q, iv, p) ==
    \A id \in DOMAIN st : st[id].open => iv[id[1]].event.id = id \/ Closing(q, id, p + 1, Len(q))

\* The types, and the event of an interval.
Context(q, iv, s) ==
    /\ q \in Seq(Events) /\ iv \in [Keys -> Intervals] /\ s \in [Keys -> Nat]
    /\ \A k \in Keys : iv[k].event # NoEvent =>
          iv[k].event.id[1] = k /\ iv[k].event.id[2] <= s[k] /\ iv[k].event.open

\* The queue and the tracker; the rows, p transitions being stored; the rows that are open.
QueueInv(q, iv, s) == Context(q, iv, s) /\ Ordered(q) /\ Numbered(q, s) /\ Tracked(q, iv)
RowsInv(st, q, iv, s, p) ==
    RowsTyped(st) /\ RowsNumbered(st, s) /\ RowsTracked(st, iv) /\ Final(st, q) /\ InStore(st, q, p)
OpenInv(st, q, iv, p) ==
    Relieved(q) /\ Followed(q, iv) /\ Single(st) /\ Superseded(st, q, p) /\ Watched(st, q, iv, p)

\* The first p transitions are persisted; only these are notified.
Flags(items, p) == \A n \in DOMAIN items : (items[n].persisted <=> n <= p) /\ (items[n].notified => n <= p)

\* What was forwarded is stored.
ForwardedOK(f, st) == \A id \in DOMAIN f : f[id] \in Nat /\ id \in DOMAIN st /\ f[id] <= st[id].revision

\* The transitions of a queue.
Transitions(items) == [n \in DOMAIN items |-> items[n].event]

\* Some number p of transitions is persisted and stored, the first of the queue.
EventsInv ==
    /\ pending \in Seq(Items) /\ Len(pending) <= QueueLimit
    /\ QueueInv(Transitions(pending), interval, serial)
    /\ overflowed \in BOOLEAN /\ ForwardedOK(forwarded, store)
    /\ \E p \in 0 .. Len(pending) :
          /\ Flags(pending, p) /\ RowsInv(store, Transitions(pending), interval, serial, p)
          /\ overflowed \/ OpenInv(store, Transitions(pending), interval, p)

-----------------------------------------------------------------------------
(* Storing one transition. *)

\* What the catalog holds after a transition was stored.
LEMMA UpsertIs ==
    ASSUME NEW st, RowsTyped(st), NEW e \in Events
    PROVE  LET r == Upsert(st, e)
           IN  /\ RowsTyped(r) /\ DOMAIN r = DOMAIN st \cup {e.id}
               /\ \A id \in DOMAIN st : id # e.id => r[id] = st[id]
               /\ e.id \in DOMAIN st /\ st[e.id].revision >= e.revision => r[e.id] = st[e.id]
               /\ ~(e.id \in DOMAIN st /\ st[e.id].revision >= e.revision) => r[e.id] = e
<1>1. e.id \in Ids BY Zenon DEF Events
<1>2. IsFiniteSet(DOMAIN st \cup {e.id}) BY FS_AddElement, Zenon DEF RowsTyped
<1> QED BY <1>1, <1>2, Zenon DEF Upsert, RowsTyped

\* Storing the next transition keeps the catalog in step with the queue and the tracker, whether
\* the transition then counts as persisted or not.
LEMMA UpsertRows ==
    ASSUME NEW st, NEW q, NEW iv, NEW s, NEW p \in 0 .. Len(q) - 1,
           QueueInv(q, iv, s), RowsInv(st, q, iv, s, p)
    PROVE  LET r == Upsert(st, q[p + 1])
           IN  RowsInv(r, q, iv, s, p) /\ RowsInv(r, q, iv, s, p + 1)
<1> DEFINE e == q[p + 1]
<1>1. PICK r : r = Upsert(st, e) BY Zenon
<1>2. /\ q \in Seq(Events) /\ iv \in [Keys -> Intervals] /\ s \in [Keys -> Nat]
      /\ Ordered(q) /\ Numbered(q, s) /\ Tracked(q, iv)
      /\ RowsTyped(st) /\ RowsNumbered(st, s) /\ RowsTracked(st, iv) /\ Final(st, q) /\ InStore(st, q, p)
  BY Zenon DEF QueueInv, Context, RowsInv
<1>3. p \in Nat /\ p + 1 \in DOMAIN q /\ DOMAIN q = 1 .. Len(q) /\ \A n \in DOMAIN q : q[n] \in Events
  BY <1>2
<1>e. e \in Events /\ e.id \in Ids /\ e.revision \in Nat BY <1>3, Zenon DEF Events
<1>4. /\ RowsTyped(r) /\ DOMAIN r = DOMAIN st \cup {e.id}
      /\ \A id \in DOMAIN st : id # e.id => r[id] = st[id]
      /\ e.id \in DOMAIN st /\ st[e.id].revision >= e.revision => r[e.id] = st[e.id]
      /\ ~(e.id \in DOMAIN st /\ st[e.id].revision >= e.revision) => r[e.id] = e
  BY <1>1, <1>2, <1>e, UpsertIs, Zenon
<1>5. RowsNumbered(r, s)
  BY <1>2, <1>3, <1>4, Zenon DEF RowsNumbered, Numbered
<1>6. RowsTracked(r, iv)
  BY <1>2, <1>3, <1>4, SMTT(30) DEF RowsTracked, Tracked
<1>7. Final(r, q)
  <2> SUFFICES ASSUME NEW id \in DOMAIN r, NEW n \in DOMAIN q, q[n].id = id
               PROVE  /\ ~r[id].open => q[n].revision <= r[id].revision
                      /\ r[id].open /\ ~q[n].open => r[id].revision < q[n].revision
    BY Zenon DEF Final
  <2>1. CASE id \in DOMAIN st /\ r[id] = st[id]
    BY <1>2, <2>1, Zenon DEF Final
  <2>2. CASE ~(id \in DOMAIN st /\ r[id] = st[id])
    <3>1. id = e.id /\ r[id] = e BY <1>4, <2>2, Zenon
    <3>2. n < p + 1 \/ n = p + 1 \/ p + 1 < n BY <1>3
    <3>3. q[n].revision \in Nat BY <1>3, Zenon DEF Events
    <3> QED BY <1>2, <1>3, <1>e, <3>1, <3>2, <3>3 DEF Ordered
  <2> QED BY <2>1, <2>2, Zenon
<1>8. InStore(r, q, p + 1)
  <2> SUFFICES ASSUME NEW n \in 1 .. p + 1
               PROVE  q[n].id \in DOMAIN r /\ q[n].revision <= r[q[n].id].revision
    BY Zenon DEF InStore
  <2>0. n \in DOMAIN q /\ q[n].revision \in Nat BY <1>3 DEF Events
  <2>1. CASE n = p + 1
    BY <1>4, <1>e, <2>1
  <2>2. CASE n # p + 1
    <3>1. n \in 1 .. p BY <1>3, <2>2
    <3>2. q[n].id \in DOMAIN st /\ q[n].revision <= st[q[n].id].revision BY <1>2, <3>1, Zenon DEF InStore
    <3>3. CASE q[n].id = e.id
      <4>1. q[n].revision < e.revision BY <1>2, <1>3, <2>0, <3>1, <3>3 DEF Ordered
      <4> QED BY <1>4, <1>e, <2>0, <3>2, <3>3, <4>1
    <3> QED BY <1>4, <3>2, <3>3, Zenon
  <2> QED BY <2>1, <2>2, Zenon
<1>9. InStore(r, q, p)
  BY <1>8, <1>3 DEF InStore
<1> QED BY <1>1, <1>4, <1>5, <1>6, <1>7, <1>8, <1>9, Zenon DEF RowsInv

\* Storing the next transition never leaves a key with two open rows: the row that was open before
\* has its end in front of it in the queue.
LEMMA UpsertOpen ==
    ASSUME NEW st, NEW q, NEW iv, NEW s, NEW p \in 0 .. Len(q) - 1,
           QueueInv(q, iv, s), RowsInv(st, q, iv, s, p), OpenInv(st, q, iv, p)
    PROVE  LET r == Upsert(st, q[p + 1])
           IN  OpenInv(r, q, iv, p) /\ OpenInv(r, q, iv, p + 1)
<1> DEFINE e == q[p + 1]
<1>1. PICK r : r = Upsert(st, e) BY Zenon
<1>2. /\ q \in Seq(Events) /\ RowsTyped(st) /\ Final(st, q)
      /\ Relieved(q) /\ Followed(q, iv) /\ Single(st) /\ Superseded(st, q, p) /\ Watched(st, q, iv, p)
  BY Zenon DEF QueueInv, Context, RowsInv, OpenInv
<1>3. /\ p \in Nat /\ Len(q) \in Nat /\ p + 1 \in DOMAIN q /\ DOMAIN q = 1 .. Len(q)
      /\ \A n \in DOMAIN q : q[n] \in Events
  BY <1>2
<1>e. e \in Events /\ e.id \in Ids /\ e.revision \in Nat /\ e.open \in BOOLEAN BY <1>3, Zenon DEF Events
<1>4. /\ RowsTyped(r) /\ DOMAIN r = DOMAIN st \cup {e.id}
      /\ \A id \in DOMAIN st : id # e.id => r[id] = st[id]
      /\ e.id \in DOMAIN st /\ st[e.id].revision >= e.revision => r[e.id] = st[e.id]
      /\ ~(e.id \in DOMAIN st /\ st[e.id].revision >= e.revision) => r[e.id] = e
  BY <1>1, <1>2, <1>e, UpsertIs, Zenon
\* A row that is open now was open before, or is the transition's; the transition's row is closed
\* when the transition is an end.
<1>5. ASSUME NEW id \in DOMAIN r, r[id].open
      PROVE  /\ (id \in DOMAIN st /\ st[id].open) \/ (id = e.id /\ e.open)
             /\ id = e.id => e.open
  <2>1. CASE id # e.id BY <1>4, <1>5, <2>1, Zenon
  <2>2. CASE id = e.id
    <3>1. CASE r[id] = e BY <1>5, <2>2, <3>1, Zenon
    <3>2. CASE r[id] # e
      <4>1. id \in DOMAIN st /\ r[id] = st[id] /\ st[id].revision >= e.revision BY <1>4, <2>2, <3>2, Zenon
      <4>2. st[id].revision \in Nat BY <1>2, <4>1, Zenon DEF RowsTyped, Events
      <4>3. ~e.open => st[id].revision < e.revision BY <1>2, <1>3, <1>5, <2>2, <4>1, Zenon DEF Final
      <4> QED BY <1>5, <1>e, <4>1, <4>2, <4>3
    <3> QED BY <3>1, <3>2, Zenon
  <2> QED BY <2>1, <2>2, Zenon
<1>6. ASSUME NEW id \in DOMAIN r, r[id].open, id[1] = e.id[1]
      PROVE  id = e.id
  <2> SUFFICES ASSUME id # e.id PROVE FALSE BY Zenon
  <2>1. id \in DOMAIN st /\ st[id].open BY <1>5, <1>6, Zenon
  <2>2. Closing(q, id, p + 1, (p + 1) - 1)
    <3>1. p + 1 \in p + 1 .. Len(q) BY <1>3
    <3> QED BY <1>2, <1>6, <2>1, <3>1, Zenon DEF Superseded
  <2> QED BY <1>3, <2>2 DEF Closing
<1>7. Single(r)
  <2> SUFFICES ASSUME NEW a \in DOMAIN r, NEW b \in DOMAIN r, r[a].open, r[b].open, a[1] = b[1]
               PROVE  a = b
    BY Zenon DEF Single
  <2>1. CASE a[1] = e.id[1] BY <1>6, <2>1, Zenon
  <2>2. CASE a[1] # e.id[1]
    <3>1. a \in DOMAIN st /\ st[a].open /\ b \in DOMAIN st /\ st[b].open BY <1>5, <2>2, Zenon
    <3> QED BY <1>2, <3>1, Zenon DEF Single
  <2> QED BY <2>1, <2>2, Zenon
\* The ends that are queued are behind the transition, when it is not one itself.
<1>8. ASSUME NEW id \in DOMAIN r, r[id].open, NEW n \in Nat, Closing(q, id, p + 1, n)
      PROVE  Closing(q, id, (p + 1) + 1, n)
  <2>1. PICK j \in p + 1 .. n : q[j].id = id /\ ~q[j].open BY <1>8, Zenon DEF Closing
  <2>2. j # p + 1 BY <1>5, <1>8, <2>1, Zenon
  <2>3. j \in (p + 1) + 1 .. n BY <1>3, <2>2
  <2> QED BY <2>1, <2>3, Zenon DEF Closing
<1>9. Superseded(r, q, p)
  <2> SUFFICES ASSUME NEW n \in p + 1 .. Len(q), NEW id \in DOMAIN r,
                      r[id].open, id[1] = q[n].id[1], id # q[n].id
               PROVE  Closing(q, id, p + 1, n - 1)
    BY Zenon DEF Superseded
  <2>1. CASE id \in DOMAIN st /\ st[id].open
    BY <1>2, <2>1, Zenon DEF Superseded
  <2>2. CASE id = e.id
    <3>1. n # p + 1 BY <2>2, Zenon
    <3>2. n \in DOMAIN q /\ p + 1 < n BY <1>3, <3>1
    <3> QED BY <1>2, <1>3, <2>2, <3>2, Zenon DEF Relieved
  <2> QED BY <1>5, <2>1, <2>2, Zenon
<1>10. Superseded(r, q, p + 1)
  <2> SUFFICES ASSUME NEW n \in (p + 1) + 1 .. Len(q), NEW id \in DOMAIN r,
                      r[id].open, id[1] = q[n].id[1], id # q[n].id
               PROVE  Closing(q, id, (p + 1) + 1, n - 1)
    BY Zenon DEF Superseded
  <2>1. n \in p + 1 .. Len(q) /\ n - 1 \in Nat BY <1>3
  <2>2. Closing(q, id, p + 1, n - 1) BY <1>9, <2>1, Zenon DEF Superseded
  <2> QED BY <1>8, <2>1, <2>2, Zenon
<1>11. Watched(r, q, iv, p)
  <2> SUFFICES ASSUME NEW id \in DOMAIN r, r[id].open
               PROVE  iv[id[1]].event.id = id \/ Closing(q, id, p + 1, Len(q))
    BY Zenon DEF Watched
  <2>1. CASE id \in DOMAIN st /\ st[id].open
    BY <1>2, <2>1, Zenon DEF Watched
  <2>2. CASE id = e.id
    BY <1>2, <1>3, <2>2, Zenon DEF Followed
  <2> QED BY <1>5, <2>1, <2>2, Zenon
<1>12. Watched(r, q, iv, p + 1)
  BY <1>3, <1>8, <1>11, Zenon DEF Watched
<1> QED BY <1>1, <1>2, <1>7, <1>9, <1>10, <1>11, <1>12, Zenon DEF OpenInv

\* What a stored event may never do.
Advances(a, b) ==
    \A id \in DOMAIN a : /\ id \in DOMAIN b /\ b[id].revision >= a[id].revision
                         /\ ~a[id].open => b[id] = a[id]

\* Storing a transition advances the catalog: the end of an event is its last transition.
LEMMA UpsertAdvances ==
    ASSUME NEW st, NEW q, NEW iv, NEW s, NEW p \in 0 .. Len(q) - 1,
           QueueInv(q, iv, s), RowsInv(st, q, iv, s, p)
    PROVE  Advances(st, Upsert(st, q[p + 1]))
<1> DEFINE e == q[p + 1]
<1>1. PICK r : r = Upsert(st, e) BY Zenon
<1>2. q \in Seq(Events) /\ RowsTyped(st) /\ Final(st, q) BY Zenon DEF QueueInv, Context, RowsInv
<1>3. p + 1 \in DOMAIN q /\ e \in Events BY <1>2
<1>r. e.revision \in Nat BY <1>3, Zenon DEF Events
<1>4. /\ DOMAIN r = DOMAIN st \cup {e.id}
      /\ \A id \in DOMAIN st : id # e.id => r[id] = st[id]
      /\ e.id \in DOMAIN st /\ st[e.id].revision >= e.revision => r[e.id] = st[e.id]
      /\ ~(e.id \in DOMAIN st /\ st[e.id].revision >= e.revision) => r[e.id] = e
  BY <1>1, <1>2, <1>3, UpsertIs, ZenonT(60)
<1>5. ASSUME NEW id \in DOMAIN st
      PROVE  r[id].revision >= st[id].revision /\ (~st[id].open => r[id] = st[id])
  <2>1. st[id].revision \in Nat BY <1>2, Zenon DEF RowsTyped, Events
  <2> QED BY <1>2, <1>3, <1>r, <1>4, <2>1 DEF Final
<1> QED BY <1>1, <1>4, <1>5, Zenon DEF Advances

-----------------------------------------------------------------------------
(* Storing several transitions. *)

\* A set of numbers that holds 0, and the successor of every number it holds, holds all.
LEMMA NatSetInduction ==
    ASSUME NEW T, 0 \in T, \A n \in Nat : n \in T => n + 1 \in T
    PROVE  Nat \subseteq T
<1> SUFFICES ASSUME ~(Nat \subseteq T) PROVE FALSE BY Zenon
<1> DEFINE U == {n \in Nat : n \notin T}
<1>1. PICK x \in U : \A y \in U : x <= y BY LeastNat, Zenon
<1>2. x # 0 /\ x - 1 \in Nat /\ x - 1 \notin U BY <1>1
<1> QED BY <1>1, <1>2

\* The rows after each of the items.
IsHistory(g, items) ==
    /\ g = [n \in 0 .. Len(items) |-> g[n]] /\ g[0] = store
    /\ \A n \in 1 .. Len(items) : g[n] = Upsert(g[n - 1], items[n].event)

\* There is such a history.
LEMMA HistoryExists ==
    ASSUME NEW items \in Seq(Items)
    PROVE  \E g : IsHistory(g, items)
<1> DEFINE Upto(n, g) == /\ g = [i \in 0 .. n |-> g[i]] /\ g[0] = store
                         /\ \A i \in 1 .. n : g[i] = Upsert(g[i - 1], items[i].event)
           T == {n \in Nat : \E g : Upto(n, g)}
<1>1. 0 \in T
  <2>1. Upto(0, [i \in 0 .. 0 |-> store]) OBVIOUS
  <2> QED BY <2>1, Zenon
<1>2. ASSUME NEW n \in Nat, n \in T
      PROVE  n + 1 \in T
  <2>1. PICK g : Upto(n, g) BY <1>2, Zenon
  <2> DEFINE h == [i \in 0 .. n + 1 |-> IF i <= n THEN g[i] ELSE Upsert(g[n], items[n + 1].event)]
  <2>2. h = [i \in 0 .. n + 1 |-> h[i]] /\ h[0] = store BY <2>1
  <2>3. ASSUME NEW i \in 1 .. n + 1
        PROVE  h[i] = Upsert(h[i - 1], items[i].event)
    <3>1. CASE i <= n
      <4>1. h[i] = g[i] /\ h[i - 1] = g[i - 1] BY <3>1
      <4>2. i \in 1 .. n BY <3>1
      <4> HIDE DEF h
      <4> QED BY <2>1, <4>1, <4>2, Zenon
    <3>2. CASE ~(i <= n)
      <4>1. i = n + 1 /\ i - 1 = n BY <3>2
      <4>2. h[i] = Upsert(g[n], items[n + 1].event) /\ h[n] = g[n] BY <4>1
      <4> HIDE DEF h
      <4> QED BY <4>1, <4>2, Zenon
    <3> QED BY <3>1, <3>2, Zenon
  <2> HIDE DEF h
  <2>4. Upto(n + 1, h) BY <2>2, <2>3, Zenon
  <2>5. n + 1 \in Nat OBVIOUS
  <2> HIDE DEF Upto
  <2> QED BY <2>4, <2>5, Zenon
<1> HIDE DEF T
<1>3. Nat \subseteq T BY <1>1, <1>2, NatSetInduction, Zenon
<1>4. Len(items) \in T BY <1>3
<1> QED BY <1>4, Zenon DEF T, IsHistory

\* Stored is the last of the history.
LEMMA StoredIsHistory ==
    ASSUME NEW items \in Seq(Items)
    PROVE  \E g : IsHistory(g, items) /\ Stored(items) = g[Len(items)]
<1> DEFINE Body(g) == [n \in 0 .. Len(items) |-> IF n = 0 THEN store ELSE Upsert(g[n - 1], items[n].event)]
           f == CHOOSE g : g = Body(g)
<1>1. PICK g : IsHistory(g, items) BY HistoryExists, Zenon
<1>2. g = Body(g)
  <2>1. PICK b : b = Body(g) BY Zenon
  <2>2. b = [n \in 0 .. Len(items) |-> b[n]] BY <2>1, Zenon
  <2>3. ASSUME NEW n \in 0 .. Len(items)
        PROVE  g[n] = b[n]
    <3>1. n # 0 => n \in 1 .. Len(items) OBVIOUS
    <3>2. b[n] = IF n = 0 THEN store ELSE Upsert(g[n - 1], items[n].event) BY <2>1, Zenon
    <3> QED BY <1>1, <3>1, <3>2, Zenon DEF IsHistory
  <2>4. g = [n \in 0 .. Len(items) |-> g[n]] BY <1>1, Zenon DEF IsHistory
  <2> HIDE DEF Body
  <2> QED BY <2>1, <2>2, <2>3, <2>4, Zenon
<1>3. f = Body(f) BY <1>2, Zenon
<1>4. Stored(items) = f[Len(items)] BY Zenon DEF Stored
<1> HIDE DEF f
<1>5. IsHistory(f, items) BY <1>3 DEF IsHistory
<1> QED BY <1>4, <1>5, Zenon

\* The catalog, the queue and the tracker with the first p transitions stored.
InStep(st, q, p) ==
    /\ RowsInv(st, q, interval, serial, p) /\ Advances(store, st)
    /\ overflowed \/ OpenInv(st, q, interval, p)

\* Advances is transitive.
LEMMA AdvancesOn ==
    ASSUME NEW a, NEW b, NEW c, RowsTyped(a), RowsTyped(b), RowsTyped(c), Advances(a, b), Advances(b, c)
    PROVE  Advances(a, c)
<1> SUFFICES ASSUME NEW id \in DOMAIN a
             PROVE  id \in DOMAIN c /\ c[id].revision >= a[id].revision /\ (~a[id].open => c[id] = a[id])
  BY Zenon DEF Advances
<1>1. id \in DOMAIN b /\ b[id].revision >= a[id].revision /\ (~a[id].open => b[id] = a[id]) BY Zenon DEF Advances
<1>2. id \in DOMAIN c /\ c[id].revision >= b[id].revision /\ (~b[id].open => c[id] = b[id])
  BY <1>1, Zenon DEF Advances
<1>3. a[id].revision \in Nat /\ b[id].revision \in Nat /\ c[id].revision \in Nat
  BY <1>1, <1>2, Zenon DEF RowsTyped, Events
<1> QED BY <1>1, <1>2, <1>3

\* One more transition.
LEMMA InStepOn ==
    ASSUME NEW st, NEW q, NEW p \in 0 .. Len(q) - 1, RowsTyped(store), QueueInv(q, interval, serial), InStep(st, q, p)
    PROVE  InStep(Upsert(st, q[p + 1]), q, p) /\ InStep(Upsert(st, q[p + 1]), q, p + 1)
<1>1. RowsInv(st, q, interval, serial, p) /\ RowsTyped(st) /\ Advances(store, st) BY Zenon DEF InStep, RowsInv
<1>2. PICK r : r = Upsert(st, q[p + 1]) BY Zenon
<1>3. RowsInv(r, q, interval, serial, p) /\ RowsInv(r, q, interval, serial, p + 1) BY <1>1, <1>2, UpsertRows, Zenon
<1>4. Advances(store, r)
  <2>1. Advances(st, r) BY <1>1, <1>2, UpsertAdvances, Zenon
  <2>2. RowsTyped(r) BY <1>3, Zenon DEF RowsInv
  <2> QED BY <1>1, <2>1, <2>2, AdvancesOn, Zenon
<1>5. overflowed \/ (OpenInv(r, q, interval, p) /\ OpenInv(r, q, interval, p + 1))
  BY <1>1, <1>2, UpsertOpen, Zenon DEF InStep
<1> QED BY <1>2, <1>3, <1>4, <1>5, Zenon DEF InStep

\* Storing the transitions p + 1 to n one after the other keeps the catalog in step, whether or not
\* the last of them counts as persisted.
LEMMA StoredInStep ==
    ASSUME pending \in Seq(Items), NEW q, q = Transitions(pending), NEW p \in 0 .. Len(pending),
           NEW n \in p .. Len(pending),
           QueueInv(q, interval, serial), InStep(store, q, p)
    PROVE  /\ InStep(Stored(SubSeq(pending, p + 1, n)), q, n)
           /\ n > p => InStep(Stored(SubSeq(pending, p + 1, n)), q, n - 1)
<1>1. PICK items : items = SubSeq(pending, p + 1, n) BY Zenon
<1>2. /\ items \in Seq(Items) /\ Len(items) = n - p
      /\ \A m \in 1 .. n - p : items[m] = pending[p + m]
  BY <1>1
<1>3. PICK g : IsHistory(g, items) /\ Stored(items) = g[n - p] BY <1>2, StoredIsHistory, Zenon
<1>4. p \in Nat /\ n \in Nat /\ n - p \in Nat /\ Len(q) = Len(pending) /\ q \in Seq(Events)
      /\ \A m \in 1 .. Len(pending) : q[m] = pending[m].event
  BY DEF Transitions, QueueInv, Context
<1>5. RowsTyped(store) BY Zenon DEF InStep, RowsInv
<1> DEFINE T == {m \in Nat : m <= n - p =>
                     InStep(g[m], q, p + m) /\ (m > 0 => InStep(g[m], q, (p + m) - 1))}
<1>6. 0 \in T
  <2>1. g[0] = store /\ p + 0 = p BY <1>3, <1>4 DEF IsHistory
  <2> QED BY <2>1
<1>7. ASSUME NEW m \in Nat, m \in T
      PROVE  m + 1 \in T
  <2> SUFFICES ASSUME m + 1 <= n - p
               PROVE  InStep(g[m + 1], q, p + (m + 1)) /\ InStep(g[m + 1], q, (p + (m + 1)) - 1)
    BY <1>7
  <2>1. InStep(g[m], q, p + m) BY <1>7, <1>4
  <2>2. m + 1 \in 1 .. Len(items) /\ (m + 1) - 1 = m BY <1>2, <1>4
  <2>3. g[m + 1] = Upsert(g[m], items[m + 1].event) BY <1>3, <2>2, Zenon DEF IsHistory
  <2>4. items[m + 1].event = q[(p + m) + 1] BY <1>2, <1>4, SMTT(30)
  <2>5. p + m \in 0 .. Len(q) - 1 BY <1>4
  <2>6. InStep(g[m + 1], q, p + m) /\ InStep(g[m + 1], q, (p + m) + 1)
    BY <1>5, <2>1, <2>3, <2>4, <2>5, InStepOn, Zenon
  <2>7. p + (m + 1) = (p + m) + 1 /\ (p + (m + 1)) - 1 = p + m BY <1>4
  <2> QED BY <2>6, <2>7, Zenon
<1>8. Nat \subseteq T
  <2> HIDE DEF T
  <2> QED BY <1>6, <1>7, NatSetInduction, Zenon
<1>9. n - p \in T BY <1>4, <1>8, Zenon
<1>10. p + (n - p) = n /\ (n > p => n - p > 0) BY <1>4
<1>11. InStep(g[n - p], q, n) /\ (n > p => InStep(g[n - p], q, n - 1)) BY <1>4, <1>9, <1>10
<1> QED BY <1>1, <1>3, <1>11, Zenon

-----------------------------------------------------------------------------
(* The flush. *)

\* The queue of the catalog's and the forwarder's flags has the persisted ones in front.
LEMMA PersistedIs ==
    ASSUME pending \in Seq(Items), NEW p \in 0 .. Len(pending), Flags(pending, p)
    PROVE  Persisted = p
<1>1. DOMAIN pending \ Unpersisted = 1 .. p
  <2>1. ASSUME NEW n
        PROVE  n \in DOMAIN pending \ Unpersisted <=> n \in 1 .. p
    <3>1. n \in 1 .. p => n \in DOMAIN pending /\ n <= p OBVIOUS
    <3>2. n \in DOMAIN pending /\ n <= p => n \in 1 .. p OBVIOUS
    <3> QED BY <3>1, <3>2, Zenon DEF Unpersisted, Flags
  <2> QED BY <2>1, Zenon
<1>2. Cardinality(1 .. p) = p
  <2>1. 1 \in Int /\ p \in Int /\ (1 > p => p = 0) /\ p - 1 + 1 = p BY SMT
  <2> QED BY <2>1, FS_Interval, Zenon
<1> QED BY <1>1, <1>2, Zenon DEF Persisted

\* The queue's part of the invariant, with p transitions persisted.
AtInv(p) ==
    /\ pending \in Seq(Items) /\ Len(pending) <= QueueLimit /\ p \in 0 .. Len(pending)
    /\ QueueInv(Transitions(pending), interval, serial)
    /\ overflowed \in BOOLEAN /\ ForwardedOK(forwarded, store)
    /\ Flags(pending, p) /\ RowsInv(store, Transitions(pending), interval, serial, p)
    /\ overflowed \/ OpenInv(store, Transitions(pending), interval, p)

\* The invariant names that p.
LEMMA EventsInvAt ==
    EventsInv <=> \E p : AtInv(p)
BY Zenon DEF EventsInv, AtInv

\* Only the flags of a queue change.
LEMMA FlagsOnly ==
    ASSUME NEW a \in Seq(Items), NEW b, b \in [DOMAIN a -> Items], \A n \in DOMAIN a : b[n].event = a[n].event
    PROVE  b \in Seq(Items) /\ Len(b) = Len(a) /\ DOMAIN b = DOMAIN a /\ Transitions(b) = Transitions(a)
<1>1. DOMAIN b = DOMAIN a /\ DOMAIN a = 1 .. Len(a) /\ Len(a) \in Nat OBVIOUS
<1>2. b \in Seq(Items) /\ Len(b) = Len(a) BY <1>1
<1> QED BY <1>1, <1>2, Zenon DEF Transitions

\* What was forwarded stays stored while the catalog advances.
LEMMA ForwardedAdvances ==
    ASSUME NEW f, NEW a, NEW b, RowsTyped(a), RowsTyped(b), Advances(a, b), ForwardedOK(f, a)
    PROVE  ForwardedOK(f, b)
<1> SUFFICES ASSUME NEW id \in DOMAIN f
             PROVE  f[id] \in Nat /\ id \in DOMAIN b /\ f[id] <= b[id].revision
  BY Zenon DEF ForwardedOK
<1>1. f[id] \in Nat /\ id \in DOMAIN a /\ f[id] <= a[id].revision /\ id \in DOMAIN b /\ b[id].revision >= a[id].revision
  BY Zenon DEF ForwardedOK, Advances
<1>2. a[id].revision \in Nat /\ b[id].revision \in Nat BY <1>1, Zenon DEF RowsTyped, Events
<1> QED BY <1>1, <1>2

\* Persisting: each row that is stored, and the one whose reply is lost, keeps the catalog in step.
LEMMA PersistStep ==
    ASSUME NEW p, AtInv(p), Persist
    PROVE  EventsInv' /\ Advances(store, store')
<1> DEFINE q == Transitions(pending)
<1>1. /\ pending \in Seq(Items) /\ p \in 0 .. Len(pending) /\ Len(pending) \in Nat
      /\ QueueInv(q, interval, serial) /\ Persisted = p
  BY PersistedIs DEF AtInv
<1>2. InStep(store, q, p)
  <2>1. Advances(store, store)
    <3>1. RowsTyped(store) BY Zenon DEF AtInv, RowsInv
    <3>2. \A id \in DOMAIN store : store[id].revision \in Nat BY <3>1, Zenon DEF RowsTyped, Events
    <3> QED BY <3>2 DEF Advances
  <2> QED BY <2>1, Zenon DEF AtInv, InStep
<1>3. PICK last \in p .. Len(pending) :
        /\ pending' = [n \in DOMAIN pending |-> [pending[n] EXCEPT !.persisted = n <= last]]
        /\ \/ store' = Stored(SubSeq(pending, p + 1, last))
           \/ last < Len(pending) /\ store' = Stored(SubSeq(pending, p + 1, last + 1))
  BY <1>1, Zenon DEF Persist
<1>4. UNCHANGED <<interval, serial, forwarded, overflowed>> BY Zenon DEF Persist
<1>5. last \in Nat /\ last <= Len(pending) /\ p \in Nat BY <1>1
<1>6. InStep(store', q, last)
  <2>1. CASE store' = Stored(SubSeq(pending, p + 1, last))
    BY <1>1, <1>2, <2>1, StoredInStep, Zenon
  <2>2. CASE last < Len(pending) /\ store' = Stored(SubSeq(pending, p + 1, last + 1))
    <3>1. last + 1 \in p .. Len(pending) /\ last + 1 > p /\ (last + 1) - 1 = last BY <1>1, <1>5, <2>2
    <3> QED BY <1>1, <1>2, <2>2, <3>1, StoredInStep, Zenon
  <2> QED BY <1>3, <2>1, <2>2, Zenon
<1>7. /\ pending' \in [DOMAIN pending -> Items]
      /\ \A n \in DOMAIN pending : pending'[n].event = pending[n].event /\ (pending'[n].persisted <=> n <= last)
                                   /\ pending'[n].notified = pending[n].notified
  <2>1. \A n \in DOMAIN pending : pending[n] \in Items BY <1>1
  <2>2. ASSUME NEW x \in Items, NEW b \in BOOLEAN
        PROVE  LET y == [x EXCEPT !.persisted = b]
               IN  y \in Items /\ y.event = x.event /\ y.persisted = b /\ y.notified = x.notified
    BY Zenon DEF Items
  <2>3. \A n \in DOMAIN pending : (n <= last) \in BOOLEAN OBVIOUS
  <2> QED BY <1>3, <2>1, <2>2, <2>3, Zenon
<1>8. /\ pending' \in Seq(Items) /\ Len(pending') = Len(pending) /\ DOMAIN pending' = DOMAIN pending
      /\ Transitions(pending') = q
  BY <1>1, <1>7, FlagsOnly, Zenon
<1>9. Flags(pending', last)
  <2>1. \A n \in DOMAIN pending : pending[n].notified => n <= p BY Zenon DEF AtInv, Flags
  <2>2. \A n \in DOMAIN pending : n <= p => n <= last BY <1>1, <1>3
  <2> QED BY <1>7, <1>8, <2>1, <2>2, Zenon DEF Flags
<1>10. ForwardedOK(forwarded, store')
  <2>1. RowsTyped(store) /\ RowsTyped(store') /\ Advances(store, store') BY <1>2, <1>6, Zenon DEF InStep, RowsInv
  <2> QED BY <2>1, ForwardedAdvances, Zenon DEF AtInv
<1> HIDE DEF q
<1>11. AtInv(last)'
  <2>1. last \in 0 .. Len(pending') BY <1>5, <1>8
  <2>2. Len(pending') <= QueueLimit /\ overflowed \in BOOLEAN BY <1>8, Zenon DEF AtInv
  <2> QED BY <1>1, <1>4, <1>6, <1>8, <1>9, <1>10, <2>1, <2>2, Zenon DEF AtInv, InStep
<1>12. EventsInv' BY <1>11, Zenon DEF EventsInv, AtInv
<1> QED BY <1>6, <1>12, Zenon DEF InStep

\* Notifying only marks what is persisted.
LEMMA NotifyStep ==
    ASSUME NEW p, AtInv(p), Notify
    PROVE  EventsInv'
<1> DEFINE q == Transitions(pending)
<1>1. /\ pending \in Seq(Items) /\ p \in 0 .. Len(pending) /\ Len(pending) \in Nat /\ Persisted = p
  BY PersistedIs DEF AtInv
<1>2. UNCHANGED <<interval, serial, store, forwarded, overflowed>> BY Zenon DEF Notify
<1>3. pending' = [n \in DOMAIN pending |-> [pending[n] EXCEPT !.notified = @ \/ n <= p]]
  BY <1>1, Zenon DEF Notify
<1>4. /\ pending' \in [DOMAIN pending -> Items]
      /\ \A n \in DOMAIN pending : pending'[n].event = pending[n].event /\ pending'[n].persisted = pending[n].persisted
                                   /\ (pending'[n].notified <=> pending[n].notified \/ n <= p)
  <2>1. \A n \in DOMAIN pending : pending[n] \in Items BY <1>1
  <2> QED BY <1>3, <2>1, Zenon DEF Items
<1>5. /\ pending' \in Seq(Items) /\ Len(pending') = Len(pending) /\ DOMAIN pending' = DOMAIN pending
      /\ Transitions(pending') = q
  BY <1>1, <1>4, FlagsOnly, Zenon
<1>6. Flags(pending', p) BY <1>4, <1>5, Zenon DEF AtInv, Flags
<1> HIDE DEF q
<1>7. q = Transitions(pending) BY Zenon DEF q
<1>8. AtInv(p)' BY <1>1, <1>2, <1>5, <1>6, <1>7, Zenon DEF AtInv
<1> QED BY <1>8, Zenon DEF EventsInv, AtInv

\* The queue without its first d transitions, all of them stored.
LEMMA Shifted ==
    ASSUME NEW st, NEW q, NEW iv, NEW s, NEW p \in 0 .. Len(q), NEW d \in 0 .. p,
           QueueInv(q, iv, s), RowsInv(st, q, iv, s, p)
    PROVE  LET b == SubSeq(q, d + 1, Len(q))
           IN  /\ QueueInv(b, iv, s) /\ RowsInv(st, b, iv, s, p - d)
               /\ OpenInv(st, q, iv, p) => OpenInv(st, b, iv, p - d)
<1>1. PICK b : b = SubSeq(q, d + 1, Len(q)) BY Zenon
<1>2. q \in Seq(Events) /\ Len(q) \in Nat /\ p \in Nat /\ d \in Nat /\ d <= p /\ p <= Len(q)
  BY DEF QueueInv, Context
<1>3. b \in Seq(Events) /\ Len(b) = Len(q) - d /\ \A n \in 1 .. Len(q) - d : b[n] = q[n + d]
  <2>1. d + 1 \in 1 .. Len(q) + 1 BY <1>2
  <2> QED BY <1>1, <1>2, <2>1
<1>4. DOMAIN b = 1 .. Len(q) - d /\ DOMAIN q = 1 .. Len(q) BY <1>2, <1>3
<1>5. \A n \in DOMAIN b : n \in Nat /\ n + d \in DOMAIN q /\ b[n] = q[n + d] BY <1>2, <1>3, <1>4
<1>6. \A m, n \in DOMAIN b : m < n => m + d < n + d BY <1>2, <1>4
<1>7. QueueInv(b, iv, s)
  <2>1. Context(b, iv, s) BY <1>3, Zenon DEF QueueInv, Context
  <2>2. Ordered(b)
    <3>1. Ordered(q) BY Zenon DEF QueueInv
    <3> QED BY <3>1, <1>5, <1>6, Zenon DEF Ordered
  <2>3. Numbered(b, s) BY <1>5, Zenon DEF QueueInv, Numbered
  <2>4. Tracked(b, iv) BY <1>5, Zenon DEF QueueInv, Tracked
  <2> QED BY <2>1, <2>2, <2>3, <2>4, Zenon DEF QueueInv
<1>8. RowsInv(st, b, iv, s, p - d)
  <2>1. Final(st, b)
    <3>1. Final(st, q) BY Zenon DEF RowsInv
    <3> QED BY <3>1, <1>5, Zenon DEF Final
  <2>2. InStore(st, b, p - d)
    <3>1. \A n \in 1 .. p - d : n + d \in 1 .. p /\ b[n] = q[n + d] BY <1>2, <1>3
    <3> QED BY <3>1, Zenon DEF RowsInv, InStore
  <2> QED BY <2>1, <2>2, Zenon DEF RowsInv
<1>9. ASSUME NEW id, NEW m \in Nat \ {0}, NEW n \in Int, n <= Len(q) - d, Closing(q, id, m + d, n + d)
      PROVE  Closing(b, id, m, n)
  <2>1. PICK j \in m + d .. n + d : q[j].id = id /\ ~q[j].open BY <1>9, Zenon DEF Closing
  <2>2. j - d \in m .. n /\ j - d \in DOMAIN b /\ (j - d) + d = j BY <1>2, <1>4, <1>9
  <2>3. b[j - d] = q[j] BY <1>5, <2>2, Zenon
  <2> QED BY <2>1, <2>2, <2>3, Zenon DEF Closing
<1>10. ASSUME OpenInv(st, q, iv, p)
       PROVE  OpenInv(st, b, iv, p - d)
  <2>0. Relieved(q) /\ Followed(q, iv) /\ Single(st) /\ Superseded(st, q, p) /\ Watched(st, q, iv, p)
    BY <1>10, Zenon DEF OpenInv
  <2>1. Relieved(b)
    <3> SUFFICES ASSUME NEW m \in DOMAIN b, NEW n \in DOMAIN b, m < n, b[m].id[1] = b[n].id[1], b[m].id # b[n].id
                 PROVE  Closing(b, b[m].id, m, n - 1)
      BY Zenon DEF Relieved
    <3>1. Closing(q, q[m + d].id, m + d, (n + d) - 1) BY <1>5, <1>6, <2>0, Zenon DEF Relieved
    <3>2. (n + d) - 1 = (n - 1) + d /\ m \in Nat \ {0} /\ n - 1 \in Int /\ n - 1 <= Len(q) - d BY <1>2, <1>4
    <3> QED BY <1>5, <1>9, <3>1, <3>2, Zenon
  <2>2. Followed(b, iv)
    <3> SUFFICES ASSUME NEW n \in DOMAIN b, iv[b[n].id[1]].event.id # b[n].id
                 PROVE  Closing(b, b[n].id, n, Len(b))
      BY Zenon DEF Followed
    <3>1. Closing(q, q[n + d].id, n + d, Len(q)) BY <1>5, <2>0, Zenon DEF Followed
    <3>2. Len(q) = Len(b) + d /\ n \in Nat \ {0} /\ Len(b) \in Int /\ Len(b) <= Len(q) - d BY <1>2, <1>3, <1>4
    <3>3. Closing(q, q[n + d].id, n + d, Len(b) + d) BY <3>1, <3>2, Zenon
    <3> QED BY <1>5, <1>9, <3>2, <3>3, Zenon
  <2>3. Superseded(st, b, p - d)
    <3> SUFFICES ASSUME NEW n \in (p - d) + 1 .. Len(b), NEW id \in DOMAIN st,
                        st[id].open, id[1] = b[n].id[1], id # b[n].id
                 PROVE  Closing(b, id, (p - d) + 1, n - 1)
      BY Zenon DEF Superseded
    <3>1. n \in DOMAIN b /\ n + d \in p + 1 .. Len(q) BY <1>2, <1>3, <1>4
    <3>2. Closing(q, id, p + 1, (n + d) - 1) BY <1>5, <2>0, <3>1, Zenon DEF Superseded
    <3>3. /\ p + 1 = ((p - d) + 1) + d /\ (n + d) - 1 = (n - 1) + d
          /\ (p - d) + 1 \in Nat \ {0} /\ n - 1 \in Int /\ n - 1 <= Len(q) - d
      BY <1>2, <1>3
    <3>4. Closing(q, id, ((p - d) + 1) + d, (n - 1) + d) BY <3>2, <3>3, Zenon
    <3> QED BY <1>9, <3>3, <3>4, Zenon
  <2>4. Watched(st, b, iv, p - d)
    <3> SUFFICES ASSUME NEW id \in DOMAIN st, st[id].open, iv[id[1]].event.id # id
                 PROVE  Closing(b, id, (p - d) + 1, Len(b))
      BY Zenon DEF Watched
    <3>1. Closing(q, id, p + 1, Len(q)) BY <2>0, Zenon DEF Watched
    <3>2. /\ p + 1 = ((p - d) + 1) + d /\ Len(q) = Len(b) + d
          /\ (p - d) + 1 \in Nat \ {0} /\ Len(b) \in Int /\ Len(b) <= Len(q) - d
      BY <1>2, <1>3
    <3>3. Closing(q, id, ((p - d) + 1) + d, Len(b) + d) BY <3>1, <3>2, Zenon
    <3> QED BY <1>9, <3>2, <3>3, Zenon
  <2> QED BY <2>0, <2>1, <2>2, <2>3, <2>4, Zenon DEF OpenInv
<1> QED BY <1>1, <1>7, <1>8, <1>10, Zenon

\* What the forwarder has after it was handed stored transitions is stored.
LEMMA HandedIsStored ==
    ASSUME NEW p, AtInv(p), NEW n \in 0 .. p
    PROVE  ForwardedOK(Handed(SubSeq(pending, 1, n)), store)
<1>1. PICK items : items = SubSeq(pending, 1, n) BY Zenon
<1>2. pending \in Seq(Items) /\ p \in Nat /\ n \in Nat /\ n <= Len(pending) /\ n <= p /\ Len(pending) \in Nat
  BY DEF AtInv
<1>3. items \in Seq(Items) /\ DOMAIN items = 1 .. n /\ \A i \in 1 .. n : items[i] = pending[i]
  BY <1>1, <1>2
<1>4. ASSUME NEW i \in DOMAIN items
      PROVE  /\ items[i].event.revision \in Nat /\ items[i].event.id \in DOMAIN store
             /\ items[i].event.revision <= store[items[i].event.id].revision
  <2>1. i \in 1 .. p /\ i \in DOMAIN pending /\ items[i] = pending[i] /\ items[i] \in Items BY <1>2, <1>3
  <2>2. Transitions(pending)[i] = items[i].event BY <2>1, Zenon DEF Transitions
  <2>3. InStore(store, Transitions(pending), p) BY Zenon DEF AtInv, RowsInv
  <2>4. items[i].event \in Events BY <2>1, Zenon DEF Items
  <2>5. items[i].event.revision \in Nat BY <2>4, Zenon DEF Events
  <2> QED BY <2>1, <2>2, <2>3, <2>5, Zenon DEF InStore
<1> DEFINE of(id) == {i \in DOMAIN items : items[i].event.id = id}
           h == Handed(items)
<1>5. /\ DOMAIN h = DOMAIN forwarded \cup {items[i].event.id : i \in DOMAIN items}
      /\ \A id \in DOMAIN h : h[id] = IF of(id) = {} THEN forwarded[id] ELSE items[Max(of(id))].event.revision
  BY Zenon DEF Handed
<1> HIDE DEF h
<1>6. ASSUME NEW id \in DOMAIN h
      PROVE  h[id] \in Nat /\ id \in DOMAIN store /\ h[id] <= store[id].revision
  <2>1. CASE of(id) = {}
    <3>1. id \in DOMAIN forwarded /\ h[id] = forwarded[id] BY <1>5, <2>1, Zenon
    <3> QED BY <3>1, Zenon DEF AtInv, ForwardedOK
  <2>2. CASE of(id) # {}
    <3>1. of(id) \in SUBSET (1 .. n) BY <1>3, Zenon
    <3>2. IsFiniteSet(of(id))
      <4>1. IsFiniteSet(1 .. n) BY <1>2, FS_Interval
      <4> QED BY <3>1, <4>1, FS_Subset, Zenon
    <3>3. of(id) \in SUBSET Nat BY <3>1
    <3>4. Max(of(id)) \in of(id)
      <4> HIDE DEF of
      <4> QED BY <2>2, <3>2, <3>3, LargestNat, Zenon
    <3>5. PICK i \in DOMAIN items : items[i].event.id = id /\ h[id] = items[i].event.revision
      BY <1>5, <2>2, <3>4, Zenon
    <3> QED BY <1>4, <3>5, Zenon
  <2> QED BY <2>1, <2>2, Zenon
<1>7. ForwardedOK(h, store) BY <1>6, Zenon DEF ForwardedOK
<1> QED BY <1>1, <1>7, Zenon DEF h

\* Forwarding takes stored transitions off the front of the queue.
LEMMA ForwardStep ==
    ASSUME NEW p, AtInv(p), Forward
    PROVE  EventsInv'
<1> DEFINE q == Transitions(pending)
<1>1. /\ pending \in Seq(Items) /\ p \in 0 .. Len(pending) /\ Len(pending) \in Nat /\ p \in Nat
      /\ QueueInv(q, interval, serial) /\ Persisted = p /\ q \in Seq(Events) /\ Len(q) = Len(pending)
  BY PersistedIs DEF AtInv, QueueInv, Context, Transitions
<1>2. UNCHANGED <<interval, serial, store, overflowed>> BY Zenon DEF Forward
<1>3. PICK last \in 0 .. p :
        /\ pending' = SubSeq(pending, last + 1, Len(pending))
        /\ \E n \in 0 .. p : forwarded' = Handed(SubSeq(pending, 1, n))
  <2>1. PICK last \in 0 .. p :
          /\ pending' = SubSeq(pending, last + 1, Len(pending))
          /\ \/ forwarded' = Handed(SubSeq(pending, 1, last))
             \/ last < p /\ \E n \in {last, last + 1} : forwarded' = Handed(SubSeq(pending, 1, n))
    BY <1>1, Zenon DEF Forward
  <2>2. last < p => last + 1 \in 0 .. p BY <1>1
  <2> QED BY <2>1, <2>2, Zenon
<1>4. ForwardedOK(forwarded', store) BY <1>3, HandedIsStored, Zenon
<1>5. last \in Nat /\ last <= p /\ last + 1 \in 1 .. Len(pending) + 1 BY <1>1
<1>6. /\ pending' \in Seq(Items) /\ Len(pending') = Len(pending) - last
      /\ DOMAIN pending' = 1 .. Len(pending) - last
      /\ \A n \in 1 .. Len(pending) - last : pending'[n] = pending[n + last]
  <2>1. PICK b : b = pending' BY Zenon
  <2>2. pending \in Seq(Items) /\ Len(pending) \in Nat /\ last <= Len(pending) /\ b = SubSeq(pending, last + 1, Len(pending))
    BY <1>1, <1>3, <1>5, <2>1
  <2> HIDE DEF q
  <2>3. b \in Seq(Items) /\ Len(b) = Len(pending) - last
        /\ \A n \in 1 .. Len(pending) - last : b[n] = pending[n + last]
    BY <1>5, <2>2
  <2>4. DOMAIN b = 1 .. Len(pending) - last BY <2>3
  <2> QED BY <2>1, <2>3, <2>4, Zenon
<1>7. \A n \in 1 .. Len(pending) - last : n + last \in DOMAIN pending BY <1>1, <1>5
<1>8. Transitions(pending') = SubSeq(q, last + 1, Len(q))
  <2>1. PICK a : a = Transitions(pending') BY Zenon
  <2>2. PICK b : b = SubSeq(q, last + 1, Len(q)) BY Zenon
  <2>3. /\ a = [n \in 1 .. Len(pending) - last |-> a[n]]
        /\ \A n \in 1 .. Len(pending) - last : a[n] = pending[n + last].event
    BY <1>6, <2>1, Zenon DEF Transitions
  <2>4. \A n \in 1 .. Len(pending) - last : q[n + last] = pending[n + last].event
    BY <1>7, Zenon DEF Transitions
  <2> HIDE DEF q
  <2>5. /\ b = [n \in 1 .. Len(pending) - last |-> b[n]]
        /\ \A n \in 1 .. Len(pending) - last : b[n] = q[n + last]
    BY <1>1, <1>5, <2>2, SMTT(30)
  <2> QED BY <2>1, <2>2, <2>3, <2>4, <2>5, Zenon
<1>9. Flags(pending', p - last)
  <2>1. ASSUME NEW n \in 1 .. Len(pending) - last
        PROVE  (pending'[n].persisted <=> n <= p - last) /\ (pending'[n].notified => n <= p - last)
    <3>1. n + last \in DOMAIN pending /\ pending'[n] = pending[n + last] BY <1>6, <1>7, Zenon
    <3>2. n <= p - last <=> n + last <= p BY <1>1, <1>5
    <3> QED BY <3>1, <3>2, Zenon DEF AtInv, Flags
  <2> QED BY <1>6, <2>1, Zenon DEF Flags
<1>10. RowsInv(store, q, interval, serial, p) /\ (overflowed \/ OpenInv(store, q, interval, p)) /\ overflowed \in BOOLEAN
       /\ Len(pending) <= QueueLimit
  BY Zenon DEF AtInv
<1> HIDE DEF q
<1>11. /\ QueueInv(Transitions(pending'), interval, serial)
       /\ RowsInv(store, Transitions(pending'), interval, serial, p - last)
       /\ overflowed \/ OpenInv(store, Transitions(pending'), interval, p - last)
  BY <1>1, <1>8, <1>10, Shifted
<1>12. p - last \in 0 .. Len(pending') /\ Len(pending') <= QueueLimit
  <2>1. QueueLimit \in Nat BY EventsAssumption, Zenon
  <2> QED BY <1>1, <1>5, <1>6, <1>10, <2>1
<1>13. AtInv(p - last)' BY <1>2, <1>4, <1>6, <1>9, <1>10, <1>11, <1>12, Zenon DEF AtInv
<1> QED BY <1>13, Zenon DEF EventsInv, AtInv

-----------------------------------------------------------------------------
(* The observation. *)

\* What an observation of a key k does: old and new are the event of its interval, n and m the events
\* that were begun, and e is emitted.
Emission(k, old, n, e, new, m) ==
    \/ e = NoEvent /\ new = old /\ m = n
    \/ /\ e \in Events /\ e.id[1] = k
       /\ \/ old = NoEvent /\ e.id[2] = n + 1 /\ m = n + 1
          \/ old # NoEvent /\ e.id = old.id /\ e.revision = old.revision + 1 /\ m = n
       /\ IF e.open THEN new = e ELSE new = NoEvent

\* The same of every key.
Observation(iv, s, em, iv2, s2) ==
    /\ iv2 \in [Keys -> Intervals] /\ s2 \in [Keys -> Nat]
    /\ \A k \in Keys : Emission(k, iv[k].event, s[k], em[k], iv2[k].event, s2[k])

\* b is the queue q with some of the emitted transitions.
Extended(q, b, em) ==
    /\ b \in Seq(Events) /\ Len(q) <= Len(b)
    /\ \A n \in 1 .. Len(q) : b[n] = q[n]
    /\ \A n \in Len(q) + 1 .. Len(b) : b[n] = em[b[n].id[1]]
    /\ \A m, n \in Len(q) + 1 .. Len(b) : b[m].id[1] = b[n].id[1] => m = n
Complete(q, b, em) ==
    \A k \in Keys : em[k] # NoEvent => \E n \in Len(q) + 1 .. Len(b) : b[n] = em[k]

\* No event is NoEvent.
LEMMA EventsAreEvents ==
    ASSUME NEW e \in Events
    PROVE  /\ e # NoEvent /\ e.id # NoEvent.id /\ e.id \in Ids /\ e.id[1] \in Keys /\ e.id[2] \in Nat
           /\ e.revision \in Nat /\ e.open \in BOOLEAN /\ e.id = <<e.id[1], e.id[2]>>
<1>1. e.id \in Ids /\ e.revision \in Nat /\ e.open \in BOOLEAN BY Zenon DEF Events
<1>2. e.id[1] \in Keys /\ e.id[2] \in Nat /\ e.id = <<e.id[1], e.id[2]>> BY <1>1 DEF Ids
<1>3. NoEvent.id = <<0, 0>> /\ <<0, 0>>[1] = 0 BY Zenon DEF NoEvent
<1> QED BY <1>1, <1>2, <1>3, EventsAssumption, Zenon

\* What is emitted of a key is of a known event of the key; the event that is tracked afterwards is
\* open and known.
Counts(k, n, e, new, m) ==
    /\ n <= m
    /\ e # NoEvent => /\ e \in Events /\ e.id[1] = k /\ e.id[2] <= m
                      /\ e.open => new = e
                      /\ ~e.open => new = NoEvent
    /\ new # NoEvent => new \in Events /\ new.id[1] = k /\ new.id[2] <= m /\ new.open

\* An event that existed before and is emitted now was tracked, and so was one that is tracked now.
WasTracked(k, old, n, e, new) ==
    \A id \in Ids : id[1] = k /\ id[2] <= n =>
        /\ e.id = id => old \in Events /\ old.id = id /\ e.revision = old.revision + 1
        /\ new.id = id => /\ old \in Events /\ old.id = id
                          /\ e = NoEvent => new = old
                          /\ e # NoEvent => e.id = id /\ new = e

\* An event that was tracked is tracked on or its end is emitted, and nothing else is emitted.
TrackedOn(old, e, new) ==
    \A id \in Ids : old.id = id => /\ new.id = id \/ (e.id = id /\ ~e.open)
                                   /\ e # NoEvent => e.id = id

\* The three of them, of a key.
Traced(iv, s, em, iv2, s2, k) ==
    /\ s[k] \in Nat /\ s2[k] \in Nat
    /\ Counts(k, s[k], em[k], iv2[k].event, s2[k])
    /\ WasTracked(k, iv[k].event, s[k], em[k], iv2[k].event)
    /\ TrackedOn(iv[k].event, em[k], iv2[k].event)

\* They follow from what an observation does to a key.
LEMMA EmissionIs ==
    ASSUME NEW k \in Keys, NEW n \in Nat, NEW m \in Nat, NEW old, NEW e, NEW new,
           old = NoEvent \/ (old \in Events /\ old.id[1] = k /\ old.id[2] <= n /\ old.open),
           Emission(k, old, n, e, new, m)
    PROVE  Counts(k, n, e, new, m) /\ WasTracked(k, old, n, e, new) /\ TrackedOn(old, e, new)
<1>1. \A id \in Ids : id[1] \in Keys /\ id[2] \in Nat /\ id # NoEvent.id
  <2>1. ASSUME NEW id \in Ids PROVE id[1] \in Keys /\ id[2] \in Nat BY Zenon DEF Ids
  <2>2. NoEvent.id[1] = 0 BY Zenon DEF NoEvent
  <2> QED BY <2>1, <2>2, EventsAssumption, Zenon
<1>2. \A x \in Events : x # NoEvent /\ x.id \in Ids BY EventsAreEvents, Zenon
<1>3. n <= n OBVIOUS
<1>4. CASE e = NoEvent /\ new = old /\ m = n
  <2>1. Counts(k, n, e, new, m) BY <1>2, <1>3, <1>4, Zenon DEF Counts
  <2>2. WasTracked(k, old, n, e, new) BY <1>1, <1>4, Zenon DEF WasTracked
  <2>3. TrackedOn(old, e, new) BY <1>4, Zenon DEF TrackedOn
  <2> QED BY <2>1, <2>2, <2>3, Zenon
<1>5. CASE /\ e \in Events /\ e.id[1] = k
           /\ old = NoEvent /\ e.id[2] = n + 1 /\ m = n + 1
           /\ IF e.open THEN new = e ELSE new = NoEvent
  <2>1. \A id \in Ids : id[2] <= n => e.id # id
    <3>1. ~(n + 1 <= n) OBVIOUS
    <3> QED BY <1>5, <3>1, Zenon
  <2>2. n <= m /\ e.id[2] <= m /\ e # NoEvent
    <3>1. n <= n + 1 /\ n + 1 <= n + 1 OBVIOUS
    <3> QED BY <1>2, <1>5, <3>1, Zenon
  <2>3. Counts(k, n, e, new, m) BY <1>5, <2>2, Zenon DEF Counts
  <2>4. WasTracked(k, old, n, e, new) BY <1>1, <1>5, <2>1, Zenon DEF WasTracked
  <2>5. TrackedOn(old, e, new) BY <1>1, <1>5, Zenon DEF TrackedOn
  <2> QED BY <2>3, <2>4, <2>5, Zenon
<1>6. CASE /\ e \in Events /\ e.id[1] = k
           /\ old # NoEvent /\ e.id = old.id /\ e.revision = old.revision + 1 /\ m = n
           /\ IF e.open THEN new = e ELSE new = NoEvent
  <2>1. Counts(k, n, e, new, m) BY <1>2, <1>3, <1>6, Zenon DEF Counts
  <2>2. WasTracked(k, old, n, e, new) BY <1>1, <1>2, <1>6, Zenon DEF WasTracked
  <2>3. TrackedOn(old, e, new) BY <1>2, <1>6, Zenon DEF TrackedOn
  <2> QED BY <2>1, <2>2, <2>3, Zenon
<1> QED BY <1>4, <1>5, <1>6, Zenon DEF Emission

\* An observation does so to every key.
LEMMA ObservationIs ==
    ASSUME NEW q, NEW iv, NEW s, Context(q, iv, s), NEW em, NEW iv2, NEW s2, Observation(iv, s, em, iv2, s2),
           NEW k \in Keys
    PROVE  Traced(iv, s, em, iv2, s2, k)
<1>1. s[k] \in Nat /\ s2[k] \in Nat /\ iv[k] \in Intervals BY Zenon DEF Context, Observation
<1>2. iv[k].event \in Events \cup {NoEvent} BY <1>1, Zenon DEF Intervals
<1>3. iv[k].event # NoEvent => iv[k].event.id[1] = k /\ iv[k].event.id[2] <= s[k] /\ iv[k].event.open
  BY Zenon DEF Context
<1>4. iv[k].event = NoEvent \/ (/\ iv[k].event \in Events /\ iv[k].event.id[1] = k
                                /\ iv[k].event.id[2] <= s[k] /\ iv[k].event.open)
  BY <1>2, <1>3, Zenon
<1>5. Emission(k, iv[k].event, s[k], em[k], iv2[k].event, s2[k]) BY Zenon DEF Observation
<1> QED BY <1>1, <1>4, <1>5, EmissionIs, Zenon DEF Traced

\* The places an observation adds to the queue.
Added(q, b) == Len(q) + 1 .. Len(b)

\* A place of the extended queue holds what it held before, or what the observation of a key emitted.
Place(q, b, em, n) ==
    /\ n \in Nat /\ b[n] \in Events /\ b[n].id[1] \in Keys
    /\ \/ n \in DOMAIN q /\ b[n] = q[n]
       \/ n \in Added(q, b) /\ b[n] = em[b[n].id[1]] /\ em[b[n].id[1]] # NoEvent

\* What was queued stays in its place.
Kept(q, b) == \A n \in DOMAIN q : n \in DOMAIN b /\ b[n] = q[n]

\* An observation keeps the queue and adds to it at most one transition of each key.
LEMMA ExtendedIs ==
    ASSUME NEW q \in Seq(Events), NEW b, NEW em, Extended(q, b, em)
    PROVE  /\ DOMAIN b = 1 .. Len(b) /\ DOMAIN q = 1 .. Len(q) /\ Len(b) \in Nat /\ Len(q) \in Nat
           /\ Len(q) <= Len(b)
           /\ \A n \in DOMAIN b : Place(q, b, em, n)
           /\ Kept(q, b)
           /\ \A m, n \in Added(q, b) : m < n => b[m].id[1] # b[n].id[1]
           /\ \A m \in DOMAIN q, n \in Added(q, b) : m < n
<1>1. b \in Seq(Events) /\ Len(q) <= Len(b) BY Zenon DEF Extended
<1>2. DOMAIN b = 1 .. Len(b) /\ DOMAIN q = 1 .. Len(q) /\ Len(b) \in Nat /\ Len(q) \in Nat BY <1>1
<1>3. ASSUME NEW n \in DOMAIN b PROVE Place(q, b, em, n)
  <2>1. n \in Nat /\ b[n] \in Events /\ (n \in 1 .. Len(q) \/ n \in Added(q, b)) BY <1>1, <1>2 DEF Added
  <2>2. b[n].id[1] \in Keys /\ b[n] # NoEvent BY <2>1, EventsAreEvents, Zenon
  <2> QED BY <1>2, <2>1, <2>2, Zenon DEF Extended, Place, Added
<1>4. Kept(q, b)
  <2>1. \A n \in 1 .. Len(q) : n \in 1 .. Len(b) BY <1>1, <1>2
  <2> QED BY <1>2, <2>1, Zenon DEF Extended, Kept
<1>5. \A m, n \in Added(q, b) : m < n => b[m].id[1] # b[n].id[1]
  <2>1. \A m, n \in Added(q, b) : m < n => m # n BY <1>2 DEF Added
  <2> QED BY <2>1, Zenon DEF Extended, Added
<1>6. \A m \in DOMAIN q, n \in Added(q, b) : m < n BY <1>2 DEF Added
<1> QED BY <1>1, <1>2, <1>3, <1>4, <1>5, <1>6, Zenon

\* The queue after an observation.
LEMMA ObservedQueue ==
    ASSUME NEW q, NEW iv, NEW s, QueueInv(q, iv, s), NEW em, NEW iv2, NEW s2,
           Observation(iv, s, em, iv2, s2), NEW b, Extended(q, b, em)
    PROVE  QueueInv(b, iv2, s2)
<1>1. Context(q, iv, s) /\ Ordered(q) /\ Numbered(q, s) /\ Tracked(q, iv) BY Zenon DEF QueueInv
<1>2. q \in Seq(Events) BY <1>1, Zenon DEF Context
<1>3. \A k \in Keys : Traced(iv, s, em, iv2, s2, k) BY <1>1, ObservationIs, Zenon
<1>4. \A n \in DOMAIN b : Place(q, b, em, n) BY <1>2, ExtendedIs, Zenon
<1>5. \A m, n \in Added(q, b) : m < n => b[m].id[1] # b[n].id[1] BY <1>2, ExtendedIs, Zenon
<1>6. \A m \in DOMAIN q, n \in Added(q, b) : m < n BY <1>2, ExtendedIs, Zenon
<1>7. \A n \in DOMAIN b : b[n].id \in Ids /\ b[n].id[2] \in Nat /\ b[n].revision \in Nat
  BY <1>4, EventsAreEvents, Zenon DEF Place
<1>8. Context(b, iv2, s2)
  <2>1. b \in Seq(Events) /\ iv2 \in [Keys -> Intervals] /\ s2 \in [Keys -> Nat] BY Zenon DEF Extended, Observation
  <2>2. \A k \in Keys : iv2[k].event # NoEvent =>
          iv2[k].event.id[1] = k /\ iv2[k].event.id[2] <= s2[k] /\ iv2[k].event.open
    BY <1>3, Zenon DEF Traced, Counts
  <2> QED BY <2>1, <2>2, Zenon DEF Context
<1>9. Numbered(b, s2)
  <2> SUFFICES ASSUME NEW n \in DOMAIN b PROVE b[n].id[2] <= s2[b[n].id[1]]
    BY Zenon DEF Numbered
  <2>1. PICK k \in Keys : k = b[n].id[1] BY <1>4, Zenon DEF Place
  <2>2. s[k] \in Nat /\ s2[k] \in Nat /\ s[k] <= s2[k] /\ (em[k] # NoEvent => em[k].id[2] <= s2[k])
    BY <1>3, Zenon DEF Traced, Counts
  <2>3. CASE n \in DOMAIN q /\ b[n] = q[n]
    <3>1. b[n].id[2] <= s[k] BY <1>1, <2>1, <2>3, Zenon DEF Numbered
    <3> QED BY <1>7, <2>1, <2>2, <3>1
  <2> QED BY <1>4, <2>1, <2>2, <2>3, Zenon DEF Place
\* An event that was queued before and is emitted now was tracked.
<1>10. ASSUME NEW m \in DOMAIN q, NEW k \in Keys, q[m].id[1] = k, em[k].id = q[m].id
       PROVE  q[m].open /\ q[m].revision < em[k].revision
  <2>1. q[m] \in Events BY <1>2
  <2>2. q[m].id \in Ids /\ q[m].revision \in Nat BY <2>1, EventsAreEvents, Zenon
  <2>3. q[m].id[2] <= s[k] BY <1>1, <1>10, Zenon DEF Numbered
  <2>4. iv[k].event \in Events /\ iv[k].event.id = q[m].id /\ em[k].revision = iv[k].event.revision + 1
    BY <1>3, <1>10, <2>2, <2>3, Zenon DEF Traced, WasTracked
  <2>5. q[m].open /\ q[m].revision <= iv[k].event.revision BY <1>1, <1>10, <2>4, Zenon DEF Tracked
  <2>6. iv[k].event.revision \in Nat BY <2>4, EventsAreEvents, Zenon
  <2> QED BY <2>2, <2>4, <2>5, <2>6
<1>11. Ordered(b)
  <2> SUFFICES ASSUME NEW m \in DOMAIN b, NEW n \in DOMAIN b, m < n, b[m].id = b[n].id
               PROVE  b[m].revision < b[n].revision /\ b[m].open
    BY Zenon DEF Ordered
  <2>1. m \in Nat /\ n \in Nat BY <1>4, Zenon DEF Place
  <2>2. CASE n \in DOMAIN q /\ b[n] = q[n]
    <3>1. ~(n < m) BY <2>1
    <3>2. m \in DOMAIN q /\ b[m] = q[m] BY <1>4, <1>6, <2>2, <3>1, Zenon DEF Place
    <3> QED BY <1>1, <2>2, <3>2, Zenon DEF Ordered
  <2>3. CASE n \in Added(q, b) /\ b[n] = em[b[n].id[1]]
    <3>1. m \notin Added(q, b) BY <1>5, <2>3, Zenon
    <3>2. m \in DOMAIN q /\ b[m] = q[m] BY <1>4, <3>1, Zenon DEF Place
    <3>3. b[n].id[1] \in Keys BY <1>4, Zenon DEF Place
    <3> QED BY <1>10, <2>3, <3>2, <3>3, Zenon
  <2> QED BY <1>4, <2>2, <2>3, Zenon DEF Place
<1>12. Tracked(b, iv2)
  <2> SUFFICES ASSUME NEW n \in DOMAIN b, iv2[b[n].id[1]].event.id = b[n].id
               PROVE  b[n].open /\ b[n].revision <= iv2[b[n].id[1]].event.revision
    BY Zenon DEF Tracked
  <2>1. PICK k \in Keys : k = b[n].id[1] BY <1>4, Zenon DEF Place
  <2>2. CASE n \in DOMAIN q /\ b[n] = q[n]
    <3>1. b[n].id[2] <= s[k] BY <1>1, <2>1, <2>2, Zenon DEF Numbered
    <3>2. /\ iv[k].event \in Events /\ iv[k].event.id = b[n].id
          /\ em[k] = NoEvent => iv2[k].event = iv[k].event
          /\ em[k] # NoEvent => em[k].id = b[n].id /\ iv2[k].event = em[k]
      BY <1>3, <1>7, <2>1, <3>1, Zenon DEF Traced, WasTracked
    <3>3. b[n].open /\ b[n].revision <= iv[k].event.revision BY <1>1, <2>1, <2>2, <3>2, Zenon DEF Tracked
    <3>4. CASE em[k] = NoEvent BY <2>1, <3>2, <3>3, <3>4, Zenon
    <3>5. CASE em[k] # NoEvent
      <4>1. q[n].revision < em[k].revision BY <1>10, <2>1, <2>2, <3>2, <3>5, Zenon
      <4>2. em[k] \in Events BY <1>3, <3>5, Zenon DEF Traced, Counts
      <4>3. em[k].revision \in Nat /\ b[n].revision \in Nat BY <1>7, <4>2, EventsAreEvents, Zenon
      <4>4. b[n].revision <= em[k].revision BY <2>2, <4>1, <4>3
      <4> QED BY <2>1, <3>2, <3>3, <3>5, <4>4, Zenon
    <3> QED BY <3>4, <3>5, Zenon
  <2>3. CASE b[n] = em[k] /\ em[k] # NoEvent
    <3>1. (em[k].open => iv2[k].event = em[k]) /\ (~em[k].open => iv2[k].event = NoEvent)
      BY <1>3, <2>3, Zenon DEF Traced, Counts
    <3>2. b[n] \in Events BY <1>4, Zenon DEF Place
    <3>3. b[n].id # NoEvent.id /\ b[n].revision \in Nat BY <3>2, EventsAreEvents, Zenon
    <3>4. em[k].open BY <2>1, <3>1, <3>3, Zenon
    <3>5. b[n].revision <= b[n].revision BY <3>3
    <3> QED BY <2>1, <2>3, <3>1, <3>4, <3>5, Zenon
  <2> QED BY <1>4, <2>1, <2>2, <2>3, Zenon DEF Place
<1> QED BY <1>8, <1>9, <1>11, <1>12, Zenon DEF QueueInv

\* The catalog after an observation: what is emitted of a stored event is newer than the row, and
\* nothing is emitted of a closed one.
LEMMA ObservedRows ==
    ASSUME NEW q, NEW iv, NEW s, QueueInv(q, iv, s), NEW em, NEW iv2, NEW s2,
           Observation(iv, s, em, iv2, s2), NEW b, Extended(q, b, em),
           NEW st, NEW p \in 0 .. Len(q), RowsInv(st, q, iv, s, p)
    PROVE  RowsInv(st, b, iv2, s2, p)
<1>1. /\ Context(q, iv, s) /\ q \in Seq(Events)
      /\ RowsTyped(st) /\ RowsNumbered(st, s) /\ RowsTracked(st, iv) /\ Final(st, q) /\ InStore(st, q, p)
  BY Zenon DEF QueueInv, Context, RowsInv
<1>2. \A k \in Keys : Traced(iv, s, em, iv2, s2, k) BY <1>1, ObservationIs, Zenon
<1>3. \A n \in DOMAIN b : Place(q, b, em, n) BY <1>1, ExtendedIs, Zenon
<1>4. ASSUME NEW id \in DOMAIN st
      PROVE  /\ id \in Ids /\ id[1] \in Keys /\ id[2] \in Nat /\ id[2] <= s[id[1]]
             /\ st[id] \in Events /\ st[id].revision \in Nat
  <2>1. id \in Ids /\ st[id] \in Events /\ id[2] <= s[id[1]] BY <1>1, Zenon DEF RowsTyped, RowsNumbered
  <2>2. id[1] \in Keys /\ id[2] \in Nat BY <2>1, Zenon DEF Ids
  <2> QED BY <2>1, <2>2, EventsAreEvents, Zenon
<1>5. RowsNumbered(st, s2)
  <2> SUFFICES ASSUME NEW id \in DOMAIN st PROVE id[2] <= s2[id[1]]
    BY Zenon DEF RowsNumbered
  <2>1. PICK k \in Keys : k = id[1] BY <1>4, Zenon
  <2>2. s[k] \in Nat /\ s2[k] \in Nat /\ s[k] <= s2[k] BY <1>2, Zenon DEF Traced, Counts
  <2> QED BY <1>4, <2>1, <2>2
\* A stored event of which a transition is emitted was tracked.
<1>6. ASSUME NEW id \in DOMAIN st, NEW k \in Keys, id[1] = k, em[k].id = id
      PROVE  /\ st[id].open /\ st[id].revision < em[k].revision
             /\ st[id].revision \in Nat /\ em[k].revision \in Nat
  <2>1. iv[k].event \in Events /\ iv[k].event.id = id /\ em[k].revision = iv[k].event.revision + 1
    BY <1>2, <1>4, <1>6, ZenonT(40) DEF Traced, WasTracked
  <2>2. st[id].open /\ st[id].revision <= iv[k].event.revision BY <1>1, <1>6, <2>1, Zenon DEF RowsTracked
  <2>3. iv[k].event.revision \in Nat /\ st[id].revision \in Nat BY <1>4, <2>1, EventsAreEvents, Zenon
  <2>4. st[id].revision < em[k].revision /\ em[k].revision \in Nat BY <2>1, <2>2, <2>3, SMTT(30)
  <2> QED BY <2>2, <2>3, <2>4, Zenon
<1>7. RowsTracked(st, iv2)
  <2> SUFFICES ASSUME NEW id \in DOMAIN st, iv2[id[1]].event.id = id
               PROVE  st[id].open /\ st[id].revision <= iv2[id[1]].event.revision
    BY Zenon DEF RowsTracked
  <2>1. PICK k \in Keys : k = id[1] BY <1>4, Zenon
  <2>2. id \in Ids /\ id[2] <= s[k] BY <1>4, <2>1, Zenon
  <2>3. /\ iv[k].event.id = id
        /\ em[k] = NoEvent => iv2[k].event = iv[k].event
        /\ em[k] # NoEvent => em[k].id = id /\ iv2[k].event = em[k]
    BY <1>2, <2>1, <2>2, Zenon DEF Traced, WasTracked
  <2>4. CASE em[k] = NoEvent
    BY <1>1, <2>1, <2>3, <2>4, Zenon DEF RowsTracked
  <2>5. CASE em[k] # NoEvent
    <3>1. /\ st[id].open /\ st[id].revision < em[k].revision
          /\ st[id].revision \in Nat /\ em[k].revision \in Nat
      BY <1>6, <2>1, <2>3, <2>5, Zenon
    <3>2. st[id].revision <= em[k].revision BY <3>1
    <3> QED BY <2>1, <2>3, <2>5, <3>1, <3>2, Zenon
  <2> QED BY <2>4, <2>5, Zenon
<1>8. Final(st, b)
  <2> SUFFICES ASSUME NEW id \in DOMAIN st, NEW n \in DOMAIN b, b[n].id = id
               PROVE  /\ ~st[id].open => b[n].revision <= st[id].revision
                      /\ st[id].open /\ ~b[n].open => st[id].revision < b[n].revision
    BY Zenon DEF Final
  <2>1. CASE n \in DOMAIN q /\ b[n] = q[n] BY <1>1, <2>1, Zenon DEF Final
  <2>2. CASE b[n] = em[b[n].id[1]] BY <1>4, <1>6, <2>2, Zenon
  <2> QED BY <1>3, <2>1, <2>2, Zenon DEF Place
<1>9. InStore(st, b, p)
  <2>1. \A n \in 1 .. p : b[n] = q[n]
    <3>1. \A n \in 1 .. p : n \in 1 .. Len(q) BY <1>1
    <3> QED BY <3>1, Zenon DEF Extended
  <2> QED BY <1>1, <2>1, Zenon DEF InStore
<1> QED BY <1>1, <1>5, <1>7, <1>8, <1>9, Zenon DEF RowsInv

\* The open rows after an observation whose transitions were all queued.
LEMMA ObservedOpen ==
    ASSUME NEW q, NEW iv, NEW s, QueueInv(q, iv, s), NEW em, NEW iv2, NEW s2,
           Observation(iv, s, em, iv2, s2), NEW b, Extended(q, b, em), Complete(q, b, em),
           NEW st, NEW p \in 0 .. Len(q), RowsInv(st, q, iv, s, p), OpenInv(st, q, iv, p)
    PROVE  OpenInv(st, b, iv2, p)
<1>1. /\ Context(q, iv, s) /\ q \in Seq(Events) /\ RowsTyped(st)
      /\ Relieved(q) /\ Followed(q, iv) /\ Single(st) /\ Superseded(st, q, p) /\ Watched(st, q, iv, p)
  BY Zenon DEF QueueInv, Context, RowsInv, OpenInv
<1>2. \A k \in Keys : Traced(iv, s, em, iv2, s2, k) BY <1>1, ObservationIs, ZenonT(40)
<1>3. /\ \A n \in DOMAIN b : Place(q, b, em, n)
      /\ \A n \in DOMAIN q : n \in DOMAIN b /\ b[n] = q[n]
      /\ \A m, n \in Added(q, b) : m < n => b[m].id[1] # b[n].id[1]
  <2>1. \A n \in DOMAIN b : Place(q, b, em, n) BY <1>1, ExtendedIs, ZenonT(40)
  <2>2. Kept(q, b) BY <1>1, ExtendedIs, Zenon
  <2>3. \A m, n \in Added(q, b) : m < n => b[m].id[1] # b[n].id[1] BY <1>1, ExtendedIs, Zenon
  <2> QED BY <2>1, <2>2, <2>3, Zenon DEF Kept
<1>4. PICK l \in Nat, l2 \in Nat : l = Len(q) /\ l2 = Len(b) /\ l <= l2
  <2>1. Len(q) \in Nat /\ Len(b) \in Nat /\ Len(q) <= Len(b) BY <1>1, ExtendedIs, Zenon
  <2> QED BY <2>1, Zenon
<1>5. DOMAIN b = 1 .. l2 /\ DOMAIN q = 1 .. l /\ Added(q, b) = l + 1 .. l2
  BY <1>1, <1>4, ExtendedIs, Zenon DEF Added
<1>6. p \in Nat /\ p <= l BY <1>4
<1>7. \A n \in DOMAIN b : b[n].id \in Ids /\ b[n].id[1] \in Keys BY <1>3, EventsAreEvents, Zenon DEF Place
<1>8. ASSUME NEW id \in DOMAIN st PROVE id \in Ids /\ id[1] \in Keys
  <2>1. id \in Ids BY <1>1, Zenon DEF RowsTyped
  <2> QED BY <2>1, Zenon DEF Ids
\* An end that was queued still is.
<1>9. ASSUME NEW id, NEW m \in Nat \ {0}, NEW n \in Int, NEW n2 \in Int, n <= l, n <= n2, Closing(q, id, m, n)
      PROVE  Closing(b, id, m, n2)
  <2>1. PICK j \in m .. n : q[j].id = id /\ ~q[j].open BY <1>9, Zenon DEF Closing
  <2>2. j \in 1 .. l /\ j \in m .. n2 BY <1>9
  <2> QED BY <1>3, <1>5, <2>1, <2>2, Zenon DEF Closing
\* An event that was tracked is tracked on, or its end is queued now.
<1>10. ASSUME NEW id \in Ids, NEW k \in Keys, iv[k].event.id = id
       PROVE  iv2[k].event.id = id \/ \E j \in Added(q, b) : b[j].id = id /\ ~b[j].open
  <2>1. iv2[k].event.id = id \/ (em[k].id = id /\ ~em[k].open) BY <1>2, <1>10, Zenon DEF Traced, TrackedOn
  <2>2. CASE em[k].id = id /\ ~em[k].open
    <3>1. NoEvent.id # id
      <4>1. id[1] \in Keys /\ NoEvent.id[1] = 0 BY Zenon DEF Ids, NoEvent
      <4> QED BY <4>1, EventsAssumption, Zenon
    <3>2. em[k] # NoEvent BY <2>2, <3>1, Zenon
    <3>3. PICK j \in Added(q, b) : b[j] = em[k] BY <3>2, Zenon DEF Complete, Added
    <3> QED BY <2>2, <3>3, Zenon
  <2> QED BY <2>1, <2>2, Zenon
<1>11. ASSUME NEW id, NEW m \in Nat, m <= l + 1, \E j \in Added(q, b) : b[j].id = id /\ ~b[j].open
       PROVE  Closing(b, id, m, l2)
  <2>1. PICK j \in l + 1 .. l2 : b[j].id = id /\ ~b[j].open BY <1>5, <1>11, Zenon
  <2>2. j \in m .. l2 BY <1>11
  <2> QED BY <2>1, <2>2, Zenon DEF Closing
\* What is emitted of a key is of the event that was tracked, if one was.
<1>12. ASSUME NEW n \in Added(q, b), NEW id \in Ids, iv[b[n].id[1]].event.id = id
       PROVE  b[n].id = id
  <2>1. n \in l + 1 .. l2 BY <1>5, Zenon
  <2>2. n \in 1 .. l2 /\ n \notin 1 .. l BY <2>1
  <2>3. PICK k \in Keys : k = b[n].id[1] BY <1>5, <1>7, <2>2, Zenon
  <2>4. b[n] = em[k] /\ em[k] # NoEvent BY <1>3, <1>5, <2>2, <2>3, Zenon DEF Place
  <2>5. iv[k].event.id = id => (em[k] # NoEvent => em[k].id = id) BY <1>2, Zenon DEF Traced, TrackedOn
  <2> QED BY <1>12, <2>3, <2>4, <2>5, Zenon
<1>13. Relieved(b)
  <2> SUFFICES ASSUME NEW m \in DOMAIN b, NEW n \in DOMAIN b, m < n, b[m].id[1] = b[n].id[1], b[m].id # b[n].id
               PROVE  Closing(b, b[m].id, m, n - 1)
    BY Zenon DEF Relieved
  <2>1. m \in 1 .. l2 /\ n \in 1 .. l2 BY <1>5, Zenon
  <2>2. m \in Nat \ {0} /\ n \in Nat /\ n - 1 \in Int /\ n - 1 <= n - 1 BY <2>1
  <2>3. CASE n \in 1 .. l
    <3>1. m \in 1 .. l /\ n - 1 <= l BY <2>1, <2>3
    <3>2. b[m] = q[m] /\ b[n] = q[n] BY <1>3, <1>5, <2>3, <3>1, Zenon
    <3>3. Closing(q, q[m].id, m, n - 1) BY <1>1, <1>5, <2>3, <3>1, <3>2, Zenon DEF Relieved
    <3> QED BY <1>9, <2>2, <3>1, <3>2, <3>3, Zenon
  <2>4. CASE n \notin 1 .. l
    <3>1. n \in l + 1 .. l2 BY <2>1, <2>4
    <3>2. m \notin Added(q, b) BY <1>3, <1>5, <3>1, Zenon
    <3>3. m \in DOMAIN q /\ b[m] = q[m] BY <1>3, <3>2, Zenon DEF Place
    <3>4. iv[q[m].id[1]].event.id # q[m].id BY <1>5, <1>7, <1>12, <3>1, <3>3, ZenonT(40)
    <3>5. Closing(q, q[m].id, m, l) BY <1>1, <1>4, <3>3, <3>4, Zenon DEF Followed
    <3>6. l \in Int /\ l <= l /\ l <= n - 1 BY <3>1
    <3> QED BY <1>9, <2>2, <3>3, <3>5, <3>6, Zenon
  <2> QED BY <2>3, <2>4, Zenon
<1>14. Followed(b, iv2)
  <2> SUFFICES ASSUME NEW n \in DOMAIN b
               PROVE  iv2[b[n].id[1]].event.id = b[n].id \/ Closing(b, b[n].id, n, l2)
    BY <1>4, Zenon DEF Followed
  <2>1. PICK k \in Keys : k = b[n].id[1] BY <1>7, Zenon
  <2>2. n \in 1 .. l2 BY <1>5, Zenon
  <2>3. n \in Nat \ {0} /\ n \in Nat /\ n <= l2 /\ n \in n .. l2 BY <2>2
  <2>4. CASE n \in DOMAIN q
    <3>1. b[n] = q[n] BY <1>3, <2>4, Zenon
    <3>2. n <= l + 1 /\ l \in Int /\ l2 \in Int /\ l <= l BY <1>5, <2>4
    <3>3. CASE iv[k].event.id = b[n].id BY <1>7, <1>10, <1>11, <2>1, <2>3, <3>2, <3>3, Zenon
    <3>4. CASE Closing(q, q[n].id, n, l) BY <1>4, <1>9, <2>3, <3>1, <3>2, <3>4, ZenonT(40)
    <3> QED BY <1>1, <1>4, <2>1, <2>4, <3>1, <3>3, <3>4, Zenon DEF Followed
  <2>5. CASE b[n] = em[k] /\ em[k] # NoEvent
    <3>1. em[k].open => iv2[k].event = em[k] BY <1>2, <2>5, Zenon DEF Traced, Counts
    <3>2. CASE em[k].open BY <2>1, <2>5, <3>1, <3>2, Zenon
    <3>3. CASE ~em[k].open BY <2>3, <2>5, <3>3, ZenonT(40) DEF Closing
    <3> QED BY <3>2, <3>3, Zenon
  <2> QED BY <1>3, <2>1, <2>4, <2>5, Zenon DEF Place
<1>15. Superseded(st, b, p)
  <2> SUFFICES ASSUME NEW n \in p + 1 .. l2, NEW id \in DOMAIN st,
                      st[id].open, id[1] = b[n].id[1], id # b[n].id
               PROVE  Closing(b, id, p + 1, n - 1)
    BY <1>4, Zenon DEF Superseded
  <2>1. n \in 1 .. l2 /\ n - 1 \in Int /\ p + 1 \in Nat \ {0} /\ n - 1 <= n - 1 BY <1>6
  <2>2. CASE n \in 1 .. l
    <3>1. n \in p + 1 .. l /\ n - 1 <= l BY <1>6, <2>2
    <3>2. b[n] = q[n] BY <1>3, <1>5, <2>2, Zenon
    <3>3. Closing(q, id, p + 1, n - 1) BY <1>1, <1>4, <3>1, <3>2, Zenon DEF Superseded
    <3> QED BY <1>9, <2>1, <3>1, <3>3, Zenon
  <2>3. CASE n \notin 1 .. l
    <3>1. n \in l + 1 .. l2 BY <2>1, <2>3
    <3>2. iv[id[1]].event.id # id BY <1>5, <1>8, <1>12, <3>1, ZenonT(60)
    <3>3. Closing(q, id, p + 1, l) BY <1>1, <1>4, <3>2, Zenon DEF Watched
    <3>4. l \in Int /\ l <= l /\ l <= n - 1 BY <3>1
    <3> QED BY <1>9, <2>1, <3>3, <3>4, Zenon
  <2> QED BY <2>2, <2>3, Zenon
<1>16. Watched(st, b, iv2, p)
  <2> SUFFICES ASSUME NEW id \in DOMAIN st, st[id].open
               PROVE  iv2[id[1]].event.id = id \/ Closing(b, id, p + 1, l2)
    BY <1>4, Zenon DEF Watched
  <2>1. p + 1 \in Nat \ {0} /\ p + 1 \in Nat /\ p + 1 <= l + 1 /\ l \in Int /\ l2 \in Int /\ l <= l BY <1>6
  <2>2. CASE iv[id[1]].event.id = id BY <1>8, <1>10, <1>11, <2>1, <2>2, Zenon
  <2>3. CASE Closing(q, id, p + 1, l) BY <1>4, <1>9, <2>1, <2>3, Zenon
  <2> QED BY <1>1, <1>4, <2>2, <2>3, Zenon DEF Watched
<1> QED BY <1>1, <1>13, <1>14, <1>15, <1>16, Zenon DEF OpenInv

\* The smaller of two numbers.
LEMMA MinOfTwo ==
    ASSUME NEW a \in Nat, NEW b \in Nat
    PROVE  Min({a, b}) \in Nat /\ Min({a, b}) <= a /\ Min({a, b}) <= b /\ Min({a, b}) \in {a, b}
<1>1. \E x \in {a, b} : \A y \in {a, b} : x <= y
  <2>1. CASE a <= b BY <2>1
  <2>2. CASE b <= a BY <2>2
  <2> QED BY <2>1, <2>2
<1>2. Min({a, b}) \in {a, b} /\ \A y \in {a, b} : Min({a, b}) <= y BY <1>1, Zenon DEF Min
<1>3. Min({a, b}) \in Nat BY <1>2, Zenon
<1>4. Min({a, b}) <= a /\ Min({a, b}) <= b BY <1>2, Zenon
<1> QED BY <1>2, <1>3, <1>4, Zenon

\* NoEvent and NoInterval are of their types.
LEMMA NoEventIs ==
    NoInterval \in Intervals /\ NoInterval.event = NoEvent
BY Zenon DEF NoInterval, Intervals

\* A transition of a tracked event has its identifier and the next revision.
LEMMA NextTransition ==
    ASSUME NEW x \in Events, NEW c \in BOOLEAN
    PROVE  /\ LET e == [x EXCEPT !.revision = @ + 1, !.critical = @ \/ c]
              IN  e \in Events /\ e.id = x.id /\ e.revision = x.revision + 1 /\ e.open = x.open
           /\ LET e == [x EXCEPT !.revision = @ + 1, !.open = FALSE]
              IN  e \in Events /\ e.id = x.id /\ e.revision = x.revision + 1 /\ ~e.open
<1>1. PICK r \in Nat, d \in BOOLEAN : r = x.revision + 1 /\ d = (x.critical \/ c)
  <2>1. x.revision + 1 \in Nat /\ (x.critical \/ c) \in BOOLEAN BY DEF Events
  <2> QED BY <2>1, Zenon
<1>2. PICK e : e = [x EXCEPT !.revision = r, !.critical = d] BY Zenon
<1>3. e \in Events /\ e.id = x.id /\ e.revision = r /\ e.open = x.open BY <1>2, Zenon DEF Events
<1>4. PICK f : f = [x EXCEPT !.revision = r, !.open = FALSE] BY Zenon
<1>5. f \in Events /\ f.id = x.id /\ f.revision = r /\ ~f.open BY <1>4, Zenon DEF Events
<1> QED BY <1>1, <1>2, <1>3, <1>4, <1>5, Zenon

\* What the monitor does to a key is an emission: nothing, the begin of an interval that had no
\* event, or the next revision of the interval's event; the end of an event ends its interval.
LEMMA ObservedEmits ==
    ASSUME NEW q, Context(q, interval, serial), NEW k \in Keys
    PROVE  /\ Observed(k).interval \in Intervals
           /\ Emission(k, interval[k].event, serial[k], Observed(k).emitted, Observed(k).interval.event,
                       IF Observed(k).emitted.id = <<k, serial[k] + 1>> THEN serial[k] + 1 ELSE serial[k])
<1>1. PICK old : old = interval[k] BY Zenon
<1>2. PICK c : c = serial[k] BY Zenon
<1>3. old \in Intervals /\ c \in Nat BY <1>1, <1>2, Zenon DEF Context
<1>4. old.event # NoEvent => old.event.id[1] = k /\ old.event.id[2] <= c /\ old.event.open
  BY <1>1, <1>2, Zenon DEF Context
<1>5. old.event \in Events \cup {NoEvent} /\ old.age \in Nat /\ old.recovering \in Nat BY <1>3, Zenon DEF Intervals
<1> DEFINE Next(e) == IF e.id = <<k, c + 1>> THEN c + 1 ELSE c
           Good(o) == o.interval \in Intervals
                      /\ Emission(k, old.event, c, o.emitted, o.interval.event, Next(o.emitted))
<1>6. ASSUME NEW i \in Intervals, i.event = old.event
      PROVE  Good(Same(i))
  <2>1. Same(i).interval = i /\ Same(i).emitted = NoEvent BY Zenon DEF Same
  <2>2. NoEvent.id # <<k, c + 1>>
    <3>1. NoEvent.id[1] = 0 /\ <<k, c + 1>>[1] = k BY Zenon DEF NoEvent
    <3> QED BY <3>1, EventsAssumption, Zenon
  <2> QED BY <1>6, <2>1, <2>2, Zenon DEF Emission
<1>7. ASSUME NEW i \in Intervals, NEW e \in Events, e.id = <<k, c + 1>>, old.event = NoEvent,
             IF e.open THEN i.event = e ELSE i.event = NoEvent
      PROVE  Good(Emit(i, e))
  <2>1. Emit(i, e).interval = i /\ Emit(i, e).emitted = e BY Zenon DEF Emit
  <2>2. e.id[1] = k /\ e.id[2] = c + 1 BY <1>7
  <2> QED BY <1>7, <2>1, <2>2, Zenon DEF Emission
<1>8. ASSUME NEW i \in Intervals, NEW e \in Events, old.event # NoEvent, e.id = old.event.id,
             e.revision = old.event.revision + 1, IF e.open THEN i.event = e ELSE i.event = NoEvent
      PROVE  Good(Emit(i, e))
  <2>1. Emit(i, e).interval = i /\ Emit(i, e).emitted = e BY Zenon DEF Emit
  <2>2. old.event \in Events BY <1>5, <1>8, Zenon
  <2>3. e.id[1] = k /\ e.id[2] <= c /\ e.id[2] \in Nat BY <1>4, <1>8, <2>2, EventsAreEvents, Zenon
  <2>4. <<k, c + 1>>[2] = c + 1 /\ ~(c + 1 <= c) BY <1>3
  <2>5. e.id # <<k, c + 1>> BY <2>3, <2>4, Zenon
  <2> QED BY <1>8, <2>1, <2>3, <2>5, Zenon DEF Emission
<1> HIDE DEF Good
\* The identifier of a new event.
<1>9. ASSUME NEW r \in Nat, NEW x \in BOOLEAN, NEW o \in BOOLEAN
      PROVE  LET e == [id |-> <<k, c + 1>>, revision |-> r, critical |-> x, open |-> o]
             IN  e \in Events /\ e.id = <<k, c + 1>> /\ e.open = o
  <2>1. <<k, c + 1>> \in Ids BY <1>3 DEF Ids
  <2> QED BY <2>1, Zenon DEF Events
<1>10. ASSUME NEW i \in Intervals, NEW e \in Events
       PROVE  LET j == [i EXCEPT !.event = e] IN j \in Intervals /\ j.event = e
  BY Zenon DEF Intervals
<1>11. Good(ObserveFailure(k))
  <2> DEFINE age == IF old.tracked THEN Min({old.age + 1, OutageHold}) ELSE 0
             esc == ~old.event.critical /\ age >= OutageHold
             new == [id |-> <<k, c + 1>>, revision |-> 1, critical |-> age >= OutageHold, open |-> TRUE]
             up == [old.event EXCEPT !.revision = @ + 1, !.critical = @ \/ esc]
  <2>1. age \in Nat
    <3>1. old.age + 1 \in Nat /\ OutageHold \in Nat BY <1>5, EventsAssumption
    <3> QED BY <3>1, MinOfTwo, Zenon
  <2>2. PICK a : a = age BY Zenon
  <2>3. PICK i : i = [old EXCEPT !.tracked = TRUE, !.age = a, !.changed = FALSE, !.recovering = 0] BY Zenon
  <2>4. i \in Intervals /\ i.event = old.event BY <1>3, <2>1, <2>2, <2>3, Zenon DEF Intervals
  <2>5. ObserveFailure(k) =
          IF old.event = NoEvent
          THEN IF age < Hold THEN Same(i) ELSE Emit([i EXCEPT !.event = new], new)
          ELSE IF ~old.changed /\ ~esc THEN Same(i) ELSE Emit([i EXCEPT !.event = up], up)
    BY <1>1, <1>2, <2>2, <2>3, Zenon DEF ObserveFailure
  <2>6. (age >= OutageHold) \in BOOLEAN /\ esc \in BOOLEAN OBVIOUS
  <2>7. CASE old.event = NoEvent
    <3>1. new \in Events /\ new.id = <<k, c + 1>> /\ new.open BY <1>9, <2>6, Zenon
    <3> HIDE DEF new
    <3>2. [i EXCEPT !.event = new] \in Intervals /\ [i EXCEPT !.event = new].event = new BY <1>10, <2>4, <3>1, Zenon
    <3>3. Good(Emit([i EXCEPT !.event = new], new)) BY <1>7, <2>7, <3>1, <3>2, Zenon
    <3>4. Good(Same(i)) BY <1>6, <2>4, Zenon
    <3> QED BY <2>5, <2>7, <3>3, <3>4, Zenon
  <2>8. CASE old.event # NoEvent
    <3>0. old.event \in Events BY <1>5, <2>8, Zenon
    <3> HIDE DEF esc
    <3>1. up \in Events /\ up.id = old.event.id /\ up.revision = old.event.revision + 1 /\ up.open = old.event.open
      BY <2>6, <3>0, NextTransition, ZenonT(40)
    <3>o. up.open BY <1>4, <2>8, <3>1, Zenon
    <3> HIDE DEF up
    <3>2. [i EXCEPT !.event = up] \in Intervals /\ [i EXCEPT !.event = up].event = up BY <1>10, <2>4, <3>1, Zenon
    <3>3. Good(Emit([i EXCEPT !.event = up], up)) BY <1>8, <2>8, <3>1, <3>o, <3>2, Zenon
    <3>4. Good(Same(i)) BY <1>6, <2>4, Zenon
    <3> QED BY <2>5, <2>8, <3>3, <3>4, Zenon
  <2> QED BY <2>7, <2>8, Zenon
<1>12. Good(ObserveRecovery(k))
  <2> DEFINE new == [id |-> <<k, c + 1>>, revision |-> 2, critical |-> FALSE, open |-> FALSE]
             up == [old.event EXCEPT !.revision = @ + 1, !.open = FALSE]
  <2>1. Min({old.recovering + 1, Debounce + 1}) \in Nat /\ Min({old.age + 1, OutageHold}) \in Nat
    <3>1. old.age + 1 \in Nat /\ OutageHold \in Nat /\ old.recovering + 1 \in Nat /\ Debounce + 1 \in Nat
      BY <1>5, EventsAssumption
    <3> QED BY <3>1, MinOfTwo, Zenon
  <2>2. PICK a, r : a = Min({old.age + 1, OutageHold}) /\ r = Min({old.recovering + 1, Debounce + 1}) BY Zenon
  <2>3. PICK i : i = [old EXCEPT !.recovering = r, !.age = a] BY Zenon
  <2>4. i \in Intervals /\ i.event = old.event BY <1>3, <2>1, <2>2, <2>3, Zenon DEF Intervals
  <2>5. i = [interval[k] EXCEPT !.recovering = Min({@ + 1, Debounce + 1}), !.age = Min({@ + 1, OutageHold})]
    BY <1>1, <1>3, <2>2, <2>3, Zenon DEF Intervals
  <2>6. ObserveRecovery(k) =
          IF i.recovering <= Debounce THEN Same(i)
          ELSE IF i.event # NoEvent THEN Emit(NoInterval, [i.event EXCEPT !.revision = @ + 1, !.open = FALSE])
          ELSE IF RecordFlaps THEN Emit(NoInterval, new)
          ELSE Same(NoInterval)
    BY <1>2, <2>5, SMTT(30) DEF ObserveRecovery
  <2>7. Good(Same(i)) BY <1>6, <2>4, Zenon
  <2>8. CASE old.event = NoEvent
    <3>1. new \in Events /\ new.id = <<k, c + 1>> /\ ~new.open BY <1>9, Zenon
    <3> HIDE DEF new
    <3>2. Good(Emit(NoInterval, new)) BY <1>7, <2>8, <3>1, NoEventIs, Zenon
    <3>3. Good(Same(NoInterval)) BY <1>6, <2>8, NoEventIs, Zenon
    <3> QED BY <2>4, <2>6, <2>7, <2>8, <3>2, <3>3, Zenon
  <2>9. CASE old.event # NoEvent
    <3>0. old.event \in Events BY <1>5, <2>9, Zenon
    <3>1. up \in Events /\ up.id = old.event.id /\ up.revision = old.event.revision + 1 /\ ~up.open
      BY <3>0, NextTransition, Zenon
    <3>2. Good(Emit(NoInterval, up))
      <4> HIDE DEF up
      <4> QED BY <1>8, <2>9, <3>1, NoEventIs, Zenon
    <3> QED BY <2>4, <2>6, <2>7, <2>9, <3>2, ZenonT(60)
  <2> QED BY <2>8, <2>9, Zenon
<1>13. Good(Same(interval[k])) BY <1>1, <1>3, <1>6, Zenon
<1>14. Good(Observed(k)) BY <1>11, <1>12, <1>13, Zenon DEF Observed
<1> QED BY <1>1, <1>2, <1>14, Zenon DEF Good

\* A listing of a finite set holds each of its elements once.
LEMMA ListingIs ==
    ASSUME NEW S, IsFiniteSet(S), NEW order \in Listings(S)
    PROVE  /\ order \in Seq(S) /\ Len(order) \in Nat /\ DOMAIN order = 1 .. Len(order)
           /\ \A m, n \in 1 .. Len(order) : order[m] = order[n] => m = n
           /\ \A x \in S : \E n \in 1 .. Len(order) : order[n] = x
<1>1. PICK c : c = Cardinality(S) BY Zenon
<1>2. c \in Nat BY <1>1, FS_CardinalityType, Zenon
<1>3. order \in [1 .. c -> S] /\ \A m, n \in 1 .. c : order[m] = order[n] => m = n
  BY <1>1, Zenon DEF Listings
<1>4. order \in Seq(S) /\ Len(order) = c /\ DOMAIN order = 1 .. c BY <1>2, <1>3
<1>5. order \in Injection(1 .. c, S) BY <1>3, Zenon DEF Injection, IsInjective
<1>6. Cardinality(1 .. c) = c
  <2>1. 1 \in Int /\ c \in Int /\ (1 > c => c = 0) /\ c - 1 + 1 = c BY <1>2
  <2> QED BY <2>1, FS_Interval, Zenon
<1>7. order \in Surjection(1 .. c, S) BY <1>1, <1>5, <1>6, FS_Injection, Zenon
<1>8. \A x \in S : \E n \in 1 .. c : order[n] = x BY <1>7, Zenon DEF Surjection
<1> QED BY <1>2, <1>3, <1>4, <1>8, Zenon

\* What extend_pending leaves: the queue and the first of the transitions, all unless it overflows.
LEMMA ExtendIs ==
    ASSUME NEW queue \in Seq(Items), Len(queue) <= QueueLimit, NEW events \in Seq(Events),
           overflowed \in BOOLEAN, Extend(queue, events)
    PROVE  \E c \in 0 .. Len(events) :
              /\ pending' \in Seq(Items) /\ Len(pending') = Len(queue) + c /\ Len(pending') <= QueueLimit
              /\ \A n \in 1 .. Len(queue) : pending'[n] = queue[n]
              /\ \A n \in 1 .. c : pending'[Len(queue) + n] = Item(events[n])
              /\ overflowed' \in BOOLEAN
              /\ ~overflowed' => ~overflowed /\ c = Len(events)
<1> DEFINE its == [n \in DOMAIN events |-> Item(events[n])]
           c == Min({Len(events), QueueLimit - Len(queue)})
<1>1. pending' = Enqueue(queue, its) /\ overflowed' = (overflowed \/ Len(queue) + Len(its) > QueueLimit)
  BY Zenon DEF Extend
<1>2. \A e \in Events : Item(e) \in Items BY Zenon DEF Item, Items
<1>3. its \in Seq(Items) /\ Len(its) = Len(events) /\ \A n \in 1 .. Len(events) : its[n] = Item(events[n])
  BY <1>2, SMTT(30)
<1>4. QueueLimit \in Nat /\ Len(queue) \in Nat /\ Len(events) \in Nat /\ QueueLimit - Len(queue) \in Nat
  BY EventsAssumption
<1>5. c \in Nat /\ c <= Len(events) /\ c <= QueueLimit - Len(queue) /\ c \in {Len(events), QueueLimit - Len(queue)}
  BY <1>4, MinOfTwo, Zenon
<1>6. pending' = queue \o SubSeq(its, 1, c) BY <1>1, <1>3, Zenon DEF Enqueue
<1> HIDE DEF its, c
<1>7. PICK a : a = SubSeq(its, 1, c) BY Zenon
<1>8. a \in Seq(Items) /\ Len(a) = c /\ \A n \in 1 .. c : a[n] = its[n] BY <1>3, <1>4, <1>5, <1>7
<1>9. PICK b : b = queue \o a BY Zenon
<1>10. /\ b \in Seq(Items) /\ Len(b) = Len(queue) + c
       /\ \A n \in 1 .. Len(queue) : b[n] = queue[n]
       /\ \A n \in 1 .. c : b[Len(queue) + n] = a[n]
  <2>0. a \in Seq(Items) BY <1>8, Zenon
  <2>a. queue \o a \in Seq(Items) BY <2>0
  <2>b. Len(queue \o a) = Len(queue) + Len(a) BY <2>0
  <2>1. b \in Seq(Items) /\ Len(b) = Len(queue) + Len(a) BY <1>9, <2>a, <2>b, Zenon
  <2>2. ASSUME NEW n \in 1 .. Len(queue) PROVE b[n] = queue[n] BY <1>8, <1>9
  <2>3. ASSUME NEW n \in 1 .. Len(a) PROVE b[Len(queue) + n] = a[n]
    <3>1. Len(queue) + n \in 1 .. Len(queue) + Len(a) /\ Len(queue) + n > Len(queue) /\ (Len(queue) + n) - Len(queue) = n
      BY <1>4, <1>8
    <3> QED BY <1>8, <1>9, <3>1
  <2> QED BY <1>8, <2>1, <2>2, <2>3, Zenon
<1>11. pending' = b BY <1>6, <1>7, <1>9, Zenon
<1>12. \A n \in 1 .. c : b[Len(queue) + n] = Item(events[n])
  <2>1. \A n \in 1 .. c : n \in 1 .. Len(events) BY <1>4, <1>5
  <2> QED BY <1>3, <1>8, <1>10, <2>1, Zenon
<1>13. overflowed' \in BOOLEAN BY <1>1, Zenon
<1>14. ~overflowed' => ~overflowed /\ c = Len(events)
  <2>1. ~overflowed' => ~overflowed /\ ~(Len(queue) + Len(events) > QueueLimit) BY <1>1, <1>3, Zenon
  <2>2. ~(Len(queue) + Len(events) > QueueLimit) => c = Len(events)
    <3>1. Len(queue) + Len(events) <= QueueLimit => c = Len(events)
      <4>1. c = QueueLimit - Len(queue) /\ Len(queue) + Len(events) <= QueueLimit => c = Len(events)
        BY <1>4, <1>5
      <4> QED BY <1>5, <4>1, Zenon
    <3> QED BY <1>4, <3>1
  <2> QED BY <2>1, <2>2, Zenon
<1>15. c \in 0 .. Len(events) /\ Len(b) <= QueueLimit BY <1>4, <1>5, <1>10
<1> QED BY <1>10, <1>11, <1>12, <1>13, <1>14, <1>15, Zenon

\* The observation keeps the invariant.
LEMMA ObserveStep ==
    ASSUME NEW p, AtInv(p), Observe
    PROVE  EventsInv'
<1> DEFINE q == Transitions(pending)
           S == {k \in Keys : Observed(k).emitted # NoEvent}
<1>1. PICK em : em = [k \in Keys |-> Observed(k).emitted] BY ZenonT(40)
<1>2. /\ pending \in Seq(Items) /\ Len(pending) \in Nat /\ p \in 0 .. Len(pending) /\ p \in Nat /\ Len(pending) <= QueueLimit
      /\ QueueInv(q, interval, serial) /\ Context(q, interval, serial) /\ overflowed \in BOOLEAN
      /\ interval \in [Keys -> Intervals] /\ serial \in [Keys -> Nat]
  <2>1. /\ pending \in Seq(Items) /\ p \in 0 .. Len(pending) /\ Len(pending) <= QueueLimit
        /\ QueueInv(q, interval, serial) /\ overflowed \in BOOLEAN
    BY Zenon DEF AtInv
  <2>2. /\ Context(q, interval, serial) /\ interval \in [Keys -> Intervals] /\ serial \in [Keys -> Nat]
    BY <2>1, Zenon DEF QueueInv, Context
  <2> HIDE DEF q
  <2>3. Len(pending) \in Nat /\ p \in Nat BY <2>1
  <2> QED BY <2>1, <2>2, <2>3, Zenon
<1>3. /\ interval' = [k \in Keys |-> Observed(k).interval]
      /\ serial' = [k \in Keys |-> IF Observed(k).emitted.id = <<k, serial[k] + 1>> THEN serial[k] + 1 ELSE serial[k]]
      /\ UNCHANGED <<store, forwarded>>
  BY Zenon DEF Observe
<1>4. Observation(interval, serial, em, interval', serial')
  <2>1. interval' \in [Keys -> Intervals] BY <1>2, <1>3, ObservedEmits, Zenon
  <2>2. serial' \in [Keys -> Nat] BY <1>2, <1>3
  <2>3. \A k \in Keys : Emission(k, interval[k].event, serial[k], em[k], interval'[k].event, serial'[k])
    BY <1>1, <1>2, <1>3, ObservedEmits, Zenon
  <2> QED BY <2>1, <2>2, <2>3, Zenon DEF Observation
<1>5. PICK order \in Listings(S) : Extend(pending, [n \in DOMAIN order |-> Observed(order[n]).emitted])
  BY Zenon DEF Observe
<1>6. IsFiniteSet(S)
  <2>1. S \in SUBSET Keys BY Zenon
  <2> QED BY <2>1, EventsAssumption, FS_Subset, Zenon
<1> HIDE DEF S
<1>7. /\ order \in Seq(S) /\ Len(order) \in Nat /\ DOMAIN order = 1 .. Len(order)
      /\ \A m, n \in 1 .. Len(order) : order[m] = order[n] => m = n
      /\ \A x \in S : \E n \in 1 .. Len(order) : order[n] = x
  BY <1>6, ListingIs
<1>8. \A k \in S : k \in Keys /\ em[k] # NoEvent /\ em[k] = Observed(k).emitted BY <1>1, Zenon DEF S
<1>9. \A k \in S : em[k] \in Events /\ em[k].id[1] = k
  <2>1. \A k \in Keys : Traced(interval, serial, em, interval', serial', k) BY <1>2, <1>4, ObservationIs, Zenon
  <2>2. \A k \in Keys : em[k] # NoEvent => em[k] \in Events /\ em[k].id[1] = k BY <2>1, Zenon DEF Traced, Counts
  <2> QED BY <1>8, <2>2, Zenon
<1>10. PICK events : events = [n \in 1 .. Len(order) |-> em[order[n]]] BY Zenon
<1>11. \A n \in 1 .. Len(order) : order[n] \in S BY <1>7
<1>12. events \in Seq(Events) /\ Len(events) = Len(order) /\ \A n \in 1 .. Len(order) : events[n] = em[order[n]]
  BY <1>7, <1>9, <1>10, <1>11
<1>13. Extend(pending, events)
  <2>1. [n \in DOMAIN order |-> Observed(order[n]).emitted] = events BY <1>7, <1>8, <1>10, <1>11, Zenon
  <2> QED BY <1>5, <2>1, Zenon
<1>14. PICK c \in 0 .. Len(events) :
              /\ pending' \in Seq(Items) /\ Len(pending') = Len(pending) + c /\ Len(pending') <= QueueLimit
              /\ \A n \in 1 .. Len(pending) : pending'[n] = pending[n]
              /\ \A n \in 1 .. c : pending'[Len(pending) + n] = Item(events[n])
              /\ overflowed' \in BOOLEAN
              /\ ~overflowed' => ~overflowed /\ c = Len(events)
  BY <1>2, <1>12, <1>13, ExtendIs, Zenon
<1>15. PICK b : b = Transitions(pending') BY Zenon
<1>16. /\ c \in Nat /\ c <= Len(order) /\ DOMAIN pending' = 1 .. Len(pending) + c /\ DOMAIN pending = 1 .. Len(pending)
       /\ Len(b) = Len(pending) + c /\ Len(q) = Len(pending)
       /\ \A n \in 1 .. Len(pending) + c : b[n] = pending'[n].event
       /\ \A n \in 1 .. Len(pending) : q[n] = pending[n].event
  <2>1. c \in Nat /\ c <= Len(order) BY <1>12, <1>14, SMTT(30)
  <2>2. DOMAIN pending' = 1 .. Len(pending) + c /\ DOMAIN pending = 1 .. Len(pending) BY <1>2, <1>14
  <2>3. DOMAIN b = 1 .. Len(pending) + c /\ \A n \in 1 .. Len(pending) + c : b[n] = pending'[n].event
    BY <1>15, <2>2, Zenon DEF Transitions
  <2>4. Len(b) = Len(pending) + c
    <3>1. Len(pending) + c \in Nat BY <1>2, <2>1
    <3> QED BY <2>3, <3>1
  <2>5. Len(q) = Len(pending) /\ \A n \in 1 .. Len(pending) : q[n] = pending[n].event
    BY <1>2, <2>2 DEF Transitions
  <2> QED BY <2>1, <2>2, <2>3, <2>4, <2>5, Zenon
<1> HIDE DEF q
\* What was added.
<1>17. ASSUME NEW n \in Len(pending) + 1 .. Len(pending) + c
       PROVE  /\ n - Len(pending) \in 1 .. Len(order) /\ b[n] = em[order[n - Len(pending)]]
              /\ ~pending'[n].persisted /\ ~pending'[n].notified
  <2>1. PICK i : i = n - Len(pending) BY Zenon
  <2>2. i \in 1 .. c /\ i \in 1 .. Len(order) /\ n = Len(pending) + i /\ n \in 1 .. Len(pending) + c
    BY <1>2, <1>7, <1>16, <2>1
  <2>3. pending'[n] = Item(events[i]) BY <1>14, <2>2, Zenon
  <2>4. pending'[n].event = events[i] /\ ~pending'[n].persisted /\ ~pending'[n].notified BY <2>3 DEF Item
  <2>5. b[n] = em[order[i]] BY <1>12, <1>16, <2>2, <2>4, Zenon
  <2> QED BY <2>1, <2>2, <2>4, <2>5, Zenon
<1>18. Extended(q, b, em)
  <2>1. b \in Seq(Events)
    <3>1. \A n \in DOMAIN pending' : pending'[n].event \in Events
      <4>1. \A n \in DOMAIN pending' : pending'[n] \in Items BY <1>14
      <4> QED BY <4>1, Zenon DEF Items
    <3>2. Len(pending) + c \in Nat BY <1>2, <1>16
    <3>3. b = [n \in 1 .. Len(pending) + c |-> b[n]] BY <1>15, <1>16, Zenon DEF Transitions
    <3> QED BY <1>16, <3>1, <3>2, <3>3, SMTT(30)
  <2>2. Len(q) <= Len(b) /\ \A n \in 1 .. Len(q) : b[n] = q[n]
    <3>1. \A n \in 1 .. Len(pending) : n \in 1 .. Len(pending) + c BY <1>2, <1>16
    <3>2. Len(pending) <= Len(pending) + c BY <1>2, <1>16
    <3> QED BY <1>14, <1>16, <3>1, <3>2, Zenon
  <2>3. ASSUME NEW n \in Len(q) + 1 .. Len(b)
        PROVE  b[n].id[1] = order[n - Len(pending)] /\ b[n] = em[b[n].id[1]]
    <3>1. n \in Len(pending) + 1 .. Len(pending) + c BY <1>16, Zenon
    <3>2. n - Len(pending) \in 1 .. Len(order) /\ b[n] = em[order[n - Len(pending)]] BY <1>17, <3>1, Zenon
    <3> QED BY <1>9, <1>11, <3>2, Zenon
  <2>4. ASSUME NEW m \in Len(q) + 1 .. Len(b), NEW n \in Len(q) + 1 .. Len(b), b[m].id[1] = b[n].id[1]
        PROVE  m = n
    <3>1. m \in Len(pending) + 1 .. Len(pending) + c /\ n \in Len(pending) + 1 .. Len(pending) + c BY <1>16, Zenon
    <3>2. m - Len(pending) \in 1 .. Len(order) /\ n - Len(pending) \in 1 .. Len(order) BY <1>17, <3>1, Zenon
    <3>3. m - Len(pending) = n - Len(pending)
      <4>1. PICK i \in 1 .. Len(order), j \in 1 .. Len(order) : i = m - Len(pending) /\ j = n - Len(pending) BY <3>2, Zenon
      <4>2. b[m].id[1] = order[i] /\ b[n].id[1] = order[j] BY <2>3, <4>1, Zenon
      <4>3. order[i] = order[j] BY <2>4, <4>2, Zenon
      <4> QED BY <1>7, <4>1, <4>3, Zenon
    <3> QED BY <1>2, <3>1, <3>3
  <2> QED BY <2>1, <2>2, <2>3, <2>4, Zenon DEF Extended
<1>19. ASSUME ~overflowed' PROVE Complete(q, b, em)
  <2> SUFFICES ASSUME NEW k \in Keys, em[k] # NoEvent
               PROVE  \E n \in Len(q) + 1 .. Len(b) : b[n] = em[k]
    BY Zenon DEF Complete
  <2>1. k \in S BY <1>1, Zenon DEF S
  <2>2. PICK i \in 1 .. Len(order) : order[i] = k BY <1>7, <2>1, Zenon
  <2>3. c = Len(order) BY <1>12, <1>14, <1>19, Zenon
  <2>4. Len(pending) + i \in Len(pending) + 1 .. Len(pending) + c /\ (Len(pending) + i) - Len(pending) = i
    BY <1>2, <1>7, <2>3
  <2>5. b[Len(pending) + i] = em[k] BY <1>17, <2>2, <2>4, Zenon
  <2> QED BY <1>16, <2>4, <2>5, Zenon
<1>20. Flags(pending', p)
  <2> SUFFICES ASSUME NEW n \in DOMAIN pending'
               PROVE  (pending'[n].persisted <=> n <= p) /\ (pending'[n].notified => n <= p)
    BY Zenon DEF Flags
  <2>1. CASE n \in 1 .. Len(pending)
    <3>1. pending'[n] = pending[n] /\ n \in DOMAIN pending BY <1>14, <1>16, <2>1, Zenon
    <3> QED BY <3>1, Zenon DEF AtInv, Flags
  <2>2. CASE n \in Len(pending) + 1 .. Len(pending) + c
    <3>1. ~(n <= p) BY <1>2, <2>2
    <3> QED BY <1>17, <2>2, <3>1, Zenon
  <2> QED BY <1>2, <1>16, <2>1, <2>2
<1>21. RowsInv(store, q, interval, serial, p) /\ (overflowed \/ OpenInv(store, q, interval, p)) /\ ForwardedOK(forwarded, store)
  BY Zenon DEF AtInv, q
<1>22. p \in 0 .. Len(q) /\ p \in 0 .. Len(pending') BY <1>2, <1>14, <1>16
<1>23. QueueInv(b, interval', serial') BY <1>2, <1>4, <1>18, ObservedQueue, Zenon
<1>24. RowsInv(store, b, interval', serial', p) BY <1>2, <1>4, <1>18, <1>21, <1>22, ObservedRows, Zenon
<1>25. overflowed' \/ OpenInv(store, b, interval', p)
  BY <1>2, <1>4, <1>14, <1>18, <1>19, <1>21, <1>22, ObservedOpen, Zenon
<1>26. AtInv(p)' BY <1>3, <1>14, <1>15, <1>20, <1>21, <1>22, <1>23, <1>24, <1>25, ZenonT(40) DEF AtInv
<1> QED BY <1>26, Zenon DEF EventsInv, AtInv

-----------------------------------------------------------------------------
(* Restarts, and the changes of health. *)

\* The tracker is restored from one of the open rows of the key.
LEMMA RestoredIs ==
    ASSUME RowsTyped(store), NEW k \in Keys, NEW age \in Nat
    PROVE  /\ Restored(k, age) \in Intervals
           /\ OpenRows(k) = {} => Restored(k, age).event = NoEvent
           /\ OpenRows(k) # {} => \E id \in OpenRows(k) : Restored(k, age).event = store[id]
<1>1. CASE OpenRows(k) = {}
  <2>1. Restored(k, age) = NoInterval BY <1>1, Zenon DEF Restored
  <2> QED BY <1>1, <2>1, NoEventIs, Zenon
<1>2. CASE OpenRows(k) # {}
  <2> DEFINE R == OpenRows(k)
             newest == {id \in R : \A x \in R : store[x].revision <= store[id].revision}
             oldest == CHOOSE i \in newest : \A x \in newest : i[2] <= x[2]
  <2>1. R \in SUBSET (DOMAIN store) BY Zenon DEF OpenRows
  <2>2. \A id \in R : store[id] \in Events /\ store[id].revision \in Nat /\ id \in Ids /\ id[2] \in Nat
    <3>1. \A id \in R : store[id] \in Events /\ id \in Ids BY <2>1, Zenon DEF RowsTyped
    <3>2. \A id \in R : id[2] \in Nat BY <3>1, Zenon DEF Ids
    <3>3. \A id \in R : store[id].revision \in Nat BY <3>1, Zenon DEF Events
    <3> QED BY <3>1, <3>2, <3>3, Zenon
  <2>3. IsFiniteSet(R) BY <2>1, FS_Subset, Zenon DEF RowsTyped
  <2> HIDE DEF R
  <2>4. newest # {}
    <3> DEFINE f == [id \in R |-> store[id].revision]
               T == {f[id] : id \in R}
    <3>1. f \in Surjection(R, T) BY Zenon DEF Surjection
    <3>2. IsFiniteSet(T)
      <4> HIDE DEF f, T
      <4> QED BY <2>3, <3>1, FS_Surjection, Zenon
    <3>3. T \in SUBSET Nat /\ T # {} BY <1>2, <2>2, Zenon DEF R
    <3>4. Max(T) \in T /\ \A y \in T : y <= Max(T)
      <4> HIDE DEF T
      <4> QED BY <3>2, <3>3, LargestNat, Zenon
    <3>5. PICK id \in R : store[id].revision = Max(T) BY <3>4, Zenon
    <3>6. \A x \in R : store[x].revision \in T BY Zenon
    <3>7. \A x \in R : store[x].revision <= store[id].revision
      <4> HIDE DEF T
      <4> QED BY <3>4, <3>5, <3>6, Zenon
    <3> QED BY <3>7, Zenon
  <2>5. oldest \in newest
    <3> DEFINE T == {x[2] : x \in newest}
    <3>1. T \in SUBSET Nat /\ T # {} BY <2>2, <2>4, Zenon
    <3>2. PICK t \in T : \A y \in T : t <= y
      <4> HIDE DEF T
      <4> QED BY <3>1, LeastNat, Zenon
    <3>3. PICK i \in newest : t = i[2] BY Zenon
    <3>4. \A x \in newest : i[2] <= x[2] BY <3>2, <3>3, Zenon
    <3> HIDE DEF newest
    <3> QED BY <3>4, Zenon
  <2>6. Restored(k, age) = [NoInterval EXCEPT !.tracked = TRUE, !.age = age, !.event = store[oldest]]
    BY <1>2, Zenon DEF Restored, R
  <2>7. oldest \in R BY <2>5, Zenon
  <2> HIDE DEF oldest
  <2>8. store[oldest] \in Events BY <2>2, <2>7, Zenon
  <2>9. Restored(k, age) \in Intervals /\ Restored(k, age).event = store[oldest]
    <3>1. ASSUME NEW e \in Events, NEW i \in Intervals
          PROVE  LET j == [i EXCEPT !.tracked = TRUE, !.age = age, !.event = e]
                 IN  j \in Intervals /\ j.event = e
      BY Zenon DEF Intervals
    <3> QED BY <2>6, <2>8, <3>1, NoEventIs, Zenon
  <2> QED BY <1>2, <2>7, <2>9, Zenon DEF R
<1> QED BY <1>1, <1>2, Zenon

\* A restart leaves the open rows in the queue, one of each key tracked.
LEMMA RestartStep ==
    ASSUME NEW p, AtInv(p), Restart
    PROVE  EventsInv'
<1>1. /\ overflowed \in BOOLEAN /\ ForwardedOK(forwarded, store) /\ serial \in [Keys -> Nat]
      /\ RowsTyped(store) /\ RowsNumbered(store, serial) /\ (overflowed \/ Single(store))
  BY Zenon DEF AtInv, QueueInv, Context, RowsInv, OpenInv
<1>2. UNCHANGED <<serial, store, forwarded>> BY Zenon DEF Restart
<1>3. PICK age \in Nat : interval' = [k \in Keys |-> Restored(k, age)]
  <2>1. \A age \in Hold .. OutageHold : age \in Nat BY EventsAssumption
  <2> QED BY <2>1, Zenon DEF Restart
<1> DEFINE S == UNION {OpenRows(k) : k \in Keys}
<1>4. PICK order \in Listings(S) : Extend(<<>>, [n \in DOMAIN order |-> store[order[n]]])
  BY Zenon DEF Restart
\* The open rows.
<1>5. ASSUME NEW id
      PROVE  id \in S <=> id \in DOMAIN store /\ store[id].open
  <2>1. id \in DOMAIN store => id[1] \in Keys BY <1>1, Zenon DEF RowsTyped, Ids
  <2> QED BY <2>1 DEF OpenRows
<1>6. S \in SUBSET DOMAIN store BY <1>5, Zenon
<1> HIDE DEF S
<1>7. ASSUME NEW id \in DOMAIN store
      PROVE  /\ store[id] \in Events /\ store[id].id = id /\ id \in Ids /\ id[1] \in Keys /\ id[2] \in Nat
             /\ id[2] <= serial[id[1]] /\ store[id].revision \in Nat
  <2>1. store[id] \in Events /\ store[id].id = id /\ id \in Ids BY <1>1, Zenon DEF RowsTyped
  <2> QED BY <1>1, <2>1, EventsAreEvents, Zenon DEF RowsNumbered
<1>8. IsFiniteSet(S) BY <1>1, <1>6, FS_Subset, Zenon DEF RowsTyped
<1>9. /\ order \in Seq(S) /\ Len(order) \in Nat /\ DOMAIN order = 1 .. Len(order)
      /\ \A m, n \in 1 .. Len(order) : order[m] = order[n] => m = n
  BY <1>8, ListingIs, Zenon
<1>10. \A n \in 1 .. Len(order) : order[n] \in S BY <1>9
<1>11. PICK events : events = [n \in 1 .. Len(order) |-> store[order[n]]] BY Zenon
<1>12. events \in Seq(Events) /\ Len(events) = Len(order) /\ \A n \in 1 .. Len(order) : events[n] = store[order[n]]
  BY <1>6, <1>7, <1>9, <1>10, <1>11, SMTT(30)
<1>13. PICK c \in 0 .. Len(events) :
              /\ pending' \in Seq(Items) /\ Len(pending') = c /\ Len(pending') <= QueueLimit
              /\ \A n \in 1 .. c : pending'[n] = Item(events[n])
              /\ overflowed' \in BOOLEAN
              /\ ~overflowed' => ~overflowed
  <2>1. PICK none : none = <<>> BY Zenon
  <2>2. none \in Seq(Items) /\ Len(none) = 0 /\ Len(none) <= QueueLimit BY <2>1, EventsAssumption
  <2>3. Extend(none, events)
    <3>1. [n \in DOMAIN order |-> store[order[n]]] = events BY <1>9, <1>11, Zenon
    <3> QED BY <1>4, <2>1, <3>1, Zenon
  <2>4. PICK c \in 0 .. Len(events) :
              /\ pending' \in Seq(Items) /\ Len(pending') = Len(none) + c /\ Len(pending') <= QueueLimit
              /\ \A n \in 1 .. Len(none) : pending'[n] = none[n]
              /\ \A n \in 1 .. c : pending'[Len(none) + n] = Item(events[n])
              /\ overflowed' \in BOOLEAN
              /\ ~overflowed' => ~overflowed /\ c = Len(events)
    BY <1>1, <1>12, <2>2, <2>3, ExtendIs, Zenon
  <2>5. Len(none) + c = c /\ \A n \in 1 .. c : Len(none) + n = n BY <1>12, <2>2
  <2> QED BY <2>4, <2>5, Zenon
<1>14. PICK q : q = Transitions(pending') BY Zenon
<1>15. c \in Nat /\ c <= Len(order) /\ DOMAIN pending' = 1 .. c /\ \A n \in 1 .. c : n \in 1 .. Len(order)
  BY <1>9, <1>12, <1>13, SMTT(30)
<1>16. ASSUME NEW n \in 1 .. c
       PROVE  pending'[n].event = store[order[n]] /\ ~pending'[n].persisted /\ ~pending'[n].notified
  <2>1. pending'[n] = Item(events[n]) /\ events[n] = store[order[n]] BY <1>12, <1>13, <1>15, Zenon
  <2> QED BY <2>1 DEF Item
<1>17. /\ q \in Seq(Events) /\ Len(q) = c /\ DOMAIN q = 1 .. c
       /\ \A n \in 1 .. c : q[n] = store[order[n]] /\ order[n] \in S /\ order[n] \in DOMAIN store
  <2>1. \A n \in 1 .. c : store[order[n]] \in Events /\ order[n] \in S /\ order[n] \in DOMAIN store
    BY <1>6, <1>7, <1>10, <1>15, Zenon
  <2>2. q = [n \in 1 .. c |-> q[n]] /\ \A n \in 1 .. c : q[n] = store[order[n]]
    BY <1>14, <1>15, <1>16, Zenon DEF Transitions
  <2>3. q \in [1 .. c -> Events] BY <2>1, <2>2, Zenon
  <2>4. q \in Seq(Events) /\ Len(q) = c BY <1>15, <2>3
  <2> QED BY <2>1, <2>2, <2>3, <2>4, Zenon
\* The transitions are open rows, each once.
<1>18. ASSUME NEW n \in DOMAIN q
       PROVE  q[n].id \in DOMAIN store /\ q[n] = store[q[n].id] /\ q[n].open /\ q[n].id = order[n] /\ q[n].id[1] \in Keys
  <2>1. n \in 1 .. c /\ q[n] = store[order[n]] /\ order[n] \in S /\ order[n] \in DOMAIN store BY <1>17, Zenon
  <2>2. q[n].id = order[n] /\ order[n][1] \in Keys BY <1>7, <2>1, Zenon
  <2> QED BY <1>5, <2>1, <2>2, Zenon
\* The tracker.
<1>19. ASSUME NEW k \in Keys
       PROVE  /\ interval'[k] \in Intervals
              /\ interval'[k].event = NoEvent \/
                    \E id \in DOMAIN store : id[1] = k /\ store[id].open /\ interval'[k].event = store[id]
              /\ (\E id \in DOMAIN store : id[1] = k /\ store[id].open) => interval'[k].event # NoEvent
  <2>1. interval'[k] = Restored(k, age) BY <1>3, Zenon
  <2>2. /\ Restored(k, age) \in Intervals
        /\ OpenRows(k) = {} => Restored(k, age).event = NoEvent
        /\ OpenRows(k) # {} => \E id \in OpenRows(k) : Restored(k, age).event = store[id]
    BY <1>1, RestoredIs, Zenon
  <2>3. \A id : id \in OpenRows(k) <=> id \in DOMAIN store /\ id[1] = k /\ store[id].open BY Zenon DEF OpenRows
  <2>4. \A id \in DOMAIN store : store[id] # NoEvent BY <1>7, EventsAreEvents, Zenon
  <2> QED BY <2>1, <2>2, <2>3, <2>4, Zenon
<1>20. ASSUME NEW k \in Keys, NEW x \in Ids, interval'[k].event.id = x
       PROVE  x \in DOMAIN store /\ store[x].open /\ interval'[k].event = store[x]
  <2>1. interval'[k].event # NoEvent
    <3>1. x[1] \in Keys /\ NoEvent.id[1] = 0 BY Zenon DEF Ids, NoEvent
    <3>2. x # NoEvent.id BY <3>1, EventsAssumption, Zenon
    <3> QED BY <1>20, <3>2, Zenon
  <2> QED BY <1>7, <1>19, <1>20, <2>1, SMTT(30)
<1>21. QueueInv(q, interval', serial)
  <2>1. Context(q, interval', serial)
    <3>1. interval' \in [Keys -> Intervals] BY <1>3, <1>19, Zenon
    <3>2. ASSUME NEW k \in Keys, interval'[k].event # NoEvent
          PROVE  interval'[k].event.id[1] = k /\ interval'[k].event.id[2] <= serial[k] /\ interval'[k].event.open
      BY <1>7, <1>19, <3>2
    <3> QED BY <1>1, <1>17, <3>1, <3>2, Zenon DEF Context
  <2>2. Ordered(q)
    <3>1. \A m, n \in DOMAIN q : m < n => q[m].id # q[n].id
      <4>1. \A m, n \in DOMAIN q : q[m].id = q[n].id => m = n BY <1>9, <1>15, <1>17, <1>18, SMTT(30)
      <4>2. \A m, n \in DOMAIN q : m < n => m # n BY <1>17
      <4> QED BY <4>1, <4>2, Zenon
    <3> QED BY <3>1, Zenon DEF Ordered
  <2>3. Numbered(q, serial) BY <1>7, <1>18, Zenon DEF Numbered
  <2>4. Tracked(q, interval')
    <3> SUFFICES ASSUME NEW n \in DOMAIN q, interval'[q[n].id[1]].event.id = q[n].id
                 PROVE  q[n].open /\ q[n].revision <= interval'[q[n].id[1]].event.revision
      BY Zenon DEF Tracked
    <3>1. PICK x \in DOMAIN store : x = q[n].id /\ q[n] = store[x] /\ q[n].open /\ x[1] \in Keys BY <1>18, Zenon
    <3>2. x \in Ids /\ store[x].revision \in Nat BY <1>7, Zenon
    <3>3. interval'[x[1]].event = store[x] BY <1>20, <3>1, <3>2, Zenon
    <3>4. store[x].revision <= store[x].revision BY <3>2
    <3> QED BY <3>1, <3>3, <3>4, Zenon
  <2> QED BY <2>1, <2>2, <2>3, <2>4, Zenon DEF QueueInv
<1>22. RowsInv(store, q, interval', serial, 0)
  <2>1. RowsTracked(store, interval')
    <3> SUFFICES ASSUME NEW id \in DOMAIN store, interval'[id[1]].event.id = id
                 PROVE  store[id].open /\ store[id].revision <= interval'[id[1]].event.revision
      BY Zenon DEF RowsTracked
    <3>1. id \in Ids /\ id[1] \in Keys /\ store[id].revision \in Nat BY <1>7, Zenon
    <3>2. store[id].open /\ interval'[id[1]].event = store[id] BY <1>20, <3>1, Zenon
    <3> QED BY <3>1, <3>2
  <2>2. Final(store, q) BY <1>18, Zenon DEF Final
  <2>3. InStore(store, q, 0) BY DEF InStore
  <2> QED BY <1>1, <2>1, <2>2, <2>3, Zenon DEF RowsInv
<1>23. ASSUME ~overflowed' PROVE OpenInv(store, q, interval', 0)
  <2>1. Single(store) BY <1>1, <1>13, <1>23, Zenon
  <2>2. Relieved(q) BY <1>18, <2>1, Zenon DEF Single, Relieved
  <2>3. ASSUME NEW id \in DOMAIN store, store[id].open
        PROVE  interval'[id[1]].event.id = id
    <3>1. PICK k \in Keys : k = id[1] BY <1>7, Zenon
    <3>2. PICK x \in DOMAIN store : x[1] = k /\ store[x].open /\ interval'[k].event = store[x] BY <1>19, <2>3, <3>1, Zenon
    <3>3. x = id BY <2>1, <2>3, <3>1, <3>2, Zenon DEF Single
    <3> QED BY <1>7, <3>1, <3>2, <3>3, Zenon
  <2>4. Followed(q, interval') BY <1>18, <2>3, Zenon DEF Followed
  <2>5. Superseded(store, q, 0)
    <3>1. \A n \in 0 + 1 .. Len(q) : n \in DOMAIN q BY <1>17
    <3> QED BY <1>18, <2>1, <3>1, Zenon DEF Single, Superseded
  <2>6. Watched(store, q, interval', 0) BY <2>3, Zenon DEF Watched
  <2> QED BY <2>1, <2>2, <2>4, <2>5, <2>6, Zenon DEF OpenInv
<1>24. Flags(pending', 0)
  <2>1. \A n \in 1 .. c : ~(n <= 0) BY <1>15
  <2> QED BY <1>15, <1>16, <2>1, Zenon DEF Flags
<1>25. 0 \in 0 .. Len(pending') BY <1>13, <1>15, SMTT(30)
<1>26. AtInv(0)' BY <1>1, <1>2, <1>13, <1>14, <1>21, <1>22, <1>23, <1>24, <1>25, ZenonT(60) DEF AtInv
<1> QED BY <1>26, Zenon DEF EventsInv, AtInv

\* A change of health marks an interval at most.
LEMMA ChangeStep ==
    ASSUME NEW p, AtInv(p), Change
    PROVE  EventsInv'
<1> DEFINE q == Transitions(pending)
<1>1. UNCHANGED <<serial, pending, store, forwarded, overflowed>> BY Zenon DEF Change
<1>2. interval \in [Keys -> Intervals] BY Zenon DEF AtInv, QueueInv, Context
<1>3. interval' \in [Keys -> Intervals] /\ \A k \in Keys : interval'[k].event = interval[k].event
  <2>1. CASE UNCHANGED interval BY <1>2, <2>1, Zenon
  <2>2. CASE \E k \in failing : interval' = [interval EXCEPT ![k].changed = TRUE]
    <3>1. PICK k : interval' = [interval EXCEPT ![k].changed = TRUE] BY <2>2, Zenon
    <3>2. ASSUME NEW i \in Intervals
          PROVE  [i EXCEPT !.changed = TRUE] \in Intervals /\ [i EXCEPT !.changed = TRUE].event = i.event
      BY Zenon DEF Intervals
    <3> QED BY <1>2, <3>1, <3>2, Zenon
  <2> QED BY <2>1, <2>2, Zenon DEF Change
<1>4. QueueInv(q, interval, serial) /\ RowsInv(store, q, interval, serial, p) /\ RowsTyped(store)
      /\ (overflowed \/ OpenInv(store, q, interval, p)) /\ q \in Seq(Events)
  BY Zenon DEF AtInv, RowsInv, QueueInv, Context
<1> HIDE DEF q
<1>5. \A n \in DOMAIN q : q[n].id[1] \in Keys
  <2>1. \A n \in DOMAIN q : q[n] \in Events BY <1>4
  <2> QED BY <2>1, EventsAreEvents, Zenon
<1>6. \A id \in DOMAIN store : id[1] \in Keys BY <1>4, Zenon DEF RowsTyped, Ids
<1>7. QueueInv(q, interval', serial)
  <2>1. Context(q, interval', serial) BY <1>3, <1>4, Zenon DEF QueueInv, Context
  <2>2. Tracked(q, interval') BY <1>3, <1>4, <1>5, Zenon DEF QueueInv, Tracked
  <2> QED BY <1>4, <2>1, <2>2, Zenon DEF QueueInv
<1>8. RowsInv(store, q, interval', serial, p)
  <2>1. RowsTracked(store, interval') BY <1>3, <1>4, <1>6, Zenon DEF RowsInv, RowsTracked
  <2> QED BY <1>4, <2>1, Zenon DEF RowsInv
<1>9. overflowed \/ OpenInv(store, q, interval', p)
  <2>1. Followed(q, interval) => Followed(q, interval') BY <1>3, <1>5, ZenonT(40) DEF Followed
  <2>2. Watched(store, q, interval, p) => Watched(store, q, interval', p) BY <1>3, <1>6, Zenon DEF Watched
  <2> QED BY <1>4, <2>1, <2>2, Zenon DEF OpenInv
<1>10. AtInv(p)' BY <1>1, <1>7, <1>8, <1>9, Zenon DEF AtInv, q
<1> QED BY <1>10, Zenon DEF EventsInv, AtInv

-----------------------------------------------------------------------------
(* The theorems. *)

\* The monitor starts with nothing tracked, queued or stored.
LEMMA EventsStart ==
    EventsInit => EventsInv
<1> SUFFICES ASSUME EventsInit PROVE EventsInv BY Zenon
<1>1. PICK q : q = Transitions(pending) BY Zenon
<1>2. /\ pending = <<>> /\ pending \in Seq(Items) /\ Len(pending) = 0 /\ DOMAIN pending = {}
      /\ Len(pending) <= QueueLimit
  BY EventsAssumption DEF EventsInit
<1>3. q \in Seq(Events) /\ DOMAIN q = {} /\ Len(q) = 0 BY <1>1, <1>2 DEF Transitions
<1>4. /\ interval \in [Keys -> Intervals] /\ serial \in [Keys -> Nat]
      /\ \A k \in Keys : interval[k].event = NoEvent
  BY NoEventIs, Zenon DEF EventsInit
<1>5. DOMAIN store = {} /\ store = [id \in DOMAIN store |-> store[id]] /\ DOMAIN forwarded = {} BY Zenon DEF EventsInit
<1>6. QueueInv(q, interval, serial)
  BY <1>3, <1>4, Zenon DEF QueueInv, Context, Ordered, Numbered, Tracked
<1>7. RowsInv(store, q, interval, serial, 0)
  <2>1. RowsTyped(store) BY <1>5, FS_EmptySet, Zenon DEF RowsTyped
  <2> QED BY <1>3, <1>5, <2>1 DEF RowsInv, RowsNumbered, RowsTracked, Final, InStore
<1>8. OpenInv(store, q, interval, 0)
  BY <1>3, <1>5, Zenon DEF OpenInv, Relieved, Followed, Single, Superseded, Watched
<1>9. Flags(pending, 0) /\ ForwardedOK(forwarded, store) BY <1>2, <1>5, Zenon DEF Flags, ForwardedOK
<1>10. overflowed \in BOOLEAN BY Zenon DEF EventsInit
<1>11. 0 \in 0 .. Len(pending) BY <1>2
<1> QED BY <1>1, <1>2, <1>6, <1>7, <1>8, <1>9, <1>10, <1>11, Zenon DEF EventsInv

\* Every step keeps the invariant and advances the catalog.
LEMMA EventsStep ==
    ASSUME EventsInv, [EventsNext]_eventVars
    PROVE  EventsInv' /\ Advances(store, store')
<1>1. PICK p : AtInv(p) BY EventsInvAt, Zenon
<1>2. Advances(store, store)
  <2>1. RowsTyped(store) BY <1>1, Zenon DEF AtInv, RowsInv
  <2>2. \A id \in DOMAIN store : store[id].revision \in Nat BY <2>1, Zenon DEF RowsTyped, Events
  <2> QED BY <2>2 DEF Advances
<1>3. CASE Persist BY <1>1, <1>3, PersistStep, Zenon
<1>4. CASE Notify
  <2>1. store' = store BY <1>4, Zenon DEF Notify
  <2> QED BY <1>1, <1>2, <1>4, <2>1, NotifyStep, Zenon
<1>5. CASE Forward
  <2>1. store' = store BY <1>5, Zenon DEF Forward
  <2> QED BY <1>1, <1>2, <1>5, <2>1, ForwardStep, Zenon
<1>6. CASE Observe
  <2>1. store' = store BY <1>6, Zenon DEF Observe
  <2> QED BY <1>1, <1>2, <1>6, <2>1, ObserveStep, Zenon
<1>7. CASE Change
  <2>1. store' = store BY <1>7, Zenon DEF Change
  <2> QED BY <1>1, <1>2, <1>7, <2>1, ChangeStep, Zenon
<1>8. CASE Restart
  <2>1. store' = store BY <1>8, Zenon DEF Restart
  <2> QED BY <1>1, <1>2, <1>8, <2>1, RestartStep, Zenon
<1>9. CASE NoHealth \/ UNCHANGED eventVars
  <2>1. UNCHANGED <<interval, serial, pending, store, forwarded, overflowed>> BY <1>9, Zenon DEF NoHealth, eventVars
  <2> QED BY <1>2, <2>1, Zenon DEF EventsInv
<1> QED BY <1>3, <1>4, <1>5, <1>6, <1>7, <1>8, <1>9, Zenon DEF EventsNext, MonitorStep

\* Tracker, retry queue, catalog and forwarder stay in step (EventsInv), over catalog errors whose
\* transition was or was not stored, late replies of the forwarder, restarts and overflows of the queue.
THEOREM EventsInvariance == EventsSpec => []EventsInv
<1>1. EventsInv /\ [EventsNext]_eventVars => EventsInv' BY EventsStep, Zenon
<1> QED BY <1>1, EventsStart, PTL DEF EventsSpec

\* flush_pending_with: neither the forwarder nor a notification is ahead of the catalog, and the
\* queue keeps its order and its limit.
THEOREM CatalogIsFirst == EventsSpec => []CatalogFirst
<1>1. EventsInv => CatalogFirst
  <2> SUFFICES ASSUME EventsInv PROVE CatalogFirst BY Zenon
  <2>1. PICK p : AtInv(p) BY EventsInvAt, Zenon
  <2> DEFINE q == Transitions(pending)
  <2>2. /\ pending \in Seq(Items) /\ p \in Nat /\ DOMAIN pending = 1 .. Len(pending) /\ Len(pending) <= QueueLimit
        /\ \A n \in DOMAIN pending : q[n] = pending[n].event /\ n \in DOMAIN q
    BY <2>1 DEF AtInv, Transitions
  <2>3. Flags(pending, p) /\ InStore(store, q, p) /\ Ordered(q) /\ ForwardedOK(forwarded, store)
    BY <2>1, Zenon DEF AtInv, RowsInv, QueueInv
  <2> HIDE DEF q
  <2>4. ASSUME NEW n \in DOMAIN pending, pending[n].persisted \/ pending[n].notified
        PROVE  LET e == pending[n].event IN e.id \in DOMAIN store /\ e.revision <= store[e.id].revision
    <3>1. n <= p BY <2>3, <2>4, Zenon DEF Flags
    <3>2. n \in 1 .. p
      <4>1. n \in 1 .. Len(pending) BY <2>2, Zenon
      <4> QED BY <2>2, <3>1, <4>1
    <3> QED BY <2>2, <2>3, <3>2, Zenon DEF InStore
  <2>5. ASSUME NEW n \in DOMAIN pending, NEW m \in DOMAIN pending, n < m
        PROVE  /\ pending[m].persisted => pending[n].persisted
               /\ pending[n].event.id = pending[m].event.id => pending[n].event.revision < pending[m].event.revision
    <3>1. m <= p => n <= p BY <2>2, <2>5
    <3> QED BY <2>2, <2>3, <2>5, <3>1, Zenon DEF Flags, Ordered
  <2> QED BY <2>2, <2>3, <2>4, <2>5, Zenon DEF CatalogFirst, ForwardedOK
<1> QED BY <1>1, EventsInvariance, PTL

\* upsert_operational_event, under every order of retries and restarts: the revision of a row never
\* falls and a closed interval is final.
THEOREM StoredEventsAdvance == EventsSpec => StoreAdvances
<1>1. EventsInv /\ [EventsNext]_eventVars =>
        [\A id \in DOMAIN store :
          /\ id \in DOMAIN store' /\ store'[id].revision >= store[id].revision
          /\ ~store[id].open => store'[id] = store[id]]_eventVars
  BY EventsStep, Zenon DEF Advances
<1> QED BY <1>1, EventsInvariance, PTL DEF EventsSpec, StoreAdvances

\* Tracker and queue together: unless the queue overflowed, a key has at most one open row, and that
\* one is tracked or its end is queued.
THEOREM IntervalsAreSingle == EventsSpec => []OneOpenInterval
<1>1. EventsInv => OneOpenInterval
  <2> SUFFICES ASSUME EventsInv, ~overflowed, NEW k \in Keys
               PROVE  /\ Cardinality(OpenRows(k)) <= 1
                      /\ \A id \in OpenRows(k) :
                            \/ interval[k].event.id = id
                            \/ \E n \in DOMAIN pending : pending[n].event.id = id /\ ~pending[n].event.open
    BY Zenon DEF OneOpenInterval
  <2>1. PICK p : AtInv(p) BY EventsInvAt, Zenon
  <2> DEFINE q == Transitions(pending)
  <2>2. Single(store) /\ Watched(store, q, interval, p) /\ p \in Nat /\ pending \in Seq(Items)
    BY <2>1 DEF AtInv, OpenInv
  <2>3. \A id : id \in OpenRows(k) <=> id \in DOMAIN store /\ id[1] = k /\ store[id].open BY Zenon DEF OpenRows
  <2>4. Cardinality(OpenRows(k)) <= 1
    <3>1. CASE OpenRows(k) = {} BY <3>1, FS_EmptySet
    <3>2. CASE OpenRows(k) # {}
      <4>1. PICK x : x \in OpenRows(k) BY <3>2, Zenon
      <4>2. OpenRows(k) = {x} BY <2>2, <2>3, <4>1, Zenon DEF Single
      <4> QED BY <4>2, FS_Singleton
    <3> QED BY <3>1, <3>2, Zenon
  <2>5. ASSUME NEW id \in OpenRows(k), interval[k].event.id # id
        PROVE  \E n \in DOMAIN pending : pending[n].event.id = id /\ ~pending[n].event.open
    <3>1. Len(q) = Len(pending) /\ DOMAIN pending = 1 .. Len(pending) /\ \A n \in DOMAIN pending : q[n] = pending[n].event
      BY <2>2, SMTT(30) DEF Transitions
    <3> HIDE DEF q
    <3>2. Closing(q, id, p + 1, Len(q)) BY <2>2, <2>3, <2>5, Zenon DEF Watched
    <3>3. PICK j \in p + 1 .. Len(q) : q[j].id = id /\ ~q[j].open BY <3>2, Zenon DEF Closing
    <3>4. j \in DOMAIN pending BY <2>2, <3>1
    <3> QED BY <3>1, <3>3, <3>4, Zenon
  <2> QED BY <2>4, <2>5, Zenon
<1> QED BY <1>1, EventsInvariance, PTL
==============================================================================
