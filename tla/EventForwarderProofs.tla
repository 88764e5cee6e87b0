------------------------ MODULE EventForwarderProofs ------------------------
(***************************************************************************)
(* What is proved of the forwarding of events, for any destinations, keys  *)
(* and limits.  ForwarderInv adds to the properties what they rest on: the *)
(* sequence numbers of the outbox are consecutive and begin after the last *)
(* item that left it, the publisher's item is the first of the outbox or   *)
(* the last that left it, and no key is in the outbox twice.               *)
(***************************************************************************)
EXTENDS EventForwarder, FiniteSetTheorems, WellFoundedInduction, TLAPS

-----------------------------------------------------------------------------
(* Forwarding: the inductive invariant. *)

SettingsOK ==
  /\ config \in Config /\ generation \in 1..MaxRevision /\ updating \in BOOLEAN
  /\ draft \in [Editors -> 0..MaxRevision] /\ checked \subseteq Editors

OutboxOK ==
  /\ pending \in Seq(Item) /\ pendingBytes \in Nat /\ seen \subseteq Keys
  /\ delivered \in Seq(Keys) /\ nextSequence \in 0..MaxSends

IngestOK == ingest \in Seq(Keys) /\ Len(ingest) <= IngestCapacity /\ sent \in 0..MaxSends

WriterOK ==
  /\ wpc \in {"poll", "enqueue", "snap", "apply", "fail", "done"}
  /\ wkey \in Keys \union {None} /\ wlimit \in Nat /\ wstats \in 0..MaxPending

PublisherOK ==
  /\ ppc \in {"read", "load", "wait", "connect", "snap", "note", "next", "deliver",
              "mark", "report", "exit", "done"}
  /\ current \in Config /\ applied \in 0..MaxRevision /\ session \in 0..MaxRevision
  /\ item \in Item \union {NoItem} /\ pstats \in 0..MaxPending
  /\ note \in {"disabled", "connected", "degraded"} /\ backoff \in BOOLEAN

StatusOK ==
  /\ status \in [enabled : BOOLEAN, state : States, pending : 0..MaxPending]
  /\ stopping \in BOOLEAN

BrokerOK == received \in Seq(1..MaxSends) /\ retained \in {None, "connected", "disconnected"}

\* Whatever has a sequence number, and whatever is still on its way to one, was
\* handed over.
HandedOver ==
  /\ nextSequence + Len(ingest) + (IF wpc = "enqueue" THEN 1 ELSE 0) <= sent
  /\ wpc = "enqueue" => wkey \in Keys

\* How many items have left the outbox.
Done == nextSequence - Len(pending)

\* The outbox holds the last sequence numbers, without a gap, and the item the
\* publisher delivers without the lock is still the first one.
QueueInv ==
  /\ Len(pending) <= MaxPending /\ Len(pending) <= nextSequence
  /\ \A i \in 1..Len(pending) : pending[i].sequence = Done + i
  /\ ppc \in {"deliver", "mark"} => pending # <<>> /\ item = pending[1]

\* The broker has received the items that left the outbox, in order, and at most
\* the first of the pending ones; it has that one when the publisher removes it.
ReceivedInv ==
  /\ Len(received) \in {Done, Done + 1} /\ Len(received) <= nextSequence
  /\ \A i \in 1..Len(received) : received[i] = i
  /\ ppc = "mark" => Len(received) = Done + 1

\* No key is pending twice, a receipt twice, or both pending and a receipt.
KeysInv ==
  /\ \A i, j \in 1..Len(pending) : pending[i].key = pending[j].key => i = j
  /\ \A i, j \in 1..Len(delivered) : delivered[i] = delivered[j] => i = j
  /\ \A i \in 1..Len(pending), j \in 1..Len(delivered) : pending[i].key # delivered[j]
  /\ IsFiniteSet(seen)

Types == SettingsOK /\ OutboxOK /\ IngestOK /\ WriterOK /\ PublisherOK /\ StatusOK /\ BrokerOK

ForwarderInv == Types /\ HandedOver /\ QueueInv /\ ReceivedInv /\ KeysInv /\ AccountsAreExact

-----------------------------------------------------------------------------
(* Induction, with the set of the numbers that have a property. *)

\* A set of natural numbers that is not empty has a least element.
LEMMA LeastNat ==
  ASSUME NEW T \in SUBSET Nat, T # {}
  PROVE  \E x \in T : \A y \in T : x <= y
<1> DEFINE R == OpToRel(<, Nat)
<1>1. PICK x \in T : \A y \in T : ~(<<y, x>> \in R)
  BY WFMin, NatLessThanWellFounded, Zenon
<1>2. \A y \in T : ~(y < x)
  BY <1>1, Zenon DEF OpToRel
<1> QED BY <1>2

\* A set that holds 0, and the successor of every number it holds, holds all.
LEMMA NatSetInduction ==
  ASSUME NEW T, 0 \in T, \A n \in Nat : n \in T => n + 1 \in T
  PROVE  Nat \subseteq T
<1> SUFFICES ASSUME ~(Nat \subseteq T) PROVE FALSE
  OBVIOUS
<1> DEFINE U == {n \in Nat : n \notin T}
<1>1. PICK x \in U : \A y \in U : x <= y
  BY LeastNat, Zenon
<1>2. x # 0 /\ x - 1 \in Nat /\ x - 1 \notin U
  BY <1>1
<1> QED BY <1>1, <1>2

-----------------------------------------------------------------------------
(* The size of a queue. *)

\* The partial sums of the sizes of the items of s.
IsSum(g, s) ==
  /\ g \in [0..Len(s) -> Nat] /\ g[0] = 0
  /\ \A i \in 1..Len(s) : g[i] = g[i - 1] + Bytes[s[i].key]

\* Every queue has partial sums.
LEMMA SumExists ==
  ASSUME NEW s \in Seq(Item)
  PROVE  \E g : IsSum(g, s)
<1> DEFINE Upto(n, g) == /\ g \in [0..n -> Nat] /\ g[0] = 0
                         /\ \A i \in 1..n : g[i] = g[i - 1] + Bytes[s[i].key]
           T == {n \in Nat : n <= Len(s) => \E g : Upto(n, g)}
<1>1. 0 \in T
  <2>1. Upto(0, [i \in 0..0 |-> 0])
    OBVIOUS
  <2> QED BY <2>1, Zenon
<1>2. ASSUME NEW n \in Nat, n \in T
      PROVE  n + 1 \in T
  <2>a. n + 1 \in Nat
    OBVIOUS
  <2> SUFFICES ASSUME n + 1 <= Len(s)
               PROVE  \E g : Upto(n + 1, g)
    BY <2>a, Zenon
  <2>1. PICK g : Upto(n, g)
    BY <1>2, SMTT(30)
  <2>2. n + 1 \in 1..Len(s) /\ s[n + 1] \in Item
    OBVIOUS
  <2>3. Bytes[s[n + 1].key] \in Nat
    BY <2>2, ForwarderAssumption, SMTT(30) DEF Item
  <2> DEFINE h == [i \in 0..(n + 1) |-> IF i <= n THEN g[i]
                                        ELSE g[n] + Bytes[s[n + 1].key]]
  <2>4. h \in [0..(n + 1) -> Nat] /\ h[0] = 0
    BY <2>1, <2>3
  <2>5. ASSUME NEW i \in 1..(n + 1)
        PROVE  h[i] = h[i - 1] + Bytes[s[i].key]
    BY <2>1
  <2> HIDE DEF h
  <2>6. Upto(n + 1, h)
    BY <2>4, <2>5
  <2> QED BY <2>6, SMTT(30)
<1> HIDE DEF T
<1>3. Nat \subseteq T
  BY <1>1, <1>2, NatSetInduction
<1>4. Len(s) \in T
  BY <1>3
<1> QED BY <1>4 DEF T, IsSum

\* SizeOf is the last of the partial sums.
LEMMA SizeOfIsSum ==
  ASSUME NEW s \in Seq(Item)
  PROVE  \E g : IsSum(g, s) /\ SizeOf(s) = g[Len(s)]
<1> DEFINE Body(g) == [i \in 0..Len(s) |-> IF i = 0 THEN 0 ELSE g[i - 1] + Bytes[s[i].key]]
           f == CHOOSE g : g = Body(g)
<1>1. PICK g : IsSum(g, s)
  BY SumExists
<1>2. g = Body(g)
  BY <1>1 DEF IsSum
<1>3. f = Body(f)
  BY <1>2, Zenon
<1>4. SizeOf(s) = f[Len(s)]
  BY DEF SizeOf
<1> HIDE DEF f
<1>5. f[0] = 0 /\ \A i \in 1..Len(s) : f[i] = f[i - 1] + Bytes[s[i].key]
  <2>1. \A i \in 0..Len(s) : f[i] = IF i = 0 THEN 0 ELSE f[i - 1] + Bytes[s[i].key]
    BY <1>3, Zenon
  <2>2. 0 \in 0..Len(s) /\ \A i \in 1..Len(s) : i \in 0..Len(s) /\ i # 0
    OBVIOUS
  <2> QED BY <2>1, <2>2, Zenon
<1> DEFINE T == {n \in Nat : n <= Len(s) => f[n] \in Nat}
<1>6. 0 \in T
  BY <1>5
<1>7. ASSUME NEW n \in Nat, n \in T
      PROVE  n + 1 \in T
  <2> SUFFICES ASSUME n + 1 <= Len(s)
               PROVE  f[n + 1] \in Nat
    OBVIOUS
  <2>1. s[n + 1] \in Item
    OBVIOUS
  <2>2. Bytes[s[n + 1].key] \in Nat
    BY <2>1, ForwarderAssumption, SMTT(30) DEF Item
  <2> QED BY <2>2, <1>7, <1>5
<1>8. Nat \subseteq T
  <2> HIDE DEF T
  <2> QED BY <1>6, <1>7, NatSetInduction
<1>9. f \in [0..Len(s) -> Nat]
  <2>1. \A n \in 0..Len(s) : f[n] \in Nat
    BY <1>8
  <2>2. f = [n \in 0..Len(s) |-> f[n]]
    BY <1>3
  <2> QED BY <2>1, <2>2
<1>10. IsSum(f, s)
  BY <1>5, <1>9 DEF IsSum
<1> QED BY <1>4, <1>10

\* The size of a queue is a number.
LEMMA SizeIsNat ==
  ASSUME NEW s \in Seq(Item)
  PROVE  SizeOf(s) \in Nat
<1>1. PICK g : IsSum(g, s) /\ SizeOf(s) = g[Len(s)]
  BY SizeOfIsSum
<1> QED BY <1>1 DEF IsSum

\* An item that is queued adds its size.
LEMMA SizeAppend ==
  ASSUME NEW s \in Seq(Item), NEW x \in Item
  PROVE  SizeOf(Append(s, x)) = SizeOf(s) + Bytes[x.key]
<1> DEFINE t == Append(s, x)
<1>1. t \in Seq(Item) /\ Len(t) = Len(s) + 1 /\ t[Len(s) + 1] = x
      /\ \A i \in 1..Len(s) : t[i] = s[i]
  OBVIOUS
<1> HIDE DEF t
<1>2. PICK g : IsSum(g, s) /\ SizeOf(s) = g[Len(s)]
  BY SizeOfIsSum
<1>3. PICK h : IsSum(h, t) /\ SizeOf(t) = h[Len(t)]
  BY <1>1, SizeOfIsSum
<1> DEFINE T == {n \in Nat : n <= Len(s) => h[n] = g[n]}
<1>4. 0 \in T
  BY <1>2, <1>3 DEF IsSum
<1>5. ASSUME NEW n \in Nat, n \in T
      PROVE  n + 1 \in T
  <2> SUFFICES ASSUME n + 1 <= Len(s)
               PROVE  h[n + 1] = g[n + 1]
    OBVIOUS
  <2>1. h[n] = g[n]
    BY <1>5
  <2>2. n + 1 \in 1..Len(s) /\ n + 1 \in 1..Len(t) /\ t[n + 1] = s[n + 1]
    BY <1>1
  <2>3. h[n + 1] = h[n] + Bytes[t[n + 1].key]
    BY <1>3, <2>2 DEF IsSum
  <2>4. g[n + 1] = g[n] + Bytes[s[n + 1].key]
    BY <1>2, <2>2 DEF IsSum
  <2> QED BY <2>1, <2>2, <2>3, <2>4
<1>6. Nat \subseteq T
  <2> HIDE DEF T
  <2> QED BY <1>4, <1>5, NatSetInduction
<1>7. h[Len(s)] = g[Len(s)]
  BY <1>6
<1>8. h[Len(s) + 1] = h[Len(s)] + Bytes[x.key]
  <2>1. Len(s) + 1 \in 1..Len(t) /\ (Len(s) + 1) - 1 = Len(s) /\ t[Len(s) + 1] = x
    BY <1>1
  <2> QED BY <1>3, <2>1, SMTT(30) DEF IsSum
<1>9. SizeOf(t) = SizeOf(s) + Bytes[x.key]
  BY <1>1, <1>2, <1>3, <1>7, <1>8
<1> QED BY <1>9 DEF t

\* The first item takes its size away.
LEMMA SizeTail ==
  ASSUME NEW s \in Seq(Item), s # <<>>
  PROVE  SizeOf(s) = SizeOf(Tail(s)) + Bytes[s[1].key]
<1> DEFINE t == Tail(s)
<1>1. t \in Seq(Item) /\ Len(s) \in Nat \ {0} /\ Len(t) = Len(s) - 1 /\ s[1] \in Item
      /\ \A i \in 1..Len(t) : t[i] = s[i + 1]
  OBVIOUS
<1>b. Bytes[s[1].key] \in Nat
  BY <1>1, ForwarderAssumption DEF Item
<1> HIDE DEF t
<1>2. PICK g : IsSum(g, s) /\ SizeOf(s) = g[Len(s)]
  BY SizeOfIsSum
<1>3. PICK h : IsSum(h, t) /\ SizeOf(t) = h[Len(t)]
  BY <1>1, SizeOfIsSum
<1> DEFINE T == {n \in Nat : n <= Len(t) => g[n + 1] = h[n] + Bytes[s[1].key]}
<1>4. 0 \in T
  BY <1>1, <1>b, <1>2, <1>3 DEF IsSum
<1>5. ASSUME NEW n \in Nat, n \in T
      PROVE  n + 1 \in T
  <2> SUFFICES ASSUME n + 1 <= Len(t)
               PROVE  g[n + 2] = h[n + 1] + Bytes[s[1].key]
    OBVIOUS
  <2>1. g[n + 1] = h[n] + Bytes[s[1].key]
    BY <1>5, <1>1
  <2>2. n + 1 \in 1..Len(t) /\ n + 2 \in 1..Len(s) /\ t[n + 1] = s[n + 2]
    BY <1>1
  <2>3. t[n + 1] \in Item
    BY <1>1, <2>2
  <2>4. Bytes[t[n + 1].key] \in Nat
    BY <2>3, ForwarderAssumption, SMTT(30) DEF Item
  <2>5. g[n + 2] = g[n + 1] + Bytes[t[n + 1].key]
    BY <1>2, <2>2 DEF IsSum
  <2>6. h[n + 1] = h[n] + Bytes[t[n + 1].key] /\ h[n] \in Nat
    BY <1>3, <2>2, SMTT(30) DEF IsSum
  <2> QED BY <2>1, <2>4, <2>5, <2>6, <1>b, SMTT(30)
<1>6. Nat \subseteq T
  <2> HIDE DEF T
  <2> QED BY <1>4, <1>5, NatSetInduction
<1>7. g[Len(t) + 1] = h[Len(t)] + Bytes[s[1].key]
  BY <1>1, <1>6
<1> QED BY <1>1, <1>2, <1>3, <1>7 DEF t

\* Removing the first item leaves the tail.
LEMMA FirstRemoved ==
  ASSUME NEW S, NEW s \in Seq(S), s # <<>>
  PROVE  SubSeq(s, 1, 1 - 1) \o SubSeq(s, 1 + 1, Len(s)) = Tail(s)
<1>1. Len(s) \in Nat \ {0} /\ Tail(s) \in Seq(S) /\ Len(Tail(s)) = Len(s) - 1
      /\ \A i \in 1..(Len(s) - 1) : Tail(s)[i] = s[i + 1]
  OBVIOUS
<1>2. SubSeq(s, 1, 1 - 1) = <<>>
  OBVIOUS
<1>3. SubSeq(s, 1 + 1, Len(s)) = Tail(s)
  OBVIOUS
<1>4. <<>> \o Tail(s) = Tail(s)
  BY <1>1
<1> QED BY <1>2, <1>3, <1>4, Zenon

-----------------------------------------------------------------------------
(* What each kind of step leaves alone. *)

EditorStep ==
  \/ \E e \in Editors : OpenEditor(e) \/ CheckDraft(e)
  \/ \E e \in Editors, enabled \in BOOLEAN, limit \in Limits : ApplyDraft(e, enabled, limit)
  \/ UpdateStatus

\* Editing the settings changes neither the outbox nor a thread.
LEMMA EditorFrame ==
  ASSUME EditorStep
  PROVE  UNCHANGED <<outbox, ingest, sent, writer, publisher, stopping, broker>>
BY Zenon DEF EditorStep, OpenEditor, CheckDraft, ApplyDraft, UpdateStatus

\* The writer changes neither the settings nor the publisher nor the broker.
LEMMA WriterFrame ==
  ASSUME WriterStep
  PROVE  UNCHANGED <<settings, sent, publisher, stopping, broker>>
BY Zenon DEF WriterStep, Receive, Enqueue, WriterSnapshot, WriterStatus, WriterStops

\* The publisher changes neither the settings nor the writer.
LEMMA PublisherFrame ==
  ASSUME PublisherStep
  PROVE  UNCHANGED <<settings, ingest, sent, writer, stopping>>
BY Zenon DEF PublisherStep, ReadConfig, LoadGeneration, Wait, Connected, ConnectFailed,
  PublisherSnapshot, PublisherStatus, NextItem, PollIdle, PollFailed, Acknowledged,
  DeliveryFailed, MarkDelivered, Report, PublisherStops

\* Only an acknowledged or failed delivery changes what the broker has received,
\* and only the removal of a delivered item changes the outbox.
LEMMA PublisherOutbox ==
  ASSUME PublisherStep, ~MarkDelivered
  PROVE  UNCHANGED outbox /\ (Acknowledged \/ DeliveryFailed \/ UNCHANGED received)
BY Zenon DEF PublisherStep, ReadConfig, LoadGeneration, Wait, Connected, ConnectFailed,
  PublisherSnapshot, PublisherStatus, NextItem, PollIdle, PollFailed, Acknowledged,
  DeliveryFailed, Report, PublisherStops, broker

-----------------------------------------------------------------------------
(* Types. *)

\* Editors keep the settings well-formed.
LEMMA SettingsTyped ==
  ASSUME SettingsOK, EditorStep
  PROVE  SettingsOK'
<1>1. ASSUME NEW e \in Editors, OpenEditor(e)
      PROVE  SettingsOK'
  BY <1>1, ForwarderAssumption DEF SettingsOK, OpenEditor
<1>2. ASSUME NEW e \in Editors, CheckDraft(e)
      PROVE  SettingsOK'
  BY <1>2, ForwarderAssumption DEF SettingsOK, CheckDraft
<1>3. ASSUME NEW e \in Editors, NEW enabled \in BOOLEAN, NEW limit \in Limits,
             ApplyDraft(e, enabled, limit)
      PROVE  SettingsOK'
  <2>1. config.revision + 1 \in 1..MaxRevision
    BY <1>3, ForwarderAssumption DEF SettingsOK, ApplyDraft, Config
  <2>2. config' \in Config
    BY <1>3, <2>1 DEF ApplyDraft, Config
  <2> QED BY <1>3, <2>1, <2>2, ForwarderAssumption DEF SettingsOK, ApplyDraft
<1>4. CASE UpdateStatus
  BY <1>4, Zenon DEF SettingsOK, UpdateStatus
<1> QED BY <1>1, <1>2, <1>3, <1>4, Zenon DEF EditorStep

\* The channel never holds more than its capacity.
LEMMA IngestTyped ==
  ASSUME IngestOK, (\E k \in Keys : Send(k)) \/ WriterStep
  PROVE  IngestOK'
<1>1. ASSUME NEW k \in Keys, Send(k)
      PROVE  IngestOK'
  BY <1>1, ForwarderAssumption DEF IngestOK, Send
<1>2. CASE Receive
  BY <1>2, ForwarderAssumption DEF IngestOK, Receive
<1>3. CASE WriterStep /\ ~Receive
  <2>1. UNCHANGED <<ingest, sent>>
    BY <1>3, Zenon DEF WriterStep, Enqueue, WriterSnapshot, WriterStatus, WriterStops
  <2> QED BY <2>1 DEF IngestOK
<1> QED BY <1>1, <1>2, <1>3, Zenon

\* The writer keeps its own state well-formed.
LEMMA WriterTyped ==
  ASSUME WriterOK, IngestOK, SettingsOK, OutboxOK, QueueInv, WriterStep
  PROVE  WriterOK'
<1>1. CASE Receive
  <2>1. config.limit \in Nat /\ Head(ingest) \in Keys
    BY <1>1, ForwarderAssumption, SMTT(30) DEF SettingsOK, Config, IngestOK, Receive
  <2> QED BY <1>1, <2>1 DEF WriterOK, Receive
<1>2. CASE Enqueue
  BY <1>2, ForwarderAssumption DEF WriterOK, Enqueue, WriterLoops
<1>3. CASE WriterSnapshot
  <2>1. Len(pending) \in 0..MaxPending
    BY ForwarderAssumption DEF OutboxOK, QueueInv
  <2> QED BY <1>3, <2>1 DEF WriterOK, WriterSnapshot
<1>4. CASE WriterStatus
  BY <1>4, ForwarderAssumption DEF WriterOK, WriterStatus, WriterLoops
<1>5. CASE WriterStops
  BY <1>5 DEF WriterOK, WriterStops
<1> QED BY <1>1, <1>2, <1>3, <1>4, <1>5, Zenon DEF WriterStep

\* The publisher keeps its own state well-formed.
LEMMA PublisherTyped ==
  ASSUME PublisherOK, SettingsOK, OutboxOK, QueueInv, PublisherStep
  PROVE  PublisherOK'
<1> USE DEF PublisherOK
<1>1. CASE ReadConfig
  BY <1>1 DEF ReadConfig, SettingsOK
<1>2. CASE LoadGeneration
  <2>1. applied' \in 0..MaxRevision /\ session' \in 0..MaxRevision
    BY <1>2, ForwarderAssumption DEF LoadGeneration, SettingsOK
  <2>2. backoff' \in BOOLEAN
    BY <1>2, Zenon DEF LoadGeneration
  <2>3. ppc' \in {"wait", "snap"} /\ note' = "disabled" /\ UNCHANGED <<current, item, pstats>>
    BY <1>2 DEF LoadGeneration
  <2> QED BY <2>1, <2>2, <2>3
<1>3. CASE Wait
  BY <1>3 DEF Wait
<1>4. CASE Connected
  <2>1. current.revision \in 0..MaxRevision
    BY DEF Config
  <2> QED BY <1>4, <2>1, Zenon DEF Connected
<1>5. CASE ConnectFailed
  BY <1>5 DEF ConnectFailed
<1>6. CASE PublisherSnapshot
  <2>1. Len(pending) \in 0..MaxPending
    BY ForwarderAssumption DEF OutboxOK, QueueInv
  <2> QED BY <1>6, <2>1 DEF PublisherSnapshot
<1>7. CASE PublisherStatus
  BY <1>7, ForwarderAssumption DEF PublisherStatus
<1>8. CASE NextItem
  <2>1. Head(pending) \in Item
    BY <1>8 DEF NextItem, OutboxOK
  <2> QED BY <1>8, <2>1 DEF NextItem
<1>9. CASE PollIdle
  BY <1>9 DEF PollIdle
<1>10. CASE PollFailed
  BY <1>10, ForwarderAssumption DEF PollFailed, LoseSession
<1>11. CASE Acknowledged
  BY <1>11 DEF Acknowledged
<1>12. CASE DeliveryFailed
  BY <1>12, ForwarderAssumption DEF DeliveryFailed, LoseSession
<1>13. CASE MarkDelivered
  BY <1>13 DEF MarkDelivered
<1>14. CASE Report
  BY <1>14, Zenon DEF Report
<1>15. CASE PublisherStops
  BY <1>15, ForwarderAssumption DEF PublisherStops
<1> QED BY <1>1, <1>2, <1>3, <1>4, <1>5, <1>6, <1>7, <1>8, <1>9, <1>10, <1>11, <1>12, <1>13,
           <1>14, <1>15, Zenon DEF PublisherStep

\* The reported status stays well-formed.
LEMMA StatusTyped ==
  ASSUME Types, QueueInv, [Next]_vars
  PROVE  StatusOK'
<1> USE DEF StatusOK, States
<1>1. CASE UpdateStatus
  <2>1. config.enabled \in BOOLEAN
    BY DEF Types, SettingsOK, Config
  <2> QED BY <1>1, <2>1, Zenon DEF UpdateStatus, Types
<1>2. CASE WriterStatus
  BY <1>2 DEF WriterStatus, Types, WriterOK
<1>3. CASE PublisherStatus
  BY <1>3 DEF PublisherStatus, Types, PublisherOK
<1>4. CASE Report
  <2>1. Len(pending) \in 0..MaxPending
    BY ForwarderAssumption DEF Types, OutboxOK, QueueInv
  <2> QED BY <1>4, <2>1, Zenon DEF Report, Types
<1>5. CASE Shutdown
  BY <1>5 DEF Shutdown, Types
<1>6. CASE UNCHANGED <<status, stopping>>
  BY <1>6 DEF Types
<1>7. [Next]_vars => \/ UpdateStatus \/ WriterStatus \/ PublisherStatus \/ Report \/ Shutdown
                     \/ UNCHANGED <<status, stopping>>
  BY Zenon DEF Next, vars, OpenEditor, CheckDraft, ApplyDraft, Send, WriterStep, Receive, Enqueue,
    WriterSnapshot, WriterStops, PublisherStep, ReadConfig, LoadGeneration, Wait, Connected,
    ConnectFailed, PublisherSnapshot, NextItem, PollIdle, PollFailed, Acknowledged,
    DeliveryFailed, MarkDelivered, PublisherStops
<1> QED BY <1>1, <1>2, <1>3, <1>4, <1>5, <1>6, <1>7, Zenon

-----------------------------------------------------------------------------
(* Outbox::enqueue. *)

\* A refused publication leaves the outbox alone; an accepted one is appended
\* with the next sequence number.
LEMMA EnqueueCases ==
  ASSUME Enqueue
  PROVE  \/ UNCHANGED outbox /\ wpc' # "enqueue"
         \/ /\ wkey \notin seen /\ Len(pending) # MaxPending
            /\ nextSequence' = nextSequence + 1
            /\ pending' = Append(pending, [sequence |-> nextSequence + 1, key |-> wkey])
            /\ pendingBytes' = pendingBytes + Bytes[wkey]
            /\ seen' = seen \union {wkey}
            /\ delivered' = delivered /\ wpc' = "snap"
BY DEF Enqueue, WriterLoops, CapacityExceeded

\* The item that is queued.
LEMMA EnqueuedItem ==
  ASSUME Types, HandedOver, wpc = "enqueue"
  PROVE  /\ wkey \in Keys /\ nextSequence + 1 \in 1..MaxSends /\ Bytes[wkey] \in Nat
         /\ [sequence |-> nextSequence + 1, key |-> wkey] \in Item
<1>1. wkey \in Keys /\ nextSequence + 1 \in 1..MaxSends
  BY ForwarderAssumption, SMTT(30) DEF Types, OutboxOK, IngestOK, HandedOver
<1> QED BY <1>1, ForwarderAssumption DEF Item

\* What an accepted publication changes, position by position.
LEMMA Appended ==
  ASSUME Types, HandedOver, wpc = "enqueue", NEW x \in Item,
         pending' = Append(pending, x)
  PROVE  /\ pending' \in Seq(Item) /\ Len(pending) \in Nat /\ Len(pending') = Len(pending) + 1
         /\ pending'[Len(pending) + 1] = x
         /\ \A i \in 1..Len(pending) : pending'[i] = pending[i]
BY DEF Types, OutboxOK

\* Accepting a publication keeps the outbox in order and within its limit.
LEMMA EnqueueKeepsQueue ==
  ASSUME ForwarderInv, Enqueue
  PROVE  OutboxOK' /\ QueueInv' /\ ReceivedInv'
<1>0. Types /\ HandedOver /\ QueueInv /\ ReceivedInv /\ wpc = "enqueue"
      /\ UNCHANGED <<ppc, item, received>>
  BY DEF ForwarderInv, Enqueue, publisher, broker
<1>1. CASE UNCHANGED outbox
  BY <1>0, <1>1 DEF Types, OutboxOK, QueueInv, ReceivedInv, Done, outbox
<1>2. CASE ~UNCHANGED outbox
  <2> DEFINE x == [sequence |-> nextSequence + 1, key |-> wkey]
  <2>1. /\ Len(pending) # MaxPending /\ nextSequence' = nextSequence + 1
        /\ pending' = Append(pending, x)
        /\ pendingBytes' = pendingBytes + Bytes[wkey]
        /\ seen' = seen \union {wkey} /\ delivered' = delivered
    BY <1>2, EnqueueCases, Zenon
  <2>2. wkey \in Keys /\ nextSequence + 1 \in 1..MaxSends /\ Bytes[wkey] \in Nat /\ x \in Item
    BY <1>0, EnqueuedItem, Zenon
  <2>3. x.sequence = nextSequence + 1
    OBVIOUS
  <2> HIDE DEF x
  <2>4. /\ pending' \in Seq(Item) /\ Len(pending) \in Nat /\ Len(pending') = Len(pending) + 1
        /\ pending'[Len(pending) + 1] = x
        /\ \A i \in 1..Len(pending) : pending'[i] = pending[i]
    BY <1>0, <2>1, <2>2, Appended, Zenon
  <2>5. nextSequence \in Nat /\ Done' = Done /\ Done \in Int
    BY <1>0, <2>1, <2>4, SMTT(30) DEF Types, OutboxOK, Done
  <2>6. OutboxOK'
    BY <1>0, <2>1, <2>2, <2>4, ForwarderAssumption, SMTT(30) DEF Types, OutboxOK
  <2>7. Len(pending') <= MaxPending /\ Len(pending') <= nextSequence'
    BY <1>0, <2>1, <2>4, <2>5, ForwarderAssumption DEF QueueInv
  <2>8. ASSUME NEW i \in 1..Len(pending')
        PROVE  pending'[i].sequence = Done + i
    <3>1. CASE i \in 1..Len(pending)
      BY <3>1, <2>4, <1>0 DEF QueueInv
    <3>2. CASE i = Len(pending) + 1
      BY <3>2, <2>3, <2>4, <2>5 DEF Done
    <3> QED BY <3>1, <3>2, <2>4
  <2>9. ppc' \in {"deliver", "mark"} => pending' # <<>> /\ item' = pending'[1]
    <3>1. SUFFICES ASSUME ppc \in {"deliver", "mark"}
                   PROVE  pending' # <<>> /\ item = pending'[1]
      BY <1>0
    <3>2. pending # <<>> /\ item = pending[1]
      BY <3>1, <1>0 DEF QueueInv
    <3>3. 1 \in 1..Len(pending)
      BY <3>2, <1>0 DEF Types, OutboxOK
    <3> QED BY <3>2, <3>3, <2>4
  <2>10. QueueInv'
    BY <2>5, <2>7, <2>8, <2>9 DEF QueueInv
  <2>11. ReceivedInv'
    BY <1>0, <2>1, <2>5, SMTT(30) DEF ReceivedInv, Types, BrokerOK
  <2> QED BY <2>6, <2>10, <2>11
<1> QED BY <1>1, <1>2, SMTT(30)

\* The accounts are about the outbox alone.
LEMMA AccountsFrame ==
  ASSUME KeysInv, AccountsAreExact, UNCHANGED outbox
  PROVE  KeysInv' /\ AccountsAreExact'
BY DEF KeysInv, AccountsAreExact, PendingKeys, SizeOf, outbox

\* Accepting a publication keeps the accounts: the key is new.
LEMMA EnqueueKeepsAccounts ==
  ASSUME ForwarderInv, Enqueue
  PROVE  KeysInv' /\ AccountsAreExact'
<1>0. Types /\ HandedOver /\ KeysInv /\ AccountsAreExact /\ wpc = "enqueue"
  BY DEF ForwarderInv, Enqueue
<1>1. CASE UNCHANGED outbox
  BY <1>0, <1>1, AccountsFrame, Zenon
<1>2. CASE ~UNCHANGED outbox
  <2> DEFINE x == [sequence |-> nextSequence + 1, key |-> wkey]
  <2>1. /\ wkey \notin seen /\ pending' = Append(pending, x)
        /\ pendingBytes' = pendingBytes + Bytes[wkey]
        /\ seen' = seen \union {wkey} /\ delivered' = delivered
    BY <1>2, EnqueueCases, Zenon
  <2>2. wkey \in Keys /\ Bytes[wkey] \in Nat /\ x \in Item
    BY <1>0, EnqueuedItem, Zenon
  <2>3. x.key = wkey
    OBVIOUS
  <2> HIDE DEF x
  <2>4. /\ pending' \in Seq(Item) /\ Len(pending) \in Nat /\ Len(pending') = Len(pending) + 1
        /\ pending'[Len(pending) + 1] = x
        /\ \A i \in 1..Len(pending) : pending'[i] = pending[i]
    BY <1>0, <2>1, <2>2, Appended, Zenon
  <2>5. /\ \A i \in 1..Len(pending) : pending[i].key # wkey
        /\ \A j \in 1..Len(delivered) : delivered[j] # wkey
    BY <1>0, <2>1 DEF AccountsAreExact, PendingKeys, Types, OutboxOK
  <2>6. IsFiniteSet(seen') /\ Cardinality(seen') = Cardinality(seen) + 1
    BY <1>0, <2>1, FS_AddElement DEF KeysInv
  <2>7. \A i, j \in 1..Len(pending') : pending'[i].key = pending'[j].key => i = j
    <3> SUFFICES ASSUME NEW i \in 1..Len(pending'), NEW j \in 1..Len(pending'),
                        pending'[i].key = pending'[j].key
                 PROVE  i = j
      OBVIOUS
    <3>1. i \in 1..Len(pending) \/ i = Len(pending) + 1
      BY <2>4
    <3>2. j \in 1..Len(pending) \/ j = Len(pending) + 1
      BY <2>4
    <3> QED BY <3>1, <3>2, <2>3, <2>4, <2>5, <1>0 DEF KeysInv
  <2>8. \A i \in 1..Len(pending'), j \in 1..Len(delivered) : pending'[i].key # delivered[j]
    BY <2>3, <2>4, <2>5, <1>0, SMTT(30) DEF KeysInv
  <2>9. KeysInv'
    BY <2>1, <2>6, <2>7, <2>8, <1>0 DEF KeysInv
  <2>10. PendingKeys' = PendingKeys \union {wkey}
    <3>1. DOMAIN pending = 1..Len(pending) /\ DOMAIN pending' = 1..(Len(pending) + 1)
      BY <1>0, <2>4 DEF Types, OutboxOK
    <3> QED BY <3>1, <2>3, <2>4 DEF PendingKeys
  <2>11. seen' = PendingKeys' \union {delivered'[i] : i \in DOMAIN delivered'}
    BY <2>1, <2>10, <1>0, Zenon DEF AccountsAreExact
  <2>12. SizeOf(pending') = SizeOf(pending) + Bytes[wkey]
    BY <2>1, <2>2, <2>3, <1>0, SizeAppend, SMTT(30) DEF Types, OutboxOK
  <2>13. AccountsAreExact'
    BY <2>1, <2>4, <2>6, <2>11, <2>12, <1>0 DEF AccountsAreExact, Types, OutboxOK
  <2> QED BY <2>9, <2>13
<1> QED BY <1>1, <1>2

-----------------------------------------------------------------------------
(* Outbox::mark_delivered. *)

\* The delivered item is the first one: it is found, and the others move up.
LEMMA MarkedIsFirst ==
  ASSUME Types, QueueInv, MarkDelivered
  PROVE  /\ pending # <<>> /\ pending' = Tail(pending)
         /\ pendingBytes' = pendingBytes - Bytes[pending[1].key]
         /\ LET receipts == Append(delivered, pending[1].key) IN
              IF Len(receipts) > MaxReceipts
                THEN delivered' = Tail(receipts) /\ seen' = seen \ {Head(receipts)}
                ELSE delivered' = receipts /\ seen' = seen
<1>1. PICK i \in DOMAIN pending :
         /\ pending[i].sequence = item.sequence
         /\ pending' = SubSeq(pending, 1, i - 1) \o SubSeq(pending, i + 1, Len(pending))
         /\ pendingBytes' = pendingBytes - Bytes[pending[i].key]
         /\ LET receipts == Append(delivered, pending[i].key) IN
              IF Len(receipts) > MaxReceipts
                THEN delivered' = Tail(receipts) /\ seen' = seen \ {Head(receipts)}
                ELSE delivered' = receipts /\ seen' = seen
  BY Zenon DEF MarkDelivered
<1>2. pending \in Seq(Item) /\ pending # <<>> /\ item = pending[1]
  BY DEF MarkDelivered, QueueInv, Types, OutboxOK
<1>3. i \in 1..Len(pending) /\ 1 \in 1..Len(pending) /\ Done \in Int
  <2>1. i \in DOMAIN pending
    OBVIOUS
  <2> QED BY <2>1, <1>2 DEF Types, OutboxOK, Done
<1>4. i = 1
  BY <1>1, <1>2, <1>3, SMTT(30) DEF QueueInv
<1>5. SubSeq(pending, 1, 1 - 1) \o SubSeq(pending, 1 + 1, Len(pending)) = Tail(pending)
  BY <1>2, FirstRemoved
<1> QED BY <1>1, <1>2, <1>4, <1>5, Zenon

\* What the removal changes, position by position.
LEMMA Shifted ==
  ASSUME pending \in Seq(Item), pending # <<>>, pending' = Tail(pending)
  PROVE  /\ pending' \in Seq(Item) /\ Len(pending) \in Nat \ {0}
         /\ Len(pending') = Len(pending) - 1 /\ pending[1] \in Item
         /\ \A i \in 1..Len(pending') : i + 1 \in 1..Len(pending) /\ pending'[i] = pending[i + 1]
OBVIOUS

\* Removing the delivered item keeps the others in order; the broker has it.
LEMMA MarkKeepsQueue ==
  ASSUME ForwarderInv, MarkDelivered
  PROVE  QueueInv' /\ ReceivedInv'
<1>0. Types /\ QueueInv /\ ReceivedInv /\ ppc = "mark" /\ ppc' = "report"
      /\ UNCHANGED <<received, nextSequence>>
  BY DEF ForwarderInv, MarkDelivered, broker
<1>1. pending # <<>> /\ pending' = Tail(pending)
  BY <1>0, MarkedIsFirst, Zenon
<1>2. /\ pending' \in Seq(Item) /\ Len(pending) \in Nat \ {0} /\ Len(pending') = Len(pending) - 1
      /\ \A i \in 1..Len(pending') : i + 1 \in 1..Len(pending) /\ pending'[i] = pending[i + 1]
  BY <1>0, <1>1, Shifted, Zenon DEF Types, OutboxOK
<1>3. nextSequence \in Nat /\ Done' = Done + 1 /\ Done \in Int /\ MaxPending \in Nat
  BY <1>0, <1>2, ForwarderAssumption DEF Done, Types, OutboxOK
<1>4. QueueInv'
  <2>1. Len(pending') <= MaxPending /\ Len(pending') <= nextSequence'
    BY <1>0, <1>2, <1>3 DEF QueueInv
  <2>2. ASSUME NEW i \in 1..Len(pending')
        PROVE  pending'[i].sequence = Done' + i
    <3>1. pending[i + 1].sequence = Done + (i + 1)
      BY <1>0, <1>2 DEF QueueInv
    <3> QED BY <3>1, <1>2, <1>3
  <2> QED BY <2>1, <2>2, <1>0 DEF QueueInv
<1>5. ReceivedInv'
  BY <1>0, <1>3 DEF ReceivedInv, Types, BrokerOK
<1> QED BY <1>4, <1>5

\* Removing the delivered item keeps the accounts: its key becomes a receipt, and
\* the receipt that expires is neither pending nor a receipt any more.
LEMMA MarkKeepsAccounts ==
  ASSUME ForwarderInv, MarkDelivered
  PROVE  OutboxOK' /\ KeysInv' /\ AccountsAreExact'
<1> DEFINE k == pending[1].key
           r == Append(delivered, k)
           Held(t) == {t[i] : i \in 1..Len(t)}
<1>0. /\ Types /\ QueueInv /\ KeysInv /\ AccountsAreExact /\ nextSequence' = nextSequence
      /\ pending \in Seq(Item) /\ delivered \in Seq(Keys)
      /\ DOMAIN pending = 1..Len(pending) /\ DOMAIN delivered = 1..Len(delivered)
      /\ MaxReceipts \in Nat
  BY ForwarderAssumption DEF ForwarderInv, MarkDelivered, Types, OutboxOK
<1>1. /\ pending # <<>> /\ pending' = Tail(pending) /\ pendingBytes' = pendingBytes - Bytes[k]
      /\ \/ Len(r) > MaxReceipts /\ delivered' = Tail(r) /\ seen' = seen \ {Head(r)}
         \/ ~(Len(r) > MaxReceipts) /\ delivered' = r /\ seen' = seen
  BY <1>0, MarkedIsFirst, Zenon
<1>2. /\ pending' \in Seq(Item) /\ Len(pending) \in Nat \ {0} /\ Len(pending') = Len(pending) - 1
      /\ pending[1] \in Item
      /\ \A i \in 1..Len(pending') : i + 1 \in 1..Len(pending) /\ pending'[i] = pending[i + 1]
  BY <1>0, <1>1, Shifted, Zenon
<1>3. k \in Keys /\ Bytes[k] \in Nat /\ 1 \in 1..Len(pending)
  BY <1>2, ForwarderAssumption, SMTT(30) DEF Item
<1> HIDE DEF k
<1>4. /\ r \in Seq(Keys) /\ Len(delivered) \in Nat /\ Len(r) = Len(delivered) + 1
      /\ r[Len(delivered) + 1] = k
      /\ \A i \in 1..Len(delivered) : r[i] = delivered[i]
  BY <1>0, <1>3, SMTT(30)
<1> HIDE DEF r
<1>5. \A i \in 1..Len(pending') : pending'[i].key # k
  <2> SUFFICES ASSUME NEW i \in 1..Len(pending'), pending'[i].key = k
               PROVE  FALSE
    BY SMTT(30)
  <2>1. i + 1 \in 1..Len(pending) /\ pending[i + 1].key = pending[1].key
    BY <1>2, Zenon DEF k
  <2>0. i + 1 # 1
    OBVIOUS
  <2> QED BY <2>0, <2>1, <1>0, <1>3, Zenon DEF KeysInv
<1>6. \A i \in 1..Len(delivered) : delivered[i] # k
  BY <1>0, <1>3, Zenon DEF KeysInv, k
<1>7. \A i, j \in 1..Len(r) : r[i] = r[j] => i = j
  <2> SUFFICES ASSUME NEW i \in 1..Len(r), NEW j \in 1..Len(r), r[i] = r[j]
               PROVE  i = j
    OBVIOUS
  <2>1. i \in 1..Len(delivered) \/ i = Len(delivered) + 1
    BY <1>4
  <2>2. j \in 1..Len(delivered) \/ j = Len(delivered) + 1
    BY <1>4
  <2> QED BY <2>1, <2>2, <1>4, <1>6, <1>0 DEF KeysInv
<1>8. \A i \in 1..Len(pending'), j \in 1..Len(r) : pending'[i].key # r[j]
  <2> SUFFICES ASSUME NEW i \in 1..Len(pending'), NEW j \in 1..Len(r), pending'[i].key = r[j]
               PROVE  FALSE
    OBVIOUS
  <2>1. j \in 1..Len(delivered) \/ j = Len(delivered) + 1
    BY <1>4
  <2>2. pending[i + 1].key = r[j] /\ i + 1 \in 1..Len(pending)
    BY <1>2
  <2> QED BY <2>1, <2>2, <1>4, <1>5, <1>0 DEF KeysInv
<1>9. PendingKeys = PendingKeys' \union {k}
  <2>1. DOMAIN pending' = 1..Len(pending')
    BY <1>2
  <2>2. ASSUME NEW i \in 1..Len(pending)
        PROVE  pending[i].key \in PendingKeys' \union {k}
    <3>1. CASE i = 1
      BY <3>1 DEF k
    <3>2. CASE i # 1
      <4>1. i - 1 \in 1..Len(pending') /\ (i - 1) + 1 = i
        BY <3>2, <1>2
      <4>2. pending'[i - 1] = pending[i]
        BY <4>1, <1>2
      <4> QED BY <4>1, <4>2, <2>1 DEF PendingKeys
    <3> QED BY <3>1, <3>2
  <2>3. ASSUME NEW i \in 1..Len(pending')
        PROVE  pending'[i].key \in PendingKeys
    BY <1>0, <1>2, Zenon DEF PendingKeys
  <2>4. k \in PendingKeys
    BY <1>0, <1>3 DEF PendingKeys, k
  <2> QED BY <1>0, <2>1, <2>2, <2>3, <2>4, Zenon DEF PendingKeys
<1>10. Held(r) = Held(delivered) \union {k}
  BY <1>4, SMTT(30)
<1>11. seen = PendingKeys' \union Held(r)
  BY <1>0, <1>9, <1>10, ZenonT(40) DEF AccountsAreExact
<1>12. IsFiniteSet(seen) /\ Cardinality(seen) = Len(pending') + Len(r)
  BY <1>0, <1>2, <1>4 DEF KeysInv, AccountsAreExact
<1>13. pendingBytes' = SizeOf(pending') /\ pendingBytes' \in Nat
  <2>1. SizeOf(pending) = SizeOf(Tail(pending)) + Bytes[k]
    BY <1>0, <1>1, SizeTail DEF k
  <2>2. SizeOf(pending') \in Nat
    BY <1>2, SizeIsNat, Zenon
  <2>3. pendingBytes = SizeOf(pending)
    BY <1>0, Zenon DEF AccountsAreExact
  <2>4. SizeOf(pending') = SizeOf(Tail(pending))
    BY <1>1, Zenon
  <2> QED BY <1>1, <1>3, <2>1, <2>2, <2>3, <2>4
<1>14. CASE ~(Len(r) > MaxReceipts) /\ delivered' = r /\ seen' = seen
  <2>1. OutboxOK'
    BY <1>0, <1>2, <1>4, <1>13, <1>14, SMTT(30) DEF OutboxOK, Types
  <2>2. KeysInv'
    <3>1. \A i, j \in 1..Len(pending') : pending'[i].key = pending'[j].key => i = j
      BY <1>0, <1>2, SMTT(30) DEF KeysInv
    <3> QED BY <3>1, <1>7, <1>8, <1>12, <1>14, SMTT(30) DEF KeysInv
  <2>3. AccountsAreExact'
    <3>1. DOMAIN r = 1..Len(r) /\ Len(r) <= MaxReceipts
      BY <1>4, <1>0, <1>14
    <3>2. seen' = PendingKeys' \union {delivered'[i] : i \in DOMAIN delivered'}
      BY <3>1, <1>11, <1>14
    <3>3. Cardinality(seen') = Len(pending') + Len(delivered') /\ Len(delivered') <= MaxReceipts
      BY <3>1, <1>12, <1>14, SMTT(30)
    <3> QED BY <3>2, <3>3, <1>13, Zenon DEF AccountsAreExact
  <2> QED BY <2>1, <2>2, <2>3
<1>15. CASE Len(r) > MaxReceipts /\ delivered' = Tail(r) /\ seen' = seen \ {Head(r)}
  <2> DEFINE t == Tail(r)
  <2>1. /\ t \in Seq(Keys) /\ Len(t) = Len(r) - 1 /\ Head(r) = r[1] /\ 1 \in 1..Len(r)
        /\ \A i \in 1..Len(t) : i + 1 \in 1..Len(r) /\ t[i] = r[i + 1]
        /\ DOMAIN t = 1..Len(t)
    BY <1>4
  <2> HIDE DEF t
  <2>2. delivered' = t /\ seen' = seen \ {r[1]}
    BY <1>15, <2>1, SMTT(30) DEF t
  <2>3. OutboxOK'
    BY <1>0, <1>2, <1>13, <2>1, <2>2, SMTT(30) DEF OutboxOK, Types
  <2>4. Held(t) = Held(r) \ {r[1]}
    <3>1. ASSUME NEW i \in 1..Len(t)
          PROVE  t[i] \in Held(r) \ {r[1]}
      <4>1. i + 1 \in 1..Len(r) /\ t[i] = r[i + 1] /\ i + 1 # 1
        BY <2>1
      <4> QED BY <4>1, <2>1, <1>7, SMTT(30)
    <3>2. ASSUME NEW i \in 1..Len(r), r[i] # r[1]
          PROVE  r[i] \in Held(t)
      <4>1. i - 1 \in 1..Len(t) /\ (i - 1) + 1 = i
        BY <3>2, <2>1, <1>4
      <4>2. t[i - 1] = r[i]
        BY <4>1, <2>1
      <4> QED BY <4>1, <4>2
    <3> QED BY <3>1, <3>2
  <2>5. r[1] \in Held(r) /\ r[1] \notin PendingKeys'
    <3>1. DOMAIN pending' = 1..Len(pending')
      BY <1>2
    <3> QED BY <3>1, <2>1, <1>8 DEF PendingKeys
  <2>6. seen' = PendingKeys' \union Held(t)
    BY <1>11, <2>2, <2>4, <2>5, Zenon
  <2>7. IsFiniteSet(seen') /\ Cardinality(seen') = Cardinality(seen) - 1
    BY <1>11, <1>12, <2>2, <2>5, FS_RemoveElement, SMTT(30)
  <2>8. KeysInv'
    <3>1. \A i, j \in 1..Len(pending') : pending'[i].key = pending'[j].key => i = j
      BY <1>0, <1>2 DEF KeysInv
    <3>2. \A i, j \in 1..Len(t) : t[i] = t[j] => i = j
      BY <1>7, <2>1
    <3>3. \A i \in 1..Len(pending'), j \in 1..Len(t) : pending'[i].key # t[j]
      BY <1>8, <2>1, SMTT(30)
    <3> QED BY <3>1, <3>2, <3>3, <2>2, <2>7, SMTT(30) DEF KeysInv
  <2>9. AccountsAreExact'
    <3>1. seen' = PendingKeys' \union {delivered'[i] : i \in DOMAIN delivered'}
      BY <2>1, <2>2, <2>6, SMTT(30)
    <3>2. Len(t) = Len(delivered) /\ Len(delivered) <= MaxReceipts
      BY <1>0, <1>4, <2>1, SMTT(30) DEF AccountsAreExact
    <3>3. Cardinality(seen') = Len(pending') + Len(t)
      BY <1>2, <1>4, <1>12, <2>1, <2>7
    <3>4. Cardinality(seen') = Len(pending') + Len(delivered') /\ Len(delivered') <= MaxReceipts
      BY <3>2, <3>3, <2>2
    <3> QED BY <3>1, <3>4, <1>13, Zenon DEF AccountsAreExact
  <2> QED BY <2>3, <2>8, <2>9
<1> QED BY <1>1, <1>14, <1>15, SMTT(30)

-----------------------------------------------------------------------------
(* The broker. *)

\* A delivery reaches the broker as the next item or as a repetition of the last.
LEMMA ReceivesNext ==
  ASSUME ForwarderInv, ppc = "deliver", Receives(item.sequence)
  PROVE  /\ received' \in Seq(1..MaxSends) /\ Len(received') = Done + 1
         /\ Len(received') <= nextSequence
         /\ \A i \in 1..Len(received') : received'[i] = i
<1>1. /\ Types /\ QueueInv /\ ReceivedInv /\ received \in Seq(1..MaxSends)
      /\ pending \in Seq(Item) /\ nextSequence \in Nat
  BY ForwarderAssumption DEF ForwarderInv, Types, BrokerOK, OutboxOK
<1>2. pending # <<>> /\ item = pending[1]
  BY <1>1 DEF QueueInv
<1>3. Len(pending) \in Nat \ {0} /\ 1 \in 1..Len(pending) /\ pending[1] \in Item
  BY <1>1, <1>2
<1>4. item.sequence = Done + 1 /\ item.sequence \in 1..MaxSends
  BY <1>1, <1>2, <1>3 DEF QueueInv, Item
<1>5. Done \in Nat /\ Done + 1 <= nextSequence
  BY <1>1, <1>3 DEF Done, QueueInv
<1>6. CASE Len(received) = Done + 1
  <2>1. received # <<>> /\ received[Len(received)] = Done + 1
    BY <1>1, <1>5, <1>6, SMTT(30) DEF ReceivedInv
  <2>2. received' = received
    BY <2>1, <1>4 DEF Receives
  <2> QED BY <2>2, <1>1, <1>5, <1>6 DEF ReceivedInv
<1>7. CASE Len(received) = Done
  <2>1. ~(received # <<>> /\ received[Len(received)] = item.sequence)
    BY <1>1, <1>4, <1>5, <1>7 DEF ReceivedInv
  <2>2. received' = Append(received, item.sequence)
    BY <2>1, Zenon DEF Receives
  <2>3. /\ received' \in Seq(1..MaxSends) /\ Len(received') = Done + 1
        /\ received'[Done + 1] = Done + 1
        /\ \A i \in 1..Done : received'[i] = received[i]
    BY <2>2, <1>1, <1>4, <1>7
  <2>4. ASSUME NEW i \in 1..Len(received')
        PROVE  received'[i] = i
    <3>1. i \in 1..Done \/ i = Done + 1
      BY <2>3, <1>5
    <3> QED BY <3>1, <2>3, <1>1, <1>7 DEF ReceivedInv
  <2> QED BY <2>3, <2>4, <1>5, SMTT(30)
<1> QED BY <1>1, <1>6, <1>7 DEF ReceivedInv

\* A publisher step that leaves the outbox alone keeps the order.
LEMMA PublisherKeepsOrder ==
  ASSUME ForwarderInv, PublisherStep, ~MarkDelivered
  PROVE  QueueInv' /\ ReceivedInv' /\ received' \in Seq(1..MaxSends)
<1>1. /\ UNCHANGED outbox /\ QueueInv /\ ReceivedInv /\ received \in Seq(1..MaxSends)
      /\ pending \in Seq(Item) /\ Done' = Done
      /\ Acknowledged \/ DeliveryFailed \/ UNCHANGED received
  BY PublisherOutbox DEF ForwarderInv, Types, BrokerOK, OutboxOK, outbox, Done
<1>2. CASE Acknowledged
  <2>1. ppc = "deliver" /\ ppc' = "mark" /\ item' = item /\ Receives(item.sequence)
    BY <1>2 DEF Acknowledged
  <2>2. QueueInv'
    BY <1>1, <2>1 DEF QueueInv, outbox
  <2>3. ReceivedInv' /\ received' \in Seq(1..MaxSends)
    BY <1>1, <2>1, ReceivesNext DEF ReceivedInv, outbox
  <2> QED BY <2>2, <2>3
<1>3. CASE DeliveryFailed
  <2>1. ppc = "deliver" /\ ppc' = "snap" /\ (Receives(item.sequence) \/ received' = received)
    BY <1>3 DEF DeliveryFailed, LoseSession
  <2>2. QueueInv'
    BY <1>1, <2>1 DEF QueueInv, outbox
  <2>3. ReceivedInv' /\ received' \in Seq(1..MaxSends)
    BY <1>1, <2>1, ReceivesNext DEF ReceivedInv, outbox
  <2> QED BY <2>2, <2>3
<1>4. CASE NextItem
  <2>1. ppc' = "deliver" /\ item' = pending[1] /\ pending # <<>> /\ UNCHANGED received
    BY <1>4, <1>1, SMTT(30) DEF NextItem, broker
  <2>2. QueueInv'
    BY <1>1, <2>1 DEF QueueInv, outbox
  <2>3. ReceivedInv' /\ received' \in Seq(1..MaxSends)
    BY <1>1, <2>1, SMTT(30) DEF ReceivedInv, outbox
  <2> QED BY <2>2, <2>3
<1>5. CASE ~Acknowledged /\ ~DeliveryFailed /\ ~NextItem
  <2>1. ppc' \notin {"deliver", "mark"}
    BY <1>5, Zenon DEF PublisherStep, ReadConfig, LoadGeneration, Wait, Connected, ConnectFailed,
      PublisherSnapshot, PublisherStatus, PollIdle, PollFailed, LoseSession, Report, PublisherStops
  <2>2. UNCHANGED received
    BY <1>1, <1>5
  <2>3. QueueInv'
    BY <1>1, <2>1 DEF QueueInv, outbox
  <2>4. ReceivedInv' /\ received' \in Seq(1..MaxSends)
    BY <1>1, <2>1, <2>2 DEF ReceivedInv, outbox
  <2> QED BY <2>3, <2>4
<1> QED BY <1>2, <1>3, <1>4, <1>5

-----------------------------------------------------------------------------
(* The invariant. *)

\* Types is the type invariant of the specification, group by group.
LEMMA TypesAre == TypeOK <=> Types
BY Zenon DEF TypeOK, Types, SettingsOK, OutboxOK, IngestOK, WriterOK, PublisherOK, StatusOK, BrokerOK

\* A step that changes neither the outbox nor the broker, and does not start a
\* delivery, keeps order and accounts.
LEMMA OutboxFrame ==
  ASSUME ForwarderInv, UNCHANGED <<outbox, publisher, broker>>
  PROVE  OutboxOK' /\ PublisherOK' /\ BrokerOK' /\ QueueInv' /\ ReceivedInv' /\ KeysInv'
         /\ AccountsAreExact'
<1>1. OutboxOK' /\ PublisherOK' /\ BrokerOK'
  BY ZenonT(60) DEF ForwarderInv, Types, OutboxOK, PublisherOK, BrokerOK, outbox, publisher, broker
<1>2. QueueInv' /\ ReceivedInv'
  BY Zenon DEF ForwarderInv, QueueInv, ReceivedInv, Done, outbox, publisher, broker
<1>3. KeysInv' /\ AccountsAreExact'
  BY AccountsFrame, Zenon DEF ForwarderInv
<1> QED BY <1>1, <1>2, <1>3

\* What is on its way to the outbox stays counted.
LEMMA HandedOverKept ==
  ASSUME ForwarderInv, (\E k \in Keys : Send(k)) \/ WriterStep
  PROVE  HandedOver'
<1>0. /\ HandedOver /\ WriterOK /\ ingest \in Seq(Keys) /\ Len(ingest) \in Nat
      /\ sent \in Nat /\ nextSequence \in Nat
  BY ForwarderAssumption DEF ForwarderInv, Types, IngestOK, OutboxOK
<1>1. ASSUME NEW k \in Keys, Send(k)
      PROVE  HandedOver'
  <2>1. Len(ingest') = Len(ingest) + 1 /\ sent' = sent + 1 /\ UNCHANGED <<nextSequence, wpc, wkey>>
    BY <1>0, <1>1 DEF Send, outbox, writer
  <2> QED BY <1>0, <2>1, SMTT(30) DEF HandedOver
<1>2. CASE Receive
  <2>1. /\ Len(ingest') = Len(ingest) - 1 /\ wpc = "poll" /\ wpc' = "enqueue" /\ wkey' \in Keys
        /\ UNCHANGED <<nextSequence, sent>>
    BY <1>0, <1>2 DEF Receive, outbox
  <2> QED BY <1>0, <2>1 DEF HandedOver
<1>3. CASE Enqueue
  <2>1. /\ wpc = "enqueue" /\ wpc' # "enqueue" /\ UNCHANGED <<ingest, sent>>
        /\ nextSequence' = nextSequence \/ nextSequence' = nextSequence + 1
    BY <1>3, EnqueueCases, Zenon DEF Enqueue, outbox
  <2> QED BY <1>0, <2>1, SMTT(30) DEF HandedOver
<1>4. CASE WriterSnapshot \/ WriterStatus \/ WriterStops
  <2>1. wpc # "enqueue" /\ wpc' # "enqueue" /\ UNCHANGED <<ingest, sent, nextSequence>>
    BY <1>4, SMTT(30) DEF WriterSnapshot, WriterStatus, WriterStops, WriterLoops, outbox
  <2> QED BY <1>0, <2>1 DEF HandedOver
<1> QED BY <1>1, <1>2, <1>3, <1>4, Zenon DEF WriterStep

\* What the broker retains is one of the statuses.
LEMMA RetainedTyped ==
  ASSUME BrokerOK, PublisherStep
  PROVE  retained' \in {None, "connected", "disconnected"}
BY Zenon DEF BrokerOK, PublisherStep, ReadConfig, LoadGeneration, Wait, Connected, ConnectFailed,
  PublisherSnapshot, PublisherStatus, NextItem, PollIdle, PollFailed, Acknowledged, LoseSession,
  DeliveryFailed, MarkDelivered, Report, PublisherStops, broker

\* The invariant holds initially.
LEMMA ForwarderInit ==
  ASSUME Init
  PROVE  ForwarderInv
<1>0. config \in Config /\ config.enabled \in BOOLEAN /\ config.revision = 1
  BY DEF Init, Config
<1>a. {IngestCapacity, MaxPending, MaxReceipts, MaxSends, MaxRevision} \subseteq Nat \ {0}
  BY ForwarderAssumption
<1>1. SettingsOK
  <2>1. generation = 1 /\ updating = FALSE /\ draft = [e \in Editors |-> 0] /\ checked = {}
    BY DEF Init
  <2>2. 1 \in 1..MaxRevision /\ [e \in Editors |-> 0] \in [Editors -> 0..MaxRevision]
    BY <1>a
  <2> QED BY <2>1, <2>2, <1>0, Zenon DEF SettingsOK
<1>b. IngestOK /\ BrokerOK
  <2>1. ingest = <<>> /\ sent = 0 /\ received = <<>> /\ retained = None
    BY DEF Init
  <2> QED BY <2>1, <1>a DEF IngestOK, BrokerOK
<1>2. OutboxOK
  BY ForwarderAssumption, SMTT(30) DEF Init, OutboxOK
<1>3. WriterOK
  BY ForwarderAssumption DEF Init, WriterOK
<1>4. PublisherOK
  <2>1. /\ ppc = "read" /\ current = config /\ applied = 0 /\ session = 0 /\ item = NoItem
        /\ pstats = 0 /\ note = "disabled" /\ backoff = FALSE
    BY DEF Init
  <2>2. 0 \in 0..MaxRevision /\ 0 \in 0..MaxPending
    BY <1>a, SMTT(30)
  <2> QED BY <2>1, <2>2, <1>0, Zenon DEF PublisherOK
<1>5. StatusOK
  <2>1. /\ status = [enabled |-> config.enabled, pending |-> 0,
                     state |-> IF config.enabled THEN "connecting" ELSE "disabled"]
        /\ stopping = FALSE
    BY DEF Init
  <2>2. (IF config.enabled THEN "connecting" ELSE "disabled") \in States /\ 0 \in 0..MaxPending
    BY <1>a DEF States
  <2> QED BY <2>1, <2>2, <1>0, Zenon DEF StatusOK
<1>6. HandedOver /\ QueueInv /\ ReceivedInv
  <2>1. /\ nextSequence = 0 /\ ingest = <<>> /\ sent = 0 /\ wpc = "poll" /\ pending = <<>>
        /\ ppc = "read" /\ received = <<>>
    BY DEF Init
  <2>2. Len(pending) = 0 /\ Len(ingest) = 0 /\ Len(received) = 0
    BY <2>1
  <2>3. Done = 0
    <3>1. nextSequence = 0 /\ Len(pending) = 0
      BY <2>1, <2>2, ZenonT(40)
    <3> QED BY <3>1 DEF Done
  <2> QED BY <2>1, <2>2, <2>3, <1>a, SMTT(30) DEF HandedOver, QueueInv, ReceivedInv
<1>7. KeysInv
  BY FS_EmptySet DEF Init, KeysInv
<1>8. AccountsAreExact
  <2>1. pending = <<>> /\ seen = {} /\ delivered = <<>> /\ pendingBytes = 0
    BY DEF Init
  <2>2. <<>> \in Seq(Item) /\ Len(<<>>) = 0
    OBVIOUS
  <2>3. PICK g : IsSum(g, <<>>) /\ SizeOf(<<>>) = g[Len(<<>>)]
    BY <2>2, SizeOfIsSum, Zenon
  <2>4. SizeOf(<<>>) = 0
    BY <2>2, <2>3 DEF IsSum
  <2> QED BY <2>1, <2>4, FS_EmptySet, ForwarderAssumption, SMTT(30) DEF AccountsAreExact, PendingKeys
<1> QED BY <1>1, <1>b, <1>2, <1>3, <1>4, <1>5, <1>6, <1>7, <1>8, ZenonT(60) DEF ForwarderInv, Types

\* Every step keeps the invariant.
LEMMA ForwarderNext ==
  ASSUME ForwarderInv, [Next]_vars
  PROVE  ForwarderInv'
<1>0. Types /\ HandedOver /\ QueueInv /\ ReceivedInv /\ KeysInv /\ AccountsAreExact /\ StatusOK'
  BY StatusTyped, Zenon DEF ForwarderInv
<1>a. /\ SettingsOK /\ OutboxOK /\ IngestOK /\ WriterOK /\ PublisherOK /\ StatusOK /\ BrokerOK
  BY <1>0, Zenon DEF Types
<1>b. UNCHANGED settings => SettingsOK'
  BY <1>a, Zenon DEF SettingsOK, settings
<1>c. UNCHANGED <<ingest, sent>> => IngestOK'
  BY <1>a, Zenon DEF IngestOK
<1>d. UNCHANGED writer => WriterOK'
  BY <1>a, Zenon DEF WriterOK, writer
<1>e. UNCHANGED <<outbox, ingest, sent, writer>> => HandedOver'
  BY <1>0, Zenon DEF HandedOver, outbox, writer
<1>f. UNCHANGED <<outbox, publisher, broker>> =>
        OutboxOK' /\ PublisherOK' /\ BrokerOK' /\ QueueInv' /\ ReceivedInv' /\ KeysInv' /\ AccountsAreExact'
  BY OutboxFrame, Zenon
<1>1. CASE EditorStep
  <2>1. SettingsOK' /\ UNCHANGED <<outbox, ingest, sent, writer, publisher, broker>>
    BY <1>1, <1>a, SettingsTyped, EditorFrame, Zenon
  <2> QED BY <1>0, <2>1, <1>c, <1>d, <1>e, <1>f, Zenon DEF ForwarderInv, Types
<1>2. CASE \E k \in Keys : Send(k)
  <2>1. IngestOK' /\ HandedOver'
    BY <1>2, <1>a, IngestTyped, HandedOverKept, Zenon
  <2>2. UNCHANGED <<settings, outbox, writer, publisher, broker>>
    BY <1>2, Zenon DEF Send
  <2> QED BY <1>0, <2>1, <2>2, <1>b, <1>d, <1>f, Zenon DEF ForwarderInv, Types
<1>3. CASE WriterStep
  <2>1. IngestOK' /\ HandedOver' /\ WriterOK' /\ UNCHANGED <<settings, publisher, broker>>
    BY <1>3, <1>0, <1>a, IngestTyped, HandedOverKept, WriterTyped, WriterFrame, Zenon
  <2>2. PublisherOK' /\ BrokerOK'
    BY <1>a, <2>1, Zenon DEF PublisherOK, BrokerOK, publisher, broker
  <2>3. OutboxOK' /\ QueueInv' /\ ReceivedInv' /\ KeysInv' /\ AccountsAreExact'
    <3>1. CASE Enqueue
      BY <3>1, EnqueueKeepsQueue, EnqueueKeepsAccounts, Zenon
    <3>2. CASE ~Enqueue
      <4>1. UNCHANGED outbox
        BY <1>3, <3>2, Zenon DEF WriterStep, Receive, WriterSnapshot, WriterStatus, WriterStops
      <4> QED BY <4>1, <2>1, <1>f, Zenon
    <3> QED BY <3>1, <3>2
  <2> QED BY <1>0, <2>1, <2>2, <2>3, <1>b, Zenon DEF ForwarderInv, Types
<1>4. CASE PublisherStep
  <2>1. PublisherOK' /\ UNCHANGED <<settings, ingest, sent, writer>>
    BY <1>4, <1>0, <1>a, PublisherTyped, PublisherFrame, Zenon
  <2>2. retained' \in {None, "connected", "disconnected"}
    BY <1>4, <1>a, RetainedTyped, Zenon
  <2>3. HandedOver'
    <3>1. nextSequence' = nextSequence
      BY <1>4, PublisherOutbox, Zenon DEF MarkDelivered, outbox
    <3> QED BY <1>0, <2>1, <3>1, Zenon DEF HandedOver, writer
  <2>4. CASE MarkDelivered
    <3>1. received' = received
      BY <2>4, Zenon DEF MarkDelivered, broker
    <3>2. BrokerOK'
      BY <3>1, <2>2, <1>a, Zenon DEF BrokerOK
    <3> QED BY <2>4, <3>2, <1>0, <2>1, <2>3, <1>b, <1>c, <1>d, MarkKeepsQueue, MarkKeepsAccounts,
               Zenon DEF ForwarderInv, Types
  <2>5. CASE ~MarkDelivered
    <3>1. UNCHANGED outbox /\ QueueInv' /\ ReceivedInv' /\ received' \in Seq(1..MaxSends)
      BY <1>4, <2>5, PublisherOutbox, PublisherKeepsOrder, Zenon
    <3>2. OutboxOK' /\ KeysInv' /\ AccountsAreExact'
      BY <1>0, <1>a, <3>1, AccountsFrame, Zenon DEF OutboxOK, outbox
    <3>3. BrokerOK'
      BY <3>1, <2>2, Zenon DEF BrokerOK
    <3> QED BY <1>0, <2>1, <2>3, <3>1, <3>2, <3>3, <1>b, <1>c, <1>d, Zenon DEF ForwarderInv, Types
  <2> QED BY <2>4, <2>5
<1>5. CASE Shutdown \/ UNCHANGED vars
  <2>1. UNCHANGED <<settings, outbox, ingest, sent, writer, publisher, broker>>
    BY <1>5, Zenon DEF Shutdown, vars
  <2> QED BY <1>0, <2>1, <1>b, <1>c, <1>d, <1>e, <1>f, Zenon DEF ForwarderInv, Types
<1> QED BY <1>1, <1>2, <1>3, <1>4, <1>5, Zenon DEF Next, EditorStep

\* Runtime::open establishes the invariant, and every step of producers, editors,
\* the two threads and the broker keeps it.
THEOREM ForwarderInvariance == Spec => []ForwarderInv
<1>1. Init => ForwarderInv
  BY ForwarderInit
<1>2. ForwarderInv /\ [Next]_vars => ForwarderInv'
  BY ForwarderNext
<1> QED BY <1>1, <1>2, PTL DEF Spec

\* The forwarder stays well-typed: neither the channel nor the outbox nor a
\* reported count ever exceeds its bound.
THEOREM ForwarderTypes == Spec => []TypeOK
<1>1. ForwarderInv => TypeOK
  BY TypesAre DEF ForwarderInv
<1> QED BY <1>1, ForwarderInvariance, PTL

\* Whatever was accepted is still pending or has reached the broker.
THEOREM AcceptedIsKept == Spec => []NothingLost
<1>1. ASSUME ForwarderInv
      PROVE  NothingLost
  <2> SUFFICES ASSUME NEW n \in 1..nextSequence
               PROVE  n \in PendingSequences \/ \E i \in DOMAIN received : received[i] = n
    BY DEF NothingLost
  <2>1. /\ QueueInv /\ ReceivedInv /\ pending \in Seq(Item) /\ received \in Seq(1..MaxSends)
        /\ nextSequence \in Nat /\ Len(pending) \in Nat /\ DOMAIN pending = 1..Len(pending)
        /\ Len(received) \in Nat /\ DOMAIN received = 1..Len(received)
    BY <1>1, ForwarderAssumption DEF ForwarderInv, Types, OutboxOK, BrokerOK
  <2>2. CASE n <= Done
    <3>1. n \in 1..Len(received)
      BY <2>1, <2>2 DEF ReceivedInv, Done
    <3> QED BY <2>1, <3>1 DEF ReceivedInv
  <2>3. CASE ~(n <= Done)
    <3>1. n - Done \in 1..Len(pending) /\ Done + (n - Done) = n
      BY <2>1, <2>3 DEF Done
    <3>2. pending[n - Done].sequence = n
      BY <2>1, <3>1 DEF QueueInv
    <3> QED BY <2>1, <3>1, <3>2 DEF PendingSequences
  <2> QED BY <2>2, <2>3
<1>2. ForwarderInv => NothingLost
  BY <1>1
<1> QED BY <1>2, ForwarderInvariance, PTL

\* The broker sees the accepted items in order and repeats only the last one.
THEOREM DrainsInOrder == Spec => []DrainedInSequence
<1>1. ASSUME ForwarderInv
      PROVE  DrainedInSequence
  <2>1. received \in Seq(1..MaxSends) /\ ReceivedInv
    BY <1>1 DEF ForwarderInv, Types, BrokerOK
  <2> QED BY <2>1 DEF ReceivedInv, DrainedInSequence
<1>2. ForwarderInv => DrainedInSequence
  BY <1>1
<1> QED BY <1>2, ForwarderInvariance, PTL

\* The accounts of the outbox are exact at every step, for every capacity.
THEOREM OutboxAccounts == Spec => []AccountsAreExact
<1>1. ForwarderInv => AccountsAreExact
  BY DEF ForwarderInv
<1> QED BY <1>1, ForwarderInvariance, PTL

=============================================================================
