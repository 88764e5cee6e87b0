-------------------------- MODULE OperationalEvents --------------------------
(***************************************************************************)
(* The operational-event monitor (operational_events.rs): the tracker that *)
(* turns camera health into outage intervals, the bounded retry queue, and *)
(* the flush that persists, notifies and forwards each transition.  One    *)
(* thread runs all of it; the catalog, the forwarder and the power fail    *)
(* independently.  The catalog's rows survive a restart, the tracker and   *)
(* the queue do not.                                                       *)
(*                                                                         *)
(* The two flushes of a turn are one here: a turn may find no health.      *)
(***************************************************************************)
EXTENDS Integers, Sequences, FiniteSets, FiniteSetsExt

CONSTANTS
    Keys,          \* camera, stream and kind of an outage
    Hold,          \* warning_hold_down, in observations
    OutageHold,    \* outage_hold_down, at least Hold
    Debounce,      \* recovery_debounce
    RecordFlaps,   \* record_short_flaps
    QueueLimit,    \* MAX_PENDING_TRANSITIONS
    MaxChanges,    \* bound: changes of the cameras' health
    MaxStoreErrors, MaxForwardErrors, MaxRestarts   \* bounds on the faults

ASSUME EventsAssumption ==
    /\ IsFiniteSet(Keys) /\ 0 \notin Keys /\ RecordFlaps \in BOOLEAN
    /\ Hold \in Nat /\ OutageHold \in Nat /\ Hold <= OutageHold /\ Debounce \in Nat
    /\ QueueLimit \in Nat \ {0}

VARIABLES
    failing,     \* the keys that fail, as health reports them
    interval,    \* OperationalEventTracker.intervals
    serial,      \* events begun per key; <<key, serial>> is the event's identifier
    pending,     \* the retry queue
    store,       \* operational_events: identifier -> revision and open
    forwarded,   \* identifier -> revision last handed to the forwarder
    step,        \* where the thread is
    overflowed,  \* the queue dropped a transition
    budget       \* remaining changes and faults

eventVars == <<failing, interval, serial, pending, store, forwarded, step, overflowed, budget>>

NoEvent == [id |-> <<0, 0>>, revision |-> 0, critical |-> FALSE, open |-> FALSE]
NoInterval == [tracked |-> FALSE, age |-> 0, changed |-> FALSE, recovering |-> 0, event |-> NoEvent]

EventsInit ==
    /\ failing = {} /\ overflowed = FALSE /\ step = "persist"
    /\ interval = [k \in Keys |-> NoInterval]
    /\ serial = [k \in Keys |-> 0]
    /\ pending = <<>>
    /\ store = [id \in {} |-> NoEvent] /\ forwarded = [id \in {} |-> 0]
    /\ budget = [changes |-> MaxChanges, store |-> MaxStoreErrors, forward |-> MaxForwardErrors,
                 restarts |-> MaxRestarts]

-----------------------------------------------------------------------------
(* The tracker: the interval and the transition, if any, after an observation of a key. *)

Same(i) == [interval |-> i, emitted |-> NoEvent]
Emit(i, event) == [interval |-> i, emitted |-> event]

ObserveFailure(k) ==
    LET old == interval[k]
        age == IF old.tracked THEN Min({old.age + 1, OutageHold}) ELSE 0
        i == [old EXCEPT !.tracked = TRUE, !.age = age, !.changed = FALSE, !.recovering = 0]
        escalated == ~old.event.critical /\ age >= OutageHold
    IN IF old.event = NoEvent
       THEN IF age < Hold THEN Same(i)
            ELSE LET e == [id |-> <<k, serial[k] + 1>>, revision |-> 1, critical |-> age >= OutageHold, open |-> TRUE]
                 IN Emit([i EXCEPT !.event = e], e)
       ELSE IF ~old.changed /\ ~escalated THEN Same(i)
            ELSE LET e == [old.event EXCEPT !.revision = @ + 1, !.critical = @ \/ escalated]
                 IN Emit([i EXCEPT !.event = e], e)

\* Mutant: every observation of the recovery restarts its debounce.
ObserveRecoveryRestarting(k) ==
    IF interval[k].recovering = 0 \/ interval[k].event # NoEvent
    THEN Same([interval[k] EXCEPT !.recovering = 1])
    ELSE Same(NoInterval)

\* Mutant: the interval stays tracked after its recovery was emitted.
ObserveRecoveryKeeping(k) ==
    LET i == [interval[k] EXCEPT !.recovering = Min({@ + 1, Debounce + 1}), !.age = Min({@ + 1, OutageHold})]
    IN IF i.recovering <= Debounce THEN Same(i)
       ELSE IF i.event = NoEvent THEN Same(NoInterval)
       ELSE Emit([i EXCEPT !.recovering = 0, !.event.revision = @ + 1], [i.event EXCEPT !.revision = @ + 1, !.open = FALSE])

\* recovering counts the observations since the recovery was first seen, that one included.
ObserveRecovery(k) ==
    LET i == [interval[k] EXCEPT !.recovering = Min({@ + 1, Debounce + 1}), !.age = Min({@ + 1, OutageHold})]
    IN IF i.recovering <= Debounce THEN Same(i)
       ELSE IF i.event # NoEvent
            THEN Emit(NoInterval, [i.event EXCEPT !.revision = @ + 1, !.open = FALSE])
       ELSE IF RecordFlaps
            THEN Emit(NoInterval, [id |-> <<k, serial[k] + 1>>, revision |-> 2, critical |-> FALSE, open |-> FALSE])
       ELSE Same(NoInterval)

\* What one snapshot does to a key: it fails, it is tracked and no longer fails, or neither.
Observed(k) ==
    IF k \in failing THEN ObserveFailure(k)
    ELSE IF interval[k].tracked THEN ObserveRecovery(k)
    ELSE Same(interval[k])

\* extend_pending drops what does not fit.
Enqueue(queue, items) == queue \o SubSeq(items, 1, Min({Len(items), QueueLimit - Len(queue)}))

Item(event) == [event |-> event, persisted |-> FALSE, notified |-> FALSE]
Extend(queue, events) ==
    LET items == [n \in DOMAIN events |-> Item(events[n])]
    IN /\ pending' = Enqueue(queue, items)
       /\ overflowed' = (overflowed \/ Len(queue) + Len(items) > QueueLimit)

\* The ways to list a set.
Listings(S) == {s \in [1 .. Cardinality(S) -> S] : \A m, n \in DOMAIN s : s[m] = s[n] => m = n}

\* The order of the transitions follows the cameras in the snapshot, which is open; without
\* health nothing is observed.
Observe ==
    /\ step = "observe"
    /\ interval' = [k \in Keys |-> Observed(k).interval]
    /\ serial' = [k \in Keys |-> IF Observed(k).emitted.id = <<k, serial[k] + 1>> THEN serial[k] + 1 ELSE serial[k]]
    /\ \E order \in Listings({k \in Keys : Observed(k).emitted # NoEvent}) :
          Extend(pending, [n \in DOMAIN order |-> Observed(order[n]).emitted])
    /\ step' = "persist"
    /\ UNCHANGED <<failing, store, forwarded, budget>>

NoHealth ==
    /\ step = "observe"
    /\ step' = "persist"
    /\ UNCHANGED <<failing, interval, serial, pending, store, forwarded, overflowed, budget>>

-----------------------------------------------------------------------------
(* flush_pending_with. *)

\* upsert_operational_event: a row is replaced only by a higher revision.
Upsert(rows, e) ==
    IF e.id \in DOMAIN rows /\ rows[e.id].revision >= e.revision THEN rows
    ELSE [id \in DOMAIN rows \cup {e.id} |-> IF id = e.id THEN e ELSE rows[id]]

\* The rows after the items were stored one after the other.
Stored(items) ==
    LET rows[n \in 0 .. Len(items)] == IF n = 0 THEN store ELSE Upsert(rows[n - 1], items[n].event)
    IN rows[Len(items)]
Unpersisted == {n \in DOMAIN pending : ~pending[n].persisted}
Persisted == Cardinality(DOMAIN pending \ Unpersisted)

\* Mutant: a transition that cannot be persisted does not hold the later ones back.
PersistPast ==
    /\ step = "persist"
    /\ \E ok \in SUBSET Unpersisted :
          /\ IF ok = Unpersisted THEN UNCHANGED budget
             ELSE budget.store > 0 /\ budget' = [budget EXCEPT !.store = @ - 1]
          /\ \E order \in Listings(ok) : /\ \A m, n \in DOMAIN order : m < n => order[m] < order[n]
                                        /\ store' = Stored([n \in DOMAIN order |-> pending[order[n]]])
          /\ pending' = [n \in DOMAIN pending |-> [pending[n] EXCEPT !.persisted = @ \/ n \in ok]]
    /\ step' = "notify"
    /\ UNCHANGED <<failing, interval, serial, forwarded, overflowed>>

\* In order, up to the first error; the catalog may have stored that one and failed to answer.
Persist ==
    /\ step = "persist"
    /\ \E last \in Persisted .. Len(pending) :
          /\ pending' = [n \in DOMAIN pending |-> [pending[n] EXCEPT !.persisted = n <= last]]
          /\ \/ last = Len(pending) /\ store' = Stored(SubSeq(pending, Persisted + 1, last)) /\ UNCHANGED budget
             \/ /\ last < Len(pending) /\ budget.store > 0
                /\ budget' = [budget EXCEPT !.store = @ - 1]
                /\ \E n \in {last, last + 1} : store' = Stored(SubSeq(pending, Persisted + 1, n))
    /\ step' = "notify"
    /\ UNCHANGED <<failing, interval, serial, forwarded, overflowed>>

Notify ==
    /\ step = "notify"
    /\ pending' = [n \in DOMAIN pending |-> [pending[n] EXCEPT !.notified = @ \/ n <= Persisted]]
    /\ step' = "forward"
    /\ UNCHANGED <<failing, interval, serial, store, forwarded, overflowed, budget>>

\* What the forwarder has after the items were handed over: of each event the latest.
Handed(items) ==
    LET of(id) == {n \in DOMAIN items : items[n].event.id = id}
    IN [id \in DOMAIN forwarded \cup {items[n].event.id : n \in DOMAIN items} |->
           IF of(id) = {} THEN forwarded[id] ELSE items[Max(of(id))].event.revision]

\* Mutant: the head is forwarded whether it was persisted or not.
ForwardUnpersisted ==
    /\ step = "forward"
    /\ forwarded' = Handed(pending) /\ pending' = <<>>
    /\ step' = "observe"
    /\ UNCHANGED <<failing, interval, serial, store, overflowed, budget>>

\* publish_operational of the persisted items in order, up to the first error; a reply that is
\* late is an error too, although the forwarder has the item.
Forward ==
    /\ step = "forward"
    /\ \E last \in 0 .. Persisted :
          /\ pending' = SubSeq(pending, last + 1, Len(pending))
          /\ \/ last = Persisted /\ forwarded' = Handed(SubSeq(pending, 1, last)) /\ UNCHANGED budget
             \/ /\ last < Persisted /\ budget.forward > 0
                /\ budget' = [budget EXCEPT !.forward = @ - 1]
                /\ \E n \in {last, last + 1} : forwarded' = Handed(SubSeq(pending, 1, n))
    /\ step' = "observe"
    /\ UNCHANGED <<failing, interval, serial, store, overflowed>>

-----------------------------------------------------------------------------
(* The cameras, and restarts. *)

\* Keys begin or cease to fail, or the evidence of a failure changes.
Change ==
    /\ budget.changes > 0 /\ budget' = [budget EXCEPT !.changes = @ - 1]
    /\ \/ \E f \in SUBSET Keys : failing' = f /\ UNCHANGED interval
       \/ \E k \in failing : /\ interval[k].tracked
                             /\ interval' = [interval EXCEPT ![k].changed = TRUE] /\ UNCHANGED failing
    /\ UNCHANGED <<serial, pending, store, forwarded, step, overflowed>>

OpenRows(k) == {id \in DOMAIN store : id[1] = k /\ store[id].open}

\* Tracker::restore: of several open rows of a key the highest revision is tracked, the oldest of these.
Restored(k, age) ==
    IF OpenRows(k) = {} THEN NoInterval
    ELSE LET newest == {id \in OpenRows(k) : \A x \in OpenRows(k) : store[x].revision <= store[id].revision}
             id == CHOOSE i \in newest : \A x \in newest : i[2] <= x[2]
         IN [NoInterval EXCEPT !.tracked = TRUE, !.age = age, !.event = store[id]]

\* The process stops anywhere and starts again: open_operational_events, ordered by the start of the
\* outage, and Engine::restore.
Restart ==
    /\ budget.restarts > 0 /\ budget' = [budget EXCEPT !.restarts = @ - 1]
    /\ \E age \in Hold .. OutageHold : interval' = [k \in Keys |-> Restored(k, age)]
    /\ \E order \in Listings(UNION {OpenRows(k) : k \in Keys}) :
          /\ \A m, n \in DOMAIN order : m < n /\ order[m][1] = order[n][1] => order[m][2] < order[n][2]
          /\ Extend(<<>>, [n \in DOMAIN order |-> store[order[n]]])
    /\ step' = "persist"
    /\ UNCHANGED <<failing, serial, store, forwarded>>

MonitorStep == Persist \/ Notify \/ Forward \/ Observe

EventsNext == MonitorStep \/ NoHealth \/ Change \/ Restart

\* The monitor's thread keeps running and health is available again and again.
EventsFairness ==
    /\ WF_eventVars(Persist \/ Notify \/ Forward \/ NoHealth)
    /\ SF_eventVars(Observe)

EventsSpec == EventsInit /\ [][EventsNext]_eventVars /\ EventsFairness

-----------------------------------------------------------------------------
(* Properties. *)

\* Catalog first: neither the forwarder nor a notification ever knows a transition that a
\* restart would not find in the catalog, and the queue keeps the transitions of an event in
\* order, those that are persisted in front, within its limit.
CatalogFirst ==
    /\ \A id \in DOMAIN forwarded : id \in DOMAIN store /\ forwarded[id] <= store[id].revision
    /\ \A n \in DOMAIN pending : pending[n].persisted \/ pending[n].notified =>
          LET e == pending[n].event IN e.id \in DOMAIN store /\ e.revision <= store[e.id].revision
    /\ \A n, m \in DOMAIN pending : n < m =>
          /\ pending[m].persisted => pending[n].persisted
          /\ pending[n].event.id = pending[m].event.id => pending[n].event.revision < pending[m].event.revision
    /\ Len(pending) <= QueueLimit

\* A stored event only advances: its revision never falls and a closed interval is final.
StoreAdvances ==
    [][\A id \in DOMAIN store :
          /\ id \in DOMAIN store' /\ store'[id].revision >= store[id].revision
          /\ ~store[id].open => store'[id] = store[id]]_eventVars

\* A camera has at most one open interval of a kind in the catalog, and it is tracked or its end
\* is queued, over restarts and catalog errors, unless the retry queue overflowed: a new outage
\* is stored only after the old one's end.
OneOpenInterval ==
    ~overflowed => \A k \in Keys :
        /\ Cardinality(OpenRows(k)) <= 1
        /\ \A id \in OpenRows(k) :
              \/ interval[k].event.id = id
              \/ \E n \in DOMAIN pending : pending[n].event.id = id /\ ~pending[n].event.open

\* The interval of a camera that recovered is closed in the catalog, unless the queue overflowed.
OutageCloses ==
    \A k \in Keys : (OpenRows(k) # {}) ~> (OpenRows(k) = {} \/ k \in failing \/ overflowed)

\* The same whatever the deliveries do: a forwarder that refuses transitions for a while does not
\* keep the interval of a recovered camera open.
DeliveryKeepsIntervals ==
    \A k \in Keys : (OpenRows(k) # {}) ~> (OpenRows(k) = {} \/ k \in failing)
==============================================================================
