--------------------------- MODULE EventForwarder ---------------------------
(***************************************************************************)
(* Forwarding of event revisions to an MQTT broker.                        *)
(*                                                                         *)
(* Producers hand publications to a bounded channel.  The writer thread    *)
(* moves them into the in-memory outbox; the publisher thread owns the     *)
(* broker session and drains the outbox.  Settings editors replace the     *)
(* configuration while both run.  A step ends wherever the code releases   *)
(* a lock: the outbox, the configuration and the status have one each, and *)
(* the generation is an atomic that is read outside all of them.           *)
(*                                                                         *)
(* The broker is external: what it has received, and the status it retains *)
(* for the forwarder.  Publications are acknowledged (QoS 1 or 2).         *)
(***************************************************************************)
EXTENDS Integers, Sequences, FiniteSets

CONSTANTS
  Keys,             \* deduplication keys: event revisions
  Bytes,            \* publication_size of each key
  Limits,           \* outbox limits an editor may configure
  Editors,          \* settings dialogs
  IngestCapacity,   \* INGEST_CAPACITY
  MaxPending,       \* MAX_PENDING_ITEMS
  MaxReceipts,      \* MAX_DELIVERY_RECEIPTS
  MaxSends,         \* bound on publications handed over
  MaxRevision       \* bound on configuration revisions

None == "none"
NoItem == [sequence |-> 0, key |-> None]

ASSUME ForwarderAssumption ==
  /\ Bytes \in [Keys -> Nat \ {0}]
  /\ Limits \subseteq Nat /\ Limits # {}
  /\ {IngestCapacity, MaxPending, MaxReceipts, MaxSends, MaxRevision} \subseteq Nat \ {0}

VARIABLES
  \* Configuration.
  config,           \* revision, enabled, limit
  generation,       \* the revision the publisher is told of
  updating,         \* update_config holds the configuration lock
  draft,            \* of each editor: the revision it was opened with
  checked,          \* editors whose expected revision was compared
  \* Outbox.
  pending,          \* sequence numbers and keys, oldest first
  pendingBytes, seen, delivered, nextSequence,
  \* Writer.
  ingest, sent,
  wpc, wkey, wlimit, wstats,
  \* Publisher.
  ppc, current, applied, session, item, pstats, note, backoff,
  \* Shared status, shutdown, and the broker.
  status, stopping,
  received,         \* sequence numbers, without immediate repetitions
  retained          \* the retained forwarder status

settings  == <<config, generation, updating, draft, checked>>
outbox    == <<pending, pendingBytes, seen, delivered, nextSequence>>
writer    == <<wpc, wkey, wlimit, wstats>>
publisher == <<ppc, current, applied, session, item, pstats, note, backoff>>
broker    == <<received, retained>>
vars == <<settings, outbox, ingest, sent, writer, publisher, status, stopping, broker>>

Config == [revision : 1..MaxRevision, enabled : BOOLEAN, limit : Limits]
Item == [sequence : 1..MaxSends, key : Keys]
States == {"disabled", "connecting", "connected", "degraded", "outbox_full"}

TypeOK ==
  /\ config \in Config /\ generation \in 1..MaxRevision /\ updating \in BOOLEAN
  /\ draft \in [Editors -> 0..MaxRevision] /\ checked \subseteq Editors
  /\ pending \in Seq(Item) /\ pendingBytes \in Nat /\ seen \subseteq Keys
  /\ delivered \in Seq(Keys) /\ nextSequence \in 0..MaxSends
  /\ ingest \in Seq(Keys) /\ Len(ingest) <= IngestCapacity /\ sent \in 0..MaxSends
  /\ wpc \in {"poll", "enqueue", "snap", "apply", "fail", "done"}
  /\ wkey \in Keys \union {None} /\ wlimit \in Nat /\ wstats \in 0..MaxPending
  /\ ppc \in {"read", "load", "wait", "connect", "snap", "note", "next", "deliver",
              "mark", "report", "exit", "done"}
  /\ current \in Config /\ applied \in 0..MaxRevision /\ session \in 0..MaxRevision
  /\ item \in Item \union {NoItem} /\ pstats \in 0..MaxPending
  /\ note \in {"disabled", "connected", "degraded"} /\ backoff \in BOOLEAN
  /\ status \in [enabled : BOOLEAN, state : States, pending : 0..MaxPending]
  /\ stopping \in BOOLEAN
  /\ received \in Seq(1..MaxSends) /\ retained \in {None, "connected", "disconnected"}

\* Runtime::open.  Revision 0 stands for "no draft" and for "no session".
Init ==
  /\ config \in {c \in Config : c.revision = 1}
  /\ generation = 1 /\ updating = FALSE
  /\ draft = [e \in Editors |-> 0] /\ checked = {}
  /\ pending = <<>> /\ pendingBytes = 0 /\ seen = {} /\ delivered = <<>> /\ nextSequence = 0
  /\ ingest = <<>> /\ sent = 0
  /\ wpc = "poll" /\ wkey = None /\ wlimit = 0 /\ wstats = 0
  /\ ppc = "read" /\ current = config /\ applied = 0 /\ session = 0 /\ item = NoItem
  /\ pstats = 0 /\ note = "disabled" /\ backoff = FALSE
  /\ status = [enabled |-> config.enabled, pending |-> 0,
               state |-> IF config.enabled THEN "connecting" ELSE "disabled"]
  /\ stopping = FALSE /\ received = <<>> /\ retained = None

-----------------------------------------------------------------------------
(* Settings: the put handler of mqtt_integration and Handle::update_config. *)

OpenEditor(e) ==
  /\ draft[e] = 0
  /\ draft' = [draft EXCEPT ![e] = generation]
  /\ UNCHANGED <<config, generation, updating, checked, outbox, ingest, sent, writer,
                 publisher, status, stopping, broker>>

\* The expected revision is compared before the update lock is taken.
CheckDraft(e) ==
  /\ draft[e] # 0 /\ e \notin checked
  /\ \/ draft[e] = generation /\ checked' = checked \union {e} /\ UNCHANGED draft
     \/ draft[e] # generation /\ draft' = [draft EXCEPT ![e] = 0] /\ UNCHANGED checked
  /\ UNCHANGED <<config, generation, updating, outbox, ingest, sent, writer, publisher,
                 status, stopping, broker>>

\* Configuration and generation change under the configuration lock.
ApplyDraft(e, enabled, limit) ==
  /\ e \in checked /\ ~updating /\ config.revision < MaxRevision
  /\ config' = [revision |-> config.revision + 1, enabled |-> enabled, limit |-> limit]
  /\ generation' = config.revision + 1
  /\ updating' = TRUE
  /\ checked' = checked \ {e} /\ draft' = [draft EXCEPT ![e] = 0]
  /\ UNCHANGED <<outbox, ingest, sent, writer, publisher, status, stopping, broker>>

\* Then the status changes, and the lock is released.
UpdateStatus ==
  /\ updating
  /\ status' = [status EXCEPT !.enabled = config.enabled,
                  !.state = IF config.enabled THEN "connecting" ELSE "disabled"]
  /\ updating' = FALSE
  /\ UNCHANGED <<config, generation, draft, checked, outbox, ingest, sent, writer,
                 publisher, stopping, broker>>

-----------------------------------------------------------------------------
(* Producers and the writer thread. *)

\* Variant: the channel is not bounded.
SendUnbounded(k) ==
  /\ config.enabled /\ ~updating /\ wpc # "done"
  /\ sent < MaxSends
  /\ sent' = sent + 1
  /\ ingest' = Append(ingest, k)
  /\ UNCHANGED <<settings, outbox, writer, publisher, status, stopping, broker>>

\* Handle::publish_timeline and publish_operational: nothing is queued while
\* forwarding is disabled, and a full or closed channel refuses the publication.
\* The caller waits for the reply with a timeout and may hand over a key again.
Send(k) ==
  /\ config.enabled /\ ~updating /\ wpc # "done"
  /\ sent < MaxSends
  /\ Len(ingest) < IngestCapacity
  /\ sent' = sent + 1
  /\ ingest' = Append(ingest, k)
  /\ UNCHANGED <<settings, outbox, writer, publisher, status, stopping, broker>>

\* The writer checks for shutdown between commands, and waits for one: it may
\* still take one after shutdown has begun.
WriterLoops ==
  /\ wpc' = IF stopping THEN "done" ELSE "poll"
  /\ wkey' = None /\ wlimit' = 0 /\ wstats' = 0

\* The writer takes a command and reads the configured limit.
Receive ==
  /\ wpc = "poll" /\ ingest # <<>> /\ ~updating
  /\ wkey' = Head(ingest) /\ ingest' = Tail(ingest)
  /\ wlimit' = config.limit
  /\ wpc' = "enqueue"
  /\ UNCHANGED <<settings, outbox, sent, wstats, publisher, status, stopping, broker>>

\* Outbox::enqueue
CapacityExceeded ==
  Len(pending) = MaxPending \/ pendingBytes + Bytes[wkey] > wlimit

Enqueue ==
  /\ wpc = "enqueue"
  /\ \/ /\ wkey \in seen
        /\ WriterLoops
        /\ UNCHANGED outbox
     \/ /\ wkey \notin seen /\ CapacityExceeded
        /\ wpc' = "fail"
        /\ UNCHANGED <<outbox, wkey, wlimit, wstats>>
     \/ /\ wkey \notin seen /\ ~CapacityExceeded
        /\ nextSequence' = nextSequence + 1
        /\ pending' = Append(pending, [sequence |-> nextSequence + 1, key |-> wkey])
        /\ pendingBytes' = pendingBytes + Bytes[wkey]
        /\ seen' = seen \union {wkey}
        /\ wpc' = "snap"
        /\ UNCHANGED <<delivered, wkey, wlimit, wstats>>
  /\ UNCHANGED <<settings, ingest, sent, publisher, status, stopping, broker>>

\* The counts are read before the status lock is taken, and stored after.
WriterSnapshot ==
  /\ wpc = "snap"
  /\ wstats' = Len(pending)
  /\ wpc' = "apply"
  /\ UNCHANGED <<settings, outbox, ingest, sent, wkey, wlimit, publisher, status, stopping, broker>>

WriterStatus ==
  /\ \/ wpc = "apply" /\ status' = [status EXCEPT !.pending = wstats]
     \/ wpc = "fail" /\ status' = [status EXCEPT !.state = "outbox_full"]
  /\ WriterLoops
  /\ UNCHANGED <<settings, outbox, ingest, sent, publisher, stopping, broker>>

\* The wait for a command times out.
WriterStops ==
  /\ wpc = "poll" /\ ingest = <<>> /\ stopping
  /\ wpc' = "done"
  /\ UNCHANGED <<settings, outbox, ingest, sent, wkey, wlimit, wstats, publisher, status, stopping, broker>>

-----------------------------------------------------------------------------
(* The publisher thread: one iteration of publisher_loop. *)

\* The configuration is cloned under its lock ...
ReadConfig ==
  /\ ppc = "read" /\ ~stopping /\ ~updating
  /\ current' = config
  /\ ppc' = "load"
  /\ UNCHANGED <<settings, outbox, ingest, sent, writer, applied, session, item, pstats,
                 note, backoff, status, stopping, broker>>

\* ... and the generation is read after the lock was released.  A change drops
\* the session.  A clean DISCONNECT makes the broker discard the Last Will; a
\* disconnect that fails leaves it to the Last Will.
LoadGeneration ==
  /\ ppc = "load"
  /\ applied' = generation
  /\ \/ /\ generation # applied
        /\ session' = 0 /\ backoff' = FALSE
        /\ retained' \in IF session # 0 THEN {retained, "disconnected"} ELSE {retained}
     \/ /\ generation = applied
        /\ UNCHANGED <<session, backoff, retained>>
  /\ ppc' = IF current.enabled THEN "wait" ELSE "snap"
  /\ note' = "disabled"
  /\ UNCHANGED <<settings, outbox, ingest, sent, writer, current, item, pstats, status,
                 stopping, received>>

\* Variant: the retry delay restarts the loop.
WaitAgain ==
  /\ ppc = "wait"
  /\ ppc' = CASE backoff       -> "read"
              [] session = 0   -> "connect"
              [] OTHER         -> "next"
  /\ UNCHANGED <<settings, outbox, ingest, sent, writer, current, applied, session, item,
                 pstats, note, backoff, status, stopping, broker>>

\* The retry delay; shutdown interrupts it.
Wait ==
  /\ ppc = "wait"
  /\ ppc' = CASE backoff /\ stopping -> "exit"
              [] session = 0         -> "connect"
              [] OTHER               -> "next"
  /\ UNCHANGED <<settings, outbox, ingest, sent, writer, current, applied, session, item,
                 pstats, note, backoff, status, stopping, broker>>

\* BrokerSession::connect and the "connected" status.  A session that fails
\* after the status has arrived is reported by its Last Will.
Connected ==
  /\ ppc = "connect"
  /\ session' = current.revision /\ backoff' = FALSE
  /\ retained' = "connected"
  /\ note' = "connected" /\ ppc' = "snap"
  /\ UNCHANGED <<settings, outbox, ingest, sent, writer, current, applied, item, pstats,
                 status, stopping, received>>

ConnectFailed ==
  /\ ppc = "connect"
  /\ retained' \in {retained, "disconnected"}
  /\ note' = "degraded" /\ backoff' = TRUE /\ ppc' = "snap"
  /\ UNCHANGED <<settings, outbox, ingest, sent, writer, current, applied, session, item,
                 pstats, status, stopping, received>>

\* set_disabled, set_connected and note_retry take the outbox counts as an
\* argument and then the status lock.
PublisherSnapshot ==
  /\ ppc = "snap"
  /\ pstats' = Len(pending)
  /\ ppc' = "note"
  /\ UNCHANGED <<settings, outbox, ingest, sent, writer, current, applied, session, item,
                 note, backoff, status, stopping, broker>>

\* Variant: only a new configuration reports forwarding as enabled.
PublisherStatusOnce ==
  /\ ppc = "note"
  /\ status' = [enabled |-> status.enabled /\ note # "disabled", state |-> note,
                pending |-> pstats]
  /\ ppc' = IF note = "connected" THEN "next" ELSE "read"
  /\ pstats' = 0 /\ note' = "disabled"
  /\ UNCHANGED <<settings, outbox, ingest, sent, writer, current, applied, session, item,
                 backoff, stopping, broker>>

PublisherStatus ==
  /\ ppc = "note"
  /\ status' = [enabled |-> note # "disabled", state |-> note, pending |-> pstats]
  /\ ppc' = IF note = "connected" THEN "next" ELSE "read"
  /\ pstats' = 0 /\ note' = "disabled"
  /\ UNCHANGED <<settings, outbox, ingest, sent, writer, current, applied, session, item,
                 backoff, stopping, broker>>

\* Variant: the newest item is taken.
NextItemNewest ==
  /\ ppc = "next" /\ pending # <<>>
  /\ item' = pending[Len(pending)]
  /\ ppc' = "deliver"
  /\ UNCHANGED <<settings, outbox, ingest, sent, writer, current, applied, session, pstats,
                 note, backoff, status, stopping, broker>>

\* Outbox::next
NextItem ==
  /\ ppc = "next" /\ pending # <<>>
  /\ item' = Head(pending)
  /\ ppc' = "deliver"
  /\ UNCHANGED <<settings, outbox, ingest, sent, writer, current, applied, session, pstats,
                 note, backoff, status, stopping, broker>>

\* An empty outbox: the session is polled.
PollIdle ==
  /\ ppc = "next" /\ pending = <<>>
  /\ ppc' = "read"
  /\ UNCHANGED <<settings, outbox, ingest, sent, writer, current, applied, session, item,
                 pstats, note, backoff, status, stopping, broker>>

\* The connection is gone; the broker publishes the Last Will.
LoseSession ==
  /\ session' = 0 /\ backoff' = TRUE
  /\ retained' = "disconnected"
  /\ note' = "degraded" /\ ppc' = "snap"

PollFailed ==
  /\ ppc = "next" /\ pending = <<>>
  /\ LoseSession
  /\ UNCHANGED <<settings, outbox, ingest, sent, writer, current, applied, item, pstats,
                 status, stopping, received>>

\* BrokerSession::publish.  The broker receives the item and acknowledges it,
\* or the item or its acknowledgement is lost.
Receives(n) ==
  received' = IF received # <<>> /\ received[Len(received)] = n THEN received
                                                                ELSE Append(received, n)

Acknowledged ==
  /\ ppc = "deliver"
  /\ Receives(item.sequence)
  /\ ppc' = "mark"
  /\ UNCHANGED <<settings, outbox, ingest, sent, writer, current, applied, session, item,
                 pstats, note, backoff, status, stopping, retained>>

\* Variant: a delivery that timed out counts as delivered.
DeliveryFailedTrusted ==
  /\ ppc = "deliver"
  /\ ppc' = "mark"
  /\ UNCHANGED <<settings, outbox, ingest, sent, writer, current, applied, session, item,
                 pstats, note, backoff, status, stopping, broker>>

DeliveryFailed ==
  /\ ppc = "deliver"
  /\ Receives(item.sequence) \/ UNCHANGED received
  /\ LoseSession
  /\ UNCHANGED <<settings, outbox, ingest, sent, writer, current, applied, item, pstats,
                 status, stopping>>

\* Variants: an expired receipt stays in the set of seen keys; the bytes of a
\* delivered item are not returned.
MarkDeliveredRemembering ==
  /\ ppc = "mark"
  /\ \E i \in DOMAIN pending :
       /\ pending[i].sequence = item.sequence
       /\ pending' = SubSeq(pending, 1, i - 1) \o SubSeq(pending, i + 1, Len(pending))
       /\ pendingBytes' = pendingBytes - Bytes[pending[i].key]
       /\ LET receipts == Append(delivered, pending[i].key) IN
            delivered' = IF Len(receipts) > MaxReceipts THEN Tail(receipts) ELSE receipts
  /\ ppc' = "report"
  /\ UNCHANGED <<settings, seen, nextSequence, ingest, sent, writer, current, applied,
                 session, item, pstats, note, backoff, status, stopping, broker>>

\* Outbox::mark_delivered: the item with the sequence number is found (it is
\* still the first one), leaves the outbox, and its key becomes a receipt; the
\* oldest receipt is forgotten beyond the limit.
MarkDelivered ==
  /\ ppc = "mark"
  /\ \E i \in DOMAIN pending :
       /\ pending[i].sequence = item.sequence
       /\ pending' = SubSeq(pending, 1, i - 1) \o SubSeq(pending, i + 1, Len(pending))
       /\ pendingBytes' = pendingBytes - Bytes[pending[i].key]
       /\ LET receipts == Append(delivered, pending[i].key) IN
            IF Len(receipts) > MaxReceipts
              THEN delivered' = Tail(receipts) /\ seen' = seen \ {Head(receipts)}
              ELSE delivered' = receipts /\ UNCHANGED seen
  /\ ppc' = "report"
  /\ UNCHANGED <<settings, nextSequence, ingest, sent, writer, current, applied, session,
                 item, pstats, note, backoff, status, stopping, broker>>

\* Here the counts are read under the status lock.
Report ==
  /\ ppc = "report"
  /\ status' = [status EXCEPT !.state = "connected", !.pending = Len(pending)]
  /\ item' = NoItem /\ backoff' = FALSE /\ ppc' = "read"
  /\ UNCHANGED <<settings, outbox, ingest, sent, writer, current, applied, session, pstats,
                 note, stopping, broker>>

\* The end of the loop, and the last "disconnected" status, whose publication
\* may fail before a clean disconnect.
PublisherStops ==
  /\ \/ ppc = "read" /\ stopping
     \/ ppc = "exit"
  /\ session # 0 => ~updating
  /\ retained' \in IF session # 0 THEN {retained, "disconnected"} ELSE {retained}
  /\ session' = 0 /\ ppc' = "done"
  /\ UNCHANGED <<settings, outbox, ingest, sent, writer, current, applied, item, pstats,
                 note, backoff, status, stopping, received>>

Shutdown ==
  /\ ~stopping
  /\ stopping' = TRUE
  /\ UNCHANGED <<settings, outbox, ingest, sent, writer, publisher, status, broker>>

-----------------------------------------------------------------------------

WriterStep == Receive \/ Enqueue \/ WriterSnapshot \/ WriterStatus \/ WriterStops

PublisherStep ==
  \/ ReadConfig \/ LoadGeneration \/ Wait \/ Connected \/ ConnectFailed
  \/ PublisherSnapshot \/ PublisherStatus \/ NextItem \/ PollIdle \/ PollFailed
  \/ Acknowledged \/ DeliveryFailed \/ MarkDelivered \/ Report \/ PublisherStops

Next ==
  \/ \E e \in Editors : OpenEditor(e) \/ CheckDraft(e)
  \/ \E e \in Editors, enabled \in BOOLEAN, limit \in Limits : ApplyDraft(e, enabled, limit)
  \/ UpdateStatus
  \/ \E k \in Keys : Send(k)
  \/ WriterStep \/ PublisherStep
  \/ Shutdown

Spec == Init /\ [][Next]_vars

\* Both threads keep running, an update that has started ends, and a broker that
\* is asked again and again answers.  Nothing is assumed of producers, editors,
\* shutdown or failures.
Fairness ==
  /\ WF_vars(WriterStep) /\ WF_vars(PublisherStep) /\ WF_vars(UpdateStatus)
  /\ SF_vars(Connected) /\ SF_vars(Acknowledged)

LiveSpec == Spec /\ Fairness

-----------------------------------------------------------------------------
(* Properties. *)

PendingSequences == {pending[i].sequence : i \in DOMAIN pending}
PendingKeys == {pending[i].key : i \in DOMAIN pending}

\* "An event revision remains pending until the matching MQTT 5 acknowledgement
\* is observed": whatever was accepted is still pending or has reached the
\* broker, across reconnects, limits and configuration changes.
NothingLost ==
  \A n \in 1..nextSequence :
    n \in PendingSequences \/ \E i \in DOMAIN received : received[i] = n

\* "The publisher reconnects and drains the same in-memory queue in sequence":
\* the broker sees the items in order, and repeats only the last one.
DrainedInSequence ==
  \A i, j \in DOMAIN received : i < j => received[i] < received[j]

SizeOf(s) ==
  LET sum[i \in 0..Len(s)] == IF i = 0 THEN 0 ELSE sum[i - 1] + Bytes[s[i].key]
  IN  sum[Len(s)]

\* The accounts of the outbox are exact, although it is unlocked during the
\* delivery: a key is remembered exactly while it is pending or among the last
\* receipts, in one of the two once, and pending_bytes is the size of what is
\* pending, so the limit of enqueue is exact and mark_delivered never saturates.
AccountsAreExact ==
  /\ seen = PendingKeys \union {delivered[i] : i \in DOMAIN delivered}
  /\ Cardinality(seen) = Len(pending) + Len(delivered)
  /\ Len(delivered) <= MaxReceipts
  /\ pendingBytes = SizeOf(pending)

\* An accepted event is delivered if forwarding stays enabled and the process
\* runs: no retry, reconnect or configuration change strands the queue.
AcceptedIsDelivered ==
  <>[](config.enabled /\ ~stopping) => []<>(pending = <<>>)

\* The enabled flag of the status settles on the configured one, although a
\* publisher with a stale configuration writes it too.
EnabledSettles == <>stopping \/ <>[](status.enabled = config.enabled)

-----------------------------------------------------------------------------
(* Statements of the documentation and of the handlers that the code does not *)
(* keep.                                                                      *)

\* "Configuration changes replace only the broker session": a session opened
\* with an earlier configuration does not stay.
ConfigurationReplacesSession == <>stopping \/ []<>(session \in {0, config.revision})

\* "MQTT configuration changed after this editor was opened; reload before
\* applying the draft": a draft replaces only the configuration it was made from.
DraftIsCurrent ==
  [][\A e \in Editors, enabled \in BOOLEAN, limit \in Limits :
       ApplyDraft(e, enabled, limit) => draft[e] = config.revision]_vars

=============================================================================
