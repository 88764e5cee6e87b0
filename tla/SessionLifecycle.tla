-------------------------- MODULE SessionLifecycle --------------------------
(***************************************************************************)
(* The directory of API sessions (server.rs) and the admission of work to  *)
(* them (server/session_lifecycle.rs).  A session is created by a request  *)
(* that first clears the stale ones away; its work (searches, watches,     *)
(* publications, cursors, talkback...) is registered under the session's   *)
(* admission mutex, and whoever closes the session goes through the        *)
(* registries under the same mutex.  Two parts are not simply cleared: an  *)
(* event search is only told to stop, and a camera that the session moves, *)
(* which it came to own outside admit under the lock of ptz_owners         *)
(* (server/camera_control/ptz.rs), stays owned when it cannot be stopped.  *)
(* Every lock and every registry is a step.                                *)
(***************************************************************************)
EXTENDS Integers, FiniteSets

CONSTANTS
    Sessions,     \* session identifiers; each is created at most once
    Requests,     \* threads that register work
    Closers,      \* threads that close: the expiry sweep, revocations, session threads
    Registries,   \* the registries that close goes through, one lock each
    Searches,     \* those of them that are event searches, by their group
    Cameras,      \* cameras that can be moved
    MaxSessions   \* max_per_principal and max_per_address

ASSUME SessionAssumption ==
    /\ MaxSessions \in Nat /\ Searches \subseteq Registries
    /\ Sessions \cap (Requests \cup Closers) = {} /\ Requests \cap Closers = {}
    /\ \A x \in Sessions \cup Requests \cup Closers : x # "none"

VARIABLES
    owner,      \* api_session_owners: the sessions with a record
    closed,     \* sessions whose Lifecycle.closed is set
    admission,  \* holder of each session's admission mutex
    work,       \* registered work, <<session, registry>>
    cancelled,  \* the searches among it whose cancellation token is set
    ptz,        \* ptz_owners: the session that moves each camera
    command,    \* the PTZ command that holds the lock on ptz_owners
    unstopped,  \* cameras that the closing of their session could not stop
    active,     \* api_sessions of the WebRTC session registry
    expired,    \* past a deadline, or the identity is no longer active
    ended,      \* revoked, deleted or left by its peer
    creator,    \* the request that creates the session
    request,    \* admit
    closer      \* close, run by a closer or by the creator of another session

ptzVars == <<ptz, command, unstopped>>
sessionVars == <<owner, closed, admission, work, cancelled, ptzVars, active, expired, ended, creator, request, closer>>

Nobody == "none"
Threads == Closers \cup Sessions
CreatorAt(pc, seen, stale) == [pc |-> pc, seen |-> seen, stale |-> stale]
NoRequest == [pc |-> "idle", session |-> Nobody, registry |-> Nobody]
NoClose == [pc |-> "idle", session |-> Nobody, left |-> {}]
NoCommand == [pc |-> "idle", session |-> Nobody, camera |-> Nobody]

SessionInit ==
    /\ owner = {} /\ closed = {} /\ work = {} /\ active = {} /\ expired = {} /\ ended = {}
    /\ cancelled = {} /\ unstopped = {} /\ ptz = [c \in Cameras |-> Nobody] /\ command = NoCommand
    /\ admission = [s \in Sessions |-> Nobody]
    /\ creator = [s \in Sessions |-> CreatorAt("idle", {}, {})]
    /\ request = [r \in Requests |-> NoRequest]
    /\ closer = [t \in Threads |-> NoClose]

-----------------------------------------------------------------------------
(* close, from its first lookup to the removal of the record. *)

\* Without a record there is nothing to do; otherwise the flag turns admissions away at once.
StartClose(t, s) ==
    IF s \in owner
    THEN /\ closed' = closed \cup {s}
         /\ closer' = [closer EXCEPT ![t] = [pc |-> "lock", session |-> s, left |-> {}]]
    ELSE UNCHANGED <<closed, closer>>

\* Mutant: the caller that finds the session marked does not wait for the one that clears it.
CloseLockedEager(t) ==
    /\ closer[t].pc = "lock"
    /\ IF admission[closer[t].session] = Nobody
       THEN /\ closer' = [closer EXCEPT ![t] = [pc |-> "clean", session |-> @.session, left |-> Registries]]
            /\ admission' = [admission EXCEPT ![closer[t].session] = t]
       ELSE closer' = [closer EXCEPT ![t] = NoClose] /\ admission' = admission
    /\ UNCHANGED <<owner, closed, work, cancelled, ptzVars, active, expired, ended, creator, request>>

\* The mutex is acquired and the record looked up again: another caller may have finished.
CloseLocked(t) ==
    /\ closer[t].pc = "lock" /\ admission[closer[t].session] = Nobody
    /\ IF closer[t].session \in owner
       THEN /\ closer' = [closer EXCEPT ![t] = [pc |-> "clean", session |-> @.session, left |-> Registries]]
            /\ admission' = [admission EXCEPT ![closer[t].session] = t]
       ELSE closer' = [closer EXCEPT ![t] = NoClose] /\ admission' = admission
    /\ UNCHANGED <<owner, closed, work, cancelled, ptzVars, active, expired, ended, creator, request>>

\* One registry after the other; here in any order.  The entries of the session go; of a search only
\* the token is set, and its thread takes the entry away when it notices.
CloseRegistry(t, k) ==
    /\ closer[t].pc = "clean" /\ k \in closer[t].left
    /\ \/ k \notin Searches /\ work' = work \ {<<closer[t].session, k>>} /\ cancelled' = cancelled
       \/ k \in Searches /\ cancelled' = cancelled \cup ({<<closer[t].session, k>>} \cap work) /\ work' = work
    /\ closer' = [closer EXCEPT ![t] = [pc |-> "clean", session |-> @.session, left |-> @.left \ {k}]]
    /\ UNCHANGED <<owner, closed, admission, ptzVars, active, expired, ended, creator, request>>

\* camera_control::close_session, the last part: it waits for the command that holds the lock, and
\* stops every camera the session moves; one that cannot be stopped remains the session's.
CloseCameras(t) ==
    /\ closer[t].pc = "clean" /\ closer[t].left = {} /\ command.pc = "idle"
    /\ \E kept \in SUBSET {c \in Cameras : ptz[c] = closer[t].session} :
          /\ ptz' = [c \in Cameras |-> IF ptz[c] = closer[t].session /\ c \notin kept THEN Nobody ELSE ptz[c]]
          /\ unstopped' = unstopped \cup kept
    /\ closer' = [closer EXCEPT ![t] = [pc |-> "remove", session |-> @.session, left |-> {}]]
    /\ UNCHANGED <<owner, closed, admission, work, cancelled, command, active, expired, ended, creator, request>>

\* The record goes last, so that concurrent callers wait for the cleanup.
CloseRemove(t) ==
    /\ closer[t].pc = "remove"
    /\ owner' = owner \ {closer[t].session}
    /\ admission' = [admission EXCEPT ![closer[t].session] = Nobody]
    /\ closer' = [closer EXCEPT ![t] = NoClose]
    /\ UNCHANGED <<closed, work, cancelled, ptzVars, active, expired, ended, creator, request>>

-----------------------------------------------------------------------------
(* The callers of close, and the WebRTC side. *)

\* A revocation, a deletion, a change of grants, or session_closed of the session's own thread.
End(t, s) ==
    /\ closer[t].pc = "idle" /\ s \in active
    /\ ended' = ended \cup {s}
    /\ StartClose(t, s)
    /\ UNCHANGED <<owner, admission, work, cancelled, ptzVars, active, expired, creator, request>>

\* Mutant: the sweep does not look at the deadlines.
SweepMarked(t, s) ==
    /\ closer[t].pc = "idle" /\ s \in owner
    /\ s \in closed
    /\ StartClose(t, s)
    /\ UNCHANGED <<owner, admission, work, cancelled, ptzVars, active, expired, ended, creator, request>>

\* expire_api_sessions, which also takes up the sessions that others marked, and authorize_api_session.
Sweep(t, s) ==
    /\ closer[t].pc = "idle" /\ s \in owner
    /\ s \in expired \cup closed
    /\ StartClose(t, s)
    /\ UNCHANGED <<owner, admission, work, cancelled, ptzVars, active, expired, ended, creator, request>>

\* request_api_session_close after the close, or remove_api at the end of the session's thread.
Deactivate(s) ==
    /\ s \in active /\ s \in ended \cup expired
    /\ active' = active \ {s}
    /\ UNCHANGED <<owner, closed, admission, work, cancelled, ptzVars, expired, ended, creator, request, closer>>

\* The absolute or the idle deadline passes, or the credential expires.
Expire(s) ==
    /\ s \in owner \ expired
    /\ expired' = expired \cup {s}
    /\ UNCHANGED <<owner, closed, admission, work, cancelled, ptzVars, active, ended, creator, request, closer>>

-----------------------------------------------------------------------------
(* create_api_session. *)

AcceptOffer(s) ==
    /\ creator[s].pc = "idle"
    /\ active' = active \cup {s}
    /\ creator' = [creator EXCEPT ![s] = CreatorAt("accepted", {}, {})]
    /\ UNCHANGED <<owner, closed, admission, work, cancelled, ptzVars, expired, ended, request, closer>>

\* remove_stale_api_sessions: the active sessions first, the directory after them.
ReadActive(s) ==
    /\ creator[s].pc = "accepted"
    /\ creator' = [creator EXCEPT ![s] = CreatorAt("compare", active, {})]
    /\ UNCHANGED <<owner, closed, admission, work, cancelled, ptzVars, active, expired, ended, request, closer>>

ListStale(s) ==
    /\ creator[s].pc = "compare"
    /\ creator' = [creator EXCEPT ![s] = CreatorAt("closing", {}, owner \ creator[s].seen)]
    /\ UNCHANGED <<owner, closed, admission, work, cancelled, ptzVars, active, expired, ended, request, closer>>

CloseStale(s, x) ==
    /\ creator[s].pc = "closing" /\ x \in creator[s].stale /\ closer[s].pc = "idle"
    /\ creator' = [creator EXCEPT ![s] = CreatorAt("closing", {}, @.stale \ {x})]
    /\ StartClose(s, x)
    /\ UNCHANGED <<owner, admission, work, cancelled, ptzVars, active, expired, ended, request>>

\* Mutant: the limit is exceeded by one.
RegisterSessionOffByOne(s) ==
    /\ creator[s].pc = "closing" /\ creator[s].stale = {} /\ closer[s].pc = "idle"
    /\ creator' = [creator EXCEPT ![s] = CreatorAt("done", {}, {})]
    /\ \/ /\ Cardinality(owner) <= MaxSessions
          /\ owner' = owner \cup {s} /\ active' = active
       \/ active' = active \ {s} /\ owner' = owner
    /\ UNCHANGED <<closed, admission, work, cancelled, ptzVars, expired, ended, request, closer>>

\* register_api_session, under the lock of the directory; over the limit, or when the
\* authentication ran out meanwhile, the WebRTC session is closed again.
RegisterSession(s) ==
    /\ creator[s].pc = "closing" /\ creator[s].stale = {} /\ closer[s].pc = "idle"
    /\ creator' = [creator EXCEPT ![s] = CreatorAt("done", {}, {})]
    /\ \/ /\ Cardinality(owner) < MaxSessions
          /\ owner' = owner \cup {s} /\ active' = active
       \/ active' = active \ {s} /\ owner' = owner
    /\ UNCHANGED <<closed, admission, work, cancelled, ptzVars, expired, ended, request, closer>>

-----------------------------------------------------------------------------
(* admit. *)

\* The record is cloned; an unknown or closed session is refused.
AdmitLookup(r, s, k) ==
    /\ request[r] = NoRequest
    /\ s \in owner \ closed
    /\ request' = [request EXCEPT ![r] = [pc |-> "lock", session |-> s, registry |-> k]]
    /\ UNCHANGED <<owner, closed, admission, work, cancelled, ptzVars, active, expired, ended, creator, closer>>

\* try_lock: a busy session is refused, an admission never waits.
AdmitLock(r) ==
    /\ request[r].pc = "lock"
    /\ IF admission[request[r].session] = Nobody
       THEN /\ admission' = [admission EXCEPT ![request[r].session] = r]
            /\ request' = [request EXCEPT ![r] = [pc |-> "check", session |-> @.session, registry |-> @.registry]]
       ELSE admission' = admission /\ request' = [request EXCEPT ![r] = NoRequest]
    /\ UNCHANGED <<owner, closed, work, cancelled, ptzVars, active, expired, ended, creator, closer>>

\* Mutant: the flag is not read again under the mutex.
AdmitCheckOnce(r) ==
    /\ request[r].pc = "check"
    /\ request' = [request EXCEPT ![r] = [pc |-> "register", session |-> @.session, registry |-> @.registry]]
    /\ UNCHANGED <<owner, closed, admission, work, cancelled, ptzVars, active, expired, ended, creator, closer>>

\* The flag, the deadlines and the identity are checked under the mutex.
AdmitCheck(r) ==
    /\ request[r].pc = "check"
    /\ IF request[r].session \in closed \cup expired
       THEN /\ request' = [request EXCEPT ![r] = NoRequest]
            /\ admission' = [admission EXCEPT ![request[r].session] = Nobody]
       ELSE /\ request' = [request EXCEPT ![r] = [pc |-> "register", session |-> @.session, registry |-> @.registry]]
            /\ admission' = admission
    /\ UNCHANGED <<owner, closed, work, cancelled, ptzVars, active, expired, ended, creator, closer>>

\* register: the work enters its registry, or the registry refuses it; the mutex is released.
AdmitRegister(r) ==
    /\ request[r].pc = "register"
    /\ \/ work' = work \cup {<<request[r].session, request[r].registry>>}
       \/ work' = work
    /\ admission' = [admission EXCEPT ![request[r].session] = Nobody]
    /\ request' = [request EXCEPT ![r] = NoRequest]
    /\ UNCHANGED <<owner, closed, cancelled, ptzVars, active, expired, ended, creator, closer>>

\* Registered work finishes by itself, a search also when it finds its token set.
WorkDone(s, k) ==
    /\ <<s, k>> \in work
    /\ work' = work \ {<<s, k>>} /\ cancelled' = cancelled \ {<<s, k>>}
    /\ UNCHANGED <<owner, closed, admission, ptzVars, active, expired, ended, creator, request, closer>>

\* The client cancels a search of its own.
CancelSearch(s, k) ==
    /\ s \in owner /\ k \in Searches /\ <<s, k>> \in work
    /\ cancelled' = cancelled \cup {<<s, k>>}
    /\ UNCHANGED <<owner, closed, admission, work, ptzVars, active, expired, ended, creator, request, closer>>

-----------------------------------------------------------------------------
(* The movement of cameras. *)

\* handle_ptz takes the lock on the owners of the cameras; a second command is refused meanwhile.
\* Since the command was authorized the session may have been closed.
PtzLock(s, c) ==
    /\ command = NoCommand /\ s \in owner \cup closed
    /\ command' = [pc |-> "check", session |-> s, camera |-> c]
    /\ UNCHANGED <<owner, closed, admission, work, cancelled, ptz, unstopped,
                   active, expired, ended, creator, request, closer>>

\* camera_access::for_session under that lock: the record is there, in time and not marked.
PtzCheck ==
    /\ command.pc = "check"
    /\ IF command.session \in owner \ (closed \cup expired)
       THEN command' = [pc |-> "execute", session |-> command.session, camera |-> command.camera]
       ELSE command' = NoCommand
    /\ UNCHANGED <<owner, closed, admission, work, cancelled, ptz, unstopped,
                   active, expired, ended, creator, request, closer>>

\* execute: the camera of another session is refused.  A movement or a failed preset makes the session
\* the owner; a stop that succeeds, asked for or after a failed movement, makes nobody the owner.
PtzExecute ==
    /\ command.pc = "execute" /\ command' = NoCommand
    /\ \/ ptz' = ptz
       \/ /\ ptz[command.camera] \in {command.session, Nobody}
          /\ \E o \in {command.session, Nobody} : ptz' = [ptz EXCEPT ![command.camera] = o]
    /\ unstopped' = {c \in unstopped : ptz'[c] # Nobody}
    /\ UNCHANGED <<owner, closed, admission, work, cancelled, active, expired, ended, creator, request, closer>>

\* stop_for_privacy, which also frees a camera whose session is gone; one that does not stop keeps
\* its owner.
StopForPrivacy(c) ==
    /\ command.pc = "idle" /\ ptz[c] # Nobody
    /\ ptz' = [ptz EXCEPT ![c] = Nobody] /\ unstopped' = unstopped \ {c}
    /\ UNCHANGED <<owner, closed, admission, work, cancelled, command,
                   active, expired, ended, creator, request, closer>>

-----------------------------------------------------------------------------
Creating(s) ==
    \/ AcceptOffer(s) \/ ReadActive(s) \/ ListStale(s) \/ RegisterSession(s)
    \/ \E x \in Sessions : CloseStale(s, x)

Closing(t) ==
    \/ CloseLocked(t) \/ CloseCameras(t) \/ CloseRemove(t)
    \/ \E k \in Registries : CloseRegistry(t, k)

Admitting(r) ==
    \/ AdmitLock(r) \/ AdmitCheck(r) \/ AdmitRegister(r)
    \/ \E s \in Sessions, k \in Registries : AdmitLookup(r, s, k)

SessionNext ==
    \/ \E s \in Sessions :
          \/ Creating(s) \/ Expire(s) \/ Deactivate(s)
          \/ \E k \in Registries : WorkDone(s, k) \/ CancelSearch(s, k)
          \/ \E c \in Cameras : PtzLock(s, c)
          \/ \E t \in Closers : End(t, s) \/ Sweep(t, s)
    \/ \E t \in Threads : Closing(t)
    \/ \E r \in Requests : Admitting(r)
    \/ PtzCheck \/ PtzExecute
    \/ \E c \in Cameras : StopForPrivacy(c)

\* Threads that hold or wait for a mutex run on; a closer sweeps every 100 ms; an idle deadline
\* passes.  New requests, revocations and new sessions are never obliged to come.  The lock on
\* ptz_owners is free between any two commands, and of the closers that wait for it one gets it at last.
SessionFairness ==
    /\ \A t \in Threads : WF_sessionVars(Closing(t))
    /\ SF_sessionVars(\E t \in Threads : CloseCameras(t))
    /\ WF_sessionVars(PtzCheck \/ PtzExecute)
    /\ \A r \in Requests : WF_sessionVars(AdmitLock(r) \/ AdmitCheck(r) \/ AdmitRegister(r))
    /\ \A s \in Sessions : /\ WF_sessionVars(\E t \in Closers : Sweep(t, s))
                           /\ WF_sessionVars(s \notin active /\ Expire(s))

SessionSpec == SessionInit /\ [][SessionNext]_sessionVars /\ SessionFairness

-----------------------------------------------------------------------------
(* Properties. *)

\* Every variable stays in its type, and the directory within its limit, however many requests
\* create sessions at once.
SessionTypeOK ==
    /\ IsFiniteSet(owner) /\ Cardinality(owner) <= MaxSessions
    /\ owner \subseteq Sessions /\ closed \subseteq Sessions /\ active \subseteq Sessions
    /\ expired \subseteq Sessions /\ ended \subseteq Sessions /\ work \subseteq Sessions \X Registries
    /\ admission \in [Sessions -> Threads \cup Requests \cup {Nobody}]
    /\ creator \in [Sessions -> [pc : {"idle", "accepted", "compare", "closing", "done"},
                                 seen : SUBSET Sessions, stale : SUBSET Sessions]]
    /\ request \in [Requests -> [pc : {"idle", "lock", "check", "register"},
                                 session : Sessions \cup {Nobody}, registry : Registries \cup {Nobody}]]
    /\ closer \in [Threads -> [pc : {"idle", "lock", "clean", "remove"}, session : Sessions \cup {Nobody},
                               left : SUBSET Registries]]
    /\ cancelled \subseteq work \cap (Sessions \X Searches)
    /\ unstopped \subseteq Cameras /\ ptz \in [Cameras -> Sessions \cup {Nobody}]
    /\ command = NoCommand \/ command \in [pc : {"check", "execute"}, session : Sessions, camera : Cameras]

\* What closing leaves of a session in a registry: nothing, or a search that was told to stop.
Cleared(s, k) == <<s, k>> \in work => k \in Searches /\ <<s, k>> \in cancelled

\* A camera still belongs to a closed session only when the closing tried to stop it and could not.
CamerasReleased(s) == \A c \in Cameras : ptz[c] = s => c \in unstopped

Released(s) == CamerasReleased(s) /\ \A k \in Registries : Cleared(s, k)

\* No work survives its session: once a closed session has lost its record, no registry holds
\* anything of it but searches that were told to stop, and no camera is its own but one that closing
\* could not stop, although a request may still hold a clone of the record and reach the mutex later
\* and a PTZ command authorized before may come to the lock of ptz_owners only now.
NothingSurvivesClose == \A s \in closed \ owner : Released(s)

\* Whoever closes a session returns only when the record is gone and the session is released, also the
\* caller that did not do the clearing: a revocation that was answered has taken effect.
CloseReturnsClean ==
    [][\A t \in Threads, s \in Sessions :
          closer[t].pc # "idle" /\ closer[t].session = s /\ closer'[t].pc = "idle" =>
             s \notin owner' /\ Released(s)']_sessionVars

\* A session that expired, that somebody marked closed or that lost its peer leaves the directory.
SessionLeaves ==
    \A s \in Sessions : (s \in owner /\ (s \in expired \cup closed \/ s \notin active)) ~> (s \notin owner)

\* A record is removed only when its session expired, was revoked or deleted, or lost its peer.
LiveSessionKept ==
    [][\A s \in Sessions : s \in owner /\ s \notin owner' => s \in expired \cup ended]_sessionVars
=============================================================================
