------------------------------ MODULE MCServices ------------------------------
(***************************************************************************)
(* Instances of the services that share no state: the scan of the journal, *)
(* the directory of API sessions and the operational-event monitor.  A     *)
(* behaviour is one of a single service; the others stay where they start. *)
(* The sessions of a behaviour have work of one kind, in a registry that   *)
(* close clears, as a search or on a camera; close goes through all three. *)
(* The registered work is that of s1: registries hold the work of two      *)
(* sessions side by side, while a camera has one owner.                    *)
(***************************************************************************)
EXTENDS JournalScan, SessionLifecycle, OperationalEvents

CONSTANTS s1, s2, r1, c1, k1, q1, m1

VARIABLE service

serviceVars == <<service, scanVars, sessionVars, eventVars>>

\* What the sessions of each kind have admitted.
Admitted == [registries |-> Registries \ Searches, searches |-> Searches, cameras |-> {}]

InSessions == service \in DOMAIN Admitted

MCInit ==
    /\ service \in {"scan", "registries", "searches", "cameras", "events"}
    /\ ScanInit /\ (service = "scan" \/ journal = {})
    /\ SessionInit /\ EventsInit

MCSessionNext ==
    /\ SessionNext
    /\ \A r \in Requests : request'[r].session \in {s1, Nobody} /\ request'[r].registry \in Admitted[service] \cup {Nobody}
    /\ service = "cameras" \/ command' = NoCommand

MCNext ==
    /\ UNCHANGED service
    /\ \/ service = "scan" /\ ScanNext /\ UNCHANGED <<sessionVars, eventVars>>
       \/ InSessions /\ MCSessionNext /\ UNCHANGED <<scanVars, eventVars>>
       \/ service = "events" /\ EventsNext /\ UNCHANGED <<scanVars, sessionVars>>

\* ScanFairness, SessionFairness and EventsFairness, each for its own service.
MCSpec ==
    /\ MCInit /\ [][MCNext]_serviceVars
    /\ WF_scanVars(service = "scan" /\ WorkerTurn) /\ WF_scanVars(service = "scan" /\ IntervalPasses)
    /\ \A t \in Threads : WF_sessionVars(InSessions /\ Closing(t))
    /\ SF_sessionVars(InSessions /\ \E t \in Threads : CloseCameras(t))
    /\ WF_sessionVars(InSessions /\ (PtzCheck \/ PtzExecute))
    /\ \A r \in Requests : WF_sessionVars(InSessions /\ (AdmitLock(r) \/ AdmitCheck(r) \/ AdmitRegister(r)))
    /\ \A s \in Sessions : /\ WF_sessionVars(InSessions /\ \E t \in Closers : Sweep(t, s))
                           /\ WF_sessionVars(InSessions /\ s \notin active /\ Expire(s))
    /\ WF_eventVars(service = "events" /\ (Persist \/ Notify \/ Forward \/ NoHealth))
    /\ SF_eventVars(service = "events" /\ Observe)
===============================================================================
