-------------------------- MODULE LifecycleProofs ---------------------------
(***************************************************************************)
(* What is proved of three protocols that bring something to its end: the  *)
(* closing of an API session (SessionLifecycle), the removal of a file     *)
(* from a volume root (RootRetirement) and the passes over the journal     *)
(* that come to every pending operation (JournalScan).  They share no      *)
(* state; each part is for any values of its constants.                    *)
(*                                                                         *)
(* Sessions.  The argument is about two mutexes: a request past its check  *)
(* and a closer that clears hold the admission mutex, so that neither runs *)
(* while the other does, and a PTZ command past its check holds the lock   *)
(* of ptz_owners, for which the closer waits before the record goes.       *)
(*                                                                         *)
(* Removals.  IInv says what every step may rely on, of the files as they  *)
(* are and as a power failure would leave them.  The protocol implements   *)
(* OwnedRemoval as long as the power stays on.                             *)
(*                                                                         *)
(* The scan.  Unless another pass is pending, the current one will still   *)
(* come to everything that waits: it lies behind the cursor or in the page.*)
(***************************************************************************)
EXTENDS SessionLifecycle, RootRetirement, JournalScan, FiniteSetTheorems, WellFoundedInduction, TLAPS

-----------------------------------------------------------------------------
(* The directory of sessions. *)

\* A request works on a known session, holds the mutex from the check on, and registers only
\* while the record is there.
RequestInv(r) ==
    /\ request[r].pc # "idle" => request[r].session \in owner \cup closed /\ request[r].registry \in Registries
    /\ request[r].pc \in {"check", "register"} => admission[request[r].session] = r
    /\ request[r].pc = "register" => request[r].session \in owner

\* A closer works on a marked session; past the mutex it holds it, the record is still there and
\* the registries it has been to are clear; after the cameras it has been to everything.
CloserInv(t) ==
    /\ closer[t].pc # "idle" => closer[t].session \in closed
    /\ closer[t].pc \in {"clean", "remove"} =>
          /\ closer[t].session \in owner
          /\ admission[closer[t].session] = t
          /\ \A k \in Registries \ closer[t].left : Cleared(closer[t].session, k)
    /\ closer[t].pc = "remove" => closer[t].left = {} /\ CamerasReleased(closer[t].session)

\* A PTZ command that passed its check keeps the cameras of its session from being released: the
\* record stays, since the closer that will remove it waits for the lock of ptz_owners.
CommandInv ==
    command.pc = "execute" =>
       /\ command.session \in owner
       /\ \A t \in Threads : closer[t].pc = "remove" => closer[t].session # command.session

SInv ==
    /\ SessionTypeOK
    /\ \A r \in Requests : RequestInv(r)
    /\ \A t \in Threads : CloserInv(t)
    /\ CommandInv
    /\ NothingSurvivesClose

-----------------------------------------------------------------------------
(* The frame: what a step leaves alone keeps its part of the invariant. *)

\* What a step may do to the work and the cameras of a session that is being or was released.
Undisturbed(s) ==
    /\ \A k \in Registries : Cleared(s, k) => Cleared(s, k)'
    /\ CamerasReleased(s) => CamerasReleased(s)'

\* Work may go, a search that stays keeps its token, and the cameras are left alone.
LEMMA WorkShrinks ==
    ASSUME work' \subseteq work, \A w \in work' : w \in cancelled => w \in cancelled', UNCHANGED <<ptz, unstopped>>
    PROVE  \A s : Undisturbed(s)
BY Zenon DEF Undisturbed, Cleared, CamerasReleased

\* A request keeps its part when it does not move, no record goes but of a session whose mutex it
\* does not hold, and its mutex stays its own.
LEMMA RequestFrame ==
    ASSUME NEW r \in Requests, RequestInv(r), request'[r] = request[r],
           owner \cup closed \subseteq owner' \cup closed',
           request[r].pc \in {"check", "register"} =>
              /\ admission'[request[r].session] = admission[request[r].session]
              /\ request[r].session \in owner => request[r].session \in owner'
    PROVE  RequestInv(r)'
BY Zenon DEF RequestInv

\* A closer keeps its part when it does not move and nothing of its session is undone.
LEMMA CloserFrame ==
    ASSUME NEW t \in Threads, CloserInv(t), closer'[t] = closer[t], closed \subseteq closed',
           closer[t].pc \in {"clean", "remove"} =>
              /\ closer[t].session \in owner'
              /\ admission'[closer[t].session] = admission[closer[t].session],
           \A s \in owner : s = closer[t].session => Undisturbed(s)
    PROVE  CloserInv(t)'
<1>1. closer[t].pc # "idle" => closer'[t].session \in closed' BY Zenon DEF CloserInv
<1>2. ASSUME closer[t].pc \in {"clean", "remove"}
      PROVE  /\ closer'[t].session \in owner' /\ admission'[closer'[t].session] = t
             /\ \A k \in Registries \ closer'[t].left : Cleared(closer[t].session, k)'
             /\ closer[t].pc = "remove" => closer'[t].left = {} /\ CamerasReleased(closer[t].session)'
  <2>1. PICK s \in owner : s = closer[t].session BY <1>2, Zenon DEF CloserInv
  <2>2. /\ \A k \in Registries \ closer[t].left : Cleared(s, k)
        /\ closer[t].pc = "remove" => closer[t].left = {} /\ CamerasReleased(s)
    BY <1>2, <2>1, Zenon DEF CloserInv
  <2>3. /\ \A k \in Registries \ closer[t].left : Cleared(s, k)'
        /\ closer[t].pc = "remove" => CamerasReleased(s)'
    BY <2>1, <2>2, Zenon DEF Undisturbed
  <2>4. /\ \A k \in Registries \ closer'[t].left : Cleared(closer[t].session, k)'
        /\ closer[t].pc = "remove" => closer'[t].left = {} /\ CamerasReleased(closer[t].session)'
    BY <2>1, <2>2, <2>3, Zenon DEF Cleared, CamerasReleased
  <2>5. QED BY <1>2, <2>4, Zenon DEF CloserInv
<1>3. QED BY <1>1, <1>2, Zenon DEF CloserInv

\* The sessions that were released stay so when the step keeps them and removes no record.
LEMMA SurvivesFrame ==
    ASSUME NothingSurvivesClose, closed' \ owner' \subseteq closed \ owner, \A s \in closed \ owner : Undisturbed(s)
    PROVE  NothingSurvivesClose'
<1> SUFFICES ASSUME NEW s \in closed' \ owner' PROVE Released(s)' BY Zenon DEF NothingSurvivesClose
<1>1. Released(s) /\ Undisturbed(s) BY Zenon DEF NothingSurvivesClose
<1>2. QED BY <1>1, Zenon DEF Released, Undisturbed

\* A command that does not move keeps its part when its record stays and no other closer comes past
\* the cameras.
LEMMA CommandFrame ==
    ASSUME CommandInv, command' = command, owner \subseteq owner',
           \A t \in Threads : closer'[t].pc = "remove" => closer[t].pc = "remove" /\ closer'[t].session = closer[t].session
    PROVE  CommandInv'
BY Zenon DEF CommandInv

\* Closers that do not move, and what they have released, are kept by a step that disturbs neither.
LEMMA ClosersFrame ==
    ASSUME SInv, owner \subseteq owner', UNCHANGED <<closed, closer>>, \A s \in closed \ owner : Undisturbed(s),
           \A t \in Threads : closer[t].pc \in {"clean", "remove"} =>
              /\ admission'[closer[t].session] = admission[closer[t].session]
              /\ \A s \in owner : s = closer[t].session => Undisturbed(s)
    PROVE  (\A t \in Threads : CloserInv(t)') /\ NothingSurvivesClose'
<1>1. ASSUME NEW t \in Threads PROVE CloserInv(t)'
  <2>1. CloserInv(t) BY Zenon DEF SInv
  <2>2. CASE closer[t].pc \in {"clean", "remove"}
    <3>1. closer[t].session \in owner' BY <2>1, <2>2, Zenon DEF CloserInv
    <3>2. QED BY <2>1, <2>2, <3>1, CloserFrame, Zenon
  <2>3. CASE closer[t].pc \notin {"clean", "remove"} BY <2>1, <2>3 DEF CloserInv
  <2>4. QED BY <2>2, <2>3, Zenon
<1>2. NothingSurvivesClose' BY SurvivesFrame, Zenon DEF SInv
<1>3. QED BY <1>1, <1>2, Zenon

\* Requests, closers and creators are different threads, and none of them is nobody.
LEMMA Distinct ==
    /\ \A r \in Requests, t \in Threads : r # t
    /\ \A x \in Requests \cup Threads : x # Nobody
    /\ Nobody \notin Sessions
BY SessionAssumption, Zenon DEF Threads, Nobody

-----------------------------------------------------------------------------
(* close. *)

\* close marks the session and queues for the mutex, or returns at once when the record is gone.
LEMMA StartCloseStep ==
    ASSUME SInv, NEW t \in Threads, NEW s \in Sessions, closer[t].pc = "idle", StartClose(t, s),
           UNCHANGED <<owner, admission, work, cancelled, ptz, command, unstopped, request>>
    PROVE  /\ closed' \subseteq Sessions
           /\ closer' \in [Threads -> [pc : {"idle", "lock", "clean", "remove"}, session : Sessions \cup {Nobody},
                                       left : SUBSET Registries]]
           /\ \A r \in Requests : RequestInv(r)'
           /\ \A u \in Threads : CloserInv(u)'
           /\ CommandInv'
           /\ NothingSurvivesClose'
<1>0. \A x : Undisturbed(x) BY WorkShrinks, Zenon
<1>1. CASE s \notin owner
  <2>1. closed' = closed /\ closer' = closer BY <1>1, Zenon DEF StartClose
  <2>2. \A r \in Requests : RequestInv(r)' BY <2>1, Zenon DEF SInv, RequestInv
  <2>3. ASSUME NEW u \in Threads PROVE CloserInv(u)'
    <3>1. CloserInv(u) BY Zenon DEF SInv
    <3>2. closer[u].pc \in {"clean", "remove"} => closer[u].session \in owner' BY <3>1, Zenon DEF CloserInv
    <3>3. QED BY <3>1, <3>2, <2>1, <1>0, CloserFrame, Zenon
  <2>4. CommandInv' /\ NothingSurvivesClose' BY <2>1, <1>0, CommandFrame, SurvivesFrame, Zenon DEF SInv
  <2>5. QED BY <2>1, <2>2, <2>3, <2>4, Zenon DEF SInv, SessionTypeOK
<1>2. CASE s \in owner
  <2>1. /\ closed' = closed \cup {s}
        /\ closer' = [closer EXCEPT ![t] = [pc |-> "lock", session |-> s, left |-> {}]]
    BY <1>2, Zenon DEF StartClose
  <2>2. closer' \in [Threads -> [pc : {"idle", "lock", "clean", "remove"}, session : Sessions \cup {Nobody},
                                 left : SUBSET Registries]]
    BY <2>1, Zenon DEF SInv, SessionTypeOK
  <2>3. /\ closer'[t].pc = "lock" /\ closer'[t].session = s
        /\ \A u \in Threads : u # t => closer'[u] = closer[u]
    BY <2>1, Zenon DEF SInv, SessionTypeOK
  <2>4. closed' \subseteq Sessions /\ closed \subseteq closed' BY <2>1, Zenon DEF SInv, SessionTypeOK
  <2>5. ASSUME NEW r \in Requests PROVE RequestInv(r)'
    BY <2>4, RequestFrame, Zenon DEF SInv
  <2>6. ASSUME NEW u \in Threads PROVE CloserInv(u)'
    <3>1. CASE u = t BY <3>1, <2>1, <2>3 DEF CloserInv
    <3>2. CASE u # t
      <4>1. closer'[u] = closer[u] BY <3>2, <2>3, Zenon
      <4>2. CloserInv(u) BY Zenon DEF SInv
      <4>3. closer[u].pc \in {"clean", "remove"} => closer[u].session \in owner BY <4>2, Zenon DEF CloserInv
      <4>4. QED BY <4>1, <4>2, <4>3, <2>4, <1>0, CloserFrame, Zenon
    <3>3. QED BY <3>1, <3>2, Zenon
  <2>7. \A u \in Threads : closer'[u].pc = "remove" => closer[u].pc = "remove" /\ closer'[u].session = closer[u].session
    BY <2>3
  <2>8. CommandInv' BY <2>7, CommandFrame, Zenon DEF SInv
  <2>9. NothingSurvivesClose' BY <2>1, <1>2, <1>0, SurvivesFrame, Zenon DEF SInv
  <2>10. QED BY <2>2, <2>4, <2>5, <2>6, <2>8, <2>9, Zenon
<1>3. QED BY <1>1, <1>2, Zenon

\* close past the mutex: the record is there and it clears, or it is gone and close returns.
LEMMA CloseLockedStep ==
    ASSUME SInv, NEW t \in Threads, CloseLocked(t)
    PROVE  SInv'
<1> DEFINE s == closer[t].session
<1>1. /\ closer[t].pc = "lock" /\ CloserInv(t) /\ s \in closed /\ s \in Sessions /\ admission[s] = Nobody
      /\ UNCHANGED <<owner, closed, work, cancelled, ptz, command, unstopped, active, expired, ended, creator, request>>
  BY Zenon DEF CloseLocked, SInv, CloserInv, SessionTypeOK, ptzVars
<1>0. /\ \A x : Undisturbed(x)
      /\ NothingSurvivesClose'
  BY <1>1, WorkShrinks, SurvivesFrame, Zenon DEF SInv
<1>2. CASE s \in owner
  <2>1. /\ closer' = [closer EXCEPT ![t] = [pc |-> "clean", session |-> s, left |-> Registries]]
        /\ admission' = [admission EXCEPT ![s] = t]
    BY <1>2, Zenon DEF CloseLocked
  <2>2. /\ closer'[t].pc = "clean" /\ closer'[t].session = s /\ closer'[t].left = Registries
        /\ \A u \in Threads : u # t => closer'[u] = closer[u]
        /\ admission'[s] = t /\ \A x \in Sessions : x # s => admission'[x] = admission[x]
    BY <2>1, <1>1, Zenon DEF SInv, SessionTypeOK
  <2>3. SessionTypeOK' BY <2>1, <1>1, Zenon DEF SInv, SessionTypeOK
  <2>4. ASSUME NEW r \in Requests PROVE RequestInv(r)'
    <3>1. RequestInv(r) /\ request[r].session \in Sessions \cup {Nobody} BY Zenon DEF SInv, SessionTypeOK
    <3>2. request[r].pc \in {"check", "register"} => request[r].session \in Sessions /\ request[r].session # s
      BY <3>1, <1>1, Distinct, Zenon DEF RequestInv, SInv, SessionTypeOK
    <3>3. QED BY <3>1, <3>2, <2>2, <1>1, RequestFrame, Zenon
  <2>5. ASSUME NEW u \in Threads PROVE CloserInv(u)'
    <3>1. CASE u = t BY <3>1, <2>2, <1>1, <1>2, Zenon DEF CloserInv
    <3>2. CASE u # t
      <4>1. closer'[u] = closer[u] /\ CloserInv(u) BY <3>2, <2>2, Zenon DEF SInv
      <4>2. closer[u].pc \in {"clean", "remove"} =>
               closer[u].session \in owner /\ closer[u].session \in Sessions /\ closer[u].session # s
        BY <4>1, <1>1, Distinct, Zenon DEF CloserInv, SInv, SessionTypeOK
      <4>3. QED BY <4>1, <4>2, <2>2, <1>0, <1>1, CloserFrame, Zenon
    <3>3. QED BY <3>1, <3>2, Zenon
  <2>6. \A u \in Threads : closer'[u].pc = "remove" => closer[u].pc = "remove" /\ closer'[u].session = closer[u].session
    BY <2>2
  <2>7. CommandInv' BY <2>6, <1>1, CommandFrame, Zenon DEF SInv
  <2>8. QED BY <2>3, <2>4, <2>5, <2>7, <1>0, Zenon DEF SInv
<1>3. CASE s \notin owner
  <2>1. closer' = [closer EXCEPT ![t] = NoClose] /\ admission' = admission BY <1>3, Zenon DEF CloseLocked
  <2>2. closer'[t].pc = "idle" /\ \A u \in Threads : u # t => closer'[u] = closer[u]
    BY <2>1, Zenon DEF SInv, SessionTypeOK, NoClose
  <2>3. SessionTypeOK' BY <2>1, <1>1, Zenon DEF SInv, SessionTypeOK, NoClose, Nobody
  <2>4. \A r \in Requests : RequestInv(r)' BY <2>1, <1>1, Zenon DEF SInv, RequestInv
  <2>5. ASSUME NEW u \in Threads PROVE CloserInv(u)'
    <3>1. CASE u = t BY <3>1, <2>2, Zenon DEF CloserInv
    <3>2. CASE u # t
      <4>1. closer'[u] = closer[u] /\ CloserInv(u) BY <3>2, <2>2, Zenon DEF SInv
      <4>2. closer[u].pc \in {"clean", "remove"} => closer[u].session \in owner BY <4>1, Zenon DEF CloserInv
      <4>3. QED BY <4>1, <4>2, <2>1, <1>0, <1>1, CloserFrame, Zenon
    <3>3. QED BY <3>1, <3>2, Zenon
  <2>6. \A u \in Threads : closer'[u].pc = "remove" => closer[u].pc = "remove" /\ closer'[u].session = closer[u].session
    BY <2>2
  <2>7. CommandInv' BY <2>6, <1>1, CommandFrame, Zenon DEF SInv
  <2>8. QED BY <2>3, <2>4, <2>5, <2>7, <1>0, Zenon DEF SInv
<1>4. QED BY <1>2, <1>3, Zenon

\* close goes through one registry; it is the holder of the mutex, so no request adds to it behind its
\* back.
LEMMA CloseRegistryStep ==
    ASSUME SInv, NEW t \in Threads, NEW k \in Registries, CloseRegistry(t, k)
    PROVE  SInv'
<1> DEFINE s == closer[t].session
<1>1. /\ closer[t].pc = "clean" /\ CloserInv(t) /\ s \in owner
      /\ closer' = [closer EXCEPT ![t] = [pc |-> "clean", session |-> s, left |-> closer[t].left \ {k}]]
      /\ UNCHANGED <<owner, closed, admission, ptz, command, unstopped, active, expired, ended, creator, request>>
  BY Zenon DEF CloseRegistry, SInv, CloserInv, ptzVars
<1>2. /\ closer'[t].pc = "clean" /\ closer'[t].session = s /\ closer'[t].left = closer[t].left \ {k}
      /\ \A u \in Threads : u # t => closer'[u] = closer[u]
  BY <1>1, Zenon DEF SInv, SessionTypeOK
<1>3. /\ work' \subseteq work /\ cancelled' \subseteq work' \cap (Sessions \X Searches)
      /\ \A w \in work' : w \in cancelled => w \in cancelled'
      /\ <<s, k>> \in work' => k \in Searches /\ <<s, k>> \in cancelled'
  <2>1. cancelled \subseteq work \cap (Sessions \X Searches) /\ s \in Sessions BY <1>1, Zenon DEF SInv, SessionTypeOK
  <2>2. CASE k \notin Searches /\ work' = work \ {<<s, k>>} /\ cancelled' = cancelled
    <3>1. <<s, k>> \notin cancelled BY <2>1, <2>2, Zenon
    <3>2. QED BY <2>1, <2>2, <3>1, Zenon
  <2>3. CASE k \in Searches /\ cancelled' = cancelled \cup ({<<s, k>>} \cap work) /\ work' = work
    BY <2>1, <2>3
  <2>4. QED BY <2>2, <2>3, Zenon DEF CloseRegistry
<1>4. \A x : Undisturbed(x) BY <1>1, <1>3, WorkShrinks, Zenon
<1>5. SessionTypeOK'
  <2>1. work' \subseteq Sessions \X Registries BY <1>3, Zenon DEF SInv, SessionTypeOK
  <2>2. QED BY <2>1, <1>1, <1>3, Zenon DEF SInv, SessionTypeOK
<1>6. \A r \in Requests : RequestInv(r)' BY <1>1, Zenon DEF SInv, RequestInv
<1>7. ASSUME NEW u \in Threads PROVE CloserInv(u)'
  <2>1. CASE u = t
    <3>1. ASSUME NEW j \in Registries \ closer'[t].left PROVE Cleared(s, j)'
      <4>1. CASE j = k BY <4>1, <1>2, <1>3, Zenon DEF Cleared
      <4>2. CASE j # k
        <5>1. j \in Registries \ closer[t].left BY <4>2, <1>2, Zenon
        <5>2. Cleared(s, j) BY <5>1, <1>1, Zenon DEF CloserInv
        <5>3. QED BY <5>2, <1>2, <1>3, Zenon DEF Cleared
      <4>3. QED BY <4>1, <4>2, Zenon
    <3>2. QED BY <2>1, <3>1, <1>1, <1>2 DEF CloserInv
  <2>2. CASE u # t
    <3>1. closer'[u] = closer[u] /\ CloserInv(u) BY <2>2, <1>2, Zenon DEF SInv
    <3>2. closer[u].pc \in {"clean", "remove"} => closer[u].session \in owner' BY <3>1, <1>1, Zenon DEF CloserInv
    <3>3. QED BY <3>1, <3>2, <1>1, <1>4, CloserFrame, Zenon
  <2>3. QED BY <2>1, <2>2, Zenon
<1>8. \A u \in Threads : closer'[u].pc = "remove" => closer[u].pc = "remove" /\ closer'[u].session = closer[u].session
  BY <1>2
<1>9. CommandInv' /\ NothingSurvivesClose' BY <1>1, <1>4, <1>8, CommandFrame, SurvivesFrame, Zenon DEF SInv
<1>10. QED BY <1>5, <1>6, <1>7, <1>9, Zenon DEF SInv

\* close stops the cameras of the session while no command holds the lock of ptz_owners.
LEMMA CloseCamerasStep ==
    ASSUME SInv, NEW t \in Threads, CloseCameras(t)
    PROVE  SInv'
<1> DEFINE s == closer[t].session
<1>1. /\ closer[t].pc = "clean" /\ closer[t].left = {} /\ CloserInv(t) /\ s \in owner /\ s \in closed /\ s \in Sessions
      /\ closer' = [closer EXCEPT ![t] = [pc |-> "remove", session |-> s, left |-> {}]]
      /\ UNCHANGED <<owner, closed, admission, work, cancelled, command, active, expired, ended, creator, request>>
      /\ command.pc = "idle"
  BY Zenon DEF CloseCameras, SInv, CloserInv, SessionTypeOK
<1>2. PICK kept \in SUBSET {c \in Cameras : ptz[c] = s} :
         /\ ptz' = [c \in Cameras |-> IF ptz[c] = s /\ c \notin kept THEN Nobody ELSE ptz[c]]
         /\ unstopped' = unstopped \cup kept
  BY Zenon DEF CloseCameras
<1>3. /\ closer'[t].pc = "remove" /\ closer'[t].session = s /\ closer'[t].left = {}
      /\ \A u \in Threads : u # t => closer'[u] = closer[u]
  BY <1>1, Zenon DEF SInv, SessionTypeOK
<1>4. ASSUME NEW x \in Sessions, NEW c \in Cameras, ptz'[c] = x
      PROVE  ptz[c] = x /\ (x = s => c \in kept)
  <2>1. x # Nobody BY Distinct, Zenon
  <2>2. QED BY <2>1, <1>2, <1>4, Zenon
<1>5. \A x \in Sessions : Undisturbed(x)
  BY <1>1, <1>2, <1>4, Zenon DEF Undisturbed, Cleared, CamerasReleased
<1>6. CamerasReleased(s)'
  <2>1. \A c \in Cameras : ptz'[c] = s => c \in unstopped' BY <1>1, <1>2, <1>4, Zenon
  <2>2. QED BY <2>1, <1>3, Zenon DEF CamerasReleased
<1>7. SessionTypeOK'
  <2>1. ptz' \in [Cameras -> Sessions \cup {Nobody}] BY <1>2, ZenonT(60) DEF SInv, SessionTypeOK
  <2>2. unstopped' \subseteq Cameras BY <1>2, Zenon DEF SInv, SessionTypeOK
  <2>3. QED BY <2>1, <2>2, <1>1, Zenon DEF SInv, SessionTypeOK
<1>8. \A r \in Requests : RequestInv(r)' BY <1>1, Zenon DEF SInv, RequestInv
<1>9. ASSUME NEW u \in Threads PROVE CloserInv(u)'
  <2>1. CASE u = t
    <3>1. ASSUME NEW k \in Registries PROVE Cleared(s, k)'
      <4>1. Cleared(s, k) BY <1>1, Zenon DEF CloserInv
      <4>2. QED BY <4>1, <1>1, <1>3 DEF Cleared
    <3>2. admission[s] = t BY <1>1, Zenon DEF CloserInv
    <3>3. QED BY <2>1, <3>1, <3>2, <1>1, <1>3, <1>6 DEF CloserInv
  <2>2. CASE u # t
    <3>1. closer'[u] = closer[u] /\ CloserInv(u) BY <2>2, <1>3, Zenon DEF SInv
    <3>2. closer[u].pc \in {"clean", "remove"} => closer[u].session \in owner' BY <3>1, <1>1, Zenon DEF CloserInv
    <3>3. owner \subseteq Sessions BY Zenon DEF SInv, SessionTypeOK
    <3>4. QED BY <3>1, <3>2, <3>3, <1>1, <1>5, CloserFrame, Zenon
  <2>3. QED BY <2>1, <2>2, Zenon
<1>10. CommandInv' BY <1>1 DEF CommandInv
<1>11. NothingSurvivesClose' BY <1>1, <1>5, SurvivesFrame, Zenon DEF SInv, SessionTypeOK
<1>12. QED BY <1>7, <1>8, <1>9, <1>10, <1>11, Zenon DEF SInv

\* close removes the record last, with every registry clear, and gives the mutex back.
LEMMA CloseRemoveStep ==
    ASSUME SInv, NEW t \in Threads, CloseRemove(t)
    PROVE  SInv'
<1> DEFINE s == closer[t].session
<1>1. /\ closer[t].pc = "remove" /\ closer[t].left = {} /\ CloserInv(t)
      /\ s \in owner /\ s \in closed /\ s \in Sessions /\ admission[s] = t
      /\ \A k \in Registries : Cleared(s, k)
      /\ CamerasReleased(s)
  BY Zenon DEF CloseRemove, SInv, CloserInv, SessionTypeOK
<1>2. /\ owner' = owner \ {s}
      /\ admission' = [admission EXCEPT ![s] = Nobody]
      /\ closer' = [closer EXCEPT ![t] = NoClose]
      /\ UNCHANGED <<closed, work, cancelled, ptz, command, unstopped, active, expired, ended, creator, request>>
  BY Zenon DEF CloseRemove, ptzVars
<1>0. \A x : Undisturbed(x) BY <1>2, WorkShrinks, Zenon
<1>3. /\ closer'[t].pc = "idle" /\ \A u \in Threads : u # t => closer'[u] = closer[u]
      /\ \A x \in Sessions : x # s => admission'[x] = admission[x]
  BY <1>2, Zenon DEF SInv, SessionTypeOK, NoClose
<1>4. SessionTypeOK'
  <2>1. IsFiniteSet(owner') /\ Cardinality(owner') <= MaxSessions
    <3>1. IsFiniteSet(owner) /\ Cardinality(owner) <= MaxSessions BY Zenon DEF SInv, SessionTypeOK
    <3>2. IsFiniteSet(owner') /\ Cardinality(owner') = Cardinality(owner) - 1
      BY <3>1, <1>1, <1>2, FS_RemoveElement, Zenon
    <3>3. Cardinality(owner) \in Nat /\ Cardinality(owner') \in Nat BY <3>1, <3>2, FS_CardinalityType, Zenon
    <3>4. QED BY <3>1, <3>2, <3>3, SessionAssumption
  <2>2. QED BY <2>1, <1>2, Zenon DEF SInv, SessionTypeOK, NoClose, Nobody
<1>5. ASSUME NEW r \in Requests PROVE RequestInv(r)'
  <2>1. RequestInv(r) /\ request[r].session \in Sessions \cup {Nobody} BY Zenon DEF SInv, SessionTypeOK
  <2>2. request[r].pc \in {"check", "register"} => request[r].session \in Sessions /\ request[r].session # s
    BY <2>1, <1>1, Distinct DEF RequestInv, SInv, SessionTypeOK
  <2>3. owner \cup closed \subseteq owner' \cup closed' BY <1>1, <1>2, Zenon
  <2>4. QED BY <2>1, <2>2, <2>3, <1>2, <1>3, RequestFrame, Zenon
<1>6. ASSUME NEW u \in Threads PROVE CloserInv(u)'
  <2>1. CASE u = t BY <2>1, <1>3, Zenon DEF CloserInv
  <2>2. CASE u # t
    <3>1. closer'[u] = closer[u] /\ CloserInv(u) BY <2>2, <1>3, Zenon DEF SInv
    <3>2. closer[u].pc \in {"clean", "remove"} =>
             closer[u].session \in owner' /\ closer[u].session \in Sessions /\ closer[u].session # s
      BY <3>1, <2>2, <1>1, <1>2, Zenon DEF CloserInv, SInv, SessionTypeOK
    <3>3. QED BY <3>1, <3>2, <1>0, <1>2, <1>3, CloserFrame, ZenonT(60)
  <2>3. QED BY <2>1, <2>2, Zenon
<1>7. NothingSurvivesClose'
  <2>1. ASSUME NEW x \in closed' \ owner' PROVE Released(x)'
    <3>1. x \in closed \ owner \/ x = s BY <1>2, Zenon
    <3>2. Released(x) BY <3>1, <1>1, Zenon DEF SInv, NothingSurvivesClose, Released
    <3>3. QED BY <3>2, <1>0, Zenon DEF Released, Undisturbed
  <2>2. QED BY <2>1, Zenon DEF NothingSurvivesClose
<1>8. CommandInv'
  <2>1. \A u \in Threads : closer'[u].pc = "remove" => closer[u].pc = "remove" /\ closer'[u].session = closer[u].session
    BY <1>3
  <2>2. command.pc = "execute" => command.session \in owner' BY <1>1, <1>2, Zenon DEF SInv, CommandInv
  <2>3. QED BY <2>1, <2>2, <1>2, Zenon DEF SInv, CommandInv
<1>9. QED BY <1>4, <1>5, <1>6, <1>7, <1>8, Zenon DEF SInv

-----------------------------------------------------------------------------
(* admit. *)

\* admit picks a known session and queues for its mutex.
LEMMA AdmitLookupStep ==
    ASSUME SInv, NEW r \in Requests, NEW s \in Sessions, NEW k \in Registries, AdmitLookup(r, s, k)
    PROVE  SInv'
<1>1. /\ s \in owner
      /\ request' = [request EXCEPT ![r] = [pc |-> "lock", session |-> s, registry |-> k]]
      /\ UNCHANGED <<owner, closed, admission, work, cancelled, ptz, command, unstopped,
                     active, expired, ended, creator, closer>>
  BY Zenon DEF AdmitLookup, ptzVars
<1>2. /\ request'[r] = [pc |-> "lock", session |-> s, registry |-> k]
      /\ \A q \in Requests : q # r => request'[q] = request[q]
  BY <1>1, Zenon DEF SInv, SessionTypeOK
<1>3. SessionTypeOK' BY <1>1, Zenon DEF SInv, SessionTypeOK
<1>4. ASSUME NEW q \in Requests PROVE RequestInv(q)'
  <2>1. CASE q = r BY <2>1, <1>1, <1>2 DEF RequestInv
  <2>2. CASE q # r BY <2>2, <1>1, <1>2 DEF SInv, RequestInv
  <2>3. QED BY <2>1, <2>2, Zenon
<1>5. \A x : Undisturbed(x) BY <1>1, WorkShrinks, Zenon
<1>6. (\A t \in Threads : CloserInv(t)') /\ NothingSurvivesClose' BY <1>1, <1>5, ClosersFrame, Zenon
<1>7. CommandInv' BY <1>1, CommandFrame, Zenon DEF SInv
<1>8. QED BY <1>3, <1>4, <1>6, <1>7, Zenon DEF SInv

\* A request that takes the mutex, keeps it or gives it up, and registers nothing.
LEMMA AdmitMutexStep ==
    ASSUME SInv, NEW r \in Requests, request[r].pc \in {"lock", "check"},
           NEW next \in {"check", "register"}, NEW h \in {r, Nobody},
           admission[request[r].session] \in {r, Nobody},
           request[r].pc = "check" /\ h = r => request[r].session \in owner,
           IF h = r THEN request' = [request EXCEPT ![r] = [pc |-> next, session |-> @.session, registry |-> @.registry]]
                    ELSE request' = [request EXCEPT ![r] = NoRequest],
           next = "register" => request[r].pc = "check",
           admission' = [admission EXCEPT ![request[r].session] = h],
           UNCHANGED <<owner, closed, work, cancelled, ptz, command, unstopped, active, expired, ended, creator, closer>>
    PROVE  SInv'
<1> DEFINE s == request[r].session
<1>1. RequestInv(r) /\ s \in owner \cup closed /\ s \in Sessions /\ request[r].registry \in Registries
  BY Zenon DEF SInv, RequestInv, SessionTypeOK
<1>2. /\ admission'[s] = h /\ \A x \in Sessions : x # s => admission'[x] = admission[x]
      /\ \A q \in Requests : q # r => request'[q] = request[q]
      /\ h = r => request'[r] = [pc |-> next, session |-> s, registry |-> request[r].registry]
      /\ h # r => request'[r] = NoRequest
  BY <1>1, Distinct, Zenon DEF SInv, SessionTypeOK
<1>3. SessionTypeOK'
  <2>1. admission' \in [Sessions -> Threads \cup Requests \cup {Nobody}] BY <1>1, Zenon DEF SInv, SessionTypeOK
  <2>2. [pc |-> next, session |-> s, registry |-> request[r].registry]
           \in [pc : {"idle", "lock", "check", "register"}, session : Sessions \cup {Nobody},
                registry : Registries \cup {Nobody}]
    BY <1>1, Zenon
  <2>3. NoRequest \in [pc : {"idle", "lock", "check", "register"}, session : Sessions \cup {Nobody},
                       registry : Registries \cup {Nobody}]
    BY Zenon DEF NoRequest
  <2>4. request' \in [Requests -> [pc : {"idle", "lock", "check", "register"}, session : Sessions \cup {Nobody},
                                   registry : Registries \cup {Nobody}]]
    BY <2>2, <2>3, SMTT(30) DEF SInv, SessionTypeOK
  <2>5. QED BY <2>1, <2>4, Zenon DEF SInv, SessionTypeOK
<1>4. ASSUME NEW q \in Requests PROVE RequestInv(q)'
  <2>1. CASE q = r /\ h = r BY <2>1, <1>1, <1>2 DEF RequestInv
  <2>2. CASE q = r /\ h # r BY <2>2, <1>2 DEF RequestInv, NoRequest
  <2>3. CASE q # r
    <3>1. RequestInv(q) /\ request'[q] = request[q] BY <2>3, <1>2, Zenon DEF SInv
    <3>2. request[q].pc \in {"check", "register"} => request[q].session \in Sessions /\ request[q].session # s
      BY <3>1, <2>3, Distinct DEF RequestInv, SInv, SessionTypeOK
    <3>3. QED BY <3>1, <3>2, <1>2, RequestFrame, Zenon
  <2>4. QED BY <2>1, <2>2, <2>3, Zenon
<1>5. ASSUME NEW t \in Threads, closer[t].pc \in {"clean", "remove"}
      PROVE  admission'[closer[t].session] = admission[closer[t].session]
  <2>1. CloserInv(t) BY Zenon DEF SInv
  <2>2. closer[t].session \in Sessions /\ closer[t].session # s
    BY <2>1, <1>5, Distinct DEF CloserInv, SInv, SessionTypeOK
  <2>3. QED BY <2>2, <1>2, Zenon
<1>6. \A x : Undisturbed(x) BY WorkShrinks, Zenon
<1>7. (\A t \in Threads : CloserInv(t)') /\ NothingSurvivesClose' BY <1>5, <1>6, ClosersFrame, Zenon
<1>8. CommandInv' BY CommandFrame, Zenon DEF SInv
<1>9. QED BY <1>3, <1>4, <1>7, <1>8, Zenon DEF SInv

\* admit takes the mutex of its session.
LEMMA AdmitLockStep ==
    ASSUME SInv, NEW r \in Requests, AdmitLock(r)
    PROVE  SInv'
<1>1. CASE admission[request[r].session] = Nobody
  <2>1. QED BY <1>1, AdmitMutexStep, Distinct, Zenon DEF AdmitLock, ptzVars
<1>2. CASE admission[request[r].session] # Nobody
  <2>1. /\ request' = [request EXCEPT ![r] = NoRequest]
        /\ UNCHANGED <<owner, closed, admission, work, cancelled, ptz, command, unstopped,
                       active, expired, ended, creator, closer>>
    BY <1>2, Zenon DEF AdmitLock, ptzVars
  <2>2. request'[r] = NoRequest /\ \A q \in Requests : q # r => request'[q] = request[q]
    BY <2>1, Zenon DEF SInv, SessionTypeOK
  <2>3. SessionTypeOK' BY <2>1, Zenon DEF SInv, SessionTypeOK, NoRequest
  <2>4. ASSUME NEW q \in Requests PROVE RequestInv(q)'
    <3>1. CASE q = r BY <3>1, <2>2 DEF RequestInv, NoRequest
    <3>2. CASE q # r BY <3>2, <2>1, <2>2 DEF SInv, RequestInv
    <3>3. QED BY <3>1, <3>2, Zenon
  <2>5. \A x : Undisturbed(x) BY <2>1, WorkShrinks, Zenon
  <2>6. (\A t \in Threads : CloserInv(t)') /\ NothingSurvivesClose' BY <2>1, <2>5, ClosersFrame, Zenon
  <2>7. CommandInv' BY <2>1, CommandFrame, Zenon DEF SInv
  <2>8. QED BY <2>3, <2>4, <2>6, <2>7, Zenon DEF SInv
<1>3. QED BY <1>1, <1>2, Zenon

\* admit holds the mutex and looks at the mark and the record before it goes on.
LEMMA AdmitCheckStep ==
    ASSUME SInv, NEW r \in Requests, AdmitCheck(r)
    PROVE  SInv'
<1>1. /\ request[r].pc = "check" /\ admission[request[r].session] = r
      /\ request[r].session \in owner \cup closed /\ request[r].session \in Sessions
      /\ UNCHANGED <<owner, closed, work, cancelled, ptz, command, unstopped, active, expired, ended, creator, closer>>
  BY Zenon DEF AdmitCheck, SInv, RequestInv, SessionTypeOK, ptzVars
<1>2. CASE request[r].session \in closed \cup expired
  BY <1>1, <1>2, AdmitMutexStep, Distinct, Zenon DEF AdmitCheck
<1>3. CASE request[r].session \notin closed \cup expired
  <2>1. admission' = [admission EXCEPT ![request[r].session] = r]
    BY <1>1, <1>3, Zenon DEF AdmitCheck, SInv, SessionTypeOK
  <2>2. request[r].session \in owner BY <1>1, <1>3, Zenon
  <2>3. QED BY <1>1, <1>3, <2>1, <2>2, AdmitMutexStep, Zenon DEF AdmitCheck
<1>4. QED BY <1>2, <1>3, Zenon

\* admit registers its work while it still holds the mutex, so no closer is clearing.
LEMMA AdmitRegisterStep ==
    ASSUME SInv, NEW r \in Requests, AdmitRegister(r)
    PROVE  SInv'
<1> DEFINE s == request[r].session
           k == request[r].registry
<1>1. /\ request[r].pc = "register" /\ RequestInv(r)
      /\ s \in owner /\ s \in Sessions /\ k \in Registries /\ admission[s] = r
  BY Zenon DEF AdmitRegister, SInv, RequestInv, SessionTypeOK
<1>2. /\ work' \in {work, work \cup {<<s, k>>}}
      /\ admission' = [admission EXCEPT ![s] = Nobody]
      /\ request' = [request EXCEPT ![r] = NoRequest]
      /\ UNCHANGED <<owner, closed, cancelled, ptz, command, unstopped, active, expired, ended, creator, closer>>
  BY Zenon DEF AdmitRegister, ptzVars
<1>3. /\ request'[r] = NoRequest /\ \A q \in Requests : q # r => request'[q] = request[q]
      /\ \A x \in Sessions : x # s => admission'[x] = admission[x]
  BY <1>2, Zenon DEF SInv, SessionTypeOK
<1>4. SessionTypeOK'
  <2>1. work' \subseteq Sessions \X Registries BY <1>1, <1>2 DEF SInv, SessionTypeOK
  <2>2. admission' \in [Sessions -> Threads \cup Requests \cup {Nobody}] BY <1>2, Zenon DEF SInv, SessionTypeOK
  <2>3. request' \in [Requests -> [pc : {"idle", "lock", "check", "register"}, session : Sessions \cup {Nobody},
                                   registry : Registries \cup {Nobody}]]
    BY <1>2, Zenon DEF SInv, SessionTypeOK, NoRequest
  <2>4. cancelled' \subseteq work' \cap (Sessions \X Searches) BY <1>2, Zenon DEF SInv, SessionTypeOK
  <2>5. QED BY <2>1, <2>2, <2>3, <2>4, <1>2, Zenon DEF SInv, SessionTypeOK
<1>5. ASSUME NEW q \in Requests PROVE RequestInv(q)'
  <2>1. CASE q = r BY <2>1, <1>3 DEF RequestInv, NoRequest
  <2>2. CASE q # r
    <3>1. RequestInv(q) /\ request'[q] = request[q] BY <2>2, <1>3, ZenonT(60) DEF SInv
    <3>2. request[q].pc \in {"check", "register"} => request[q].session \in Sessions /\ request[q].session # s
      BY <3>1, <2>2, <1>1, Distinct, Zenon DEF RequestInv, SInv, SessionTypeOK
    <3>3. QED BY <3>1, <3>2, <1>2, <1>3, RequestFrame, Zenon
  <2>3. QED BY <2>1, <2>2, Zenon
<1>6. ASSUME NEW x \in Sessions, x # s PROVE Undisturbed(x)
  <2>1. \A j \in Registries : <<x, j>> \in work' => <<x, j>> \in work BY <1>2, <1>6
  <2>2. QED BY <2>1, <1>2, Zenon DEF Undisturbed, Cleared, CamerasReleased
<1>7. ASSUME NEW t \in Threads, closer[t].pc \in {"clean", "remove"}
      PROVE  closer[t].session \in Sessions /\ closer[t].session # s
  <2>1. CloserInv(t) BY Zenon DEF SInv
  <2>2. QED BY <2>1, <1>1, <1>7, Distinct DEF CloserInv, SInv, SessionTypeOK
<1>8. \A x \in closed \ owner : Undisturbed(x) BY <1>1, <1>6, Zenon DEF SInv, SessionTypeOK
<1>9. (\A t \in Threads : CloserInv(t)') /\ NothingSurvivesClose'
  BY <1>2, <1>3, <1>6, <1>7, <1>8, ClosersFrame, ZenonT(60)
<1>10. CommandInv' BY <1>2, CommandFrame, Zenon DEF SInv
<1>11. QED BY <1>4, <1>5, <1>9, <1>10, Zenon DEF SInv

-----------------------------------------------------------------------------
(* The other steps. *)

\* The steps that leave the records, the marks, the mutexes and the threads on them alone, and disturb
\* nothing that was released.
LEMMA QuietStep ==
    ASSUME SInv, SessionTypeOK', owner \subseteq owner', \A s \in Sessions : Undisturbed(s), CommandInv',
           UNCHANGED <<closed, admission, request, closer>>
    PROVE  SInv'
<1>1. ASSUME NEW r \in Requests PROVE RequestInv(r)'
  <2>1. RequestInv(r) BY Zenon DEF SInv
  <2>2. QED BY <2>1, RequestFrame, Zenon
<1>2. owner \subseteq Sessions /\ closed \subseteq Sessions BY Zenon DEF SInv, SessionTypeOK
<1>3. (\A t \in Threads : CloserInv(t)') /\ NothingSurvivesClose' BY <1>2, ClosersFrame, Zenon
<1>4. QED BY <1>1, <1>3, Zenon DEF SInv

\* Those of them that also leave the work and the cameras alone.
LEMMA IdleStep ==
    ASSUME SInv, SessionTypeOK', owner \subseteq owner',
           UNCHANGED <<closed, admission, work, cancelled, ptz, command, unstopped, request, closer>>
    PROVE  SInv'
<1>1. \A s : Undisturbed(s) BY WorkShrinks, Zenon
<1>2. CommandInv' BY CommandFrame, Zenon DEF SInv
<1>3. QED BY <1>1, <1>2, QuietStep, Zenon

\* A creator moves between its own states; the threads that close are not disturbed.
LEMMA CreatingStep ==
    ASSUME SInv, NEW s \in Sessions, Creating(s)
    PROVE  SInv'
<1>0. SessionTypeOK BY Zenon DEF SInv
<1> DEFINE C == [pc : {"idle", "accepted", "compare", "closing", "done"}, seen : SUBSET Sessions,
                 stale : SUBSET Sessions]
<1>a. creator[s] \in C /\ creator \in [Sessions -> C] BY <1>0, Zenon DEF SessionTypeOK
<1>1. CASE AcceptOffer(s)
  <2>1. SessionTypeOK' BY <1>0, <1>1, Zenon DEF AcceptOffer, SessionTypeOK, CreatorAt, ptzVars
  <2>2. QED BY <1>1, <2>1, IdleStep, Zenon DEF AcceptOffer, ptzVars
<1>2. CASE ReadActive(s)
  <2>1. SessionTypeOK' BY <1>0, <1>2, Zenon DEF ReadActive, SessionTypeOK, CreatorAt, ptzVars
  <2>2. QED BY <1>2, <2>1, IdleStep, Zenon DEF ReadActive, ptzVars
<1>3. CASE ListStale(s)
  <2>1. SessionTypeOK' BY <1>0, <1>3, ZenonT(60) DEF ListStale, SessionTypeOK, CreatorAt, ptzVars
  <2>2. QED BY <1>3, <2>1, IdleStep, Zenon DEF ListStale, ptzVars
<1>4. CASE RegisterSession(s)
  <2>1. IsFiniteSet(owner') /\ Cardinality(owner') <= MaxSessions /\ owner' \subseteq Sessions /\ owner \subseteq owner'
    <3>1. IsFiniteSet(owner) /\ Cardinality(owner) <= MaxSessions /\ owner \subseteq Sessions
      BY <1>0, Zenon DEF SessionTypeOK
    <3>2. CASE owner' = owner BY <3>1, <3>2, Zenon
    <3>3. CASE Cardinality(owner) < MaxSessions /\ owner' = owner \cup {s}
      <4>1. /\ IsFiniteSet(owner')
            /\ Cardinality(owner') = Cardinality(owner) \/ Cardinality(owner') = Cardinality(owner) + 1
        BY <3>1, <3>3, FS_AddElement, Zenon
      <4>2. Cardinality(owner) \in Nat BY <3>1, FS_CardinalityType, Zenon
      <4>3. Cardinality(owner') <= MaxSessions BY <4>1, <4>2, <3>3, SessionAssumption
      <4>4. QED BY <4>1, <4>3, <3>1, <3>3, Zenon
    <3>4. QED BY <3>2, <3>3, <1>4, Zenon DEF RegisterSession
  <2>2. creator' \in [Sessions -> C] BY <1>4, <1>a, Zenon DEF RegisterSession, CreatorAt
  <2>3. active' \subseteq Sessions BY <1>4, <1>0, Zenon DEF RegisterSession, SessionTypeOK
  <2>4. SessionTypeOK' BY <1>0, <1>4, <2>1, <2>2, <2>3, ZenonT(60) DEF RegisterSession, SessionTypeOK, ptzVars
  <2>5. QED BY <1>4, <2>1, <2>4, IdleStep, Zenon DEF RegisterSession, ptzVars
<1>5. CASE \E x \in Sessions : CloseStale(s, x)
  <2>1. PICK x \in Sessions : CloseStale(s, x) BY <1>5, Zenon
  <2>2. s \in Threads BY Zenon DEF Threads
  <2>3. creator' \in [Sessions -> C] BY <2>1, <1>a, ZenonT(40) DEF CloseStale, CreatorAt
  <2>4. /\ closer[s].pc = "idle" /\ StartClose(s, x)
        /\ UNCHANGED <<owner, admission, work, cancelled, ptz, command, unstopped, active, expired, ended, request>>
    BY <2>1, Zenon DEF CloseStale, ptzVars
  <2>5. QED BY <2>2, <2>3, <2>4, StartCloseStep, Zenon DEF SInv, SessionTypeOK
<1>6. QED BY <1>1, <1>2, <1>3, <1>4, <1>5, Zenon DEF Creating

-----------------------------------------------------------------------------
(* The movement of cameras. *)

\* A command takes the lock, or passes its check while no closer has come to the mark of its session.
LEMMA PtzAdmitStep ==
    ASSUME SInv, (\E s \in Sessions, c \in Cameras : PtzLock(s, c)) \/ PtzCheck
    PROVE  SInv'
<1>1. UNCHANGED <<owner, closed, admission, work, cancelled, ptz, unstopped,
                  active, expired, ended, creator, request, closer>>
  BY Zenon DEF PtzLock, PtzCheck
<1>2. \A s : Undisturbed(s) BY <1>1, WorkShrinks, Zenon
<1>3. /\ command' = NoCommand \/ command' \in [pc : {"check", "execute"}, session : Sessions, camera : Cameras]
      /\ command'.pc = "execute" => command'.session \in owner \ closed
  <2>1. CASE \E s \in Sessions, c \in Cameras : PtzLock(s, c)
    <3>1. PICK s \in Sessions, c \in Cameras : PtzLock(s, c) BY <2>1, Zenon
    <3>2. command' = [pc |-> "check", session |-> s, camera |-> c] BY <3>1, Zenon DEF PtzLock
    <3>3. QED BY <3>2
  <2>2. CASE PtzCheck
    <3>1. command \in [pc : {"check", "execute"}, session : Sessions, camera : Cameras]
      BY <2>2 DEF PtzCheck, SInv, SessionTypeOK, NoCommand
    <3>2. CASE command' = NoCommand BY <3>2 DEF NoCommand
    <3>3. CASE /\ command.session \in owner \ (closed \cup expired)
               /\ command' = [pc |-> "execute", session |-> command.session, camera |-> command.camera]
      BY <3>1, <3>3
    <3>4. QED BY <2>2, <3>2, <3>3, Zenon DEF PtzCheck
  <2>3. QED BY <2>1, <2>2, Zenon
<1>4. SessionTypeOK' BY <1>1, <1>3, Zenon DEF SInv, SessionTypeOK
<1>5. \A t \in Threads : closer[t].pc = "remove" => closer[t].session \in closed BY DEF SInv, CloserInv
<1>6. CommandInv' BY <1>1, <1>3, <1>5, Zenon DEF CommandInv
<1>7. QED BY <1>1, <1>2, <1>4, <1>6, QuietStep, Zenon

\* A command changes the owner of a camera for its own session only, whose cameras were not released
\* yet.
LEMMA PtzExecuteStep ==
    ASSUME SInv, PtzExecute
    PROVE  SInv'
<1> DEFINE s == command.session
           c == command.camera
<1>1. /\ command.pc = "execute" /\ command' = NoCommand
      /\ unstopped' = {d \in unstopped : ptz'[d] # Nobody}
      /\ UNCHANGED <<owner, closed, admission, work, cancelled, active, expired, ended, creator, request, closer>>
  BY Zenon DEF PtzExecute
<1>2. s \in Sessions /\ c \in Cameras /\ CommandInv /\ ptz \in [Cameras -> Sessions \cup {Nobody}]
  BY <1>1 DEF SInv, SessionTypeOK, NoCommand
<1>3. s \in owner /\ \A t \in Threads : closer[t].pc = "remove" => closer[t].session # s
  BY <1>1, <1>2, Zenon DEF CommandInv
<1>4. /\ ptz' \in [Cameras -> Sessions \cup {Nobody}]
      /\ \A x \in Sessions, d \in Cameras : x # s /\ ptz'[d] = x => ptz[d] = x
  <2>1. CASE ptz' = ptz BY <2>1, <1>2, Zenon
  <2>2. CASE \E o \in {s, Nobody} : ptz' = [ptz EXCEPT ![c] = o]
    <3>1. PICK o \in {s, Nobody} : ptz' = [ptz EXCEPT ![c] = o] BY <2>2, Zenon
    <3>2. \A x \in Sessions : x # s => x # o BY <3>1, Distinct, Zenon
    <3>3. QED BY <3>1, <3>2, <1>2, Zenon
  <2>3. QED BY <2>1, <2>2, Zenon DEF PtzExecute
<1>5. ASSUME NEW x \in Sessions, x # s PROVE Undisturbed(x)
  <2>1. ASSUME CamerasReleased(x), NEW d \in Cameras, ptz'[d] = x PROVE d \in unstopped'
    <3>1. d \in unstopped BY <2>1, <1>4, <1>5, Zenon DEF CamerasReleased
    <3>2. ptz'[d] # Nobody BY <2>1, Distinct, Zenon
    <3>3. QED BY <3>1, <3>2, <1>1, Zenon
  <2>2. QED BY <2>1, <1>1, Zenon DEF Undisturbed, Cleared, CamerasReleased
<1>6. SessionTypeOK'
  <2>1. unstopped' \subseteq Cameras BY <1>1, Zenon DEF SInv, SessionTypeOK
  <2>2. QED BY <2>1, <1>1, <1>4, Zenon DEF SInv, SessionTypeOK
<1>7. \A r \in Requests : RequestInv(r)' BY <1>1, Zenon DEF SInv, RequestInv
<1>8. ASSUME NEW t \in Threads PROVE CloserInv(t)'
  <2>1. CloserInv(t) BY Zenon DEF SInv
  <2>2. CASE closer[t].pc = "remove" /\ closer[t].session # s
    <3>1. closer[t].session \in owner /\ owner \subseteq Sessions BY <2>1, <2>2 DEF CloserInv, SInv, SessionTypeOK
    <3>2. QED BY <2>1, <2>2, <3>1, <1>1, <1>5, CloserFrame, Zenon
  <2>3. CASE closer[t].pc # "remove"
    <3>1. \A k \in Registries : Cleared(closer[t].session, k) <=> Cleared(closer[t].session, k)' BY <1>1, Zenon DEF Cleared
    <3>2. QED BY <2>1, <2>3, <3>1, <1>1 DEF CloserInv
  <2>4. QED BY <2>2, <2>3, <1>3, Zenon
<1>9. CommandInv' BY <1>1 DEF CommandInv, NoCommand
<1>10. NothingSurvivesClose' BY <1>1, <1>3, <1>5, SurvivesFrame, Zenon DEF SInv, SessionTypeOK
<1>11. QED BY <1>6, <1>7, <1>8, <1>9, <1>10, Zenon DEF SInv

\* The privacy policy takes a camera from its owner, which disturbs nothing that was released.
LEMMA PrivacyStep ==
    ASSUME SInv, NEW c \in Cameras, StopForPrivacy(c)
    PROVE  SInv'
<1>1. /\ command.pc = "idle" /\ ptz' = [ptz EXCEPT ![c] = Nobody] /\ unstopped' = unstopped \ {c}
      /\ UNCHANGED <<owner, closed, admission, work, cancelled, command, active, expired, ended, creator, request, closer>>
  BY Zenon DEF StopForPrivacy
<1>2. ptz \in [Cameras -> Sessions \cup {Nobody}] BY Zenon DEF SInv, SessionTypeOK
<1>3. SessionTypeOK'
  <2>1. ptz' \in [Cameras -> Sessions \cup {Nobody}] /\ unstopped' \subseteq Cameras
    BY <1>1, <1>2, Zenon DEF SInv, SessionTypeOK
  <2>2. QED BY <2>1, <1>1, Zenon DEF SInv, SessionTypeOK
<1>4. ASSUME NEW x \in Sessions PROVE Undisturbed(x)
  <2>1. ASSUME NEW d \in Cameras, ptz'[d] = x PROVE d # c /\ ptz[d] = x BY <2>1, <1>1, <1>2, Distinct, Zenon
  <2>2. QED BY <2>1, <1>1, Zenon DEF Undisturbed, Cleared, CamerasReleased
<1>5. CommandInv' BY <1>1 DEF CommandInv
<1>6. QED BY <1>1, <1>3, <1>4, <1>5, QuietStep, Zenon

-----------------------------------------------------------------------------
\* The directory starts empty.
LEMMA InitInv ==
    ASSUME SessionInit PROVE SInv
<1>1. IsFiniteSet(owner) /\ Cardinality(owner) = 0 BY FS_EmptySet, Zenon DEF SessionInit
<1>2. SessionTypeOK
  <2>1. CreatorAt("idle", {}, {}) \in [pc : {"idle", "accepted", "compare", "closing", "done"},
                                       seen : SUBSET Sessions, stale : SUBSET Sessions]
    BY Zenon DEF CreatorAt
  <2>2. NoRequest \in [pc : {"idle", "lock", "check", "register"},
                       session : Sessions \cup {Nobody}, registry : Registries \cup {Nobody}]
    BY Zenon DEF NoRequest
  <2>3. NoClose \in [pc : {"idle", "lock", "clean", "remove"}, session : Sessions \cup {Nobody},
                     left : SUBSET Registries]
    BY Zenon DEF NoClose
  <2>4. Cardinality(owner) <= MaxSessions
    BY <1>1, SessionAssumption
  <2> QED BY <1>1, <2>1, <2>2, <2>3, <2>4, ZenonT(60) DEF SessionInit, SessionTypeOK
<1>3. /\ \A r \in Requests : request[r].pc = "idle"
      /\ \A t \in Threads : closer[t].pc = "idle"
      /\ command.pc = "idle"
  BY DEF SessionInit, NoRequest, NoClose, NoCommand
<1>4. (\A r \in Requests : RequestInv(r)) /\ (\A t \in Threads : CloserInv(t)) /\ CommandInv
  BY <1>3 DEF RequestInv, CloserInv, CommandInv
<1>5. NothingSurvivesClose BY Zenon DEF SessionInit, NothingSurvivesClose
<1>6. QED BY <1>2, <1>4, <1>5, Zenon DEF SInv

\* Every step keeps the invariant.
LEMMA NextInv ==
    ASSUME SInv, [SessionNext]_sessionVars PROVE SInv'
<1>0. SessionTypeOK BY Zenon DEF SInv
<1>1. ASSUME NEW s \in Sessions, Creating(s) PROVE SInv' BY <1>1, CreatingStep, Zenon
<1>2. ASSUME NEW s \in Sessions, Expire(s) PROVE SInv'
  <2>1. SessionTypeOK' BY <1>0, <1>2, Zenon DEF Expire, SessionTypeOK, ptzVars
  <2>2. QED BY <1>2, <2>1, IdleStep, Zenon DEF Expire, ptzVars
<1>3. ASSUME NEW s \in Sessions, Deactivate(s) PROVE SInv'
  <2>1. SessionTypeOK' BY <1>0, <1>3, Zenon DEF Deactivate, SessionTypeOK, ptzVars
  <2>2. QED BY <1>3, <2>1, IdleStep, Zenon DEF Deactivate, ptzVars
<1>4. ASSUME NEW s \in Sessions, NEW k \in Registries, WorkDone(s, k) \/ CancelSearch(s, k) PROVE SInv'
  <2>1. /\ work' \subseteq work /\ cancelled' \subseteq work' \cap (Sessions \X Searches)
        /\ \A w \in work' : w \in cancelled => w \in cancelled'
    <3>1. cancelled \subseteq work \cap (Sessions \X Searches) BY <1>0, Zenon DEF SessionTypeOK
    <3>2. CASE WorkDone(s, k) BY <3>1, <3>2, Zenon DEF WorkDone
    <3>3. CASE CancelSearch(s, k) BY <3>1, <3>3 DEF CancelSearch
    <3>4. QED BY <1>4, <3>2, <3>3, Zenon
  <2>2. UNCHANGED <<owner, closed, admission, ptz, command, unstopped, active, expired, ended, creator, request, closer>>
    BY <1>4, Zenon DEF WorkDone, CancelSearch, ptzVars
  <2>3. SessionTypeOK'
    <3>1. work' \subseteq Sessions \X Registries BY <1>0, <2>1, Zenon DEF SessionTypeOK
    <3>2. QED BY <1>0, <2>1, <2>2, <3>1, Zenon DEF SessionTypeOK
  <2>4. \A x : Undisturbed(x) BY <2>1, <2>2, WorkShrinks, Zenon
  <2>5. CommandInv' BY <2>2, CommandFrame, Zenon DEF SInv
  <2>6. QED BY <2>2, <2>3, <2>4, <2>5, QuietStep, Zenon
<1>5. ASSUME NEW t \in Closers, NEW s \in Sessions, End(t, s) \/ Sweep(t, s) PROVE SInv'
  <2>1. t \in Threads BY ZenonT(60) DEF Threads
  <2>2. /\ closer[t].pc = "idle" /\ StartClose(t, s)
        /\ UNCHANGED <<owner, admission, work, cancelled, ptz, command, unstopped, active, expired, creator, request>>
    BY <1>5, Zenon DEF End, Sweep, ptzVars
  <2>3. ended' \subseteq Sessions BY <1>5, <1>0, ZenonT(60) DEF End, Sweep, SessionTypeOK
  <2>4. QED BY <2>1, <2>2, <2>3, StartCloseStep, Zenon DEF SInv, SessionTypeOK
<1>6. ASSUME NEW t \in Threads, Closing(t) PROVE SInv'
  BY <1>6, CloseLockedStep, CloseRegistryStep, CloseCamerasStep, CloseRemoveStep, Zenon DEF Closing
<1>7. ASSUME NEW r \in Requests, Admitting(r) PROVE SInv'
  BY <1>7, AdmitLookupStep, AdmitLockStep, AdmitCheckStep, AdmitRegisterStep, ZenonT(40) DEF Admitting
<1>8. ASSUME (\E s \in Sessions, c \in Cameras : PtzLock(s, c)) \/ PtzCheck \/ PtzExecute
                \/ \E c \in Cameras : StopForPrivacy(c)
      PROVE  SInv'
  BY <1>8, PtzAdmitStep, PtzExecuteStep, PrivacyStep, Zenon
<1>9. CASE UNCHANGED sessionVars
  <2>1. UNCHANGED <<owner, closed, admission, work, cancelled, ptz, command, unstopped, active, expired, ended, creator,
                    request, closer>>
    BY <1>9, Zenon DEF sessionVars, ptzVars
  <2>2. SessionTypeOK' BY <1>0, <2>1, Zenon DEF SessionTypeOK
  <2>3. QED BY <2>1, <2>2, IdleStep, Zenon
<1>10. QED BY <1>1, <1>2, <1>3, <1>4, <1>5, <1>6, <1>7, <1>8, <1>9, ZenonT(60) DEF SessionNext

\* The invariant holds in every behaviour of the directory.
LEMMA SessionInvariant == SessionSpec => []SInv
BY InitInv, NextInv, PTL DEF SessionSpec

\* The directory stays within its limit and every variable in its type, for any number of
\* concurrent requests.
THEOREM SessionTypes == SessionSpec => []SessionTypeOK
<1>1. SInv => SessionTypeOK BY Zenon DEF SInv
<1>2. QED BY <1>1, SessionInvariant, PTL

\* Of a session whose record was removed nothing is left but searches that were told to stop and
\* cameras that closing could not stop, whatever requests were being admitted and whatever PTZ commands
\* were on their way.
THEOREM SessionNothingSurvives == SessionSpec => []NothingSurvivesClose
<1>1. SInv => NothingSurvivesClose BY Zenon DEF SInv
<1>2. QED BY <1>1, SessionInvariant, PTL

\* close returns to each of its callers only after the record is gone and the session is released.
THEOREM SessionCloseReturns == SessionSpec => CloseReturnsClean
<1> DEFINE Returned(t, s) == closer[t].pc # "idle" /\ closer[t].session = s /\ closer'[t].pc = "idle" =>
               s \notin owner' /\ Released(s)'
<1>1. ASSUME SInv, [SessionNext]_sessionVars, NEW t \in Threads, NEW s \in Sessions PROVE Returned(t, s)
  <2>0. CloserInv(t) /\ SessionTypeOK BY <1>1, Zenon DEF SInv
  <2>1. SInv' BY <1>1, NextInv, Zenon
  <2>2. SUFFICES ASSUME closer[t].pc # "idle", closer[t].session = s, closer'[t].pc = "idle"
                 PROVE  s \in closed' \ owner'
    BY <2>1, <2>2, Zenon DEF SInv, NothingSurvivesClose
  <2>3. s \in closed BY <2>0, <2>2, Zenon DEF CloserInv
  <2>4. ASSUME NEW u \in Threads, Closing(u) PROVE s \in closed' \ owner'
    <3>1. CASE u # t
      BY <3>1, <2>0, <2>2, <2>4, Zenon DEF Closing, CloseLocked, CloseRegistry, CloseCameras, CloseRemove, SessionTypeOK
    <3>2. CASE u = t /\ CloseLocked(t)
      BY <3>2, <2>0, <2>2, <2>3 DEF CloseLocked, SessionTypeOK
    <3>3. CASE u = t /\ CloseRemove(t) BY <3>3, <2>2, <2>3, Zenon DEF CloseRemove
    <3>4. CASE u = t /\ (CloseCameras(t) \/ \E k \in Registries : CloseRegistry(t, k))
      BY <3>4, <2>0, <2>2 DEF CloseCameras, CloseRegistry, SessionTypeOK
    <3>5. QED BY <2>4, <3>1, <3>2, <3>3, <3>4, Zenon DEF Closing
  <2>5. ASSUME NEW u \in Threads, NEW x \in Sessions, closer[u].pc = "idle", StartClose(u, x) PROVE FALSE
    BY <2>5, <2>0, <2>2 DEF StartClose, SessionTypeOK
  <2>6. ASSUME closer' = closer PROVE FALSE BY <2>2, <2>6, Zenon
  <2>7. ASSUME NEW x \in Sessions, Creating(x) PROVE FALSE
    <3>1. CASE \E y \in Sessions : CloseStale(x, y)
      <4>1. x \in Threads BY Zenon DEF Threads
      <4>2. QED BY <4>1, <3>1, <2>5, Zenon DEF CloseStale
    <3>2. CASE AcceptOffer(x) \/ ReadActive(x) \/ ListStale(x) \/ RegisterSession(x)
      BY <3>2, <2>6, ZenonT(40) DEF AcceptOffer, ReadActive, ListStale, RegisterSession
    <3>3. QED BY <3>1, <3>2, <2>7, Zenon DEF Creating
  <2>8. ASSUME NEW u \in Closers, NEW x \in Sessions, End(u, x) \/ Sweep(u, x) PROVE FALSE
    <3>1. u \in Threads BY Zenon DEF Threads
    <3>2. QED BY <3>1, <2>8, <2>5, Zenon DEF End, Sweep
  <2>9. ASSUME NEW x \in Sessions, \/ Expire(x) \/ Deactivate(x)
                                    \/ \E k \in Registries : WorkDone(x, k) \/ CancelSearch(x, k)
        PROVE  FALSE
    BY <2>9, <2>6, Zenon DEF Expire, Deactivate, WorkDone, CancelSearch
  <2>10. ASSUME NEW r \in Requests, Admitting(r) PROVE FALSE
    BY <2>10, <2>6, Zenon DEF Admitting, AdmitLookup, AdmitLock, AdmitCheck, AdmitRegister
  <2>11. ASSUME (\E x \in Sessions, c \in Cameras : PtzLock(x, c)) \/ PtzCheck \/ PtzExecute
                   \/ \E c \in Cameras : StopForPrivacy(c)
         PROVE  FALSE
    BY <2>11, <2>6, Zenon DEF PtzLock, PtzCheck, PtzExecute, StopForPrivacy
  <2>12. ASSUME UNCHANGED sessionVars PROVE FALSE BY <2>12, <2>6, Zenon DEF sessionVars
  <2>13. QED BY <1>1, <2>4, <2>7, <2>8, <2>9, <2>10, <2>11, <2>12, ZenonT(60) DEF SessionNext
<1>2. SInv /\ [SessionNext]_sessionVars => [\A t \in Threads, s \in Sessions : Returned(t, s)]_sessionVars
  BY <1>1, Zenon
<1>3. QED BY <1>2, SessionInvariant, PTL DEF SessionSpec, CloseReturnsClean

-----------------------------------------------------------------------------
(* One operation at a time. *)

\* A step of one operation changes another at most by making its entries
\* durable.
OthersKept(o) ==
  \A p \in Ops \ {o} :
    /\ disk'[p] = disk[p] /\ saved'[p] \in {saved[p], disk[p]}
    /\ pc'[p] = pc[p] /\ catalog'[p] = catalog[p]

\* Synchronizing on behalf of one operation keeps the invariant of another.
LEMMA OtherInv ==
  ASSUME IInv, NEW o \in Ops, OthersKept(o), NEW p \in Ops, p # o
  PROVE  OpInv(p)'
<1>1. OpInv(p) BY Zenon DEF IInv
<1>2. /\ disk'[p] = disk[p] /\ saved'[p] \in {saved[p], disk[p]}
      /\ pc'[p] = pc[p] /\ catalog'[p] = catalog[p]
  BY Zenon DEF OthersKept
<1>3. FilesInv(disk'[p], catalog'[p]) BY <1>1, <1>2, Zenon DEF OpInv
<1>4. FilesInv(saved'[p], catalog'[p]) BY <1>1, <1>2, Zenon DEF OpInv
<1>5. StepInv(pc'[p], disk'[p], saved'[p], catalog'[p])
  <2>1. StepInv(pc[p], disk[p], saved[p], catalog[p]) BY <1>1, Zenon DEF OpInv
  <2>2. CASE saved'[p] = saved[p] BY <2>1, <2>2, <1>2, Zenon
  <2>3. CASE saved'[p] = disk[p]
    BY <2>1, <2>3, <1>2, ZenonT(40) DEF StepInv
  <2>4. QED BY <2>2, <2>3, <1>2, Zenon
<1>6. QED BY <1>3, <1>4, <1>5, Zenon DEF OpInv

\* Replacing a field keeps the shape of an operation's files.
LEMMA FieldUpdate ==
  ASSUME NEW f \in Files
  PROVE  /\ \A m \in {"key", "leaf", "gone"} : [f EXCEPT !.media = m] \in Files
         /\ \A b \in BOOLEAN : [f EXCEPT !.dir = b] \in Files
         /\ \A r \in Receipt : /\ [f EXCEPT !.intent = r] \in Files
                              /\ [f EXCEPT !.staged = r] \in Files
                              /\ [f EXCEPT !.ack = r] \in Files
                              /\ \A t \in Receipt : [f EXCEPT !.ack = r, !.staged = t] \in Files
BY Zenon DEF Files

\* The receipts' values, and the steps by name.
LEMMA Names ==
  /\ {"none", "torn", "written", "synced"} \subseteq Receipt
  /\ {"idle", "retired", "acknowledged", "sync_rename", "sync_unlink", "sync_ack",
      "sync_clear", "sync_rmdir", "sync_remove", "sync_intent", "sync_staged", "intent",
      "finish", "quarantined", "unlink", "ack", "clear", "rmdir", "remove_ack"} \subseteq Steps
BY Zenon DEF Receipt, Steps, Unlocked, Synced

\* A step that replaces the files of one operation.
LEMMA FilesStep ==
  ASSUME TypeOK, NEW o \in Ops, NEW f \in Files, NEW step \in Steps,
         disk' = [disk EXCEPT ![o] = f], saved' \in {disk, disk'}, Goto(o, step),
         faults' \in 0 .. MaxFaults, UNCHANGED <<catalog, outages>>
  PROVE  TypeOK' /\ OthersKept(o)
<1>1. TypeOK' BY Zenon DEF TypeOK, Goto
<1>2. OthersKept(o) BY Zenon DEF TypeOK, Goto, OthersKept
<1>3. QED BY <1>1, <1>2, Zenon

\* Every step of retire_owned keeps the invariant of its own operation.
LEMMA RetireKeeps ==
  ASSUME IInv, NEW o \in Ops, Retire(o)
  PROVE  TypeOK' /\ OthersKept(o) /\ OpInv(o)'
<1>1. TypeOK BY Zenon DEF IInv
<1>2. OpInv(o) BY Zenon DEF IInv
<1>3. CASE Prepare(o)
  <2>1. [disk[o] EXCEPT !.dir = TRUE] \in Files
    BY <1>1, FieldUpdate, Names, Zenon DEF TypeOK
  <2>2. TypeOK' /\ OthersKept(o)
    BY <1>1, <1>3, <2>1, FilesStep, Names, Zenon DEF TypeOK, Prepare, ThenSync
  <2>3. OpInv(o)'
    BY <1>1, <1>2, <1>3
    DEF TypeOK, Files, Receipt, OpInv, FilesInv, StepInv, Readable, IsCleared, Prepare, ThenSync, Goto
  <2>4. QED BY <2>1, <2>2, <2>3, Zenon
<1>4. CASE ReadIntent(o)
  <2>1. TypeOK'
    BY <1>1, <1>4, Names, Zenon DEF TypeOK, ReadIntent, Goto
  <2>2. OthersKept(o)
    BY <1>1, <1>4, Zenon DEF TypeOK, OthersKept, ReadIntent, Goto
  <2>3. OpInv(o)'
    BY <1>1, <1>2, <1>4, ZenonT(40)
    DEF TypeOK, Files, Receipt, OpInv, FilesInv, StepInv, Readable, IsCleared, ReadIntent, Goto
  <2>4. QED BY <2>1, <2>2, <2>3, Zenon
<1>5. CASE WriteIntent(o)
  <2>1. [disk[o] EXCEPT !.intent = "written"] \in Files
    BY <1>1, FieldUpdate, Names, Zenon DEF TypeOK
  <2>2. TypeOK' /\ OthersKept(o)
    BY <1>1, <1>5, <2>1, FilesStep, Names, Zenon DEF TypeOK, WriteIntent, SyncThen
  <2>3. OpInv(o)'
    BY <1>1, <1>2, <1>5
    DEF TypeOK, Files, Receipt, OpInv, FilesInv, StepInv, Readable, IsCleared, WriteIntent, SyncThen, CanIntend, Goto
  <2>4. QED BY <2>1, <2>2, <2>3, Zenon
<1>6. CASE Quarantine(o)
  <2>1. [disk[o] EXCEPT !.media = "leaf"] \in Files
    BY <1>1, FieldUpdate, Names, Zenon DEF TypeOK
  <2>2. TypeOK' /\ OthersKept(o)
    BY <1>1, <1>6, <2>1, FilesStep, Names, ZenonT(40) DEF TypeOK, Quarantine, SyncThen
  <2>3. OpInv(o)'
    BY <1>1, <1>2, <1>6, ZenonT(60)
    DEF TypeOK, Files, Receipt, OpInv, FilesInv, StepInv, Readable, IsCleared, Quarantine, SyncThen, CanQuarantine, Goto
  <2>4. QED BY <2>1, <2>2, <2>3, Zenon
<1>7. CASE Continue(o)
  <2>1. TypeOK'
    BY <1>1, <1>7, Names, Zenon DEF TypeOK, Continue, Goto
  <2>2. OthersKept(o)
    BY <1>1, <1>7, Zenon DEF TypeOK, OthersKept, Continue, Goto
  <2>3. OpInv(o)'
    BY <1>1, <1>2, <1>7, Zenon
    DEF TypeOK, Files, Receipt, OpInv, FilesInv, StepInv, Readable, IsCleared, Continue, CanContinue, Goto
  <2>4. QED BY <2>1, <2>2, <2>3, Zenon
<1>8. CASE AlreadyUnlinked(o)
  <2>1. TypeOK'
    BY <1>1, <1>8, Names, Zenon DEF TypeOK, AlreadyUnlinked, Goto
  <2>2. OthersKept(o)
    BY <1>1, <1>8, Zenon DEF TypeOK, OthersKept, AlreadyUnlinked, Goto
  <2>3. OpInv(o)'
    BY <1>1, <1>2, <1>8, Zenon
    DEF TypeOK, Files, Receipt, OpInv, FilesInv, StepInv, Readable, IsCleared, AlreadyUnlinked, CanSkip, Goto
  <2>4. QED BY <2>1, <2>2, <2>3, Zenon
<1>9. CASE WriteStaged(o)
  <2>1. [disk[o] EXCEPT !.staged = "written"] \in Files
    BY <1>1, FieldUpdate, Names, Zenon DEF TypeOK
  <2>2. TypeOK' /\ OthersKept(o)
    BY <1>1, <1>9, <2>1, FilesStep, Names, ZenonT(40) DEF TypeOK, WriteStaged, SyncThen
  <2>3. OpInv(o)'
    BY <1>1, <1>2, <1>9, ZenonT(60)
    DEF TypeOK, Files, Receipt, OpInv, FilesInv, StepInv, Readable, IsCleared, WriteStaged, SyncThen, Goto
  <2>4. QED BY <2>1, <2>2, <2>3, Zenon
<1>10. CASE StagedBefore(o)
  <2>1. TypeOK'
    BY <1>1, <1>10, Names, Zenon DEF TypeOK, StagedBefore, Goto
  <2>2. OthersKept(o)
    BY <1>1, <1>10, Zenon DEF TypeOK, OthersKept, StagedBefore, Goto
  <2>3. OpInv(o)'
    BY <1>1, <1>2, <1>10, ZenonT(60)
    DEF TypeOK, Files, Receipt, OpInv, FilesInv, StepInv, Readable, IsCleared, StagedBefore, Goto
  <2>4. QED BY <2>1, <2>2, <2>3, Zenon
<1>11. CASE Unlink(o)
  <2>1. [disk[o] EXCEPT !.media = "gone"] \in Files
    BY <1>1, FieldUpdate, Names, Zenon DEF TypeOK
  <2>2. TypeOK' /\ OthersKept(o)
    BY <1>1, <1>11, <2>1, FilesStep, Names, Zenon DEF TypeOK, Unlink, SyncThen
  <2>3. OpInv(o)'
    BY <1>1, <1>2, <1>11, SMTT(30)
    DEF TypeOK, Files, Receipt, OpInv, FilesInv, StepInv, Readable, IsCleared, Unlink, SyncThen, Goto
  <2>4. QED BY <2>1, <2>2, <2>3, Zenon
<1>12. CASE Complete(o)
  <2>1. TypeOK'
    BY <1>1, <1>12, Names, Zenon DEF TypeOK, Complete, Goto
  <2>2. OthersKept(o)
    BY <1>1, <1>12, Zenon DEF TypeOK, OthersKept, Complete, Goto
  <2>3. OpInv(o)'
    BY <1>1, <1>2, <1>12, Zenon
    DEF TypeOK, Files, Receipt, OpInv, FilesInv, StepInv, Readable, IsCleared, Complete, Goto
  <2>4. QED BY <2>1, <2>2, <2>3, Zenon
<1>13. QED BY <1>3, <1>4, <1>5, <1>6, <1>7, <1>8, <1>9, <1>10, <1>11, <1>12, Zenon DEF Retire

\* So does every step of acknowledge_retirement.
LEMMA AcknowledgeKeeps ==
  ASSUME IInv, NEW o \in Ops, AcknowledgeRetirement(o)
  PROVE  TypeOK' /\ OthersKept(o) /\ OpInv(o)'
<1>1. TypeOK BY Zenon DEF IInv
<1>2. OpInv(o) BY Zenon DEF IInv
<1>3. CASE Acknowledge(o)
  <2>1. TypeOK'
    BY <1>1, <1>3, Names, Zenon DEF TypeOK, Acknowledge, Goto
  <2>2. OthersKept(o)
    BY <1>1, <1>3, Zenon DEF TypeOK, OthersKept, Acknowledge, Goto
  <2>3. OpInv(o)'
    BY <1>1, <1>2, <1>3, Zenon
    DEF TypeOK, Files, Receipt, OpInv, FilesInv, StepInv, Readable, IsCleared, Acknowledge, Goto
  <2>4. QED BY <2>1, <2>2, <2>3, Zenon
<1>4. CASE NothingToClear(o)
  <2>1. TypeOK'
    BY <1>1, <1>4, Names, Zenon DEF TypeOK, NothingToClear, Goto
  <2>2. OthersKept(o)
    BY <1>1, <1>4, Zenon DEF TypeOK, OthersKept, NothingToClear, Goto
  <2>3. OpInv(o)'
    BY <1>1, <1>2, <1>4, Zenon
    DEF TypeOK, Files, Receipt, OpInv, FilesInv, StepInv, Readable, IsCleared, NothingToClear, Goto
  <2>4. QED BY <2>1, <2>2, <2>3, Zenon
<1>5. CASE MoveReceipt(o)
  <2>1. [disk[o] EXCEPT !.ack = disk[o].staged, !.staged = "none"] \in Files
    <3>1. disk[o] \in Files /\ disk[o].staged \in Receipt BY <1>1, Zenon DEF TypeOK, Files
    <3>2. QED BY <3>1, FieldUpdate, Names, Zenon
  <2>2. TypeOK' /\ OthersKept(o)
    BY <1>1, <1>5, <2>1, FilesStep, Names, Zenon DEF TypeOK, MoveReceipt, SyncThen
  <2>3. OpInv(o)'
    BY <1>1, <1>2, <1>5, ZenonT(60)
    DEF TypeOK, Files, Receipt, OpInv, FilesInv, StepInv, Readable, IsCleared, MoveReceipt, SyncThen, CanMoveReceipt, Goto
  <2>4. QED BY <2>1, <2>2, <2>3, Zenon
<1>6. CASE ReceiptMovedBefore(o)
  <2>1. TypeOK'
    BY <1>1, <1>6, Names, Zenon DEF TypeOK, ReceiptMovedBefore, Goto
  <2>2. OthersKept(o)
    BY <1>1, <1>6, Zenon DEF TypeOK, OthersKept, ReceiptMovedBefore, Goto
  <2>3. OpInv(o)'
    BY <1>1, <1>2, <1>6, Zenon
    DEF TypeOK, Files, Receipt, OpInv, FilesInv, StepInv, Readable, IsCleared, ReceiptMovedBefore, Goto
  <2>4. QED BY <2>1, <2>2, <2>3, Zenon
<1>7. CASE RemoveIntent(o)
  <2>1. [disk[o] EXCEPT !.intent = "none"] \in Files
    BY <1>1, FieldUpdate, Names, Zenon DEF TypeOK
  <2>2. TypeOK' /\ OthersKept(o)
    BY <1>1, <1>7, <2>1, FilesStep, Names, Zenon DEF TypeOK, RemoveIntent, SyncThen
  <2>3. OpInv(o)'
    BY <1>1, <1>2, <1>7, ZenonT(60)
    DEF TypeOK, Files, Receipt, OpInv, FilesInv, StepInv, Readable, IsCleared, RemoveIntent, SyncThen, CanClear, Goto
  <2>4. QED BY <2>1, <2>2, <2>3, Zenon
<1>8. CASE DirectoryGone(o)
  <2>1. TypeOK'
    BY <1>1, <1>8, Names, Zenon DEF TypeOK, DirectoryGone, Goto
  <2>2. OthersKept(o)
    BY <1>1, <1>8, Zenon DEF TypeOK, OthersKept, DirectoryGone, Goto
  <2>3. OpInv(o)'
    BY <1>1, <1>2, <1>8, Zenon
    DEF TypeOK, Files, Receipt, OpInv, FilesInv, StepInv, Readable, IsCleared, DirectoryGone, Goto
  <2>4. QED BY <2>1, <2>2, <2>3, Zenon
<1>9. CASE RemoveDirectory(o)
  <2>1. [disk[o] EXCEPT !.dir = FALSE] \in Files
    BY <1>1, FieldUpdate, Names, Zenon DEF TypeOK
  <2>2. TypeOK' /\ OthersKept(o)
    BY <1>1, <1>9, <2>1, FilesStep, Names, Zenon DEF TypeOK, RemoveDirectory, SyncThen
  <2>3. OpInv(o)'
    BY <1>1, <1>2, <1>9
    DEF TypeOK, Files, Receipt, OpInv, FilesInv, StepInv, Readable, IsCleared, RemoveDirectory, SyncThen, Goto
  <2>4. QED BY <2>1, <2>2, <2>3, Zenon
<1>10. CASE RemoveAck(o)
  <2>1. [disk[o] EXCEPT !.ack = "none"] \in Files
    BY <1>1, FieldUpdate, Names, Zenon DEF TypeOK
  <2>2. TypeOK' /\ OthersKept(o)
    BY <1>1, <1>10, <2>1, FilesStep, Names, ZenonT(40) DEF TypeOK, RemoveAck, SyncThen
  <2>3. OpInv(o)'
    BY <1>1, <1>2, <1>10, ZenonT(60)
    DEF TypeOK, Files, Receipt, OpInv, FilesInv, StepInv, Readable, IsCleared, RemoveAck, SyncThen, Goto
  <2>4. QED BY <2>1, <2>2, <2>3, Zenon
<1>11. CASE Close(o)
  <2>1. TypeOK'
    BY <1>1, <1>11, Names, Zenon DEF TypeOK, Close, Goto
  <2>2. OthersKept(o)
    BY <1>1, <1>11, Zenon DEF TypeOK, OthersKept, Close, Goto
  <2>3. OpInv(o)'
    BY <1>1, <1>2, <1>11, Zenon
    DEF TypeOK, Files, Receipt, OpInv, FilesInv, StepInv, Readable, IsCleared, Close, Goto
  <2>4. QED BY <2>1, <2>2, <2>3, Zenon
<1>12. QED BY <1>3, <1>4, <1>5, <1>6, <1>7, <1>8, <1>9, <1>10, <1>11, Zenon DEF AcknowledgeRetirement

\* And the remaining steps: synchronization, refusals and faults.
LEMMA RestKeeps ==
  ASSUME IInv, NEW o \in Ops, Sync(o) \/ SyncReceipt(o) \/ Refuse(o) \/ Fault(o) \/ Tear(o)
  PROVE  TypeOK' /\ OthersKept(o) /\ OpInv(o)'
<1>1. TypeOK BY Zenon DEF IInv
<1>2. OpInv(o) BY Zenon DEF IInv
<1>3. CASE Sync(o)
  <2>1. \/ pc[o] = "sync_rename" /\ Goto(o, "quarantined")
        \/ pc[o] = "sync_unlink" /\ Goto(o, "retired")
        \/ pc[o] = "sync_ack" /\ Goto(o, "clear")
        \/ pc[o] = "sync_clear" /\ Goto(o, "rmdir")
        \/ pc[o] = "sync_rmdir" /\ Goto(o, "remove_ack")
        \/ pc[o] = "sync_remove" /\ Goto(o, "acknowledged")
    BY <1>3, SMTT(60) DEF Sync, Synced
  <2>2. saved' = disk /\ UNCHANGED <<disk, catalog, faults, outages>>
    BY <1>3, Zenon DEF Sync
  <2>3. TypeOK'
    BY <1>1, <2>1, <2>2, Names, Zenon DEF TypeOK, Goto
  <2>4. OthersKept(o)
    BY <1>1, <2>1, <2>2, Zenon DEF TypeOK, OthersKept, Goto
  <2>5. OpInv(o)'
    <3>1. FilesInv(disk[o], catalog[o]) /\ StepInv(pc[o], disk[o], saved[o], catalog[o])
      BY <1>2, ZenonT(60) DEF OpInv
    <3>2. FilesInv(disk[o], catalog[o])' /\ FilesInv(saved[o], catalog[o])'
      BY <2>2, <3>1, Zenon
    <3>3. StepInv(pc'[o], disk[o], disk[o], catalog[o])
      <4>1. CASE pc[o] = "sync_rename" /\ Goto(o, "quarantined")
        <5>1. pc'[o] = "quarantined" BY <1>1, <4>1, Zenon DEF TypeOK, Goto
        <5>2. QED BY <3>1, <4>1, <5>1, Zenon DEF FilesInv, StepInv, Readable, IsCleared
      <4>2. CASE pc[o] = "sync_unlink" /\ Goto(o, "retired")
        <5>1. pc'[o] = "retired" BY <1>1, <4>2, Zenon DEF TypeOK, Goto
        <5>2. QED BY <3>1, <4>2, <5>1, Zenon DEF FilesInv, StepInv, Readable, IsCleared
      <4>3. CASE pc[o] = "sync_ack" /\ Goto(o, "clear")
        <5>1. pc'[o] = "clear" BY <1>1, <4>3, Zenon DEF TypeOK, Goto
        <5>2. QED BY <3>1, <4>3, <5>1, Zenon DEF FilesInv, StepInv, Readable, IsCleared
      <4>4. CASE pc[o] = "sync_clear" /\ Goto(o, "rmdir")
        <5>1. pc'[o] = "rmdir" BY <1>1, <4>4, Zenon DEF TypeOK, Goto
        <5>2. QED BY <3>1, <4>4, <5>1, Zenon DEF FilesInv, StepInv, Readable, IsCleared
      <4>5. CASE pc[o] = "sync_rmdir" /\ Goto(o, "remove_ack")
        <5>1. pc'[o] = "remove_ack" BY <1>1, <4>5, Zenon DEF TypeOK, Goto
        <5>2. QED BY <3>1, <4>5, <5>1, Zenon DEF FilesInv, StepInv, Readable, IsCleared
      <4>6. CASE pc[o] = "sync_remove" /\ Goto(o, "acknowledged")
        <5>1. pc'[o] = "acknowledged" BY <1>1, <4>6, Zenon DEF TypeOK, Goto
        <5>2. QED BY <3>1, <4>6, <5>1, Zenon DEF FilesInv, StepInv, Readable, IsCleared
      <4>7. QED BY <2>1, <4>1, <4>2, <4>3, <4>4, <4>5, <4>6, ZenonT(40)
    <3>4. QED BY <2>2, <3>2, <3>3, Zenon DEF OpInv
  <2>6. QED BY <2>3, <2>4, <2>5, ZenonT(60)
<1>4. CASE SyncReceipt(o)
  <2>1. /\ [disk[o] EXCEPT !.intent = "synced"] \in Files
        /\ [disk[o] EXCEPT !.staged = "synced"] \in Files
    BY <1>1, FieldUpdate, Names, Zenon DEF TypeOK
  <2>2. TypeOK' /\ OthersKept(o)
    BY <1>1, <1>4, <2>1, FilesStep, Names, ZenonT(60) DEF TypeOK, SyncReceipt, ThenSync
  <2>3. OpInv(o)'
    BY <1>1, <1>2, <1>4, SMTT(30)
    DEF TypeOK, Files, Receipt, OpInv, FilesInv, StepInv, Readable, IsCleared,
        SyncReceipt, ThenSync, Goto
  <2>4. QED BY <2>2, <2>3, Zenon
<1>5. CASE Refuse(o)
  <2>1. Goto(o, "idle") /\ UNCHANGED <<disk, saved, catalog, faults, outages>>
    BY <1>5, Zenon DEF Refuse
  <2>2. TypeOK'
    BY <1>1, <2>1, Names, Zenon DEF TypeOK, Goto
  <2>3. OthersKept(o)
    BY <1>1, <2>1, Zenon DEF TypeOK, OthersKept, Goto
  <2>4. OpInv(o)'
    BY <1>1, <1>2, <2>1, ZenonT(40) DEF TypeOK, OpInv, StepInv, Goto
  <2>5. QED BY <2>2, <2>3, <2>4, Zenon
<1>6. CASE Fault(o)
  <2>1. Goto(o, "idle") /\ UNCHANGED <<disk, saved, catalog, outages>>
    BY <1>6, Zenon DEF Fault
  <2>2. faults' \in 0 .. MaxFaults
    BY <1>1, <1>6, BoundsAssumption DEF TypeOK, Fault
  <2>3. TypeOK'
    BY <1>1, <2>1, <2>2, Names, Zenon DEF TypeOK, Goto
  <2>4. OthersKept(o)
    BY <1>1, <2>1, Zenon DEF TypeOK, OthersKept, Goto
  <2>5. OpInv(o)'
    BY <1>1, <1>2, <2>1, ZenonT(60) DEF TypeOK, OpInv, StepInv, Goto
  <2>6. QED BY <2>3, <2>4, <2>5, Zenon
<1>7. CASE Tear(o)
  <2>1. /\ [disk[o] EXCEPT !.intent = "torn"] \in Files
        /\ [disk[o] EXCEPT !.staged = "torn"] \in Files
    BY <1>1, FieldUpdate, Names, Zenon DEF TypeOK
  <2>2. faults' \in 0 .. MaxFaults
    BY <1>1, <1>7, BoundsAssumption DEF TypeOK, Tear
  <2>3. TypeOK' /\ OthersKept(o)
    BY <1>1, <1>7, <2>1, <2>2, FilesStep, Names, Zenon DEF Tear, SyncThen
  <2>4. OpInv(o)'
    BY <1>1, <1>2, <1>7, SMTT(30)
    DEF TypeOK, Files, Receipt, OpInv, FilesInv, StepInv, Readable, IsCleared,
        Tear, CanIntend, SyncThen, Goto
  <2>5. QED BY <2>3, <2>4, Zenon
<1>8. QED BY <1>3, <1>4, <1>5, <1>6, <1>7, Zenon

-----------------------------------------------------------------------------
(* Invariance. *)

\* A power failure keeps a receipt, or tears it; it neither makes nor removes
\* one, and it stops every caller.
LEMMA PowerFailureKeeps ==
  ASSUME IInv, PowerFailure
  PROVE  IInv'
<1>1. TypeOK BY Zenon DEF IInv
<1>2. PICK view \in {disk, saved} :
        disk' \in {d \in [Ops -> UNION {Survivors(view[o]) : o \in Ops}] :
                     \A o \in Ops : d[o] \in Survivors(view[o])}
  BY Zenon DEF PowerFailure
<1>3. view \in [Ops -> Files] BY <1>1, <1>2, Zenon DEF TypeOK
<1>4. ASSUME NEW o \in Ops
      PROVE  /\ disk'[o] \in Files
             /\ disk'[o].media = view[o].media /\ disk'[o].dir = view[o].dir
             /\ disk'[o].intent = "none" <=> view[o].intent = "none"
             /\ disk'[o].staged = "none" <=> view[o].staged = "none"
             /\ disk'[o].ack = "none" <=> view[o].ack = "none"
  <2>1. disk'[o] \in Survivors(view[o]) BY <1>2, Zenon
  <2>2. view[o] \in Files BY <1>3, Zenon
  <2>3. QED BY <2>1, <2>2, Zenon DEF Survivors, Kept, Files, Receipt
<1>5. TypeOK'
  <2>1. disk' \in [Ops -> Files] BY <1>2, <1>4, Zenon
  <2>2. saved' = disk' /\ UNCHANGED <<catalog, faults>> BY Zenon DEF PowerFailure
  <2>3. pc' \in [Ops -> Steps] BY Names, Zenon DEF PowerFailure
  <2>4. outages' \in 0 .. MaxPowerFailures
    BY <1>1, BoundsAssumption, SMTT(30) DEF PowerFailure, TypeOK
  <2>5. QED BY <1>1, <2>1, <2>2, <2>3, <2>4, Zenon DEF TypeOK
<1>6. ASSUME NEW o \in Ops PROVE OpInv(o)'
  <2>1. FilesInv(view[o], catalog[o]) BY <1>2, Zenon DEF IInv, OpInv
  <2>2. FilesInv(disk'[o], catalog[o]) BY <1>4, <2>1, Zenon DEF FilesInv, IsCleared
  <2>3. saved' = disk' /\ catalog' = catalog /\ pc'[o] = "idle" BY Zenon DEF PowerFailure
  <2>4. StepInv("idle", disk'[o], saved'[o], catalog[o]) BY Zenon DEF StepInv
  <2>5. QED BY <2>2, <2>3, <2>4, Zenon DEF OpInv
<1>7. QED BY <1>5, <1>6, Zenon DEF IInv

\* A step of one operation keeps the invariant of all.
LEMMA StepKeeps ==
  ASSUME IInv, NEW o \in Ops, Step(o) \/ Fault(o) \/ Tear(o)
  PROVE  IInv'
<1>1. TypeOK' /\ OthersKept(o) /\ OpInv(o)'
  BY RetireKeeps, AcknowledgeKeeps, RestKeeps, Zenon DEF Step
<1>2. ASSUME NEW p \in Ops PROVE OpInv(p)'
  BY <1>1, OtherInv, Zenon
<1>3. QED BY <1>1, <1>2, Zenon DEF IInv

\* The inductive invariant: what is on disk, now and after a power failure,
\* agrees with the journal row and with the step the caller is at.
THEOREM Invariance == Spec => []IInv
<1>1. Init => IInv
  <2>1. SUFFICES ASSUME Init PROVE IInv BY Zenon
  <2>2. Untouched \in Files BY Zenon DEF Untouched, Files, Receipt
  <2>3. TypeOK BY <2>1, <2>2, Names, BoundsAssumption, SMTT(30) DEF Init, TypeOK
  <2>4. ASSUME NEW o \in Ops PROVE OpInv(o)
    BY <2>1, Zenon DEF Init, OpInv, FilesInv, StepInv, Untouched
  <2>5. QED BY <2>3, <2>4, Zenon DEF IInv
<1>2. IInv /\ [Next]_vars => IInv'
  <2>1. SUFFICES ASSUME IInv, [Next]_vars PROVE IInv' BY Zenon
  <2>2. CASE PowerFailure BY <2>1, <2>2, PowerFailureKeeps, Zenon
  <2>3. CASE \E o \in Ops : Step(o) \/ Fault(o) \/ Tear(o) BY <2>1, <2>3, StepKeeps, Zenon
  <2>4. CASE UNCHANGED vars
    BY <2>1, <2>4, Zenon DEF IInv, TypeOK, OpInv, vars
  <2>5. QED BY <2>1, <2>2, <2>3, <2>4, Zenon DEF Next
<1>3. QED BY <1>1, <1>2, PTL DEF Spec

\* Values keep their shape.
THEOREM TypeCorrect == Spec => []TypeOK
<1>1. IInv => TypeOK BY Zenon DEF IInv
<1>2. QED BY <1>1, Invariance, PTL

\* The steps of finish: no file disappears without its staged receipt.
THEOREM AbsenceExplained == Spec => []AbsenceIsExplained
<1>1. IInv => AbsenceIsExplained
  BY Zenon DEF IInv, OpInv, FilesInv, AbsenceIsExplained, Views
<1>2. QED BY <1>1, Invariance, PTL

\* The steps of prepare: no file is in the quarantine without its intent.
THEOREM QuarantineOwned == Spec => []QuarantineIsOwned
<1>1. IInv => QuarantineIsOwned
  <2>1. SUFFICES ASSUME IInv, NEW o \in Ops, NEW f \in Views(o), f.media = "leaf"
                 PROVE  f.dir /\ f.intent # "none" /\ catalog[o] = "open"
    BY Zenon DEF QuarantineIsOwned
  <2>2. FilesInv(f, catalog[o]) BY <2>1, Zenon DEF IInv, OpInv, Views
  <2>3. catalog[o] \in {"open", "complete", "closed"} BY <2>1, Zenon DEF IInv, TypeOK
  <2>4. QED BY <2>1, <2>2, <2>3, Zenon DEF FilesInv, IsCleared
<1>2. QED BY <1>1, Invariance, PTL

\* The steps of acknowledge_retirement: it can be resumed wherever it stops.
THEOREM CleanupResumes == Spec => []CleanupHasProof
<1>1. IInv => CleanupHasProof
  BY ZenonT(40) DEF IInv, OpInv, FilesInv, CleanupHasProof, Views
<1>2. QED BY <1>1, Invariance, PTL

\* The steps of finish_ack: a closed operation has left nothing behind.
THEOREM ClosedIsClean == Spec => []NothingLeftBehind
<1>1. IInv => NothingLeftBehind
  BY Zenon DEF IInv, OpInv, FilesInv, NothingLeftBehind, Views
<1>2. QED BY <1>1, Invariance, PTL
-----------------------------------------------------------------------------
(* The bound of the quarantine. *)

Directories(view) == {o \in Ops : view[o].dir}

\* Both views stay within the limit.
BoundInv ==
  /\ Cardinality(Directories(disk)) <= MaxReceipts
  /\ Cardinality(Directories(saved)) <= MaxReceipts

\* Fewer directories stay within the limit.
LEMMA Fewer ==
  ASSUME NEW S, NEW T, T \subseteq Ops, S \subseteq T, Cardinality(T) <= MaxReceipts
  PROVE  Cardinality(S) <= MaxReceipts
<1>1. IsFiniteSet(T) BY BoundsAssumption, FS_Subset, Zenon
<1>2. Cardinality(S) <= Cardinality(T) /\ IsFiniteSet(S) BY <1>1, FS_Subset, Zenon
<1>3. Cardinality(S) \in Nat /\ Cardinality(T) \in Nat BY <1>1, <1>2, FS_CardinalityType, Zenon
<1>4. QED BY <1>2, <1>3, BoundsAssumption

\* Only prepare makes a directory, and it has room for it.
LEMMA PrepareBound ==
  ASSUME IInv, BoundInv, NEW o \in Ops, Prepare(o)
  PROVE  BoundInv'
<1>1. disk \in [Ops -> Files] BY Zenon DEF IInv, TypeOK
<1>2. Directories(disk') = Directories(disk) \union {o}
  BY <1>1, Zenon DEF Directories, Prepare, ThenSync, Files
<1>3. IsFiniteSet(Directories(disk)) BY BoundsAssumption, FS_Subset, Zenon DEF Directories
<1>4. Cardinality(Directories(disk)) \in Nat BY <1>3, FS_CardinalityType, Zenon
<1>5. Cardinality(Directories(disk')) <= MaxReceipts
  <2>1. CASE disk[o].dir
    <3>1. Directories(disk') = Directories(disk) BY <1>2, <2>1, Zenon DEF Directories
    <3>2. QED BY <3>1, Zenon DEF BoundInv
  <2>2. CASE ~disk[o].dir
    <3>1. o \notin Directories(disk) BY <2>2, Zenon DEF Directories
    <3>2. Cardinality(Directories(disk')) = Cardinality(Directories(disk)) + 1
      BY <1>2, <1>3, <3>1, FS_AddElement, Zenon
    <3>3. Cardinality(Directories(disk)) < MaxReceipts
      BY <2>2, Zenon DEF Prepare, HasRoom, Directories
    <3>4. QED BY <1>4, <3>2, <3>3, BoundsAssumption
  <2>3. QED BY <2>1, <2>2, Zenon
<1>6. saved' = disk' BY Zenon DEF Prepare, ThenSync
<1>7. QED BY <1>5, <1>6, Zenon DEF BoundInv

\* Every other step of an operation leaves or removes directories.
LEMMA OtherDirectories ==
  ASSUME IInv, NEW o \in Ops, Step(o) \/ Fault(o) \/ Tear(o), ~Prepare(o)
  PROVE  /\ Directories(disk') \subseteq Directories(disk)
         /\ saved' \in {saved, disk, disk'}
<1>1. disk \in [Ops -> Files] BY Zenon DEF IInv, TypeOK
<1>2. saved' \in {saved, disk, disk'}
  BY Zenon DEF Step, Retire, AcknowledgeRetirement, ReadIntent, WriteIntent, Quarantine,
     Continue, AlreadyUnlinked, WriteStaged, StagedBefore, Unlink, Complete, Acknowledge,
     NothingToClear, MoveReceipt, ReceiptMovedBefore, RemoveIntent, DirectoryGone,
     RemoveDirectory, RemoveAck, Close, Sync, SyncReceipt, Refuse, Fault, Tear,
     SyncThen, ThenSync
<1>3. \A p \in Ops : disk'[p].dir => disk[p].dir
  <2>1. CASE UNCHANGED disk BY <2>1, Zenon
  <2>2. CASE ReadIntent(o) \/ Continue(o) \/ AlreadyUnlinked(o) \/ StagedBefore(o) \/ Complete(o)
    BY <2>1, <2>2, Zenon DEF ReadIntent, Continue, AlreadyUnlinked, StagedBefore, Complete
  <2>3. CASE WriteIntent(o) BY <1>1, <2>3, Zenon DEF WriteIntent, SyncThen, Files
  <2>4. CASE Quarantine(o) BY <1>1, <2>4, Zenon DEF Quarantine, SyncThen, Files
  <2>5. CASE WriteStaged(o) BY <1>1, <2>5, Zenon DEF WriteStaged, SyncThen, Files
  <2>6. CASE Unlink(o) BY <1>1, <2>6, Zenon DEF Unlink, SyncThen, Files
  <2>7. CASE Acknowledge(o) \/ NothingToClear(o) \/ ReceiptMovedBefore(o) \/ DirectoryGone(o) \/ Close(o)
    BY <2>1, <2>7, Zenon DEF Acknowledge, NothingToClear, ReceiptMovedBefore, DirectoryGone, Close
  <2>8. CASE MoveReceipt(o) BY <1>1, <2>8, Zenon DEF MoveReceipt, SyncThen, Files
  <2>9. CASE RemoveIntent(o) BY <1>1, <2>9, Zenon DEF RemoveIntent, SyncThen, Files
  <2>10. CASE RemoveDirectory(o) BY <1>1, <2>10, Zenon DEF RemoveDirectory, SyncThen, Files
  <2>11. CASE RemoveAck(o) BY <1>1, <2>11, Zenon DEF RemoveAck, SyncThen, Files
  <2>12. CASE Sync(o) \/ Refuse(o) \/ Fault(o) BY <2>1, <2>12, Zenon DEF Sync, Refuse, Fault
  <2>13. CASE SyncReceipt(o) BY <1>1, <2>13, ZenonT(60) DEF SyncReceipt, ThenSync, Files
  <2>14. CASE Tear(o) BY <1>1, <2>14, ZenonT(60) DEF Tear, SyncThen, Files
  <2>15. QED
    BY <2>2, <2>3, <2>4, <2>5, <2>6, <2>7, <2>8, <2>9, <2>10, <2>11, <2>12, <2>13, <2>14,
       ZenonT(60) DEF Step, Retire, AcknowledgeRetirement
<1>4. QED BY <1>2, <1>3, Zenon DEF Directories

\* bounded_directory: the quarantine never holds more than MAX_RECEIPTS
\* operations, across faults and power failures.
THEOREM QuarantineStaysBounded == Spec => []QuarantineBounded
<1>1. Init => BoundInv
  <2>1. SUFFICES ASSUME Init PROVE BoundInv BY Zenon
  <2>2. Directories(disk) = {} /\ Directories(saved) = {}
    BY <2>1, Zenon DEF Init, Directories, Untouched
  <2>3. QED BY <2>2, FS_EmptySet, BoundsAssumption, SMTT(30) DEF BoundInv
<1>2. IInv /\ BoundInv /\ [Next]_vars => BoundInv'
  <2>1. SUFFICES ASSUME IInv, BoundInv, [Next]_vars PROVE BoundInv' BY Zenon
  <2>2. CASE PowerFailure
    <3>1. PICK view \in {disk, saved} :
            disk' \in {d \in [Ops -> UNION {Survivors(view[o]) : o \in Ops}] :
                         \A o \in Ops : d[o] \in Survivors(view[o])}
      BY <2>2, Zenon DEF PowerFailure
    <3>2. ASSUME NEW o \in Ops PROVE disk'[o].dir = view[o].dir
      BY <3>1, Zenon DEF Survivors
    <3>3. Directories(disk') = Directories(view) BY <3>2, Zenon DEF Directories
    <3>4. saved' = disk' BY <2>2, Zenon DEF PowerFailure
    <3>5. QED BY <2>1, <3>1, <3>3, <3>4, Zenon DEF BoundInv
  <2>3. ASSUME NEW o \in Ops, Step(o) \/ Fault(o) \/ Tear(o) PROVE BoundInv'
    <3>1. CASE Prepare(o) BY <2>1, <3>1, PrepareBound, Zenon
    <3>2. CASE ~Prepare(o)
      <4>1. /\ Directories(disk') \subseteq Directories(disk)
            /\ saved' \in {saved, disk, disk'}
        BY <2>1, <2>3, <3>2, OtherDirectories, Zenon
      <4>2. Directories(disk) \subseteq Ops BY Zenon DEF Directories
      <4>3. Cardinality(Directories(disk')) <= MaxReceipts
        BY <2>1, <4>1, <4>2, Fewer, Zenon DEF BoundInv
      <4>4. QED BY <2>1, <4>1, <4>3, Zenon DEF BoundInv
    <3>3. QED BY <3>1, <3>2, Zenon
  <2>4. CASE UNCHANGED vars BY <2>1, <2>4, Zenon DEF BoundInv, Directories, vars
  <2>5. QED BY <2>1, <2>2, <2>3, <2>4, Zenon DEF Next
<1>3. BoundInv => QuarantineBounded BY Zenon DEF BoundInv, QuarantineBounded, Directories
<1>4. QED BY <1>1, <1>2, <1>3, Invariance, PTL DEF Spec

-----------------------------------------------------------------------------
(* RootRetirement implements OwnedRemoval as long as the power stays on. *)

\* What OwnedRemoval sees of an operation does not change.
Same(o) ==
  /\ disk'[o].media = "key" <=> disk[o].media = "key"
  /\ Proof(disk'[o]) = Proof(disk[o])
  /\ catalog'[o] = "open" <=> catalog[o] = "open"

\* A step of one operation that does not show is a stuttering step.
LEMMA Stutter ==
  ASSUME NEW o \in Ops, OthersKept(o), Same(o)
  PROVE  UNCHANGED Removal!vars
<1>1. ASSUME NEW p \in Ops PROVE Same(p)
  BY Zenon DEF OthersKept, Same
<1>2. {p \in Ops : disk'[p].media = "key"} = {p \in Ops : disk[p].media = "key"}
  BY <1>1, Zenon DEF Same
<1>3. [p \in Ops |-> Proof(disk'[p])] = [p \in Ops |-> Proof(disk[p])]
  BY <1>1, Zenon DEF Same
<1>4. {p \in Ops : catalog'[p] # "open"} = {p \in Ops : catalog[p] # "open"}
  BY <1>1, Zenon DEF Same
<1>5. QED BY <1>2, <1>3, <1>4, Zenon DEF Removal!vars

\* The rename into the quarantine is the removal.
LEMMA QuarantineRemoves ==
  ASSUME IInv, NEW o \in Ops, Quarantine(o)
  PROVE  Removal!Remove(o)
<1>1. TypeOK /\ OpInv(o) BY Zenon DEF IInv
<1>2. OthersKept(o) BY RetireKeeps, Zenon DEF Retire
<1>3. /\ disk[o].media = "key" /\ disk'[o].media = "leaf"
      /\ Proof(disk[o]) = "none" /\ Proof(disk'[o]) = "moved"
  BY <1>1, ZenonT(60) DEF TypeOK, Files, OpInv, StepInv, FilesInv, Quarantine, CanQuarantine, SyncThen,
     Proof, Readable
<1>4. {p \in Ops : disk'[p].media = "key"} = {p \in Ops : disk[p].media = "key"} \ {o}
  BY <1>2, <1>3, Zenon DEF OthersKept
<1>5. [p \in Ops |-> Proof(disk'[p])] =
        [[p \in Ops |-> Proof(disk[p])] EXCEPT ![o] = "moved"]
  BY <1>2, <1>3, Zenon DEF OthersKept
<1>6. catalog' = catalog BY Zenon DEF Quarantine
<1>7. QED BY <1>3, <1>4, <1>5, <1>6, Zenon DEF Removal!Remove
\* Writing the staged receipt records it.
LEMMA WriteStagedStages ==
  ASSUME IInv, NEW o \in Ops, WriteStaged(o)
  PROVE  Removal!Stage(o)
<1>1. TypeOK /\ OpInv(o) BY Zenon DEF IInv
<1>2. OthersKept(o) BY RetireKeeps, Zenon DEF Retire
<1>3. /\ disk'[o].media = disk[o].media
      /\ Proof(disk[o]) = "moved" /\ Proof(disk'[o]) = "staged"
  BY <1>1, ZenonT(60) DEF TypeOK, Files, OpInv, StepInv, FilesInv, WriteStaged, SyncThen, Proof, Readable
<1>4. {p \in Ops : disk'[p].media = "key"} = {p \in Ops : disk[p].media = "key"}
  BY <1>2, <1>3, Zenon DEF OthersKept
<1>5. [p \in Ops |-> Proof(disk'[p])] =
        [[p \in Ops |-> Proof(disk[p])] EXCEPT ![o] = "staged"]
  BY <1>2, <1>3, Zenon DEF OthersKept
<1>6. catalog' = catalog BY Zenon DEF WriteStaged
<1>7. QED BY <1>3, <1>4, <1>5, <1>6, Zenon DEF Removal!Stage

\* The catalog completes an operation whose receipt can be read.
LEMMA CompleteCompletes ==
  ASSUME IInv, NEW o \in Ops, Complete(o)
  PROVE  Removal!Complete(o)
<1>1. TypeOK /\ OpInv(o) BY Zenon DEF IInv
<1>2. Proof(disk[o]) = "staged" /\ catalog[o] = "open"
  BY <1>1, Zenon DEF OpInv, StepInv, Complete, Proof
<1>3. disk' = disk /\ catalog' = [catalog EXCEPT ![o] = "complete"] BY Zenon DEF Complete
<1>4. {p \in Ops : catalog'[p] # "open"} = {p \in Ops : catalog[p] # "open"} \union {o}
  BY <1>1, <1>3, Zenon DEF TypeOK
<1>5. QED BY <1>2, <1>3, <1>4, Zenon DEF Removal!Complete

\* Removing the .ack clears it.
LEMMA RemoveAckClears ==
  ASSUME IInv, NEW o \in Ops, RemoveAck(o)
  PROVE  Removal!Clear(o)
<1>1. TypeOK /\ OpInv(o) BY Zenon DEF IInv
<1>2. OthersKept(o) BY AcknowledgeKeeps, Zenon DEF AcknowledgeRetirement
<1>3. /\ disk'[o].media = disk[o].media /\ catalog[o] = "complete"
      /\ Proof(disk[o]) = "staged" /\ Proof(disk'[o]) = "none"
  BY <1>1, SMTT(30) DEF TypeOK, Files, OpInv, StepInv, FilesInv, RemoveAck, SyncThen, Proof, Readable
<1>4. {p \in Ops : disk'[p].media = "key"} = {p \in Ops : disk[p].media = "key"}
  BY <1>2, <1>3, Zenon DEF OthersKept
<1>5. [p \in Ops |-> Proof(disk'[p])] =
        [[p \in Ops |-> Proof(disk[p])] EXCEPT ![o] = "none"]
  BY <1>2, <1>3, Zenon DEF OthersKept
<1>6. catalog' = catalog BY Zenon DEF RemoveAck
<1>7. QED BY <1>3, <1>4, <1>5, <1>6, Zenon DEF Removal!Clear

\* The other steps of retire_owned do not show.
LEMMA RetireSame ==
  ASSUME IInv, NEW o \in Ops, Retire(o), ~Quarantine(o), ~WriteStaged(o), ~Complete(o)
  PROVE  Same(o)
<1>1. TypeOK /\ OpInv(o) BY Zenon DEF IInv
<1>2. CASE UNCHANGED <<disk, catalog>> BY <1>2, Zenon DEF Same
<1>3. CASE Prepare(o)
  BY <1>1, <1>3, SMTT(30) DEF TypeOK, Files, OpInv, StepInv, FilesInv, Same, Proof, Readable,
     Prepare, ThenSync
<1>4. CASE WriteIntent(o)
  BY <1>1, <1>4, SMTT(30) DEF TypeOK, Files, OpInv, StepInv, FilesInv, Same, Proof, Readable,
     WriteIntent, SyncThen
<1>5. CASE Unlink(o)
  BY <1>1, <1>5 DEF TypeOK, Files, OpInv, StepInv, FilesInv, Same, Proof, Readable,
     Unlink, SyncThen
<1>6. CASE ReadIntent(o) \/ Continue(o) \/ AlreadyUnlinked(o) \/ StagedBefore(o)
  BY <1>2, <1>6, Zenon DEF ReadIntent, Continue, AlreadyUnlinked, StagedBefore
<1>7. QED BY <1>3, <1>4, <1>5, <1>6, Zenon DEF Retire

\* Nor do those of acknowledge_retirement.
LEMMA AcknowledgeSame ==
  ASSUME IInv, NEW o \in Ops, AcknowledgeRetirement(o), ~RemoveAck(o)
  PROVE  Same(o)
<1>1. TypeOK /\ OpInv(o) BY Zenon DEF IInv
<1>2. CASE UNCHANGED <<disk, catalog>> BY <1>2, Zenon DEF Same
<1>3. CASE MoveReceipt(o)
  BY <1>1, <1>3 DEF TypeOK, Files, OpInv, StepInv, FilesInv, Same, Proof, Readable,
     MoveReceipt, CanMoveReceipt, SyncThen
<1>4. CASE RemoveIntent(o)
  BY <1>1, <1>4, SMTT(30) DEF TypeOK, Files, OpInv, StepInv, FilesInv, Same, Proof, Readable,
     RemoveIntent, SyncThen
<1>5. CASE RemoveDirectory(o)
  BY <1>1, <1>5, SMTT(30) DEF TypeOK, Files, OpInv, StepInv, FilesInv, Same, Proof, Readable,
     RemoveDirectory, SyncThen
<1>6. CASE Close(o)
  BY <1>1, <1>6, Zenon DEF TypeOK, Files, OpInv, StepInv, FilesInv, Same, Proof, Readable,
     Close
<1>7. CASE Acknowledge(o) \/ NothingToClear(o) \/ ReceiptMovedBefore(o) \/ DirectoryGone(o)
  BY <1>2, <1>7, Zenon DEF Acknowledge, NothingToClear, ReceiptMovedBefore, DirectoryGone
<1>8. QED BY <1>3, <1>4, <1>5, <1>6, <1>7, Zenon DEF AcknowledgeRetirement

\* Nor do synchronization, refusals and faults.
LEMMA RestSame ==
  ASSUME IInv, NEW o \in Ops, Sync(o) \/ SyncReceipt(o) \/ Refuse(o) \/ Fault(o) \/ Tear(o)
  PROVE  Same(o)
<1>1. TypeOK /\ OpInv(o) BY Zenon DEF IInv
<1>2. CASE UNCHANGED <<disk, catalog>> BY <1>2, Zenon DEF Same
<1>3. CASE SyncReceipt(o)
  BY <1>1, <1>3, SMTT(30) DEF TypeOK, Files, OpInv, StepInv, FilesInv, Same, Proof, Readable,
     SyncReceipt, ThenSync
<1>4. CASE Tear(o)
  BY <1>1, <1>4 DEF TypeOK, Files, OpInv, StepInv, FilesInv, Same, Proof, Readable,
     Tear, CanIntend, SyncThen
<1>5. CASE Sync(o) \/ Refuse(o) \/ Fault(o)
  BY <1>2, <1>5, Zenon DEF Sync, Refuse, Fault
<1>6. QED BY <1>3, <1>4, <1>5, Zenon

\* Initially no file has been removed.
LEMMA InitImplements == Init => Removal!Init
<1>1. SUFFICES ASSUME Init PROVE Removal!Init BY Zenon
<1>2. \A o \in Ops : /\ disk[o].media = "key" /\ Proof(disk[o]) = "none"
                     /\ catalog[o] = "open"
  BY <1>1, Zenon DEF Init, Untouched, Proof, Readable
<1>3. QED BY <1>2, Zenon DEF Removal!Init

\* A step that is not a power failure is a step of OwnedRemoval or stutters.
LEMMA StepImplements ==
  ASSUME IInv, [Next]_vars, ~PowerFailure
  PROVE  [Removal!Next]_(Removal!vars)
<1>1. ASSUME NEW o \in Ops, Step(o) \/ Fault(o) \/ Tear(o)
      PROVE  Removal!Next \/ UNCHANGED Removal!vars
  <2>1. OthersKept(o)
    BY <1>1, RetireKeeps, AcknowledgeKeeps, RestKeeps, Zenon DEF Step
  <2>2. CASE Quarantine(o)
    <3>1. Removal!Remove(o) BY <2>2, QuarantineRemoves, Zenon
    <3>2. QED BY <3>1, Zenon DEF Removal!Next
  <2>3. CASE WriteStaged(o)
    <3>1. Removal!Stage(o) BY <2>3, WriteStagedStages, Zenon
    <3>2. QED BY <3>1, Zenon DEF Removal!Next
  <2>4. CASE Complete(o)
    <3>1. Removal!Complete(o) BY <2>4, CompleteCompletes, Zenon
    <3>2. QED BY <3>1, Zenon DEF Removal!Next
  <2>5. CASE RemoveAck(o)
    <3>1. Removal!Clear(o) BY <2>5, RemoveAckClears, Zenon
    <3>2. QED BY <3>1, Zenon DEF Removal!Next
  <2>6. CASE ~Quarantine(o) /\ ~WriteStaged(o) /\ ~Complete(o) /\ ~RemoveAck(o)
    <3>1. Same(o)
      BY <1>1, <2>6, RetireSame, AcknowledgeSame, RestSame, ZenonT(60) DEF Step
    <3>2. QED BY <2>1, <3>1, Stutter, Zenon
  <2>7. QED BY <2>2, <2>3, <2>4, <2>5, <2>6, Zenon
<1>2. CASE UNCHANGED vars
  BY <1>2, Zenon DEF vars, Removal!vars
<1>3. QED BY <1>1, <1>2, Zenon DEF Next

\* Every step of retire_owned and acknowledge_retirement but a power failure,
\* whatever failed before it, is a step of OwnedRemoval or does not show.
THEOREM Refinement == Spec => ImplementsRemoval
<1>1. IInv /\ [Next]_vars => [outages' = outages => [Removal!Next]_(Removal!vars)]_vars
  <2>1. SUFFICES ASSUME IInv, [Next]_vars, outages' = outages
                 PROVE  [Removal!Next]_(Removal!vars)
    BY Zenon
  <2>2. ~PowerFailure BY <2>1 DEF PowerFailure, IInv, TypeOK
  <2>3. QED BY <2>1, <2>2, StepImplements, Zenon
<1>2. QED BY <1>1, InitImplements, Invariance, PTL DEF Spec, ImplementsRemoval

\* As long as the power stays on, RootRetirement implements OwnedRemoval.
THEOREM PoweredRefinement == ASSUME MaxPowerFailures = 0 PROVE Spec => Removal!Spec
<1>1. IInv /\ [Next]_vars => [Removal!Next]_(Removal!vars)
  <2>1. SUFFICES ASSUME IInv, [Next]_vars PROVE [Removal!Next]_(Removal!vars) BY Zenon
  <2>2. ~PowerFailure BY <2>1 DEF PowerFailure, IInv, TypeOK
  <2>3. QED BY <2>1, <2>2, StepImplements, Zenon
<1>2. QED BY <1>1, InitImplements, Invariance, PTL DEF Spec, Removal!Spec

-----------------------------------------------------------------------------
(* The scan of the journal. *)

\* A set of natural numbers that is not empty has a least element.
LEMMA LeastNat ==
  ASSUME NEW T \in SUBSET Nat, T # {}
  PROVE  \E x \in T : \A y \in T : x <= y
<1> DEFINE R == OpToRel(<, Nat)
<1>1. PICK x \in T : \A y \in T : ~(<<y, x>> \in R)
  BY WFMin, NatLessThanWellFounded, Zenon
<1>2. \A y \in T : ~(y < x)
  BY <1>1, Zenon DEF OpToRel
<1> QED BY <1>2

\* The states of the scan.
Scans == [after : Nat, pending : SUBSET Jobs, seen : Nat, due : BOOLEAN, active : BOOLEAN, rescan : BOOLEAN]

\* The journal holds operations, what waits is journaled, and the scan is in its type.
ScanTypes ==
    /\ journal \subseteq Jobs /\ waiting \subseteq journal
    /\ scan \in Scans

\* While no other pass is due after this one, it will still come to everything that waits: a waiting
\* operation lies behind the cursor or in the page.
Ahead == scan.rescan \/ \A j \in waiting : j > scan.after \/ j \in scan.pending

\* The inductive invariant: also, between two passes no page is held.
ScanInv == ScanTypes /\ (scan.active \/ scan.pending = {}) /\ Ahead

\* A pass that begins keeps page, cursor and pending rescan.
LEMMA BegunIs ==
    ASSUME ScanInv
    PROVE  /\ Begun \in Scans
           /\ Begun.after = scan.after /\ Begun.pending = scan.pending /\ Begun.rescan = scan.rescan
           /\ Begun.active
BY Zenon DEF ScanInv, ScanTypes, Begun, Scans

\* A page holds every operation between the cursor and its last one, and is empty only at the end
\* of the journal.
LEMMA PageIsComplete ==
    ASSUME ScanInv, NEW after \in Nat
    PROVE  /\ Page(after) \subseteq journal /\ IsFiniteSet(Page(after)) /\ Page(after) \subseteq Nat
           /\ \A j \in journal, p \in Page(after) : j > after /\ j <= p => j \in Page(after)
           /\ Page(after) = {} => \A j \in journal : ~(j > after)
<1> DEFINE B == Behind(after)
           Before(j) == {i \in B : i < j}
<1>1. /\ B \subseteq journal /\ journal \subseteq Jobs /\ Jobs \subseteq Nat /\ IsFiniteSet(Jobs)
      /\ QueueCapacity \in Nat \ {0}
  BY ScanAssumption, Zenon DEF ScanInv, ScanTypes, Behind
<1>2. IsFiniteSet(B) /\ Page(after) \in SUBSET B /\ B \in SUBSET Jobs
  BY <1>1, FS_Subset, Zenon DEF Page
<1>3. IsFiniteSet(Page(after))
  BY <1>2, FS_Subset, Zenon
<1>4. ASSUME NEW j
      PROVE  IsFiniteSet(Before(j)) /\ Cardinality(Before(j)) \in Nat
  <2>1. Before(j) \in SUBSET B BY Zenon
  <2> QED BY <1>2, <2>1, FS_Subset, FS_CardinalityType, Zenon
<1>5. \A j : j \in Page(after) <=> j \in B /\ Cardinality(Before(j)) < QueueCapacity
  BY Zenon DEF Page
<1>6. ASSUME NEW j \in journal, NEW p \in Page(after), j > after, j <= p
      PROVE  j \in Page(after)
  <2>1. j \in B BY <1>6, Zenon DEF Behind
  <2>2. Before(j) \in SUBSET Before(p)
    <3>1. ASSUME NEW i \in B, i < j PROVE i < p
      <4>1. i \in Nat /\ j \in Nat /\ p \in Nat BY <1>1, <1>2, Zenon
      <4> QED BY <1>6, <3>1, <4>1
    <3> QED BY <3>1, Zenon
  <2>3. Cardinality(Before(j)) <= Cardinality(Before(p)) BY <1>4, <2>2, FS_Subset, Zenon
  <2>4. Cardinality(Before(p)) < QueueCapacity BY <1>5, Zenon
  <2>5. Cardinality(Before(j)) < QueueCapacity
    <3>1. Cardinality(Before(j)) \in Nat /\ Cardinality(Before(p)) \in Nat BY <1>4, Zenon
    <3> HIDE DEF Before
    <3> QED BY <2>3, <2>4, <3>1, <1>1
  <2> QED BY <1>5, <2>1, <2>5, Zenon
<1>7. ASSUME Page(after) = {}
      PROVE  \A j \in journal : ~(j > after)
  <2> SUFFICES ASSUME NEW j \in journal, j > after PROVE FALSE BY Zenon
  <2>1. j \in B BY Zenon DEF Behind
  <2>2. PICK x \in B : \A y \in B : x <= y
    <3>1. B \in SUBSET Nat /\ B # {} BY <1>1, <2>1, Zenon
    <3> HIDE DEF B
    <3> QED BY <3>1, LeastNat, Zenon
  <2>3. Before(x) = {}
    <3>1. ASSUME NEW i \in B, i < x PROVE FALSE
      <4>1. i \in Nat /\ x \in Nat /\ x <= i BY <1>1, <2>2, Zenon
      <4> QED BY <3>1, <4>1
    <3> QED BY <3>1, Zenon
  <2>4. Cardinality(Before(x)) = 0 BY <2>3, FS_EmptySet, Zenon
  <2>5. x \in Page(after)
    <3> HIDE DEF Before
    <3> QED BY <1>1, <1>5, <2>2, <2>4
  <2> QED BY <1>7, <2>5, Zenon
<1>8. Page(after) \subseteq journal /\ Page(after) \subseteq Nat BY <1>1, <1>2, Zenon
<1> HIDE DEF B, Before
<1> QED BY <1>3, <1>6, <1>7, <1>8, Zenon

\* A nonempty finite set of natural numbers has a largest element.
LEMMA LargestNat ==
    ASSUME NEW T \in SUBSET Nat, T # {}, IsFiniteSet(T)
    PROVE  Max(T) \in T /\ \A y \in T : y <= Max(T)
<1> DEFINE Below(x) == {y \in T : y < x}
           C == {Cardinality(T) - Cardinality(Below(x)) : x \in T}
<1>1. ASSUME NEW x \in T
      PROVE  /\ IsFiniteSet(Below(x)) /\ Cardinality(Below(x)) \in Nat /\ Cardinality(T) \in Nat
             /\ Cardinality(T) - Cardinality(Below(x)) \in Nat
  <2>1. Below(x) \in SUBSET T BY Zenon
  <2>2. /\ IsFiniteSet(Below(x)) /\ Cardinality(Below(x)) \in Nat /\ Cardinality(T) \in Nat
        /\ Cardinality(Below(x)) <= Cardinality(T)
    BY <2>1, FS_Subset, FS_CardinalityType, Zenon
  <2> HIDE DEF Below
  <2> QED BY <2>2
<1>2. C \in SUBSET Nat /\ C # {}
  <2> HIDE DEF Below
  <2> QED BY <1>1, Zenon
<1>3. PICK c \in C : \A d \in C : c <= d
  <2> HIDE DEF C
  <2> QED BY <1>2, LeastNat, Zenon
<1>4. PICK x \in T : c = Cardinality(T) - Cardinality(Below(x))
  <2> HIDE DEF Below
  <2> QED BY <1>3, Zenon
<1>5. ASSUME NEW y \in T, x < y PROVE FALSE
  <2>1. Below(x) \cup {x} \in SUBSET Below(y)
    <3>1. x \in Nat /\ y \in Nat BY Zenon
    <3>2. ASSUME NEW z \in T, z < x PROVE z < y
      <4>1. z \in Nat BY Zenon
      <4> QED BY <1>5, <3>1, <3>2, <4>1
    <3> QED BY <1>5, <3>2, Zenon
  <2>2. x \notin Below(x)
    <3>1. x \in Nat BY Zenon
    <3> QED BY <3>1
  <2>3. Cardinality(Below(x) \cup {x}) = Cardinality(Below(x)) + 1 BY <1>1, <2>2, FS_AddElement, Zenon
  <2>4. Cardinality(Below(x) \cup {x}) <= Cardinality(Below(y)) BY <1>1, <2>1, FS_Subset, Zenon
  <2>5. c <= Cardinality(T) - Cardinality(Below(y)) BY <1>3, Zenon
  <2>6. Cardinality(Below(x)) \in Nat /\ Cardinality(Below(y)) \in Nat /\ Cardinality(T) \in Nat BY <1>1, Zenon
  <2> HIDE DEF Below, C
  <2> QED BY <1>4, <2>3, <2>4, <2>5, <2>6
<1>6. \A y \in T : y <= x
  <2> SUFFICES ASSUME NEW y \in T PROVE y <= x BY Zenon
  <2>1. x \in Nat /\ y \in Nat BY Zenon
  <2> QED BY <1>5, <2>1
<1>7. x \in T /\ \A y \in T : x >= y
  <2> SUFFICES ASSUME NEW y \in T PROVE x >= y BY Zenon
  <2>1. x \in Nat /\ y \in Nat /\ y <= x BY <1>6, Zenon
  <2> QED BY <2>1, Zenon
<1>8. Max(T) \in T /\ \A y \in T : Max(T) >= y BY <1>7, Zenon DEF Max
<1> SUFFICES ASSUME NEW y \in T PROVE y <= Max(T) BY <1>8, Zenon
<1>9. Max(T) \in Nat /\ y \in Nat /\ Max(T) >= y BY <1>8, Zenon
<1> QED BY <1>9, Zenon

\* The scan begins idle, with nothing journaled.
LEMMA ScanStart == ScanInit => ScanInv
BY ScanAssumption, SMTT(30) DEF ScanInit, ScanInv, ScanTypes, Ahead, Scans

\* Visiting the first operation of a page takes it from the page and from those that wait.
LEMMA VisitStep ==
    ASSUME NEW s, Visit(s), journal \subseteq Jobs, waiting \subseteq journal,
           s \in Scans,
           s.active, s.rescan \/ \A j \in waiting : j > s.after \/ j \in s.pending
    PROVE  ScanInv'
<1>1. /\ scan' = [s EXCEPT !.pending = s.pending \ {Min(s.pending)}]
      /\ waiting' = waiting \ {Min(s.pending)} /\ journal' = journal
  BY Zenon DEF Visit
<1>2. /\ scan'.after = s.after /\ scan'.rescan = s.rescan /\ scan'.active = s.active
      /\ scan'.pending = s.pending \ {Min(s.pending)}
      /\ scan' \in Scans
  BY <1>1, Zenon DEF Scans
<1> HIDE DEF Min
<1>3. ScanTypes' BY <1>1, <1>2, Zenon DEF ScanTypes
<1>4. Ahead' BY <1>1, <1>2, Zenon DEF Ahead
<1> QED BY <1>2, <1>3, <1>4, Zenon DEF ScanInv

\* Every step of the journal and of the worker's turn keeps the invariant: a wakeup that finds the scan
\* under way leaves a rescan behind (Scan::wake), so what is journaled behind the cursor is not lost.
LEMMA ScanStep == ScanInv /\ [ScanNext]_scanVars => ScanInv'
<1> SUFFICES ASSUME ScanInv, [ScanNext]_scanVars PROVE ScanInv' BY Zenon
<1>0. journal \subseteq Jobs /\ waiting \subseteq journal /\ Jobs \subseteq Nat \ {0}
      /\ scan \in Scans
  BY ScanAssumption, Zenon DEF ScanInv, ScanTypes
<1>1. ASSUME NEW j \in Jobs, Journal(j) \/ Withdraw(j) PROVE ScanInv'
  BY <1>1, Zenon DEF ScanInv, ScanTypes, Ahead, Journal, Withdraw
<1>2. ASSUME Wake \/ NoSignal \/ UNCHANGED scanVars PROVE ScanInv'
  BY <1>2, Zenon DEF ScanInv, ScanTypes, Ahead, Wake, NoSignal, scanVars
<1>3. ASSUME IntervalPasses PROVE ScanInv'
  <2>1. scan' = [scan EXCEPT !.due = TRUE] /\ UNCHANGED <<journal, waiting>> BY <1>3, Zenon DEF IntervalPasses
  <2>2. /\ scan' \in Scans /\ scan'.after = scan.after /\ scan'.rescan = scan.rescan
        /\ scan'.pending = scan.pending /\ scan'.active = scan.active
    BY <1>0, <2>1, Zenon DEF Scans
  <2>3. journal' = journal /\ waiting' = waiting BY <2>1, Zenon
  <2> QED BY <2>2, <2>3, Zenon DEF ScanInv, ScanTypes, Ahead
<1>4. ASSUME TakeSignal PROVE ScanInv'
  <2>1. /\ scan' = [scan EXCEPT !.rescan = scan.rescan \/ scan.active \/ scan.after # 0, !.due = TRUE]
        /\ journal' = journal /\ waiting' = journal
    BY <1>4, Zenon DEF TakeSignal, Woken
  <2>2. /\ scan' \in Scans /\ scan'.after = scan.after /\ scan'.pending = scan.pending
        /\ scan'.active = scan.active /\ scan'.rescan = (scan.rescan \/ scan.active \/ scan.after # 0)
    BY <1>0, <2>1, Zenon DEF Scans
  <2>3. scan'.rescan \/ scan'.after = 0 BY <2>2, Zenon
  <2>4. \A j \in waiting' : j > 0 BY <1>0, <2>1
  <2> QED BY <1>0, <2>1, <2>2, <2>3, <2>4, Zenon DEF ScanInv, ScanTypes, Ahead
<1>5. ASSUME NextJob PROVE ScanInv'
  <2>1. Visit(Begun) BY <1>5, Zenon DEF NextJob
  <2>2. Begun.rescan \/ \A j \in waiting : j > Begun.after \/ j \in Begun.pending
    BY BegunIs, Zenon DEF ScanInv, Ahead
  <2> QED BY <1>0, <2>1, <2>2, BegunIs, VisitStep, Zenon
<1>6. ASSUME FetchPage PROVE ScanInv'
  <2>1. PICK page : page = Page(Begun.after) BY Zenon
  <2>2. PICK s : s = [Begun EXCEPT !.after = Max(page), !.seen = Begun.seen + Cardinality(page), !.pending = page]
    BY Zenon
  <2>3. Visit(s) /\ page # {} /\ Begun.pending = {} BY <1>6, <2>1, <2>2, Zenon DEF FetchPage, Fetching
  <2>4. Begun.after \in Nat BY BegunIs, Zenon DEF Scans
  <2>5. /\ page \in SUBSET Jobs /\ page \subseteq journal /\ IsFiniteSet(page) /\ page \in SUBSET Nat
        /\ \A j \in journal, p \in page : j > Begun.after /\ j <= p => j \in page
    BY <1>0, <2>1, <2>4, PageIsComplete, Zenon
  <2>6. Max(page) \in page /\ Max(page) \in Nat BY <2>3, <2>5, LargestNat, Zenon
  <2>7. Cardinality(page) \in Nat BY <2>5, FS_CardinalityType, Zenon
  <2> HIDE DEF Max
  <2>8. /\ s \in Scans
        /\ s.active /\ s.after = Max(page) /\ s.pending = page /\ s.rescan = Begun.rescan
    <3>1. PICK b, m, c : b = Begun /\ m = Max(page) /\ c = b.seen + Cardinality(page) BY Zenon
    <3>2. s = [b EXCEPT !.after = m, !.seen = c, !.pending = page] BY <2>2, <3>1, Zenon
    <3>3. b \in Scans /\ b.active /\ m \in Nat /\ c \in Nat
      BY <2>6, <2>7, <3>1, BegunIs DEF Scans
    <3>4. s \in Scans /\ s.active /\ s.after = m /\ s.pending = page /\ s.rescan = b.rescan
      BY <2>5, <3>2, <3>3, Zenon DEF Scans
    <3> QED BY <3>1, <3>4, Zenon
  <2>9. ASSUME ~Begun.rescan, NEW j \in waiting PROVE j > Max(page) \/ j \in page
    <3>1. j > Begun.after BY <2>3, <2>9, BegunIs, Zenon DEF ScanInv, Ahead
    <3>2. j \in journal /\ j \in Nat BY <1>0, Zenon
    <3> QED BY <2>5, <2>6, <3>1, <3>2, SMTT(30)
  <2> QED BY <1>0, <2>3, <2>8, <2>9, VisitStep, Zenon
<1>7. ASSUME EndPass PROVE ScanInv'
  <2>1. /\ scan' = [Deferred(Begun) EXCEPT !.after = 0, !.rescan = FALSE, !.due = Begun.rescan]
        /\ journal' = journal /\ waiting' = waiting
    BY <1>7, Zenon DEF EndPass
  <2>2. PICK b : b = Begun BY Zenon
  <2>3. b \in Scans BY <2>2, BegunIs, Zenon
  <2>4. /\ scan' \in Scans /\ scan'.after = 0 /\ scan'.pending = {}
    BY <2>1, <2>2, <2>3, Zenon DEF Scans, Deferred
  <2> QED BY <1>0, <2>1, <2>4 DEF ScanInv, ScanTypes, Ahead
<1>8. ASSUME ReachLimit \/ ScanError PROVE ScanInv'
  <2>1. scan' = Deferred(Begun) /\ journal' = journal /\ waiting' = waiting /\ Begun.pending = {}
    BY <1>8, BegunIs, Zenon DEF ReachLimit, ScanError, Fetching, ScanInv
  <2>2. PICK b : b = Begun BY Zenon
  <2>3. b \in Scans /\ b.after = scan.after /\ b.rescan = scan.rescan /\ b.pending = scan.pending BY <2>2, BegunIs, Zenon
  <2>4. /\ scan' \in Scans /\ scan'.after = scan.after /\ scan'.pending = {} /\ scan'.rescan = scan.rescan
    BY <2>1, <2>2, <2>3, Zenon DEF Scans, Deferred
  <2> QED BY <1>0, <2>1, <2>2, <2>3, <2>4, ZenonT(40) DEF ScanInv, ScanTypes, Ahead
<1>9. ASSUME Process PROVE ScanInv'
  <2>1. scan' = scan /\ journal' \subseteq journal /\ waiting' = waiting \cap journal' BY <1>9, Zenon DEF Process
  <2> QED BY <1>0, <2>1, Zenon DEF ScanInv, ScanTypes, Ahead
<1> QED BY <1>1, <1>2, <1>3, <1>4, <1>5, <1>6, <1>7, <1>8, <1>9, Zenon DEF ScanNext, WorkerTurn

\* For any finite set of operations, page size and limit of a pass: unless a rescan is pending, whatever
\* waits for the scan lies behind its cursor or in its page.
THEOREM ScanInvariance == ScanSpec => []ScanInv
BY ScanStart, ScanStep, PTL DEF ScanSpec

\* A pass that ends without another one due has visited everything that was journaled when the last
\* wakeup was taken: the scan answers every wakeup before it rests.
THEOREM WakeupsAreAnswered == ScanSpec => WakeupsAnswered
<1>1. ASSUME ScanInv PROVE [EndPass /\ ~scan'.due => waiting = {}]_scanVars
  <2> SUFFICES ASSUME EndPass, ~scan'.due PROVE waiting = {} BY Zenon
  <2>1. /\ scan' = [Deferred(Begun) EXCEPT !.after = 0, !.rescan = FALSE, !.due = Begun.rescan]
        /\ Begun.pending = {} /\ Page(Begun.after) = {}
    BY Zenon DEF EndPass, Fetching
  <2>2. scan'.due = Begun.rescan BY <2>1, <1>1, BegunIs, Zenon DEF Deferred, Scans
  <2>3. ~scan.rescan /\ scan.pending = {} /\ scan.after \in Nat /\ Page(scan.after) = {}
    BY <1>1, <2>1, <2>2, BegunIs, ZenonT(60) DEF Scans
  <2>4. \A j \in journal : ~(j > scan.after) BY <1>1, <2>3, PageIsComplete, Zenon
  <2> QED BY <1>1, <2>3, <2>4, Zenon DEF ScanInv, ScanTypes, Ahead
<1> QED BY <1>1, ScanInvariance, PTL DEF WakeupsAnswered
=============================================================================
