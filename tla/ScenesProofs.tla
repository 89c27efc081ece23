---------------------------- MODULE ScenesProofs ----------------------------
(***************************************************************************)
(* Theorems about the server, the service worker and the macronizer as     *)
(* Scenes has them, for every value of their constants: the types and the  *)
(* invariant of each, and what Scenes says.  The pages are in PagesProofs. *)
(***************************************************************************)
EXTENDS Scenes, FiniteSetTheorems, SequenceTheorems, WellFoundedInduction, TLAPS

-----------------------------------------------------------------------------
\* The server process.

Request == [connection : {"open", "closed"}, handler : {"running", "done"},
            log : {"none", "waiting", "writing", "done"}]

\* What keeps an answer from being lost: a process that is closed has no open
\* connection, and no other process that runs has begun to tear down.
ProcessInv ==
  /\ Process!TypeOK
  /\ Process!LostOnlyByFaults
  /\ proc = "closed" => \A r \in DOMAIN served : ~Process!IsOpen(r)
  /\ Process!Running /\ telemetry \in {"closing", "closed"} => proc = "closed"

LEMMA NoRequests == <<>> \in Seq(Request)
OBVIOUS

LEMMA RequestFields ==
  ASSUME NEW s \in Seq(Request), NEW r \in DOMAIN s
  PROVE  /\ s[r] \in Request
         /\ s[r].connection \in {"open", "closed"} /\ s[r].handler \in {"running", "done"}
         /\ s[r].log \in {"none", "waiting", "writing", "done"}
<1>1. s[r] \in Request
  OBVIOUS
<1> QED
  BY <1>1 DEF Request

\* Once something is torn down, or closed, there is nobody to be answered.
LEMMA TornDown ==
  ASSUME ProcessInv, Process!Running, telemetry \in {"closing", "closed"}
  PROVE  ~\E r \in DOMAIN served : Process!Unanswered(r)
BY DEF ProcessInv, Process!Unanswered

\* A process goes down with whatever it had not answered.
LEMMA GoingDown ==
  ASSUME ProcessInv, Process!GoDown, faulty' \in BOOLEAN, faulty => faulty',
         (\E r \in DOMAIN served : Process!Unanswered(r)) => faulty'
  PROVE  ProcessInv'
<1>1. Process!TypeOK'
  BY DEF ProcessInv, Process!GoDown, Process!TypeOK
<1> QED
  BY <1>1 DEF ProcessInv, Process!GoDown, Process!LostOnlyByFaults, Process!Running, Process!IsOpen

LEMMA InitProcess ==
  ASSUME Process!ConstantsFit
  PROVE  Process!Init => ProcessInv
<1> SUFFICES ASSUME Process!Init PROVE ProcessInv
  OBVIOUS
<1>1. 1 \in 1 .. MaxProcesses
  BY DEF Process!ConstantsFit
<1>2. Process!TypeOK
  BY <1>1, NoRequests DEF Process!Init, Process!TypeOK, Request
<1> QED
  BY <1>2 DEF ProcessInv, Process!Init, Process!LostOnlyByFaults

LEMMA NextProcess ==
  ASSUME Process!ConstantsFit
  PROVE  ProcessInv /\ [Process!Next]_(Process!vars) => ProcessInv'
<1> SUFFICES ASSUME ProcessInv, [Process!Next]_(Process!vars) PROVE ProcessInv'
  OBVIOUS
<1>0. /\ proc \in {"up", "stopping", "closed", "exited", "down"} /\ starts \in 1 .. MaxProcesses
      /\ telemetry \in {"connecting", "ready", "closing", "closed"}
      /\ dicts \in {"pending", "created"} /\ forceClose \in {"none", "armed", "cutting"}
      /\ served \in Seq(Request) /\ faulty \in BOOLEAN /\ lost \in BOOLEAN
      /\ lost => faulty
      /\ proc = "closed" => \A r \in DOMAIN served : served[r].connection # "open"
      /\ Process!Running /\ telemetry \in {"closing", "closed"} => proc = "closed"
  BY DEF ProcessInv, Process!TypeOK, Process!LostOnlyByFaults, Process!IsOpen, Request
<1>i. ASSUME /\ proc' \in {"up", "stopping", "closed", "exited", "down"} /\ starts' \in 1 .. MaxProcesses
             /\ telemetry' \in {"connecting", "ready", "closing", "closed"}
             /\ dicts' \in {"pending", "created"} /\ forceClose' \in {"none", "armed", "cutting"}
             /\ served' \in Seq(Request) /\ faulty' \in BOOLEAN /\ lost' \in BOOLEAN,
             lost' => faulty',
             proc' = "closed" => \A r \in DOMAIN served' : served'[r].connection # "open",
             Process!Running' /\ telemetry' \in {"closing", "closed"} => proc' = "closed"
      PROVE  ProcessInv'
  BY <1>i DEF ProcessInv, Process!TypeOK, Process!LostOnlyByFaults, Process!IsOpen, Request
<1>1. ASSUME NEW readable \in BOOLEAN, Process!Accept(readable) PROVE ProcessInv'
  <2> DEFINE request == IF readable
        THEN [connection |-> "open", handler |-> "running", log |-> "none"]
        ELSE [connection |-> "open", handler |-> "done", log |-> Process!Log]
  <2>1. request \in Request
    BY DEF Request, Process!Log
  <2>2. served' = Append(served, request) /\ proc = "up"
        /\ UNCHANGED <<proc, starts, telemetry, dicts, forceClose, faulty, lost>>
    BY <1>1 DEF Process!Accept, Process!processVars
  <2> HIDE DEF request
  <2>3. served' \in Seq(Request)
    BY <1>0, <2>1, <2>2
  <2>4. proc' # "closed" /\ telemetry' \notin {"closing", "closed"}
    BY <1>0, <2>2 DEF Process!Running
  <2> QED
    BY <1>0, <1>i, <2>2, <2>3, <2>4
<1>2. ASSUME NEW r \in DOMAIN served, Process!HandlerEnds(r) PROVE ProcessInv'
  <2>1. CASE telemetry = "closed"
    BY <1>0, <1>2, <2>1, TornDown, GoingDown DEF Process!HandlerEnds
  <2>2. CASE telemetry # "closed"
    <3>1. served' = [served EXCEPT ![r].handler = "done", ![r].log = Process!Log]
          /\ UNCHANGED <<proc, starts, telemetry, dicts, forceClose, faulty, lost>>
      BY <1>2, <2>2 DEF Process!HandlerEnds, Process!processVars
    <3>2. [served[r] EXCEPT !.handler = "done", !.log = Process!Log] \in Request
          /\ served[r].connection = [served[r] EXCEPT !.handler = "done", !.log = Process!Log].connection
      <4>1. served[r] \in Request /\ Process!Log \in {"waiting", "writing"}
        BY <1>0, RequestFields DEF Process!Log
      <4> QED
        BY <4>1 DEF Request
    <3>3. served' = [served EXCEPT ![r] = [served[r] EXCEPT !.handler = "done", !.log = Process!Log]]
      BY <3>1
    <3>4. served' \in Seq(Request)
      BY <1>0, <3>2, <3>3
    <3> QED
      BY <1>0, <1>i, <3>1, <3>2, <3>3, <3>4 DEF Process!Running
  <2> QED
    BY <2>1, <2>2
<1>3. ASSUME NEW r \in DOMAIN served, Process!ConnectionEnds(r) \/ Process!ClientLeaves(r)
      PROVE  ProcessInv'
  <2>1. /\ served' = [served EXCEPT ![r].connection = "closed"]
        /\ UNCHANGED <<proc, starts, telemetry, dicts, forceClose, lost>>
        /\ faulty' \in BOOLEAN /\ (faulty => faulty')
    BY <1>0, <1>3 DEF Process!ConnectionEnds, Process!ClientLeaves, Process!Fault, Process!processVars
  <2>2. [served[r] EXCEPT !.connection = "closed"] \in Request
    BY <1>0, RequestFields DEF Request
  <2>3. served' \in Seq(Request)
    BY <1>0, <2>1, <2>2
  <2>4. \A q \in DOMAIN served' : q \in DOMAIN served
          /\ (served[q].connection # "open" => served'[q].connection # "open")
    BY <1>0, <2>1, RequestFields DEF Request
  <2> QED
    BY <1>0, <1>i, <2>1, <2>3, <2>4 DEF Process!Running
<1>4. ASSUME NEW r \in DOMAIN served, Process!LogEnds(r) PROVE ProcessInv'
  <2>1. /\ served' = [served EXCEPT ![r].log = "done"]
        /\ UNCHANGED <<proc, starts, telemetry, dicts, forceClose, faulty, lost>>
    BY <1>4 DEF Process!LogEnds, Process!processVars
  <2>2. [served[r] EXCEPT !.log = "done"] \in Request
    BY <1>0, RequestFields DEF Request
  <2>3. served' \in Seq(Request)
    BY <1>0, <2>1, <2>2
  <2>4. \A q \in DOMAIN served' : q \in DOMAIN served
          /\ served'[q].connection = served[q].connection
    BY <1>0, <2>1, RequestFields DEF Request
  <2> QED
    BY <1>0, <1>i, <2>1, <2>3, <2>4 DEF Process!Running
<1>5. ASSUME NEW r \in DOMAIN served, Process!LogFails(r) PROVE ProcessInv'
  <2>1. Process!Running /\ Process!GoDown
    BY <1>5 DEF Process!LogFails
  <2>2. CASE telemetry \in {"closing", "closed"}
    <3>1. faulty' = faulty
      BY <1>5, <2>2 DEF Process!LogFails
    <3> QED
      BY <1>0, <2>1, <2>2, <3>1, TornDown, GoingDown
  <2>3. CASE telemetry \notin {"closing", "closed"}
    <3>1. faulty' = TRUE
      BY <1>5, <2>3 DEF Process!LogFails, Process!Fault
    <3> QED
      BY <2>1, <3>1, GoingDown
  <2> QED
    BY <2>2, <2>3
<1>6. CASE Process!TelemetryConnects
  <2> DEFINE Started(r) == [served[r] EXCEPT !.log = IF @ = "waiting" THEN "writing" ELSE @]
  <2>1. /\ served' = [r \in DOMAIN served |-> Started(r)]
        /\ telemetry' = IF proc = "closed" THEN "closing" ELSE "ready"
        /\ UNCHANGED <<proc, starts, dicts, forceClose, faulty, lost>>
    BY <1>6 DEF Process!TelemetryConnects
  <2>2. \A r \in DOMAIN served : Started(r) \in Request /\ Started(r).connection = served[r].connection
    BY <1>0, RequestFields DEF Request
  <2> HIDE DEF Started
  <2>3. served' \in Seq(Request)
    BY <1>0, <2>1, <2>2
  <2> QED
    BY <1>0, <1>i, <2>1, <2>2, <2>3 DEF Process!Running
<1>7. CASE Process!TelemetryFails \/ Process!DictionaryFails
  BY <1>7, GoingDown DEF Process!TelemetryFails, Process!DictionaryFails, Process!Fault
<1>8. CASE Process!CreateDictionaries \/ Process!Signal \/ Process!CountConnections
  BY <1>0, <1>i, <1>8
     DEF Process!CreateDictionaries, Process!Signal, Process!CountConnections, Process!Running
<1>9. CASE Process!CloseAllConnections
  <2> DEFINE Cut(r) == [served[r] EXCEPT !.connection = "closed"]
  <2>1. /\ served' = [r \in DOMAIN served |-> Cut(r)] /\ forceClose' = "none"
        /\ UNCHANGED <<proc, starts, telemetry, dicts, lost>>
        /\ faulty' \in BOOLEAN /\ (faulty => faulty')
    BY <1>0, <1>9 DEF Process!CloseAllConnections
  <2>2. \A r \in DOMAIN served : Cut(r) \in Request /\ Cut(r).connection = "closed"
    BY <1>0, RequestFields DEF Request
  <2> HIDE DEF Cut
  <2>3. served' \in Seq(Request)
    BY <1>0, <2>1, <2>2
  <2> QED
    BY <1>0, <1>i, <2>1, <2>2, <2>3 DEF Process!Running
<1>10. CASE Process!Close
  BY <1>0, <1>i, <1>10 DEF Process!Close, Process!Running, Process!IsOpen
<1>11. CASE Process!TearDown \/ Process!Exit
  BY <1>0, <1>i, <1>11 DEF Process!TearDown, Process!Exit, Process!Running
<1>12. CASE Process!Restart
  <2>1. starts' \in 1 .. MaxProcesses
    BY <1>0, <1>12 DEF Process!Restart, Process!ConstantsFit
  <2> QED
    BY <1>0, <1>i, <1>12, <2>1, NoRequests DEF Process!Restart
<1>13. CASE UNCHANGED Process!vars
  BY <1>0, <1>i, <1>13 DEF Process!vars, Process!processVars, Process!Running
<1> QED
  BY <1>1, <1>2, <1>3, <1>4, <1>5, <1>6, <1>7, <1>8, <1>9, <1>10, <1>11, <1>12, <1>13 DEF Process!Next

\* Every variable of the server process keeps its type in every behaviour.
THEOREM ProcessTypeCorrect ==
  ASSUME Process!ConstantsFit
  PROVE  Process!Spec => []Process!TypeOK
<1>1. ProcessInv => Process!TypeOK
  BY DEF ProcessInv
<1> QED
  BY <1>1, InitProcess, NextProcess, PTL DEF Process!Spec

\* An open request is lost only with a fault or a forced close, and the
\* telemetry is torn down after the last answer (StopsWithoutLoss), for any
\* number of requests, restarts and signals.
THEOREM NothingIsLostByStopping ==
  ASSUME Process!ConstantsFit
  PROVE  Process!Spec => []StopsWithoutLoss
<1>1. ProcessInv => StopsWithoutLoss
  BY DEF ProcessInv, StopsWithoutLoss, Process!StopsWithoutLoss, Process!TornDownLast
<1> QED
  BY <1>1, InitProcess, NextProcess, PTL DEF Process!Spec

-----------------------------------------------------------------------------
\* The messages between pages and service worker.

Phases == {"registering", "asking", "sending", "open", "downloading", "lost", "done"}
Early == {"registering", "asking", "sending"}
Kinds == {"progress", "success", "failure"}
Clicked == [key : Keys, value : BOOLEAN, mount : 1 .. MaxMounts, phase : Phases]
Box == [disabled : BOOLEAN, progress : {"none", "wait", "percent", "error"}]
ToPage == [key : Keys, kind : Kinds]

CommsTypes ==
  /\ requests \in Seq(Clicked) /\ boxes \in [Keys -> Box]
  /\ mount \in 1 .. MaxMounts /\ mounted \in BOOLEAN
  /\ listeners \subseteq DOMAIN requests /\ toPage \in Seq(ToPage)

\* A listener was registered when its request was posted, and stays until a
\* last message for its setting, which is under way if the request is done.
ListenersWait ==
  \A r \in listeners :
    /\ requests[r].phase \notin Early
    /\ requests[r].phase = "done" =>
         \E i \in DOMAIN toPage : toPage[i].key = requests[r].key /\ toPage[i].kind # "progress"

\* A checkbox is disabled, or in progress, for some request of the settings
\* that are shown, which is to be posted or listens.
Ours(r, k) == requests[r].key = k /\ requests[r].mount = mount

DisabledForOne ==
  \A k \in Keys : mounted /\ boxes[k].disabled =>
    \E r \in DOMAIN requests : Ours(r, k) /\ (requests[r].phase = "sending" \/ r \in listeners)

BusyForOne ==
  \A k \in Keys : mounted /\ boxes[k].progress \in {"wait", "percent"} =>
    \E r \in DOMAIN requests : Ours(r, k) /\ (requests[r].phase \in Early \/ r \in listeners)

CommsInv == CommsTypes /\ ListenersWait /\ DisabledForOne /\ BusyForOne

LEMMA CommsTypeOK == CommsTypes <=> Comms!TypeOK
BY DEF CommsTypes, Comms!TypeOK, Comms!Requests, Clicked, Phases, Box, ToPage, Kinds

LEMMA ClickedFields ==
  ASSUME NEW s \in Seq(Clicked), NEW r \in DOMAIN s
  PROVE  /\ s[r] \in Clicked /\ s[r].key \in Keys /\ s[r].value \in BOOLEAN
         /\ s[r].mount \in 1 .. MaxMounts /\ s[r].phase \in Phases
<1>1. s[r] \in Clicked
  OBVIOUS
<1> QED
  BY <1>1 DEF Clicked

LEMMA BoxFields ==
  ASSUME NEW box \in Box
  PROVE  /\ box.disabled \in BOOLEAN /\ box.progress \in {"none", "wait", "percent", "error"}
         /\ \A disabled \in BOOLEAN :
              /\ [box EXCEPT !.disabled = disabled] \in Box
              /\ [box EXCEPT !.disabled = disabled].disabled = disabled
              /\ [box EXCEPT !.disabled = disabled].progress = box.progress
         /\ \A progress \in {"none", "wait", "percent", "error"} :
              /\ [box EXCEPT !.progress = progress] \in Box
              /\ [box EXCEPT !.progress = progress].progress = progress
              /\ [box EXCEPT !.progress = progress].disabled = box.disabled
BY DEF Box

\* A request that changes its phase stays what it was otherwise.
LEMMA PhaseSet ==
  ASSUME requests \in Seq(Clicked), NEW r \in DOMAIN requests, NEW phase \in Phases,
         Comms!SetPhase(r, phase)
  PROVE  /\ requests' \in Seq(Clicked) /\ DOMAIN requests' = DOMAIN requests
         /\ requests'[r].phase = phase
         /\ \A q \in DOMAIN requests :
              /\ requests'[q].key = requests[q].key /\ requests'[q].mount = requests[q].mount
              /\ q # r => requests'[q].phase = requests[q].phase
<1> DEFINE moved == [requests[r] EXCEPT !.phase = phase]
<1>1. requests' = [requests EXCEPT ![r] = moved]
  BY DEF Comms!SetPhase
<1>2. requests[r] \in Clicked
  OBVIOUS
<1>3. /\ moved \in Clicked /\ moved.phase = phase
      /\ moved.key = requests[r].key /\ moved.mount = requests[r].mount
  BY <1>2 DEF Clicked
<1> HIDE DEF moved
<1>4. PICK n \in Nat : n = Len(requests)
  OBVIOUS
<1>5. DOMAIN requests' = 1 .. n /\ DOMAIN requests = 1 .. n
  BY <1>1, <1>4
<1>6. \A q \in 1 .. n : requests'[q] = IF q = r THEN moved ELSE requests[q]
  BY <1>1, <1>5
<1>7. \A q \in 1 .. n : requests'[q] \in Clicked
  BY <1>3, <1>5, <1>6
<1>8. requests' \in Seq(Clicked)
  BY <1>1, <1>4, <1>5, <1>7
<1> QED
  BY <1>3, <1>5, <1>6, <1>8

LEMMA BoxSet ==
  ASSUME CommsTypes, NEW r \in DOMAIN requests, NEW box \in Box, Comms!SetBox(r, box)
  PROVE  /\ boxes' \in [Keys -> Box]
         /\ \A k \in Keys : ~(mounted /\ Ours(r, k)) => boxes'[k] = boxes[k]
         /\ mounted /\ requests[r].mount = mount => boxes'[requests[r].key] = box
<1>1. requests[r].key \in Keys
  BY ClickedFields DEF CommsTypes
<1>2. CASE Comms!Shown(r)
  BY <1>1, <1>2 DEF Comms!SetBox, Comms!Shown, CommsTypes, Ours
<1>3. CASE ~Comms!Shown(r)
  BY <1>1, <1>3 DEF Comms!SetBox, Comms!Shown, CommsTypes, Ours
<1> QED
  BY <1>2, <1>3

LEMMA InitComms ==
  ASSUME Comms!ConstantsFit
  PROVE  Comms!Init => CommsInv
<1> SUFFICES ASSUME Comms!Init PROVE CommsInv
  OBVIOUS
<1>1. /\ requests = <<>> /\ mount = 1 /\ mounted = TRUE /\ listeners = {} /\ toPage = <<>>
      /\ boxes = [k \in Keys |-> [disabled |-> FALSE, progress |-> "none"]]
  BY DEF Comms!Init, Comms!FreshBoxes
<1>2. [disabled |-> FALSE, progress |-> "none"] \in Box
  BY DEF Box
<1>3. <<>> \in Seq(Clicked) /\ <<>> \in Seq(ToPage) /\ 1 \in 1 .. MaxMounts
  BY DEF Comms!ConstantsFit
<1> QED
  BY <1>1, <1>2, <1>3 DEF CommsInv, CommsTypes, ListenersWait, DisabledForOne, BusyForOne

LEMMA CommsSettled ==
  ASSUME CommsInv
  PROVE  Comms!SettledIsUsable
<1> SUFFICES ASSUME toPage = <<>>
             PROVE  /\ \A r \in listeners : requests[r].phase # "done"
                    /\ mounted => \A k \in Keys : Comms!Answered(k) =>
                         ~boxes[k].disabled /\ boxes[k].progress \in {"none", "error"}
  BY DEF Comms!SettledIsUsable
<1>1. \A r \in listeners : requests[r].phase # "done"
  BY DEF CommsInv, CommsTypes, ListenersWait
<1>2. ASSUME mounted, NEW k \in Keys, Comms!Answered(k)
      PROVE  ~boxes[k].disabled /\ boxes[k].progress \in {"none", "error"}
  <2>1. \A r \in DOMAIN requests : Ours(r, k) => requests[r].phase = "done" /\ r \notin listeners
    BY <1>1, <1>2 DEF Comms!Answered, Comms!Requests, Ours
  <2>2. ~boxes[k].disabled
    BY <1>2, <2>1 DEF CommsInv, DisabledForOne
  <2>3. boxes[k].progress \notin {"wait", "percent"}
    BY <1>2, <2>1 DEF CommsInv, BusyForOne, Early
  <2>4. boxes[k] \in Box
    BY DEF CommsInv, CommsTypes
  <2> QED
    BY <2>2, <2>3, <2>4, BoxFields
<1> QED
  BY <1>1, <1>2

\* A request that is not posted yet goes on, and its checkbox may change.
LEMMA EarlyStep ==
  ASSUME CommsInv, NEW r \in DOMAIN requests, NEW phase \in Phases,
         requests[r].phase \in {"registering", "asking"}, Comms!SetPhase(r, phase),
         phase = "done" \/ phase \in Early,
         boxes' \in [Keys -> Box],
         \A k \in Keys : ~(mounted /\ Ours(r, k)) => boxes'[k] = boxes[k],
         \A k \in Keys : mounted /\ Ours(r, k) /\ boxes'[k].disabled => boxes[k].disabled \/ phase = "sending",
         \A k \in Keys : mounted /\ Ours(r, k) /\ boxes'[k].progress \in {"wait", "percent"}
                           => boxes[k].progress \in {"wait", "percent"} /\ phase # "done",
         UNCHANGED <<mount, mounted, listeners, toPage>>
  PROVE  CommsInv'
<1>1. /\ requests' \in Seq(Clicked) /\ DOMAIN requests' = DOMAIN requests
      /\ requests'[r].phase = phase
      /\ \A q \in DOMAIN requests :
           /\ requests'[q].key = requests[q].key /\ requests'[q].mount = requests[q].mount
           /\ q # r => requests'[q].phase = requests[q].phase
  BY PhaseSet DEF CommsInv, CommsTypes
<1>2. r \notin listeners
  BY DEF CommsInv, ListenersWait, Early
<1>3. CommsTypes'
  BY <1>1 DEF CommsInv, CommsTypes
<1>4. ListenersWait'
  BY <1>1, <1>2 DEF CommsInv, CommsTypes, ListenersWait
<1>5. DisabledForOne'
  <2> SUFFICES ASSUME NEW k \in Keys, mounted, boxes'[k].disabled
               PROVE  \E q \in DOMAIN requests' : Ours(q, k)' /\
                        (requests'[q].phase = "sending" \/ q \in listeners')
    BY DEF DisabledForOne
  <2>1. CASE boxes[k].disabled
    <3>1. PICK q \in DOMAIN requests : Ours(q, k) /\ (requests[q].phase = "sending" \/ q \in listeners)
      BY <2>1 DEF CommsInv, DisabledForOne
    <3>2. q # r
      BY <1>2, <3>1
    <3> QED
      BY <1>1, <3>1, <3>2 DEF Ours
  <2>2. CASE ~boxes[k].disabled
    <3>1. Ours(r, k) /\ phase = "sending"
      BY <2>2
    <3> QED
      BY <1>1, <3>1 DEF Ours
  <2> QED
    BY <2>1, <2>2
<1>6. BusyForOne'
  <2> SUFFICES ASSUME NEW k \in Keys, mounted, boxes'[k].progress \in {"wait", "percent"}
               PROVE  \E q \in DOMAIN requests' : Ours(q, k)' /\
                        (requests'[q].phase \in Early \/ q \in listeners')
    BY DEF BusyForOne, Early
  <2>1. boxes[k].progress \in {"wait", "percent"} /\ (Ours(r, k) => phase # "done")
    OBVIOUS
  <2>2. PICK q \in DOMAIN requests : Ours(q, k) /\ (requests[q].phase \in Early \/ q \in listeners)
    BY <2>1 DEF CommsInv, BusyForOne
  <2>3. q = r => phase \in Early
    BY <2>1, <2>2
  <2> QED
    BY <1>1, <2>2, <2>3 DEF Ours
<1> QED
  BY <1>3, <1>4, <1>5, <1>6 DEF CommsInv

\* The worker works on a request and may tell of it; no checkbox changes yet.
LEMMA WorkerStep ==
  ASSUME CommsInv, NEW r \in DOMAIN requests, NEW phase \in Phases \ Early,
         requests[r].phase \notin Early, Comms!SetPhase(r, phase),
         NEW kind \in Kinds, toPage' = Append(toPage, Comms!Message(r, kind)),
         phase = "done" => kind # "progress",
         UNCHANGED <<boxes, mount, mounted, listeners>>
  PROVE  CommsInv'
<1>1. /\ requests' \in Seq(Clicked) /\ DOMAIN requests' = DOMAIN requests
      /\ requests'[r].phase = phase
      /\ \A q \in DOMAIN requests :
           /\ requests'[q].key = requests[q].key /\ requests'[q].mount = requests[q].mount
           /\ q # r => requests'[q].phase = requests[q].phase
  BY PhaseSet DEF CommsInv, CommsTypes
<1> DEFINE message == Comms!Message(r, kind)
<1>2. message \in ToPage /\ message.key = requests[r].key /\ message.kind = kind
  BY ClickedFields DEF CommsInv, CommsTypes, Comms!Message, ToPage
<1> HIDE DEF message
<1>3. /\ toPage' \in Seq(ToPage) /\ Len(toPage') = Len(toPage) + 1 /\ Len(toPage) \in Nat
      /\ toPage'[Len(toPage) + 1] = message /\ DOMAIN toPage = 1 .. Len(toPage)
      /\ DOMAIN toPage' = 1 .. Len(toPage) + 1
      /\ \A i \in DOMAIN toPage : toPage'[i] = toPage[i]
  <2>1. toPage \in Seq(ToPage) /\ toPage' = Append(toPage, message)
    BY DEF CommsInv, CommsTypes, message
  <2> QED
    BY <1>2, <2>1
<1>4. CommsTypes'
  BY <1>1, <1>3 DEF CommsInv, CommsTypes
<1>5. ListenersWait'
  <2> SUFFICES ASSUME NEW q \in listeners
               PROVE  /\ requests'[q].phase \notin Early
                      /\ requests'[q].phase = "done" =>
                           \E i \in DOMAIN toPage' :
                             toPage'[i].key = requests'[q].key /\ toPage'[i].kind # "progress"
    BY DEF ListenersWait, Early
  <2>1. q \in DOMAIN requests
    BY DEF CommsInv, CommsTypes
  <2>2. CASE q = r
    <3>1. Len(toPage) + 1 \in DOMAIN toPage'
      BY <1>3
    <3> QED
      BY <1>1, <1>2, <1>3, <2>1, <2>2, <3>1
  <2>3. CASE q # r
    <3>1. \A i \in DOMAIN toPage : i \in DOMAIN toPage' /\ toPage'[i] = toPage[i]
      BY <1>3
    <3> QED
      BY <1>1, <2>1, <2>3, <3>1 DEF CommsInv, ListenersWait
  <2> QED
    BY <2>2, <2>3
<1>6. \A q \in DOMAIN requests : requests'[q].phase \in Early <=> requests[q].phase \in Early
  BY <1>1
<1>7. \A q \in DOMAIN requests : requests'[q].phase = "sending" <=> requests[q].phase = "sending"
  BY <1>1 DEF Early
<1>8. DisabledForOne'
  <2> SUFFICES ASSUME NEW k \in Keys, mounted, boxes[k].disabled
               PROVE  \E q \in DOMAIN requests' : Ours(q, k)' /\
                        (requests'[q].phase = "sending" \/ q \in listeners)
    BY DEF DisabledForOne
  <2>1. PICK q \in DOMAIN requests : Ours(q, k) /\ (requests[q].phase = "sending" \/ q \in listeners)
    BY DEF CommsInv, DisabledForOne
  <2> QED
    BY <1>1, <1>7, <2>1 DEF Ours
<1>9. BusyForOne'
  <2> SUFFICES ASSUME NEW k \in Keys, mounted, boxes[k].progress \in {"wait", "percent"}
               PROVE  \E q \in DOMAIN requests' : Ours(q, k)' /\
                        (requests'[q].phase \in Early \/ q \in listeners)
    BY DEF BusyForOne, Early
  <2>1. PICK q \in DOMAIN requests : Ours(q, k) /\ (requests[q].phase \in Early \/ q \in listeners)
    BY DEF CommsInv, BusyForOne
  <2> QED
    BY <1>1, <1>6, <2>1 DEF Ours
<1> QED
  BY <1>4, <1>5, <1>8, <1>9 DEF CommsInv

LEMMA UpdatedBox ==
  ASSUME NEW box \in Box, NEW kind \in Kinds
  PROVE  /\ Comms!Updated(box, kind) \in Box
         /\ kind # "progress" => /\ ~Comms!Updated(box, kind).disabled
                                 /\ Comms!Updated(box, kind).progress \in {"none", "error"}
         /\ kind = "progress" => Comms!Updated(box, kind).disabled = box.disabled
BY BoxFields DEF Comms!Updated, Box, Kinds

\* Listeners take a message: with a last one all of its setting are gone, and
\* the checkbox that they stood for is usable.
LEMMA DeliverKeeps ==
  ASSUME CommsInv, Comms!Deliver
  PROVE  CommsInv'
<1> DEFINE message == Head(toPage)
           taken == {r \in listeners : requests[r].key = message.key}
           Hit(k) == \E r \in taken : requests[r].key = k /\ mounted /\ requests[r].mount = mount
<1>0. CommsTypes
  BY DEF CommsInv
<1>1. /\ toPage # <<>> /\ toPage' = Tail(toPage)
      /\ listeners' = IF message.kind = "progress" THEN listeners ELSE listeners \ taken
      /\ boxes' = [k \in Keys |-> IF Hit(k) THEN Comms!Updated(boxes[k], message.kind) ELSE boxes[k]]
      /\ UNCHANGED <<requests, mount, mounted>>
  BY DEF Comms!Deliver, Comms!Hears, Comms!Shown
<1>2. PICK n \in Nat : n + 1 = Len(toPage)
  <2>1. Len(toPage) \in Nat \ {0}
    BY <1>0, <1>1 DEF CommsTypes
  <2>2. Len(toPage) - 1 \in Nat /\ (Len(toPage) - 1) + 1 = Len(toPage)
    BY <2>1
  <2> QED
    BY <2>2
<1>3. /\ toPage \in Seq(ToPage) /\ message = toPage[1] /\ DOMAIN toPage = 1 .. n + 1
      /\ toPage' \in Seq(ToPage) /\ DOMAIN toPage' = 1 .. n
      /\ \A i \in 1 .. n : toPage'[i] = toPage[i + 1]
  BY <1>0, <1>1, <1>2 DEF CommsTypes
<1>4. message \in ToPage /\ message.key \in Keys /\ message.kind \in Kinds
  <2>1. toPage[1] \in ToPage
    BY <1>2, <1>3
  <2> QED
    BY <1>3, <2>1 DEF ToPage
<1> HIDE DEF message
<1>5. \A k \in Keys : boxes[k] \in Box /\ boxes'[k] \in Box
  BY <1>0, <1>1, <1>4, UpdatedBox DEF CommsTypes
<1>6. CommsTypes'
  BY <1>0, <1>1, <1>3, <1>5 DEF CommsTypes
<1>7. ListenersWait'
  <2> SUFFICES ASSUME NEW q \in listeners'
               PROVE  /\ requests[q].phase \notin Early
                      /\ requests[q].phase = "done" =>
                           \E i \in DOMAIN toPage' :
                             toPage'[i].key = requests[q].key /\ toPage'[i].kind # "progress"
    BY <1>1 DEF ListenersWait, Early
  <2>1. q \in listeners /\ (message.kind # "progress" => message.key # requests[q].key)
    BY <1>1
  <2>2. requests[q].phase \notin Early
    BY <2>1 DEF CommsInv, ListenersWait
  <2>3. ASSUME requests[q].phase = "done"
        PROVE  \E i \in DOMAIN toPage' :
                 toPage'[i].key = requests[q].key /\ toPage'[i].kind # "progress"
    <3>1. PICK i \in DOMAIN toPage : toPage[i].key = requests[q].key /\ toPage[i].kind # "progress"
      BY <2>1, <2>3 DEF CommsInv, ListenersWait
    <3>2. i # 1
      BY <1>3, <2>1, <3>1
    <3>3. PICK j \in 1 .. n : j + 1 = i
      <4>1. i - 1 \in 1 .. n /\ (i - 1) + 1 = i
        BY <1>3, <3>2
      <4> QED
        BY <4>1
    <3> QED
      BY <1>3, <3>1, <3>3
  <2> QED
    BY <2>2, <2>3
<1>8. ASSUME NEW k \in Keys, NEW r \in listeners, Ours(r, k), mounted, r \notin listeners'
      PROVE  ~boxes'[k].disabled /\ boxes'[k].progress \in {"none", "error"}
  <2>1. message.kind # "progress" /\ Hit(k)
    BY <1>1, <1>8 DEF Ours
  <2>2. boxes'[k] = Comms!Updated(boxes[k], message.kind)
    BY <1>1, <2>1
  <2> QED
    BY <1>4, <1>5, <2>1, <2>2, UpdatedBox
<1>9. ASSUME NEW k \in Keys, boxes'[k].disabled
      PROVE  boxes[k].disabled
  <2>1. CASE Hit(k)
    <3>1. boxes'[k] = Comms!Updated(boxes[k], message.kind)
      BY <1>1, <2>1
    <3> QED
      BY <1>4, <1>5, <1>9, <3>1, UpdatedBox
  <2>2. CASE ~Hit(k)
    BY <1>1, <1>9, <2>2
  <2> QED
    BY <2>1, <2>2
<1>10. DisabledForOne'
  <2> SUFFICES ASSUME NEW k \in Keys, mounted, boxes'[k].disabled
               PROVE  \E r \in DOMAIN requests :
                        Ours(r, k) /\ (requests[r].phase = "sending" \/ r \in listeners')
    BY <1>1 DEF DisabledForOne, Ours
  <2>1. PICK r \in DOMAIN requests : Ours(r, k) /\ (requests[r].phase = "sending" \/ r \in listeners)
    BY <1>9 DEF CommsInv, DisabledForOne
  <2> QED
    BY <1>8, <2>1
<1>11. BusyForOne'
  <2> SUFFICES ASSUME NEW k \in Keys, mounted, boxes'[k].progress \in {"wait", "percent"}
               PROVE  \E r \in DOMAIN requests :
                        Ours(r, k) /\ (requests[r].phase \in Early \/ r \in listeners')
    BY <1>1 DEF BusyForOne, Ours, Early
  <2>1. CASE Hit(k)
    <3>1. PICK r \in taken : requests[r].key = k /\ requests[r].mount = mount
      BY <2>1
    <3>2. r \in listeners /\ r \in DOMAIN requests /\ Ours(r, k)
      BY <1>0, <3>1 DEF CommsTypes, Ours
    <3> QED
      BY <1>8, <3>2
  <2>2. CASE ~Hit(k)
    <3>1. boxes[k].progress \in {"wait", "percent"}
      BY <1>1, <2>2
    <3>2. PICK r \in DOMAIN requests : Ours(r, k) /\ (requests[r].phase \in Early \/ r \in listeners)
      BY <3>1 DEF CommsInv, BusyForOne
    <3> QED
      BY <1>8, <3>2
  <2> QED
    BY <2>1, <2>2
<1> QED
  BY <1>6, <1>7, <1>10, <1>11 DEF CommsInv

LEMMA ClickKeeps ==
  ASSUME CommsInv, NEW k \in Keys, NEW value \in BOOLEAN, Comms!Click(k, value)
  PROVE  CommsInv'
<1> DEFINE request == [key |-> k, value |-> value, mount |-> mount, phase |-> "registering"]
           box == [boxes[k] EXCEPT !.progress = "wait"]
<1>0. CommsTypes
  BY DEF CommsInv
<1>1. /\ requests' = Append(requests, request) /\ boxes' = [boxes EXCEPT ![k] = box]
      /\ UNCHANGED <<mount, mounted, listeners, toPage>>
  BY DEF Comms!Click
<1>2. /\ request \in Clicked /\ request.key = k /\ request.mount = mount
      /\ request.phase = "registering"
  BY <1>0 DEF Clicked, Phases, CommsTypes
<1>3. box \in Box /\ box.disabled = boxes[k].disabled
  <2>1. boxes[k] \in Box
    BY <1>0 DEF CommsTypes
  <2> QED
    BY <2>1 DEF Box
<1> HIDE DEF request, box
<1>4. PICK n \in Nat : n = Len(requests)
  BY <1>0 DEF CommsTypes
<1>5. /\ requests' \in Seq(Clicked) /\ DOMAIN requests = 1 .. n /\ DOMAIN requests' = 1 .. n + 1
      /\ requests'[n + 1] = request /\ \A q \in DOMAIN requests : requests'[q] = requests[q]
  BY <1>0, <1>1, <1>2, <1>4 DEF CommsTypes
<1>6. \A q \in DOMAIN requests : q \in DOMAIN requests' /\ (\A j \in Keys : Ours(q, j) => Ours(q, j)')
  BY <1>1, <1>5 DEF Ours
<1>7. n + 1 \in DOMAIN requests' /\ Ours(n + 1, k)' /\ requests'[n + 1].phase \in Early
  BY <1>1, <1>2, <1>4, <1>5 DEF Ours, Early
<1>8. /\ boxes' \in [Keys -> Box]
      /\ \A j \in Keys : boxes'[j].disabled = boxes[j].disabled /\ (j # k => boxes'[j] = boxes[j])
  BY <1>0, <1>1, <1>3 DEF CommsTypes
<1>9. CommsTypes'
  BY <1>0, <1>1, <1>5, <1>6, <1>8 DEF CommsTypes
<1>10. ListenersWait'
  BY <1>0, <1>1, <1>5 DEF CommsInv, CommsTypes, ListenersWait
<1>11. DisabledForOne'
  BY <1>1, <1>5, <1>6, <1>8 DEF CommsInv, DisabledForOne
<1>12. BusyForOne'
  <2> SUFFICES ASSUME NEW j \in Keys, mounted, boxes'[j].progress \in {"wait", "percent"}
               PROVE  \E q \in DOMAIN requests' :
                        Ours(q, j)' /\ (requests'[q].phase \in Early \/ q \in listeners)
    BY <1>1 DEF BusyForOne, Early
  <2>1. CASE j = k
    BY <1>7, <2>1
  <2>2. CASE j # k
    BY <1>5, <1>6, <1>8, <2>2 DEF CommsInv, BusyForOne
  <2> QED
    BY <2>1, <2>2
<1> QED
  BY <1>9, <1>10, <1>11, <1>12 DEF CommsInv

\* A request that is posted from now on listens.
LEMMA PostKeeps ==
  ASSUME CommsInv, NEW r \in DOMAIN requests, Comms!Post(r)
  PROVE  CommsInv'
<1>0. /\ requests[r].phase = "sending" /\ Comms!SetPhase(r, "open")
      /\ listeners' = listeners \cup {r} /\ UNCHANGED <<boxes, mount, mounted, toPage>>
  BY DEF Comms!Post
<1>1. /\ requests' \in Seq(Clicked) /\ DOMAIN requests' = DOMAIN requests
      /\ requests'[r].phase = "open"
      /\ \A q \in DOMAIN requests :
           /\ requests'[q].key = requests[q].key /\ requests'[q].mount = requests[q].mount
           /\ q # r => requests'[q].phase = requests[q].phase
  BY <1>0, PhaseSet DEF CommsInv, CommsTypes, Phases
<1>2. CommsTypes'
  BY <1>0, <1>1 DEF CommsInv, CommsTypes
<1>3. ListenersWait'
  <2> SUFFICES ASSUME NEW q \in listeners'
               PROVE  /\ requests'[q].phase \notin Early
                      /\ requests'[q].phase = "done" =>
                           \E i \in DOMAIN toPage :
                             toPage[i].key = requests'[q].key /\ toPage[i].kind # "progress"
    BY <1>0 DEF ListenersWait, Early
  <2>1. CASE q = r
    BY <1>1, <2>1 DEF Early
  <2>2. CASE q # r
    <3>1. q \in listeners /\ q \in DOMAIN requests
      BY <1>0, <2>2 DEF CommsInv, CommsTypes
    <3> QED
      BY <1>1, <2>2, <3>1 DEF CommsInv, ListenersWait
  <2> QED
    BY <2>1, <2>2
<1>4. DisabledForOne'
  BY <1>0, <1>1 DEF CommsInv, DisabledForOne, Ours
<1>5. BusyForOne'
  BY <1>0, <1>1 DEF CommsInv, BusyForOne, Ours, Early
<1> QED
  BY <1>2, <1>3, <1>4, <1>5 DEF CommsInv

\* The worker is stopped with what it had.
LEMMA KillKeeps ==
  ASSUME CommsInv, Comms!Kill
  PROVE  CommsInv'
<1> DEFINE After(r) == IF requests[r].phase \in {"open", "downloading"}
                       THEN [requests[r] EXCEPT !.phase = "lost"] ELSE requests[r]
<1>0. CommsTypes
  BY DEF CommsInv
<1>1. requests' = [r \in DOMAIN requests |-> After(r)]
      /\ UNCHANGED <<boxes, mount, mounted, listeners, toPage>>
  BY DEF Comms!Kill, Comms!Requests
<1>2. ASSUME NEW r \in DOMAIN requests
      PROVE  /\ After(r) \in Clicked
             /\ After(r).key = requests[r].key /\ After(r).mount = requests[r].mount
             /\ After(r).phase \in Early <=> requests[r].phase \in Early
             /\ After(r).phase = "sending" <=> requests[r].phase = "sending"
             /\ After(r).phase = "done" <=> requests[r].phase = "done"
  <2>1. requests[r] \in Clicked
    BY <1>0 DEF CommsTypes
  <2> QED
    BY <2>1 DEF Clicked, Phases, Early
<1> HIDE DEF After
<1>3. PICK n \in Nat : n = Len(requests) /\ DOMAIN requests = 1 .. n
  BY <1>0 DEF CommsTypes
<1>4. requests' \in Seq(Clicked) /\ DOMAIN requests' = DOMAIN requests
  BY <1>1, <1>2, <1>3
<1>5. CommsTypes'
  BY <1>0, <1>1, <1>4 DEF CommsTypes
<1>6. ListenersWait'
  BY <1>0, <1>1, <1>2, <1>4 DEF CommsInv, CommsTypes, ListenersWait, Early
<1>7. DisabledForOne'
  BY <1>1, <1>2, <1>4 DEF CommsInv, DisabledForOne, Ours
<1>8. BusyForOne'
  BY <1>1, <1>2, <1>4 DEF CommsInv, BusyForOne, Ours, Early
<1> QED
  BY <1>5, <1>6, <1>7, <1>8 DEF CommsInv

LEMMA NextComms ==
  ASSUME Comms!ConstantsFit
  PROVE  CommsInv /\ [Comms!Next]_(Comms!vars) => CommsInv'
<1> SUFFICES ASSUME CommsInv, [Comms!Next]_(Comms!vars) PROVE CommsInv'
  OBVIOUS
<1>0. CommsTypes
  BY DEF CommsInv
<1>1. ASSUME NEW k \in Keys, NEW value \in BOOLEAN, Comms!Click(k, value) PROVE CommsInv'
  BY <1>1, ClickKeeps
<1>2. ASSUME NEW r \in DOMAIN requests, Comms!NoServiceWorker(r) PROVE CommsInv'
  <2> DEFINE box == [boxes[requests[r].key] EXCEPT !.progress = "error"]
  <2>1. /\ requests[r].phase = "registering" /\ Comms!SetPhase(r, "done")
        /\ Comms!SetBox(r, box) /\ UNCHANGED <<mount, mounted, listeners, toPage>>
    BY <1>2 DEF Comms!NoServiceWorker
  <2>2. requests[r].key \in Keys /\ boxes[requests[r].key] \in Box
    BY <1>0, ClickedFields DEF CommsTypes
  <2>3. /\ box \in Box /\ box.progress = "error"
        /\ box.disabled = boxes[requests[r].key].disabled
    BY <2>2, BoxFields
  <2> HIDE DEF box
  <2>4. /\ boxes' \in [Keys -> Box]
        /\ \A k \in Keys : ~(mounted /\ Ours(r, k)) => boxes'[k] = boxes[k]
        /\ mounted /\ requests[r].mount = mount => boxes'[requests[r].key] = box
    BY <1>0, <2>1, <2>3, BoxSet
  <2>5. \A k \in Keys : mounted /\ Ours(r, k) => boxes'[k] = box /\ requests[r].key = k
    BY <2>4 DEF Ours
  <2>6. "done" \in Phases
    BY DEF Phases
  <2> QED
    BY <2>1, <2>3, <2>4, <2>5, <2>6, EarlyStep
<1>3. ASSUME NEW r \in DOMAIN requests, Comms!Registered(r) PROVE CommsInv'
  <2>1. /\ requests[r].phase = "registering" /\ Comms!SetPhase(r, "asking")
        /\ UNCHANGED <<boxes, mount, mounted, listeners, toPage>>
    BY <1>3 DEF Comms!Registered
  <2>2. "asking" \in Phases /\ "asking" \in Early
    BY DEF Phases, Early
  <2>3. boxes' \in [Keys -> Box]
    BY <1>0, <2>1 DEF CommsTypes
  <2> QED
    BY <2>1, <2>2, <2>3, EarlyStep
<1>4. ASSUME NEW r \in DOMAIN requests, Comms!StartSend(r) PROVE CommsInv'
  <2> DEFINE box == [boxes[requests[r].key] EXCEPT !.disabled = TRUE]
  <2>1. /\ requests[r].phase \in {"registering", "asking"} /\ Comms!SetPhase(r, "sending")
        /\ Comms!SetBox(r, box) /\ UNCHANGED <<mount, mounted, listeners, toPage>>
    BY <1>4 DEF Comms!StartSend
  <2>2. requests[r].key \in Keys /\ boxes[requests[r].key] \in Box
    BY <1>0, ClickedFields DEF CommsTypes
  <2>3. box \in Box /\ box.progress = boxes[requests[r].key].progress
    BY <2>2 DEF Box
  <2> HIDE DEF box
  <2>4. /\ boxes' \in [Keys -> Box]
        /\ \A k \in Keys : ~(mounted /\ Ours(r, k)) => boxes'[k] = boxes[k]
        /\ mounted /\ requests[r].mount = mount => boxes'[requests[r].key] = box
    BY <1>0, <2>1, <2>3, BoxSet
  <2>5. \A k \in Keys : mounted /\ Ours(r, k) => boxes'[k] = box /\ requests[r].key = k
    BY <2>4 DEF Ours
  <2>6. "sending" \in Phases /\ "sending" \in Early
    BY DEF Phases, Early
  <2> QED
    BY <2>1, <2>3, <2>4, <2>5, <2>6, EarlyStep
<1>5. ASSUME NEW r \in DOMAIN requests, Comms!Post(r) PROVE CommsInv'
  BY <1>5, PostKeeps
<1>6. ASSUME NEW r \in DOMAIN requests, Comms!Progress(r) PROVE CommsInv'
  <2>1. /\ requests[r].phase = "open" /\ Comms!SetPhase(r, "downloading")
        /\ toPage' = Append(toPage, Comms!Message(r, "progress"))
        /\ UNCHANGED <<boxes, mount, mounted, listeners>>
    BY <1>6 DEF Comms!Progress
  <2>2. "downloading" \in Phases \ Early /\ "open" \notin Early /\ "progress" \in Kinds
    BY DEF Phases, Early, Kinds
  <2> QED
    BY <2>1, <2>2, WorkerStep
<1>7. ASSUME NEW r \in DOMAIN requests, NEW kind \in {"success", "failure"}, Comms!Answer(r, kind)
      PROVE  CommsInv'
  <2>1. /\ requests[r].phase \in {"open", "downloading"} /\ Comms!SetPhase(r, "done")
        /\ toPage' = Append(toPage, Comms!Message(r, kind))
        /\ UNCHANGED <<boxes, mount, mounted, listeners>>
    BY <1>7 DEF Comms!Answer
  <2>2. /\ "done" \in Phases \ Early /\ "open" \notin Early /\ "downloading" \notin Early
        /\ kind \in Kinds /\ kind # "progress"
    BY DEF Phases, Early, Kinds
  <2> QED
    BY <2>1, <2>2, WorkerStep
<1>8. CASE Comms!Kill
  BY <1>8, KillKeeps
<1>9. CASE Comms!Deliver
  BY <1>9, DeliverKeeps
<1>10. CASE Comms!Leave
  <2>1. mounted' = FALSE /\ UNCHANGED <<requests, boxes, mount, listeners, toPage>>
    BY <1>10 DEF Comms!Leave
  <2> QED
    BY <1>0, <2>1 DEF CommsInv, CommsTypes, ListenersWait, DisabledForOne, BusyForOne
<1>11. CASE Comms!Return
  <2>1. /\ mount < MaxMounts /\ mount' = mount + 1 /\ mounted' = TRUE
        /\ boxes' = [k \in Keys |-> [disabled |-> FALSE, progress |-> "none"]]
        /\ UNCHANGED <<requests, listeners, toPage>>
    BY <1>11 DEF Comms!Return, Comms!FreshBoxes
  <2>2. mount' \in 1 .. MaxMounts
    BY <1>0, <2>1 DEF CommsTypes, Comms!ConstantsFit
  <2>3. [disabled |-> FALSE, progress |-> "none"] \in Box
    BY DEF Box
  <2>4. CommsTypes'
    BY <1>0, <2>1, <2>2, <2>3 DEF CommsTypes
  <2>5. ListenersWait'
    BY <2>1 DEF CommsInv, ListenersWait
  <2>6. DisabledForOne' /\ BusyForOne'
    BY <2>1 DEF DisabledForOne, BusyForOne
  <2> QED
    BY <2>4, <2>5, <2>6 DEF CommsInv
<1>12. CASE UNCHANGED Comms!vars
  BY <1>12 DEF Comms!vars, CommsInv, CommsTypes, ListenersWait, DisabledForOne, BusyForOne, Ours
<1> QED
  BY <1>1, <1>2, <1>3, <1>4, <1>5, <1>6, <1>7, <1>8, <1>9, <1>10, <1>11, <1>12
     DEF Comms!Next, Comms!Requests

\* Every variable of the messages keeps its type in every behaviour.
THEOREM CommsTypeCorrect ==
  ASSUME Comms!ConstantsFit
  PROVE  Comms!Spec => []Comms!TypeOK
<1>1. CommsInv => Comms!TypeOK
  BY CommsTypeOK DEF CommsInv
<1> QED
  BY <1>1, InitComms, NextComms, PTL DEF Comms!Spec

\* When all messages are delivered, nobody listens for an answer that was given,
\* and a checkbox is disabled or in progress only while a request of its own is
\* not answered (SettledIsUsable), however many clicks were made and settings
\* left and opened.  Of the requests that a stopped worker lost, only those for
\* the same checkbox of the same opening excuse it.
THEOREM SettledIsAlwaysUsable ==
  ASSUME Comms!ConstantsFit
  PROVE  Comms!Spec => []Comms!SettledIsUsable
<1>1. CommsInv => Comms!SettledIsUsable
  BY CommsSettled
<1> QED
  BY <1>1, InitComms, NextComms, PTL DEF Comms!Spec

-----------------------------------------------------------------------------
\* The stream of a packed file.

LEMMA LeastNumber ==
  ASSUME NEW T, T \subseteq Nat, T # {}
  PROVE  \E x \in T : \A y \in T : x <= y
<1> DEFINE R == {ss \in Nat \X Nat : ss[1] < ss[2]}
<1>1. IsWellFoundedOn(R, Nat)
  BY NatLessThanWellFounded DEF OpToRel
<1> HIDE DEF R
<1>2. PICK x \in T : \A y \in T : ~(<<y, x>> \in R)
  BY <1>1, WFMin
<1>3. \A y \in T : ~(y < x)
  BY <1>2 DEF R
<1> QED
  BY <1>3

LEMMA SetInduction ==
  ASSUME NEW T, 0 \in T, \A n \in Nat : n \in T => n + 1 \in T
  PROVE  \A n \in Nat : n \in T
<1> SUFFICES ASSUME Nat \ T # {} PROVE FALSE
  OBVIOUS
<1>1. PICK x \in Nat \ T : \A y \in Nat \ T : x <= y
  BY LeastNumber
<1>2. PICK y \in Nat : y + 1 = x
  BY <1>1
<1>3. y \in T
  BY <1>1, <1>2
<1> QED
  BY <1>1, <1>2, <1>3

\* Where the chunks of a file start, as pack counts.
IsStarts(f, ls) ==
  /\ f \in [1 .. Len(ls) + 1 -> Nat] /\ f[1] = 1 + 2 * DelimiterSize
  /\ \A i \in 1 .. Len(ls) : f[i + 1] = f[i] + ls[i] + DelimiterSize

LEMMA StartsCounted ==
  ASSUME Unpack!ConstantsFit, lens \in Files
  PROVE  IsStarts(Unpack!DataStart, lens)
<1> DEFINE D == DelimiterSize
           F(f, n) == /\ f \in [1 .. n + 1 -> Nat]
                      /\ \A i \in 1 .. n + 1 :
                           f[i] = IF i = 1 THEN 1 + 2 * D ELSE f[i - 1] + lens[i - 1] + D
           T == {n \in Nat : n <= Len(lens) => \E f : F(f, n)}
<1>0. /\ D \in Nat /\ lens \in Seq(Nat) /\ Len(lens) \in Nat
      /\ \A i \in 1 .. Len(lens) : lens[i] \in Nat
  BY DEF Unpack!ConstantsFit
<1> HIDE DEF D
<1>1. 0 \in T
  <2> DEFINE f == [i \in 1 .. 0 + 1 |-> 1 + 2 * D]
  <2>1. F(f, 0)
    BY <1>0
  <2> QED
    BY <2>1
<1>2. ASSUME NEW n \in Nat, n \in T PROVE n + 1 \in T
  <2> SUFFICES ASSUME n + 1 <= Len(lens) PROVE \E f : F(f, n + 1)
    OBVIOUS
  <2>1. PICK f : F(f, n)
    <3> HIDE DEF F
    <3>1. n <= Len(lens)
      BY <1>0
    <3> QED
      BY <1>2, <3>1
  <2> DEFINE g == [i \in 1 .. (n + 1) + 1 |-> IF i = n + 2 THEN f[n + 1] + lens[n + 1] + D ELSE f[i]]
  <2>2. lens[n + 1] \in Nat /\ f[n + 1] \in Nat
    BY <1>0, <2>1
  <2>3. g \in [1 .. (n + 1) + 1 -> Nat]
    BY <1>0, <2>1, <2>2
  <2>4. ASSUME NEW i \in 1 .. (n + 1) + 1
        PROVE  g[i] = IF i = 1 THEN 1 + 2 * D ELSE g[i - 1] + lens[i - 1] + D
    <3>1. CASE i = n + 2
      BY <1>0, <2>2, <3>1
    <3>2. CASE i # n + 2
      <4>1. i \in 1 .. n + 1 /\ g[i] = f[i] /\ (i # 1 => g[i - 1] = f[i - 1])
        BY <3>2
      <4> QED
        BY <2>1, <4>1
    <3> QED
      BY <3>1, <3>2
  <2> HIDE DEF g
  <2>5. F(g, n + 1)
    BY <2>3, <2>4
  <2> QED
    BY <2>5
<1> HIDE DEF T
<1>3. Len(lens) \in T
  BY <1>0, <1>1, <1>2, SetInduction
<1>4. PICK f : F(f, Len(lens))
  BY <1>0, <1>3 DEF T
<1> DEFINE IsStart(s) == s = [i \in 1 .. Len(lens) + 1 |->
                               IF i = 1 THEN 1 + 2 * DelimiterSize
                               ELSE s[i - 1] + lens[i - 1] + DelimiterSize]
<1>5. IsStart(f)
  BY <1>4 DEF D
<1>6. Unpack!DataStart = CHOOSE s : IsStart(s)
  BY DEF Unpack!DataStart
<1>7. IsStart(Unpack!DataStart)
  <2> HIDE DEF IsStart
  <2> QED
    BY <1>5, <1>6
<1> DEFINE s == Unpack!DataStart
           U == {n \in Nat : n <= Len(lens) => s[n + 1] \in Nat}
<1>8. s = [i \in 1 .. Len(lens) + 1 |->
             IF i = 1 THEN 1 + 2 * D ELSE s[i - 1] + lens[i - 1] + D]
  BY <1>7 DEF D
<1> HIDE DEF s, IsStart
<1>9. s[1] = 1 + 2 * D /\ \A i \in 1 .. Len(lens) : s[i + 1] = s[i] + lens[i] + D
  BY <1>0, <1>8
<1>10. Len(lens) \in U /\ \A n \in Nat : n \in U
  <2>1. 0 \in U
    BY <1>0, <1>9
  <2>2. ASSUME NEW n \in Nat, n \in U PROVE n + 1 \in U
    <3> SUFFICES ASSUME n + 1 <= Len(lens) PROVE s[(n + 1) + 1] \in Nat
      OBVIOUS
    <3>1. n + 1 \in 1 .. Len(lens) /\ s[n + 1] \in Nat
      BY <1>0, <2>2
    <3>2. s[(n + 1) + 1] = s[n + 1] + lens[n + 1] + D /\ lens[n + 1] \in Nat
      BY <1>0, <1>9, <3>1
    <3> QED
      BY <1>0, <3>1, <3>2
  <2> HIDE DEF U
  <2> QED
    BY <1>0, <2>1, <2>2, SetInduction
<1>11. ASSUME NEW i \in 1 .. Len(lens) + 1 PROVE s[i] \in Nat
  <2>1. i - 1 \in Nat /\ (i - 1) + 1 = i /\ i - 1 <= Len(lens)
    BY <1>0
  <2>2. i - 1 \in U
    BY <1>10, <2>1
  <2> QED
    BY <2>1, <2>2
<1>12. s \in [1 .. Len(lens) + 1 -> Nat]
  BY <1>8, <1>11
<1> QED
  BY <1>9, <1>12 DEF s, D, IsStarts

LEMMA StartsUnique ==
  ASSUME NEW ls \in Seq(Nat), NEW f, NEW g, IsStarts(f, ls), IsStarts(g, ls)
  PROVE  f = g
<1> DEFINE T == {n \in Nat : n <= Len(ls) => f[n + 1] = g[n + 1]}
<1>1. Len(ls) \in Nat
  OBVIOUS
<1>2. 0 \in T
  BY <1>1 DEF IsStarts
<1>3. ASSUME NEW n \in Nat, n \in T PROVE n + 1 \in T
  <2> SUFFICES ASSUME n + 1 <= Len(ls) PROVE f[(n + 1) + 1] = g[(n + 1) + 1]
    OBVIOUS
  <2>1. n + 1 \in 1 .. Len(ls) /\ f[n + 1] = g[n + 1]
    BY <1>1, <1>3
  <2> QED
    BY <2>1 DEF IsStarts
<1>4. \A n \in Nat : n \in T
  <2> HIDE DEF T
  <2> QED
    BY <1>2, <1>3, SetInduction
<1>5. ASSUME NEW i \in 1 .. Len(ls) + 1 PROVE f[i] = g[i]
  <2>1. i - 1 \in Nat /\ (i - 1) + 1 = i /\ i - 1 <= Len(ls)
    BY <1>1
  <2>2. i - 1 \in T
    BY <1>4, <2>1
  <2> QED
    BY <2>1, <2>2
<1> QED
  BY <1>5 DEF IsStarts

\* The file does not change while it is unpacked.
LEMMA StartsStay ==
  ASSUME Unpack!ConstantsFit, lens \in Files, lens' = lens
  PROVE  Unpack!DataStart' = Unpack!DataStart /\ Unpack!Total' = Unpack!Total
<1>1. (Unpack!ConstantsFit /\ lens \in Files => IsStarts(Unpack!DataStart, lens))'
  BY StartsCounted, PTL
<1>2. Unpack!ConstantsFit' /\ (lens \in Files)'
  BY DEF Unpack!ConstantsFit
<1>3. IsStarts(Unpack!DataStart', lens)
  BY <1>1, <1>2 DEF IsStarts
<1>4. lens \in Seq(Nat)
  BY DEF Unpack!ConstantsFit
<1>5. Unpack!DataStart' = Unpack!DataStart
  BY <1>3, <1>4, StartsCounted, StartsUnique
<1> QED
  BY <1>5 DEF Unpack!Total

\* A chunk starts where the one before it has ended, behind its length.
LEMMA StartsAscend ==
  ASSUME NEW ls \in Seq(Nat), NEW f, IsStarts(f, ls), DelimiterSize \in Nat \ {0},
         NEW i \in 1 .. Len(ls), NEW j \in 1 .. Len(ls) + 1, i < j
  PROVE  f[i] + ls[i] + DelimiterSize <= f[j]
<1> DEFINE T == {n \in Nat : i + 1 + n <= Len(ls) + 1 => f[i + 1] <= f[i + 1 + n]}
<1>0. Len(ls) \in Nat /\ \A k \in 1 .. Len(ls) : ls[k] \in Nat
  OBVIOUS
<1>1. /\ Len(ls) \in Nat /\ \A k \in 1 .. Len(ls) : ls[k] \in Nat
      /\ \A k \in 1 .. Len(ls) + 1 : f[k] \in Nat
      /\ \A k \in 1 .. Len(ls) : f[k + 1] = f[k] + ls[k] + DelimiterSize
  <2>1. \A k \in 1 .. Len(ls) + 1 : f[k] \in Nat
    BY DEF IsStarts
  <2>2. \A k \in 1 .. Len(ls) : f[k + 1] = f[k] + ls[k] + DelimiterSize
    BY DEF IsStarts
  <2> QED
    BY <1>0, <2>1, <2>2
<1>2. 0 \in T
  BY <1>1
<1>3. ASSUME NEW n \in Nat, n \in T PROVE n + 1 \in T
  <2> SUFFICES ASSUME i + 1 + (n + 1) <= Len(ls) + 1 PROVE f[i + 1] <= f[i + 1 + (n + 1)]
    OBVIOUS
  <2>1. i + 1 + n \in 1 .. Len(ls) /\ f[i + 1] <= f[i + 1 + n] /\ i + 1 \in 1 .. Len(ls) + 1
    BY <1>1, <1>3
  <2>2. f[(i + 1 + n) + 1] = f[i + 1 + n] + ls[i + 1 + n] + DelimiterSize
    BY <1>1, <2>1
  <2>3. (i + 1 + n) + 1 = i + 1 + (n + 1)
    BY <1>1
  <2>4. f[i + 1 + n] \in Nat /\ ls[i + 1 + n] \in Nat /\ f[i + 1] \in Nat
    BY <1>1, <2>1
  <2> DEFINE a == f[i + 1]
             b == f[i + 1 + n]
             c == f[i + 1 + (n + 1)]
             l == ls[i + 1 + n]
  <2>5. a \in Nat /\ b \in Nat /\ l \in Nat /\ a <= b /\ c = b + l + DelimiterSize
    BY <2>1, <2>2, <2>3, <2>4
  <2> HIDE DEF a, b, c, l
  <2>6. a <= c
    BY <2>5
  <2> QED
    BY <2>6 DEF a, c
<1>4. \A n \in Nat : n \in T
  <2> HIDE DEF T
  <2> QED
    BY <1>2, <1>3, SetInduction
<1>5. j - i - 1 \in T /\ i + 1 + (j - i - 1) = j /\ j <= Len(ls) + 1
  <2>1. j - i - 1 \in Nat /\ i + 1 + (j - i - 1) = j /\ j <= Len(ls) + 1
    BY <1>1
  <2> QED
    BY <1>4, <2>1
<1> QED
  BY <1>1, <1>5

\* Runs of bytes: as sequences, put together, cut, and told apart.
LEMMA BytesAre ==
  ASSUME NEW a \in Nat \ {0}, NEW n \in Nat
  PROVE  /\ Unpack!Bytes(a, n) \in Seq(Nat) /\ Len(Unpack!Bytes(a, n)) = n
         /\ \A i \in 1 .. n : Unpack!Bytes(a, n)[i] = a + i - 1
<1>1. \A i \in 1 .. n : a + i - 1 \in Nat
  OBVIOUS
<1> QED
  BY <1>1 DEF Unpack!Bytes

LEMMA BytesJoin ==
  ASSUME NEW a \in Nat \ {0}, NEW m \in Nat, NEW n \in Nat
  PROVE  Unpack!Bytes(a, m) \o Unpack!Bytes(a + m, n) = Unpack!Bytes(a, m + n)
<1> DEFINE l == Unpack!Bytes(a, m)
           r == Unpack!Bytes(a + m, n)
           b == Unpack!Bytes(a, m + n)
<1>1. /\ l \in Seq(Nat) /\ Len(l) = m /\ \A i \in 1 .. m : l[i] = a + i - 1
      /\ r \in Seq(Nat) /\ Len(r) = n /\ \A i \in 1 .. n : r[i] = a + m + i - 1
      /\ b \in Seq(Nat) /\ Len(b) = m + n /\ \A i \in 1 .. m + n : b[i] = a + i - 1
  <2>1. a + m \in Nat \ {0} /\ m + n \in Nat
    OBVIOUS
  <2> QED
    BY <2>1, BytesAre
<1> HIDE DEF l, r, b
<1>t. /\ l \in Seq(Nat) /\ Len(l) = m /\ r \in Seq(Nat) /\ Len(r) = n
      /\ b \in Seq(Nat) /\ Len(b) = m + n
  BY <1>1
<1>2. /\ l \o r \in Seq(Nat) /\ Len(l \o r) = m + n
      /\ \A i \in 1 .. m + n : (l \o r)[i] = IF i <= m THEN l[i] ELSE r[i - m]
  <2>1. /\ l \o r \in Seq(Nat) /\ Len(l \o r) = Len(l) + Len(r)
        /\ \A i \in 1 .. Len(l) + Len(r) : (l \o r)[i] = IF i <= Len(l) THEN l[i] ELSE r[i - Len(l)]
    BY <1>t, ConcatProperties
  <2> QED
    BY <1>t, <2>1
<1>3. ASSUME NEW i \in 1 .. m + n PROVE (l \o r)[i] = b[i]
  <2>0. m + n \in Nat /\ b[i] = a + i - 1
    BY <1>1
  <2>1. CASE i <= m
    <3>1. i \in 1 .. m
      BY <2>1
    <3> QED
      BY <1>1, <1>2, <2>0, <2>1, <3>1
  <2>2. CASE ~(i <= m)
    <3>1. i - m \in 1 .. n /\ i \in Nat
      BY <2>0, <2>2
    <3>2. r[i - m] = a + m + (i - m) - 1
      BY <1>1, <3>1
    <3> QED
      BY <1>2, <2>0, <2>2, <3>1, <3>2
  <2> QED
    BY <2>1, <2>2
<1>4. l \o r = b
  <2>1. m + n \in Nat
    OBVIOUS
  <2>2. \A i \in 1 .. Len(b) : (l \o r)[i] = b[i]
    BY <1>t, <1>3
  <2> QED
    BY <1>t, <1>2, <2>1, <2>2, SeqEqual
<1> QED
  BY <1>4 DEF l, r, b

LEMMA BytesCut ==
  ASSUME NEW a \in Nat \ {0}, NEW n \in Nat, NEW m \in 0 .. n
  PROVE  /\ SubSeq(Unpack!Bytes(a, n), 1, m) = Unpack!Bytes(a, m)
         /\ SubSeq(Unpack!Bytes(a, n), m + 1, n) = Unpack!Bytes(a + m, n - m)
<1> DEFINE b == Unpack!Bytes(a, n)
           l == Unpack!Bytes(a, m)
           r == Unpack!Bytes(a + m, n - m)
<1>1. /\ b \in Seq(Nat) /\ Len(b) = n /\ \A i \in 1 .. n : b[i] = a + i - 1
      /\ l \in Seq(Nat) /\ Len(l) = m /\ \A i \in 1 .. m : l[i] = a + i - 1
      /\ r \in Seq(Nat) /\ Len(r) = n - m /\ \A i \in 1 .. n - m : r[i] = a + m + i - 1
  <2>1. a + m \in Nat \ {0} /\ n - m \in Nat /\ m \in Nat
    OBVIOUS
  <2> QED
    BY <2>1, BytesAre
<1> HIDE DEF l, r, b
<1>2. SubSeq(b, 1, m) = l
  <2>1. SubSeq(b, 1, m) \in Seq(Nat) /\ Len(SubSeq(b, 1, m)) = m
    BY <1>1
  <2>2. \A i \in 1 .. m : SubSeq(b, 1, m)[i] = b[i] /\ b[i] = l[i]
    BY <1>1
  <2> QED
    BY <1>1, <2>1, <2>2
<1>3. SubSeq(b, m + 1, n) = r
  <2>1. SubSeq(b, m + 1, n) \in Seq(Nat) /\ Len(SubSeq(b, m + 1, n)) = n - m
    BY <1>1
  <2>2. ASSUME NEW i \in 1 .. n - m PROVE SubSeq(b, m + 1, n)[i] = r[i]
    <3>1. SubSeq(b, m + 1, n)[i] = b[m + i] /\ m + i \in 1 .. n
      BY <1>1
    <3>2. b[m + i] = a + (m + i) - 1 /\ r[i] = a + m + i - 1
      BY <1>1, <3>1
    <3> QED
      BY <3>1, <3>2
  <2> QED
    BY <1>1, <2>1, <2>2
<1> QED
  BY <1>2, <1>3 DEF l, r, b

LEMMA BytesDiffer ==
  ASSUME NEW a \in Nat \ {0}, NEW b \in Nat \ {0}, NEW n \in Nat \ {0},
         Unpack!Bytes(a, n) = Unpack!Bytes(b, n)
  PROVE  a = b
<1>1. Unpack!Bytes(a, n)[1] = a + 1 - 1 /\ Unpack!Bytes(b, n)[1] = b + 1 - 1
  <2>1. n \in Nat /\ 1 \in 1 .. n
    OBVIOUS
  <2> QED
    BY <2>1, BytesAre
<1> QED
  BY <1>1

\* Where a part starts, after so many that were yielded, its length, and what
\* is yielded at which place.
PartAt(f, kind, k) ==
  IF kind = "delimiter" THEN f[k] - DelimiterSize ELSE IF k = 0 THEN 1 ELSE f[k]
PartSize(ls, kind, k) == IF kind = "data" /\ k # 0 THEN ls[k] ELSE DelimiterSize
PartOf(f, ls, i) ==
  IF i = 1 THEN Unpack!Bytes(1, DelimiterSize) ELSE Unpack!Bytes(f[i - 1], ls[i - 1])

\* What was yielded are the first parts, and the buffer has the beginning of
\* the next one.
Reading(f, ls, got, kind, size, bytes) ==
  /\ kind \in {"data", "delimiter"}
  /\ Len(got) \in 0 .. Len(ls) + 1
  /\ kind = "data" => Len(got) <= Len(ls)
  /\ kind = "delimiter" => Len(got) # 0
  /\ got = [i \in 1 .. Len(got) |-> PartOf(f, ls, i)]
  /\ size = PartSize(ls, kind, Len(got))
  /\ Len(bytes) \in 0 .. size
  /\ bytes = Unpack!Bytes(PartAt(f, kind, Len(got)), Len(bytes))

\* How many bytes were read.
Used(f, got, kind, bytes) == PartAt(f, kind, Len(got)) - 1 + Len(bytes)

LEMMA PartTypes ==
  ASSUME Unpack!ConstantsFit, lens \in Files, NEW kind \in {"data", "delimiter"},
         NEW k \in 0 .. Len(lens) + 1,
         kind = "data" => k <= Len(lens), kind = "delimiter" => k # 0
  PROVE  /\ PartAt(Unpack!DataStart, kind, k) \in Nat \ {0}
         /\ PartSize(lens, kind, k) \in Nat
<1>1. DelimiterSize \in Nat \ {0} /\ lens \in Seq(Nat) /\ IsStarts(Unpack!DataStart, lens)
  BY StartsCounted DEF Unpack!ConstantsFit
<1>2. Len(lens) \in Nat /\ \A i \in 1 .. Len(lens) : lens[i] \in Nat
  BY <1>1
<1>3. PartSize(lens, kind, k) \in Nat
  BY <1>1, <1>2 DEF PartSize
<1> DEFINE f == Unpack!DataStart
<1> HIDE DEF f
<1>4. ASSUME NEW i \in 1 .. Len(lens) + 1 PROVE f[i] \in Nat /\ f[i] >= 1 + 2 * DelimiterSize
  <2>1. f[i] \in Nat /\ f[1] = 1 + 2 * DelimiterSize
    BY <1>1, <1>2 DEF f, IsStarts
  <2>2. CASE i = 1
    BY <2>1, <2>2
  <2>3. CASE i # 1
    <3>1. 1 \in 1 .. Len(lens) /\ 1 < i
      BY <1>2, <2>3
    <3>2. f[1] + lens[1] + DelimiterSize <= f[i]
      BY <1>1, <3>1, StartsAscend DEF f
    <3>3. lens[1] \in Nat
      BY <1>2, <3>1
    <3> QED
      BY <1>1, <2>1, <3>2, <3>3
  <2> QED
    BY <2>2, <2>3
<1>5. k # 0 => k \in 1 .. Len(lens) + 1
  BY <1>2
<1>6. PartAt(f, kind, k) \in Nat \ {0}
  <2>1. CASE k = 0
    BY <2>1 DEF PartAt
  <2>2. CASE k # 0
    <3>1. f[k] \in Nat /\ f[k] >= 1 + 2 * DelimiterSize
      BY <1>4, <1>5, <2>2
    <3> QED
      BY <1>1, <2>2, <3>1 DEF PartAt
  <2> QED
    BY <2>1, <2>2
<1> QED
  BY <1>3, <1>6 DEF f

\* The delimiter in the buffer is that of the chunk that comes next.
LEMMA DelimiterRead ==
  ASSUME Unpack!ConstantsFit, lens \in Files, NEW k \in 1 .. Len(lens)
  PROVE  Unpack!DelimiterValue(Unpack!Bytes(Unpack!DataStart[k] - DelimiterSize, DelimiterSize)) = lens[k]
<1> DEFINE f == Unpack!DataStart
           D == DelimiterSize
           Is(i) == Unpack!Bytes(f[k] - D, D) = Unpack!Bytes(f[i] - D, D)
<1>1. D \in Nat \ {0} /\ lens \in Seq(Nat) /\ IsStarts(f, lens) /\ Len(lens) \in Nat
  BY StartsCounted DEF Unpack!ConstantsFit
<1> HIDE DEF f, D
<1>2. \A i \in 1 .. Len(lens) : f[i] \in Nat /\ lens[i] \in Nat
  <2>1. f \in [1 .. Len(lens) + 1 -> Nat]
    BY <1>1 DEF IsStarts
  <2> QED
    BY <1>1, <2>1
<1> USE DEF D
<1>3. ASSUME NEW i \in 1 .. Len(lens) PROVE f[i] - D \in Nat \ {0}
  <2>1. i \in 0 .. Len(lens) + 1 /\ i # 0
    BY <1>1
  <2>2. PartAt(f, "delimiter", i) \in Nat \ {0}
    BY <2>1, PartTypes DEF f
  <2> QED
    BY <2>2 DEF PartAt, D
<1>4. ASSUME NEW i \in 1 .. Len(lens), Is(i) PROVE i = k
  <2>1. f[k] - D = f[i] - D
    <3> HIDE DEF D
    <3> QED
      BY <1>1, <1>3, <1>4, BytesDiffer
  <2>2. f[k] = f[i]
    BY <1>1, <1>2, <2>1
  <2>3. ASSUME NEW x \in 1 .. Len(lens), NEW y \in 1 .. Len(lens), x < y PROVE f[x] # f[y]
    <3>1. y \in 1 .. Len(lens) + 1
      BY <1>1
    <3>2. f[x] + lens[x] + D <= f[y]
      BY <1>1, <2>3, <3>1, StartsAscend
    <3>3. f[x] \in Nat /\ f[y] \in Nat /\ lens[x] \in Nat /\ D \in Nat \ {0}
      BY <1>1, <1>2
    <3> HIDE DEF D
    <3> QED
      BY <3>2, <3>3
  <2>4. i < k \/ i = k \/ k < i
    BY <1>1
  <2> QED
    BY <2>2, <2>3, <2>4
<1>5. (CHOOSE i \in 1 .. Len(lens) : Is(i)) = k
  <2>1. Is(k)
    OBVIOUS
  <2> HIDE DEF Is
  <2> QED
    BY <1>4, <2>1
<1>6. DOMAIN lens = 1 .. Len(lens)
  BY <1>1
<1> QED
  BY <1>5, <1>6 DEF Unpack!DelimiterValue, f

LEMMA NoBytes ==
  ASSUME NEW a
  PROVE  Unpack!Bytes(a, 0) = <<>> /\ Len(<<>>) = 0
BY DEF Unpack!Bytes

\* What is known of a file, for arithmetic.
LEMMA FileParts ==
  ASSUME Unpack!ConstantsFit, lens \in Files
  PROVE  /\ DelimiterSize \in Nat \ {0} /\ lens \in Seq(Nat) /\ Len(lens) \in Nat
         /\ \A i \in 1 .. Len(lens) : lens[i] \in Nat
         /\ \A i \in 1 .. Len(lens) + 1 : Unpack!DataStart[i] \in Nat
         /\ Unpack!DataStart[1] = 1 + 2 * DelimiterSize
         /\ \A i \in 1 .. Len(lens) :
              Unpack!DataStart[i + 1] = Unpack!DataStart[i] + lens[i] + DelimiterSize
         /\ Unpack!Total = Unpack!DataStart[Len(lens) + 1] - 1 - DelimiterSize
         /\ Unpack!Total \in Nat
<1> DEFINE f == Unpack!DataStart
<1>1. /\ DelimiterSize \in Nat \ {0} /\ lens \in Seq(Nat) /\ Len(lens) \in Nat
      /\ IsStarts(f, lens) /\ Unpack!Total = f[Len(lens) + 1] - 1 - DelimiterSize
  BY StartsCounted DEF Unpack!ConstantsFit, Unpack!Total
<1>2. PartAt(f, "delimiter", Len(lens) + 1) \in Nat \ {0}
  <2>1. Len(lens) + 1 \in 0 .. Len(lens) + 1 /\ Len(lens) + 1 # 0
    BY <1>1
  <2> QED
    BY <2>1, PartTypes
<1> HIDE DEF f
<1>3. \A i \in 1 .. Len(lens) : lens[i] \in Nat
  BY <1>1
<1>4. f \in [1 .. Len(lens) + 1 -> Nat]
  BY <1>1 DEF IsStarts
<1>5. \A i \in 1 .. Len(lens) + 1 : f[i] \in Nat
  BY <1>4
<1>6. /\ f[1] = 1 + 2 * DelimiterSize
      /\ \A i \in 1 .. Len(lens) : f[i + 1] = f[i] + lens[i] + DelimiterSize
  BY <1>1 DEF IsStarts
<1>7. Unpack!Total \in Nat
  <2>1. f[Len(lens) + 1] - DelimiterSize \in Nat \ {0} /\ f[Len(lens) + 1] \in Nat
    BY <1>1, <1>2, <1>5 DEF PartAt
  <2> QED
    BY <1>1, <2>1
<1> QED
  BY <1>1, <1>3, <1>5, <1>6, <1>7 DEF f

\* The end of an iteration: the same bytes were read, in other words.
LEMMA FinishKeeps ==
  ASSUME Unpack!ConstantsFit, lens \in Files, NEW read,
         Reading(Unpack!DataStart, lens, yielded, expecting, expected, read),
         Used(Unpack!DataStart, yielded, expecting, read) <= Unpack!Total,
         Unpack!FinishPart(read)
  PROVE  /\ Reading(Unpack!DataStart, lens, yielded', expecting', expected', buffer')
         /\ Used(Unpack!DataStart, yielded', expecting', buffer')
              = Used(Unpack!DataStart, yielded, expecting, read)
<1> DEFINE f == Unpack!DataStart
           D == DelimiterSize
           k == Len(yielded)
           L == Len(lens)
<1>1. /\ D \in Nat \ {0} /\ L \in Nat /\ \A i \in 1 .. L : lens[i] \in Nat
      /\ \A i \in 1 .. L + 1 : f[i] \in Nat
      /\ f[1] = 1 + 2 * D /\ \A i \in 1 .. L : f[i + 1] = f[i] + lens[i] + D
      /\ Unpack!Total = f[L + 1] - 1 - D
  BY FileParts
<1>2. /\ expecting \in {"data", "delimiter"} /\ k \in 0 .. L + 1
      /\ (expecting = "data" => k <= L) /\ (expecting = "delimiter" => k # 0)
      /\ yielded = [i \in 1 .. k |-> PartOf(f, lens, i)]
      /\ expected = PartSize(lens, expecting, k)
      /\ Len(read) \in 0 .. expected
      /\ read = Unpack!Bytes(PartAt(f, expecting, k), Len(read))
  BY DEF Reading
<1>3. expected \in Nat /\ PartAt(f, expecting, k) \in Nat \ {0}
  BY <1>2, PartTypes
<1>4. CASE Len(read) < expected
  <2>1. buffer' = read /\ expecting' = expecting /\ expected' = expected /\ yielded' = yielded
    BY <1>4 DEF Unpack!FinishPart
  <2> QED
    BY <2>1
<1>5. CASE ~(Len(read) < expected) /\ expecting = "data"
  <2>1. /\ buffer' = <<>> /\ yielded' = Append(yielded, read) /\ expecting' = "delimiter"
        /\ expected' = D
    BY <1>5 DEF Unpack!FinishPart
  <2>2. Len(read) = expected
    BY <1>2, <1>3, <1>5
  <2>3. read = PartOf(f, lens, k + 1)
    <3> HIDE DEF f
    <3>1. (k + 1) - 1 = k /\ (k + 1 = 1 <=> k = 0)
      BY <1>1, <1>2
    <3> QED
      BY <1>2, <1>5, <2>2, <3>1 DEF PartOf, PartAt, PartSize
  <2>4. Len(yielded') = k + 1 /\ yielded' = [i \in 1 .. k + 1 |-> PartOf(f, lens, i)]
    <3> DEFINE p == [i \in 1 .. k + 1 |-> PartOf(f, lens, i)]
               P(i) == PartOf(f, lens, i)
    <3> HIDE DEF P
    <3>1. yielded = [i \in 1 .. k |-> P(i)] /\ read = P(k + 1) /\ k \in Nat
      BY <1>1, <1>2, <2>3 DEF P
    <3>2. Append([i \in 1 .. k |-> P(i)], P(k + 1)) = [i \in 1 .. k + 1 |-> P(i)]
      <4> HIDE DEF k
      <4> QED
        BY <3>1
    <3>3. yielded' = [i \in 1 .. k + 1 |-> P(i)]
      BY <2>1, <3>1, <3>2
    <3>4. Len(yielded') = k + 1
      <4> HIDE DEF k
      <4> QED
        BY <3>1, <3>3
    <3> QED
      BY <3>3, <3>4 DEF P
  <2>5. buffer' = Unpack!Bytes(PartAt(f, "delimiter", k + 1), Len(buffer')) /\ Len(buffer') = 0
    BY <2>1, NoBytes
  <2>6. Reading(f, lens, yielded', expecting', expected', buffer')
    <3> HIDE DEF f
    <3>1. k + 1 \in 0 .. L + 1 /\ k + 1 # 0
      BY <1>1, <1>2, <1>5
    <3>2. D = PartSize(lens, "delimiter", k + 1) /\ 0 \in 0 .. D
      BY <1>1 DEF PartSize
    <3> HIDE DEF k, L, D
    <3> QED
      BY <2>1, <2>4, <2>5, <3>1, <3>2 DEF Reading, L
  <2>7. Used(f, yielded', expecting', buffer') = Used(f, yielded, expecting, read)
    <3>1. Used(f, yielded', expecting', buffer') = f[k + 1] - D - 1
      <4>1. f[k + 1] \in Nat
        BY <1>1, <1>2, <1>5
      <4> HIDE DEF f
      <4> QED
        BY <1>1, <2>1, <2>4, <2>5, <4>1 DEF Used, PartAt
    <3>2. CASE k = 0
      <4>1. Used(f, yielded, expecting, read) = 1 - 1 + D
        BY <1>2, <1>5, <2>2, <3>2 DEF Used, PartAt, PartSize
      <4>2. f[k + 1] = 1 + 2 * D
        BY <1>1, <3>2
      <4> QED
        BY <1>1, <3>1, <4>1, <4>2
    <3>3. CASE k # 0
      <4>1. Used(f, yielded, expecting, read) = f[k] - 1 + lens[k]
        BY <1>2, <1>5, <2>2, <3>3 DEF Used, PartAt, PartSize
      <4>2. k \in 1 .. L
        BY <1>1, <1>2, <1>5, <3>3
      <4>3. f[k + 1] = f[k] + lens[k] + D /\ f[k] \in Nat /\ lens[k] \in Nat
        BY <1>1, <4>2
      <4> HIDE DEF f, k, D
      <4>4. f[k + 1] - D - 1 = f[k] - 1 + lens[k]
        BY <1>1, <4>3
      <4> QED
        BY <3>1, <4>1, <4>4
    <3> QED
      BY <3>2, <3>3
  <2> QED
    BY <2>6, <2>7
<1>6. CASE ~(Len(read) < expected) /\ expecting = "delimiter"
  <2>1. /\ buffer' = <<>> /\ yielded' = yielded /\ expecting' = "data"
        /\ expected' = Unpack!DelimiterValue(read)
    BY <1>6 DEF Unpack!FinishPart
  <2>2. Len(read) = expected /\ expected = D /\ k # 0
    BY <1>2, <1>3, <1>6 DEF PartSize
  <2>3. k \in 1 .. L + 1 /\ f[k] \in Nat
    BY <1>1, <1>2, <2>2
  <2>4. Used(f, yielded, expecting, read) = f[k] - D - 1 + D
    BY <1>6, <2>2 DEF Used, PartAt
  <2>5. k \in 1 .. L
    <3> SUFFICES ASSUME k = L + 1 PROVE FALSE
      BY <1>1, <2>3
    <3>1. f[k] - D - 1 + D <= f[k] - 1 - D
      BY <1>1, <2>4
    <3> HIDE DEF f, k, D
    <3> QED
      BY <1>1, <2>3, <3>1
  <2>6. expected' = lens[k] /\ lens[k] \in Nat
    <3>1. read = Unpack!Bytes(f[k] - D, D)
      BY <1>2, <1>6, <2>2 DEF PartAt
    <3> QED
      BY <1>1, <2>1, <2>5, <3>1, DelimiterRead
  <2>7. buffer' = Unpack!Bytes(PartAt(f, "data", k), Len(buffer')) /\ Len(buffer') = 0
    BY <2>1, NoBytes
  <2>8. Reading(f, lens, yielded', expecting', expected', buffer')
    <3>1. lens[k] = PartSize(lens, "data", k) /\ 0 \in 0 .. lens[k] /\ k \in 0 .. L + 1 /\ k <= L
      BY <1>1, <2>2, <2>5, <2>6 DEF PartSize
    <3> HIDE DEF f
    <3> QED
      BY <1>2, <2>1, <2>6, <2>7, <3>1 DEF Reading
  <2>9. Used(f, yielded', expecting', buffer') = f[k] - 1
    <3> HIDE DEF f
    <3> QED
      BY <2>1, <2>2, <2>3, <2>7 DEF Used, PartAt
  <2>10. f[k] - D - 1 + D = f[k] - 1
    <3> HIDE DEF f, k, D
    <3> QED
      BY <1>1, <2>3
  <2> QED
    BY <2>4, <2>8, <2>9, <2>10
<1> QED
  BY <1>2, <1>4, <1>5, <1>6

\* What was read, of what the stream delivered.
AtPiece ==
  IF nextPiece = Waiting THEN Used(Unpack!DataStart, yielded, expecting, buffer) = sent
  ELSE /\ Len(nextPiece) \in Nat
       /\ nextPiece = Unpack!Bytes(Used(Unpack!DataStart, yielded, expecting, buffer) + 1, Len(nextPiece))
       /\ Used(Unpack!DataStart, yielded, expecting, buffer) + Len(nextPiece) = sent

\* The piece continues what was read, and the end of a file was not missed.
UnpackInv ==
  /\ lens \in Files /\ sent \in 0 .. Unpack!Total
  /\ Reading(Unpack!DataStart, lens, yielded, expecting, expected, buffer)
  /\ AtPiece
  /\ status \in {"running", "done", "rejected", "broken"}
  /\ status = "done" => nextPiece = Waiting /\ buffer = <<>> /\ expecting = "delimiter"
  /\ Unpack!WholeFileAccepted

LEMMA UsedTypes ==
  ASSUME Unpack!ConstantsFit, lens \in Files,
         Reading(Unpack!DataStart, lens, yielded, expecting, expected, buffer)
  PROVE  /\ PartAt(Unpack!DataStart, expecting, Len(yielded)) \in Nat \ {0}
         /\ expected \in Nat /\ Len(buffer) \in 0 .. expected
         /\ Used(Unpack!DataStart, yielded, expecting, buffer) \in Nat
<1>1. /\ PartAt(Unpack!DataStart, expecting, Len(yielded)) \in Nat \ {0}
      /\ expected \in Nat /\ Len(buffer) \in 0 .. expected
  BY PartTypes DEF Reading
<1> QED
  BY <1>1 DEF Used

LEMMA InitUnpack ==
  ASSUME Unpack!ConstantsFit, Unpack!Init
  PROVE  UnpackInv
<1>1. /\ lens \in Files /\ sent = 0 /\ nextPiece = Waiting /\ buffer = <<>>
      /\ expected = DelimiterSize /\ expecting = "data" /\ yielded = <<>> /\ status = "running"
  BY DEF Unpack!Init
<1>2. Len(yielded) = 0 /\ yielded = [i \in 1 .. Len(yielded) |-> PartOf(Unpack!DataStart, lens, i)]
  BY <1>1
<1>3. Len(lens) \in Nat /\ DelimiterSize \in Nat /\ Unpack!Total \in Nat
  BY <1>1, FileParts
<1>4. buffer = Unpack!Bytes(PartAt(Unpack!DataStart, expecting, Len(yielded)), Len(buffer)) /\ Len(buffer) = 0
  BY <1>1, NoBytes
<1>5. Reading(Unpack!DataStart, lens, yielded, expecting, expected, buffer)
  BY <1>1, <1>2, <1>3, <1>4 DEF Reading, PartSize
<1>6. Used(Unpack!DataStart, yielded, expecting, buffer) = 0
  BY <1>1, <1>2, <1>4 DEF Used, PartAt
<1> QED
  BY <1>1, <1>3, <1>5, <1>6 DEF UnpackInv, AtPiece, Unpack!WholeFileAccepted

\* A step that leaves the file alone keeps the invariant if it does so with the
\* unchanged starts.
LEMMA UnpackHolds ==
  ASSUME Unpack!ConstantsFit, lens \in Files, lens' = lens,
         sent' \in 0 .. Unpack!Total,
         Reading(Unpack!DataStart, lens, yielded', expecting', expected', buffer'),
         IF nextPiece' = Waiting THEN Used(Unpack!DataStart, yielded', expecting', buffer') = sent'
         ELSE /\ Len(nextPiece') \in Nat
              /\ nextPiece' = Unpack!Bytes(Used(Unpack!DataStart, yielded', expecting', buffer') + 1,
                                           Len(nextPiece'))
              /\ Used(Unpack!DataStart, yielded', expecting', buffer') + Len(nextPiece') = sent',
         status' \in {"running", "done", "rejected", "broken"},
         status' = "done" => nextPiece' = Waiting /\ buffer' = <<>> /\ expecting' = "delimiter",
         status' = "rejected" => sent' < Unpack!Total \/ (lens # <<>> /\ Unpack!Last(lens) = 0)
  PROVE  UnpackInv'
<1>1. Unpack!DataStart' = Unpack!DataStart /\ Unpack!Total' = Unpack!Total
  BY StartsStay
<1>2. Reading(Unpack!DataStart, lens, yielded, expecting, expected, buffer)'
  BY <1>1 DEF Reading, PartOf, PartAt, PartSize
<1>3. AtPiece'
  BY <1>1 DEF AtPiece, Used, PartAt
<1>4. Unpack!WholeFileAccepted'
  BY <1>1 DEF Unpack!WholeFileAccepted, Unpack!Last
<1> QED
  BY <1>1, <1>2, <1>3, <1>4 DEF UnpackInv

\* Bytes of the piece that follow those in the buffer.
LEMMA ReadOn ==
  ASSUME Unpack!ConstantsFit, UnpackInv, nextPiece # Waiting,
         NEW m \in 0 .. Len(nextPiece), Len(buffer) + m <= expected
  PROVE  LET read == buffer \o SubSeq(nextPiece, 1, m)
             rest == SubSeq(nextPiece, m + 1, Len(nextPiece))
             used == Used(Unpack!DataStart, yielded, expecting, buffer) + m
         IN  /\ Len(nextPiece) \in Nat /\ nextPiece \in Seq(Nat) /\ Len(read) = Len(buffer) + m
             /\ Reading(Unpack!DataStart, lens, yielded, expecting, expected, read)
             /\ Used(Unpack!DataStart, yielded, expecting, read) = used
             /\ Len(rest) = Len(nextPiece) - m /\ rest \in Seq(Nat)
             /\ rest = Unpack!Bytes(used + 1, Len(rest))
             /\ used + Len(rest) = sent /\ used <= Unpack!Total
<1> DEFINE first == PartAt(Unpack!DataStart, expecting, Len(yielded))
           b == Len(buffer)
           n == Len(nextPiece)
           read == buffer \o SubSeq(nextPiece, 1, m)
           rest == SubSeq(nextPiece, m + 1, n)
           used == Used(Unpack!DataStart, yielded, expecting, buffer)
<1>1. /\ lens \in Files /\ sent \in 0 .. Unpack!Total /\ Unpack!Total \in Nat
      /\ Reading(Unpack!DataStart, lens, yielded, expecting, expected, buffer)
  BY FileParts DEF UnpackInv
<1>2. n \in Nat /\ nextPiece = Unpack!Bytes(used + 1, n) /\ used + n = sent
  BY DEF UnpackInv, AtPiece
<1>3. first \in Nat \ {0} /\ expected \in Nat /\ b \in 0 .. expected /\ used \in Nat
  BY <1>1, UsedTypes
<1>4. used = first - 1 + b
  BY DEF Used
<1>5. buffer = Unpack!Bytes(first, b)
  BY <1>1 DEF Reading
<1> HIDE DEF first, b, n, used
<1>6. used + 1 \in Nat \ {0} /\ used + 1 = first + b /\ m \in Nat /\ b \in Nat /\ n - m \in Nat
  BY <1>2, <1>3, <1>4 DEF n
<1>7. /\ SubSeq(nextPiece, 1, m) = Unpack!Bytes(first + b, m)
      /\ rest = Unpack!Bytes(used + 1 + m, n - m)
  <2>1. m \in 0 .. n
    BY DEF n
  <2>2. /\ SubSeq(Unpack!Bytes(used + 1, n), 1, m) = Unpack!Bytes(used + 1, m)
        /\ SubSeq(Unpack!Bytes(used + 1, n), m + 1, n) = Unpack!Bytes(used + 1 + m, n - m)
    BY <1>2, <1>6, <2>1, BytesCut
  <2> QED
    BY <1>2, <1>6, <2>2
<1>8. read = Unpack!Bytes(first, b + m)
  <2>1. Unpack!Bytes(first, b) \o Unpack!Bytes(first + b, m) = Unpack!Bytes(first, b + m)
    BY <1>3, <1>6, BytesJoin
  <2> QED
    BY <1>5, <1>7, <2>1
<1> HIDE DEF read, rest
<1>9. Len(read) = b + m /\ b + m \in 0 .. expected
  <2>1. b + m \in Nat /\ b + m <= expected
    BY <1>6 DEF b
  <2>2. Len(Unpack!Bytes(first, b + m)) = b + m
    BY <1>3, <2>1, BytesAre
  <2> QED
    BY <1>3, <1>8, <2>1, <2>2
<1>10. Reading(Unpack!DataStart, lens, yielded, expecting, expected, read)
  BY <1>1, <1>8, <1>9 DEF Reading, first
<1>11. Used(Unpack!DataStart, yielded, expecting, read) = used + m
  <2>1. Used(Unpack!DataStart, yielded, expecting, read) = first - 1 + (b + m)
    BY <1>9 DEF Used, first
  <2> QED
    BY <1>3, <1>4, <1>6, <2>1
<1>12. Len(rest) = n - m /\ rest \in Seq(Nat)
  <2>1. used + 1 + m \in Nat \ {0}
    BY <1>6
  <2> QED
    BY <1>6, <1>7, <2>1, BytesAre
<1>13. rest = Unpack!Bytes(used + m + 1, Len(rest))
  <2>1. used + 1 + m = used + m + 1
    BY <1>3, <1>6
  <2> QED
    BY <1>7, <1>12, <2>1
<1>14. used + m + Len(rest) = sent /\ used + m <= Unpack!Total
  BY <1>1, <1>2, <1>3, <1>6, <1>12
<1>15. nextPiece \in Seq(Nat)
  BY <1>2, <1>6, BytesAre
<1> QED
  BY <1>2, <1>9, <1>10, <1>11, <1>12, <1>13, <1>14, <1>15 DEF read, rest, used, b, n

LEMMA Consumes ==
  ASSUME Unpack!ConstantsFit, UnpackInv, Unpack!ConsumePart \/ Unpack!ConsumeAll
  PROVE  UnpackInv'
<1>1. /\ lens \in Files /\ sent \in 0 .. Unpack!Total
      /\ Reading(Unpack!DataStart, lens, yielded, expecting, expected, buffer)
      /\ status = "running" /\ nextPiece # Waiting
      /\ lens' = lens /\ sent' = sent /\ status' = status
  BY DEF UnpackInv, Unpack!ConsumePart, Unpack!ConsumeAll
<1>2. expected \in Nat /\ Len(buffer) \in 0 .. expected /\ Len(nextPiece) \in Nat
      /\ Waiting \notin Seq(Nat)
  BY <1>1, UsedTypes DEF UnpackInv, AtPiece, Unpack!ConstantsFit
<1>3. CASE Unpack!ConsumePart
  <2> DEFINE m == expected - Len(buffer)
             read == buffer \o SubSeq(nextPiece, 1, m)
  <2>1. /\ Unpack!FinishPart(read) /\ Len(nextPiece) > m
        /\ nextPiece' = SubSeq(nextPiece, m + 1, Len(nextPiece))
    BY <1>3 DEF Unpack!ConsumePart
  <2>2. m \in 0 .. Len(nextPiece) /\ Len(buffer) + m <= expected
    BY <1>2, <2>1
  <2> HIDE DEF m
  <2>3. /\ Reading(Unpack!DataStart, lens, yielded, expecting, expected, read)
        /\ Used(Unpack!DataStart, yielded, expecting, read) <= Unpack!Total
        /\ nextPiece' \in Seq(Nat) /\ Len(nextPiece') \in Nat
        /\ nextPiece' = Unpack!Bytes(Used(Unpack!DataStart, yielded, expecting, read) + 1,
                                     Len(nextPiece'))
        /\ Used(Unpack!DataStart, yielded, expecting, read) + Len(nextPiece') = sent
    <3>1. Len(nextPiece) - m \in Nat
      BY <1>2, <2>2
    <3> QED
      BY <1>1, <2>1, <2>2, <3>1, ReadOn
  <2> HIDE DEF read
  <2>4. /\ Reading(Unpack!DataStart, lens, yielded', expecting', expected', buffer')
        /\ Used(Unpack!DataStart, yielded', expecting', buffer')
             = Used(Unpack!DataStart, yielded, expecting, read)
    BY <1>1, <2>1, <2>3, FinishKeeps
  <2>5. nextPiece' # Waiting
    BY <1>2, <2>3
  <2> QED
    BY <1>1, <2>3, <2>4, <2>5, UnpackHolds
<1>4. CASE Unpack!ConsumeAll
  <2> DEFINE n == Len(nextPiece)
  <2>1. /\ n <= expected - Len(buffer) /\ buffer' = buffer \o nextPiece /\ nextPiece' = Waiting
        /\ expected' = expected /\ expecting' = expecting /\ yielded' = yielded
    BY <1>4 DEF Unpack!ConsumeAll
  <2>2. n \in 0 .. Len(nextPiece) /\ Len(buffer) + n <= expected
    BY <1>2, <2>1
  <2>3. SubSeq(nextPiece, 1, n) = nextPiece
    <3>1. nextPiece \in Seq(Nat)
      BY <1>1, <2>2, ReadOn
    <3> QED
      BY <3>1
  <2>4. /\ Reading(Unpack!DataStart, lens, yielded, expecting, expected, buffer')
        /\ Used(Unpack!DataStart, yielded, expecting, buffer')
             = Used(Unpack!DataStart, yielded, expecting, buffer) + n
    BY <1>1, <2>1, <2>2, <2>3, ReadOn
  <2>5. Used(Unpack!DataStart, yielded, expecting, buffer) + n = sent
    BY <1>1 DEF UnpackInv, AtPiece
  <2> QED
    BY <1>1, <2>1, <2>4, <2>5, UnpackHolds
<1> QED
  BY <1>3, <1>4

LEMMA Delivers ==
  ASSUME Unpack!ConstantsFit, UnpackInv, NEW n \in PieceSizes, Unpack!Deliver(n)
  PROVE  UnpackInv'
<1>1. /\ lens \in Files /\ sent \in 0 .. Unpack!Total /\ Unpack!Total \in Nat
      /\ Reading(Unpack!DataStart, lens, yielded, expecting, expected, buffer)
      /\ status = "running" /\ nextPiece = Waiting
      /\ lens' = lens /\ sent + n <= Unpack!Total /\ sent' = sent + n /\ status' = status
      /\ nextPiece' = Unpack!Bytes(sent + 1, n) /\ Unpack!FinishPart(buffer)
  BY FileParts DEF UnpackInv, Unpack!Deliver
<1>2. n \in Nat /\ Waiting \notin Seq(Nat)
  BY DEF Unpack!ConstantsFit
<1>3. Used(Unpack!DataStart, yielded, expecting, buffer) = sent
  BY <1>1 DEF UnpackInv, AtPiece
<1>4. /\ Reading(Unpack!DataStart, lens, yielded', expecting', expected', buffer')
      /\ Used(Unpack!DataStart, yielded', expecting', buffer') = sent
  <2>1. sent <= Unpack!Total
    BY <1>1
  <2> QED
    BY <1>1, <1>3, <2>1, FinishKeeps
<1>5. nextPiece' \in Seq(Nat) /\ Len(nextPiece') = n
  <2>1. sent + 1 \in Nat \ {0}
    BY <1>1
  <2> QED
    BY <1>1, <1>2, <2>1, BytesAre
<1>6. sent' \in 0 .. Unpack!Total /\ nextPiece' # Waiting
  BY <1>1, <1>2, <1>5
<1> QED
  BY <1>1, <1>2, <1>4, <1>5, <1>6, UnpackHolds

\* A stream that ended is rejected only if bytes are missing, or if the last
\* chunk is empty.
LEMMA Ends ==
  ASSUME Unpack!ConstantsFit, UnpackInv, Unpack!End
  PROVE  UnpackInv'
<1> DEFINE f == Unpack!DataStart
           k == Len(yielded')
           L == Len(lens)
           D == DelimiterSize
<1>1. /\ lens \in Files /\ sent \in 0 .. Unpack!Total
      /\ Reading(f, lens, yielded, expecting, expected, buffer)
      /\ status = "running" /\ nextPiece = Waiting
      /\ lens' = lens /\ sent' = sent /\ nextPiece' = nextPiece /\ Unpack!FinishPart(buffer)
      /\ status' = IF buffer' = <<>> /\ expecting' = "delimiter" THEN "done" ELSE "rejected"
  BY DEF UnpackInv, Unpack!End
<1>2. /\ D \in Nat \ {0} /\ L \in Nat /\ lens \in Seq(Nat) /\ \A i \in 1 .. L : lens[i] \in Nat
      /\ \A i \in 1 .. L + 1 : f[i] \in Nat
      /\ f[1] = 1 + 2 * D
      /\ Unpack!Total = f[L + 1] - 1 - D /\ Unpack!Total \in Nat
  BY <1>1, FileParts
<1>3. Used(f, yielded, expecting, buffer) = sent
  BY <1>1 DEF UnpackInv, AtPiece
<1>4. Reading(f, lens, yielded', expecting', expected', buffer') /\ Used(f, yielded', expecting', buffer') = sent
  <2>1. sent <= Unpack!Total
    BY <1>1, <1>2
  <2> QED
    BY <1>1, <1>3, <2>1, FinishKeeps
<1>5. IsStarts(f, lens)
  BY <1>1, StartsCounted
<1> HIDE DEF f
<1>6. /\ expecting' \in {"data", "delimiter"} /\ k \in 0 .. L + 1
      /\ (expecting' = "data" => k <= L) /\ (expecting' = "delimiter" => k # 0)
      /\ expected' = PartSize(lens, expecting', k)
      /\ Len(buffer') \in 0 .. expected'
  BY <1>4 DEF Reading
<1>7. sent = PartAt(f, expecting', k) - 1 + Len(buffer')
  BY <1>4 DEF Used
<1>8. buffer' = <<>> \/ Len(buffer') < expected'
  BY <1>1 DEF Unpack!FinishPart
<1>9. /\ Len(buffer') \in Nat /\ (buffer' = <<>> => Len(buffer') = 0)
  <2>1. expected' \in Nat
    BY <1>1, <1>2, <1>6 DEF PartSize
  <2> QED
    BY <1>6, <2>1
<1> HIDE DEF k, L, D
<1>0. D \in Nat \ {0} /\ L \in Nat /\ Unpack!Total = f[L + 1] - 1 - D /\ Unpack!Total \in Nat
  BY <1>2
<1>10. ASSUME NEW i \in 1 .. L PROVE f[i] + lens[i] - 1 <= Unpack!Total
  <2>1. L + 1 \in 1 .. L + 1 /\ i < L + 1 /\ i \in 1 .. L + 1
    BY <1>2
  <2>2. f[i] + lens[i] + D <= f[L + 1]
    BY <1>2, <1>5, <2>1, StartsAscend DEF L, D
  <2>3. f[i] \in Nat /\ lens[i] \in Nat /\ f[L + 1] \in Nat
    BY <1>2, <2>1
  <2> QED
    BY <1>0, <2>2, <2>3
<1>11. D <= Unpack!Total
  <2>1. CASE L = 0
    BY <1>2, <2>1
  <2>2. CASE L # 0
    <3>1. 1 \in 1 .. L /\ lens[1] \in Nat /\ f[1] + lens[1] - 1 <= Unpack!Total
      BY <1>2, <1>10, <2>2
    <3> QED
      BY <1>2, <3>1
  <2> QED
    BY <2>1, <2>2
<1>12. ASSUME ~(buffer' = <<>> /\ expecting' = "delimiter")
       PROVE  sent < Unpack!Total \/ (lens # <<>> /\ lens[Len(lens)] = 0)
  <2>1. CASE expecting' = "delimiter"
    <3>1. /\ k # 0 /\ expected' = D /\ Len(buffer') < D /\ sent = f[k] - D - 1 + Len(buffer')
      <4>1. k # 0 /\ expected' = D
        BY <1>6, <2>1 DEF PartSize, D
      <4>2. sent = f[k] - D - 1 + Len(buffer')
        BY <1>7, <2>1 DEF PartAt, D
      <4> QED
        BY <1>8, <1>12, <2>1, <4>1, <4>2
    <3>2. Len(buffer') # 0
      <4>1. buffer' # <<>> /\ buffer' = Unpack!Bytes(PartAt(f, expecting', k), Len(buffer'))
        BY <1>4, <1>12, <2>1 DEF Reading, k
      <4> QED
        BY <4>1, NoBytes
    <3>3. CASE k = L + 1
      <4>1. f[k] \in Nat /\ sent = Unpack!Total + Len(buffer')
        BY <1>2, <1>9, <3>1, <3>3
      <4> QED
        BY <1>1, <1>2, <1>9, <3>2, <4>1
    <3>4. CASE k # L + 1
      <4>1. k \in 1 .. L /\ k \in 1 .. L + 1
        BY <1>2, <1>6, <3>1, <3>4
      <4>2. f[k] + lens[k] - 1 <= Unpack!Total /\ f[k] \in Nat /\ lens[k] \in Nat
        BY <1>2, <1>10, <4>1
      <4> QED
        BY <1>0, <1>9, <3>1, <4>2
    <3> QED
      BY <3>3, <3>4
  <2>2. CASE expecting' = "data" /\ k = 0
    <3>1. expected' = D /\ sent = 1 - 1 + Len(buffer') /\ (buffer' = <<>> \/ Len(buffer') < D)
      BY <1>6, <1>7, <1>8, <2>2 DEF PartAt, PartSize, D
    <3> QED
      BY <1>2, <1>9, <1>11, <3>1
  <2>3. CASE expecting' = "data" /\ k # 0
    <3>1. /\ expected' = lens[k] /\ sent = f[k] - 1 + Len(buffer')
          /\ buffer' = <<>> \/ Len(buffer') < lens[k]
      BY <1>6, <1>7, <1>8, <2>3 DEF PartAt, PartSize
    <3>2. k \in 1 .. L /\ k \in 1 .. L + 1
      BY <1>2, <1>6, <2>3
    <3>3. f[k] + lens[k] - 1 <= Unpack!Total /\ f[k] \in Nat /\ lens[k] \in Nat
      BY <1>2, <1>10, <3>2
    <3>4. CASE lens[k] # 0
      BY <1>0, <1>9, <3>1, <3>3, <3>4
    <3>5. CASE lens[k] = 0 /\ k = L
      BY <1>2, <3>2, <3>5 DEF L
    <3>6. CASE lens[k] = 0 /\ k # L
      <4>1. k + 1 \in 1 .. L /\ k + 1 \in 1 .. L + 1 /\ k < k + 1
        BY <1>2, <3>2, <3>6
      <4>2. f[k] + lens[k] + D <= f[k + 1]
        BY <1>2, <1>5, <3>2, <4>1, StartsAscend DEF L, D
      <4>3. f[k + 1] + lens[k + 1] - 1 <= Unpack!Total /\ f[k + 1] \in Nat /\ lens[k + 1] \in Nat
        BY <1>2, <1>10, <4>1
      <4>4. sent = f[k] - 1
        BY <1>9, <3>1, <3>3, <3>6
      <4> DEFINE a == f[k]
                 b == f[k + 1]
                 m == lens[k + 1]
      <4>5. /\ a \in Nat /\ b \in Nat /\ m \in Nat /\ a + 0 + D <= b /\ b + m - 1 <= Unpack!Total
            /\ sent = a - 1
        BY <3>3, <3>6, <4>2, <4>3, <4>4
      <4> HIDE DEF a, b, m
      <4>6. sent < Unpack!Total
        BY <1>0, <4>5
      <4> QED
        BY <4>6
    <3> QED
      BY <3>4, <3>5, <3>6
  <2> QED
    BY <1>6, <2>1, <2>2, <2>3
<1>13. status' = "rejected" => sent' < Unpack!Total \/ (lens # <<>> /\ Unpack!Last(lens) = 0)
  BY <1>1, <1>12 DEF Unpack!Last
<1> QED
  BY <1>1, <1>4, <1>13, UnpackHolds DEF f

LEMMA NextUnpack ==
  ASSUME Unpack!ConstantsFit
  PROVE  UnpackInv /\ [Unpack!Next]_(Unpack!vars) => UnpackInv'
<1> SUFFICES ASSUME UnpackInv, [Unpack!Next]_(Unpack!vars) PROVE UnpackInv'
  OBVIOUS
<1>1. CASE Unpack!ConsumePart \/ Unpack!ConsumeAll
  BY <1>1, Consumes
<1>2. ASSUME NEW n \in PieceSizes, Unpack!Deliver(n) PROVE UnpackInv'
  BY <1>2, Delivers
<1>3. CASE Unpack!End
  BY <1>3, Ends
<1>4. CASE Unpack!Break \/ UNCHANGED Unpack!vars
  <2>1. /\ lens' = lens /\ sent' = sent /\ nextPiece' = nextPiece /\ buffer' = buffer
        /\ expected' = expected /\ expecting' = expecting /\ yielded' = yielded
        /\ status' \in {status, "broken"}
    BY <1>4 DEF Unpack!Break, Unpack!vars
  <2> QED
    BY <2>1, UnpackHolds DEF UnpackInv, AtPiece, Unpack!WholeFileAccepted
<1> QED
  BY <1>1, <1>2, <1>3, <1>4 DEF Unpack!Next

LEMMA FunctionIsSeq ==
  ASSUME NEW S, NEW n \in Nat, NEW s \in [1 .. n -> S]
  PROVE  s \in Seq(S)
OBVIOUS

\* The places of the parts that were yielded.
LEMMA PartsAre ==
  ASSUME Unpack!ConstantsFit, lens \in Files
  PROVE  /\ Unpack!Parts = [i \in 1 .. Len(lens) + 1 |-> PartOf(Unpack!DataStart, lens, i)]
         /\ \A i \in 1 .. Len(lens) + 1 :
              PartOf(Unpack!DataStart, lens, i) \in Seq(1 .. Unpack!Total)
<1> DEFINE f == Unpack!DataStart
           D == DelimiterSize
           L == Len(lens)
           total == Unpack!Total
<1>1. /\ D \in Nat \ {0} /\ L \in Nat /\ lens \in Seq(Nat) /\ \A i \in 1 .. L : lens[i] \in Nat
      /\ \A i \in 1 .. L + 1 : f[i] \in Nat
      /\ f[1] = 1 + 2 * D /\ IsStarts(f, lens)
      /\ total = f[L + 1] - 1 - D /\ total \in Nat
  BY FileParts, StartsCounted
<1>2. Unpack!Parts = [i \in 1 .. L + 1 |-> PartOf(f, lens, i)]
  <2> DEFINE P(i) == Unpack!Bytes(f[i], lens[i])
             first == Unpack!Bytes(1, D)
  <2>1. Unpack!Parts = <<first>> \o [i \in 1 .. L |-> P(i)]
    <3>1. DOMAIN lens = 1 .. L
      BY <1>1
    <3> QED
      BY <3>1 DEF Unpack!Parts
  <2>2. \A i \in 1 .. L + 1 : PartOf(f, lens, i) = IF i = 1 THEN first ELSE P(i - 1)
    BY DEF PartOf
  <2> HIDE DEF P, first, f, L
  <2>3. <<first>> \o [i \in 1 .. L |-> P(i)] = [i \in 1 .. L + 1 |-> IF i = 1 THEN first ELSE P(i - 1)]
    BY <1>1
  <2> QED
    BY <2>1, <2>2, <2>3
<1> HIDE DEF f, D, total
<1>3. ASSUME NEW i \in 1 .. L + 1 PROVE PartOf(f, lens, i) \in Seq(1 .. total)
  <2>1. ASSUME NEW a \in Nat \ {0}, NEW n \in Nat, a + n - 1 <= total
        PROVE  Unpack!Bytes(a, n) \in Seq(1 .. total)
    <3>1. \A j \in 1 .. n : a + j - 1 \in 1 .. total
      BY <1>1, <2>1
    <3>2. Unpack!Bytes(a, n) \in [1 .. n -> 1 .. total]
      BY <3>1 DEF Unpack!Bytes
    <3> QED
      BY <3>2, FunctionIsSeq
  <2>2. ASSUME NEW j \in 1 .. L PROVE f[j] \in Nat \ {0} /\ f[j] + lens[j] - 1 <= total
    <3>1. j \in 1 .. L + 1 /\ L + 1 \in 1 .. L + 1 /\ j < L + 1
      BY <1>1
    <3>2. f[j] + lens[j] + D <= f[L + 1]
      BY <1>1, <3>1, StartsAscend DEF D
    <3>3. f[j] \in Nat /\ lens[j] \in Nat /\ f[L + 1] \in Nat
      BY <1>1, <3>1
    <3>4. PartAt(f, "delimiter", j) \in Nat \ {0}
      <4>1. j \in 0 .. L + 1 /\ j # 0
        BY <1>1
      <4> QED
        BY <4>1, PartTypes DEF f
    <3>5. f[j] - D \in Nat \ {0}
      BY <3>4 DEF PartAt, D
    <3>6. D \in Nat \ {0} /\ total = f[L + 1] - 1 - D
      BY <1>1
    <3> DEFINE a == f[j]
               l == lens[j]
               b == f[L + 1]
    <3>7. /\ a \in Nat /\ l \in Nat /\ b \in Nat /\ D \in Nat \ {0} /\ a - D \in Nat \ {0}
          /\ a + l + D <= b /\ total = b - 1 - D
      BY <3>2, <3>3, <3>5, <3>6
    <3> HIDE DEF a, l, b
    <3>8. a \in Nat \ {0} /\ a + l - 1 <= total
      BY <3>7
    <3> QED
      BY <3>8 DEF a, l
  <2>3. CASE i = 1
    <3>1. D \in Nat \ {0} /\ total \in Nat /\ D <= total
      <4>1. CASE L = 0
        BY <1>1, <4>1
      <4>2. CASE L # 0
        <5>1. 1 \in 1 .. L /\ lens[1] \in Nat
          BY <1>1, <4>2
        <5>2. f[1] + lens[1] - 1 <= total /\ f[1] = 1 + 2 * D
          BY <1>1, <2>2, <5>1
        <5>3. D \in Nat \ {0} /\ total \in Nat
          BY <1>1
        <5> QED
          BY <5>1, <5>2, <5>3
      <4> QED
        BY <4>1, <4>2
    <3>2. 1 \in Nat \ {0} /\ D \in Nat /\ 1 + D - 1 <= total
      BY <3>1
    <3> QED
      BY <2>1, <2>3, <3>2 DEF PartOf, D
  <2>4. CASE i # 1
    <3>1. i - 1 \in 1 .. L
      BY <1>1, <2>4
    <3>2. f[i - 1] \in Nat \ {0} /\ lens[i - 1] \in Nat /\ f[i - 1] + lens[i - 1] - 1 <= total
      BY <1>1, <2>2, <3>1
    <3> QED
      BY <2>1, <2>4, <3>2 DEF PartOf
  <2> QED
    BY <2>3, <2>4
<1> QED
  BY <1>2, <1>3 DEF f, total

LEMMA UnpackTypes ==
  ASSUME Unpack!ConstantsFit, UnpackInv
  PROVE  Unpack!TypeOK /\ Unpack!PartsInOrder /\ Unpack!AcceptedAtPartEnd
<1> DEFINE f == Unpack!DataStart
           k == Len(yielded)
           L == Len(lens)
           total == Unpack!Total
           used == Used(f, yielded, expecting, buffer)
           first == PartAt(f, expecting, k)
<1>1. /\ lens \in Files /\ sent \in 0 .. total /\ total \in Nat
      /\ Reading(f, lens, yielded, expecting, expected, buffer)
      /\ L \in Nat /\ k \in 0 .. L + 1
      /\ yielded = [i \in 1 .. k |-> PartOf(f, lens, i)]
      /\ buffer = Unpack!Bytes(first, Len(buffer))
  BY FileParts DEF UnpackInv, Reading
<1>2. /\ first \in Nat \ {0} /\ expected \in Nat /\ Len(buffer) \in 0 .. expected /\ used \in Nat
      /\ used = first - 1 + Len(buffer)
  BY <1>1, UsedTypes DEF Used
<1>3. /\ Unpack!Parts = [i \in 1 .. L + 1 |-> PartOf(f, lens, i)]
      /\ \A i \in 1 .. L + 1 : PartOf(f, lens, i) \in Seq(1 .. total)
  BY <1>1, PartsAre
<1>4. used <= sent /\ (nextPiece # Waiting => nextPiece = Unpack!Bytes(used + 1, Len(nextPiece))
                                  /\ Len(nextPiece) \in Nat /\ used + Len(nextPiece) = sent)
  BY <1>1, <1>2 DEF UnpackInv, AtPiece
<1>5. ASSUME NEW a \in Nat \ {0}, NEW n \in Nat, a + n - 1 <= total
      PROVE  Unpack!Bytes(a, n) \in Seq(1 .. total)
  <2> HIDE DEF total, f, k, L, used, first
  <2>1. \A j \in 1 .. n : a + j - 1 \in 1 .. total
    BY <1>1, <1>5
  <2>2. Unpack!Bytes(a, n) \in [1 .. n -> 1 .. total]
    BY <2>1 DEF Unpack!Bytes
  <2> QED
    BY <2>2, FunctionIsSeq
<1> HIDE DEF total, f, k, L, used, first
<1>6. buffer \in Seq(1 .. total)
  <2>1. Len(buffer) \in Nat /\ first + Len(buffer) - 1 <= total
    BY <1>1, <1>2, <1>4
  <2> QED
    BY <1>1, <1>2, <1>5, <2>1
<1>7. nextPiece = Waiting \/ nextPiece \in Seq(1 .. total)
  <2> SUFFICES ASSUME nextPiece # Waiting PROVE nextPiece \in Seq(1 .. total)
    OBVIOUS
  <2>1. used + 1 \in Nat \ {0} /\ used + 1 + Len(nextPiece) - 1 <= total /\ Len(nextPiece) \in Nat
    BY <1>1, <1>2, <1>4
  <2>2. Unpack!Bytes(used + 1, Len(nextPiece)) \in Seq(1 .. total)
    BY <1>5, <2>1
  <2> QED
    BY <1>4, <2>2
<1>8. k \in Nat /\ \A i \in 1 .. k : i \in 1 .. L + 1
  BY <1>1
<1>9. yielded \in Seq(Seq(1 .. total))
  <2>1. yielded \in [1 .. k -> Seq(1 .. total)]
    BY <1>1, <1>3, <1>8
  <2> QED
    BY <1>8, <2>1, FunctionIsSeq
<1>10. Unpack!TypeOK
  BY <1>1, <1>2, <1>6, <1>7, <1>9 DEF UnpackInv, Reading, Unpack!TypeOK, total
<1>11. Unpack!PartsInOrder
  <2> DEFINE P(i) == PartOf(f, lens, i)
  <2>1. Unpack!Parts = [i \in 1 .. L + 1 |-> P(i)] /\ yielded = [i \in 1 .. k |-> P(i)]
    BY <1>1, <1>3
  <2> HIDE DEF P
  <2>2. /\ Len(Unpack!Parts) = L + 1 /\ Len(yielded) = k /\ k <= L + 1
        /\ SubSeq(Unpack!Parts, 1, k) = yielded /\ SubSeq(yielded, 1, k) = yielded
    BY <1>1, <1>8, <2>1 DEF k
  <2> QED
    BY <1>8, <2>2 DEF Unpack!PartsInOrder, Unpack!IsPrefix, k
<1>12. Unpack!AcceptedAtPartEnd
  <2> SUFFICES ASSUME status = "done"
               PROVE  yielded # <<>> /\ sent = f[k] - 1 - DelimiterSize
    BY DEF Unpack!AcceptedAtPartEnd, f, k
  <2>1. buffer = <<>> /\ expecting = "delimiter" /\ nextPiece = Waiting
    BY DEF UnpackInv
  <2>2. k # 0 /\ Len(buffer) = 0 /\ first = f[k] - DelimiterSize
    BY <1>1, <2>1 DEF Reading, k, first, PartAt
  <2>3. sent = used
    BY <2>1 DEF UnpackInv, AtPiece, used, f
  <2>4. f[k] \in Nat /\ DelimiterSize \in Nat
    <3>1. k \in 1 .. L + 1
      BY <1>1, <1>8, <2>2
    <3> QED
      BY <1>1, <3>1, FileParts DEF f, L
  <2> QED
    BY <1>2, <2>2, <2>3, <2>4 DEF k
<1> QED
  BY <1>10, <1>11, <1>12

\* Every variable of the generator keeps its type; the buffer never has more
\* bytes than the part that is read.
THEOREM UnpackTypeCorrect ==
  ASSUME Unpack!ConstantsFit
  PROVE  Unpack!Spec => []Unpack!TypeOK
<1>1. UnpackInv => Unpack!TypeOK
  BY UnpackTypes
<1>2. Unpack!Init => UnpackInv
  BY InitUnpack
<1> QED
  BY <1>1, <1>2, NextUnpack, PTL DEF Unpack!Spec

\* However the network cuts the stream, the parts come in order, each with its
\* own bytes, a stream is accepted at the end of a part only, and a complete
\* file is accepted, for any lengths of chunks, pieces and delimiters.
THEOREM FilesAreUnpacked ==
  ASSUME Unpack!ConstantsFit
  PROVE  Unpack!Spec => []FilesUnpack
<1>1. UnpackInv => FilesUnpack
  BY UnpackTypes DEF UnpackInv, FilesUnpack
<1>2. Unpack!Init => UnpackInv
  BY InitUnpack
<1> QED
  BY <1>1, <1>2, NextUnpack, PTL DEF Unpack!Spec

-----------------------------------------------------------------------------
\* Terms of corpus queries.

\* A set of at most three atoms has a finite number of each kind.
LEMMA SmallSetsAreFinite ==
  ASSUME NEW a, NEW b, NEW c, NEW S \in SUBSET {a, b, c}
  PROVE  IsFiniteSet(S)
<1>1. IsFiniteSet({a})
  BY FS_Singleton
<1>2. IsFiniteSet({a} \cup {b})
  BY <1>1, FS_AddElement
<1>3. IsFiniteSet(({a} \cup {b}) \cup {c})
  BY <1>2, FS_AddElement
<1>4. ({a} \cup {b}) \cup {c} = {a, b, c}
  OBVIOUS
<1> QED
  BY <1>3, <1>4, FS_Subset

\* The module counts as the library does.
LEMMA SameCardinality ==
  \A S : Term!Cardinality(S) = Cardinality(S)
BY DEF Term!Cardinality, Cardinality

\* What the pruning asks of a number of atoms.
LEMMA TwoDiffer ==
  ASSUME NEW S, IsFiniteSet(S)
  PROVE  /\ Cardinality(S) \in Nat
         /\ Cardinality(S) > 0 <=> S # {}
         /\ Cardinality(S) > 1 <=> \E x, y \in S : x # y
<1>1. Cardinality(S) \in Nat /\ (Cardinality(S) = 0 <=> S = {})
  BY FS_CardinalityType, FS_EmptySet
<1>2. Cardinality(S) = 1 <=> \E x : S = {x}
  BY FS_Singleton
<1>3. (\E x, y \in S : x # y) <=> S # {} /\ ~ \E x : S = {x}
  OBVIOUS
<1>4. Cardinality(S) > 1 <=> Cardinality(S) # 0 /\ Cardinality(S) # 1
  BY <1>1
<1> QED
  BY <1>1, <1>2, <1>3, <1>4

\* A term has one to three atoms, in any order.
LEMMA TermIsSmall ==
  ASSUME NEW t \in Term!Terms
  PROVE  /\ t.op \in {"atom", "and", "or"} /\ t.atoms \subseteq Atoms /\ t.atoms # {}
         /\ t.op = "atom" => \E a \in Atoms : t.atoms = {a}
         /\ \A S \in SUBSET t.atoms : IsFiniteSet(S)
<1>1. CASE \E a \in Atoms : t = [op |-> "atom", atoms |-> {a}]
  <2>1. PICK a \in Atoms : t = [op |-> "atom", atoms |-> {a}]
    BY <1>1
  <2>2. t.atoms = {a, a, a}
    BY <2>1
  <2> QED
    BY <2>1, <2>2, SmallSetsAreFinite
<1>2. CASE \E o \in {"and", "or"}, a, b, c \in Atoms : t = [op |-> o, atoms |-> {a, b, c}]
  <2>1. PICK o \in {"and", "or"}, a, b, c \in Atoms : t = [op |-> o, atoms |-> {a, b, c}]
    BY <1>2
  <2> QED
    BY <2>1, SmallSetsAreFinite
<1>3. \/ \E a \in Atoms : t = [op |-> "atom", atoms |-> {a}]
      \/ \E o \in {"and", "or"}, A \in {{a, b, c} : a, b, c \in Atoms} : t = [op |-> o, atoms |-> A]
  BY DEF Term!Terms
<1> QED
  BY <1>1, <1>2, <1>3

\* Fields of different categories are read together.
LEMMA FieldsHaveReading ==
  ASSUME NEW n, NEW A \in SUBSET n.fields,
         \A f, g \in A : Term!Category(f) = Term!Category(g) => f = g
  PROVE  \E r \in Term!Readings(n) : A \subseteq r /\ <<"lemma", n.lemma>> \in r
<1> DEFINE Chosen(f) == CHOOSE g \in n.fields : Term!Category(g) = Term!Category(f)
           Rest == {f \in n.fields : f = Chosen(f) /\ \A a \in A : Term!Category(a) # Term!Category(f)}
           G == A \cup Rest
<1>1. \A f \in n.fields : /\ Chosen(f) \in n.fields
                          /\ Term!Category(Chosen(f)) = Term!Category(f)
  OBVIOUS
<1>2. \A f, g \in n.fields : Term!Category(f) = Term!Category(g) => Chosen(f) = Chosen(g)
  OBVIOUS
<1> HIDE DEF Chosen
<1>3. ASSUME NEW f \in G, NEW g \in G, Term!Category(f) = Term!Category(g) PROVE f = g
  BY <1>2, <1>3
<1>4. ASSUME NEW f \in n.fields PROVE \E g \in G : Term!Category(g) = Term!Category(f)
  <2>1. CASE \E a \in A : Term!Category(a) = Term!Category(f)
    BY <2>1
  <2>2. CASE \A a \in A : Term!Category(a) # Term!Category(f)
    <3>1. Chosen(Chosen(f)) = Chosen(f)
      BY <1>1, <1>2
    <3> QED
      BY <1>1, <2>2, <3>1
  <2> QED
    BY <2>1, <2>2
<1>5. G \in SUBSET n.fields
  OBVIOUS
<1>6. {<<"lemma", n.lemma>>} \cup G \in Term!Readings(n)
  <2> HIDE DEF G
  <2> QED
    BY <1>3, <1>4, <1>5 DEF Term!Readings
<1> QED
  BY <1>6

\* A reading is the lemma and a choice of fields.
LEMMA ReadingsAreFields ==
  ASSUME NEW n, NEW r \in Term!Readings(n)
  PROVE  \E F \in SUBSET n.fields :
           /\ r = {<<"lemma", n.lemma>>} \cup F
           /\ \A f, g \in F : Term!Category(f) = Term!Category(g) => f = g
           /\ \A f \in n.fields : \E g \in F : Term!Category(g) = Term!Category(f)
BY DEF Term!Readings

\* An atom at a token is in one of its readings, or is its word.
Truths(k, r) == r \cup {<<"word", WordOf[k]>>}

\* An index has the tokens at which its atom is true.
LEMMA IndexIsTrue ==
  ASSUME Term!ConstantsFit, NEW k \in Tokens, NEW a \in Atoms
  PROVE  k \in Term!Index(a) <=>
           \/ a = <<"word", WordOf[k]>>
           \/ Term!Category(a) # "word" /\ \E n \in AnalysesOf[k] : a = <<"lemma", n.lemma>> \/ a \in n.fields
<1>1. a = <<Term!Category(a), Term!Value(a)>>
  BY DEF Term!ConstantsFit
<1>2. Term!Category(<<"word", WordOf[k]>>) = "word" /\ Term!Value(<<"word", WordOf[k]>>) = WordOf[k]
  BY DEF Term!Category, Term!Value
<1>3. CASE Term!Category(a) = "word"
  BY <1>1, <1>2, <1>3 DEF Term!Index
<1>4. CASE Term!Category(a) # "word"
  BY <1>2, <1>4 DEF Term!Index
<1> QED
  BY <1>3, <1>4

\* What a token with a reading makes true.
LEMMA AtomIsTrue ==
  ASSUME Term!ConstantsFit, NEW k \in Tokens, NEW n \in AnalysesOf[k],
         NEW r \in Term!Readings(n), NEW a \in Atoms
  PROVE  /\ a \in r => a = <<"lemma", n.lemma>> \/ a \in n.fields
         /\ Term!Category(a) = "word" => a \notin r
         /\ Term!Category(a) # "word" => a # <<"word", WordOf[k]>>
         /\ Term!Category(a) = "lemma" /\ a \in r => a = <<"lemma", n.lemma>>
         /\ a = <<"lemma", n.lemma>> => a \in r
         /\ Term!Category(a) \notin {"word", "lemma"} /\ a \in r => a \in n.fields
<1>1. PICK F \in SUBSET n.fields : r = {<<"lemma", n.lemma>>} \cup F
  BY ReadingsAreFields
<1>2. \A f \in n.fields : Term!Category(f) \notin {"word", "lemma"}
  BY DEF Term!ConstantsFit, Term!IsAnalysis
<1>3. Term!Category(<<"lemma", n.lemma>>) = "lemma" /\ Term!Category(<<"word", WordOf[k]>>) = "word"
  BY DEF Term!Category
<1> QED
  BY <1>1, <1>2, <1>3

\* A set of atoms with one word at most for each category, of an analysis.
Wanted(t) == Term!Inflections(t.atoms)

LEMMA AtomsByCategory ==
  ASSUME Term!ConstantsFit, NEW t \in Term!Terms, NEW a \in t.atoms
  PROVE  /\ a \in Atoms /\ a = <<Term!Category(a), Term!Value(a)>>
         /\ Term!Category(a) = "lemma" <=> a \in Term!Lemmata(t.atoms)
         /\ Term!Category(a) \notin {"word", "lemma"} <=> a \in Wanted(t)
BY TermIsSmall DEF Term!ConstantsFit, Term!Lemmata, Term!Inflections, Wanted

\* A conjunction that is not pruned has one lemma at most, and its fields in an
\* analysis are of different categories.
LEMMA KeptConjunction ==
  ASSUME Term!ConstantsFit, NEW t \in Term!Terms, t.op = "and", ~ Term!Impossible(t)
  PROVE  /\ \A a, b \in Term!Lemmata(t.atoms) : a = b
         /\ \A k \in Tokens : \A n \in AnalysesOf[k] : Wanted(t) \subseteq n.fields =>
              \A f, g \in Wanted(t) : Term!Category(f) = Term!Category(g) => f = g
<1>1. Term!Lemmata(t.atoms) \in SUBSET t.atoms
  BY DEF Term!Lemmata
<1>2. \A a, b \in Term!Lemmata(t.atoms) : a = b
  <2>1. IsFiniteSet(Term!Lemmata(t.atoms))
    BY <1>1, TermIsSmall
  <2>2. ~ Cardinality(Term!Lemmata(t.atoms)) > 1
    BY SameCardinality DEF Term!Impossible
  <2> QED
    BY <2>1, <2>2, TwoDiffer
<1>3. ASSUME NEW k \in Tokens, NEW n \in AnalysesOf[k], Wanted(t) \subseteq n.fields,
             NEW f \in Wanted(t), NEW g \in Wanted(t), Term!Category(f) = Term!Category(g)
      PROVE  f = g
  <2>1. f \in t.atoms /\ g \in t.atoms
    BY DEF Wanted, Term!Inflections
  <2>2. CASE Term!Category(f) = "degree"
    BY <1>3, <2>2 DEF Term!ConstantsFit, Term!IsAnalysis
  <2>3. CASE Term!Category(f) # "degree"
    <3>1. Term!Value(f) = Term!Value(g)
      BY <1>3, <2>3 DEF Term!Impossible, Term!ConjunctionImpossible, Wanted
    <3> QED
      BY <1>3, <2>1, <3>1, AtomsByCategory
  <2> QED
    BY <2>2, <2>3
<1> QED
  BY <1>2, <1>3

\* A reading meets a term if the atoms that it makes true are those of the term.
LEMMA TruthMeets ==
  ASSUME NEW k, NEW r, NEW t
  PROVE  /\ t.op = "or" => (Term!Meets(k, r, t) <=> t.atoms \cap Truths(k, r) # {})
         /\ t.op # "or" => (Term!Meets(k, r, t) <=> t.atoms \subseteq Truths(k, r))
BY DEF Term!Meets, Truths

\* A token may be asked for by its word alone.
LEMMA PossibleByReading ==
  ASSUME NEW k, NEW t
  PROVE  /\ Term!Meets(k, {}, t) => Term!Possible(k, t)
         /\ \A n \in AnalysesOf[k] : \A r \in Term!Readings(n) : Term!Meets(k, r, t) => Term!Possible(k, t)
BY DEF Term!Possible, Term!AllReadings

\* A token that is found by one atom has a reading with it.
LEMMA OneAtomIsPossible ==
  ASSUME Term!ConstantsFit, NEW t \in Term!Terms, NEW k \in Tokens,
         NEW a \in t.atoms, k \in Term!Index(a), t.op = "or" \/ t.atoms = {a}
  PROVE  Term!Possible(k, t)
<1>0. a \in Atoms
  BY TermIsSmall
<1>1. CASE a = <<"word", WordOf[k]>>
  BY <1>1, TruthMeets, PossibleByReading DEF Truths
<1>2. CASE \E n \in AnalysesOf[k] : a = <<"lemma", n.lemma>> \/ a \in n.fields
  <2>1. PICK n \in AnalysesOf[k] : a = <<"lemma", n.lemma>> \/ a \in n.fields
    BY <1>2
  <2>2. PICK r \in Term!Readings(n) : a \in r
    <3>1. CASE a = <<"lemma", n.lemma>>
      BY <3>1, FieldsHaveReading, {} \in SUBSET n.fields
    <3>2. CASE a \in n.fields
      BY <3>2, FieldsHaveReading, {a} \in SUBSET n.fields
    <3> QED
      BY <2>1, <3>1, <3>2
  <2>3. Term!Meets(k, r, t)
    BY <2>2, TruthMeets DEF Truths
  <2> QED
    BY <2>3, PossibleByReading
<1> QED
  BY <1>0, <1>1, <1>2, IndexIsTrue

\* The analyses that are stored of a token that some field or lemma has found.
LEMMA StoredAreItsOwn ==
  ASSUME Term!ConstantsFit, NEW k \in Tokens, NEW a \in Atoms, k \in Term!Index(a), Term!Category(a) # "word"
  PROVE  Term!StoredAnalyses(k) = AnalysesOf[k] /\ AnalysesOf[k] # {}
<1>1. a # <<"word", WordOf[k]>>
  BY DEF Term!Category
<1> QED
  BY <1>1, IndexIsTrue DEF Term!StoredAnalyses

\* A conjunction with fields or lemmata is met by one analysis.
LEMMA ConjunctionHasAnalysis ==
  ASSUME Term!ConstantsFit, NEW t \in Term!Terms, t.op = "and", NEW strictly \in BOOLEAN,
         NEW k \in Term!Answer(t, strictly), NEW a \in t.atoms, Term!Category(a) # "word"
  PROVE  \E n \in AnalysesOf[k] :
           /\ Wanted(t) \subseteq n.fields
           /\ \A b \in Term!Lemmata(t.atoms) : b = <<"lemma", n.lemma>>
<1> DEFINE S == Term!Lemmata(t.atoms) \cup Wanted(t)
<1>1. /\ k \in Tokens /\ \A b \in t.atoms : b \in Atoms /\ k \in Term!Index(b)
      /\ Term!HasMatchingInflections(k, t, strictly)
  BY TermIsSmall DEF Term!Answer, Term!Candidates
<1>2. S \in SUBSET t.atoms /\ a \in S
  BY AtomsByCategory DEF Term!Lemmata, Term!Inflections, Wanted
<1>3. /\ Cardinality(S) \in Nat /\ Cardinality(S) > 0
      /\ Cardinality(S) > 1 <=> \E x, y \in S : x # y
  BY <1>2, TermIsSmall, TwoDiffer
<1>4. Term!StoredAnalyses(k) = AnalysesOf[k] /\ AnalysesOf[k] # {}
  BY <1>1, StoredAreItsOwn
<1>5. CASE \E x, y \in S : x # y
  <2>1. Term!NeedsValidation(t, strictly)
    <3>1. Cardinality(S) > 0 /\ Cardinality(S) > 1
      BY <1>3, <1>5
    <3>2. Term!NeedsValidation(t, strictly) <=> Cardinality(S) > (IF strictly THEN 0 ELSE 1)
      BY SameCardinality DEF Term!NeedsValidation, Wanted
    <3> QED
      BY <3>1, <3>2
  <2>2. PICK n \in AnalysesOf[k] : Term!DoesInflectionMatch(n, t, strictly)
    BY <1>1, <1>4, <2>1 DEF Term!HasMatchingInflections
  <2>3. /\ Wanted(t) \subseteq n.fields
        /\ \A l \in {Term!Value(b) : b \in Term!Lemmata(t.atoms)} : l = n.lemma
    BY <2>2 DEF Term!DoesInflectionMatch, Wanted
  <2>4. \A b \in Term!Lemmata(t.atoms) : b = <<"lemma", n.lemma>>
    BY <1>2, <2>3, AtomsByCategory
  <2> QED
    BY <2>3, <2>4
<1>6. CASE \A x, y \in S : x = y
  <2>1. PICK n \in AnalysesOf[k] : a = <<"lemma", n.lemma>> \/ a \in n.fields
    <3>1. a # <<"word", WordOf[k]>>
      BY DEF Term!Category
    <3> QED
      BY <1>1, <3>1, IndexIsTrue
  <2>2. Term!Category(<<"lemma", n.lemma>>) = "lemma"
    BY DEF Term!Category
  <2>3. a \in n.fields => Term!Category(a) \notin {"word", "lemma"}
    BY <1>1 DEF Term!ConstantsFit, Term!IsAnalysis
  <2> QED
    BY <1>2, <1>6, <2>1, <2>2, <2>3, AtomsByCategory
<1> QED
  BY <1>5, <1>6

\* A token of an answer has a reading that meets the term.
LEMMA AnswersArePossible ==
  ASSUME Term!ConstantsFit, NEW t \in Term!Terms, NEW strictly \in BOOLEAN,
         NEW k \in Term!Answer(t, strictly)
  PROVE  Term!Possible(k, t)
<1>1. k \in Tokens /\ k \in Term!Candidates(t) /\ ~ Term!Impossible(t)
  BY DEF Term!Answer, Term!Candidates, Term!Index
<1>2. CASE t.op # "and"
  <2>1. PICK a \in t.atoms : k \in Term!Index(a) /\ (t.op = "or" \/ t.atoms = {a})
    BY <1>1, <1>2, TermIsSmall DEF Term!Candidates
  <2> QED
    BY <1>1, <2>1, OneAtomIsPossible
<1>3. CASE t.op = "and" /\ \A a \in t.atoms : Term!Category(a) = "word"
  <2>1. \A a \in t.atoms : a \in Atoms /\ k \in Term!Index(a)
    BY <1>1, <1>3, TermIsSmall DEF Term!Candidates
  <2>2. t.atoms \subseteq Truths(k, {})
    BY <1>1, <1>3, <2>1, IndexIsTrue DEF Truths
  <2> QED
    BY <1>3, <2>2, TruthMeets, PossibleByReading
<1>4. CASE t.op = "and" /\ \E a \in t.atoms : Term!Category(a) # "word"
  <2>1. PICK n \in AnalysesOf[k] :
           /\ Wanted(t) \subseteq n.fields
           /\ \A b \in Term!Lemmata(t.atoms) : b = <<"lemma", n.lemma>>
    BY <1>4, ConjunctionHasAnalysis
  <2>2. PICK r \in Term!Readings(n) : Wanted(t) \subseteq r /\ <<"lemma", n.lemma>> \in r
    BY <1>1, <1>4, <2>1, KeptConjunction, FieldsHaveReading
  <2>3. \A a \in t.atoms : a \in Truths(k, r)
    <3> SUFFICES ASSUME NEW a \in t.atoms PROVE a \in Truths(k, r)
      OBVIOUS
    <3>1. CASE Term!Category(a) = "word"
      <4>1. a \in Atoms /\ k \in Term!Index(a)
        BY <1>1, <1>4, TermIsSmall DEF Term!Candidates
      <4> QED
        BY <1>1, <3>1, <4>1, IndexIsTrue DEF Truths
    <3>2. CASE Term!Category(a) # "word"
      BY <2>1, <2>2, <3>2, AtomsByCategory DEF Truths
    <3> QED
      BY <3>1, <3>2
  <2> QED
    BY <1>4, <2>3, TruthMeets, PossibleByReading
<1> QED
  BY <1>2, <1>3, <1>4

\* In strict mode each of its readings does.
LEMMA StrictAnswersAreUnambiguous ==
  ASSUME Term!ConstantsFit, NEW t \in Term!Terms, NEW k \in Term!Answer(t, TRUE)
  PROVE  Term!Unambiguous(k, t)
<1>1. k \in Tokens /\ k \in Term!Candidates(t) /\ ~ Term!Impossible(t) /\ Term!HasMatchingInflections(k, t, TRUE)
  BY DEF Term!Answer, Term!Candidates, Term!Index
<1> SUFFICES ASSUME NEW n \in AnalysesOf[k], NEW r \in Term!Readings(n) PROVE Term!Meets(k, r, t)
  BY DEF Term!Unambiguous, Term!AllReadings
<1>2. PICK F \in SUBSET n.fields :
         /\ r = {<<"lemma", n.lemma>>} \cup F
         /\ \A f \in n.fields : \E g \in F : Term!Category(g) = Term!Category(f)
  BY ReadingsAreFields
<1>3. /\ t.op = "or" => \E a \in t.atoms : a \in Atoms /\ k \in Term!Index(a)
      /\ t.op # "or" => \A a \in t.atoms : a \in Atoms /\ k \in Term!Index(a)
  BY <1>1, TermIsSmall DEF Term!Candidates
<1>4. \A a \in t.atoms : Term!Category(a) = "word" /\ k \in Term!Index(a) => a \in Truths(k, r)
  BY <1>1, TermIsSmall, IndexIsTrue DEF Truths
<1>5. CASE \A a \in t.atoms : Term!Category(a) = "word"
  BY <1>3, <1>4, <1>5, TruthMeets
<1>6. CASE \E a \in t.atoms : Term!Category(a) # "word"
  <2> DEFINE S == Term!Lemmata(t.atoms) \cup Wanted(t)
  <2>1. S # {} /\ S \in SUBSET t.atoms
    BY <1>6, AtomsByCategory DEF Term!Lemmata, Term!Inflections, Wanted
  <2>2. Cardinality(S) > 0
    BY <2>1, TermIsSmall, TwoDiffer
  <2>3. Term!NeedsValidation(t, TRUE)
    <3>1. Term!NeedsValidation(t, TRUE) <=> Cardinality(S) > 0
      BY SameCardinality DEF Term!NeedsValidation, Wanted
    <3> QED
      BY <2>2, <3>1
  <2>4. Term!DoesInflectionMatch(n, t, TRUE)
    BY <1>1, <2>3 DEF Term!HasMatchingInflections, Term!StoredAnalyses
  <2>5. CASE t.op = "and"
    <3>1. /\ Wanted(t) \subseteq n.fields /\ Term!Relevant(n.fields, Wanted(t)) = Wanted(t)
          /\ \A l \in {Term!Value(b) : b \in Term!Lemmata(t.atoms)} : l = n.lemma
      BY <2>4, <2>5 DEF Term!DoesInflectionMatch, Wanted
    <3>2. ASSUME NEW a \in Wanted(t) PROVE a \in F
      <4>1. PICK g \in F : Term!Category(g) = Term!Category(a)
        BY <1>2, <3>1
      <4>2. g \in Wanted(t)
        BY <3>1, <4>1 DEF Term!Relevant
      <4> QED
        BY <1>1, <2>5, <3>1, <4>1, <4>2, KeptConjunction
    <3>3. ASSUME NEW a \in Term!Lemmata(t.atoms) PROVE a = <<"lemma", n.lemma>>
      BY <2>1, <3>1, AtomsByCategory
    <3>4. \A a \in t.atoms : a \in Truths(k, r)
      BY <1>2, <1>3, <1>4, <2>5, <3>2, <3>3, AtomsByCategory DEF Truths
    <3> QED
      BY <2>5, <3>4, TruthMeets
  <2>6. CASE t.op # "and"
    <3>1. \/ /\ n.fields \cap Wanted(t) # {}
             /\ Term!Relevant(n.fields, Wanted(t)) \subseteq Wanted(t)
          \/ n.lemma \in {Term!Value(b) : b \in Term!Lemmata(t.atoms)}
      BY <2>4, <2>6 DEF Term!DoesInflectionMatch, Wanted
    <3>2. PICK a \in t.atoms : a \in r
      <4>1. CASE n.lemma \in {Term!Value(b) : b \in Term!Lemmata(t.atoms)}
        BY <1>2, <2>1, <4>1, AtomsByCategory
      <4>2. CASE n.fields \cap Wanted(t) # {} /\ Term!Relevant(n.fields, Wanted(t)) \subseteq Wanted(t)
        <5>1. PICK f \in n.fields : f \in Wanted(t)
          BY <4>2
        <5>2. PICK g \in F : Term!Category(g) = Term!Category(f)
          BY <1>2
        <5>3. g \in Wanted(t)
          BY <4>2, <5>1, <5>2 DEF Term!Relevant
        <5> QED
          BY <1>2, <2>1, <5>3
      <4> QED
        BY <3>1, <4>1, <4>2
    <3> QED
      BY <2>6, <3>2, TermIsSmall, TruthMeets DEF Truths
  <2> QED
    BY <2>5, <2>6
<1> QED
  BY <1>5, <1>6

\* What a verbal noun may be and other forms may not is all that is pruned.
LEMMA PrunedAreVerbalNouns ==
  ASSUME Term!ConstantsFit, NEW t \in Term!Terms, NEW k \in Tokens,
         Term!Possible(k, t), Term!Impossible(t)
  PROVE  Term!IsVerbalNoun(k)
<1>1. t.op = "and" /\ \A S \in SUBSET t.atoms : IsFiniteSet(S)
  BY TermIsSmall DEF Term!Impossible
<1>2. PICK r \in Term!AllReadings(k) \cup {{}} : t.atoms \subseteq Truths(k, r)
  BY <1>1, TruthMeets DEF Term!Possible
<1>3. r # {}
  <2> SUFFICES ASSUME r = {} PROVE FALSE
    OBVIOUS
  <2>1. \A a \in t.atoms : Term!Category(a) = "word"
    BY <1>2 DEF Truths, Term!Category
  <2>2. Term!Lemmata(t.atoms) = {} /\ Wanted(t) = {}
    BY <2>1 DEF Term!Lemmata, Term!Inflections, Wanted
  <2>3. Cardinality({}) = 0
    BY FS_EmptySet
  <2>4. ~ Term!ConjunctionImpossible({})
    BY DEF Term!ConjunctionImpossible, Term!Values
  <2>5. ~ Cardinality({}) > 1
    BY <2>3
  <2> QED
    BY <2>2, <2>4, <2>5, SameCardinality DEF Term!Impossible, Wanted
<1>4. PICK n \in AnalysesOf[k] : r \in Term!Readings(n)
  BY <1>2, <1>3 DEF Term!AllReadings
<1>5. PICK F \in SUBSET n.fields :
         /\ r = {<<"lemma", n.lemma>>} \cup F
         /\ \A f, g \in F : Term!Category(f) = Term!Category(g) => f = g
  BY <1>4, ReadingsAreFields
<1>6. Wanted(t) \subseteq F /\ \A a \in Term!Lemmata(t.atoms) : a = <<"lemma", n.lemma>>
  BY <1>2, <1>4, <1>5, AtomIsTrue, AtomsByCategory, TermIsSmall DEF Truths, Wanted, Term!Lemmata, Term!Inflections
<1>7. ~ Cardinality(Term!Lemmata(t.atoms)) > 1
  <2>1. Term!Lemmata(t.atoms) \in SUBSET t.atoms
    BY DEF Term!Lemmata
  <2> QED
    BY <1>1, <1>6, <2>1, TwoDiffer
<1>8. Term!ConjunctionImpossible(Wanted(t))
  BY <1>7, SameCardinality DEF Term!Impossible, Wanted
<1>9. \A c : Term!Values(Wanted(t), c) \subseteq Term!Values(n.fields, c)
  BY <1>5, <1>6 DEF Term!Values
<1>10. SUFFICES ASSUME ~ Term!VerbalNoun(n) PROVE FALSE
  BY DEF Term!IsVerbalNoun
<1>11. Term!IsAnalysis(n) /\ Term!IsGrammatical(n)
  BY <1>10 DEF Term!ConstantsFit
<1>12. ~ ((\E a \in Wanted(t) : Term!NominalOnly(a)) /\ (\E a \in Wanted(t) : Term!VerbalOnly(a)))
  BY <1>5, <1>6, <1>11 DEF Term!IsGrammatical
<1>13. ~ \E a, b \in Wanted(t) : Term!Category(a) = Term!Category(b) /\ Term!Value(a) # Term!Value(b)
  BY <1>5, <1>6
<1>14. ASSUME NEW mood \in Term!Values(Wanted(t), "mood") PROVE ~ Term!MoodIncompatible(mood, Wanted(t))
  <2>1. mood \notin {"participle", "gerundive", "supine"}
    <3>1. PICK f \in n.fields : Term!Category(f) = "mood" /\ Term!Value(f) = mood
      BY <1>9 DEF Term!Values
    <3>2. f = <<"mood", mood>>
      BY <1>11, <3>1 DEF Term!IsAnalysis
    <3> QED
      BY <1>10, <3>2 DEF Term!VerbalNoun
  <2>2. mood \in Term!Values(n.fields, "mood")
    BY <1>9
  <2>3. CASE mood = "subjunctive"
    <3>1. Term!Values(n.fields, "tense") \cap {"future", "futureperfect"} = {}
      BY <1>11, <2>2, <2>3 DEF Term!IsGrammatical
    <3> QED
      BY <1>9, <2>3, <3>1 DEF Term!MoodIncompatible
  <2>4. CASE mood = "infinitive"
    <3>1. /\ Term!Values(n.fields, "person") \cup Term!Values(n.fields, "number") = {}
          /\ Term!Values(n.fields, "tense") \cap {"future", "futureperfect", "imperfect", "pluperfect"} = {}
      BY <1>11, <2>2, <2>4 DEF Term!IsGrammatical
    <3> QED
      BY <1>9, <2>4, <3>1 DEF Term!MoodIncompatible
  <2>5. CASE mood = "imperative"
    <3>1. Term!Values(n.fields, "tense") \subseteq {"present", "future"}
      BY <1>11, <2>2, <2>5 DEF Term!IsGrammatical
    <3> QED
      BY <1>9, <2>5, <3>1 DEF Term!MoodIncompatible
  <2>6. CASE mood \notin {"subjunctive", "infinitive", "imperative"}
    BY <2>1, <2>6 DEF Term!MoodIncompatible
  <2> QED
    BY <2>3, <2>4, <2>5, <2>6
<1> QED
  BY <1>8, <1>12, <1>13, <1>14 DEF Term!ConjunctionImpossible

\* A token that has a reading with an atom is in the atom's index.
LEMMA TrueIsInIndex ==
  ASSUME Term!ConstantsFit, NEW t \in Term!Terms, NEW k \in Tokens, NEW r \in Term!AllReadings(k) \cup {{}},
         NEW a \in t.atoms, a \in Truths(k, r)
  PROVE  k \in Term!Index(a)
<1>0. a \in Atoms
  BY TermIsSmall
<1>1. CASE a = <<"word", WordOf[k]>>
  BY <1>0, <1>1, IndexIsTrue
<1>2. CASE a \in r
  <2>1. PICK n \in AnalysesOf[k] : r \in Term!Readings(n)
    BY <1>2 DEF Term!AllReadings
  <2>2. (a = <<"lemma", n.lemma>> \/ a \in n.fields) /\ Term!Category(a) # "word"
    BY <1>0, <1>2, <2>1, AtomIsTrue
  <2> QED
    BY <1>0, <2>2, IndexIsTrue
<1> QED
  BY <1>1, <1>2 DEF Truths

\* Fields of another value in the same category make a reading without an atom.
LEMMA UnambiguousFields ==
  ASSUME Term!ConstantsFit, NEW t \in Term!Terms, t.op # "or", NEW k \in Tokens,
         Term!Unambiguous(k, t), NEW n \in AnalysesOf[k]
  PROVE  /\ Wanted(t) \subseteq n.fields /\ Term!Relevant(n.fields, Wanted(t)) = Wanted(t)
         /\ \A a \in Term!Lemmata(t.atoms) : a = <<"lemma", n.lemma>>
<1>1. ASSUME NEW r \in Term!Readings(n), NEW a \in t.atoms, Term!Category(a) # "word"
      PROVE  a \in r
  <2>1. t.atoms \subseteq Truths(k, r)
    BY TruthMeets DEF Term!Unambiguous, Term!AllReadings
  <2> QED
    BY <1>1, <2>1 DEF Truths, Term!Category
<1>2. PICK r \in Term!Readings(n) : TRUE
  BY FieldsHaveReading, {} \in SUBSET n.fields
<1>3. Wanted(t) \subseteq n.fields
  BY <1>1, AtomIsTrue, AtomsByCategory, TermIsSmall DEF Wanted, Term!Inflections
<1>4. \A a \in Term!Lemmata(t.atoms) : a = <<"lemma", n.lemma>>
  BY <1>1, AtomIsTrue, AtomsByCategory, TermIsSmall DEF Term!Lemmata
<1>5. ASSUME NEW f \in n.fields, NEW a \in Wanted(t), Term!Category(a) = Term!Category(f)
      PROVE  f = a
  <2>1. PICK q \in Term!Readings(n) : f \in q
    BY FieldsHaveReading, {f} \in SUBSET n.fields
  <2>2. PICK F \in SUBSET n.fields :
         /\ q = {<<"lemma", n.lemma>>} \cup F
         /\ \A g, h \in F : Term!Category(g) = Term!Category(h) => g = h
    BY ReadingsAreFields
  <2>3. a \in t.atoms /\ Term!Category(a) \notin {"word", "lemma"}
    BY DEF Wanted, Term!Inflections
  <2>4. a \in F /\ f \in F
    BY <1>1, <1>5, <2>1, <2>2, <2>3 DEF Term!Category
  <2> QED
    BY <1>5, <2>2, <2>4
<1>6. Term!Relevant(n.fields, Wanted(t)) = Wanted(t)
  BY <1>3, <1>5 DEF Term!Relevant
<1> QED
  BY <1>3, <1>4, <1>6

\* The tokens that should be found are, but for the exceptions.
LEMMA PossibleAreAnswered ==
  ASSUME Term!ConstantsFit, NEW t \in Term!Terms, NEW strictly \in BOOLEAN, NEW k \in Tokens,
         Term!Possible(k, t), strictly => Term!Unambiguous(k, t), ~ Term!Impossible(t),
         ~ (t.op = "or" /\ (strictly \/ \E a \in t.atoms : Term!Missing(a)))
  PROVE  k \in Term!Answer(t, strictly)
<1>1. PICK r \in Term!AllReadings(k) \cup {{}} : Term!Meets(k, r, t)
  BY DEF Term!Possible
<1>2. CASE t.op = "or"
  <2>1. PICK a \in t.atoms : k \in Term!Index(a)
    BY <1>1, <1>2, TruthMeets, TrueIsInIndex
  <2>2. k \in Term!Candidates(t)
    BY <1>2, <2>1 DEF Term!Candidates
  <2>3. ~ Term!NeedsValidation(t, strictly)
    BY <1>2 DEF Term!NeedsValidation
  <2> QED
    BY <2>2, <2>3 DEF Term!Answer, Term!HasMatchingInflections
<1>3. CASE t.op # "or"
  <2>1. \A a \in t.atoms : a \in Truths(k, r) /\ k \in Term!Index(a)
    BY <1>1, <1>3, TruthMeets, TrueIsInIndex
  <2>2. k \in Term!Candidates(t)
    BY <1>3, <2>1 DEF Term!Candidates, Term!Missing
  <2>3. Term!HasMatchingInflections(k, t, strictly)
    <3> SUFFICES ASSUME Term!NeedsValidation(t, strictly) PROVE Term!HasMatchingInflections(k, t, strictly)
      BY DEF Term!HasMatchingInflections
    <3>1. PICK a \in t.atoms : Term!Category(a) # "word"
      <4> SUFFICES ASSUME \A a \in t.atoms : Term!Category(a) = "word" PROVE FALSE
        OBVIOUS
      <4>1. Term!Lemmata(t.atoms) \cup Term!Inflections(t.atoms) = {}
        BY DEF Term!Lemmata, Term!Inflections
      <4>2. ~ Cardinality({}) > (IF strictly THEN 0 ELSE 1)
        BY FS_EmptySet
      <4> QED
        BY <4>1, <4>2, SameCardinality DEF Term!NeedsValidation
    <3>2. Term!StoredAnalyses(k) = AnalysesOf[k] /\ AnalysesOf[k] # {}
      BY <2>1, <3>1, StoredAreItsOwn, TermIsSmall
    <3>3. CASE strictly
      <4>1. ASSUME NEW n \in AnalysesOf[k] PROVE Term!DoesInflectionMatch(n, t, strictly)
        <5>1. /\ Wanted(t) \subseteq n.fields /\ Term!Relevant(n.fields, Wanted(t)) = Wanted(t)
              /\ \A b \in Term!Lemmata(t.atoms) : b = <<"lemma", n.lemma>>
          BY <1>3, <3>3, UnambiguousFields
        <5>2. \A b \in Term!Lemmata(t.atoms) : Term!Value(b) = n.lemma
          BY <5>1 DEF Term!Value
        <5>3. CASE t.op = "and"
          BY <5>1, <5>2, <5>3 DEF Term!DoesInflectionMatch, Wanted
        <5>4. CASE t.op # "and"
          <6>1. Term!Lemmata(t.atoms) # {} \/ Wanted(t) # {}
            BY <3>1, AtomsByCategory
          <6>2. CASE Term!Lemmata(t.atoms) # {}
            BY <5>2, <5>4, <6>2 DEF Term!DoesInflectionMatch
          <6>3. CASE Wanted(t) # {}
            BY <5>1, <5>4, <6>3 DEF Term!DoesInflectionMatch, Wanted
          <6> QED
            BY <6>1, <6>2, <6>3
        <5> QED
          BY <5>3, <5>4
      <4> QED
        BY <3>2, <3>3, <4>1 DEF Term!HasMatchingInflections
    <3>4. CASE ~ strictly
      <4>1. t.op = "and"
        BY <3>4 DEF Term!NeedsValidation
      <4>2. a \in r
        BY <2>1, <3>1 DEF Truths, Term!Category
      <4>3. PICK n \in AnalysesOf[k] : r \in Term!Readings(n)
        BY <4>2 DEF Term!AllReadings
      <4>4. \A b \in t.atoms : Term!Category(b) # "word" => b \in r
        BY <2>1 DEF Truths, Term!Category
      <4>5. /\ Wanted(t) \subseteq n.fields
            /\ \A b \in Term!Lemmata(t.atoms) : b = <<"lemma", n.lemma>>
        BY <4>3, <4>4, AtomIsTrue, TermIsSmall DEF Wanted, Term!Lemmata, Term!Inflections
      <4>6. Term!DoesInflectionMatch(n, t, strictly)
        BY <3>4, <4>1, <4>5 DEF Term!DoesInflectionMatch, Wanted, Term!Value
      <4> QED
        BY <3>2, <3>4, <4>6 DEF Term!HasMatchingInflections
    <3> QED
      BY <3>3, <3>4
  <2> QED
    BY <2>2, <2>3 DEF Term!Answer
<1> QED
  BY <1>2, <1>3

\* An asked term has its answer.
TermInv ==
  /\ strict \in BOOLEAN
  /\ IF term = Term!NoTerm THEN matching = {}
     ELSE term \in Term!Terms /\ matching = Term!Answer(term, strict)

LEMMA InitTerm == Term!Init => TermInv
BY DEF Term!Init, TermInv

\* The answer is computed in the step that asks.
LEMMA NextTerm == TermInv /\ [Term!Next]_Term!vars => TermInv'
<1> SUFFICES ASSUME TermInv, [Term!Next]_Term!vars PROVE TermInv'
  OBVIOUS
<1>1. CASE Term!QueryCorpus
  <2>1. term' # Term!NoTerm
    BY <1>1, TermIsSmall DEF Term!QueryCorpus, Term!NoTerm
  <2> QED
    BY <1>1, <2>1 DEF Term!QueryCorpus, TermInv
<1>2. CASE UNCHANGED Term!vars
  BY <1>2 DEF Term!vars, TermInv
<1> QED
  BY <1>1, <1>2 DEF Term!Next

\* What is promised follows from the answer, for all terms.
LEMMA TermHolds ==
  ASSUME Term!ConstantsFit, TermInv
  PROVE  Term!TypeOK /\ Term!TermsMeanWhatTheySay
<1>1. CASE term = Term!NoTerm
  BY <1>1 DEF TermInv, Term!NoTerm, Term!TypeOK, Term!TermsMeanWhatTheySay
<1>2. CASE term # Term!NoTerm
  <2>1. term \in Term!Terms /\ strict \in BOOLEAN /\ matching = Term!Answer(term, strict)
    BY <1>2 DEF TermInv
  <2>2. Term!TypeOK
    BY <2>1, TermIsSmall DEF Term!TypeOK, Term!Answer, Term!Candidates, Term!Index
  <2>3. \A k \in matching : Term!Possible(k, term) /\ (strict => Term!Unambiguous(k, term))
    BY <2>1, AnswersArePossible, StrictAnswersAreUnambiguous
  <2>4. ASSUME NEW k \in Tokens \ matching, Term!Possible(k, term), strict => Term!Unambiguous(k, term)
        PROVE  \/ term.op = "or" /\ (strict \/ \E a \in term.atoms : Term!Missing(a))
               \/ Term!Impossible(term) /\ Term!IsVerbalNoun(k)
    BY <2>1, <2>4, PossibleAreAnswered, PrunedAreVerbalNouns
  <2> QED
    BY <2>2, <2>3, <2>4 DEF Term!TermsMeanWhatTheySay
<1> QED
  BY <1>1, <1>2

\* A term has atoms of the query only, and its answer is a set of tokens.
THEOREM TermTypeCorrect ==
  ASSUME Term!ConstantsFit
  PROVE  Term!Spec => []Term!TypeOK
<1>1. TermInv => Term!TypeOK
  BY TermHolds
<1> QED
  BY <1>1, InitTerm, NextTerm, PTL DEF Term!Spec

\* An answer has the tokens that meet the term and, but for the named cases, no
\* token that does is left out: pruning, indices and the check of analyses agree.
THEOREM TermsAreAnswered ==
  ASSUME Term!ConstantsFit
  PROVE  Term!Spec => []TermsMeanWhatTheySay
<1>1. TermInv => TermsMeanWhatTheySay
  BY TermHolds DEF TermsMeanWhatTheySay
<1> QED
  BY <1>1, InitTerm, NextTerm, PTL DEF Term!Spec

-----------------------------------------------------------------------------
\* What Scenes says of them.  The shell and the macronizer are proved about
\* in modules of their own, whose machines are those of Scenes.

ProvedShell == INSTANCE AppShellProofs
ProvedMacron == INSTANCE MacronPageProofs WITH Typed <- TypedInputs, MaxRequests <- MaxInputs

LEMMA SameShell ==
  /\ Shell!Init => ProvedShell!Init
  /\ [Shell!Next]_(Shell!vars) => [ProvedShell!Next]_(ProvedShell!vars)
BY DEF Shell!Versions, ProvedShell!Versions, Shell!workerVars, ProvedShell!workerVars,
   Shell!settingVars, ProvedShell!settingVars, Shell!vars, ProvedShell!vars, Shell!NoWorker,
   ProvedShell!NoWorker, Shell!Init, ProvedShell!Init, Shell!Deploy, ProvedShell!Deploy,
   Shell!ToggleNetwork, ProvedShell!ToggleNetwork, Shell!Script, ProvedShell!Script,
   Shell!FindWorker, ProvedShell!FindWorker, Shell!FetchIndex, ProvedShell!FetchIndex,
   Shell!FetchBundle, ProvedShell!FetchBundle, Shell!InstallFails, ProvedShell!InstallFails,
   Shell!Install, ProvedShell!Install, Shell!Activate, ProvedShell!Activate,
   Shell!ReadSettings, ProvedShell!ReadSettings, Shell!Kill, ProvedShell!Kill,
   Shell!ToggleMode, ProvedShell!ToggleMode, Shell!To, ProvedShell!To, Shell!Offline,
   ProvedShell!Offline, Shell!Waits, ProvedShell!Waits, Shell!Fails, ProvedShell!Fails,
   Shell!Open, ProvedShell!Open, Shell!IndexFromNetwork, ProvedShell!IndexFromNetwork,
   Shell!GetIndex, ProvedShell!GetIndex, Shell!SetFlag, ProvedShell!SetFlag, Shell!Run,
   ProvedShell!Run, Shell!GetBundle, ProvedShell!GetBundle, Shell!ReadNotice,
   ProvedShell!ReadNotice, Shell!CallApi, ProvedShell!CallApi, Shell!Next, ProvedShell!Next

\* The macronizer's operators, one after the other.
LEMMA SameLength == \A text : Macron!LengthOf(text) = ProvedMacron!LengthOf(text)
BY DEF Macron!LengthOf, ProvedMacron!LengthOf, Macron!FoldLeft, ProvedMacron!FoldLeft,
   Macron!MapThenFoldSet, ProvedMacron!MapThenFoldSet, Macron!Max, ProvedMacron!Max

LEMMA SameKept == \A s, set : Macron!Kept(s, set) = ProvedMacron!Kept(s, set)
BY DEF Macron!Kept, ProvedMacron!Kept, Macron!FoldLeft, ProvedMacron!FoldLeft,
   Macron!MapThenFoldSet, ProvedMacron!MapThenFoldSet, Macron!Max, ProvedMacron!Max

LEMMA SameDistinct == \A s : Macron!Distinct(s) = ProvedMacron!Distinct(s)
BY DEF Macron!Distinct, ProvedMacron!Distinct, Macron!ToSet, ProvedMacron!ToSet, Macron!FoldLeft,
   ProvedMacron!FoldLeft, Macron!MapThenFoldSet, ProvedMacron!MapThenFoldSet, Macron!Max,
   ProvedMacron!Max

LEMMA SameWords == \A text : Macron!WordsOf(text) = ProvedMacron!WordsOf(text)
BY DEF Macron!WordsOf, ProvedMacron!WordsOf, Macron!PartsOf, ProvedMacron!PartsOf,
   Macron!NlpEnclitic, ProvedMacron!NlpEnclitic, Macron!FlattenSeq, ProvedMacron!FlattenSeq

LEMMA SameSentences ==
  \A words : Macron!SentenceSegment(words) = ProvedMacron!SentenceSegment(words)
BY DEF Macron!SentenceSegment, ProvedMacron!SentenceSegment, Macron!Last, ProvedMacron!Last,
   Macron!ToSet, ProvedMacron!ToSet, Macron!FoldLeft, ProvedMacron!FoldLeft,
   Macron!MapThenFoldSet, ProvedMacron!MapThenFoldSet, Macron!Max, ProvedMacron!Max

LEMMA SameUpos == \A parts : Macron!ConvertUpos(parts) = ProvedMacron!ConvertUpos(parts)
BY DEF Macron!ConvertUpos, ProvedMacron!ConvertUpos, Macron!TenseByAspect,
   ProvedMacron!TenseByAspect, Macron!ReadPart, ProvedMacron!ReadPart, Macron!Nothing,
   ProvedMacron!Nothing, Macron!Fields, ProvedMacron!Fields, Macron!Abbreviations,
   ProvedMacron!Abbreviations, Macron!FieldOf, ProvedMacron!FieldOf, Macron!UposValues,
   ProvedMacron!UposValues, Macron!SaysNothing, ProvedMacron!SaysNothing, Macron!IgnoredKeys,
   ProvedMacron!IgnoredKeys, Macron!ToSet, ProvedMacron!ToSet, Macron!FoldLeft,
   ProvedMacron!FoldLeft, Macron!MapThenFoldSet, ProvedMacron!MapThenFoldSet, Macron!Max,
   ProvedMacron!Max

LEMMA SameArray ==
  \A data : Macron!WordInflectionDataToArray(data) = ProvedMacron!WordInflectionDataToArray(data)
BY SameKept DEF Macron!WordInflectionDataToArray, ProvedMacron!WordInflectionDataToArray,
   Macron!ToMorpheus, ProvedMacron!ToMorpheus, Macron!Abbreviations, ProvedMacron!Abbreviations,
   Macron!ToSet, ProvedMacron!ToSet

LEMMA SameByLemma == \A found : Macron!SortByLemma(found) = ProvedMacron!SortByLemma(found)
BY SameKept, SameDistinct DEF Macron!SortByLemma, ProvedMacron!SortByLemma, Macron!ToSet,
   ProvedMacron!ToSet

LEMMA SameSorted ==
  \A found : Macron!SortCrunchResults(found) = ProvedMacron!SortCrunchResults(found)
BY SameKept, SameDistinct, SameByLemma DEF Macron!SortCrunchResults,
   ProvedMacron!SortCrunchResults, Macron!ToSet, ProvedMacron!ToSet

LEMMA SameVowels ==
  \A token, form : Macron!VowelsMatches(form, Macron!Marked(token, "long"), Macron!Marked(token, "short")) =
    ProvedMacron!VowelsMatches(form, ProvedMacron!Marked(token, "long"), ProvedMacron!Marked(token, "short"))
BY DEF Macron!VowelsMatches, ProvedMacron!VowelsMatches, Macron!Marked, ProvedMacron!Marked,
   Macron!ToSet, ProvedMacron!ToSet, Macron!Cardinality, ProvedMacron!Cardinality

LEMMA SameOptions == \A token : Macron!OptionsByForm(token) = ProvedMacron!OptionsByForm(token)
<1> TAKE token
<1> DEFINE Matches(o) == Macron!VowelsMatches(o.form, Macron!Marked(token, "long"),
                                             Macron!Marked(token, "short"))
           all == Macron!SortCrunchResults(Analyses[token.text])
           raw == Macron!Kept(all, {o \in Macron!ToSet(all) : Matches(o) # -1})
           most == Macron!Max({0} \cup {Matches(o) : o \in Macron!ToSet(raw)})
           PMatches(o) == ProvedMacron!VowelsMatches(o.form, ProvedMacron!Marked(token, "long"),
                                                     ProvedMacron!Marked(token, "short"))
           pAll == ProvedMacron!SortCrunchResults(Analyses[token.text])
           pRaw == ProvedMacron!Kept(pAll, {o \in ProvedMacron!ToSet(pAll) : PMatches(o) # -1})
           pMost == ProvedMacron!Max({0} \cup {PMatches(o) : o \in ProvedMacron!ToSet(pRaw)})
<1>1. \A o : Matches(o) = PMatches(o)
  BY SameVowels
<1>2. all = pAll
  BY SameSorted
<1>3. \A s : Macron!ToSet(s) = ProvedMacron!ToSet(s)
  BY DEF Macron!ToSet, ProvedMacron!ToSet
<1>4. \A S : Macron!Max(S) = ProvedMacron!Max(S)
  BY DEF Macron!Max, ProvedMacron!Max
<1>5. /\ Macron!OptionsByForm(token) = Macron!Kept(raw, {o \in Macron!ToSet(raw) : Matches(o) = most})
      /\ ProvedMacron!OptionsByForm(token) =
           ProvedMacron!Kept(pRaw, {o \in ProvedMacron!ToSet(pRaw) : PMatches(o) = pMost})
  BY DEF Macron!OptionsByForm, ProvedMacron!OptionsByForm
<1> HIDE DEF Matches, PMatches, all, pAll
<1>6. raw = pRaw
  BY <1>1, <1>2, <1>3, SameKept
<1> HIDE DEF raw, pRaw
<1>7. most = pMost
  BY <1>1, <1>3, <1>4, <1>6
<1> HIDE DEF most, pMost
<1> QED
  BY <1>1, <1>3, <1>5, <1>6, <1>7, SameKept

LEMMA SameMatch ==
  \A offered, tag : Macron!FindBestMatch(offered, tag) = ProvedMacron!FindBestMatch(offered, tag)
<1> TAKE offered, tag
<1> DEFINE inflection == Macron!ConvertUpos(tag.morph)
           byLemma == {k \in DOMAIN offered : \E r \in Macron!Readings(offered[k]) :
                         r.lemma[1] = tag.lemma
                         /\ Macron!CompareGrammaticalData(inflection, r.data) # Macron!Unrelated}
           byData == {k \in DOMAIN offered : \E r \in Macron!Readings(offered[k]) :
                        Macron!CompareGrammaticalData(inflection, r.data) = 0}
<1>1. \A first, second : Macron!CompareGrammaticalData(first, second)
                         = ProvedMacron!CompareGrammaticalData(first, second)
  BY DEF Macron!CompareGrammaticalData, ProvedMacron!CompareGrammaticalData, Macron!CompareField,
     ProvedMacron!CompareField, Macron!Unrelated, ProvedMacron!Unrelated, Macron!Fields,
     ProvedMacron!Fields, Macron!Abbreviations, ProvedMacron!Abbreviations
<1>2. \A option : Macron!Readings(option) = ProvedMacron!Readings(option)
  BY DEF Macron!Readings, ProvedMacron!Readings, Macron!ToSet, ProvedMacron!ToSet
<1>3. (\E part \in Macron!ToSet(tag.morph) : ~ Macron!IsRecognized(part))
      <=> \E part \in ProvedMacron!ToSet(tag.morph) : ~ ProvedMacron!IsRecognized(part)
  BY DEF Macron!ToSet, ProvedMacron!ToSet, Macron!IsRecognized, ProvedMacron!IsRecognized,
     Macron!UposValues, ProvedMacron!UposValues, Macron!SaysNothing, ProvedMacron!SaysNothing,
     Macron!IgnoredKeys, ProvedMacron!IgnoredKeys
<1>4. Macron!Unrelated = ProvedMacron!Unrelated /\ \A S : Macron!Min(S) = ProvedMacron!Min(S)
  BY DEF Macron!Unrelated, ProvedMacron!Unrelated, Macron!Min, ProvedMacron!Min
<1>5. inflection = ProvedMacron!ConvertUpos(tag.morph)
  BY SameUpos
<1> HIDE DEF inflection
<1>6. /\ byLemma = {k \in DOMAIN offered : \E r \in ProvedMacron!Readings(offered[k]) :
                      r.lemma[1] = tag.lemma
                      /\ ProvedMacron!CompareGrammaticalData(inflection, r.data) # ProvedMacron!Unrelated}
      /\ byData = {k \in DOMAIN offered : \E r \in ProvedMacron!Readings(offered[k]) :
                     ProvedMacron!CompareGrammaticalData(inflection, r.data) = 0}
  BY <1>1, <1>2, <1>4
<1>7. Macron!FindBestMatch(offered, tag) =
        IF \E part \in Macron!ToSet(tag.morph) : ~ Macron!IsRecognized(part) THEN 0
        ELSE IF byLemma # {} THEN Macron!Min(byLemma)
        ELSE IF byData # {} THEN Macron!Min(byData) ELSE 0
  BY DEF Macron!FindBestMatch, inflection
<1> HIDE DEF byLemma, byData
<1>8. ProvedMacron!FindBestMatch(offered, tag) =
        IF \E part \in ProvedMacron!ToSet(tag.morph) : ~ ProvedMacron!IsRecognized(part) THEN 0
        ELSE IF byLemma # {} THEN ProvedMacron!Min(byLemma)
        ELSE IF byData # {} THEN ProvedMacron!Min(byData) ELSE 0
  BY <1>5, <1>6 DEF ProvedMacron!FindBestMatch
<1> QED
  BY <1>3, <1>4, <1>7, <1>8

LEMMA SameConverted ==
  \A offered : Macron!ConvertOptionsForForm(offered) = ProvedMacron!ConvertOptionsForForm(offered)
BY SameArray DEF Macron!ConvertOptionsForForm, ProvedMacron!ConvertOptionsForForm

LEMMA SameWord ==
  \A token, tag : Macron!MacronizedWord(token, tag) = ProvedMacron!MacronizedWord(token, tag)
BY SameOptions, SameMatch, SameConverted DEF Macron!MacronizedWord, ProvedMacron!MacronizedWord

LEMMA SamePlace == \A text, i : Macron!Place(text, i) = ProvedMacron!Place(text, i)
BY SameWords DEF Macron!Place, ProvedMacron!Place

LEMMA SameFit ==
  \A token, place, tags : Macron!TagsFit(token, place, tags)
    = ProvedMacron!TagsFit(token, place, tags)
BY DEF Macron!TagsFit, ProvedMacron!TagsFit, Macron!NlpEnclitic, ProvedMacron!NlpEnclitic,
   Macron!IsPrefix, ProvedMacron!IsPrefix

LEMMA SameAnswer ==
  \A text, tags : Macron!MacronizeInput(text, tags) = ProvedMacron!MacronizeInput(text, tags)
<1> TAKE text, tags
<1>1. \A i : Macron!TagsFit(text[i], Macron!Place(text, i), tags)
             <=> ProvedMacron!TagsFit(text[i], ProvedMacron!Place(text, i), tags)
  BY SamePlace, SameFit
<1>2. \A i : Macron!MacronizedWord(text[i], tags[Macron!Place(text, i)])
             = ProvedMacron!MacronizedWord(text[i], tags[ProvedMacron!Place(text, i)])
  BY SamePlace, SameWord
<1>3. Macron!AttachGuesses(text, tags) = ProvedMacron!AttachGuesses(text, tags)
  BY <1>1, <1>2 DEF Macron!AttachGuesses, ProvedMacron!AttachGuesses, Macron!Failed,
     ProvedMacron!Failed, Macron!Plain, ProvedMacron!Plain
<1> QED
  BY <1>3, SameLength DEF Macron!MacronizeInput, ProvedMacron!MacronizeInput, Macron!Failed,
     ProvedMacron!Failed, Macron!Plain, ProvedMacron!Plain, Macron!NoAnswer, ProvedMacron!NoAnswer

LEMMA SameAnswers == \A text : Macron!Answers(text) = ProvedMacron!Answers(text)
<1> TAKE text
<1> DEFINE questions == {Macron!WordsOf(text),
                         Macron!FlattenSeq(Macron!SentenceSegment(Macron!WordsOf(text)))}
<1>1. \A words, t : Macron!TagsOf(words, t) = ProvedMacron!TagsOf(words, t)
  BY DEF Macron!TagsOf, ProvedMacron!TagsOf
<1>2. \A tags : Macron!Front(tags) = ProvedMacron!Front(tags)
  BY DEF Macron!Front, ProvedMacron!Front
<1>3. \A s : Macron!FlattenSeq(s) = ProvedMacron!FlattenSeq(s)
  BY DEF Macron!FlattenSeq, ProvedMacron!FlattenSeq
<1>4. questions = {ProvedMacron!WordsOf(text),
               ProvedMacron!FlattenSeq(ProvedMacron!SentenceSegment(ProvedMacron!WordsOf(text)))}
  BY <1>3, SameWords, SameSentences
<1>5. Macron!NoAnswer = ProvedMacron!NoAnswer
  BY DEF Macron!NoAnswer, ProvedMacron!NoAnswer
<1> DEFINE Given(words, t) == {Macron!TagsOf(words, t), Macron!Front(Macron!TagsOf(words, t))}
           PGiven(words, t) == {ProvedMacron!TagsOf(words, t), ProvedMacron!Front(ProvedMacron!TagsOf(words, t))}
<1>6. \A words, t : Given(words, t) = PGiven(words, t)
  BY <1>1, <1>2
<1>7. Macron!Answers(text)
        = {Macron!NoAnswer} \cup UNION {Given(words, t) : words \in questions, t \in Taggings}
  BY DEF Macron!Answers
<1> HIDE DEF questions
<1>8. ProvedMacron!Answers(text) =
        {ProvedMacron!NoAnswer} \cup UNION {PGiven(words, t) : words \in questions, t \in Taggings}
  BY <1>4 DEF ProvedMacron!Answers
<1> HIDE DEF Given, PGiven
<1>9. {Given(words, t) : words \in questions, t \in Taggings}
        = {PGiven(words, t) : words \in questions, t \in Taggings}
  BY <1>6
<1> QED
  BY <1>5, <1>7, <1>8, <1>9

LEMMA SameMacron ==
  /\ Macron!Init => ProvedMacron!Init
  /\ [Macron!Next]_(Macron!vars) => [ProvedMacron!Next]_(ProvedMacron!vars)
<1>1. Macron!Init => ProvedMacron!Init
  BY DEF Macron!Init, ProvedMacron!Init, Macron!NoWord, ProvedMacron!NoWord, Macron!Plain,
     ProvedMacron!Plain, Macron!NoAnswer, ProvedMacron!NoAnswer
<1>2. ASSUME NEW text, NEW tags, Macron!Answer(text, tags) PROVE ProvedMacron!Answer(text, tags)
  <2>1. Macron!MacronizeInput(text, tags) = ProvedMacron!MacronizeInput(text, tags)
    BY SameAnswer
  <2>2. \A result : Macron!SetProcessed(text, tags, result)
          => ProvedMacron!SetProcessed(text, tags, result)
    BY DEF Macron!SetProcessed, ProvedMacron!SetProcessed, Macron!CellsOf, ProvedMacron!CellsOf,
       Macron!KeptCells, ProvedMacron!KeptCells, Macron!Failed, ProvedMacron!Failed, Macron!Plain,
       ProvedMacron!Plain, Macron!IsAmbiguous, ProvedMacron!IsAmbiguous, Macron!NewCell,
       ProvedMacron!NewCell, Macron!FormsOf, ProvedMacron!FormsOf, Macron!GetIdx, ProvedMacron!GetIdx
  <2> QED
    BY <1>2, <2>1, <2>2 DEF Macron!Answer, ProvedMacron!Answer
<1>3. (\E text \in sending : \E tags \in Macron!Answers(text) : Macron!Answer(text, tags))
      => \E text \in sending : \E tags \in ProvedMacron!Answers(text) : ProvedMacron!Answer(text, tags)
  BY <1>2, SameAnswers
<1>4. Macron!HandleClick => ProvedMacron!HandleClick
  BY SameLength DEF Macron!HandleClick, ProvedMacron!HandleClick
<1>5. \A text : Macron!SetRawInput(text) => ProvedMacron!SetRawInput(text)
  BY DEF Macron!SetRawInput, ProvedMacron!SetRawInput
<1>6. \A i, altKey, ctrlKey : Macron!ClickWord(i, altKey, ctrlKey)
        => ProvedMacron!ClickWord(i, altKey, ctrlKey)
  BY DEF Macron!ClickWord, ProvedMacron!ClickWord
<1>7. Macron!SetDictWord => ProvedMacron!SetDictWord
  BY DEF Macron!SetDictWord, ProvedMacron!SetDictWord, Macron!ToSet, ProvedMacron!ToSet
<1>8. Macron!vars = ProvedMacron!vars /\ (UNCHANGED Macron!vars <=> UNCHANGED ProvedMacron!vars)
  BY DEF Macron!vars, ProvedMacron!vars
<1>9. Macron!Next => ProvedMacron!Next
  BY <1>3, <1>4, <1>5, <1>6, <1>7 DEF Macron!Next, ProvedMacron!Next
<1> QED
  BY <1>1, <1>8, <1>9

LEMMA SameConstants == Macron!ConstantsFit => ProvedMacron!ConstantsFit
BY DEF Macron!ConstantsFit, ProvedMacron!ConstantsFit, Macron!TokenType, ProvedMacron!TokenType,
   Macron!Analysis, ProvedMacron!Analysis, Macron!Fields, ProvedMacron!Fields,
   Macron!Abbreviations, ProvedMacron!Abbreviations

LEMMA SamePromise == ProvedMacron!MacronsFit => MacronsFit
BY DEF MacronsFit, Macron!MacronsFit, ProvedMacron!MacronsFit,
   Macron!AnswersUnlessEncliticDiffers, ProvedMacron!AnswersUnlessEncliticDiffers,
   Macron!Complete, ProvedMacron!Complete, Macron!WellWritten, ProvedMacron!WellWritten,
   Macron!NoAnswer, ProvedMacron!NoAnswer, Macron!Failed, ProvedMacron!Failed, Macron!Plain,
   ProvedMacron!Plain, Macron!NlpEnclitic, ProvedMacron!NlpEnclitic, Macron!IsSuffix,
   ProvedMacron!IsSuffix, Macron!IsPrefix, ProvedMacron!IsPrefix, Macron!Reverse,
   ProvedMacron!Reverse, Macron!OptionsKeepMarks, ProvedMacron!OptionsKeepMarks, Macron!FormsOf,
   ProvedMacron!FormsOf, Macron!Marked, ProvedMacron!Marked, Macron!ToSet, ProvedMacron!ToSet,
   Macron!IsInjective, ProvedMacron!IsInjective, Macron!Cardinality, ProvedMacron!Cardinality,
   Macron!AllReadingsShown, ProvedMacron!AllReadingsShown, Macron!Said, ProvedMacron!Said,
   Macron!ToMorpheus, ProvedMacron!ToMorpheus, Macron!Abbreviations, ProvedMacron!Abbreviations,
   Macron!Fields, ProvedMacron!Fields, Macron!SuggestionsFit, ProvedMacron!SuggestionsFit,
   Macron!CompareGrammaticalData, ProvedMacron!CompareGrammaticalData, Macron!CompareField,
   ProvedMacron!CompareField, Macron!Unrelated, ProvedMacron!Unrelated, Macron!ShownIsAnOption,
   ProvedMacron!ShownIsAnOption, Macron!WordsOf, ProvedMacron!WordsOf, Macron!PartsOf,
   ProvedMacron!PartsOf, Macron!FlattenSeq, ProvedMacron!FlattenSeq, Macron!ConvertUpos,
   ProvedMacron!ConvertUpos, Macron!TenseByAspect, ProvedMacron!TenseByAspect, Macron!ReadPart,
   ProvedMacron!ReadPart, Macron!Nothing, ProvedMacron!Nothing, Macron!FieldOf,
   ProvedMacron!FieldOf, Macron!UposValues, ProvedMacron!UposValues, Macron!SaysNothing,
   ProvedMacron!SaysNothing, Macron!IgnoredKeys, ProvedMacron!IgnoredKeys, Macron!FoldLeft,
   ProvedMacron!FoldLeft, Macron!MapThenFoldSet, ProvedMacron!MapThenFoldSet, Macron!Max,
   ProvedMacron!Max

\* The invariant of the shell, of the machine in Scenes.
LEMMA ShellStays ==
  ASSUME Shell!ConstantsFit
  PROVE  /\ Shell!Init => ProvedShell!ShellInv
         /\ ProvedShell!ShellInv /\ [Shell!Next]_(Shell!vars) => ProvedShell!ShellInv'
<1>1. ProvedShell!ConstantsFit
  BY DEF Shell!ConstantsFit, ProvedShell!ConstantsFit, Shell!Versions, ProvedShell!Versions
<1> QED
  BY <1>1, SameShell, ProvedShell!InitShell, ProvedShell!NextShell

\* The worker's cache fits the worker and offline mode that it turned on is
\* announced but for three exceptions that ForcedModeIsAnnounced names, and a
\* checkbox is disabled only while its own request is open: PagesFitWorker.
THEOREM PagesAlwaysFitWorker ==
  ASSUME Shell!ConstantsFit, Comms!ConstantsFit
  PROVE  Shell!Spec /\ Comms!Spec => []PagesFitWorker
<1>1. ProvedShell!ShellInv => Shell!ShellConsistent
  BY DEF ProvedShell!ShellInv, ProvedShell!CacheFitsWorker, ProvedShell!ForcedModeIsAnnounced,
     Shell!ShellConsistent, Shell!CacheFitsWorker, Shell!ForcedModeIsAnnounced
<1>2. Shell!Spec => []Shell!ShellConsistent
  BY <1>1, ShellStays, PTL DEF Shell!Spec
<1>3. Comms!Spec => []Comms!SettledIsUsable
  BY SettledIsAlwaysUsable
<1>4. Shell!ShellConsistent /\ Comms!SettledIsUsable => PagesFitWorker
  BY DEF PagesFitWorker
<1> QED
  BY <1>2, <1>3, <1>4, PTL

\* A page that the active worker linked gets its bundle in offline mode.
THEOREM LinkedPagesStart ==
  ASSUME Shell!ConstantsFit
  PROVE  Shell!Spec => OfflineModeServes
<1> DEFINE Served == page.phase = "linked" /\ page'.phase = "broken" /\ Shell!Offline =>
                       page.version # active \/ active \in raced
<1>1. ProvedShell!ShellInv /\ [Shell!Next]_(Shell!vars) => [Served]_(Shell!vars)
  BY SameShell, ProvedShell!BundleIsServed DEF Shell!Offline, ProvedShell!Offline
<1>2. OfflineModeServes <=> [][Served]_(Shell!vars)
  BY DEF OfflineModeServes, Shell!OfflineModeServes
<1> HIDE DEF Served
<1> QED
  BY <1>1, <1>2, ShellStays, PTL DEF Shell!Spec

\* Scenes promises what is proved of the page: every word that is shown has the
\* best of its forms, with all their readings, and the suggestion of its own tag.
THEOREM MacronsFitTheirText ==
  ASSUME Macron!ConstantsFit
  PROVE  Macron!Spec => []MacronsFit
<1>1. ProvedMacron!ConstantsFit
  BY SameConstants
<1>2. Macron!Spec => ProvedMacron!Spec
  BY SameMacron, PTL DEF Macron!Spec, ProvedMacron!Spec
<1>3. ProvedMacron!Spec => []ProvedMacron!MacronsFit
  BY <1>1, ProvedMacron!MacronsAlwaysFit
<1> QED
  BY <1>2, <1>3, SamePromise, PTL

=============================================================================
