--------------------------- MODULE ServerProcess ---------------------------
(***************************************************************************)
(* The life of the server process: it connects its telemetry and creates   *)
(* its dictionaries in the background, answers requests, logs each answer  *)
(* after it was sent, and on a signal closes, at first gently and then by  *)
(* force, and tears its telemetry down.  Nothing awaits a log: if one      *)
(* fails, or an initialisation, the process goes down, and is restarted.   *)
(***************************************************************************)
EXTENDS Naturals, Sequences

CONSTANTS MaxRequests,  \* requests of one process
          MaxProcesses, \* starts of the process
          ServerFaults  \* what may fail: "telemetry", "dictionary", "client"

ConstantsFit == MaxProcesses \in Nat \ {0}

VARIABLES
  proc,       \* "up", "stopping", "closed", "exited" or "down"
  starts,     \* how often the process was started
  telemetry,  \* "connecting", "ready", "closing" or "closed"
  dicts,      \* "pending" or "created": the timers of delayedInit
  served,     \* requests: connection, handler and log
  forceClose, \* "none", "armed" (500 ms) or "cutting" (1500 ms)
  faulty,     \* whether a fault or a forced close happened
  lost        \* whether a request on an open connection was never answered

processVars == <<proc, starts, telemetry, dicts, forceClose>>
vars == <<processVars, served, faulty, lost>>

Init ==
  /\ proc = "up" /\ starts = 1
  /\ telemetry = "connecting" /\ dicts = "pending"
  /\ served = <<>> /\ forceClose = "none"
  /\ faulty = FALSE /\ lost = FALSE

-----------------------------------------------------------------------------
Running == proc \in {"up", "stopping", "closed"}
Fault(kind) == kind \in ServerFaults /\ Running /\ faulty' = TRUE

IsOpen(r) == served[r].connection = "open"
Unanswered(r) == IsOpen(r) /\ served[r].handler = "running"

\* An exception or a rejection that nobody handles ends the process.
GoDown ==
  /\ proc' = "down"
  /\ lost' = (lost \/ \E r \in DOMAIN served : Unanswered(r))
  /\ UNCHANGED <<starts, telemetry, dicts, forceClose, served>>

\* logApi: the log waits for the telemetry, and then for the write.
Log == IF telemetry = "connecting" THEN "waiting" ELSE "writing"

\* setupServer, adaptHandler: an input that cannot be read is answered at once.
Accept(readable) ==
  /\ proc = "up" /\ Len(served) < MaxRequests
  /\ served' = Append(served, IF readable
       THEN [connection |-> "open", handler |-> "running", log |-> "none"]
       ELSE [connection |-> "open", handler |-> "done", log |-> Log])
  /\ UNCHANGED <<processVars, faulty, lost>>

\* The handler resolves or rejects; the answer is sent, also to a connection
\* that is gone, and then logged. Once torn down, the telemetry throws.
HandlerEnds(r) ==
  /\ Running /\ served[r].handler = "running"
  /\ IF telemetry = "closed" THEN GoDown /\ UNCHANGED faulty
     ELSE /\ served' = [served EXCEPT ![r].handler = "done", ![r].log = Log]
          /\ UNCHANGED <<processVars, faulty, lost>>

\* The connection is closed after the answer (keep-alive is not modelled).
ConnectionEnds(r) ==
  /\ Running /\ IsOpen(r) /\ served[r].handler = "done"
  /\ served' = [served EXCEPT ![r].connection = "closed"]
  /\ UNCHANGED <<processVars, faulty, lost>>

ClientLeaves(r) ==
  /\ Fault("client") /\ Unanswered(r)
  /\ served' = [served EXCEPT ![r].connection = "closed"]
  /\ UNCHANGED <<processVars, lost>>

LogEnds(r) ==
  /\ Running /\ served[r].log = "writing"
  /\ served' = [served EXCEPT ![r].log = "done"]
  /\ UNCHANGED <<processVars, faulty, lost>>

\* A write is rejected: a fault, or the client was closed before it was done.
LogFails(r) ==
  /\ Running /\ served[r].log = "writing"
  /\ IF telemetry \in {"closing", "closed"} THEN UNCHANGED faulty ELSE Fault("telemetry")
  /\ GoDown

-----------------------------------------------------------------------------
\* MongoLogger.initialize, and what waited for it.
TelemetryConnects ==
  /\ Running /\ telemetry = "connecting"
  /\ telemetry' = IF proc = "closed" THEN "closing" ELSE "ready"
  /\ served' = [r \in DOMAIN served |->
                  [served[r] EXCEPT !.log = IF @ = "waiting" THEN "writing" ELSE @]]
  /\ UNCHANGED <<proc, starts, dicts, forceClose, faulty, lost>>

TelemetryFails == telemetry = "connecting" /\ Fault("telemetry") /\ GoDown

\* The timers of delayedInit; a dictionary that cannot be created throws there.
CreateDictionaries ==
  /\ Running /\ dicts = "pending" /\ dicts' = "created"
  /\ UNCHANGED <<proc, starts, telemetry, forceClose, served, faulty, lost>>

DictionaryFails == dicts = "pending" /\ Fault("dictionary") /\ GoDown

\* Mutant: the telemetry is torn down with the signal.
SignalTearsDown ==
  /\ proc = "up" /\ proc' = "stopping" /\ forceClose' = "armed"
  /\ telemetry' = IF telemetry = "ready" THEN "closing" ELSE telemetry
  /\ UNCHANGED <<starts, dicts, served, faulty, lost>>

\* cleanup: SIGTERM or SIGINT.
Signal ==
  /\ proc = "up" /\ proc' = "stopping" /\ forceClose' = "armed"
  /\ UNCHANGED <<starts, telemetry, dicts, served, faulty, lost>>

\* After 500 ms: are there connections left?
CountConnections ==
  /\ proc = "stopping" /\ forceClose = "armed"
  /\ forceClose' = IF \E r \in DOMAIN served : IsOpen(r) THEN "cutting" ELSE "none"
  /\ UNCHANGED <<proc, starts, telemetry, dicts, served, faulty, lost>>

\* After 1500 ms more: closeAllConnections.
CloseAllConnections ==
  /\ Running /\ forceClose = "cutting" /\ forceClose' = "none"
  /\ served' = [r \in DOMAIN served |-> [served[r] EXCEPT !.connection = "closed"]]
  /\ faulty' = (faulty \/ \E r \in DOMAIN served : Unanswered(r))
  /\ UNCHANGED <<proc, starts, telemetry, dicts, lost>>

\* The server's "close" event: no connection is left.
Close ==
  /\ proc = "stopping" /\ \A r \in DOMAIN served : ~IsOpen(r)
  /\ proc' = "closed"
  /\ telemetry' = IF telemetry = "ready" THEN "closing" ELSE telemetry
  /\ forceClose' = IF forceClose = "armed" THEN "none" ELSE forceClose
  /\ UNCHANGED <<starts, dicts, served, faulty, lost>>

\* The end of MongoLogger.teardown.
TearDown ==
  /\ Running /\ telemetry = "closing" /\ telemetry' = "closed"
  /\ UNCHANGED <<proc, starts, dicts, forceClose, served, faulty, lost>>

\* Nothing is left to do.
Exit ==
  /\ proc = "closed" /\ telemetry = "closed" /\ dicts = "created" /\ forceClose = "none"
  /\ \A r \in DOMAIN served : served[r].handler = "done" /\ served[r].log = "done"
  /\ proc' = "exited"
  /\ UNCHANGED <<starts, telemetry, dicts, forceClose, served, faulty, lost>>

\* The supervisor starts a process that went down.
Restart ==
  /\ proc = "down" /\ starts < MaxProcesses /\ starts' = starts + 1
  /\ proc' = "up" /\ telemetry' = "connecting" /\ dicts' = "pending"
  /\ served' = <<>> /\ forceClose' = "none" /\ UNCHANGED <<faulty, lost>>

Next ==
  \/ \E readable \in BOOLEAN : Accept(readable)
  \/ \E r \in DOMAIN served :
       HandlerEnds(r) \/ ConnectionEnds(r) \/ ClientLeaves(r) \/ LogEnds(r) \/ LogFails(r)
  \/ TelemetryConnects \/ TelemetryFails \/ CreateDictionaries \/ DictionaryFails
  \/ Signal \/ CountConnections \/ CloseAllConnections \/ Close \/ TearDown
  \/ Exit \/ Restart

\* Timers fire, and the event "close" comes when it is due. Handlers, clients,
\* writes and the telemetry's server may take for ever.
Fairness == WF_vars(CountConnections) /\ WF_vars(CloseAllConnections) /\ WF_vars(Close)

Spec == Init /\ [][Next]_vars /\ Fairness

-----------------------------------------------------------------------------
TypeOK ==
  /\ proc \in {"up", "stopping", "closed", "exited", "down"} /\ starts \in 1 .. MaxProcesses
  /\ telemetry \in {"connecting", "ready", "closing", "closed"}
  /\ dicts \in {"pending", "created"} /\ forceClose \in {"none", "armed", "cutting"}
  /\ served \in Seq([connection : {"open", "closed"}, handler : {"running", "done"},
                     log : {"none", "waiting", "writing", "done"}])
  /\ {faulty, lost} \subseteq BOOLEAN

\* A request is lost with its process only if something failed or the process
\* was closed by force: telemetry that is torn down, and logs that fail because
\* of it, take no other request with them.
LostOnlyByFaults == lost => faulty

\* The telemetry is torn down after the last answer on an open connection.
TornDownLast ==
  Running /\ telemetry \in {"closing", "closed"} => \A r \in DOMAIN served : ~IsOpen(r)

\* A stop takes no request with it.
StopsWithoutLoss == LostOnlyByFaults /\ TornDownLast

\* A process that was told to stop does so, whatever its handlers do.
StopEnds == proc = "stopping" ~> proc \in {"closed", "exited", "down"}

=============================================================================
