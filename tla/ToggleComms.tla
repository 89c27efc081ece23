---------------------------- MODULE ToggleComms ----------------------------
(***************************************************************************)
(* The checkboxes of the offline settings and the messages between a page  *)
(* and the service worker.  A click waits for the registration and, for    *)
(* offline mode, for the user's permissions before it disables the         *)
(* checkbox and sends its request, so that a second click may come first.  *)
(* An answer names the setting, not the request: every listener for that   *)
(* setting takes it.  What the worker does is in OfflineSettings.          *)
(***************************************************************************)
EXTENDS Naturals, Sequences

CONSTANTS
  Keys,       \* the settings
  ModeKey,    \* offlineModeEnabled: asks for permissions, downloads nothing
  MaxClicks,  \* clicks on the checkboxes
  MaxMounts,  \* times that the settings are opened
  MayKill     \* the browser may stop the worker

ConstantsFit == MaxMounts \in Nat \ {0}

VARIABLES
  requests,   \* one per click: key, value, mount and phase
  boxes,      \* disabled and progress of every checkbox of the current mount
  mount, mounted,
  listeners,  \* requests whose listener is registered
  toPage      \* messages from the worker to the page, in order

vars == <<requests, boxes, mount, mounted, listeners, toPage>>

FreshBoxes == [k \in Keys |-> [disabled |-> FALSE, progress |-> "none"]]

Init ==
  /\ requests = <<>> /\ boxes = FreshBoxes
  /\ mount = 1 /\ mounted = TRUE
  /\ listeners = {} /\ toPage = <<>>

Requests == DOMAIN requests
SetPhase(r, phase) == requests' = [requests EXCEPT ![r].phase = phase]

\* The state setters of a component that is gone do nothing.
Shown(r) == mounted /\ requests[r].mount = mount
SetBox(r, box) ==
  boxes' = IF Shown(r) THEN [boxes EXCEPT ![requests[r].key] = box] ELSE boxes

-----------------------------------------------------------------------------
Click(k, value) ==
  /\ mounted /\ ~boxes[k].disabled /\ Len(requests) < MaxClicks
  /\ requests' = Append(requests, [key |-> k, value |-> value, mount |-> mount,
                                   phase |-> "registering"])
  /\ boxes' = [boxes EXCEPT ![k].progress = "wait"]
  /\ UNCHANGED <<mount, mounted, listeners, toPage>>

NoServiceWorker(r) ==
  /\ requests[r].phase = "registering"
  /\ SetPhase(r, "done")
  /\ SetBox(r, [boxes[requests[r].key] EXCEPT !.progress = "error"])
  /\ UNCHANGED <<mount, mounted, listeners, toPage>>

Asks(r) == requests[r].key = ModeKey /\ requests[r].value

Registered(r) ==
  /\ requests[r].phase = "registering" /\ Asks(r)
  /\ SetPhase(r, "asking")
  /\ UNCHANGED <<boxes, mount, mounted, listeners, toPage>>

\* Whatever the user answers, the checkbox is disabled and the request made.
StartSend(r) ==
  /\ requests[r].phase = IF Asks(r) THEN "asking" ELSE "registering"
  /\ SetPhase(r, "sending")
  /\ SetBox(r, [boxes[requests[r].key] EXCEPT !.disabled = TRUE])
  /\ UNCHANGED <<mount, mounted, listeners, toPage>>

\* sendToSw, after it has found the active worker.
Post(r) ==
  /\ requests[r].phase = "sending"
  /\ SetPhase(r, "open")
  /\ listeners' = listeners \cup {r}
  /\ UNCHANGED <<boxes, mount, mounted, toPage>>

-----------------------------------------------------------------------------
Message(r, kind) == [key |-> requests[r].key, kind |-> kind]

\* A dictionary's download tells how far it is.
Progress(r) ==
  /\ requests[r].phase = "open" /\ requests[r].value /\ requests[r].key # ModeKey
  /\ SetPhase(r, "downloading")
  /\ toPage' = Append(toPage, Message(r, "progress"))
  /\ UNCHANGED <<boxes, mount, mounted, listeners>>

Answer(r, kind) ==
  /\ requests[r].phase \in {"open", "downloading"}
  /\ SetPhase(r, "done")
  /\ toPage' = Append(toPage, Message(r, kind))
  /\ UNCHANGED <<boxes, mount, mounted, listeners>>

Kill ==
  /\ MayKill /\ \E r \in Requests : requests[r].phase \in {"open", "downloading"}
  /\ requests' = [r \in Requests |->
       IF requests[r].phase \in {"open", "downloading"}
       THEN [requests[r] EXCEPT !.phase = "lost"] ELSE requests[r]]
  /\ UNCHANGED <<boxes, mount, mounted, listeners, toPage>>

-----------------------------------------------------------------------------
Hears(r) == requests[r].key = Head(toPage).key

\* Mutant: a failed request leaves the checkbox as it is.
UpdatedBySuccess(box, kind) ==
  CASE kind = "progress" -> [box EXCEPT !.progress = "percent"]
    [] kind = "success" -> [disabled |-> FALSE, progress |-> "none"]
    [] kind = "failure" -> box

\* updateProgress
Updated(box, kind) ==
  CASE kind = "progress" -> [box EXCEPT !.progress = "percent"]
    [] kind = "success" -> [disabled |-> FALSE, progress |-> "none"]
    [] kind = "failure" -> [disabled |-> FALSE, progress |-> "error"]

\* Mutant: a listener hears one message only.
DeliverOnce ==
  /\ toPage # <<>> /\ toPage' = Tail(toPage)
  /\ LET taken == {r \in listeners : Hears(r)}
     IN /\ listeners' = listeners \ taken
        /\ boxes' = [k \in Keys |->
             IF \E r \in taken : requests[r].key = k /\ Shown(r)
             THEN Updated(boxes[k], Head(toPage).kind) ELSE boxes[k]]
  /\ UNCHANGED <<requests, mount, mounted>>

\* A message reaches the page: every listener for its setting takes it, and
\* with the last message of a request all of them stop listening.
Deliver ==
  /\ toPage # <<>> /\ toPage' = Tail(toPage)
  /\ LET taken == {r \in listeners : Hears(r)}
         kind == Head(toPage).kind
     IN /\ listeners' = IF kind = "progress" THEN listeners ELSE listeners \ taken
        /\ boxes' = [k \in Keys |->
             IF \E r \in taken : requests[r].key = k /\ Shown(r)
             THEN Updated(boxes[k], kind) ELSE boxes[k]]
  /\ UNCHANGED <<requests, mount, mounted>>

Leave == mounted /\ mounted' = FALSE /\ UNCHANGED <<requests, boxes, mount, listeners, toPage>>

Return ==
  /\ ~mounted /\ mount < MaxMounts
  /\ mounted' = TRUE /\ mount' = mount + 1 /\ boxes' = FreshBoxes
  /\ UNCHANGED <<requests, listeners, toPage>>

-----------------------------------------------------------------------------
Next ==
  \/ \E k \in Keys, value \in BOOLEAN : Click(k, value)
  \/ \E r \in Requests :
       \/ NoServiceWorker(r) \/ Registered(r) \/ StartSend(r) \/ Post(r) \/ Progress(r)
       \/ \E kind \in {"success", "failure"} : Answer(r, kind)
  \/ Kill \/ Deliver \/ Leave \/ Return

\* The browser finds the worker and delivers, and the worker answers
\* (OfflineSettings!EveryToggleAnswered).
Fairness ==
  /\ WF_vars(Deliver)
  /\ \A r \in 1 .. MaxClicks :
       /\ WF_vars(r \in Requests /\ Post(r))
       /\ WF_vars(r \in Requests /\ \E kind \in {"success", "failure"} : Answer(r, kind))

Spec == Init /\ [][Next]_vars /\ Fairness

-----------------------------------------------------------------------------
TypeOK ==
  /\ requests \in Seq([key : Keys, value : BOOLEAN, mount : 1 .. MaxMounts,
       phase : {"registering", "asking", "sending", "open", "downloading", "lost", "done"}])
  /\ boxes \in [Keys -> [disabled : BOOLEAN, progress : {"none", "wait", "percent", "error"}]]
  /\ mount \in 1 .. MaxMounts /\ mounted \in BOOLEAN
  /\ listeners \subseteq Requests
  /\ toPage \in Seq([key : Keys, kind : {"progress", "success", "failure"}])

\* When all messages are delivered, nobody listens for an answer that was given,
\* and a checkbox is disabled or "in progress" only while a request of its own,
\* made since the settings were opened, is not answered: also after two clicks
\* in a row, whose answers cannot be told apart, after the settings were left
\* and opened again, and when a stopped worker lost requests for other settings
\* or of an earlier opening (app_comms.ts:14-24).  The checkbox whose own request
\* was lost may stay disabled.
Answered(k) ==
  \A r \in Requests : requests[r].key = k /\ requests[r].mount = mount => requests[r].phase = "done"

SettledIsUsable ==
  toPage = <<>> =>
    /\ \A r \in listeners : requests[r].phase # "done"
    /\ mounted => \A k \in Keys :
         Answered(k) => ~boxes[k].disabled /\ boxes[k].progress \in {"none", "error"}

\* A disabled checkbox can be used again some day, unless the worker was
\* stopped while it had the request (offline_settings_ui.tsx:96-113).
DisabledEnds ==
  \A k \in Keys : boxes[k].disabled ~>
    \/ ~boxes[k].disabled \/ ~mounted
    \/ \E r \in Requests : requests[r].key = k /\ requests[r].phase = "lost"

=============================================================================
