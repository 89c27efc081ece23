--------------------------- MODULE OfflineSettings ---------------------------
(***************************************************************************)
(* The settings of offline mode: the in-memory singleton of the service    *)
(* worker (serviceworker.ts, OFFLINE_SETTINGS), the IndexedDB store behind *)
(* it (offline_settings_storage.ts, indexdb/wrappers.ts), the message      *)
(* handler that toggles one setting at a time, and the hook through which  *)
(* every open page follows the settings (use_offline_settings.ts).         *)
(*                                                                         *)
(* One action is one event-loop task of a context together with the        *)
(* microtasks it releases, because nothing else of that context can run in *)
(* between: in particular all the calls of setKey that wait for the first  *)
(* read resume together, one after the other, in the order they asked.     *)
(*                                                                         *)
(* A setting is TRUE or FALSE: the code compares with `=== true`, so a     *)
(* missing key behaves as FALSE.                                           *)
(***************************************************************************)
EXTENDS Naturals, Sequences

CONSTANTS
  Keys,         \* the settings (OFFLINE_SETTINGS_KEYS)
  ModeKey,      \* "offlineModeEnabled"
  DownloadKeys, \* the settings that promise downloaded data
  Tasks,        \* toggle requests; each is one message to the service worker
  Apps,         \* pages that use the hook
  Faults,       \* the kinds of failure that may happen, see FaultKinds
  MaxCold,      \* toggles that may wait for the first read at the same time
  Undefined     \* the JavaScript value

FaultKinds == {"kill", "readError", "putError", "commitAbort", "hiddenFailure"}

ASSUME ConstantsAssumption ==
  /\ ModeKey \in Keys
  /\ DownloadKeys \subseteq Keys \ {ModeKey}
  /\ Faults \subseteq FaultKinds
  /\ MaxCold \in Nat \ {0}
  /\ Undefined \notin BOOLEAN
  /\ Undefined \notin [Keys -> BOOLEAN]

Settings == [Keys -> BOOLEAN]
Phases == {"idle", "working", "waiting", "putting", "ok", "failed", "lost"}

Toggle == [phase : Phases, key : Keys, value : BOOLEAN]

VARIABLES
  \* the browser's storage; survives the service worker
  db,           \* the settings committed to IndexedDB
  committing,   \* settings whose put has succeeded and is not committed yet
  txns,         \* write transactions in the order they were created
  stored,       \* the downloads whose data is in IndexedDB
  \* the service worker's memory
  current,      \* the cached settings
  initial,      \* the state of the promise of the first read
  initialStale, \* the flag that stops the first read from overwriting `current`
  waiting,      \* toggles suspended in `await initial`
  task,         \* every toggle's progress, key and desired value
  \* the pages
  hook,         \* whether the hook is mounted, and how far its read is
  readValue,    \* what the hook's own read of the database returned
  ignoreInitial,\* the hook has heard a broadcast, so it drops its own read
  view,         \* the settings the page shows
  inbox,        \* broadcasts not yet delivered to the page
  \* history
  hidden,       \* downloads whose last save was reported as a success although
                \* their data is not stored
  ack           \* the value last confirmed to a page for a key that no toggle
                \* is changing, or Undefined

dbVars == <<db, committing, txns, stored, hidden>>
swVars == <<current, initial, initialStale, waiting>>
appVars == <<hook, readValue, ignoreInitial, view, inbox>>
vars == <<dbVars, swVars, task, appVars, ack>>

(***************************************************************************)
(* Helpers                                                                 *)
(***************************************************************************)
\* The settings `s` with the key of toggle t set as the toggle asks.
WithKey(s, t) == [s EXCEPT ![task[t].key] = task[t].value]

InFlight(t) == task[t].phase \in {"waiting", "putting"}

\* No toggle but t is changing t's key.
Alone(t) == \A u \in Tasks \ {t} : InFlight(u) => task[u].key # task[t].key

Move(t, phase) == task' = [task EXCEPT ![t].phase = phase]

Init ==
  /\ db \in {s \in Settings : \A k \in Keys \ (DownloadKeys \cup {ModeKey}) : ~s[k]}
  /\ stored \in {d \in SUBSET DownloadKeys : \A k \in DownloadKeys : db[k] => k \in d}
  /\ hidden = {}
  /\ committing = Undefined
  /\ txns = <<>>
  /\ current = Undefined
  /\ initial = "none"
  /\ initialStale = FALSE
  /\ waiting = <<>>
  /\ task = [t \in Tasks |-> [phase |-> "idle", key |-> ModeKey, value |-> FALSE]]
  /\ hook = [a \in Apps |-> "unmounted"]
  /\ readValue = [a \in Apps |-> Undefined]
  /\ ignoreInitial = [a \in Apps |-> FALSE]
  /\ view = [a \in Apps |-> Undefined]
  /\ inbox = [a \in Apps |-> <<>>]
  /\ ack = [k \in Keys |-> Undefined]

(***************************************************************************)
(* The service worker                                                      *)
(***************************************************************************)
\* Mutant: setKey starts from the database instead of the settings in memory.
SetKeyFromDb(t, k, v) ==
  /\ current' = [db EXCEPT ![k] = v]
  /\ initialStale' = TRUE
  /\ txns' = Append(txns, [task |-> t, value |-> current'])
  /\ task' = [task EXCEPT ![t] = [phase |-> "putting", key |-> k, value |-> v]]
  /\ ack' = [ack EXCEPT ![k] = Undefined]
  /\ initial' = "resolved"
  /\ UNCHANGED waiting

\* setKey(k, v) of toggle t, up to its first suspension: with settings in
\* memory it changes them and queues the write, otherwise it waits for the
\* first read, which it starts if the singleton does not exist yet.
SetKey(t, k, v) ==
  \/ /\ current # Undefined
     /\ current' = [current EXCEPT ![k] = v]
     /\ initialStale' = TRUE
     /\ txns' = Append(txns, [task |-> t, value |-> current'])
     /\ task' = [task EXCEPT ![t] = [phase |-> "putting", key |-> k, value |-> v]]
     /\ ack' = [ack EXCEPT ![k] = Undefined]
     /\ UNCHANGED <<initial, waiting>>
  \/ /\ current = Undefined
     /\ initial \in {"none", "pending"}
     /\ Len(waiting) < MaxCold
     /\ initial' = "pending"
     /\ waiting' = Append(waiting, t)
     /\ task' = [task EXCEPT ![t] = [phase |-> "waiting", key |-> k, value |-> v]]
     /\ ack' = [ack EXCEPT ![k] = Undefined]
     /\ UNCHANGED <<current, initialStale, txns>>
  \/ /\ current = Undefined
     /\ initial = "rejected"
     /\ task' = [task EXCEPT ![t] = [phase |-> "failed", key |-> k, value |-> v]]
     /\ UNCHANGED <<swVars, txns, ack>>

\* The message listener: switching a setting off needs no further work.
TurnOff(t, k) ==
  /\ task[t].phase = "idle"
  /\ SetKey(t, k, FALSE)
  /\ UNCHANGED <<db, committing, stored, hidden, appVars>>

\* Mutant: the setting is written before the work it stands for.
TurnOnAtOnce(t, k) ==
  /\ task[t].phase = "idle"
  /\ SetKey(t, k, TRUE)
  /\ UNCHANGED <<db, committing, stored, hidden, appVars>>

\* The message listener: switching offline mode on first fetches the list of
\* works, switching a download on first fetches its data. A key with neither
\* is answered with a failure at once.
TurnOn(t, k) ==
  /\ task[t].phase = "idle"
  /\ task' = [task EXCEPT ![t] =
                [phase |-> IF k \in DownloadKeys \cup {ModeKey} THEN "working" ELSE "failed",
                 key |-> k, value |-> TRUE]]
  /\ UNCHANGED <<dbVars, swVars, appVars, ack>>

\* What a save of download k leaves behind when it resolves: the data; or
\* nothing new, because a chunk's transaction was aborted (allSettled), the
\* stream ended between two chunks, or the commit failed after its put.
SaveResolves(k) ==
  \/ stored' = stored \cup {k} /\ hidden' = hidden \ {k}
  \/ /\ "hiddenFailure" \in Faults
     /\ hidden' = hidden \cup ({k} \ stored)
     /\ UNCHANGED stored

\* The work before setKey resolves. For offline mode every error of the work is
\* swallowed, so this is its only outcome.
WorkDone(t) ==
  /\ task[t].phase = "working"
  /\ IF task[t].key \in DownloadKeys THEN SaveResolves(task[t].key)
     ELSE UNCHANGED <<stored, hidden>>
  /\ SetKey(t, task[t].key, TRUE)
  /\ UNCHANGED <<db, committing, appVars>>

\* Mutant: the listener has no catch.
WorkFailsSilently(t) ==
  /\ task[t].phase = "working"
  /\ task[t].key # ModeKey
  /\ Move(t, "lost")
  /\ UNCHANGED <<dbVars, swVars, appVars, ack>>

\* The download fails; the listener's catch answers with a failure.
WorkFails(t) ==
  /\ task[t].phase = "working"
  /\ task[t].key # ModeKey
  /\ Move(t, "failed")
  /\ UNCHANGED <<dbVars, swVars, appVars, ack>>

\* The first use of the singleton that is not a toggle: prewarm, or a fetch.
Prewarm ==
  /\ initial = "none"
  /\ initial' = "pending"
  /\ UNCHANGED <<dbVars, current, initialStale, waiting, task, appVars, ack>>

\* Mutant: the callback of the first read runs after the suspended setKeys and
\* does not look at initialStale.
InitialOverwrites ==
  /\ initial = "pending"
  /\ txns = <<>> /\ committing = Undefined
  /\ initial' = "resolved"
  /\ initialStale' = (initialStale \/ waiting # <<>>)
  /\ current' = db
  /\ txns' = [i \in DOMAIN waiting |->
                [task |-> waiting[i], value |-> WithKey(db, waiting[i])]]
  /\ waiting' = <<>>
  /\ task' = [t \in Tasks |-> IF task[t].phase = "waiting"
                              THEN [task[t] EXCEPT !.phase = "putting"] ELSE task[t]]
  /\ UNCHANGED <<db, committing, stored, hidden, appVars, ack>>

\* The first read completes. Its own callback runs first and fills `current`;
\* then every suspended setKey resumes, each from the value that was READ.
InitialResolves ==
  LET resumed == [i \in DOMAIN waiting |->
                    [task |-> waiting[i], value |-> WithKey(db, waiting[i])]]
  IN
  /\ initial = "pending"
  /\ txns = <<>> /\ committing = Undefined
  /\ initial' = "resolved"
  /\ initialStale' = (initialStale \/ waiting # <<>>)
  /\ current' = IF waiting # <<>> THEN resumed[Len(waiting)].value
                ELSE IF initialStale THEN current ELSE db
  /\ txns' = resumed
  /\ waiting' = <<>>
  /\ task' = [t \in Tasks |-> IF task[t].phase = "waiting"
                              THEN [task[t] EXCEPT !.phase = "putting"] ELSE task[t]]
  /\ UNCHANGED <<db, committing, stored, hidden, appVars, ack>>

\* The first read fails: the promise stays rejected for the worker's lifetime.
InitialRejects ==
  /\ "readError" \in Faults
  /\ initial = "pending"
  /\ initial' = "rejected"
  /\ waiting' = <<>>
  /\ task' = [t \in Tasks |-> IF task[t].phase = "waiting"
                              THEN [task[t] EXCEPT !.phase = "failed"] ELSE task[t]]
  /\ UNCHANGED <<dbVars, current, initialStale, appVars, ack>>

\* Mutant: the broadcast carries the request instead of the settings.
PutPostsRequest ==
  LET t == Head(txns).task
  IN
  /\ txns # <<>> /\ committing = Undefined
  /\ task[t].phase = "putting"
  /\ committing' = Head(txns).value
  /\ txns' = Tail(txns)
  /\ inbox' = [a \in Apps |-> IF hook[a] = "unmounted" THEN inbox[a]
                              ELSE Append(inbox[a], task[t])]
  /\ Move(t, "ok")
  /\ UNCHANGED <<db, stored, hidden, swVars, hook, readValue, ignoreInitial, view, ack>>

\* The put at the head of the queue succeeds: the new settings are broadcast to
\* the mounted pages and the toggle is answered, before the commit.
PutSucceeds ==
  LET t == Head(txns).task
      s == Head(txns).value
  IN
  /\ txns # <<>> /\ committing = Undefined
  /\ task[t].phase = "putting"
  /\ committing' = s
  /\ txns' = Tail(txns)
  /\ inbox' = [a \in Apps |-> IF hook[a] = "unmounted" THEN inbox[a]
                              ELSE Append(inbox[a], s)]
  /\ Move(t, "ok")
  /\ ack' = IF Alone(t) THEN [ack EXCEPT ![task[t].key] = task[t].value] ELSE ack
  /\ UNCHANGED <<db, stored, hidden, swVars, hook, readValue, ignoreInitial, view>>

\* The put fails; `current` keeps the value that was not written.
PutFails ==
  /\ "putError" \in Faults
  /\ txns # <<>> /\ committing = Undefined
  /\ task[Head(txns).task].phase = "putting"
  /\ txns' = Tail(txns)
  /\ Move(Head(txns).task, "failed")
  /\ UNCHANGED <<db, committing, stored, hidden, swVars, appVars, ack>>

\* The browser stops the service worker: no handler holds it with waitUntil.
Kill ==
  /\ "kill" \in Faults
  /\ initial # "none" \/ \E t \in Tasks : task[t].phase = "working"
  /\ current' = Undefined
  /\ initial' = "none"
  /\ initialStale' = FALSE
  /\ waiting' = <<>>
  /\ task' = [t \in Tasks |-> IF task[t].phase \in {"working", "waiting", "putting"}
                              THEN [task[t] EXCEPT !.phase = "lost"] ELSE task[t]]
  /\ UNCHANGED <<dbVars, appVars, ack>>

(***************************************************************************)
(* IndexedDB                                                               *)
(***************************************************************************)
Commit ==
  /\ committing # Undefined
  /\ db' = committing
  /\ committing' = Undefined
  /\ UNCHANGED <<txns, stored, hidden, swVars, task, appVars, ack>>

\* The transaction aborts after its put was reported as a success.
CommitAborts ==
  /\ "commitAbort" \in Faults
  /\ committing # Undefined
  /\ committing' = Undefined
  /\ UNCHANGED <<db, txns, stored, hidden, swVars, task, appVars, ack>>

\* The service worker is gone: its first unfinished write still reaches the
\* disk, or the browser aborts all of them.
OrphanSettles ==
  /\ txns # <<>> /\ committing = Undefined
  /\ task[Head(txns).task].phase = "lost"
  /\ \/ committing' = Head(txns).value /\ txns' = Tail(txns)
     \/ committing' = Undefined /\ txns' = <<>>
  /\ UNCHANGED <<db, stored, hidden, swVars, task, appVars, ack>>

(***************************************************************************)
(* The pages: useOfflineSettings                                           *)
(***************************************************************************)
Mount(a) ==
  /\ hook[a] = "unmounted"
  /\ hook' = [hook EXCEPT ![a] = "reading"]
  /\ UNCHANGED <<dbVars, swVars, task, readValue, ignoreInitial, view, inbox, ack>>

Unmount(a) ==
  /\ hook[a] # "unmounted"
  /\ hook' = [hook EXCEPT ![a] = "unmounted"]
  /\ readValue' = [readValue EXCEPT ![a] = Undefined]
  /\ ignoreInitial' = [ignoreInitial EXCEPT ![a] = FALSE]
  /\ view' = [view EXCEPT ![a] = Undefined]
  /\ inbox' = [inbox EXCEPT ![a] = <<>>]
  /\ UNCHANGED <<dbVars, swVars, task, ack>>

\* The page's read runs between two write transactions.
PageReads(a) ==
  /\ hook[a] = "reading"
  /\ readValue[a] = Undefined
  /\ committing = Undefined
  /\ readValue' = [readValue EXCEPT ![a] = db]
  /\ UNCHANGED <<dbVars, swVars, task, hook, ignoreInitial, view, inbox, ack>>

\* The page's read is rejected. Nothing catches that: the hook has heard of no
\* settings, and goes on listening.
PageReadFails(a) ==
  /\ "readError" \in Faults
  /\ hook[a] = "reading"
  /\ readValue[a] = Undefined
  /\ hook' = [hook EXCEPT ![a] = "failed"]
  /\ UNCHANGED <<dbVars, swVars, task, readValue, ignoreInitial, view, inbox, ack>>

\* Mutant: the hook shows its own read even after a broadcast.
ReadAlwaysShown(a) ==
  /\ hook[a] = "reading"
  /\ readValue[a] # Undefined
  /\ view' = [view EXCEPT ![a] = readValue[a]]
  /\ hook' = [hook EXCEPT ![a] = "settled"]
  /\ readValue' = [readValue EXCEPT ![a] = Undefined]
  /\ UNCHANGED <<dbVars, swVars, task, ignoreInitial, inbox, ack>>

\* The page gets the result of its read, and drops it after a broadcast.
ReadDelivered(a) ==
  /\ hook[a] = "reading"
  /\ readValue[a] # Undefined
  /\ view' = [view EXCEPT ![a] = IF ignoreInitial[a] THEN @ ELSE readValue[a]]
  /\ hook' = [hook EXCEPT ![a] = "settled"]
  /\ readValue' = [readValue EXCEPT ![a] = Undefined]
  /\ UNCHANGED <<dbVars, swVars, task, ignoreInitial, inbox, ack>>

\* The page hears a broadcast.
BroadcastDelivered(a) ==
  /\ hook[a] # "unmounted"
  /\ inbox[a] # <<>>
  /\ ignoreInitial' = [ignoreInitial EXCEPT ![a] = TRUE]
  /\ view' = [view EXCEPT ![a] = Head(inbox[a])]
  /\ inbox' = [inbox EXCEPT ![a] = Tail(@)]
  /\ UNCHANGED <<dbVars, swVars, task, hook, readValue, ack>>

(***************************************************************************)
(* The specification                                                       *)
(***************************************************************************)
Next ==
  \/ \E t \in Tasks, k \in Keys : TurnOff(t, k) \/ TurnOn(t, k)
  \/ \E t \in Tasks : WorkDone(t) \/ WorkFails(t)
  \/ Prewarm \/ InitialResolves \/ InitialRejects
  \/ PutSucceeds \/ PutFails \/ Kill
  \/ Commit \/ CommitAborts \/ OrphanSettles
  \/ \E a \in Apps : Mount(a) \/ Unmount(a)
  \/ \E a \in Apps :
       PageReads(a) \/ PageReadFails(a) \/ ReadDelivered(a) \/ BroadcastDelivered(a)

\* Reads, writes and message deliveries end; the network answers or fails. The
\* user is never obliged to do anything, and no failure is obliged to happen.
Fairness ==
  /\ WF_vars(InitialResolves \/ InitialRejects)
  /\ WF_vars(PutSucceeds \/ PutFails)
  /\ WF_vars(Commit \/ CommitAborts)
  /\ WF_vars(OrphanSettles)
  /\ \A t \in Tasks : WF_vars(WorkDone(t) \/ WorkFails(t))
  /\ \A a \in Apps :
       /\ WF_vars(PageReads(a) \/ PageReadFails(a))
       /\ WF_vars(ReadDelivered(a))
       /\ WF_vars(BroadcastDelivered(a))

Spec == Init /\ [][Next]_vars
FairSpec == Spec /\ Fairness

(***************************************************************************)
(* Properties                                                              *)
(***************************************************************************)
Write == [task : Tasks, value : Settings]

\* Every variable has its type (serviceworker.ts:109-129 and the hook's state).
TypeOK ==
  /\ db \in Settings
  /\ committing \in Settings \cup {Undefined}
  /\ txns \in Seq(Write)
  /\ stored \subseteq DownloadKeys
  /\ hidden \subseteq DownloadKeys
  /\ current \in Settings \cup {Undefined}
  /\ initial \in {"none", "pending", "resolved", "rejected"}
  /\ initialStale \in BOOLEAN
  /\ waiting \in Seq(Tasks)
  /\ task \in [Tasks -> Toggle]
  /\ hook \in [Apps -> {"unmounted", "reading", "settled", "failed"}]
  /\ readValue \in [Apps -> Settings \cup {Undefined}]
  /\ ignoreInitial \in [Apps -> BOOLEAN]
  /\ view \in [Apps -> Settings \cup {Undefined}]
  /\ inbox \in [Apps -> Seq(Settings)]
  /\ ack \in [Keys -> BOOLEAN \cup {Undefined}]

\* The downloads whose save was reported as a success: their data is stored, or
\* a failure of the save was hidden.
Saved == stored \cup hidden

HiddenByFault == hidden \cap stored = {} /\ (hidden # {} => "hiddenFailure" \in Faults)

\* Settings that claim no download outside d; and none that was not saved.
BackedBy(s, d) == s # Undefined => \A k \in DownloadKeys : s[k] => k \in d
Backed(s) == BackedBy(s, Saved)

\* Nowhere - on disk, in a pending write, in the worker's memory, in a
\* broadcast, on a page - is a resource marked as downloaded before its save
\* was reported as a success (tryToExecuteThenUpdateState sets the key only
\* after the download), whatever is killed, rejected or aborted. The data is
\* stored then unless the save itself hid a failure: `hidden` names these
\* downloads, and there are none without such a failure (indexdb_backing.ts:95,
\* offline_data.ts:43).
NoPhantomDownload ==
  /\ HiddenByFault
  /\ Backed(db) /\ Backed(committing) /\ Backed(current)
  /\ \A i \in DOMAIN txns : Backed(txns[i].value)
  /\ \A a \in Apps : /\ Backed(view[a]) /\ Backed(readValue[a])
                     /\ \A i \in DOMAIN inbox[a] : Backed(inbox[a][i])

\* The settings the database will hold once it has drained its queue.
Eventual == IF txns # <<>> THEN txns[Len(txns)].value
            ELSE IF committing # Undefined THEN committing ELSE db

\* A confirmed toggle sticks: a key whose last toggle was answered with success
\* and which no toggle is changing has the confirmed value on disk, in every
\* pending write and in memory ("We just want to update the offline settings
\* state to the requested one", serviceworker.ts:252).
AckedToggleHolds ==
  \A k \in Keys : ack[k] # Undefined =>
    /\ (IF committing = Undefined THEN db ELSE committing)[k] = ack[k]
    /\ current # Undefined => current[k] = ack[k]
    /\ \A i \in DOMAIN txns : txns[i].value[k] = ack[k]

MemoryIsLatest == current # Undefined => current = Eventual

\* A put fails, or a transaction aborts after its put.
WriteFails ==
  \/ \E t \in Tasks : task[t].phase = "putting" /\ task'[t].phase = "failed"
  \/ committing # Undefined /\ committing' = Undefined /\ db' # committing

\* The worker's memory is what the database is about to hold, and nothing but a
\* failing write makes them differ: the worker never lags behind, however many
\* toggles wait for the first read and whatever that read returns.
MemoryStaysLatest == [][MemoryIsLatest => MemoryIsLatest' \/ WriteFails]_vars

\* Every toggle that reaches the worker is answered (the page keeps its checkbox
\* disabled until then, offline_settings_ui.tsx).
EveryToggleAnswered ==
  \A t \in Tasks : task[t].phase = "working" ~> task[t].phase \in {"ok", "failed"}

\* A page whose own read was rejected and that has heard of no toggle since.
LeftWithout(a) == hook[a] = "failed" /\ ~ ignoreInitial[a]

\* Pages converge: a mounted page shows what is on disk again and again, and
\* for ever once the toggles are over; only a page whose own read was rejected
\* (nothing catches that, use_offline_settings.ts:18) shows no settings until
\* it hears a broadcast, and converges from then on like the others.
PagesConverge ==
  \A a \in Apps : []<>(hook[a] = "unmounted" \/ view[a] = db \/ LeftWithout(a))

(***************************************************************************)
(* Inductive invariants, proved in OfflineSettingsProofs                   *)
(***************************************************************************)
\* A toggle in the list of waiters is waiting, for a read that is under way,
\* and if it marks a download, that download is saved.
WaitersWait ==
  \A i \in DOMAIN waiting :
    LET t == waiting[i] IN
    /\ task[t].phase = "waiting"
    /\ initial = "pending"
    /\ (task[t].value /\ task[t].key \in DownloadKeys) => task[t].key \in Saved

PhantomInv == TypeOK /\ NoPhantomDownload /\ WaitersWait

\* The settings are in memory exactly when the first read has succeeded, and
\* the flag initialStale is never set before: it protects nothing.
MemoryLoaded ==
  /\ current = Undefined <=> initial # "resolved"
  /\ initialStale => initial = "resolved"

\* Queued writes belong to different toggles, all of them of the living worker
\* or all of them of a dead one.
QueueOwners ==
  /\ \A i \in DOMAIN txns :
       task[txns[i].task].phase = IF current = Undefined THEN "lost" ELSE "putting"
  /\ \A i, j \in DOMAIN txns : i # j => txns[i].task # txns[j].task

\* No toggle waits twice.
WaitersDiffer ==
  \A i, j \in DOMAIN waiting : i # j => waiting[i] # waiting[j]

\* What MemoryStaysLatest rests on; it bounds neither MaxCold nor Faults.
LatestInv == PhantomInv /\ WaitersDiffer /\ MemoryLoaded /\ QueueOwners

\* A queued write of the living worker holds its toggle's value, and differs
\* from the settings in memory only at the keys of the toggles behind it.
QueueValues ==
  current # Undefined => \A i \in DOMAIN txns :
    /\ txns[i].value[task[txns[i].task].key] = task[txns[i].task].value
    /\ \A k \in Keys :
         (\A j \in DOMAIN txns : j > i => task[txns[j].task].key # k)
           => txns[i].value[k] = current[k]

\* No value is confirmed for a key that a toggle is changing.
InFlightUnacked == \A t \in Tasks : InFlight(t) => ack[task[t].key] = Undefined

AckInv ==
  /\ PhantomInv /\ Len(waiting) <= 1
  /\ MemoryLoaded /\ QueueOwners /\ QueueValues /\ InFlightUnacked
  /\ AckedToggleHolds

\* Every toggle that waits is in the list of waiters.
WaitersListed ==
  \A t \in Tasks : task[t].phase = "waiting" => \E i \in DOMAIN waiting : waiting[i] = t

\* The settings on disk once the first i queued writes are committed.
After(i) == IF i # 0 THEN txns[i].value
            ELSE IF committing = Undefined THEN db ELSE committing

\* Between two points of the queue, dead or alive, only the keys of the toggles
\* in between change.
QueueSteps ==
  \A h, i \in 0..Len(txns), k \in Keys :
    h < i /\ (\A j \in DOMAIN txns : h < j /\ j <= i => task[txns[j].task].key # k)
      => After(i)[k] = After(h)[k]

\* What ImplementsRegister rests on.
RegisterInv == AckInv /\ LatestInv /\ MemoryIsLatest /\ WaitersListed /\ QueueSteps

(***************************************************************************)
(* Refinement: the settings the database is about to hold are the register *)
(***************************************************************************)
Status(phase) == CASE phase \in {"idle", "working", "waiting"} -> "open"
                   [] phase = "putting" -> "applied"
                   [] OTHER -> phase

Register == INSTANCE SettingsRegister WITH
  value <- Eventual,
  toggle <- [t \in Tasks |-> [status |-> Status(task[t].phase),
                              key |-> task[t].key, value |-> task[t].value]]

\* With at most one toggle waiting for the first read and no failing write, the
\* worker, its memory and its write queue behave as one register per setting
\* (offline_settings_storage.ts:93, "the service worker is considered the
\* source of truth for the offline mode state").
ImplementsRegister == Register!Spec

=============================================================================
