------------------------------ MODULE AppShell ------------------------------
(***************************************************************************)
(* How a page starts: index.html first, then the bundle that it names.     *)
(* Both come from the server, which is deployed again and again, or from   *)
(* the cache of a service worker, which all versions of the worker share.  *)
(* A worker handles the path of its own bundle only; the server answers    *)
(* index.html for the path of any bundle that is not its own.              *)
(*                                                                         *)
(* The worker's settings are reduced to offline mode, as stored and in     *)
(* memory; OfflineSettings has the rest.  The browser's HTTP cache, which  *)
(* may still hold an old bundle, is left out: it can only help.            *)
(***************************************************************************)
EXTENDS Naturals

CONSTANTS
  MaxVersion,  \* the last deploy
  MaxLoads,    \* the user opens a page at most this often
  Faults,      \* kinds of failure that may happen
  None, Html   \* no value; the content of index.html in the place of a script

Versions == 1 .. MaxVersion

ConstantsFit ==
  /\ MaxVersion \in Nat \ {0} /\ MaxLoads \in Nat
  /\ None \notin Versions /\ None \notin {"installing", "installed"} /\ Html \notin Versions

VARIABLES
  server,     \* the version that is deployed
  online,
  active,     \* the version of the active worker, or None
  newer,      \* a worker being installed: phase, version, what it fetched
  index,      \* cached index.html: the version whose bundle it names
  bundles,    \* cached bundles by the version in their path
  memory,     \* the worker's settings: "cold", "ready", or "rejected"
  stored, inMemory,  \* offline mode, on disk and in the worker's memory
  notice,     \* forcedOfflineMode: a page is to tell the user
  page,       \* phase and version of the page
  loads,
  raced,      \* versions whose worker was installed while another was deployed
  forced,     \* the worker has turned offline mode on, and no page has said so
  disturbed   \* meanwhile the worker was stopped, or one of its two writes failed

workerVars == <<active, newer, index, bundles, raced>>
settingVars == <<memory, stored, inMemory, notice, forced, disturbed>>
vars == <<server, online, workerVars, settingVars, page, loads>>

NoWorker == [phase |-> None, version |-> None, index |-> None, bundle |-> None]

Init ==
  /\ server = 1 /\ online = TRUE
  /\ active = None /\ newer = NoWorker /\ index = None /\ raced = {}
  /\ bundles = [v \in Versions |-> None]
  /\ memory = "cold" /\ stored = FALSE /\ inMemory = FALSE
  /\ notice = FALSE /\ forced = FALSE /\ disturbed = FALSE
  /\ page = [phase |-> "closed", version |-> None] /\ loads = 0

-----------------------------------------------------------------------------
\* The server and the network.

Deploy ==
  /\ server < MaxVersion
  /\ server' = server + 1
  /\ raced' = IF newer.phase = "installing" THEN raced \cup {newer.version} ELSE raced
  /\ UNCHANGED <<online, active, newer, index, bundles, settingVars, page, loads>>

ToggleNetwork ==
  /\ online' = ~online
  /\ UNCHANGED <<server, workerVars, settingVars, page, loads>>

\* The server's answer for the bundle of v.
Script(v) == IF v = server THEN v ELSE Html

-----------------------------------------------------------------------------
\* Installing a worker.

\* The browser finds a new worker, or registers the first one.
FindWorker ==
  /\ online /\ newer = NoWorker /\ active # server /\ page.phase = "running"
  /\ newer' = [NoWorker EXCEPT !.phase = "installing", !.version = server]
  /\ UNCHANGED <<server, online, active, index, bundles, raced, settingVars, page, loads>>

\* Mutant: every answer is put in the cache as it arrives.
FetchIndexStores ==
  /\ online /\ newer.phase = "installing" /\ newer.index = None
  /\ newer' = [newer EXCEPT !.index = server]
  /\ index' = server
  /\ UNCHANGED <<server, online, active, bundles, raced, settingVars, page, loads>>

FetchIndex ==
  /\ online /\ newer.phase = "installing" /\ newer.index = None
  /\ newer' = [newer EXCEPT !.index = server]
  /\ UNCHANGED <<server, online, active, index, bundles, raced, settingVars, page, loads>>

FetchBundle ==
  /\ online /\ newer.phase = "installing" /\ newer.bundle = None
  /\ newer' = [newer EXCEPT !.bundle = Script(newer.version)]
  /\ UNCHANGED <<server, online, active, index, bundles, raced, settingVars, page, loads>>

InstallFails ==
  /\ ~online /\ newer.phase = "installing"
  /\ newer' = NoWorker
  /\ UNCHANGED <<server, online, active, index, bundles, raced, settingVars, page, loads>>

\* Mutant: the bundle is not among what is cached.
InstallIndexOnly ==
  /\ newer.phase = "installing" /\ newer.index # None /\ newer.bundle # None
  /\ newer' = [newer EXCEPT !.phase = "installed"]
  /\ index' = newer.index
  /\ UNCHANGED <<server, online, active, bundles, raced, settingVars, page, loads>>

\* addAll stores all the answers at once.
Install ==
  /\ newer.phase = "installing" /\ newer.index # None /\ newer.bundle # None
  /\ newer' = [newer EXCEPT !.phase = "installed"]
  /\ index' = newer.index
  /\ bundles' = [bundles EXCEPT ![newer.version] = newer.bundle]
  /\ UNCHANGED <<server, online, active, raced, settingVars, page, loads>>

\* skipWaiting lets the new worker replace the old one as soon as that has
\* answered its requests, and claim the open pages.
Activate ==
  /\ newer.phase = "installed" /\ page.phase # "forcing"
  /\ active' = newer.version
  /\ newer' = NoWorker
  /\ memory' = "cold"
  /\ UNCHANGED <<server, online, index, bundles, raced, stored, inMemory, notice, forced,
                 disturbed, page, loads>>

-----------------------------------------------------------------------------
\* The worker's settings.

ReadSettings ==
  /\ active # None /\ memory = "cold"
  /\ \/ memory' = "ready" /\ inMemory' = stored
     \/ "readError" \in Faults /\ memory' = "rejected" /\ UNCHANGED inMemory
  /\ UNCHANGED <<server, online, workerVars, stored, notice, forced, disturbed, page, loads>>

\* The browser stops the worker; a request it was handling fails.
Kill ==
  /\ "kill" \in Faults /\ active # None /\ memory # "cold"
  /\ memory' = "cold"
  /\ page' = IF page.phase = "forcing" THEN [page EXCEPT !.phase = "broken"] ELSE page
  /\ disturbed' = (disturbed \/ page.phase = "forcing")
  /\ UNCHANGED <<server, online, workerVars, stored, inMemory, notice, forced, loads>>

\* The user turns offline mode on or off.
ToggleMode ==
  /\ page.phase = "running" /\ active # None /\ memory = "ready"
  /\ stored' = ~inMemory /\ inMemory' = ~inMemory
  /\ forced' = FALSE
  /\ UNCHANGED <<server, online, workerVars, memory, notice, disturbed, page, loads>>

-----------------------------------------------------------------------------
\* A page starts.

To(phase, version) == page' = [phase |-> phase, version |-> version]

\* The worker answers instead of the network.
Offline == active # None /\ memory = "ready" /\ inMemory
Waits == active # None /\ memory = "cold"
Fails == active # None /\ memory = "rejected"

Open ==
  /\ loads < MaxLoads /\ loads' = loads + 1
  /\ page.phase \in {"closed", "running", "broken"}
  /\ To("starting", None)
  /\ UNCHANGED <<server, online, workerVars, settingVars>>

\* fetch(request) for index.html.
IndexFromNetwork == IF online THEN To("linked", server) ELSE To("broken", None)

\* The request for index.html. Without a network, a worker whose offline mode
\* is off turns it on, if it has an index.html: first the write, then the flag.
\* If the write fails the mode is on in memory, and the flag is not set.
GetIndex ==
  /\ page.phase = "starting" /\ ~Waits
  /\ IF Fails THEN To("broken", None) /\ UNCHANGED <<stored, inMemory, forced, disturbed>>
     ELSE IF Offline /\ index # None
     THEN To("linked", index) /\ UNCHANGED <<stored, inMemory, forced, disturbed>>
     ELSE IF active # None /\ ~inMemory /\ ~online /\ index # None
     THEN /\ inMemory' = TRUE
          /\ forced' = TRUE
          /\ \/ stored' = TRUE /\ disturbed' = FALSE /\ To("forcing", index)
             \/ /\ "putError" \in Faults /\ To("linked", index)
                /\ disturbed' = TRUE /\ UNCHANGED stored
     ELSE IndexFromNetwork /\ UNCHANGED <<stored, inMemory, forced, disturbed>>
  /\ UNCHANGED <<server, online, workerVars, memory, notice, loads>>

\* forcedOfflineMode.set(true), and the index.html that was read before. A
\* failure is caught: the page starts all the same, and offline mode stays on.
SetFlag ==
  /\ page.phase = "forcing"
  /\ \/ notice' = TRUE /\ UNCHANGED disturbed
     \/ "putError" \in Faults /\ disturbed' = TRUE /\ UNCHANGED notice
  /\ To("linked", page.version)
  /\ UNCHANGED <<server, online, workerVars, memory, stored, inMemory, forced, loads>>

\* The script of the page runs, or is not a script.
Run(content) == IF content = page.version THEN To("started", page.version)
                ELSE To("broken", page.version)

\* The request for the bundle: the worker knows the path of its own only.
GetBundle ==
  /\ page.phase = "linked" /\ ~(Waits /\ page.version = active)
  /\ IF page.version = active /\ Fails THEN To("broken", page.version)
     ELSE IF page.version = active /\ Offline /\ bundles[active] # None
     THEN Run(bundles[active])
     ELSE IF online THEN Run(Script(page.version)) ELSE To("broken", page.version)
  /\ UNCHANGED <<server, online, workerVars, settingVars, loads>>

\* NotificationModal: the flag is read when the page starts, shown and cleared.
\* It stays if it cannot be read, or not be cleared.
ReadNotice ==
  /\ page.phase = "started"
  /\ \/ forced' = (forced /\ ~notice) /\ notice' = FALSE
     \/ "putError" \in Faults /\ forced' = (forced /\ ~notice) /\ UNCHANGED notice
     \/ "readError" \in Faults /\ UNCHANGED <<notice, forced>>
  /\ To("running", page.version)
  /\ UNCHANGED <<server, online, workerVars, memory, stored, inMemory, disturbed, loads>>

\* Mutant: an answer of another version is used as it is.
CallApiKeeps ==
  /\ page.phase = "running" /\ online /\ ~Waits /\ ~Offline /\ ~Fails
  /\ page.version # server
  /\ UNCHANGED vars

\* An answer of the server names its commit, and an old page loads itself
\* again; an answer of the worker names none.
CallApi ==
  /\ page.phase = "running" /\ online /\ ~Waits /\ ~Offline /\ ~Fails
  /\ page.version # server
  /\ To("starting", None)
  /\ UNCHANGED <<server, online, workerVars, settingVars, loads>>

-----------------------------------------------------------------------------
Next ==
  \/ Deploy \/ ToggleNetwork
  \/ FindWorker \/ FetchIndex \/ FetchBundle \/ InstallFails \/ Install \/ Activate
  \/ ReadSettings \/ Kill \/ ToggleMode
  \/ Open \/ GetIndex \/ SetFlag \/ GetBundle \/ ReadNotice \/ CallApi

\* The browser reads, answers and starts what was asked for, and does not stop
\* a worker again and again before it answers; pages call APIs.
Fairness ==
  /\ WF_vars(ReadSettings) /\ WF_vars(SetFlag) /\ WF_vars(ReadNotice)
  /\ SF_vars(GetIndex) /\ SF_vars(GetBundle) /\ SF_vars(CallApi)

Spec == Init /\ [][Next]_vars /\ Fairness

-----------------------------------------------------------------------------
TypeOK ==
  /\ server \in Versions /\ online \in BOOLEAN
  /\ active \in Versions \cup {None} /\ index \in Versions \cup {None}
  /\ newer \in [phase : {None, "installing", "installed"}, version : Versions \cup {None},
                index : Versions \cup {None}, bundle : Versions \cup {None, Html}]
  /\ bundles \in [Versions -> Versions \cup {None, Html}]
  /\ memory \in {"cold", "ready", "rejected"} /\ raced \subseteq Versions
  /\ {stored, inMemory, notice, forced, disturbed} \subseteq BOOLEAN
  /\ page \in [phase : {"closed", "starting", "forcing", "linked", "started", "running", "broken"},
               version : Versions \cup {None}]
  /\ loads \in 0 .. MaxLoads

\* Between installations the cache holds an index.html and a bundle that
\* belong to the active worker and to each other, unless there was a deploy
\* while that worker fetched them: then index.html names a bundle the worker
\* does not know, or the bundle is index.html (offline_cache.ts:40-43).
CacheFitsWorker ==
  active # None /\ active \notin raced /\ newer.phase # "installed" =>
    index = active /\ bundles[active] = active

\* In offline mode a page that got its index.html from the cache of the active
\* worker gets its bundle too, whatever is deployed and without a network,
\* except between two workers (the bundle of the next one is not handled).
OfflineModeServes ==
  [][ page.phase = "linked" /\ page'.phase = "broken" /\ Offline =>
        page.version # active \/ active \in raced ]_vars

\* When offline mode turns itself on, the flag is set until a page has said so,
\* through reloads, other workers and failures later on. Exactly three things
\* turn it on silently, and each excuses only the turn it happens in: the write
\* of the mode fails (it is on in memory), the write of the flag fails, which
\* is caught, and the worker is stopped between them (serviceworker.ts:173-183).
ForcedModeIsAnnounced ==
  forced /\ ~disturbed => notice \/ page.phase = "forcing"

\* The two above together: what the worker keeps for the next page is right.
ShellConsistent == CacheFitsWorker /\ ForcedModeIsAnnounced

\* The inductive invariant behind them: what a worker has fetched, and what it
\* has stored, is of its version unless there was a deploy meanwhile; and a new
\* worker never touches the bundle of the active one.
InstallFits ==
  newer.phase = "installing" /\ newer.version \notin raced =>
    newer.version = server /\ {newer.index, newer.bundle} \subseteq {None, server}
InstalledFits ==
  newer.phase = "installed" /\ newer.version \notin raced =>
    index = newer.version /\ bundles[newer.version] = newer.version
NewerDiffers == newer.phase # None => newer.version \in Versions \ {active}
BundleKept == active # None /\ active \notin raced => bundles[active] = active

ShellInv ==
  /\ TypeOK /\ InstallFits /\ InstalledFits /\ NewerDiffers /\ BundleKept
  /\ CacheFitsWorker /\ ForcedModeIsAnnounced

\* A page of an old version that is answered by the server becomes one of the
\* server's version, or does not start at all: it is never reloaded for ever
\* (page_utils.ts:9, reloadIfOldClient).
OldPagesCatchUp ==
  (page.phase = "running" /\ page.version # server) ~>
    \/ page.version = server \/ page.phase = "broken"
    \/ ~online \/ Offline \/ Fails

=============================================================================
