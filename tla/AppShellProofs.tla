--------------------------- MODULE AppShellProofs ---------------------------
(* Theorems about AppShell, for any number of deploys, loads and failures. *)
EXTENDS AppShell, TLAPS

Maybe == Versions \cup {None}
Worker == [phase : {None, "installing", "installed"}, version : Maybe,
           index : Maybe, bundle : Maybe \cup {Html}]
Page == [phase : {"closed", "starting", "forcing", "linked", "started", "running", "broken"},
         version : Maybe]

-----------------------------------------------------------------------------
\* Types.

LEMMA Types ==
  TypeOK <=>
    /\ server \in Versions /\ online \in BOOLEAN /\ active \in Maybe /\ index \in Maybe
    /\ newer \in Worker /\ bundles \in [Versions -> Maybe \cup {Html}]
    /\ memory \in {"cold", "ready", "rejected"} /\ raced \subseteq Versions
    /\ stored \in BOOLEAN /\ inMemory \in BOOLEAN /\ notice \in BOOLEAN
    /\ forced \in BOOLEAN /\ disturbed \in BOOLEAN
    /\ page \in Page /\ loads \in 0 .. MaxLoads
<1>1. Maybe \cup {Html} = Versions \cup {None, Html}
  BY DEF Maybe
<1> QED
  BY <1>1 DEF TypeOK, Maybe, Worker, Page

LEMMA WorkerFields ==
  ASSUME newer \in Worker
  PROVE  /\ newer.phase \in {None, "installing", "installed"} /\ newer.version \in Maybe
         /\ newer.index \in Maybe /\ newer.bundle \in Maybe \cup {Html}
BY DEF Worker

\* The states a worker that is being installed goes through.
LEMMA WorkerSteps ==
  ASSUME newer \in Worker, NEW version \in Maybe, NEW bundle \in Maybe \cup {Html}
  PROVE  /\ NoWorker \in Worker
         /\ [NoWorker EXCEPT !.phase = "installing", !.version = version] \in Worker
         /\ [newer EXCEPT !.index = version] \in Worker
         /\ [newer EXCEPT !.bundle = bundle] \in Worker
         /\ [newer EXCEPT !.phase = "installed"] \in Worker
BY DEF Worker, NoWorker, Maybe

\* Where a page may go.
LEMMA PageSteps ==
  ASSUME NEW phase \in {"starting", "forcing", "linked", "started", "running", "broken"},
         NEW version \in Maybe, To(phase, version)
  PROVE  page' \in Page /\ page'.phase = phase /\ page'.version = version
BY DEF To, Page

LEMMA InitTypes ==
  ASSUME ConstantsFit
  PROVE  Init => TypeOK
<1> SUFFICES ASSUME Init PROVE TypeOK
  OBVIOUS
<1>1. 1 \in Versions /\ 0 \in 0 .. MaxLoads
  BY DEF ConstantsFit, Versions
<1>2. NoWorker \in Worker
  BY DEF NoWorker, Worker, Maybe
<1>3. [phase |-> "closed", version |-> None] \in Page
  BY DEF Page, Maybe
<1> QED
  BY <1>1, <1>2, <1>3, Types DEF Init, Maybe

-----------------------------------------------------------------------------
\* The inductive invariant.

LEMMA InitShell ==
  ASSUME ConstantsFit
  PROVE  Init => ShellInv
<1>1. None \notin {"installing", "installed"}
  BY DEF ConstantsFit
<1>2. Init => InstallFits /\ InstalledFits /\ NewerDiffers /\ BundleKept
  BY <1>1 DEF Init, NoWorker, InstallFits, InstalledFits, NewerDiffers, BundleKept
<1>3. Init => CacheFitsWorker /\ ForcedModeIsAnnounced
  BY DEF Init, CacheFitsWorker, ForcedModeIsAnnounced
<1> QED
  BY <1>2, <1>3, InitTypes DEF ShellInv

\* Types of the variables after a step that only serves pages.
ServingTypes ==
  /\ online \in BOOLEAN /\ memory \in {"cold", "ready", "rejected"}
  /\ stored \in BOOLEAN /\ inMemory \in BOOLEAN /\ notice \in BOOLEAN
  /\ forced \in BOOLEAN /\ disturbed \in BOOLEAN
  /\ page \in Page /\ loads \in 0 .. MaxLoads

\* A step that leaves the workers and the cache alone preserves the invariant
\* if forced offline mode is still announced.
LEMMA Serving ==
  ASSUME ShellInv, UNCHANGED <<server, workerVars>>, ServingTypes', ForcedModeIsAnnounced'
  PROVE  ShellInv'
<1>1. UNCHANGED <<server, active, newer, index, bundles, raced>>
  BY DEF workerVars
<1>2. /\ server \in Versions /\ active \in Maybe /\ index \in Maybe
      /\ newer \in Worker /\ bundles \in [Versions -> Maybe \cup {Html}] /\ raced \subseteq Versions
  BY Types DEF ShellInv
<1>3. Maybe \cup {Html} = Versions \cup {None, Html}
  BY DEF Maybe
<1>4. TypeOK'
  BY <1>1, <1>2, <1>3 DEF TypeOK, ServingTypes, Maybe, Worker, Page
<1>5. InstallFits' /\ InstalledFits' /\ NewerDiffers' /\ BundleKept' /\ CacheFitsWorker'
  BY <1>1 DEF ShellInv, InstallFits, InstalledFits, NewerDiffers, BundleKept, CacheFitsWorker
<1> QED
  BY <1>4, <1>5 DEF ShellInv

\* The same for a step of an installation, which leaves the page and the
\* settings alone, but that a new worker starts without settings.
LEMMA Installing ==
  ASSUME ShellInv, memory' \in {memory, "cold"},
         UNCHANGED <<online, stored, inMemory, notice, forced, disturbed, page, loads>>,
         server' \in Versions, active' \in Maybe, index' \in Maybe, newer' \in Worker,
         bundles' \in [Versions -> Maybe \cup {Html}], raced' \subseteq Versions,
         InstallFits', InstalledFits', NewerDiffers', BundleKept', CacheFitsWorker'
  PROVE  ShellInv'
<1>1. ServingTypes
  BY Types DEF ShellInv, ServingTypes
<1>2. Maybe \cup {Html} = Versions \cup {None, Html}
  BY DEF Maybe
<1>3. TypeOK'
  BY <1>1, <1>2 DEF TypeOK, ServingTypes, Maybe, Worker, Page
<1>4. ForcedModeIsAnnounced'
  BY DEF ShellInv, ForcedModeIsAnnounced
<1> QED
  BY <1>3, <1>4 DEF ShellInv

LEMMA NextShell ==
  ASSUME ConstantsFit
  PROVE  ShellInv /\ [Next]_vars => ShellInv'
<1> SUFFICES ASSUME ShellInv, [Next]_vars PROVE ShellInv'
  OBVIOUS
<1>0. /\ server \in Versions /\ active \in Maybe /\ index \in Maybe
      /\ newer \in Worker /\ bundles \in [Versions -> Maybe \cup {Html}] /\ raced \subseteq Versions
      /\ ServingTypes
  BY Types DEF ShellInv, ServingTypes
<1>a. /\ newer.phase \in {None, "installing", "installed"} /\ newer.version \in Maybe
      /\ newer.index \in Maybe /\ newer.bundle \in Maybe \cup {Html}
  BY <1>0, WorkerFields
<1>b. /\ page.version \in Maybe /\ None \in Maybe /\ server \in Maybe
      /\ \A v \in Versions : v \in Maybe
  BY <1>0 DEF ServingTypes, Page, Maybe
<1>c. /\ InstallFits /\ InstalledFits /\ NewerDiffers /\ BundleKept
      /\ CacheFitsWorker /\ ForcedModeIsAnnounced
  BY DEF ShellInv
<1>d. None \notin Versions /\ None \notin {"installing", "installed"}
  BY DEF ConstantsFit
<1>1. CASE Deploy
  <2>1. /\ raced' = IF newer.phase = "installing" THEN raced \cup {newer.version} ELSE raced
        /\ UNCHANGED <<online, active, newer, index, bundles, memory, stored, inMemory, notice,
                       forced, disturbed, page, loads>>
    BY <1>1 DEF Deploy, settingVars
  <2>2. server' \in Versions
    BY <1>0, <1>1 DEF Deploy, Versions, ConstantsFit
  <2>3. raced' \subseteq Versions /\ raced \subseteq raced'
    BY <1>0, <1>c, <1>d, <2>1 DEF NewerDiffers
  <2>4. InstallFits'
    BY <2>1 DEF InstallFits
  <2>5. InstalledFits' /\ NewerDiffers' /\ BundleKept' /\ CacheFitsWorker'
    BY <1>c, <2>1, <2>3 DEF InstalledFits, NewerDiffers, BundleKept, CacheFitsWorker
  <2> QED
    BY <1>0, <2>1, <2>2, <2>3, <2>4, <2>5, Installing
<1>2. CASE FindWorker
  <2>1. /\ newer' = [NoWorker EXCEPT !.phase = "installing", !.version = server] /\ active # server
        /\ UNCHANGED <<server, online, active, index, bundles, raced, memory, stored, inMemory,
                       notice, forced, disturbed, page, loads>>
    BY <1>2 DEF FindWorker, settingVars
  <2>2. /\ newer'.phase = "installing" /\ newer'.version = server
        /\ newer'.index = None /\ newer'.bundle = None
    BY <2>1 DEF NoWorker
  <2>3. newer' \in Worker
    BY <1>0, <1>b, <2>1, WorkerSteps
  <2>4. CacheFitsWorker'
    BY <1>2, <1>c, <1>d, <2>1 DEF FindWorker, NoWorker, CacheFitsWorker
  <2>5. InstallFits' /\ InstalledFits' /\ NewerDiffers' /\ BundleKept'
    BY <1>0, <1>c, <2>1, <2>2 DEF InstallFits, InstalledFits, NewerDiffers, BundleKept
  <2> QED
    BY <1>0, <2>1, <2>3, <2>4, <2>5, Installing
<1>3. CASE FetchIndex
  <2>1. /\ newer' = [newer EXCEPT !.index = server] /\ newer.phase = "installing"
        /\ UNCHANGED <<server, online, active, index, bundles, raced, memory, stored, inMemory,
                       notice, forced, disturbed, page, loads>>
    BY <1>3 DEF FetchIndex, settingVars
  <2>2. /\ newer'.phase = "installing" /\ newer'.version = newer.version
        /\ newer'.index = server /\ newer'.bundle = newer.bundle
    BY <1>0, <2>1 DEF Worker
  <2>3. newer' \in Worker
    BY <1>0, <1>b, <2>1, WorkerSteps
  <2>4. /\ InstallFits' /\ InstalledFits' /\ NewerDiffers' /\ BundleKept' /\ CacheFitsWorker'
    BY <1>c, <2>1, <2>2 DEF InstallFits, InstalledFits, NewerDiffers, BundleKept, CacheFitsWorker
  <2> QED
    BY <1>0, <2>1, <2>3, <2>4, Installing
<1>4. CASE FetchBundle
  <2>1. /\ newer' = [newer EXCEPT !.bundle = Script(newer.version)] /\ newer.phase = "installing"
        /\ UNCHANGED <<server, online, active, index, bundles, raced, memory, stored, inMemory,
                       notice, forced, disturbed, page, loads>>
    BY <1>4 DEF FetchBundle, settingVars
  <2>2. /\ newer'.phase = "installing" /\ newer'.version = newer.version
        /\ newer'.index = newer.index /\ newer'.bundle = Script(newer.version)
    BY <1>0, <2>1 DEF Worker
  <2>3. Script(newer.version) \in Maybe \cup {Html}
    BY <1>a DEF Script
  <2>4. newer' \in Worker
    BY <1>0, <1>b, <2>1, <2>3, WorkerSteps
  <2>5. InstallFits'
    BY <1>c, <2>1, <2>2 DEF InstallFits, Script
  <2>6. InstalledFits' /\ NewerDiffers' /\ BundleKept' /\ CacheFitsWorker'
    BY <1>c, <2>1, <2>2 DEF InstalledFits, NewerDiffers, BundleKept, CacheFitsWorker
  <2> QED
    BY <1>0, <2>1, <2>4, <2>5, <2>6, Installing
<1>5. CASE InstallFails
  <2>1. /\ newer' = NoWorker /\ newer.phase = "installing"
        /\ UNCHANGED <<server, online, active, index, bundles, raced, memory, stored, inMemory,
                       notice, forced, disturbed, page, loads>>
    BY <1>5 DEF InstallFails, settingVars
  <2>2. newer' \in Worker /\ newer'.phase = None
    BY <1>0, <1>b, <2>1, WorkerSteps DEF NoWorker
  <2>3. InstallFits' /\ InstalledFits' /\ NewerDiffers' /\ BundleKept' /\ CacheFitsWorker'
    BY <1>c, <1>d, <2>1, <2>2
       DEF InstallFits, InstalledFits, NewerDiffers, BundleKept, CacheFitsWorker
  <2> QED
    BY <1>0, <2>1, <2>2, <2>3, Installing
<1>6. CASE Install
  <2>1. /\ newer' = [newer EXCEPT !.phase = "installed"] /\ newer.phase = "installing"
        /\ newer.index # None /\ newer.bundle # None
        /\ index' = newer.index /\ bundles' = [bundles EXCEPT ![newer.version] = newer.bundle]
        /\ UNCHANGED <<server, online, active, raced, memory, stored, inMemory,
                       notice, forced, disturbed, page, loads>>
    BY <1>6 DEF Install, settingVars
  <2>2. /\ newer'.phase = "installed" /\ newer'.version = newer.version
    BY <1>0, <2>1 DEF Worker
  <2>3. newer' \in Worker
    BY <1>0, <1>b, <2>1, WorkerSteps
  <2>4. newer.version \in Versions /\ newer.version # active
    BY <1>c, <1>d, <2>1 DEF NewerDiffers
  <2>5. /\ bundles' \in [Versions -> Maybe \cup {Html}] /\ bundles'[newer.version] = newer.bundle
        /\ \A v \in Versions : v # newer.version => bundles'[v] = bundles[v]
    BY <1>0, <1>a, <2>1, <2>4
  <2>6. InstalledFits'
    BY <1>c, <2>1, <2>2, <2>5 DEF InstallFits, InstalledFits
  <2>7. BundleKept'
    BY <1>0, <1>c, <2>1, <2>4, <2>5 DEF BundleKept, Maybe
  <2>8. InstallFits' /\ NewerDiffers' /\ CacheFitsWorker'
    BY <1>c, <1>d, <2>1, <2>2 DEF InstallFits, NewerDiffers, CacheFitsWorker
  <2> QED
    BY <1>0, <1>a, <2>1, <2>3, <2>5, <2>6, <2>7, <2>8, Installing
<1>7. CASE Activate
  <2>1. /\ newer.phase = "installed" /\ active' = newer.version /\ newer' = NoWorker
        /\ memory' = "cold"
        /\ UNCHANGED <<server, online, index, bundles, raced, stored, inMemory,
                       notice, forced, disturbed, page, loads>>
    BY <1>7 DEF Activate
  <2>2. newer' \in Worker /\ newer'.phase = None
    BY <1>0, <1>b, <2>1, WorkerSteps DEF NoWorker
  <2>3. InstallFits' /\ InstalledFits' /\ NewerDiffers' /\ BundleKept' /\ CacheFitsWorker'
    BY <1>c, <1>d, <2>1, <2>2
       DEF InstallFits, InstalledFits, NewerDiffers, BundleKept, CacheFitsWorker
  <2> QED
    BY <1>0, <1>a, <2>1, <2>2, <2>3, Installing
<1>8. CASE ReadSettings
  BY <1>0, <1>8, <1>c, Serving DEF ReadSettings, ServingTypes, ForcedModeIsAnnounced
<1>9. CASE Kill
  <2>1. page.phase = "forcing" => page' \in Page
    BY <1>0, <1>9 DEF Kill, ServingTypes, Page
  <2> QED
    BY <1>0, <1>9, <1>c, <2>1, Serving DEF Kill, ServingTypes, ForcedModeIsAnnounced
<1>10. CASE ToggleMode
  BY <1>0, <1>10, <1>c, Serving DEF ToggleMode, ServingTypes, ForcedModeIsAnnounced
<1>11. CASE Open
  <2>1. page' \in Page /\ loads' \in 0 .. MaxLoads
    BY <1>0, <1>11, <1>b, PageSteps DEF Open, ServingTypes, ConstantsFit
  <2> QED
    BY <1>0, <1>11, <1>c, <2>1, Serving DEF Open, ServingTypes, ForcedModeIsAnnounced, settingVars
<1>12. CASE GetIndex
  <2>1. /\ page' \in Page /\ inMemory' \in BOOLEAN /\ stored' \in BOOLEAN
        /\ forced' \in BOOLEAN /\ disturbed' \in BOOLEAN /\ page.phase = "starting"
        /\ UNCHANGED <<server, workerVars, online, memory, notice, loads>>
    BY <1>0, <1>12, <1>b, PageSteps DEF GetIndex, IndexFromNetwork, ServingTypes
  <2>2. forced' /\ ~disturbed' => (forced /\ ~disturbed) \/ page'.phase = "forcing"
    BY <1>0, <1>12, <1>b, PageSteps DEF GetIndex, IndexFromNetwork, ServingTypes
  <2> QED
    BY <1>0, <1>c, <2>1, <2>2, Serving DEF ServingTypes, ForcedModeIsAnnounced
<1>13. CASE SetFlag
  <2>1. page' \in Page
    BY <1>13, <1>b, PageSteps DEF SetFlag
  <2> QED
    BY <1>0, <1>13, <2>1, Serving DEF SetFlag, ServingTypes, ForcedModeIsAnnounced
<1>14. CASE GetBundle
  <2>1. page' \in Page
    BY <1>14, <1>b, PageSteps DEF GetBundle, Run
  <2> QED
    BY <1>0, <1>14, <1>c, <2>1, Serving
       DEF GetBundle, ServingTypes, ForcedModeIsAnnounced, settingVars
<1>15. CASE ReadNotice
  <2>1. page' \in Page
    BY <1>15, <1>b, PageSteps DEF ReadNotice
  <2>2. /\ page.phase = "started"
        /\ UNCHANGED <<server, online, workerVars, memory, stored, inMemory, disturbed, loads>>
    BY <1>15 DEF ReadNotice
  <2>3. CASE forced' = (forced /\ ~notice) /\ notice' = FALSE
    BY <1>0, <1>c, <2>1, <2>2, <2>3, Serving DEF ServingTypes, ForcedModeIsAnnounced
  <2>4. CASE forced' = (forced /\ ~notice) /\ UNCHANGED notice
    BY <1>0, <1>c, <2>1, <2>2, <2>4, Serving DEF ServingTypes, ForcedModeIsAnnounced
  <2>5. CASE UNCHANGED <<notice, forced>>
    BY <1>0, <1>c, <2>1, <2>2, <2>5, Serving DEF ServingTypes, ForcedModeIsAnnounced
  <2> QED
    BY <1>15, <2>3, <2>4, <2>5 DEF ReadNotice
<1>16. CASE CallApi
  <2>1. page' \in Page
    BY <1>16, <1>b, PageSteps DEF CallApi
  <2> QED
    BY <1>0, <1>16, <1>c, <2>1, Serving DEF CallApi, ServingTypes, ForcedModeIsAnnounced, settingVars
<1>17. CASE ToggleNetwork
  BY <1>0, <1>17, <1>c, Serving DEF ToggleNetwork, ServingTypes, ForcedModeIsAnnounced, settingVars
<1>18. CASE UNCHANGED vars
  BY <1>0, <1>18, <1>c, Serving DEF vars, ServingTypes, ForcedModeIsAnnounced, settingVars
<1> QED
  BY <1>1, <1>2, <1>3, <1>4, <1>5, <1>6, <1>7, <1>8, <1>9, <1>10, <1>11, <1>12, <1>13, <1>14,
     <1>15, <1>16, <1>17, <1>18 DEF Next

-----------------------------------------------------------------------------
\* Every variable of the shell keeps its type in every behaviour.
THEOREM ShellTypeCorrect ==
  ASSUME ConstantsFit
  PROVE  Spec => []TypeOK
<1>1. ShellInv => TypeOK
  BY DEF ShellInv
<1> QED
  BY <1>1, InitShell, NextShell, PTL DEF Spec

\* Between installations the cache holds what belongs to the active worker, and
\* forced offline mode is announced unless its own turn was disturbed
\* (ShellConsistent), however many deploys, reloads, failures and stopped
\* workers come between.
THEOREM ShellAlwaysConsistent ==
  ASSUME ConstantsFit
  PROVE  Spec => []ShellConsistent
<1>1. ShellInv => ShellConsistent
  BY DEF ShellInv, ShellConsistent
<1> QED
  BY <1>1, InitShell, NextShell, PTL DEF Spec

\* No page that the active worker linked is left without its bundle in offline
\* mode.
LEMMA BundleIsServed ==
  ASSUME ShellInv, [Next]_vars, page.phase = "linked", page'.phase = "broken", Offline
  PROVE  page.version # active \/ active \in raced
<1> SUFFICES ASSUME Next, page.version = active, active \notin raced
             PROVE  FALSE
  BY DEF vars
<1>1. bundles[active] = active /\ active # None /\ active \in Versions /\ active \in Maybe
  BY Types DEF ShellInv, BundleKept, Offline, Maybe
<1>2. ~Fails /\ ~Waits
  BY DEF Offline, Fails, Waits
<1>3. CASE GetBundle
  <2>1. Run(bundles[active])
    BY <1>1, <1>2, <1>3 DEF GetBundle
  <2>2. To("started", active)
    BY <1>1, <2>1 DEF Run
  <2> QED
    BY <1>1, <2>2, PageSteps
<1>4. CASE Kill
  BY <1>4 DEF Kill
<1>5. CASE \/ Deploy \/ ToggleNetwork \/ FindWorker \/ FetchIndex \/ FetchBundle
           \/ InstallFails \/ Install \/ Activate \/ ReadSettings
  BY <1>5 DEF Deploy, ToggleNetwork, FindWorker, FetchIndex, FetchBundle, InstallFails,
              Install, Activate, ReadSettings
<1>6. CASE ToggleMode \/ Open \/ GetIndex \/ SetFlag \/ ReadNotice \/ CallApi
  BY <1>6 DEF ToggleMode, Open, GetIndex, SetFlag, ReadNotice, CallApi
<1> QED
  BY <1>3, <1>4, <1>5, <1>6 DEF Next

\* The same of every behaviour (OfflineModeServes).
THEOREM OfflineModeAlwaysServes ==
  ASSUME ConstantsFit
  PROVE  Spec => OfflineModeServes
<1> DEFINE Served == page.phase = "linked" /\ page'.phase = "broken" /\ Offline =>
                       page.version # active \/ active \in raced
<1>1. ShellInv /\ [Next]_vars => [Served]_vars
  BY BundleIsServed
<1>2. OfflineModeServes <=> [][Served]_vars
  BY DEF OfflineModeServes
<1> HIDE DEF Served
<1> QED
  BY <1>1, <1>2, InitShell, NextShell, PTL DEF Spec

=============================================================================
