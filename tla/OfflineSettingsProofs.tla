------------------------ MODULE OfflineSettingsProofs ------------------------
(* Theorems about OfflineSettings, for any keys, toggles, pages and faults. *)
EXTENDS OfflineSettings, TLAPS

(***************************************************************************)
(* Types                                                                   *)
(***************************************************************************)
\* A toggle may be given any phase, and stays a toggle when its phase changes.
LEMMA ToggleType ==
  /\ \A p \in Phases, k \in Keys, v \in BOOLEAN :
       [phase |-> p, key |-> k, value |-> v] \in Toggle
  /\ \A g \in Toggle, p \in Phases : [g EXCEPT !.phase = p] \in Toggle
  /\ \A g \in Toggle : g.phase \in Phases /\ g.key \in Keys /\ g.value \in BOOLEAN
BY DEF Toggle

\* The names of the phases.
LEMMA PhaseNames ==
  /\ "idle" \in Phases /\ "working" \in Phases /\ "waiting" \in Phases
  /\ "putting" \in Phases /\ "ok" \in Phases /\ "failed" \in Phases /\ "lost" \in Phases
BY DEF Phases

\* The empty sequence has every sequence type.
LEMMA EmptySeq == \A S : <<>> \in Seq(S)
OBVIOUS

\* Replacing one toggle, or the phases of some, keeps the type of `task`.
LEMMA TaskType ==
  ASSUME task \in [Tasks -> Toggle]
  PROVE  /\ \A t \in Tasks, p \in Phases : [task EXCEPT ![t].phase = p] \in [Tasks -> Toggle]
         /\ \A t \in Tasks, g \in Toggle : [task EXCEPT ![t] = g] \in [Tasks -> Toggle]
         /\ \A S \in SUBSET Tasks, p \in Phases :
              [t \in Tasks |-> IF t \in S THEN [task[t] EXCEPT !.phase = p] ELSE task[t]]
                \in [Tasks -> Toggle]
BY ToggleType

\* Settings stay settings when one key is set.
LEMMA SetOneKey ==
  ASSUME NEW s \in Settings, NEW k \in Keys, NEW v \in BOOLEAN
  PROVE  [s EXCEPT ![k] = v] \in Settings
BY DEF Settings

LEMMA WithKeyType ==
  ASSUME TypeOK, NEW s \in Settings, NEW t \in Tasks
  PROVE  WithKey(s, t) \in Settings
BY SetOneKey, ToggleType DEF TypeOK, WithKey

\* Initially every variable has its type.
LEMMA InitType == Init => TypeOK
<1> SUFFICES ASSUME Init PROVE TypeOK
  OBVIOUS
<1>1. db \in Settings /\ stored \subseteq DownloadKeys /\ hidden \subseteq DownloadKeys
  BY DEF Init
<1>2. task \in [Tasks -> Toggle]
  BY ConstantsAssumption, ToggleType, PhaseNames DEF Init
<1>3. /\ hook \in [Apps -> {"unmounted", "reading", "settled", "failed"}]
      /\ readValue \in [Apps -> Settings \cup {Undefined}]
      /\ ignoreInitial \in [Apps -> BOOLEAN]
      /\ view \in [Apps -> Settings \cup {Undefined}]
      /\ ack \in [Keys -> BOOLEAN \cup {Undefined}]
  BY DEF Init
<1>5. inbox \in [Apps -> Seq(Settings)]
  <2>2. inbox = [a \in Apps |-> <<>>]
    BY DEF Init
  <2> QED
    BY <2>2, EmptySeq
<1>4. /\ committing \in Settings \cup {Undefined}
      /\ txns \in Seq(Write)
      /\ current \in Settings \cup {Undefined}
      /\ initial \in {"none", "pending", "resolved", "rejected"}
      /\ initialStale \in BOOLEAN
      /\ waiting \in Seq(Tasks)
  BY EmptySeq DEF Init
<1> QED
  BY <1>1, <1>2, <1>3, <1>4, <1>5 DEF TypeOK

\* The types of what setKey changes.
SetKeyTypes ==
  /\ current \in Settings \cup {Undefined}
  /\ txns \in Seq(Write)
  /\ initial \in {"none", "pending", "resolved", "rejected"}
  /\ initialStale \in BOOLEAN
  /\ waiting \in Seq(Tasks)
  /\ task \in [Tasks -> Toggle]
  /\ ack \in [Keys -> BOOLEAN \cup {Undefined}]

\* setKey preserves the types of everything it touches.
LEMMA SetKeyType ==
  ASSUME SetKeyTypes, NEW t \in Tasks, NEW k \in Keys, NEW v \in BOOLEAN, SetKey(t, k, v)
  PROVE  SetKeyTypes'
<1> DEFINE g(p) == [phase |-> p, key |-> k, value |-> v]
<1>1. \A p \in {"putting", "waiting", "failed"} : [task EXCEPT ![t] = g(p)] \in [Tasks -> Toggle]
  BY TaskType, ToggleType, PhaseNames DEF SetKeyTypes
<1>2. [ack EXCEPT ![k] = Undefined] \in [Keys -> BOOLEAN \cup {Undefined}]
  BY DEF SetKeyTypes
<1>3. CASE current # Undefined
  <2>1. /\ current' = [current EXCEPT ![k] = v]
        /\ txns' = Append(txns, [task |-> t, value |-> current'])
        /\ task' = [task EXCEPT ![t] = g("putting")]
        /\ ack' = [ack EXCEPT ![k] = Undefined]
        /\ initialStale' = TRUE
        /\ UNCHANGED <<initial, waiting>>
    BY <1>3 DEF SetKey
  <2>2. current' \in Settings
    BY <1>3, <2>1, SetOneKey DEF SetKeyTypes
  <2>3. txns' \in Seq(Write)
    BY <2>1, <2>2 DEF SetKeyTypes, Write
  <2> QED
    BY <1>1, <1>2, <2>1, <2>2, <2>3 DEF SetKeyTypes
<1>4. CASE current = Undefined /\ initial \in {"none", "pending"}
  <2>1. /\ task' = [task EXCEPT ![t] = g("waiting")]
        /\ ack' = [ack EXCEPT ![k] = Undefined]
        /\ waiting' = Append(waiting, t)
        /\ initial' = "pending"
        /\ UNCHANGED <<current, initialStale, txns>>
    BY <1>4 DEF SetKey
  <2> QED
    BY <1>1, <1>2, <2>1 DEF SetKeyTypes
<1>5. CASE current = Undefined /\ initial \notin {"none", "pending"}
  <2>1. task' = [task EXCEPT ![t] = g("failed")] /\ UNCHANGED <<swVars, txns, ack>>
    BY <1>5 DEF SetKey
  <2> QED
    BY <1>1, <2>1 DEF SetKeyTypes, swVars
<1> QED
  BY <1>3, <1>4, <1>5

\* The types of what only IndexedDB and the pages change.
OtherTypes ==
  /\ db \in Settings
  /\ committing \in Settings \cup {Undefined}
  /\ stored \subseteq DownloadKeys
  /\ hidden \subseteq DownloadKeys
  /\ hook \in [Apps -> {"unmounted", "reading", "settled", "failed"}]
  /\ readValue \in [Apps -> Settings \cup {Undefined}]
  /\ ignoreInitial \in [Apps -> BOOLEAN]
  /\ view \in [Apps -> Settings \cup {Undefined}]
  /\ inbox \in [Apps -> Seq(Settings)]

LEMMA TypeParts == TypeOK <=> SetKeyTypes /\ OtherTypes
BY DEF TypeOK, SetKeyTypes, OtherTypes

\* The first read, when it completes, preserves the types.
LEMMA ResolveType ==
  ASSUME TypeOK, InitialResolves
  PROVE  SetKeyTypes'
<1> DEFINE resumed == [i \in DOMAIN waiting |->
                         [task |-> waiting[i], value |-> WithKey(db, waiting[i])]]
<1>1. DOMAIN waiting = 1..Len(waiting) /\ Len(waiting) \in Nat
  BY DEF TypeOK
<1>2. \A i \in DOMAIN waiting : resumed[i] \in Write
  <2>1. \A i \in DOMAIN waiting : waiting[i] \in Tasks
    BY DEF TypeOK
  <2>2. \A i \in DOMAIN waiting : WithKey(db, waiting[i]) \in Settings
    BY <2>1, WithKeyType DEF TypeOK
  <2> QED
    BY <2>1, <2>2 DEF Write
<1>3. resumed \in Seq(Write)
  <2>1. resumed \in [1..Len(waiting) -> Write]
    BY <1>1, <1>2
  <2> QED
    BY <1>1, <2>1
<1>4. /\ txns' = resumed
      /\ waiting' = <<>>
      /\ initial' = "resolved"
      /\ initialStale' = (initialStale \/ waiting # <<>>)
      /\ ack' = ack
      /\ current' = IF waiting # <<>> THEN resumed[Len(waiting)].value
                    ELSE IF initialStale THEN current ELSE db
  BY DEF InitialResolves
<1>5. current' \in Settings \cup {Undefined}
  <2>1. CASE waiting # <<>>
    <3>1. Len(waiting) \in DOMAIN waiting
      BY <2>1, <1>1 DEF TypeOK
    <3> QED
      BY <2>1, <3>1, <1>2, <1>4 DEF Write
  <2>2. CASE waiting = <<>>
    BY <2>2, <1>4 DEF TypeOK
  <2> QED
    BY <2>1, <2>2
<1>6. task' \in [Tasks -> Toggle]
  <2> DEFINE S == {t \in Tasks : task[t].phase = "waiting"}
  <2>1. task' = [t \in Tasks |-> IF t \in S THEN [task[t] EXCEPT !.phase = "putting"] ELSE task[t]]
    BY DEF InitialResolves
  <2> QED
    BY <2>1, TaskType, PhaseNames DEF TypeOK
<1> QED
  BY <1>3, <1>4, <1>5, <1>6 DEF SetKeyTypes, TypeOK

\* A successful put preserves the types.
LEMMA PutType ==
  ASSUME TypeOK, PutSucceeds
  PROVE  TypeOK'
<1> DEFINE t == Head(txns).task
           s == Head(txns).value
<1>1. t \in Tasks /\ s \in Settings /\ Tail(txns) \in Seq(Write)
  <2>1. txns \in Seq(Write) /\ txns # <<>>
    BY DEF PutSucceeds, TypeOK
  <2>2. Head(txns) \in Write
    BY <2>1
  <2> QED
    BY <2>1, <2>2 DEF Write
<1>2. task' \in [Tasks -> Toggle]
  <2>1. task' = [task EXCEPT ![t].phase = "ok"]
    BY DEF PutSucceeds, Move
  <2> QED
    BY <1>1, <2>1, TaskType, PhaseNames DEF TypeOK
<1>3. inbox' \in [Apps -> Seq(Settings)]
  <2>1. inbox' = [a \in Apps |-> IF hook[a] = "unmounted" THEN inbox[a] ELSE Append(inbox[a], s)]
    BY DEF PutSucceeds
  <2> QED
    BY <1>1, <2>1 DEF TypeOK
<1>4. ack' \in [Keys -> BOOLEAN \cup {Undefined}]
  <2>1. task[t].key \in Keys /\ task[t].value \in BOOLEAN
    BY <1>1, ToggleType DEF TypeOK
  <2>2. \/ ack' = ack
        \/ ack' = [ack EXCEPT ![task[t].key] = task[t].value]
    BY DEF PutSucceeds
  <2> QED
    BY <2>1, <2>2 DEF TypeOK
<1>5. /\ committing' = s /\ txns' = Tail(txns)
      /\ UNCHANGED <<db, stored, hidden, swVars, hook, readValue, ignoreInitial, view>>
  BY DEF PutSucceeds
<1> QED
  BY <1>1, <1>2, <1>3, <1>4, <1>5 DEF TypeOK, swVars

\* Every step preserves the types.
LEMMA NextType == TypeOK /\ [Next]_vars => TypeOK'
<1> SUFFICES ASSUME TypeOK, [Next]_vars PROVE TypeOK'
  OBVIOUS
<1>0. SetKeyTypes /\ OtherTypes
  BY TypeParts
<1>1. ASSUME NEW t \in Tasks, NEW k \in Keys, TurnOff(t, k) PROVE TypeOK'
  <2>1. SetKey(t, k, FALSE) /\ UNCHANGED <<db, committing, stored, hidden, appVars>>
    BY <1>1 DEF TurnOff
  <2>2. SetKeyTypes'
    BY <1>0, <2>1, SetKeyType
  <2>3. OtherTypes'
    BY <1>0, <2>1 DEF OtherTypes, appVars
  <2> QED
    BY <2>2, <2>3, TypeParts DEF TypeOK, SetKeyTypes, OtherTypes
<1>2. ASSUME NEW t \in Tasks, NEW k \in Keys, TurnOn(t, k) PROVE TypeOK'
  <2>1. PICK p \in Phases : task' = [task EXCEPT ![t] = [phase |-> p, key |-> k, value |-> TRUE]]
    BY <1>2, PhaseNames DEF TurnOn
  <2>2. task' \in [Tasks -> Toggle]
    BY <2>1, TaskType, ToggleType DEF TypeOK
  <2>3. UNCHANGED <<dbVars, swVars, appVars, ack>>
    BY <1>2 DEF TurnOn
  <2> QED
    BY <2>2, <2>3 DEF TypeOK, dbVars, swVars, appVars
<1>3. ASSUME NEW t \in Tasks, WorkDone(t) PROVE TypeOK'
  <2>1. /\ SetKey(t, task[t].key, TRUE)
        /\ stored' \subseteq DownloadKeys /\ hidden' \subseteq DownloadKeys
        /\ UNCHANGED <<db, committing, appVars>>
    BY <1>0, <1>3 DEF WorkDone, SaveResolves, OtherTypes
  <2>2. task[t].key \in Keys
    BY ToggleType DEF TypeOK
  <2>3. SetKeyTypes'
    BY <1>0, <2>1, <2>2, SetKeyType
  <2>4. OtherTypes'
    BY <1>0, <2>1 DEF OtherTypes, appVars
  <2> QED
    BY <2>3, <2>4 DEF TypeOK, SetKeyTypes, OtherTypes
<1>4. ASSUME NEW t \in Tasks, WorkFails(t) PROVE TypeOK'
  <2>1. task' = [task EXCEPT ![t].phase = "failed"] /\ UNCHANGED <<dbVars, swVars, appVars, ack>>
    BY <1>4 DEF WorkFails, Move
  <2>2. task' \in [Tasks -> Toggle]
    BY <2>1, TaskType, PhaseNames DEF TypeOK
  <2> QED
    BY <2>1, <2>2 DEF TypeOK, dbVars, swVars, appVars
<1>5. ASSUME Prewarm PROVE TypeOK'
  BY <1>5 DEF Prewarm, TypeOK, dbVars, appVars
<1>6. ASSUME InitialResolves PROVE TypeOK'
  <2>1. SetKeyTypes'
    BY <1>6, ResolveType
  <2>2. OtherTypes'
    BY <1>0, <1>6 DEF InitialResolves, OtherTypes, appVars
  <2> QED
    BY <2>1, <2>2 DEF TypeOK, SetKeyTypes, OtherTypes
<1>7. ASSUME InitialRejects PROVE TypeOK'
  <2> DEFINE S == {t \in Tasks : task[t].phase = "waiting"}
  <2>1. task' = [t \in Tasks |-> IF t \in S THEN [task[t] EXCEPT !.phase = "failed"] ELSE task[t]]
    BY <1>7 DEF InitialRejects
  <2>2. task' \in [Tasks -> Toggle]
    BY <2>1, TaskType, PhaseNames DEF TypeOK
  <2>3. /\ initial' = "rejected" /\ waiting' = <<>>
        /\ UNCHANGED <<dbVars, current, initialStale, appVars, ack>>
    BY <1>7 DEF InitialRejects
  <2> QED
    BY <2>2, <2>3 DEF TypeOK, dbVars, appVars
<1>8. ASSUME PutSucceeds PROVE TypeOK'
  BY <1>8, PutType
<1>9. ASSUME PutFails PROVE TypeOK'
  <2>1. Head(txns).task \in Tasks /\ Tail(txns) \in Seq(Write)
    <3>1. txns \in Seq(Write) /\ txns # <<>>
      BY <1>9 DEF PutFails, TypeOK
    <3>2. Head(txns) \in Write
      BY <3>1
    <3> QED
      BY <3>1, <3>2 DEF Write
  <2>2. /\ task' = [task EXCEPT ![Head(txns).task].phase = "failed"]
        /\ txns' = Tail(txns)
        /\ UNCHANGED <<db, committing, stored, hidden, swVars, appVars, ack>>
    BY <1>9 DEF PutFails, Move
  <2>3. task' \in [Tasks -> Toggle]
    BY <2>1, <2>2, TaskType, PhaseNames DEF TypeOK
  <2> QED
    BY <2>1, <2>2, <2>3 DEF TypeOK, swVars, appVars
<1>10. ASSUME Kill PROVE TypeOK'
  <2> DEFINE S == {t \in Tasks : task[t].phase \in {"working", "waiting", "putting"}}
  <2>1. task' = [t \in Tasks |-> IF t \in S THEN [task[t] EXCEPT !.phase = "lost"] ELSE task[t]]
    BY <1>10 DEF Kill
  <2>2. task' \in [Tasks -> Toggle]
    BY <2>1, TaskType, PhaseNames DEF TypeOK
  <2>3. /\ current' = Undefined /\ initial' = "none" /\ initialStale' = FALSE /\ waiting' = <<>>
        /\ UNCHANGED <<dbVars, appVars, ack>>
    BY <1>10 DEF Kill
  <2> QED
    BY <2>2, <2>3, EmptySeq DEF TypeOK, dbVars, appVars
<1>11. ASSUME Commit PROVE TypeOK'
  BY <1>11 DEF Commit, TypeOK, swVars, appVars
<1>12. ASSUME CommitAborts PROVE TypeOK'
  BY <1>12 DEF CommitAborts, TypeOK, swVars, appVars
<1>13. ASSUME OrphanSettles PROVE TypeOK'
  <2>1. txns \in Seq(Write) /\ txns # <<>>
    BY <1>13 DEF OrphanSettles, TypeOK
  <2>2. Head(txns).value \in Settings /\ Tail(txns) \in Seq(Write)
    <3>1. Head(txns) \in Write /\ Tail(txns) \in Seq(Write)
      BY <2>1
    <3> QED
      BY <3>1 DEF Write
  <2>3. committing' \in Settings \cup {Undefined} /\ txns' \in Seq(Write)
    BY <1>13, <2>2, EmptySeq DEF OrphanSettles
  <2>4. UNCHANGED <<db, stored, hidden, swVars, task, appVars, ack>>
    BY <1>13 DEF OrphanSettles
  <2> QED
    BY <2>3, <2>4 DEF TypeOK, swVars, appVars
<1>14. ASSUME NEW a \in Apps, Mount(a) PROVE TypeOK'
  BY <1>14 DEF Mount, TypeOK, dbVars, swVars
<1>15. ASSUME NEW a \in Apps, Unmount(a) PROVE TypeOK'
  <2>0. inbox' \in [Apps -> Seq(Settings)]
    <3>2. inbox' = [inbox EXCEPT ![a] = <<>>]
      BY <1>15 DEF Unmount
    <3> QED
      BY <3>2, EmptySeq DEF TypeOK
  <2>1. OtherTypes'
    BY <1>0, <1>15, <2>0 DEF Unmount, OtherTypes, dbVars
  <2> QED
    BY <1>0, <1>15, <2>1 DEF Unmount, TypeOK, OtherTypes, dbVars, swVars
<1>16. ASSUME NEW a \in Apps, PageReads(a) \/ PageReadFails(a) PROVE TypeOK'
  BY <1>16 DEF PageReads, PageReadFails, TypeOK, dbVars, swVars
<1>17. ASSUME NEW a \in Apps, ReadDelivered(a) PROVE TypeOK'
  BY <1>17 DEF ReadDelivered, TypeOK, dbVars, swVars
<1>18. ASSUME NEW a \in Apps, BroadcastDelivered(a) PROVE TypeOK'
  <2>1. Head(inbox[a]) \in Settings /\ Tail(inbox[a]) \in Seq(Settings)
    BY <1>18 DEF BroadcastDelivered, TypeOK
  <2>3. /\ inbox' = [inbox EXCEPT ![a] = Tail(inbox[a])]
        /\ view' = [view EXCEPT ![a] = Head(inbox[a])]
        /\ ignoreInitial' = [ignoreInitial EXCEPT ![a] = TRUE]
        /\ UNCHANGED <<dbVars, hook, readValue>>
    BY <1>18 DEF BroadcastDelivered
  <2>4. inbox' \in [Apps -> Seq(Settings)] /\ view' \in [Apps -> Settings \cup {Undefined}]
    BY <2>1, <2>3 DEF TypeOK
  <2>2. OtherTypes'
    BY <1>0, <2>3, <2>4 DEF OtherTypes, dbVars
  <2> QED
    BY <1>18, <2>2 DEF BroadcastDelivered, TypeOK, OtherTypes, dbVars, swVars
<1>19. CASE UNCHANGED vars
  BY <1>19 DEF vars, TypeOK, dbVars, swVars, appVars
<1> QED
  BY <1>1, <1>2, <1>3, <1>4, <1>5, <1>6, <1>7, <1>8, <1>9, <1>10, <1>11, <1>12,
     <1>13, <1>14, <1>15, <1>16, <1>17, <1>18, <1>19 DEF Next

\* Every variable keeps its type in every behaviour.
THEOREM TypeCorrect == Spec => []TypeOK
BY InitType, NextType, PTL DEF Spec

(***************************************************************************)
(* No download is announced before its save was reported as a success       *)
(***************************************************************************)
\* More saved downloads back no fewer settings.
LEMMA BackedMonotone ==
  ASSUME NEW s, NEW d, NEW e, BackedBy(s, d), d \subseteq e
  PROVE  BackedBy(s, e)
BY DEF BackedBy

\* Setting a key keeps settings backed unless it announces a missing download.
LEMMA BackedSetKey ==
  ASSUME NEW s \in Settings, NEW d, NEW k \in Keys, NEW v \in BOOLEAN,
         BackedBy(s, d), v /\ k \in DownloadKeys => k \in d
  PROVE  BackedBy([s EXCEPT ![k] = v], d)
BY ConstantsAssumption DEF BackedBy, Settings

PhantomDb == Backed(db) /\ Backed(committing)
PhantomSw == Backed(current) /\ \A i \in DOMAIN txns : Backed(txns[i].value)
PhantomPages == \A a \in Apps : /\ Backed(view[a]) /\ Backed(readValue[a])
                                /\ \A i \in DOMAIN inbox[a] : Backed(inbox[a][i])

LEMMA PhantomParts ==
  NoPhantomDownload <=> HiddenByFault /\ PhantomDb /\ PhantomSw /\ PhantomPages
BY DEF NoPhantomDownload, PhantomDb, PhantomSw, PhantomPages

\* What is saved changes only when a save resolves.
LEMMA SavedSteps ==
  ASSUME [Next]_vars
  PROVE  UNCHANGED <<stored, hidden>> \/ \E k \in DownloadKeys : SaveResolves(k)
BY DEF Next, vars, dbVars, swVars, appVars, TurnOff, TurnOn, WorkDone, WorkFails, Prewarm,
       InitialResolves, InitialRejects, PutSucceeds, PutFails, Kill, Commit, CommitAborts,
       OrphanSettles, Mount, Unmount, PageReads, PageReadFails, ReadDelivered, BroadcastDelivered

LEMMA NextHidden == HiddenByFault /\ [Next]_vars => HiddenByFault'
<1> SUFFICES ASSUME HiddenByFault, [Next]_vars PROVE HiddenByFault'
  OBVIOUS
<1>1. CASE UNCHANGED <<stored, hidden>>
  BY <1>1 DEF HiddenByFault
<1>2. ASSUME NEW k \in DownloadKeys, SaveResolves(k) PROVE HiddenByFault'
  BY <1>2 DEF SaveResolves, HiddenByFault
<1> QED
  BY <1>1, <1>2, SavedSteps

\* setKey announces only what its caller has saved.
LEMMA PhantomSetKey ==
  ASSUME TypeOK, PhantomSw, WaitersWait, Saved \subseteq Saved',
         NEW t \in Tasks, NEW k \in Keys, NEW v \in BOOLEAN,
         task[t].phase \in {"idle", "working"},
         v /\ k \in DownloadKeys => k \in Saved',
         SetKey(t, k, v)
  PROVE  PhantomSw' /\ WaitersWait'
<1> DEFINE g(p) == [phase |-> p, key |-> k, value |-> v]
<1>1. \A i \in DOMAIN waiting : waiting[i] \in Tasks /\ waiting[i] # t
  BY DEF WaitersWait, TypeOK
<1>2. \A i \in DOMAIN txns : BackedBy(txns[i].value, Saved')
  BY BackedMonotone DEF PhantomSw, Backed
<1>3. CASE current # Undefined
  <2>1. /\ current' = [current EXCEPT ![k] = v]
        /\ txns' = Append(txns, [task |-> t, value |-> current'])
        /\ task' = [task EXCEPT ![t] = g("putting")]
        /\ UNCHANGED <<initial, waiting>>
    BY <1>3 DEF SetKey
  <2>2. BackedBy(current', Saved')
    <3>1. current \in Settings /\ BackedBy(current, Saved')
      BY <1>3, BackedMonotone DEF TypeOK, PhantomSw, Backed
    <3> QED
      BY <2>1, <3>1, BackedSetKey
  <2>3. \A i \in DOMAIN txns' : BackedBy(txns'[i].value, Saved')
    BY <1>2, <2>1, <2>2 DEF TypeOK
  <2>4. WaitersWait'
    BY <1>1, <2>1 DEF WaitersWait, TypeOK
  <2> QED
    BY <2>2, <2>3, <2>4 DEF PhantomSw, Backed
<1>4. CASE current = Undefined /\ initial \in {"none", "pending"}
  <2>1. /\ task' = [task EXCEPT ![t] = g("waiting")]
        /\ waiting' = Append(waiting, t)
        /\ initial' = "pending"
        /\ UNCHANGED <<current, txns>>
    BY <1>4 DEF SetKey
  <2>2. task'[t] = g("waiting")
    BY <2>1 DEF TypeOK
  <2>3. \A i \in DOMAIN waiting' : \/ i \in DOMAIN waiting /\ waiting'[i] = waiting[i]
                                   \/ waiting'[i] = t
    BY <2>1 DEF TypeOK
  <2>4. \A i \in DOMAIN waiting : task'[waiting[i]] = task[waiting[i]]
    BY <1>1, <2>1 DEF TypeOK
  <2>5. WaitersWait'
    BY <2>1, <2>2, <2>3, <2>4 DEF WaitersWait
  <2> QED
    BY <1>2, <1>4, <2>1, <2>5 DEF PhantomSw, Backed, BackedBy
<1>5. CASE current = Undefined /\ initial \notin {"none", "pending"}
  <2>1. task' = [task EXCEPT ![t] = g("failed")] /\ UNCHANGED <<swVars, txns>>
    BY <1>5 DEF SetKey
  <2>2. waiting = <<>>
    <3>1. waiting # <<>> => 1 \in DOMAIN waiting
      BY DEF TypeOK
    <3> QED
      BY <1>5, <3>1 DEF WaitersWait
  <2> QED
    BY <1>2, <1>5, <2>1, <2>2 DEF PhantomSw, Backed, BackedBy, WaitersWait, swVars
<1> QED
  BY <1>3, <1>4, <1>5

\* Resumed toggles announce only what their callers have saved.
LEMMA PhantomResolve ==
  ASSUME PhantomInv, InitialResolves
  PROVE  PhantomSw' /\ WaitersWait'
<1> USE DEF PhantomInv
<1> DEFINE resumed == [i \in DOMAIN waiting |->
                         [task |-> waiting[i], value |-> WithKey(db, waiting[i])]]
<1>1. /\ txns' = resumed /\ waiting' = <<>> /\ Saved' = Saved
      /\ current' = IF waiting # <<>> THEN resumed[Len(waiting)].value
                    ELSE IF initialStale THEN current ELSE db
  BY DEF InitialResolves, Saved
<1>2. BackedBy(db, Saved) /\ BackedBy(current, Saved)
  BY DEF NoPhantomDownload, Backed
<1>3. \A i \in DOMAIN waiting : BackedBy(WithKey(db, waiting[i]), Saved)
  <2> SUFFICES ASSUME NEW i \in DOMAIN waiting PROVE BackedBy(WithKey(db, waiting[i]), Saved)
    OBVIOUS
  <2>1. waiting[i] \in Tasks
    BY DEF TypeOK
  <2>2. task[waiting[i]].key \in Keys /\ task[waiting[i]].value \in BOOLEAN
    BY <2>1, ToggleType DEF TypeOK
  <2>3. task[waiting[i]].value /\ task[waiting[i]].key \in DownloadKeys
          => task[waiting[i]].key \in Saved
    BY DEF WaitersWait
  <2>4. db \in Settings
    BY DEF TypeOK
  <2> QED
    BY <1>2, <2>2, <2>3, <2>4, BackedSetKey DEF WithKey
<1>4. BackedBy(current', Saved)
  <2>1. waiting # <<>> => Len(waiting) \in DOMAIN waiting
    BY DEF TypeOK
  <2> QED
    BY <1>1, <1>2, <1>3, <2>1
<1>5. \A i \in DOMAIN txns' : BackedBy(txns'[i].value, Saved)
  BY <1>1, <1>3
<1> QED
  BY <1>1, <1>4, <1>5, EmptySeq DEF PhantomSw, Backed, WaitersWait

LEMMA InitPhantom == Init => PhantomInv
<1> SUFFICES ASSUME Init PROVE PhantomInv
  OBVIOUS
<1>1. Backed(db)
  BY DEF Init, Backed, BackedBy, Saved
<1>2. WaitersWait /\ Backed(committing) /\ Backed(current)
  BY DEF Init, WaitersWait, Backed, BackedBy
<1>3. \A i \in DOMAIN txns : Backed(txns[i].value)
  BY DEF Init
<1>4. PhantomPages
  BY DEF Init, PhantomPages, Backed, BackedBy
<1> QED
  BY <1>1, <1>2, <1>3, <1>4, InitType
     DEF PhantomInv, NoPhantomDownload, PhantomPages, Init, HiddenByFault

\* Every step preserves the invariant.
LEMMA NextPhantom == PhantomInv /\ [Next]_vars => PhantomInv'
<1> SUFFICES ASSUME PhantomInv, [Next]_vars PROVE PhantomInv'
  OBVIOUS
<1>0. TypeOK /\ PhantomDb /\ PhantomSw /\ PhantomPages /\ WaitersWait
  BY PhantomParts DEF PhantomInv
<1>a. TypeOK'
  BY <1>0, NextType
<1>c. HiddenByFault'
  BY NextHidden DEF PhantomInv, NoPhantomDownload
<1>b. SUFFICES PhantomDb' /\ PhantomSw' /\ PhantomPages' /\ WaitersWait'
  BY <1>a, <1>c DEF PhantomInv, NoPhantomDownload, PhantomDb, PhantomSw, PhantomPages
<1> DEFINE Goal == PhantomDb' /\ PhantomSw' /\ PhantomPages' /\ WaitersWait'
<1>1. ASSUME NEW t \in Tasks, NEW k \in Keys, TurnOff(t, k) PROVE Goal
  <2>1. PhantomSw' /\ WaitersWait'
    BY <1>0, <1>1, PhantomSetKey DEF TurnOff, Saved
  <2>2. PhantomDb' /\ PhantomPages'
    BY <1>0, <1>1 DEF TurnOff, PhantomDb, PhantomPages, Backed, Saved, appVars
  <2> QED
    BY <2>1, <2>2
<1>2. ASSUME NEW t \in Tasks, NEW k \in Keys, TurnOn(t, k) PROVE Goal
  <2>1. UNCHANGED <<dbVars, swVars, appVars>>
    BY <1>2 DEF TurnOn
  <2>2. WaitersWait'
    <3>1. \A i \in DOMAIN waiting : task'[waiting[i]] = task[waiting[i]]
      BY <1>0, <1>2 DEF TurnOn, WaitersWait, Saved, TypeOK
    <3> QED
      BY <1>0, <2>1, <3>1 DEF WaitersWait, Saved, dbVars, swVars
  <2> QED
    BY <1>0, <2>1, <2>2 DEF PhantomDb, PhantomSw, PhantomPages, Backed, Saved, dbVars, swVars, appVars
<1>3. ASSUME NEW t \in Tasks, WorkDone(t) PROVE Goal
  <2>1. /\ SetKey(t, task[t].key, TRUE)
        /\ UNCHANGED <<db, committing, appVars>>
        /\ task[t].phase = "working"
    BY <1>3 DEF WorkDone
  <2>2. Saved \subseteq Saved' /\ (task[t].key \in DownloadKeys => task[t].key \in Saved')
    BY <1>3 DEF WorkDone, SaveResolves, Saved
  <2>3. task[t].key \in Keys
    BY <1>0, ToggleType DEF TypeOK
  <2>4. PhantomSw' /\ WaitersWait'
    BY <1>0, <2>1, <2>2, <2>3, PhantomSetKey
  <2>5. PhantomDb'
    BY <1>0, <2>1, <2>2, BackedMonotone DEF PhantomDb, Backed, Saved
  <2>6. PhantomPages'
    BY <1>0, <2>1, <2>2, BackedMonotone DEF PhantomPages, Backed, Saved, appVars
  <2> QED
    BY <2>4, <2>5, <2>6
<1>4. ASSUME NEW t \in Tasks, WorkFails(t) PROVE Goal
  <2>1. UNCHANGED <<dbVars, swVars, appVars>>
    BY <1>4 DEF WorkFails
  <2>2. WaitersWait'
    <3>1. \A i \in DOMAIN waiting : task'[waiting[i]] = task[waiting[i]]
      BY <1>0, <1>4 DEF WorkFails, Move, WaitersWait, Saved, TypeOK
    <3> QED
      BY <1>0, <2>1, <3>1 DEF WaitersWait, Saved, dbVars, swVars
  <2> QED
    BY <1>0, <2>1, <2>2 DEF PhantomDb, PhantomSw, PhantomPages, Backed, Saved, dbVars, swVars, appVars
<1>5. ASSUME Prewarm PROVE Goal
  <2>1. UNCHANGED <<dbVars, current, waiting, task, appVars>> /\ initial' = "pending"
    BY <1>5 DEF Prewarm
  <2> QED
    BY <1>0, <2>1 DEF PhantomDb, PhantomSw, PhantomPages, Backed, Saved, WaitersWait, dbVars, appVars
<1>6. ASSUME InitialResolves PROVE Goal
  <2>1. PhantomSw' /\ WaitersWait'
    BY <1>6, PhantomResolve
  <2>2. PhantomDb' /\ PhantomPages'
    BY <1>0, <1>6 DEF InitialResolves, PhantomDb, PhantomPages, Backed, Saved, appVars
  <2> QED
    BY <2>1, <2>2
<1>7. ASSUME InitialRejects PROVE Goal
  <2>1. UNCHANGED <<dbVars, current, appVars>> /\ waiting' = <<>>
    BY <1>7 DEF InitialRejects
  <2>2. Saved' = Saved
    BY <2>1 DEF Saved, dbVars
  <2> QED
    BY <1>0, <2>1, <2>2 DEF PhantomDb, PhantomSw, PhantomPages, Backed, WaitersWait, dbVars, appVars
<1>8. ASSUME PutSucceeds PROVE Goal
  <2> DEFINE t == Head(txns).task
             s == Head(txns).value
  <2>1. /\ txns # <<>> /\ txns \in Seq(Write) /\ 1 \in DOMAIN txns /\ s = txns[1].value
        /\ task[t].phase = "putting" /\ t \in Tasks
    <3>1. txns # <<>> /\ txns \in Seq(Write) /\ task[t].phase = "putting"
      BY <1>0, <1>8 DEF PutSucceeds, TypeOK
    <3>2. Head(txns) \in Write /\ 1 \in DOMAIN txns /\ Head(txns) = txns[1]
      BY <3>1
    <3> QED
      BY <3>1, <3>2 DEF Write
  <2>2. /\ committing' = s /\ txns' = Tail(txns)
        /\ inbox' = [a \in Apps |-> IF hook[a] = "unmounted" THEN inbox[a] ELSE Append(inbox[a], s)]
        /\ task' = [task EXCEPT ![t].phase = "ok"]
        /\ UNCHANGED <<db, stored, hidden, swVars, readValue, view>>
    BY <1>8 DEF PutSucceeds, Move
  <2>3. BackedBy(s, Saved)
    BY <1>0, <2>1 DEF PhantomSw, Backed, Saved
  <2>4. PhantomDb'
    BY <1>0, <2>2, <2>3 DEF PhantomDb, Backed, Saved
  <2>5. PhantomSw'
    <3>1. \A i \in DOMAIN Tail(txns) : Tail(txns)[i] = txns[i+1] /\ i+1 \in DOMAIN txns
      BY <2>1
    <3> QED
      BY <1>0, <2>2, <3>1 DEF PhantomSw, Backed, Saved, swVars
  <2>6. PhantomPages'
    <3> SUFFICES ASSUME NEW a \in Apps
                 PROVE  \A i \in DOMAIN inbox'[a] : BackedBy(inbox'[a][i], Saved)
      BY <1>0, <2>2 DEF PhantomPages, Backed, Saved
    <3>1. inbox[a] \in Seq(Settings)
      BY <1>0 DEF TypeOK
    <3>2. \A i \in DOMAIN Append(inbox[a], s) :
            \/ i \in DOMAIN inbox[a] /\ Append(inbox[a], s)[i] = inbox[a][i]
            \/ Append(inbox[a], s)[i] = s
      BY <3>1
    <3>3. \A i \in DOMAIN inbox[a] : BackedBy(inbox[a][i], Saved)
      BY <1>0 DEF PhantomPages, Backed, Saved
    <3> QED
      BY <2>2, <2>3, <3>2, <3>3
  <2>7. WaitersWait'
    <3>2. \A i \in DOMAIN waiting : waiting[i] \in Tasks /\ waiting[i] # t
      BY <1>0, <2>1 DEF WaitersWait, Saved, TypeOK
    <3>3. \A u \in Tasks : u # t => task'[u] = task[u]
      BY <1>0, <2>2 DEF TypeOK
    <3>1. \A i \in DOMAIN waiting : task'[waiting[i]] = task[waiting[i]]
      BY <3>2, <3>3
    <3>4. UNCHANGED <<stored, hidden, initial, waiting>>
      BY <2>2 DEF swVars
    <3> QED
      BY <1>0, <3>1, <3>4 DEF WaitersWait, Saved
  <2> QED
    BY <2>4, <2>5, <2>6, <2>7
<1>9. ASSUME PutFails PROVE Goal
  <2>1. /\ txns # <<>> /\ txns \in Seq(Write) /\ task[Head(txns).task].phase = "putting"
        /\ txns' = Tail(txns)
        /\ task' = [task EXCEPT ![Head(txns).task].phase = "failed"]
        /\ UNCHANGED <<db, committing, stored, hidden, swVars, appVars>>
    BY <1>0, <1>9 DEF PutFails, Move, TypeOK
  <2>2. \A i \in DOMAIN Tail(txns) : Tail(txns)[i] = txns[i+1] /\ i+1 \in DOMAIN txns
    BY <2>1
  <2>3. PhantomSw'
    BY <1>0, <2>1, <2>2 DEF PhantomSw, Backed, Saved, swVars
  <2>4. WaitersWait'
    <3>1. \A i \in DOMAIN waiting : task'[waiting[i]] = task[waiting[i]]
      BY <1>0, <2>1 DEF WaitersWait, Saved, TypeOK
    <3> QED
      BY <1>0, <2>1, <3>1 DEF WaitersWait, Saved, swVars
  <2> QED
    BY <1>0, <2>1, <2>3, <2>4 DEF PhantomDb, PhantomPages, Backed, Saved, appVars
<1>10. ASSUME Kill PROVE Goal
  <2>1. UNCHANGED <<dbVars, appVars>> /\ current' = Undefined /\ waiting' = <<>>
    BY <1>10 DEF Kill
  <2> QED
    BY <1>0, <2>1 DEF PhantomDb, PhantomSw, PhantomPages, Backed, Saved, BackedBy, WaitersWait, dbVars, appVars
<1>11. ASSUME Commit \/ CommitAborts PROVE Goal
  <2>1. /\ db' \in {db, committing} /\ committing' = Undefined
        /\ UNCHANGED <<txns, stored, hidden, swVars, task, appVars>>
    BY <1>11 DEF Commit, CommitAborts
  <2>2. PhantomDb'
    BY <1>0, <2>1 DEF PhantomDb, Backed, Saved, BackedBy
  <2> QED
    BY <1>0, <2>1, <2>2 DEF PhantomSw, PhantomPages, Backed, Saved, WaitersWait, swVars, appVars
<1>12. ASSUME OrphanSettles PROVE Goal
  <2>1. /\ txns # <<>> /\ txns \in Seq(Write)
        /\ \/ committing' = Head(txns).value /\ txns' = Tail(txns)
           \/ committing' = Undefined /\ txns' = <<>>
        /\ UNCHANGED <<db, stored, hidden, swVars, task, appVars>>
    BY <1>0, <1>12 DEF OrphanSettles, TypeOK
  <2>2. /\ \A i \in DOMAIN Tail(txns) : Tail(txns)[i] = txns[i+1] /\ i+1 \in DOMAIN txns
        /\ 1 \in DOMAIN txns /\ Head(txns) = txns[1]
    BY <2>1
  <2>5. Saved' = Saved /\ current' = current
    BY <2>1 DEF Saved, swVars
  <2>3. PhantomSw'
    BY <1>0, <2>1, <2>2, <2>5 DEF PhantomSw, Backed
  <2>4. PhantomDb'
    BY <1>0, <2>1, <2>2 DEF PhantomDb, PhantomSw, Backed, Saved, BackedBy
  <2> QED
    BY <1>0, <2>1, <2>3, <2>4 DEF PhantomPages, Backed, Saved, WaitersWait, swVars, appVars
<1>13. ASSUME NEW a \in Apps, Mount(a) \/ Unmount(a) PROVE Goal
  <2>1. /\ UNCHANGED <<dbVars, swVars, task>>
        /\ \A b \in Apps : view'[b] \in {view[b], Undefined} /\ readValue'[b] \in {readValue[b], Undefined}
        /\ \A b \in Apps : inbox'[b] = inbox[b] \/ inbox'[b] = <<>>
    BY <1>0, <1>13 DEF Mount, Unmount, TypeOK
  <2>2. PhantomPages'
    BY <1>0, <2>1 DEF PhantomPages, Backed, Saved, BackedBy, dbVars
  <2> QED
    BY <1>0, <2>1, <2>2 DEF PhantomDb, PhantomSw, Backed, Saved, WaitersWait, dbVars, swVars
<1>14. ASSUME NEW a \in Apps, PageReads(a) \/ PageReadFails(a) \/ ReadDelivered(a) PROVE Goal
  <2>1. /\ UNCHANGED <<dbVars, swVars, task, inbox>>
        /\ \A b \in Apps : /\ view'[b] \in {view[b], readValue[b]}
                           /\ readValue'[b] \in {readValue[b], db, Undefined}
    BY <1>0, <1>14 DEF PageReads, PageReadFails, ReadDelivered, TypeOK
  <2>2. PhantomPages'
    BY <1>0, <2>1 DEF PhantomPages, PhantomDb, Backed, Saved, BackedBy, dbVars
  <2> QED
    BY <1>0, <2>1, <2>2 DEF PhantomDb, PhantomSw, Backed, Saved, WaitersWait, dbVars, swVars
<1>15. ASSUME NEW a \in Apps, BroadcastDelivered(a) PROVE Goal
  <2>1. /\ UNCHANGED <<dbVars, swVars, task, readValue>>
        /\ inbox[a] # <<>> /\ inbox[a] \in Seq(Settings)
        /\ view' = [view EXCEPT ![a] = Head(inbox[a])]
        /\ inbox' = [inbox EXCEPT ![a] = Tail(inbox[a])]
    BY <1>0, <1>15 DEF BroadcastDelivered, TypeOK
  <2>2. /\ \A i \in DOMAIN Tail(inbox[a]) :
             Tail(inbox[a])[i] = inbox[a][i+1] /\ i+1 \in DOMAIN inbox[a]
        /\ 1 \in DOMAIN inbox[a] /\ Head(inbox[a]) = inbox[a][1]
    BY <2>1
  <2>3. PhantomPages'
    BY <1>0, <2>1, <2>2 DEF PhantomPages, Backed, Saved, dbVars, TypeOK
  <2> QED
    BY <1>0, <2>1, <2>3 DEF PhantomDb, PhantomSw, Backed, Saved, WaitersWait, dbVars, swVars
<1>16. CASE UNCHANGED vars
  BY <1>0, <1>16 DEF vars, PhantomDb, PhantomSw, PhantomPages, Backed, Saved, WaitersWait, dbVars, swVars, appVars
<1> QED
  BY <1>1, <1>2, <1>3, <1>4, <1>5, <1>6, <1>7, <1>8, <1>9, <1>10, <1>11, <1>12,
     <1>13, <1>14, <1>15, <1>16 DEF Next

\* A resource is announced as downloaded only once a save of it was reported as
\* a success, and then its data is stored unless that save hid a failure
\* (NoPhantomDownload), for any number of toggles and pages and every fault.
THEOREM DownloadsAreBacked == Spec => []NoPhantomDownload
<1>1. PhantomInv => NoPhantomDownload
  BY DEF PhantomInv
<1> QED
  BY <1>1, InitPhantom, NextPhantom, PTL DEF Spec

(***************************************************************************)
(* A confirmed toggle sticks                                               *)
(***************************************************************************)
\* What AckedToggleHolds says of one key.
AckedKey(k) ==
  ack[k] # Undefined =>
    /\ (IF committing = Undefined THEN db ELSE committing)[k] = ack[k]
    /\ current # Undefined => current[k] = ack[k]
    /\ \A i \in DOMAIN txns : txns[i].value[k] = ack[k]

LEMMA AckedKeys == AckedToggleHolds <=> \A k \in Keys : AckedKey(k)
BY DEF AckedToggleHolds, AckedKey

\* What the invariant says beyond the types and the downloads.
AckRest ==
  /\ Len(waiting) <= 1
  /\ MemoryLoaded /\ QueueOwners /\ QueueValues /\ InFlightUnacked
  /\ \A k \in Keys : AckedKey(k)

LEMMA AckParts == AckInv <=> PhantomInv /\ AckRest
BY AckedKeys DEF AckInv, AckRest

\* The first entry of a queue of writes and the entries behind it.
LEMMA QueueHead ==
  ASSUME txns \in Seq(Write), txns # <<>>
  PROVE  /\ 1 \in DOMAIN txns /\ Head(txns) = txns[1]
         /\ Head(txns).task \in Tasks /\ Head(txns).value \in Settings
         /\ \A i \in DOMAIN Tail(txns) : i+1 \in DOMAIN txns /\ Tail(txns)[i] = txns[i+1]
         /\ \A i \in DOMAIN txns : i # 1 => i-1 \in DOMAIN Tail(txns) /\ Tail(txns)[i-1] = txns[i]
         /\ DOMAIN txns \subseteq Nat \ {0} /\ DOMAIN Tail(txns) \subseteq Nat
<1>1. Head(txns) \in Write /\ 1 \in DOMAIN txns /\ Head(txns) = txns[1]
  OBVIOUS
<1>2. Head(txns).task \in Tasks /\ Head(txns).value \in Settings
  BY <1>1 DEF Write
<1>3. \A i \in DOMAIN Tail(txns) : i+1 \in DOMAIN txns /\ Tail(txns)[i] = txns[i+1]
  OBVIOUS
<1>4. \A i \in DOMAIN txns : i # 1 => i-1 \in DOMAIN Tail(txns) /\ Tail(txns)[i-1] = txns[i]
  OBVIOUS
<1>5. DOMAIN txns \subseteq Nat \ {0} /\ DOMAIN Tail(txns) \subseteq Nat
  OBVIOUS
<1> QED
  BY <1>1, <1>2, <1>3, <1>4, <1>5

\* setKey with settings in memory, and while the first read is missing.
LEMMA AckSetKey ==
  ASSUME PhantomInv, AckRest, MaxCold = 1,
         NEW t \in Tasks, NEW k \in Keys, NEW v \in BOOLEAN,
         task[t].phase \in {"idle", "working"}, SetKey(t, k, v),
         UNCHANGED <<db, committing>>
  PROVE  AckRest'
<1> DEFINE g(p) == [phase |-> p, key |-> k, value |-> v]
<1>0. /\ TypeOK /\ txns \in Seq(Write) /\ task \in [Tasks -> Toggle]
      /\ ack \in [Keys -> BOOLEAN \cup {Undefined}] /\ waiting \in Seq(Tasks)
  BY DEF PhantomInv, TypeOK
<1>1. \A i \in DOMAIN txns : txns[i] \in Write /\ txns[i].task \in Tasks /\ txns[i].task # t
  <2>1. \A i \in DOMAIN txns : txns[i] \in Write
    BY <1>0
  <2>2. \A i \in DOMAIN txns : txns[i].task # t
    BY DEF AckRest, QueueOwners
  <2> QED
    BY <2>1, <2>2 DEF Write
<1>2. CASE current # Undefined
  <2>1. /\ current' = [current EXCEPT ![k] = v]
        /\ txns' = Append(txns, [task |-> t, value |-> current'])
        /\ task' = [task EXCEPT ![t] = g("putting")]
        /\ ack' = [ack EXCEPT ![k] = Undefined]
        /\ initialStale' = TRUE
        /\ UNCHANGED <<initial, waiting>>
    BY <1>2 DEF SetKey
  <2>2. current \in Settings /\ current' \in Settings /\ current' # Undefined
    <3>1. current \in Settings
      BY <1>0, <1>2 DEF TypeOK
    <3>2. current' \in Settings
      BY <2>1, <3>1, SetOneKey
    <3>3. Undefined \notin Settings
      BY ConstantsAssumption DEF Settings
    <3> QED
      BY <3>1, <3>2, <3>3
  <2>3. /\ current'[k] = v
        /\ \A j \in Keys : j # k => current'[j] = current[j] /\ ack'[j] = ack[j]
        /\ ack'[k] = Undefined
    BY <1>0, <2>1, <2>2 DEF Settings
  <2>4. /\ task'[t] = g("putting")
        /\ \A u \in Tasks : u # t => task'[u] = task[u]
    BY <1>0, <2>1
  <2> DEFINE n == Len(txns) + 1
  <2>5. /\ DOMAIN txns' = 1..n /\ DOMAIN txns = 1..Len(txns) /\ Len(txns) \in Nat
        /\ txns'[n] = [task |-> t, value |-> current']
        /\ \A i \in DOMAIN txns : txns'[i] = txns[i]
        /\ \A i \in DOMAIN txns' : i \in DOMAIN txns \/ i = n
    BY <1>0, <2>1
  <2>6. MemoryLoaded'
    BY <1>2, <2>1, <2>2 DEF AckRest, MemoryLoaded
  <2>7. QueueOwners'
    <3>1. \A i \in DOMAIN txns' : task'[txns'[i].task].phase = "putting"
      BY <1>1, <1>2, <2>4, <2>5 DEF AckRest, QueueOwners
    <3>2. \A i, j \in DOMAIN txns' : i # j => txns'[i].task # txns'[j].task
      BY <1>1, <2>5 DEF AckRest, QueueOwners
    <3> QED
      BY <2>2, <3>1, <3>2 DEF QueueOwners
  <2>8. QueueValues'
    <3>1. \A i \in DOMAIN txns' : txns'[i].value[task'[txns'[i].task].key] = task'[txns'[i].task].value
      BY <1>1, <1>2, <2>3, <2>4, <2>5 DEF AckRest, QueueValues
    <3>2. ASSUME NEW i \in DOMAIN txns', NEW j \in Keys,
                 \A h \in DOMAIN txns' : h > i => task'[txns'[h].task].key # j
          PROVE  txns'[i].value[j] = current'[j]
      <4>1. CASE i = n
        BY <4>1, <2>5
      <4>2. CASE i \in DOMAIN txns
        <5>1. n \in DOMAIN txns' /\ n > i /\ task'[txns'[n].task].key = k
          BY <4>2, <2>4, <2>5
        <5>2. j # k
          BY <3>2, <5>1
        <5>3. \A h \in DOMAIN txns : h > i => task[txns[h].task].key # j
          BY <1>1, <2>4, <2>5, <3>2
        <5>4. txns[i].value[j] = current[j]
          BY <1>2, <4>2, <5>3 DEF AckRest, QueueValues
        <5> QED
          BY <2>3, <2>5, <4>2, <5>2, <5>4
      <4> QED
        BY <2>5, <4>1, <4>2
    <3> QED
      BY <3>1, <3>2 DEF QueueValues
  <2>9. InFlightUnacked'
    <3> SUFFICES ASSUME NEW u \in Tasks, InFlight(u)' PROVE ack'[task'[u].key] = Undefined
      BY DEF InFlightUnacked
    <3>1. CASE u = t
      BY <3>1, <2>3, <2>4
    <3>2. CASE u # t
      <4>1. task'[u] = task[u] /\ InFlight(u) /\ task[u].key \in Keys
        BY <1>0, <2>4, <3>2, ToggleType DEF InFlight
      <4> QED
        BY <2>3, <4>1 DEF AckRest, InFlightUnacked
    <3> QED
      BY <3>1, <3>2
  <2>10. \A j \in Keys : AckedKey(j)'
    <3> SUFFICES ASSUME NEW j \in Keys, ack'[j] # Undefined
                 PROVE  /\ (IF committing = Undefined THEN db ELSE committing)[j] = ack'[j]
                        /\ current'[j] = ack'[j]
                        /\ \A i \in DOMAIN txns' : txns'[i].value[j] = ack'[j]
      BY DEF AckedKey
    <3>1. j # k /\ ack'[j] = ack[j] /\ AckedKey(j)
      BY <2>3 DEF AckRest
    <3> QED
      BY <1>2, <2>3, <2>5, <3>1 DEF AckedKey
  <2> QED
    BY <2>1, <2>6, <2>7, <2>8, <2>9, <2>10 DEF AckRest
<1>3. CASE current = Undefined /\ initial \in {"none", "pending"}
  <2>1. /\ task' = [task EXCEPT ![t] = g("waiting")]
        /\ ack' = [ack EXCEPT ![k] = Undefined]
        /\ waiting' = Append(waiting, t) /\ Len(waiting) < 1
        /\ initial' = "pending"
        /\ UNCHANGED <<current, initialStale, txns>>
    BY <1>3 DEF SetKey
  <2>2. /\ task'[t] = g("waiting") /\ ack'[k] = Undefined
        /\ \A u \in Tasks : u # t => task'[u] = task[u]
        /\ \A j \in Keys : j # k => ack'[j] = ack[j]
    BY <1>0, <2>1
  <2>3. Len(waiting') <= 1
    BY <1>0, <2>1
  <2>4. MemoryLoaded' /\ QueueValues'
    BY <1>3, <2>1 DEF AckRest, MemoryLoaded, QueueValues
  <2>5. QueueOwners'
    BY <1>1, <2>1, <2>2 DEF AckRest, QueueOwners
  <2>6. InFlightUnacked'
    <3> SUFFICES ASSUME NEW u \in Tasks, InFlight(u)' PROVE ack'[task'[u].key] = Undefined
      BY DEF InFlightUnacked
    <3>1. CASE u = t
      BY <3>1, <2>2
    <3>2. CASE u # t
      <4>1. task'[u] = task[u] /\ InFlight(u) /\ task[u].key \in Keys
        BY <1>0, <2>2, <3>2, ToggleType DEF InFlight
      <4> QED
        BY <2>2, <4>1 DEF AckRest, InFlightUnacked
    <3> QED
      BY <3>1, <3>2
  <2>7. \A j \in Keys : AckedKey(j)'
    BY <1>3, <2>1, <2>2 DEF AckRest, AckedKey
  <2> QED
    BY <2>3, <2>4, <2>5, <2>6, <2>7 DEF AckRest
<1>4. CASE current = Undefined /\ initial \notin {"none", "pending"}
  <2>1. task' = [task EXCEPT ![t] = g("failed")] /\ UNCHANGED <<swVars, txns, ack>>
    BY <1>4 DEF SetKey
  <2>2. task'[t] = g("failed") /\ \A u \in Tasks : u # t => task'[u] = task[u]
    BY <1>0, <2>1
  <2>3. QueueOwners'
    BY <1>1, <2>1, <2>2 DEF AckRest, QueueOwners, swVars
  <2>4. InFlightUnacked'
    BY <2>1, <2>2 DEF AckRest, InFlightUnacked, InFlight
  <2> QED
    BY <1>4, <2>1, <2>3, <2>4 DEF AckRest, MemoryLoaded, QueueValues, AckedKey, swVars
<1> QED
  BY <1>2, <1>3, <1>4

\* The only toggle that waited resumes from the settings just read.
LEMMA AckResolve ==
  ASSUME PhantomInv, AckRest, InitialResolves
  PROVE  AckRest'
<1> DEFINE resumed == [i \in DOMAIN waiting |->
                         [task |-> waiting[i], value |-> WithKey(db, waiting[i])]]
<1>0. /\ task \in [Tasks -> Toggle] /\ db \in Settings
      /\ ack \in [Keys -> BOOLEAN \cup {Undefined}] /\ waiting \in Seq(Tasks)
  BY DEF PhantomInv, TypeOK
<1>1. /\ initial = "pending" /\ txns = <<>> /\ committing = Undefined
      /\ initial' = "resolved"
      /\ txns' = resumed /\ waiting' = <<>>
      /\ current' = IF waiting # <<>> THEN resumed[Len(waiting)].value
                    ELSE IF initialStale THEN current ELSE db
      /\ UNCHANGED <<db, committing, ack>>
  BY DEF InitialResolves
<1>2. initialStale = FALSE
  BY <1>1 DEF AckRest, MemoryLoaded, PhantomInv, TypeOK
<1>3. db # Undefined
  BY <1>0, ConstantsAssumption DEF Settings
<1>4. \A u \in Tasks : /\ task'[u].key = task[u].key /\ task'[u].value = task[u].value
                       /\ task'[u].phase = IF task[u].phase = "waiting" THEN "putting" ELSE task[u].phase
  <2>1. task' = [u \in Tasks |-> IF task[u].phase = "waiting"
                                 THEN [task[u] EXCEPT !.phase = "putting"] ELSE task[u]]
    BY DEF InitialResolves
  <2>2. \A u \in Tasks : task[u] \in [phase : Phases, key : Keys, value : BOOLEAN]
    BY <1>0 DEF Toggle
  <2> QED
    BY <2>1, <2>2
<1>5. InFlightUnacked'
  BY <1>1, <1>4 DEF AckRest, InFlightUnacked, InFlight
<1>6. \A k \in Keys : ack[k] # Undefined => db[k] = ack[k]
  BY <1>1 DEF AckRest, AckedKey
<1>7. CASE waiting = <<>>
  <2>1. txns' = <<>> /\ current' = db
    BY <1>1, <1>2, <1>7
  <2>2. QueueOwners' /\ QueueValues' /\ MemoryLoaded'
    BY <1>1, <1>3, <2>1 DEF QueueOwners, QueueValues, MemoryLoaded
  <2>3. \A k \in Keys : AckedKey(k)'
    BY <1>1, <1>6, <2>1 DEF AckedKey
  <2> QED
    BY <1>1, <1>5, <2>2, <2>3 DEF AckRest
<1>8. CASE waiting # <<>>
  <2> DEFINE t == waiting[1]
             s == WithKey(db, t)
  <2>1. /\ Len(waiting) = 1 /\ DOMAIN waiting = {1} /\ t \in Tasks
        /\ task[t].phase = "waiting"
    <3>0. Len(waiting) \in Nat /\ DOMAIN waiting = 1..Len(waiting) /\ Len(waiting) # 0
      BY <1>0, <1>8
    <3>2. Len(waiting) <= 1
      BY DEF AckRest
    <3>3. Len(waiting) = 1 /\ DOMAIN waiting = {1}
      BY <3>0, <3>2
    <3>6. \A i \in DOMAIN waiting : waiting[i] \in Tasks
      BY <1>0
    <3>1. t \in Tasks
      BY <3>3, <3>6
    <3>4. WaitersWait /\ 1 \in DOMAIN waiting
      BY <3>3 DEF PhantomInv
    <3>5. task[t].phase = "waiting"
      BY <3>4 DEF WaitersWait
    <3> QED
      BY <3>1, <3>3, <3>5
  <2>2. DOMAIN txns' = {1} /\ txns'[1] = [task |-> t, value |-> s] /\ current' = s
    BY <1>1, <1>8, <2>1
  <2>3. task[t].key \in Keys /\ task[t].value \in BOOLEAN
    BY <1>0, <2>1, ToggleType
  <2>4. /\ s \in Settings /\ s # Undefined /\ s[task[t].key] = task[t].value
        /\ \A k \in Keys : k # task[t].key => s[k] = db[k]
    <3>1. s = [db EXCEPT ![task[t].key] = task[t].value]
      BY DEF WithKey
    <3> QED
      BY <1>0, <2>3, <3>1, ConstantsAssumption DEF Settings
  <2>5. ack[task[t].key] = Undefined
    BY <2>1 DEF AckRest, InFlightUnacked, InFlight
  <2>6. MemoryLoaded'
    BY <1>1, <2>2, <2>4 DEF MemoryLoaded
  <2>7. QueueOwners'
    BY <1>4, <2>1, <2>2, <2>4 DEF QueueOwners
  <2>8. QueueValues'
    BY <1>4, <2>1, <2>2, <2>4 DEF QueueValues
  <2>9. \A k \in Keys : AckedKey(k)'
    BY <1>1, <1>6, <2>2, <2>4, <2>5 DEF AckedKey
  <2> QED
    BY <1>1, <1>5, <2>6, <2>7, <2>8, <2>9 DEF AckRest
<1> QED
  BY <1>7, <1>8

\* Removing the head of the queue: what it says of the entries behind it.
LEMMA AckTail ==
  ASSUME TypeOK, AckRest, txns # <<>>, current # Undefined,
         txns' = Tail(txns), UNCHANGED swVars,
         \A u \in Tasks : u # Head(txns).task => task'[u] = task[u],
         \A u \in Tasks : task'[u].key = task[u].key /\ task'[u].value = task[u].value
  PROVE  QueueOwners' /\ QueueValues'
<1>0. txns \in Seq(Write)
  BY DEF TypeOK
<1>1. \A i \in DOMAIN txns' : /\ i+1 \in DOMAIN txns /\ txns'[i] = txns[i+1] /\ i \in Nat
                              /\ txns[i+1].task \in Tasks /\ txns[i+1].task # Head(txns).task
  <2> SUFFICES ASSUME NEW i \in DOMAIN txns'
               PROVE  /\ i+1 \in DOMAIN txns /\ txns'[i] = txns[i+1] /\ i \in Nat
                      /\ txns[i+1].task \in Tasks /\ txns[i+1].task # Head(txns).task
    OBVIOUS
  <2>1. i+1 \in DOMAIN txns /\ txns'[i] = txns[i+1] /\ i \in Nat /\ i \in DOMAIN Tail(txns)
    BY <1>0, QueueHead
  <2>2. i >= 1
    BY <1>0, <2>1
  <2>3. txns[i+1] \in Write
    BY <1>0, <2>1
  <2>4. txns[i+1].task # txns[1].task
    BY <1>0, <2>1, <2>2, QueueHead DEF AckRest, QueueOwners
  <2> QED
    BY <1>0, <2>1, <2>3, <2>4, QueueHead DEF Write
<1>2. QueueOwners'
  <2>1. \A i \in DOMAIN txns' : task'[txns'[i].task].phase = "putting"
    BY <1>1 DEF AckRest, QueueOwners
  <2>2. \A i, j \in DOMAIN txns' : i # j => txns'[i].task # txns'[j].task
    <3> SUFFICES ASSUME NEW i \in DOMAIN txns', NEW j \in DOMAIN txns', i # j
                 PROVE  txns'[i].task # txns'[j].task
      OBVIOUS
    <3>1. i+1 # j+1
      BY <1>1
    <3> QED
      BY <1>1, <3>1 DEF AckRest, QueueOwners
  <2> QED
    BY <2>1, <2>2 DEF QueueOwners, swVars
<1>3. QueueValues'
  <2>1. \A i \in DOMAIN txns' : txns'[i].value[task'[txns'[i].task].key] = task'[txns'[i].task].value
    BY <1>1 DEF AckRest, QueueValues
  <2>2. ASSUME NEW i \in DOMAIN txns', NEW k \in Keys,
               \A j \in DOMAIN txns' : j > i => task'[txns'[j].task].key # k
        PROVE  txns'[i].value[k] = current[k]
    <3>1. ASSUME NEW j \in DOMAIN txns, j > i+1 PROVE task[txns[j].task].key # k
      <4>1. j-1 \in DOMAIN txns' /\ txns'[j-1] = txns[j] /\ j \in Nat
        BY <1>0, <1>1, <3>1, QueueHead
      <4>2. j-1 > i
        BY <1>1, <3>1, <4>1
      <4>3. txns[j].task \in Tasks
        <5>1. txns[j] \in Write
          BY <1>0
        <5> QED
          BY <5>1 DEF Write
      <4> QED
        BY <2>2, <4>1, <4>2, <4>3
    <3>2. txns[i+1].value[k] = current[k]
      BY <1>1, <3>1 DEF AckRest, QueueValues
    <3> QED
      BY <1>1, <3>2
  <2> QED
    BY <2>1, <2>2 DEF QueueValues, swVars
<1> QED
  BY <1>2, <1>3

\* A put succeeds and its toggle is confirmed.
LEMMA AckPut ==
  ASSUME PhantomInv, AckRest, PutSucceeds
  PROVE  AckRest'
<1> DEFINE t == Head(txns).task
           s == Head(txns).value
<1>0. /\ TypeOK /\ txns \in Seq(Write) /\ txns # <<>> /\ task \in [Tasks -> Toggle]
      /\ ack \in [Keys -> BOOLEAN \cup {Undefined}]
  BY DEF PhantomInv, TypeOK, PutSucceeds
<1>1. /\ committing = Undefined /\ task[t].phase = "putting"
      /\ committing' = s /\ txns' = Tail(txns)
      /\ task' = [task EXCEPT ![t].phase = "ok"]
      /\ ack' = IF Alone(t) THEN [ack EXCEPT ![task[t].key] = task[t].value] ELSE ack
      /\ UNCHANGED <<db, swVars>>
  BY DEF PutSucceeds, Move
<1>2. /\ 1 \in DOMAIN txns /\ Head(txns) = txns[1] /\ t \in Tasks /\ s \in Settings
      /\ s # Undefined
  BY <1>0, QueueHead, ConstantsAssumption DEF Settings
<1>3. current # Undefined
  BY <1>1, <1>2 DEF AckRest, QueueOwners
<1>4. /\ \A u \in Tasks : u # t => task'[u] = task[u]
      /\ \A u \in Tasks : task'[u].key = task[u].key /\ task'[u].value = task[u].value
      /\ task'[t].phase = "ok"
  <2>1. \A u \in Tasks : task[u] \in [phase : Phases, key : Keys, value : BOOLEAN]
    BY <1>0 DEF Toggle
  <2> QED
    BY <1>0, <1>1, <1>2, <2>1
<1>5. QueueOwners' /\ QueueValues'
  BY <1>0, <1>1, <1>3, <1>4, AckTail
<1>6. MemoryLoaded' /\ Len(waiting') <= 1
  BY <1>1 DEF AckRest, MemoryLoaded, swVars
<1>7. task[t].key \in Keys /\ task[t].value \in BOOLEAN
  BY <1>0, <1>2, ToggleType
<1>8. InFlightUnacked'
  <2> SUFFICES ASSUME NEW u \in Tasks, InFlight(u)' PROVE ack'[task'[u].key] = Undefined
    BY DEF InFlightUnacked
  <2>1. u # t /\ InFlight(u) /\ task'[u] = task[u]
    BY <1>4 DEF InFlight
  <2>2. ack[task[u].key] = Undefined
    BY <2>1 DEF AckRest, InFlightUnacked
  <2>3. Alone(t) => task[u].key # task[t].key
    BY <2>1 DEF Alone
  <2>4. task[u].key \in Keys
    BY <1>0, ToggleType
  <2> QED
    BY <1>0, <1>1, <2>1, <2>2, <2>3, <2>4
<1>9. \A i \in DOMAIN txns' : i+1 \in DOMAIN txns /\ txns'[i] = txns[i+1]
  BY <1>0, <1>1, QueueHead
<1>10. \A k \in Keys : AckedKey(k)'
  <2> SUFFICES ASSUME NEW k \in Keys, ack'[k] # Undefined
               PROVE  /\ s[k] = ack'[k] /\ current[k] = ack'[k]
                      /\ \A i \in DOMAIN txns' : txns'[i].value[k] = ack'[k]
    BY <1>1, <1>2 DEF AckedKey, swVars
  <2>1. CASE ack'[k] = ack[k] /\ ack[k] # Undefined
    <3>1. AckedKey(k)
      BY DEF AckRest
    <3> QED
      BY <1>2, <1>3, <1>9, <2>1, <3>1 DEF AckedKey
  <2>2. CASE k = task[t].key /\ Alone(t) /\ ack'[k] = task[t].value
    <3>1. \A j \in DOMAIN txns : j > 1 => task[txns[j].task].key # k
      <4> SUFFICES ASSUME NEW j \in DOMAIN txns, j > 1 PROVE task[txns[j].task].key # k
        OBVIOUS
      <4>1. txns[j] \in Write
        BY <1>0
      <4>2. txns[j].task \in Tasks /\ txns[j].task # t
        BY <1>2, <4>1 DEF AckRest, QueueOwners, Write
      <4>3. InFlight(txns[j].task)
        BY <1>3 DEF AckRest, QueueOwners, InFlight
      <4> QED
        BY <2>2, <4>2, <4>3 DEF Alone
    <3>2. s[k] = task[t].value /\ s[k] = current[k]
      BY <1>2, <1>3, <2>2, <3>1 DEF AckRest, QueueValues
    <3>3. \A i \in DOMAIN txns : txns[i].value[k] = current[k]
      <4> SUFFICES ASSUME NEW i \in DOMAIN txns PROVE txns[i].value[k] = current[k]
        OBVIOUS
      <4>1. i \in Nat \ {0}
        BY <1>0, QueueHead
      <4>2. \A j \in DOMAIN txns : j > i => task[txns[j].task].key # k
        <5>1. \A j \in DOMAIN txns : j \in Nat \ {0}
          BY <1>0, QueueHead
        <5> QED
          BY <3>1, <4>1, <5>1
      <4> QED
        BY <1>3, <4>2 DEF AckRest, QueueValues
    <3> QED
      BY <1>9, <2>2, <3>2, <3>3
  <2> QED
    BY <1>0, <1>1, <1>7, <2>1, <2>2
<1> QED
  BY <1>5, <1>6, <1>8, <1>10 DEF AckRest

LEMMA InitAck == Init => AckInv
<1> SUFFICES ASSUME Init PROVE AckInv
  OBVIOUS
<1>1. /\ Len(waiting) <= 1 /\ txns = <<>> /\ current = Undefined /\ initial = "none"
      /\ initialStale = FALSE /\ \A t \in Tasks : ~InFlight(t)
      /\ \A k \in Keys : ack[k] = Undefined
  BY DEF Init, InFlight
<1>2. AckRest
  BY <1>1 DEF AckRest, MemoryLoaded, QueueOwners, QueueValues, InFlightUnacked, AckedKey
<1> QED
  BY <1>2, InitPhantom, AckParts

\* Every step preserves the invariant, if no transaction aborts after its put
\* succeeded and at most one toggle waits for the first read.
LEMMA NextAck ==
  ASSUME MaxCold = 1, "commitAbort" \notin Faults
  PROVE  AckInv /\ [Next]_vars => AckInv'
<1> SUFFICES ASSUME AckInv, [Next]_vars PROVE AckInv'
  OBVIOUS
<1>0. /\ PhantomInv /\ AckRest /\ TypeOK /\ task \in [Tasks -> Toggle]
      /\ txns \in Seq(Write) /\ ack \in [Keys -> BOOLEAN \cup {Undefined}]
  BY AckParts DEF PhantomInv, TypeOK
<1>a. PhantomInv'
  BY <1>0, NextPhantom
<1>b. SUFFICES AckRest'
  <2>1. PhantomInv' /\ AckRest' => AckInv'
    BY AckedKeys DEF AckInv, AckRest, AckedToggleHolds, AckedKey
  <2> QED
    BY <1>a, <2>1
<1>c. \A u \in Tasks : task[u].key \in Keys
  BY <1>0, ToggleType
<1>d. \A i \in DOMAIN txns : txns[i].task \in Tasks
  <2>1. \A i \in DOMAIN txns : txns[i] \in Write
    BY <1>0
  <2> QED
    BY <2>1 DEF Write
<1>1. ASSUME NEW t \in Tasks, NEW k \in Keys, TurnOff(t, k) PROVE AckRest'
  BY <1>0, <1>1, AckSetKey DEF TurnOff
<1>2. ASSUME NEW t \in Tasks,
             task[t].phase \in {"idle", "working"}, UNCHANGED <<dbVars, swVars, ack>>,
             \A u \in Tasks : u # t => task'[u] = task[u],
             task'[t].phase \in {"working", "failed"}
      PROVE  AckRest'
  <2>1. QueueOwners' /\ QueueValues'
    <3>1. \A i \in DOMAIN txns : task'[txns[i].task] = task[txns[i].task]
      BY <1>0, <1>2, <1>d DEF AckRest, QueueOwners
    <3> QED
      BY <1>0, <1>2, <3>1 DEF AckRest, QueueOwners, QueueValues, dbVars, swVars
  <2>2. InFlightUnacked'
    BY <1>0, <1>2 DEF AckRest, InFlightUnacked, InFlight
  <2> QED
    BY <1>0, <1>2, <2>1, <2>2 DEF AckRest, MemoryLoaded, AckedKey, dbVars, swVars
<1>3. ASSUME NEW t \in Tasks, NEW k \in Keys, TurnOn(t, k) PROVE AckRest'
  <2>1. /\ \A u \in Tasks : u # t => task'[u] = task[u]
        /\ task'[t].phase \in {"working", "failed"} /\ task[t].phase = "idle"
        /\ UNCHANGED <<dbVars, swVars, ack>>
    BY <1>0, <1>3 DEF TurnOn
  <2> QED
    BY <1>2, <2>1
<1>4. ASSUME NEW t \in Tasks, WorkDone(t) PROVE AckRest'
  BY <1>0, <1>4, <1>c, AckSetKey DEF WorkDone
<1>5. ASSUME NEW t \in Tasks, WorkFails(t) PROVE AckRest'
  <2>1. task \in [Tasks -> Toggle] /\ \A u \in Tasks : task[u] \in [phase : Phases, key : Keys, value : BOOLEAN]
    BY <1>0 DEF Toggle
  <2>2. /\ \A u \in Tasks : u # t => task'[u] = task[u]
        /\ task'[t].phase = "failed" /\ task[t].phase = "working"
        /\ UNCHANGED <<dbVars, swVars, ack>>
    BY <1>5, <2>1 DEF WorkFails, Move
  <2> QED
    BY <1>2, <2>2
<1>6. ASSUME Prewarm PROVE AckRest'
  <2>1. /\ UNCHANGED <<dbVars, current, initialStale, waiting, task, ack>>
        /\ initial = "none" /\ initial' = "pending"
    BY <1>6 DEF Prewarm
  <2> QED
    BY <1>0, <2>1 DEF AckRest, MemoryLoaded, QueueOwners, QueueValues, InFlightUnacked, InFlight, AckedKey, dbVars
<1>7. ASSUME InitialResolves PROVE AckRest'
  BY <1>0, <1>7, AckResolve
<1>8. ASSUME InitialRejects PROVE AckRest'
  <2>1. /\ initial = "pending" /\ initial' = "rejected" /\ waiting' = <<>>
        /\ UNCHANGED <<dbVars, current, initialStale, ack>>
    BY <1>8 DEF InitialRejects
  <2>2. \A u \in Tasks : /\ task'[u].key = task[u].key /\ task'[u].value = task[u].value
                         /\ task'[u].phase = IF task[u].phase = "waiting" THEN "failed" ELSE task[u].phase
    <3>1. \A u \in Tasks : task[u] \in [phase : Phases, key : Keys, value : BOOLEAN]
      BY <1>0 DEF Toggle
    <3> QED
      BY <1>8, <3>1 DEF InitialRejects
  <2>3. current = Undefined
    BY <1>0, <2>1 DEF AckRest, MemoryLoaded
  <2>4. QueueOwners'
    BY <1>0, <1>d, <2>1, <2>2, <2>3 DEF AckRest, QueueOwners, dbVars
  <2>5. InFlightUnacked'
    BY <1>0, <2>1, <2>2 DEF AckRest, InFlightUnacked, InFlight
  <2>6. MemoryLoaded' /\ QueueValues' /\ Len(waiting') <= 1
    BY <1>0, <2>1, <2>3 DEF AckRest, MemoryLoaded, QueueValues
  <2>7. \A k \in Keys : AckedKey(k)'
    BY <1>0, <2>1, <2>3 DEF AckRest, AckedKey, dbVars
  <2> QED
    BY <2>4, <2>5, <2>6, <2>7 DEF AckRest
<1>9. ASSUME PutSucceeds PROVE AckRest'
  BY <1>0, <1>9, AckPut
<1>10. ASSUME PutFails PROVE AckRest'
  <2> DEFINE t == Head(txns).task
  <2>1. /\ txns # <<>> /\ committing = Undefined /\ task[t].phase = "putting"
        /\ txns' = Tail(txns) /\ task' = [task EXCEPT ![t].phase = "failed"]
        /\ UNCHANGED <<db, committing, swVars, ack>>
    BY <1>10 DEF PutFails, Move
  <2>2. 1 \in DOMAIN txns /\ Head(txns) = txns[1] /\ t \in Tasks
    BY <1>0, <2>1, QueueHead
  <2>3. current # Undefined
    BY <1>0, <2>1, <2>2 DEF AckRest, QueueOwners
  <2>4. /\ \A u \in Tasks : u # t => task'[u] = task[u]
        /\ \A u \in Tasks : task'[u].key = task[u].key /\ task'[u].value = task[u].value
        /\ task'[t].phase = "failed"
    <3>1. \A u \in Tasks : task[u] \in [phase : Phases, key : Keys, value : BOOLEAN]
      BY <1>0 DEF Toggle
    <3> QED
      BY <1>0, <2>1, <2>2, <3>1
  <2>5. QueueOwners' /\ QueueValues'
    BY <1>0, <2>1, <2>3, <2>4, AckTail
  <2>6. InFlightUnacked'
    <3> SUFFICES ASSUME NEW u \in Tasks, InFlight(u)' PROVE ack'[task'[u].key] = Undefined
      BY DEF InFlightUnacked
    <3>1. u # t /\ InFlight(u) /\ task'[u] = task[u]
      BY <2>4 DEF InFlight
    <3>2. ack[task[u].key] = Undefined
      BY <1>0, <3>1 DEF AckRest, InFlightUnacked
    <3> QED
      BY <2>1, <3>1, <3>2
  <2>7. \A i \in DOMAIN txns' : i+1 \in DOMAIN txns /\ txns'[i] = txns[i+1]
    BY <1>0, <2>1, QueueHead
  <2>8. \A k \in Keys : AckedKey(k)'
    BY <1>0, <2>1, <2>7 DEF AckRest, AckedKey, swVars
  <2> QED
    BY <1>0, <2>1, <2>5, <2>6, <2>8 DEF AckRest, MemoryLoaded, swVars
<1>11. ASSUME Kill PROVE AckRest'
  <2>1. /\ current' = Undefined /\ initial' = "none" /\ initialStale' = FALSE /\ waiting' = <<>>
        /\ UNCHANGED <<dbVars, ack>>
    BY <1>11 DEF Kill
  <2>2. \A u \in Tasks : task'[u].phase = IF task[u].phase \in {"working", "waiting", "putting"}
                                          THEN "lost" ELSE task[u].phase
    <3>1. \A u \in Tasks : task[u] \in [phase : Phases, key : Keys, value : BOOLEAN]
      BY <1>0 DEF Toggle
    <3> QED
      BY <1>11, <3>1 DEF Kill
  <2>3. QueueOwners'
    BY <1>0, <1>d, <2>1, <2>2 DEF AckRest, QueueOwners, dbVars
  <2>4. InFlightUnacked'
    BY <2>2 DEF InFlightUnacked, InFlight
  <2>5. MemoryLoaded' /\ QueueValues' /\ Len(waiting') <= 1
    BY <2>1 DEF MemoryLoaded, QueueValues
  <2>6. \A k \in Keys : AckedKey(k)'
    BY <1>0, <2>1 DEF AckRest, AckedKey, dbVars
  <2> QED
    BY <2>3, <2>4, <2>5, <2>6 DEF AckRest
<1>12. ASSUME Commit PROVE AckRest'
  <2>1. /\ committing # Undefined /\ db' = committing /\ committing' = Undefined
        /\ UNCHANGED <<txns, swVars, task, ack>>
    BY <1>12 DEF Commit
  <2> QED
    BY <1>0, <2>1 DEF AckRest, MemoryLoaded, QueueOwners, QueueValues, InFlightUnacked, InFlight, AckedKey, swVars
<1>13. ASSUME CommitAborts PROVE AckRest'
  BY <1>13 DEF CommitAborts
<1>14. ASSUME OrphanSettles PROVE AckRest'
  <2>1. /\ txns # <<>> /\ committing = Undefined /\ task[Head(txns).task].phase = "lost"
        /\ \/ committing' = Head(txns).value /\ txns' = Tail(txns)
           \/ committing' = Undefined /\ txns' = <<>>
        /\ UNCHANGED <<db, swVars, task, ack>>
    BY <1>14 DEF OrphanSettles
  <2>2. /\ 1 \in DOMAIN txns /\ Head(txns) = txns[1] /\ Head(txns).value \in Settings
        /\ Head(txns).value # Undefined
    BY <1>0, <2>1, QueueHead, ConstantsAssumption DEF Settings
  <2>3. current = Undefined
    BY <1>0, <2>1, <2>2 DEF AckRest, QueueOwners
  <2>4. \A i \in DOMAIN txns' : i+1 \in DOMAIN txns /\ txns'[i] = txns[i+1] /\ i \in Nat
    BY <1>0, <2>1, QueueHead
  <2>5. QueueOwners'
    <3>1. \A i \in DOMAIN txns' : task'[txns'[i].task].phase = "lost"
      BY <1>0, <2>1, <2>3, <2>4 DEF AckRest, QueueOwners
    <3>2. \A i, j \in DOMAIN txns' : i # j => txns'[i].task # txns'[j].task
      <4> SUFFICES ASSUME NEW i \in DOMAIN txns', NEW j \in DOMAIN txns', i # j
                   PROVE  txns'[i].task # txns'[j].task
        OBVIOUS
      <4>1. i+1 # j+1
        BY <2>4
      <4> QED
        BY <1>0, <2>4, <4>1 DEF AckRest, QueueOwners
    <3> QED
      BY <2>1, <2>3, <3>1, <3>2 DEF QueueOwners, swVars
  <2>6. \A k \in Keys : AckedKey(k)'
    BY <1>0, <2>1, <2>2, <2>3, <2>4 DEF AckRest, AckedKey, swVars
  <2> QED
    BY <1>0, <2>1, <2>3, <2>5, <2>6 DEF AckRest, MemoryLoaded, QueueValues, InFlightUnacked, InFlight, swVars
<1>15. ASSUME UNCHANGED <<dbVars, swVars, task, ack>> PROVE AckRest'
  BY <1>0, <1>15 DEF AckRest, MemoryLoaded, QueueOwners, QueueValues, InFlightUnacked, InFlight, AckedKey, dbVars, swVars
<1>16. ASSUME NEW a \in Apps, Mount(a) \/ Unmount(a) \/ PageReads(a) \/ PageReadFails(a) \/ ReadDelivered(a)
                              \/ BroadcastDelivered(a)
       PROVE  AckRest'
  BY <1>15, <1>16 DEF Mount, Unmount, PageReads, PageReadFails, ReadDelivered, BroadcastDelivered
<1>17. CASE UNCHANGED vars
  BY <1>15, <1>17 DEF vars
<1> QED
  BY <1>1, <1>3, <1>4, <1>5, <1>6, <1>7, <1>8, <1>9, <1>10, <1>11, <1>12, <1>13,
     <1>14, <1>16, <1>17 DEF Next

\* A confirmed toggle sticks (AckedToggleHolds), through kills of the worker,
\* failed reads and failed writes, for any number of toggles, keys and pages.
\* Without the first assumption a second toggle that waits for the same read
\* reverts the first one (the run settings_lost_update); without the second one,
\* a toggle confirmed on its put's success is lost when its transaction aborts.
THEOREM ConfirmedSticks ==
  ASSUME MaxCold = 1, "commitAbort" \notin Faults
  PROVE  Spec => []AckedToggleHolds
<1>1. Init => AckInv
  BY InitAck
<1>2. AckInv /\ [Next]_vars => AckInv'
  BY NextAck
<1>3. AckInv => AckedToggleHolds
  BY DEF AckInv
<1> QED
  BY <1>1, <1>2, <1>3, PTL DEF Spec

(***************************************************************************)
(* The worker's memory is what the database is about to hold               *)
(***************************************************************************)
LatestRest == WaitersDiffer /\ MemoryLoaded /\ QueueOwners

\* What a step has to show for the invariant and for the action property.
LatestStep ==
  /\ LatestRest'
  /\ MemoryIsLatest => MemoryIsLatest' \/ (WriteFails /\ (PutFails \/ CommitAborts))

\* The effect of a change of phase on every toggle.
LEMMA MoveEffect ==
  ASSUME task \in [Tasks -> Toggle], NEW t \in Tasks, NEW p, Move(t, p)
  PROVE  /\ \A u \in Tasks : u # t => task'[u] = task[u]
         /\ task'[t].phase = p
         /\ \A u \in Tasks : task'[u].key = task[u].key /\ task'[u].value = task[u].value
<1>1. \A u \in Tasks : task[u] \in [phase : Phases, key : Keys, value : BOOLEAN]
  BY DEF Toggle
<1> QED
  BY <1>1 DEF Move

\* The last entry of a queue stays the last one when others leave at the head.
LEMMA QueueLast ==
  ASSUME txns \in Seq(Write), txns # <<>>
  PROVE  /\ Tail(txns) = <<>> => txns[Len(txns)] = Head(txns)
         /\ Tail(txns) # <<>> => Tail(txns)[Len(Tail(txns))] = txns[Len(txns)]
<1>1. Len(txns) \in Nat /\ Len(txns) # 0 /\ Len(Tail(txns)) = Len(txns) - 1
  OBVIOUS
<1>2. \A i \in 1..Len(Tail(txns)) : Tail(txns)[i] = txns[i+1]
  OBVIOUS
<1>3. Tail(txns) = <<>> <=> Len(txns) = 1
  BY <1>1
<1>4. CASE Len(txns) = 1
  BY <1>3, <1>4
<1>5. CASE Len(txns) # 1
  <2>1. Len(Tail(txns)) \in 1..Len(Tail(txns)) /\ Len(Tail(txns)) + 1 = Len(txns)
    BY <1>1, <1>5
  <2> QED
    BY <1>2, <1>3, <1>5, <2>1
<1> QED
  BY <1>4, <1>5

\* setKey changes the memory and the last write in the same instant.
LEMMA LatestSetKey ==
  ASSUME PhantomInv, LatestRest,
         NEW t \in Tasks, NEW k \in Keys, NEW v \in BOOLEAN,
         task[t].phase \in {"idle", "working"}, SetKey(t, k, v),
         UNCHANGED <<db, committing>>
  PROVE  LatestStep
<1> DEFINE g(p) == [phase |-> p, key |-> k, value |-> v]
<1>0. /\ TypeOK /\ txns \in Seq(Write) /\ task \in [Tasks -> Toggle] /\ waiting \in Seq(Tasks)
  BY DEF PhantomInv, TypeOK
<1>1. \A i \in DOMAIN txns : txns[i].task \in Tasks /\ txns[i].task # t
  <2>1. \A i \in DOMAIN txns : txns[i] \in Write
    BY <1>0
  <2>2. \A i \in DOMAIN txns : txns[i].task # t
    BY DEF LatestRest, QueueOwners
  <2> QED
    BY <2>1, <2>2 DEF Write
<1>2. CASE current # Undefined
  <2>1. /\ current' = [current EXCEPT ![k] = v]
        /\ txns' = Append(txns, [task |-> t, value |-> current'])
        /\ task' = [task EXCEPT ![t] = g("putting")]
        /\ initialStale' = TRUE
        /\ UNCHANGED <<initial, waiting>>
    BY <1>2 DEF SetKey
  <2>2. current' # Undefined
    <3>1. current \in Settings
      BY <1>0, <1>2 DEF TypeOK
    <3> QED
      BY <2>1, <3>1, SetOneKey, ConstantsAssumption DEF Settings
  <2>3. task'[t].phase = "putting" /\ \A u \in Tasks : u # t => task'[u] = task[u]
    BY <1>0, <2>1
  <2> DEFINE n == Len(txns) + 1
  <2>4. /\ DOMAIN txns' = 1..n /\ DOMAIN txns = 1..Len(txns) /\ Len(txns) \in Nat
        /\ Len(txns') = n
        /\ txns'[n] = [task |-> t, value |-> current']
        /\ \A i \in DOMAIN txns : txns'[i] = txns[i]
        /\ \A i \in DOMAIN txns' : i \in DOMAIN txns \/ i = n
    BY <1>0, <2>1
  <2>5. QueueOwners'
    <3>1. \A i \in DOMAIN txns' : task'[txns'[i].task].phase = "putting"
      BY <1>1, <1>2, <2>3, <2>4 DEF LatestRest, QueueOwners
    <3>2. \A i, j \in DOMAIN txns' : i # j => txns'[i].task # txns'[j].task
      BY <1>1, <2>4 DEF LatestRest, QueueOwners
    <3> QED
      BY <2>2, <3>1, <3>2 DEF QueueOwners
  <2>6. MemoryLoaded' /\ WaitersDiffer'
    BY <1>2, <2>1, <2>2 DEF LatestRest, MemoryLoaded, WaitersDiffer
  <2>7. MemoryIsLatest'
    <3>1. txns' # <<>>
      BY <2>4
    <3> QED
      BY <2>4, <3>1 DEF MemoryIsLatest, Eventual
  <2> QED
    BY <2>5, <2>6, <2>7 DEF LatestStep, LatestRest
<1>3. CASE current = Undefined /\ initial \in {"none", "pending"}
  <2>1. /\ task' = [task EXCEPT ![t] = g("waiting")]
        /\ waiting' = Append(waiting, t)
        /\ initial' = "pending"
        /\ UNCHANGED <<current, initialStale, txns>>
    BY <1>3 DEF SetKey
  <2>2. \A u \in Tasks : u # t => task'[u] = task[u]
    BY <1>0, <2>1
  <2>3. MemoryLoaded' /\ QueueOwners'
    BY <1>1, <1>3, <2>1, <2>2 DEF LatestRest, MemoryLoaded, QueueOwners
  <2>4. \A i \in DOMAIN waiting : waiting[i] # t
    BY DEF PhantomInv, WaitersWait
  <2>5. WaitersDiffer'
    BY <1>0, <2>1, <2>4 DEF LatestRest, WaitersDiffer
  <2> QED
    BY <1>3, <2>1, <2>3, <2>5 DEF LatestStep, LatestRest, MemoryIsLatest
<1>4. CASE current = Undefined /\ initial \notin {"none", "pending"}
  <2>1. task' = [task EXCEPT ![t] = g("failed")] /\ UNCHANGED <<swVars, txns>>
    BY <1>4 DEF SetKey
  <2>2. \A u \in Tasks : u # t => task'[u] = task[u]
    BY <1>0, <2>1
  <2>3. QueueOwners'
    BY <1>1, <2>1, <2>2 DEF LatestRest, QueueOwners, swVars
  <2> QED
    BY <1>4, <2>1, <2>3 DEF LatestStep, LatestRest, MemoryLoaded, WaitersDiffer, MemoryIsLatest, swVars
<1> QED
  BY <1>2, <1>3, <1>4

\* All who waited resume from what was read, and the last one fills the memory.
LEMMA LatestResolve ==
  ASSUME PhantomInv, LatestRest, InitialResolves
  PROVE  LatestStep /\ MemoryIsLatest'
<1> DEFINE resumed == [i \in DOMAIN waiting |->
                         [task |-> waiting[i], value |-> WithKey(db, waiting[i])]]
<1>0. /\ TypeOK /\ task \in [Tasks -> Toggle] /\ db \in Settings /\ waiting \in Seq(Tasks)
  BY DEF PhantomInv, TypeOK
<1>1. /\ initial = "pending" /\ committing = Undefined /\ initial' = "resolved"
      /\ txns' = resumed /\ waiting' = <<>>
      /\ current' = IF waiting # <<>> THEN resumed[Len(waiting)].value
                    ELSE IF initialStale THEN current ELSE db
      /\ UNCHANGED <<db, committing>>
  BY DEF InitialResolves
<1>2. initialStale = FALSE
  BY <1>0, <1>1 DEF LatestRest, MemoryLoaded, TypeOK
<1>3. Undefined \notin Settings
  BY ConstantsAssumption DEF Settings
<1>4. \A u \in Tasks : task[u].phase = "waiting" => task'[u].phase = "putting"
  <2>1. task' = [u \in Tasks |-> IF task[u].phase = "waiting"
                                 THEN [task[u] EXCEPT !.phase = "putting"] ELSE task[u]]
    BY DEF InitialResolves
  <2>2. \A u \in Tasks : task[u] \in [phase : Phases, key : Keys, value : BOOLEAN]
    BY <1>0 DEF Toggle
  <2> QED
    BY <2>1, <2>2
<1>5. /\ DOMAIN waiting = 1..Len(waiting) /\ Len(waiting) \in Nat
      /\ \A i \in DOMAIN waiting : waiting[i] \in Tasks
      /\ waiting # <<>> => Len(waiting) # 0
      /\ waiting = <<>> => DOMAIN waiting = {}
  BY <1>0
<1>6. current' # Undefined /\ MemoryIsLatest'
  <2>1. CASE waiting = <<>>
    <3>1. resumed = <<>> /\ current' = db
      BY <1>1, <1>2, <2>1
    <3> QED
      BY <1>0, <1>1, <1>3, <3>1 DEF MemoryIsLatest, Eventual
  <2>2. CASE waiting # <<>>
    <3>1. Len(waiting) \in DOMAIN waiting
      BY <1>5, <2>2
    <3>2. /\ current' = resumed[Len(waiting)].value
          /\ resumed[Len(waiting)].value = WithKey(db, waiting[Len(waiting)])
      BY <1>1, <2>2, <3>1
    <3>3. current' \in Settings
      BY <1>0, <1>5, <3>1, <3>2, WithKeyType
    <3>4. Len(txns') = Len(waiting) /\ txns' # <<>>
      BY <1>1, <1>5, <2>2, <3>1
    <3> QED
      BY <1>1, <1>3, <3>2, <3>3, <3>4 DEF MemoryIsLatest, Eventual
  <2> QED
    BY <2>1, <2>2
<1>7. QueueOwners'
  <2>1. \A i \in DOMAIN txns' : i \in DOMAIN waiting /\ txns'[i].task = waiting[i]
    BY <1>1
  <2>2. \A i \in DOMAIN waiting : task[waiting[i]].phase = "waiting"
    BY DEF PhantomInv, WaitersWait
  <2>3. \A i \in DOMAIN txns' : task'[txns'[i].task].phase = "putting"
    BY <1>4, <1>5, <2>1, <2>2
  <2>4. \A i, j \in DOMAIN txns' : i # j => txns'[i].task # txns'[j].task
    BY <2>1 DEF LatestRest, WaitersDiffer
  <2> QED
    BY <1>6, <2>3, <2>4 DEF QueueOwners
<1>8. MemoryLoaded' /\ WaitersDiffer'
  BY <1>1, <1>6 DEF MemoryLoaded, WaitersDiffer
<1> QED
  BY <1>6, <1>7, <1>8 DEF LatestStep, LatestRest

\* What remains of the queue keeps its owners when its head leaves.
LEMMA OwnersTail ==
  ASSUME txns \in Seq(Write), txns # <<>>, QueueOwners, txns' = Tail(txns), UNCHANGED current,
         \A u \in Tasks : u # Head(txns).task => task'[u] = task[u]
  PROVE  QueueOwners'
<1>1. \A i \in DOMAIN txns' : /\ i+1 \in DOMAIN txns /\ txns'[i] = txns[i+1]
                              /\ i \in Nat /\ i # 0
  BY QueueHead
<1>2. \A i \in DOMAIN txns' : txns[i+1].task \in Tasks /\ txns[i+1].task # Head(txns).task
  <2> SUFFICES ASSUME NEW i \in DOMAIN txns'
               PROVE  txns[i+1].task \in Tasks /\ txns[i+1].task # Head(txns).task
    OBVIOUS
  <2>1. txns[i+1] \in Write
    BY <1>1
  <2>2. txns[i+1].task # txns[1].task
    BY <1>1, QueueHead DEF QueueOwners
  <2> QED
    BY <2>1, <2>2, QueueHead DEF Write
<1>3. \A i \in DOMAIN txns' : task'[txns'[i].task] = task[txns[i+1].task]
  BY <1>1, <1>2
<1>4. \A i, j \in DOMAIN txns' : i # j => txns'[i].task # txns'[j].task
  <2> SUFFICES ASSUME NEW i \in DOMAIN txns', NEW j \in DOMAIN txns', i # j
               PROVE  txns'[i].task # txns'[j].task
    OBVIOUS
  <2>1. i+1 # j+1
    BY <1>1
  <2> QED
    BY <1>1, <2>1 DEF QueueOwners
<1> QED
  BY <1>1, <1>3, <1>4 DEF QueueOwners

LEMMA InitLatest == Init => LatestInv
<1> SUFFICES ASSUME Init PROVE LatestInv
  OBVIOUS
<1>1. /\ txns = <<>> /\ waiting = <<>> /\ current = Undefined /\ initial = "none"
      /\ initialStale = FALSE
  BY DEF Init
<1>2. MemoryLoaded /\ QueueOwners /\ WaitersDiffer
  BY <1>1 DEF MemoryLoaded, QueueOwners, WaitersDiffer
<1> QED
  BY <1>2, InitPhantom DEF LatestInv

\* Every step preserves the invariant, and leaves the memory up to date unless
\* a write fails in it.
LEMMA NextLatest ==
  LatestInv /\ [Next]_vars => LatestInv' /\ LatestStep
<1> SUFFICES ASSUME LatestInv, [Next]_vars PROVE LatestStep /\ PhantomInv'
  BY DEF LatestInv, LatestStep, LatestRest
<1>0. /\ PhantomInv /\ LatestRest /\ TypeOK /\ task \in [Tasks -> Toggle]
      /\ txns \in Seq(Write) /\ waiting \in Seq(Tasks)
  BY DEF LatestInv, LatestRest, PhantomInv, TypeOK
<1>a. PhantomInv'
  BY <1>0, NextPhantom
<1>b. \A i \in DOMAIN txns : txns[i].task \in Tasks
  <2>1. \A i \in DOMAIN txns : txns[i] \in Write
    BY <1>0
  <2> QED
    BY <2>1 DEF Write
<1>c. Undefined \notin Settings
  BY ConstantsAssumption DEF Settings
<1>1. ASSUME NEW t \in Tasks, NEW k \in Keys, TurnOff(t, k) PROVE LatestStep
  BY <1>0, <1>1, LatestSetKey DEF TurnOff
<1>2. ASSUME NEW t \in Tasks, task[t].phase \in {"idle", "working"},
             \A u \in Tasks : u # t => task'[u] = task[u],
             UNCHANGED <<dbVars, swVars>>
      PROVE  LatestStep
  <2>1. \A i \in DOMAIN txns : task'[txns[i].task] = task[txns[i].task]
    BY <1>0, <1>2, <1>b DEF LatestRest, QueueOwners
  <2> QED
    BY <1>0, <1>2, <2>1 DEF LatestStep, LatestRest, WaitersDiffer, MemoryLoaded, QueueOwners,
                            MemoryIsLatest, Eventual, dbVars, swVars
<1>3. ASSUME NEW t \in Tasks, NEW k \in Keys, TurnOn(t, k) PROVE LatestStep
  <2>1. /\ task[t].phase = "idle" /\ UNCHANGED <<dbVars, swVars>>
        /\ \A u \in Tasks : u # t => task'[u] = task[u]
    BY <1>0, <1>3 DEF TurnOn
  <2> QED
    BY <1>2, <2>1
<1>4. ASSUME NEW t \in Tasks, WorkDone(t) PROVE LatestStep
  <2>1. task[t].key \in Keys
    BY <1>0, ToggleType
  <2> QED
    BY <1>0, <1>4, <2>1, LatestSetKey DEF WorkDone
<1>5. ASSUME NEW t \in Tasks, WorkFails(t) PROVE LatestStep
  <2>1. task[t].phase = "working" /\ UNCHANGED <<dbVars, swVars>> /\ Move(t, "failed")
    BY <1>5 DEF WorkFails
  <2>2. \A u \in Tasks : u # t => task'[u] = task[u]
    BY <1>0, <2>1, MoveEffect
  <2> QED
    BY <1>2, <2>1, <2>2
<1>6. ASSUME Prewarm PROVE LatestStep
  <2>1. /\ UNCHANGED <<dbVars, current, initialStale, waiting, task>>
        /\ initial = "none" /\ initial' = "pending"
    BY <1>6 DEF Prewarm
  <2> QED
    BY <1>0, <2>1 DEF LatestStep, LatestRest, WaitersDiffer, MemoryLoaded, QueueOwners,
                      MemoryIsLatest, Eventual, dbVars
<1>7. ASSUME InitialResolves PROVE LatestStep
  BY <1>0, <1>7, LatestResolve
<1>8. ASSUME InitialRejects PROVE LatestStep
  <2>1. /\ initial = "pending" /\ initial' = "rejected" /\ waiting' = <<>>
        /\ UNCHANGED <<dbVars, current, initialStale>>
    BY <1>8 DEF InitialRejects
  <2>2. current = Undefined
    BY <1>0, <2>1 DEF LatestRest, MemoryLoaded
  <2>3. \A u \in Tasks : task[u].phase = "lost" => task'[u].phase = "lost"
    BY <1>8 DEF InitialRejects
  <2>4. QueueOwners'
    BY <1>0, <1>b, <2>1, <2>2, <2>3 DEF LatestRest, QueueOwners, dbVars
  <2> QED
    BY <1>0, <2>1, <2>2, <2>4 DEF LatestStep, LatestRest, WaitersDiffer, MemoryLoaded, MemoryIsLatest
<1>9. ASSUME PutSucceeds PROVE LatestStep
  <2> DEFINE t == Head(txns).task
  <2>1. /\ txns # <<>> /\ committing = Undefined /\ committing' = Head(txns).value
        /\ txns' = Tail(txns) /\ Move(t, "ok") /\ UNCHANGED <<db, swVars>>
    BY <1>9 DEF PutSucceeds
  <2>2. t \in Tasks /\ Head(txns).value # Undefined
    BY <1>0, <1>c, <2>1, QueueHead
  <2>3. \A u \in Tasks : u # t => task'[u] = task[u]
    BY <1>0, <2>1, <2>2, MoveEffect
  <2>4. QueueOwners'
    BY <1>0, <2>1, <2>3, OwnersTail DEF LatestRest, swVars
  <2>5. Eventual' = Eventual
    BY <1>0, <2>1, <2>2, QueueLast DEF Eventual
  <2> QED
    BY <1>0, <2>1, <2>4, <2>5 DEF LatestStep, LatestRest, WaitersDiffer, MemoryLoaded,
                                  MemoryIsLatest, swVars
<1>10. ASSUME PutFails PROVE LatestStep
  <2> DEFINE t == Head(txns).task
  <2>1. /\ txns # <<>> /\ task[t].phase = "putting"
        /\ txns' = Tail(txns) /\ Move(t, "failed") /\ UNCHANGED swVars
    BY <1>10 DEF PutFails
  <2>2. t \in Tasks
    BY <1>0, <2>1, QueueHead
  <2>3. task'[t].phase = "failed" /\ \A u \in Tasks : u # t => task'[u] = task[u]
    BY <1>0, <2>1, <2>2, MoveEffect
  <2>4. QueueOwners'
    BY <1>0, <2>1, <2>3, OwnersTail DEF LatestRest, swVars
  <2>5. WriteFails
    BY <2>1, <2>2, <2>3 DEF WriteFails
  <2> QED
    BY <1>0, <1>10, <2>1, <2>4, <2>5 DEF LatestStep, LatestRest, WaitersDiffer, MemoryLoaded, swVars
<1>11. ASSUME Kill PROVE LatestStep
  <2>1. /\ current' = Undefined /\ initial' = "none" /\ initialStale' = FALSE /\ waiting' = <<>>
        /\ UNCHANGED dbVars
    BY <1>11 DEF Kill
  <2>2. \A u \in Tasks : task[u].phase \in {"lost", "putting"} => task'[u].phase = "lost"
    <3>1. \A u \in Tasks : task[u] \in [phase : Phases, key : Keys, value : BOOLEAN]
      BY <1>0 DEF Toggle
    <3> QED
      BY <1>11, <3>1 DEF Kill
  <2>3. QueueOwners'
    BY <1>0, <1>b, <2>1, <2>2 DEF LatestRest, QueueOwners, dbVars
  <2> QED
    BY <2>1, <2>3 DEF LatestStep, LatestRest, WaitersDiffer, MemoryLoaded, MemoryIsLatest
<1>12. ASSUME Commit PROVE LatestStep
  <2>1. /\ committing # Undefined /\ db' = committing /\ committing' = Undefined
        /\ UNCHANGED <<txns, swVars, task>>
    BY <1>12 DEF Commit
  <2> QED
    BY <1>0, <2>1 DEF LatestStep, LatestRest, WaitersDiffer, MemoryLoaded, QueueOwners,
                      MemoryIsLatest, Eventual, swVars
<1>13. ASSUME CommitAborts PROVE LatestStep
  <2>1. /\ committing # Undefined /\ committing' = Undefined
        /\ UNCHANGED <<db, txns, swVars, task>>
    BY <1>13 DEF CommitAborts
  <2>2. MemoryIsLatest => MemoryIsLatest' \/ WriteFails
    BY <2>1 DEF MemoryIsLatest, Eventual, WriteFails, swVars
  <2> QED
    BY <1>0, <1>13, <2>1, <2>2 DEF LatestStep, LatestRest, WaitersDiffer, MemoryLoaded, QueueOwners, swVars
<1>14. ASSUME OrphanSettles PROVE LatestStep
  <2>1. /\ txns # <<>> /\ task[Head(txns).task].phase = "lost"
        /\ txns' = Tail(txns) \/ txns' = <<>>
        /\ UNCHANGED <<swVars, task>>
    BY <1>14 DEF OrphanSettles
  <2>2. 1 \in DOMAIN txns /\ Head(txns) = txns[1]
    BY <1>0, <2>1, QueueHead
  <2>3. current = Undefined
    BY <1>0, <2>1, <2>2 DEF LatestRest, QueueOwners
  <2>4. QueueOwners'
    <3>1. txns' = <<>> => QueueOwners'
      BY DEF QueueOwners
    <3> QED
      BY <1>0, <2>1, <3>1, OwnersTail DEF LatestRest, swVars
  <2> QED
    BY <1>0, <2>1, <2>3, <2>4 DEF LatestStep, LatestRest, WaitersDiffer, MemoryLoaded,
                                  MemoryIsLatest, swVars
<1>15. ASSUME UNCHANGED <<dbVars, swVars, task>> PROVE LatestStep
  BY <1>0, <1>15 DEF LatestStep, LatestRest, WaitersDiffer, MemoryLoaded, QueueOwners,
                     MemoryIsLatest, Eventual, dbVars, swVars
<1>16. ASSUME NEW a \in Apps, Mount(a) \/ Unmount(a) \/ PageReads(a) \/ PageReadFails(a) \/ ReadDelivered(a)
                              \/ BroadcastDelivered(a)
       PROVE  LatestStep
  BY <1>15, <1>16 DEF Mount, Unmount, PageReads, PageReadFails, ReadDelivered, BroadcastDelivered
<1>17. ASSUME UNCHANGED vars PROVE LatestStep
  BY <1>15, <1>17 DEF vars
<1>18. LatestStep
  BY <1>1, <1>3, <1>4, <1>5, <1>6, <1>7, <1>8, <1>9, <1>10, <1>11, <1>12, <1>13,
     <1>14, <1>16, <1>17 DEF Next
<1> QED
  BY <1>a, <1>18

\* The worker's memory never lags behind what the database is about to hold
\* (MemoryStaysLatest): only a failing write makes them differ, for any number
\* of toggles that wait for the first read, and through kills of the worker.
THEOREM MemoryFollowsWrites == Spec => MemoryStaysLatest
<1>1. Init => LatestInv
  BY InitLatest
<1>2. LatestInv /\ [Next]_vars => LatestInv'
  BY NextLatest
<1>3. LatestInv /\ [Next]_vars => [MemoryIsLatest => MemoryIsLatest' \/ WriteFails]_vars
  BY NextLatest DEF LatestStep
<1> QED
  BY <1>1, <1>2, <1>3, PTL DEF Spec, MemoryStaysLatest

(***************************************************************************)
(* The worker, its memory and its queue implement the register             *)
(***************************************************************************)
\* The abstract status of every phase.
LEMMA StatusOf ==
  /\ Status("idle") = "open" /\ Status("working") = "open" /\ Status("waiting") = "open"
  /\ Status("putting") = "applied"
  /\ Status("ok") = "ok" /\ Status("failed") = "failed" /\ Status("lost") = "lost"
BY DEF Status

\* A toggle as the register sees it, and all of them.
Seen(g) == [status |-> Status(g.phase), key |-> g.key, value |-> g.value]
SeenToggles == [t \in Tasks |-> Seen(task[t])]

\* The register sees a change of one toggle as a change of that toggle.
LEMMA SeeOne ==
  ASSUME task \in [Tasks -> Toggle], NEW t \in Tasks, NEW g, task' = [task EXCEPT ![t] = g]
  PROVE  SeenToggles' = [SeenToggles EXCEPT ![t] = Seen(g)]
<1>1. \A u \in Tasks : task'[u] = IF u = t THEN g ELSE task[u]
  OBVIOUS
<1> QED
  BY <1>1 DEF SeenToggles

LEMMA SeeMove ==
  ASSUME task \in [Tasks -> Toggle], NEW t \in Tasks, NEW p, Move(t, p)
  PROVE  SeenToggles' = [SeenToggles EXCEPT ![t].status = Status(p)]
<1>1. \A u \in Tasks : task[u] \in [phase : Phases, key : Keys, value : BOOLEAN]
  BY DEF Toggle
<1>2. \A u \in Tasks : task'[u] = IF u = t THEN [task[t] EXCEPT !.phase = p] ELSE task[u]
  BY DEF Move
<1>3. \A u \in Tasks : Seen(task'[u]) = IF u = t THEN [Seen(task[t]) EXCEPT !.status = Status(p)]
                                        ELSE Seen(task[u])
  BY <1>1, <1>2 DEF Seen
<1> QED
  BY <1>3 DEF SeenToggles

\* The queue ends with what the database will hold.
LEMMA EventualAfter ==
  ASSUME txns \in Seq(Write)
  PROVE  /\ Len(txns) \in Nat
         /\ DOMAIN txns = 1..Len(txns)
         /\ Eventual = After(Len(txns))
<1>1. Len(txns) \in Nat /\ (txns = <<>> <=> Len(txns) = 0)
  OBVIOUS
<1> QED
  BY <1>1 DEF Eventual, After

\* Steps that leave the database and the keys of its queue alone.
LEMMA StepsSame ==
  ASSUME QueueSteps, UNCHANGED <<db, committing, txns>>,
         \A i \in DOMAIN txns : task'[txns[i].task].key = task[txns[i].task].key
  PROVE  QueueSteps'
BY DEF QueueSteps, After

\* The head of the queue is committed next.
LEMMA StepsTail ==
  ASSUME QueueSteps, txns \in Seq(Write), txns # <<>>,
         committing' = Head(txns).value, committing' # Undefined, txns' = Tail(txns),
         \A i \in DOMAIN txns : task'[txns[i].task].key = task[txns[i].task].key
  PROVE  QueueSteps' /\ Eventual' = Eventual
<1>1. /\ Len(txns) \in Nat /\ Len(txns) # 0 /\ Len(txns') = Len(txns) - 1
      /\ DOMAIN txns = 1..Len(txns) /\ DOMAIN txns' = 1..Len(txns')
      /\ \A i \in DOMAIN txns' : txns'[i] = txns[i+1]
      /\ Head(txns) = txns[1]
  OBVIOUS
<1>2. \A i \in 0..Len(txns') : After(i)' = After(i+1)
  <2>1. After(0)' = After(1)
    BY <1>1 DEF After
  <2>2. \A i \in 1..Len(txns') : After(i)' = After(i+1)
    BY <1>1 DEF After
  <2> QED
    BY <1>1, <2>1, <2>2
<1>3. QueueSteps'
  <2> SUFFICES ASSUME NEW h \in 0..Len(txns'), NEW i \in 0..Len(txns'), NEW k \in Keys, h < i,
                      \A j \in DOMAIN txns' : h < j /\ j <= i => task'[txns'[j].task].key # k
               PROVE  After(i)'[k] = After(h)'[k]
    BY DEF QueueSteps
  <2>1. \A j \in DOMAIN txns : h+1 < j /\ j <= i+1 => task[txns[j].task].key # k
    <3> SUFFICES ASSUME NEW j \in DOMAIN txns, h+1 < j, j <= i+1 PROVE task[txns[j].task].key # k
      OBVIOUS
    <3>1. j-1 \in DOMAIN txns' /\ h < j-1 /\ j-1 <= i /\ txns'[j-1] = txns[j]
      BY <1>1
    <3> QED
      BY <3>1
  <2>2. h+1 \in 0..Len(txns) /\ i+1 \in 0..Len(txns) /\ h+1 < i+1
    BY <1>1
  <2>3. After(i+1)[k] = After(h+1)[k]
    BY <2>1, <2>2 DEF QueueSteps
  <2> QED
    BY <1>2, <2>3
<1>4. Eventual' = Eventual
  BY <1>1, QueueLast DEF Eventual
<1> QED
  BY <1>3, <1>4

\* A step of the register, in terms of the settings and toggles it sees.
LEMMA RegisterSteps ==
  /\ \A t \in Tasks, k \in Keys, v \in BOOLEAN :
       /\ SeenToggles[t].status = "open"
       /\ \/ /\ Eventual' = [Eventual EXCEPT ![k] = v]
             /\ SeenToggles' = [SeenToggles EXCEPT ![t] = [status |-> "applied", key |-> k, value |-> v]]
          \/ /\ Eventual' = Eventual
             /\ \E s \in {"open", "failed"} :
                  SeenToggles' = [SeenToggles EXCEPT ![t] = [status |-> s, key |-> k, value |-> v]]
       => Register!Next
  /\ \A t \in Tasks :
       /\ SeenToggles[t].status = "applied"
       /\ Eventual' = Eventual
       /\ SeenToggles' = [SeenToggles EXCEPT ![t].status = "ok"]
       => Register!Next
  /\ UNCHANGED <<Eventual, SeenToggles>> => UNCHANGED Register!vars
<1>1. ASSUME NEW t \in Tasks, NEW k \in Keys, NEW v \in BOOLEAN, SeenToggles[t].status = "open",
             Eventual' = [Eventual EXCEPT ![k] = v],
             SeenToggles' = [SeenToggles EXCEPT ![t] = [status |-> "applied", key |-> k, value |-> v]]
      PROVE  Register!Next
  <2>1. Register!Apply(t, k, v)
    BY <1>1 DEF Register!Apply, SeenToggles, Seen
  <2> QED
    BY <2>1 DEF Register!Next
<1>2. ASSUME NEW t \in Tasks, NEW k \in Keys, NEW v \in BOOLEAN, SeenToggles[t].status = "open",
             Eventual' = Eventual,
             SeenToggles' = [SeenToggles EXCEPT ![t] = [status |-> "open", key |-> k, value |-> v]]
      PROVE  Register!Next
  <2>1. Register!Arrive(t, k, v)
    BY <1>2 DEF Register!Arrive, SeenToggles, Seen
  <2> QED
    BY <2>1 DEF Register!Next
<1>3. ASSUME NEW t \in Tasks, NEW k \in Keys, NEW v \in BOOLEAN, SeenToggles[t].status = "open",
             Eventual' = Eventual,
             SeenToggles' = [SeenToggles EXCEPT ![t] = [status |-> "failed", key |-> k, value |-> v]]
      PROVE  Register!Next
  <2>1. Register!Refuse(t, k, v)
    BY <1>3 DEF Register!Refuse, SeenToggles, Seen
  <2> QED
    BY <2>1 DEF Register!Next
<1>4. ASSUME NEW t \in Tasks, SeenToggles[t].status = "applied", Eventual' = Eventual,
             SeenToggles' = [SeenToggles EXCEPT ![t].status = "ok"]
      PROVE  Register!Next
  <2>1. Register!Confirm(t)
    BY <1>4 DEF Register!Confirm, SeenToggles, Seen
  <2> QED
    BY <2>1 DEF Register!Next
<1>5. UNCHANGED <<Eventual, SeenToggles>> => UNCHANGED Register!vars
  BY DEF Register!vars, SeenToggles, Seen
<1> QED
  BY <1>1, <1>2, <1>3, <1>4, <1>5

\* What a step has to show for the refinement.
RegisterStep == WaitersListed' /\ QueueSteps' /\ [Register!Next]_(Register!vars)

\* setKey is an application to the register, an arrival or a refusal.
LEMMA RegisterSetKey ==
  ASSUME RegisterInv,
         NEW t \in Tasks, NEW k \in Keys, NEW v \in BOOLEAN,
         task[t].phase \in {"idle", "working"}, SetKey(t, k, v),
         UNCHANGED <<db, committing>>
  PROVE  RegisterStep
<1> DEFINE g(p) == [phase |-> p, key |-> k, value |-> v]
<1>0. /\ TypeOK /\ txns \in Seq(Write) /\ task \in [Tasks -> Toggle] /\ waiting \in Seq(Tasks)
      /\ QueueOwners /\ QueueSteps /\ WaitersListed /\ MemoryIsLatest
  BY DEF RegisterInv, LatestInv, PhantomInv, TypeOK
<1>1. \A i \in DOMAIN txns : txns[i].task \in Tasks /\ txns[i].task # t
  <2>1. \A i \in DOMAIN txns : txns[i] \in Write
    BY <1>0
  <2>2. \A i \in DOMAIN txns : txns[i].task # t
    BY <1>0 DEF QueueOwners
  <2> QED
    BY <2>1, <2>2 DEF Write
<1>2. SeenToggles[t].status = "open"
  BY StatusOf DEF SeenToggles, Seen
<1>3. \A p \in {"putting", "waiting", "failed"} : task' = [task EXCEPT ![t] = g(p)] =>
        /\ SeenToggles' = [SeenToggles EXCEPT ![t] = [status |-> Status(p), key |-> k, value |-> v]]
        /\ task'[t] = g(p)
        /\ \A u \in Tasks : u # t => task'[u] = task[u]
  <2> SUFFICES ASSUME NEW p \in {"putting", "waiting", "failed"}, task' = [task EXCEPT ![t] = g(p)]
               PROVE  /\ SeenToggles' = [SeenToggles EXCEPT ![t] = [status |-> Status(p), key |-> k, value |-> v]]
                      /\ task'[t] = g(p)
                      /\ \A u \in Tasks : u # t => task'[u] = task[u]
    OBVIOUS
  <2>1. Seen(g(p)) = [status |-> Status(p), key |-> k, value |-> v]
    BY DEF Seen
  <2>2. SeenToggles' = [SeenToggles EXCEPT ![t] = Seen(g(p))]
    BY <1>0, SeeOne
  <2> QED
    BY <1>0, <2>1, <2>2
<1>4. CASE current # Undefined
  <2>1. /\ current' = [current EXCEPT ![k] = v]
        /\ txns' = Append(txns, [task |-> t, value |-> current'])
        /\ task' = [task EXCEPT ![t] = g("putting")]
        /\ UNCHANGED waiting
    BY <1>4 DEF SetKey
  <2>2. current = Eventual /\ current \in Settings
    BY <1>0, <1>4 DEF MemoryIsLatest, TypeOK
  <2>a. PICK m \in Nat : m = Len(txns)
    BY <1>0
  <2> DEFINE n == m + 1
  <2>3. /\ DOMAIN txns' = 1..n /\ DOMAIN txns = 1..m /\ Len(txns) = m /\ Len(txns') = n
        /\ txns'[n] = [task |-> t, value |-> current']
        /\ \A i \in DOMAIN txns : txns'[i] = txns[i]
    BY <1>0, <2>1, <2>a
  <2>4. Eventual' = current'
    <3>1. txns' # <<>>
      BY <2>3
    <3> QED
      BY <2>3, <3>1 DEF Eventual
  <2>5. Register!Next
    <3>1. Eventual' = [Eventual EXCEPT ![k] = v]
      BY <2>1, <2>2, <2>4
    <3> QED
      BY <1>2, <1>3, <2>1, <3>1, StatusOf, RegisterSteps
  <2>6. /\ \A i \in 0..m : After(i)' = After(i)
        /\ After(n)' = current'
        /\ After(m) = current
    <3>1. Eventual = IF m = 0 THEN After(0) ELSE txns[m].value
      BY <1>0, <2>3, EventualAfter DEF After
    <3>2. After(m) = current
      BY <2>2, <3>1 DEF After
    <3>3. \A i \in 0..m : After(i)' = After(i)
      BY <2>3 DEF After
    <3>4. After(n)' = current'
      BY <2>3 DEF After
    <3> QED
      BY <3>2, <3>3, <3>4
  <2>7. QueueSteps'
    <3> SUFFICES ASSUME NEW h \in 0..n, NEW i \in 0..n, NEW j \in Keys, h < i,
                        \A e \in DOMAIN txns' : h < e /\ e <= i => task'[txns'[e].task].key # j
                 PROVE  After(i)'[j] = After(h)'[j]
      BY <2>3 DEF QueueSteps
    <3>1. \A e \in DOMAIN txns : h < e /\ e <= i => task[txns[e].task].key # j
      <4>1. \A e \in DOMAIN txns : e \in DOMAIN txns' /\ task'[txns'[e].task] = task[txns[e].task]
        BY <1>1, <1>3, <2>1, <2>3
      <4> QED
        BY <4>1
    <3>2. CASE i # n
      <4>1. i \in 0..m /\ h \in 0..m
        BY <2>3, <3>2
      <4> QED
        BY <1>0, <2>3, <2>6, <3>1, <4>1 DEF QueueSteps
    <3>3. CASE i = n
      <4>1. n \in DOMAIN txns' /\ task'[txns'[n].task].key = k /\ h < n /\ h \in 0..m
        BY <1>3, <2>1, <2>3, <3>3
      <4>2. j # k
        BY <3>3, <4>1, <2>3
      <4>3. current'[j] = current[j]
        BY <2>1, <2>2, <4>2 DEF Settings
      <4>4. current[j] = After(h)[j]
        <5>1. CASE h = m
          BY <2>6, <5>1
        <5>2. CASE h # m
          <6>1. h < m /\ m \in 0..m
            BY <2>3, <4>1, <5>2
          <6>2. \A e \in DOMAIN txns : h < e /\ e <= m => task[txns[e].task].key # j
            BY <2>3, <3>1, <3>3
          <6> QED
            BY <1>0, <2>3, <2>6, <4>1, <6>1, <6>2 DEF QueueSteps
        <5> QED
          BY <5>1, <5>2
      <4> QED
        BY <2>6, <3>3, <4>1, <4>3, <4>4
    <3> QED
      BY <3>2, <3>3
  <2>8. WaitersListed'
    BY <1>0, <1>3, <2>1 DEF WaitersListed
  <2> QED
    BY <2>5, <2>7, <2>8 DEF RegisterStep
<1>5. CASE current = Undefined /\ initial \in {"none", "pending"}
  <2>1. /\ task' = [task EXCEPT ![t] = g("waiting")]
        /\ waiting' = Append(waiting, t)
        /\ UNCHANGED txns
    BY <1>5 DEF SetKey
  <2>2. QueueSteps'
    BY <1>0, <1>1, <1>3, <2>1, StepsSame
  <2>3. WaitersListed'
    <3> SUFFICES ASSUME NEW u \in Tasks, task'[u].phase = "waiting"
                 PROVE  \E i \in DOMAIN waiting' : waiting'[i] = u
      BY DEF WaitersListed
    <3>1. CASE u = t
      <4>1. Len(waiting) + 1 \in DOMAIN waiting' /\ waiting'[Len(waiting) + 1] = t
        BY <1>0, <2>1
      <4> QED
        BY <3>1, <4>1
    <3>2. CASE u # t
      <4>1. PICK i \in DOMAIN waiting : waiting[i] = u
        BY <1>0, <1>3, <2>1, <3>2 DEF WaitersListed
      <4>2. i \in DOMAIN waiting' /\ waiting'[i] = u
        BY <1>0, <2>1, <4>1
      <4> QED
        BY <4>2
    <3> QED
      BY <3>1, <3>2
  <2>4. Eventual' = Eventual
    BY <2>1 DEF Eventual
  <2>5. Register!Next
    BY <1>2, <1>3, <2>1, <2>4, StatusOf, RegisterSteps
  <2> QED
    BY <2>2, <2>3, <2>5 DEF RegisterStep
<1>6. CASE current = Undefined /\ initial \notin {"none", "pending"}
  <2>1. task' = [task EXCEPT ![t] = g("failed")] /\ UNCHANGED <<swVars, txns>>
    BY <1>6 DEF SetKey
  <2>2. QueueSteps'
    BY <1>0, <1>1, <1>3, <2>1, StepsSame
  <2>3. WaitersListed'
    BY <1>0, <1>3, <2>1 DEF WaitersListed, swVars
  <2>4. Eventual' = Eventual
    BY <2>1 DEF Eventual
  <2>5. Register!Next
    BY <1>2, <1>3, <2>1, <2>4, StatusOf, RegisterSteps
  <2> QED
    BY <2>2, <2>3, <2>5 DEF RegisterStep
<1> QED
  BY <1>4, <1>5, <1>6

\* Toggles that fail or are lost together.
LEMMA RegisterAll ==
  ASSUME NEW T \in SUBSET Tasks, \A t \in T : SeenToggles[t].status = "open",
         Eventual' = Eventual,
         \/ SeenToggles' = [t \in Tasks |-> IF t \in T THEN [SeenToggles[t] EXCEPT !.status = "failed"]
                                            ELSE SeenToggles[t]]
         \/ SeenToggles' = [t \in Tasks |-> IF t \in T \/ SeenToggles[t].status = "applied"
                                            THEN [SeenToggles[t] EXCEPT !.status = "lost"]
                                            ELSE SeenToggles[t]]
  PROVE  Register!Next
<1>1. Register!RefuseAll(T) \/ Register!Crash(T)
  BY DEF Register!RefuseAll, Register!Crash, SeenToggles, Seen
<1> QED
  BY <1>1 DEF Register!Next

\* Changing the phase of some toggles, as the register sees it.
LEMMA SeeSome ==
  ASSUME task \in [Tasks -> Toggle], NEW S \in SUBSET Tasks, NEW p,
         task' = [t \in Tasks |-> IF t \in S THEN [task[t] EXCEPT !.phase = p] ELSE task[t]]
  PROVE  /\ SeenToggles' = [t \in Tasks |-> IF t \in S THEN [SeenToggles[t] EXCEPT !.status = Status(p)]
                                            ELSE SeenToggles[t]]
         /\ \A t \in Tasks : task'[t].key = task[t].key
         /\ \A t \in Tasks : task'[t].phase = IF t \in S THEN p ELSE task[t].phase
<1>1. \A u \in Tasks : task[u] \in [phase : Phases, key : Keys, value : BOOLEAN]
  BY DEF Toggle
<1>2. \A u \in Tasks : Seen(task'[u]) = IF u \in S THEN [Seen(task[u]) EXCEPT !.status = Status(p)]
                                        ELSE Seen(task[u])
  BY <1>1 DEF Seen
<1> QED
  BY <1>1, <1>2 DEF SeenToggles

\* The only toggle that waited, if any, is applied when the first read completes.
LEMMA RegisterResolve ==
  ASSUME RegisterInv, InitialResolves
  PROVE  RegisterStep
<1> DEFINE resumed == [i \in DOMAIN waiting |->
                         [task |-> waiting[i], value |-> WithKey(db, waiting[i])]]
<1>a. PICK S \in SUBSET Tasks : S = {t \in Tasks : task[t].phase = "waiting"}
  OBVIOUS
<1>0. /\ task \in [Tasks -> Toggle] /\ db \in Settings /\ waiting \in Seq(Tasks)
      /\ WaitersListed /\ WaitersWait /\ Len(waiting) <= 1
  BY DEF RegisterInv, LatestInv, PhantomInv, TypeOK, AckInv
<1>1. /\ txns = <<>> /\ committing = Undefined
      /\ txns' = resumed /\ waiting' = <<>>
      /\ UNCHANGED <<db, committing>>
      /\ task' = [t \in Tasks |-> IF t \in S THEN [task[t] EXCEPT !.phase = "putting"] ELSE task[t]]
  BY <1>a DEF InitialResolves
<1>2. /\ \A t \in Tasks : task'[t].phase = IF t \in S THEN "putting" ELSE task[t].phase
      /\ \A t \in Tasks : task'[t].key = task[t].key
      /\ SeenToggles' = [t \in Tasks |-> IF t \in S THEN [SeenToggles[t] EXCEPT !.status = "applied"]
                                         ELSE SeenToggles[t]]
  <2>0. /\ task \in [Tasks -> Toggle]
        /\ task' = [t \in Tasks |-> IF t \in S THEN [task[t] EXCEPT !.phase = "putting"] ELSE task[t]]
    BY <1>0, <1>1
  <2>1. /\ SeenToggles' = [t \in Tasks |-> IF t \in S THEN [SeenToggles[t] EXCEPT !.status = Status("putting")]
                                           ELSE SeenToggles[t]]
        /\ \A t \in Tasks : task'[t].key = task[t].key
        /\ \A t \in Tasks : task'[t].phase = IF t \in S THEN "putting" ELSE task[t].phase
    BY <2>0, SeeSome
  <2> QED
    BY <2>1, StatusOf
<1>3. WaitersListed'
  BY <1>2, <1>a DEF WaitersListed
<1>4. Eventual = db
  BY <1>1 DEF Eventual
<1>5. CASE waiting = <<>>
  <2>1. S = {} /\ resumed = <<>>
    BY <1>0, <1>5, <1>a DEF WaitersListed
  <2>2. Eventual' = Eventual
    BY <1>1, <1>4, <2>1 DEF Eventual
  <2>3. SeenToggles' = SeenToggles
    BY <1>2, <2>1 DEF SeenToggles
  <2>4. QueueSteps'
    BY <1>1, <2>1 DEF QueueSteps
  <2> QED
    BY <1>3, <2>2, <2>3, <2>4, RegisterSteps DEF RegisterStep
<1>6. CASE waiting # <<>>
  <2>a. PICK t : t = waiting[1]
    OBVIOUS
  <2>b. PICK s : s = WithKey(db, t)
    OBVIOUS
  <2>1. /\ Len(waiting) = 1 /\ DOMAIN waiting = {1} /\ t \in Tasks
        /\ task[t].phase = "waiting"
    <3>1. Len(waiting) \in Nat /\ DOMAIN waiting = 1..Len(waiting) /\ Len(waiting) # 0
      BY <1>0, <1>6
    <3>2. Len(waiting) = 1 /\ DOMAIN waiting = {1}
      BY <1>0, <3>1
    <3>3. \A i \in DOMAIN waiting : waiting[i] \in Tasks /\ task[waiting[i]].phase = "waiting"
      BY <1>0 DEF WaitersWait
    <3> QED
      BY <2>a, <3>2, <3>3
  <2>2. S = {t}
    BY <1>0, <1>a, <2>a, <2>1 DEF WaitersListed
  <2>3. DOMAIN txns' = {1} /\ txns'[1] = [task |-> t, value |-> s] /\ Len(txns') = 1 /\ txns' # <<>>
    <3>1. DOMAIN txns' = {1} /\ txns'[1] = [task |-> t, value |-> s]
      BY <1>1, <2>1, <2>a, <2>b
    <3>2. txns' = <<[task |-> t, value |-> s]>>
      BY <1>1, <2>1, <3>1
    <3> QED
      BY <3>1, <3>2
  <2>4. task[t].key \in Keys /\ task[t].value \in BOOLEAN
    BY <1>0, <2>1, ToggleType
  <2>5. s = [db EXCEPT ![task[t].key] = task[t].value]
    BY <2>b DEF WithKey
  <2>6. Eventual' = [Eventual EXCEPT ![task[t].key] = task[t].value]
    BY <1>4, <2>3, <2>5 DEF Eventual
  <2>7. /\ SeenToggles' = [SeenToggles EXCEPT ![t] = [status |-> "applied", key |-> task[t].key,
                                                      value |-> task[t].value]]
        /\ SeenToggles[t].status = "open"
    BY <1>2, <2>1, <2>2, StatusOf DEF SeenToggles, Seen
  <2>8. QueueSteps'
    <3> SUFFICES ASSUME NEW h \in 0..1, NEW i \in 0..1, NEW k \in Keys, h < i,
                        \A j \in DOMAIN txns' : h < j /\ j <= i => task'[txns'[j].task].key # k
                 PROVE  After(i)'[k] = After(h)'[k]
      BY <2>3 DEF QueueSteps
    <3>1. h = 0 /\ i = 1
      OBVIOUS
    <3>2. k # task[t].key
      BY <1>2, <2>1, <2>3, <3>1
    <3>3. s[k] = db[k]
      BY <1>0, <2>5, <3>2 DEF Settings
    <3> QED
      BY <1>1, <2>3, <3>1, <3>3 DEF After
  <2>9. Register!Next
    BY <2>1, <2>4, <2>6, <2>7, RegisterSteps
  <2> QED
    BY <1>3, <2>8, <2>9 DEF RegisterStep
<1> QED
  BY <1>5, <1>6

\* The writes of a dead worker reach the disk one by one, or all are undone.
LEMMA RegisterOrphans ==
  ASSUME RegisterInv, OrphanSettles
  PROVE  RegisterStep
<1>0. /\ txns \in Seq(Write) /\ db \in Settings /\ QueueOwners /\ QueueSteps /\ WaitersListed
  BY DEF RegisterInv, LatestInv, PhantomInv, TypeOK
<1>1. /\ txns # <<>> /\ committing = Undefined /\ task[Head(txns).task].phase = "lost"
      /\ UNCHANGED <<db, swVars, task>>
  BY DEF OrphanSettles
<1>2. Head(txns).value # Undefined /\ 1 \in DOMAIN txns /\ Head(txns) = txns[1]
  BY <1>0, <1>1, QueueHead, ConstantsAssumption DEF Settings
<1>3. WaitersListed' /\ SeenToggles' = SeenToggles
  BY <1>0, <1>1 DEF WaitersListed, SeenToggles, Seen, swVars
<1>4. CASE committing' = Head(txns).value /\ txns' = Tail(txns)
  <2>1. QueueSteps' /\ Eventual' = Eventual
    BY <1>0, <1>1, <1>2, <1>4, StepsTail
  <2> QED
    BY <1>3, <2>1, RegisterSteps DEF RegisterStep
<1>5. CASE committing' = Undefined /\ txns' = <<>>
  <2>1. QueueSteps'
    BY <1>5 DEF QueueSteps
  <2>2. Eventual' = db /\ After(0) = db
    BY <1>1, <1>5 DEF Eventual, After
  <2> DEFINE T == {t \in Tasks : task[t].phase = "lost"}
  <2>3. ASSUME NEW k \in Keys, Eventual'[k] # Eventual[k]
        PROVE  \E t \in T : task[t].key = k
    <3>1. PICK n \in Nat : n = Len(txns)
      BY <1>0
    <3>2. n # 0 /\ DOMAIN txns = 1..n
      BY <1>0, <1>1, <3>1
    <3>3. Eventual = After(n)
      BY <1>0, <3>1, <3>2, EventualAfter DEF After
    <3>4. PICK j \in DOMAIN txns : task[txns[j].task].key = k
      <4> SUFFICES ASSUME \A j \in DOMAIN txns : task[txns[j].task].key # k PROVE FALSE
        OBVIOUS
      <4>1. 0 \in 0..Len(txns) /\ n \in 0..Len(txns) /\ 0 < n
        BY <3>1, <3>2
      <4>2. After(n)[k] = After(0)[k]
        BY <1>0, <4>1 DEF QueueSteps
      <4> QED
        BY <2>2, <2>3, <3>3, <4>2
    <3>5. txns[j].task \in Tasks
      <4>1. txns[j] \in Write
        BY <1>0
      <4> QED
        BY <4>1 DEF Write
    <3>6. current = Undefined
      BY <1>0, <1>1, <1>2 DEF QueueOwners
    <3>7. task[txns[j].task].phase = "lost"
      BY <1>0, <3>6 DEF QueueOwners
    <3> QED
      BY <3>4, <3>5, <3>7
  <2>4. Register!Undo(T)
    <3>1. \A t \in T : SeenToggles[t].status = "lost"
      BY StatusOf DEF SeenToggles, Seen
    <3>2. \A k \in Keys : Eventual'[k] # Eventual[k] => \E t \in T : SeenToggles[t].key = k
      BY <2>3 DEF SeenToggles, Seen
    <3>3. Eventual' \in [Keys -> BOOLEAN]
      BY <1>0, <2>2 DEF Settings
    <3> QED
      BY <1>3, <3>1, <3>2, <3>3 DEF Register!Undo, SeenToggles, Seen
  <2>5. Register!Next
    BY <2>4 DEF Register!Next
  <2> QED
    BY <1>3, <2>1, <2>5 DEF RegisterStep
<1> QED
  BY <1>1, <1>4, <1>5 DEF OrphanSettles

\* Initially the register holds what is on disk and no toggle has arrived.
LEMMA InitRegister == Init => RegisterInv /\ Register!Init
<1> SUFFICES ASSUME Init PROVE RegisterInv /\ Register!Init
  OBVIOUS
<1>1. /\ txns = <<>> /\ committing = Undefined /\ current = Undefined
      /\ \A t \in Tasks : task[t].phase = "idle"
  BY DEF Init
<1>2. QueueSteps /\ WaitersListed /\ MemoryIsLatest
  BY <1>1 DEF QueueSteps, WaitersListed, MemoryIsLatest
<1>3. RegisterInv
  BY <1>2, InitAck, InitLatest DEF RegisterInv
<1>4. Eventual \in Settings
  BY <1>1, InitType DEF TypeOK, Eventual
<1>5. \A t \in Tasks : Seen(task[t]) \in [status : {"open"}, key : Keys, value : BOOLEAN]
  BY <1>1, InitType, ToggleType, StatusOf DEF TypeOK, Seen
<1>6. Register!Init
  BY <1>4, <1>5 DEF Register!Init, Settings, Seen
<1> QED
  BY <1>3, <1>6

\* Every step preserves the invariant, and is a step of the register or none.
LEMMA NextRegister ==
  ASSUME MaxCold = 1, "putError" \notin Faults, "commitAbort" \notin Faults
  PROVE  RegisterInv /\ [Next]_vars => RegisterInv' /\ [Register!Next]_(Register!vars)
<1> SUFFICES ASSUME RegisterInv, [Next]_vars
             PROVE  RegisterInv' /\ [Register!Next]_(Register!vars)
  OBVIOUS
<1>0. /\ TypeOK /\ task \in [Tasks -> Toggle] /\ txns \in Seq(Write)
      /\ QueueOwners /\ QueueSteps /\ WaitersListed
  BY DEF RegisterInv, LatestInv, PhantomInv, TypeOK
<1>a. AckInv' /\ LatestInv' /\ MemoryIsLatest'
  <2>1. AckInv' /\ LatestInv' /\ LatestStep
    BY NextAck, NextLatest DEF RegisterInv
  <2>2. ~PutFails /\ ~CommitAborts
    BY DEF PutFails, CommitAborts
  <2> QED
    BY <2>1, <2>2 DEF LatestStep, RegisterInv
<1>b. \A i \in DOMAIN txns : txns[i].task \in Tasks
  <2>1. \A i \in DOMAIN txns : txns[i] \in Write
    BY <1>0
  <2> QED
    BY <2>1 DEF Write
<1>c. \A t \in Tasks : task[t].key \in Keys /\ task[t].value \in BOOLEAN
  BY <1>0, ToggleType
<1>1. ASSUME NEW t \in Tasks, NEW k \in Keys, TurnOff(t, k) PROVE RegisterStep
  BY <1>1, RegisterSetKey DEF TurnOff
<1>2. ASSUME NEW t \in Tasks, NEW k \in Keys, NEW v \in BOOLEAN, NEW p \in {"working", "failed"},
             task[t].phase \in {"idle", "working"}, UNCHANGED <<dbVars, swVars>>,
             task' = [task EXCEPT ![t] = [phase |-> p, key |-> k, value |-> v]]
      PROVE  RegisterStep
  <2>1. /\ \A u \in Tasks : u # t => task'[u] = task[u]
        /\ task'[t].phase = p
    BY <1>0, <1>2
  <2>2. \A i \in DOMAIN txns : txns[i].task # t
    BY <1>0, <1>2 DEF QueueOwners
  <2>3. QueueSteps'
    BY <1>0, <1>2, <1>b, <2>1, <2>2, StepsSame DEF dbVars
  <2>4. WaitersListed'
    BY <1>0, <1>2, <2>1 DEF WaitersListed, swVars
  <2>5. Eventual' = Eventual
    BY <1>2 DEF Eventual, dbVars
  <2>6. SeenToggles[t].status = "open"
    BY <1>2, StatusOf DEF SeenToggles, Seen
  <2>7. SeenToggles' = [SeenToggles EXCEPT ![t] = [status |-> Status(p), key |-> k, value |-> v]]
    <3>1. Seen([phase |-> p, key |-> k, value |-> v]) = [status |-> Status(p), key |-> k, value |-> v]
      BY DEF Seen
    <3>2. SeenToggles' = [SeenToggles EXCEPT ![t] = Seen([phase |-> p, key |-> k, value |-> v])]
      BY <1>0, <1>2, SeeOne
    <3> QED
      BY <3>1, <3>2
  <2>8. Status(p) \in {"open", "failed"}
    BY StatusOf
  <2>9. Register!Next
    BY <2>5, <2>6, <2>7, <2>8, RegisterSteps
  <2> QED
    BY <2>3, <2>4, <2>9 DEF RegisterStep
<1>3. ASSUME NEW t \in Tasks, NEW k \in Keys, TurnOn(t, k) PROVE RegisterStep
  BY <1>2, <1>3 DEF TurnOn
<1>4. ASSUME NEW t \in Tasks, WorkDone(t) PROVE RegisterStep
  BY <1>4, <1>c, RegisterSetKey DEF WorkDone
<1>5. ASSUME NEW t \in Tasks, WorkFails(t) PROVE RegisterStep
  <2>1. task[t] = [phase |-> task[t].phase, key |-> task[t].key, value |-> task[t].value]
    BY <1>0 DEF Toggle
  <2>2. task' = [task EXCEPT ![t] = [phase |-> "failed", key |-> task[t].key, value |-> task[t].value]]
    <3>1. [task[t] EXCEPT !.phase = "failed"]
            = [phase |-> "failed", key |-> task[t].key, value |-> task[t].value]
      BY <2>1
    <3> QED
      BY <1>5, <3>1 DEF WorkFails, Move
  <2> QED
    BY <1>2, <1>5, <1>c, <2>2 DEF WorkFails
<1>6. ASSUME UNCHANGED <<dbVars, task, waiting>> PROVE RegisterStep
  <2>1. QueueSteps' /\ WaitersListed'
    BY <1>0, <1>6, StepsSame DEF dbVars, WaitersListed
  <2>2. UNCHANGED <<Eventual, SeenToggles>>
    BY <1>6 DEF Eventual, SeenToggles, Seen, dbVars
  <2> QED
    BY <2>1, <2>2, RegisterSteps DEF RegisterStep
<1>7. ASSUME Prewarm PROVE RegisterStep
  BY <1>6, <1>7 DEF Prewarm
<1>8. ASSUME InitialResolves PROVE RegisterStep
  BY <1>8, RegisterResolve
<1>9. ASSUME InitialRejects PROVE RegisterStep
  <2>a. PICK S \in SUBSET Tasks : S = {t \in Tasks : task[t].phase = "waiting"}
    OBVIOUS
  <2>1. /\ UNCHANGED dbVars
        /\ task' = [t \in Tasks |-> IF t \in S THEN [task[t] EXCEPT !.phase = "failed"] ELSE task[t]]
    BY <1>9, <2>a DEF InitialRejects
  <2>2. /\ SeenToggles' = [t \in Tasks |-> IF t \in S THEN [SeenToggles[t] EXCEPT !.status = Status("failed")]
                                           ELSE SeenToggles[t]]
        /\ \A t \in Tasks : task'[t].key = task[t].key
        /\ \A t \in Tasks : task'[t].phase = IF t \in S THEN "failed" ELSE task[t].phase
    BY <1>0, <2>1, SeeSome
  <2>3. QueueSteps' /\ Eventual' = Eventual
    BY <1>0, <1>b, <2>1, <2>2, StepsSame DEF dbVars, Eventual
  <2>4. WaitersListed'
    BY <2>a, <2>2 DEF WaitersListed
  <2>5. \A t \in S : SeenToggles[t].status = "open"
    BY <2>a, StatusOf DEF SeenToggles, Seen
  <2>6. Register!Next
    BY <2>2, <2>3, <2>5, StatusOf, RegisterAll
  <2> QED
    BY <2>3, <2>4, <2>6 DEF RegisterStep
<1>10. ASSUME PutSucceeds PROVE RegisterStep
  <2> DEFINE t == Head(txns).task
  <2>1. /\ txns # <<>> /\ committing = Undefined /\ committing' = Head(txns).value
        /\ txns' = Tail(txns) /\ Move(t, "ok") /\ task[t].phase = "putting"
        /\ UNCHANGED <<db, swVars>>
    BY <1>10 DEF PutSucceeds
  <2>2. t \in Tasks /\ Head(txns).value # Undefined
    BY <1>0, <2>1, QueueHead, ConstantsAssumption DEF Settings
  <2>3. /\ \A u \in Tasks : task'[u].key = task[u].key
        /\ \A u \in Tasks : u # t => task'[u] = task[u]
        /\ task'[t].phase = "ok"
    BY <1>0, <2>1, <2>2, MoveEffect
  <2>4. QueueSteps' /\ Eventual' = Eventual
    BY <1>0, <1>b, <2>1, <2>2, <2>3, StepsTail
  <2>5. WaitersListed'
    BY <1>0, <2>1, <2>3 DEF WaitersListed, swVars
  <2>6. SeenToggles' = [SeenToggles EXCEPT ![t].status = "ok"]
    BY <1>0, <2>1, <2>2, SeeMove, StatusOf
  <2>7. SeenToggles[t].status = "applied"
    BY <2>1, <2>2, StatusOf DEF SeenToggles, Seen
  <2>8. Register!Next
    BY <2>2, <2>4, <2>6, <2>7, RegisterSteps
  <2> QED
    BY <2>4, <2>5, <2>8 DEF RegisterStep
<1>11. ASSUME PutFails \/ CommitAborts PROVE RegisterStep
  BY <1>11 DEF PutFails, CommitAborts
<1>12. ASSUME Kill PROVE RegisterStep
  <2>a. PICK S \in SUBSET Tasks :
             S = {t \in Tasks : task[t].phase \in {"working", "waiting", "putting"}}
    OBVIOUS
  <2>b. PICK T \in SUBSET Tasks : T = {t \in Tasks : task[t].phase \in {"working", "waiting"}}
    OBVIOUS
  <2>1. /\ UNCHANGED dbVars
        /\ task' = [t \in Tasks |-> IF t \in S THEN [task[t] EXCEPT !.phase = "lost"] ELSE task[t]]
    BY <1>12, <2>a DEF Kill
  <2>2. /\ SeenToggles' = [t \in Tasks |-> IF t \in S THEN [SeenToggles[t] EXCEPT !.status = Status("lost")]
                                           ELSE SeenToggles[t]]
        /\ \A t \in Tasks : task'[t].key = task[t].key
        /\ \A t \in Tasks : task'[t].phase = IF t \in S THEN "lost" ELSE task[t].phase
    BY <1>0, <2>1, SeeSome
  <2>3. QueueSteps' /\ Eventual' = Eventual
    BY <1>0, <1>b, <2>1, <2>2, StepsSame DEF dbVars, Eventual
  <2>4. WaitersListed'
    BY <2>a, <2>2 DEF WaitersListed
  <2>5. \A t \in T : SeenToggles[t].status = "open"
    BY <2>b, StatusOf DEF SeenToggles, Seen
  <2>6. \A t \in Tasks : t \in S <=> t \in T \/ SeenToggles[t].status = "applied"
    <3>1. \A t \in Tasks : SeenToggles[t].status = "applied" <=> task[t].phase = "putting"
      BY <1>0, ToggleType, StatusOf DEF SeenToggles, Seen, Phases
    <3> QED
      BY <2>a, <2>b, <3>1
  <2>7. SeenToggles' = [t \in Tasks |-> IF t \in T \/ SeenToggles[t].status = "applied"
                                        THEN [SeenToggles[t] EXCEPT !.status = "lost"]
                                        ELSE SeenToggles[t]]
    BY <2>2, <2>6, StatusOf
  <2>8. Register!Next
    BY <2>3, <2>5, <2>7, RegisterAll
  <2> QED
    BY <2>3, <2>4, <2>8 DEF RegisterStep
<1>13. ASSUME Commit PROVE RegisterStep
  <2>1. /\ committing # Undefined /\ db' = committing /\ committing' = Undefined
        /\ UNCHANGED <<txns, swVars, task>>
    BY <1>13 DEF Commit
  <2>2. \A i \in 0..Len(txns) : After(i)' = After(i)
    BY <2>1 DEF After
  <2>3. QueueSteps'
    BY <1>0, <2>1, <2>2 DEF QueueSteps
  <2>4. WaitersListed' /\ Eventual' = Eventual /\ SeenToggles' = SeenToggles
    BY <1>0, <2>1 DEF WaitersListed, Eventual, SeenToggles, Seen, swVars
  <2> QED
    BY <2>3, <2>4, RegisterSteps DEF RegisterStep
<1>14. ASSUME OrphanSettles PROVE RegisterStep
  BY <1>14, RegisterOrphans
<1>15. ASSUME NEW a \in Apps, Mount(a) \/ Unmount(a) \/ PageReads(a) \/ PageReadFails(a) \/ ReadDelivered(a)
                              \/ BroadcastDelivered(a)
       PROVE  RegisterStep
  BY <1>6, <1>15 DEF Mount, Unmount, PageReads, PageReadFails, ReadDelivered, BroadcastDelivered, swVars
<1>16. ASSUME UNCHANGED vars PROVE RegisterStep
  BY <1>6, <1>16 DEF vars, swVars
<1>17. RegisterStep
  BY <1>1, <1>3, <1>4, <1>5, <1>7, <1>8, <1>9, <1>10, <1>11, <1>12, <1>13, <1>14,
     <1>15, <1>16 DEF Next
<1> QED
  BY <1>a, <1>17 DEF RegisterInv, RegisterStep

\* The worker, its memory and its write queue implement one register per setting
\* (ImplementsRegister), through kills of the worker and failed reads, for any
\* number of toggles, keys and pages. The assumptions are those of the run
\* settings_register: with two waiting toggles the second undoes the first, and
\* a failed write leaves its value in memory.
THEOREM RefinesRegister ==
  ASSUME MaxCold = 1, "putError" \notin Faults, "commitAbort" \notin Faults
  PROVE  Spec => ImplementsRegister
<1>1. Init => RegisterInv /\ Register!Init
  BY InitRegister
<1>2. RegisterInv /\ [Next]_vars => RegisterInv' /\ [Register!Next]_(Register!vars)
  BY NextRegister
<1> QED
  BY <1>1, <1>2, PTL DEF Spec, ImplementsRegister, Register!Spec

=============================================================================
