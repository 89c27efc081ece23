------------------------- MODULE DictDownloadProofs -------------------------
(* Theorems about DictDownload, for any attempts, versions, entries and chunks. *)
EXTENDS DictDownload, TLAPS

\* The chunks of a version are a sequence of sets of entries.
LEMMA ChunksOf ==
  \A v \in Versions : /\ Chunks[v] \in Seq(SUBSET Entries)
                      /\ Len(Chunks[v]) \in Nat
                      /\ DOMAIN Chunks[v] = 1..Len(Chunks[v])
                      /\ \A i \in DOMAIN Chunks[v] : Chunks[v][i] \subseteq Entries
<1> SUFFICES ASSUME NEW v \in Versions
             PROVE  /\ Chunks[v] \in Seq(SUBSET Entries)
                    /\ Len(Chunks[v]) \in Nat
                    /\ DOMAIN Chunks[v] = 1..Len(Chunks[v])
                    /\ \A i \in DOMAIN Chunks[v] : Chunks[v][i] \subseteq Entries
  OBVIOUS
<1>1. Chunks[v] \in Seq(SUBSET Entries)
  BY ChunksAssumption
<1> QED
  BY <1>1

\* An entry is in at most one chunk of a version.
LEMMA ChunksDisjoint ==
  ASSUME NEW v \in Versions, NEW i \in DOMAIN Chunks[v], NEW j \in DOMAIN Chunks[v],
         NEW e \in Chunks[v][i], e \in Chunks[v][j]
  PROVE  i = j
  BY ChunksAssumption DEF EntriesOnce

(***************************************************************************)
(* What the transaction of a chunk does to the stores                      *)
(***************************************************************************)
\* The facts about the stores alone.
StoreInv ==
  /\ entries \in [Entries -> Versions \cup {None}]
  /\ keys \in [Entries -> Nat]
  /\ KeysMatchEntries /\ StoredFromChunk /\ ChunksStayWhole

\* A chunk goes into the stores whole, or nothing of it does.
LEMMA AddChunkKeeps ==
  ASSUME TypeOK, StoreInv, NEW a \in Attempts,
         attempt[a].finished < Len(Chunks[attempt[a].version]), AddChunk(a)
  PROVE  StoreInv'
<1> DEFINE v == attempt[a].version
           i == attempt[a].finished + 1
           C == Chunks[v][i]
<1>1. v \in Versions /\ v # None /\ i \in DOMAIN Chunks[v] /\ C \subseteq Entries
  <2>1. v \in Versions /\ attempt[a].finished \in Nat
    BY DEF TypeOK, Attempt
  <2> QED
    BY <2>1, ChunksOf, NoneNotVersion
<1>2. Current(a) = C
  BY DEF Current
<1> HIDE DEF v, i, C
<1>3. CASE C \cap Stored = {}
  <2>1. /\ entries' = [e \in Entries |-> IF e \in C THEN v ELSE entries[e]]
        /\ keys' = [e \in Entries |-> IF e \in C THEN keys[e] + 1 ELSE keys[e]]
    BY <1>2, <1>3 DEF AddChunk, v
  <2>2. entries' \in [Entries -> Versions \cup {None}] /\ keys' \in [Entries -> Nat]
    BY <1>1, <2>1 DEF StoreInv
  <2>3. \A e \in Entries : /\ entries'[e] = IF e \in C THEN v ELSE entries[e]
                           /\ keys'[e] = IF e \in C THEN keys[e] + 1 ELSE keys[e]
    BY <2>1
  <2>4. \A e \in Entries : e \in Stored' <=> (e \in C \/ e \in Stored)
    BY <1>1, <2>3 DEF Stored
  <2>5. KeysMatchEntries'
    <3> SUFFICES ASSUME NEW e \in Entries
                 PROVE  keys'[e] = IF e \in Stored' THEN 1 ELSE 0
      BY DEF KeysMatchEntries
    <3>1. keys[e] = IF e \in Stored THEN 1 ELSE 0
      BY DEF StoreInv, KeysMatchEntries
    <3> QED
      BY <1>3, <2>3, <2>4, <3>1
  <2>6. StoredFromChunk'
    <3> SUFFICES ASSUME NEW e \in Entries, e \in Stored'
                 PROVE  \E j \in DOMAIN Chunks[entries'[e]] : e \in Chunks[entries'[e]][j]
      BY DEF StoredFromChunk, Stored
    <3>1. CASE e \in C
      BY <1>1, <2>3, <3>1 DEF C
    <3>2. CASE e \notin C
      <4>1. e \in Stored /\ entries'[e] = entries[e]
        BY <2>3, <2>4, <3>2
      <4> QED
        BY <4>1 DEF StoreInv, StoredFromChunk
    <3> QED
      BY <3>1, <3>2
  <2>7. ChunksStayWhole'
    <3> SUFFICES ASSUME NEW e \in Entries, e \in Stored',
                        NEW j \in DOMAIN Chunks[entries'[e]], e \in Chunks[entries'[e]][j],
                        NEW f \in Chunks[entries'[e]][j]
                 PROVE  entries'[f] = entries'[e]
      BY DEF ChunksStayWhole, Stored
    <3>1. CASE e \in C
      <4>1. entries'[e] = v /\ j = i
        BY <1>1, <2>3, <3>1, ChunksDisjoint DEF C
      <4>2. f \in C /\ f \in Entries
        BY <1>1, <4>1 DEF C
      <4> QED
        BY <2>3, <4>1, <4>2
    <3>2. CASE e \notin C
      <4>1. e \in Stored /\ entries'[e] = entries[e]
        BY <2>3, <2>4, <3>2
      <4>2. entries[f] = entries[e]
        BY <4>1 DEF StoreInv, ChunksStayWhole
      <4>3. entries[e] \in Versions /\ entries[e] # None
        BY <4>1, <2>2 DEF StoreInv, Stored
      <4>4. f \in Entries
        BY <4>1, <4>3, ChunksOf
      <4>5. f \in Stored
        BY <4>2, <4>3, <4>4 DEF Stored
      <4>6. f \notin C
        BY <1>3, <4>5
      <4> QED
        BY <2>3, <4>1, <4>2, <4>4, <4>6
    <3> QED
      BY <3>1, <3>2
  <2> QED
    BY <2>2, <2>5, <2>6, <2>7 DEF StoreInv
<1>4. CASE C \cap Stored # {}
  <2>1. entries' = entries /\ keys' = keys
    BY <1>2, <1>4 DEF AddChunk
  <2> QED
    BY <2>1 DEF StoreInv, KeysMatchEntries, StoredFromChunk, ChunksStayWhole, Stored
<1> QED
  BY <1>3, <1>4

\* A step that leaves the stores alone keeps what is known of them.
LEMMA UnchangedKeeps ==
  ASSUME StoreInv, entries' = entries, keys' = keys
  PROVE  StoreInv'
  BY DEF StoreInv, KeysMatchEntries, StoredFromChunk, ChunksStayWhole, Stored

(***************************************************************************)
(* Types and the stores                                                    *)
(***************************************************************************)
\* An attempt is of its type, and is in a transaction only with a chunk left.
Fits(at) ==
  /\ at \in Attempt
  /\ at.finished <= Len(Chunks[at.version])
  /\ at.phase \in {"saving", "orphan"} => at.finished < Len(Chunks[at.version])

LEMMA TypeSplit ==
  TypeOK <=> /\ server \in Versions
             /\ entries \in [Entries -> Versions \cup {None}]
             /\ keys \in [Entries -> Nat]
             /\ attempt \in [Attempts -> Attempt]
             /\ clean \in BOOLEAN
             /\ \A a \in Attempts : Fits(attempt[a])
  BY DEF TypeOK, Fits

\* Replacing one attempt by one that fits keeps the attempts well typed.
LEMMA OneAttempt ==
  ASSUME attempt \in [Attempts -> Attempt], \A b \in Attempts : Fits(attempt[b]),
         NEW a \in Attempts, NEW at, Fits(at), attempt' = [attempt EXCEPT ![a] = at]
  PROVE  attempt' \in [Attempts -> Attempt] /\ \A b \in Attempts : Fits(attempt'[b])
<1>1. at \in Attempt
  BY DEF Fits
<1>2. \A b \in Attempts : attempt'[b] = IF b = a THEN at ELSE attempt[b]
  OBVIOUS
<1> QED
  BY <1>1, <1>2

\* Only the phase, or the phase and the number of finished chunks, change in an
\* attempt that goes on.
LEMMA Progress ==
  ASSUME NEW at, Fits(at), NEW phase \in Phases, NEW n \in Nat,
         n <= Len(Chunks[at.version]),
         phase \in {"saving", "orphan"} => n < Len(Chunks[at.version])
  PROVE  Fits([at EXCEPT !.phase = phase, !.finished = n])
  BY DEF Fits, Attempt

LEMMA NewPhase ==
  ASSUME NEW at, Fits(at), NEW phase \in Phases,
         phase \in {"saving", "orphan"} => at.finished < Len(Chunks[at.version])
  PROVE  Fits([at EXCEPT !.phase = phase])
  BY DEF Fits, Attempt

\* The stores and the types at the start.
LEMMA InitWhole == Init => WholeInv
<1> SUFFICES ASSUME Init PROVE WholeInv
  OBVIOUS
<1>1. TypeOK
  <2>1. \A a \in Attempts : attempt[a] = [phase |-> "idle", version |-> server, finished |-> 0]
    BY DEF Init
  <2>2. Len(Chunks[server]) \in Nat
    BY ChunksOf DEF Init
  <2> QED
    BY <2>1, <2>2 DEF Init, TypeOK, Attempt, Phases
<1>2. Stored = {}
  BY DEF Init, Stored
<1> QED
  BY <1>1, <1>2 DEF Init, WholeInv, KeysMatchEntries, StoredFromChunk, ChunksStayWhole

\* Every step keeps the types, and leaves each chunk of the stores whole.
LEMMA NextWhole == WholeInv /\ [Next]_vars => WholeInv'
<1> SUFFICES ASSUME WholeInv, [Next]_vars PROVE WholeInv'
  OBVIOUS
<1> DEFINE Typed == /\ server' \in Versions
                    /\ attempt' \in [Attempts -> Attempt]
                    /\ \A a \in Attempts : Fits(attempt'[a])
<1>1. /\ TypeOK /\ StoreInv
      /\ server \in Versions /\ attempt \in [Attempts -> Attempt]
      /\ \A a \in Attempts : Fits(attempt[a])
  BY TypeSplit DEF WholeInv, StoreInv, TypeOK
<1>2. \A a \in Attempts : /\ attempt[a].version \in Versions /\ attempt[a].finished \in Nat
                          /\ attempt[a].phase \in Phases
                          /\ Len(Chunks[attempt[a].version]) \in Nat
  BY <1>1, ChunksOf DEF Fits, Attempt
<1>0. clean' \in BOOLEAN
  BY DEF WholeInv, TypeOK, Next, vars, Release, Kill, Begin, ChunkArrives, SaveChunk,
         SaveAborted, Finish, FinishTruncated, NetworkFails, OrphanSettles
<1> SUFFICES Typed /\ StoreInv'
  <2>1. ASSUME Typed, StoreInv' PROVE TypeOK'
    <3>1. \A a \in Attempts :
            LET n == Len(Chunks[attempt'[a].version]) IN
            /\ attempt'[a].finished <= n
            /\ attempt'[a].phase \in {"saving", "orphan"} => attempt'[a].finished < n
      BY <2>1 DEF Fits
    <3> QED
      BY <1>0, <2>1, <3>1 DEF TypeOK, StoreInv
  <2> QED
    BY <2>1 DEF WholeInv, StoreInv
<1>3. ASSUME NEW v \in Versions, Release(v) PROVE Typed /\ StoreInv'
  <2>1. server' = v /\ entries' = entries /\ keys' = keys /\ attempt' = attempt
    BY <1>3 DEF Release
  <2> QED
    BY <1>1, <2>1, UnchangedKeeps
<1>4. ASSUME Kill PROVE Typed /\ StoreInv'
  <2>1. server' = server /\ entries' = entries /\ keys' = keys
    BY <1>4 DEF Kill
  <2>2. \A a \in Attempts :
          attempt'[a] = CASE attempt[a].phase = "streaming" -> [attempt[a] EXCEPT !.phase = "lost"]
                          [] attempt[a].phase = "saving" -> [attempt[a] EXCEPT !.phase = "orphan"]
                          [] OTHER -> attempt[a]
    BY <1>4 DEF Kill
  <2>3. ASSUME NEW a \in Attempts PROVE Fits(attempt'[a])
    <3>1. Fits([attempt[a] EXCEPT !.phase = "lost"])
      BY <1>1, NewPhase DEF Phases
    <3>2. CASE attempt[a].phase = "saving"
      <4>1. attempt[a].finished < Len(Chunks[attempt[a].version])
        BY <1>1, <3>2 DEF Fits
      <4>2. Fits([attempt[a] EXCEPT !.phase = "orphan"])
        BY <1>1, <4>1, NewPhase DEF Phases
      <4> QED
        BY <2>2, <3>2, <4>2
    <3> QED
      BY <1>1, <2>2, <3>1, <3>2
  <2>4. \A a \in Attempts : attempt'[a] \in Attempt
    BY <2>3 DEF Fits
  <2>5. attempt' \in [Attempts -> Attempt]
    BY <1>4, <2>2, <2>4 DEF Kill
  <2> QED
    BY <1>1, <2>1, <2>3, <2>5, UnchangedKeeps
<1>5. ASSUME NEW a \in Attempts, Begin(a) PROVE Typed /\ StoreInv'
  <2> DEFINE at == [phase |-> "streaming", version |-> server, finished |-> 0]
  <2>1. /\ attempt' = [attempt EXCEPT ![a] = at]
        /\ server' = server /\ entries' = entries /\ keys' = keys
    BY <1>5 DEF Begin
  <2>2. Fits(at)
    BY <1>1, ChunksOf DEF Fits, Attempt, Phases
  <2> QED
    BY <1>1, <2>1, <2>2, OneAttempt, UnchangedKeeps
<1>6. ASSUME NEW a \in Attempts, ChunkArrives(a) PROVE Typed /\ StoreInv'
  <2>1. /\ attempt' = [attempt EXCEPT ![a] = [attempt[a] EXCEPT !.phase = "saving"]]
        /\ server' = server /\ entries' = entries /\ keys' = keys
    BY <1>1, <1>6 DEF ChunkArrives, Move
  <2>2. Fits([attempt[a] EXCEPT !.phase = "saving"])
    BY <1>1, <1>6, NewPhase DEF ChunkArrives, Phases
  <2> QED
    BY <1>1, <2>1, <2>2, OneAttempt, UnchangedKeeps
<1>7. ASSUME NEW a \in Attempts, attempt[a].phase = "saving",
             attempt' = [attempt EXCEPT ![a].phase = "streaming", ![a].finished = @ + 1],
             server' = server
      PROVE  Typed
  <2>1. attempt[a].finished + 1 \in Nat /\ attempt[a].finished + 1 <= Len(Chunks[attempt[a].version])
    BY <1>1, <1>2, <1>7 DEF Fits
  <2> DEFINE at == [attempt[a] EXCEPT !.phase = "streaming",
                                      !.finished = attempt[a].finished + 1]
  <2>2. Fits(at)
    BY <1>1, <2>1, Progress DEF Phases
  <2>3. attempt' = [attempt EXCEPT ![a] = at]
    BY <1>1, <1>7
  <2> QED
    BY <1>1, <1>7, <2>2, <2>3, OneAttempt
<1>8. ASSUME NEW a \in Attempts, SaveChunk(a) PROVE Typed /\ StoreInv'
  <2>1. attempt[a].finished < Len(Chunks[attempt[a].version])
    BY <1>1, <1>8 DEF SaveChunk, Fits
  <2>2. StoreInv'
    BY <1>1, <1>8, <2>1, AddChunkKeeps DEF SaveChunk
  <2> QED
    BY <1>7, <1>8, <2>2 DEF SaveChunk
<1>9. ASSUME NEW a \in Attempts, SaveAborted(a) PROVE Typed /\ StoreInv'
  BY <1>1, <1>7, <1>9, UnchangedKeeps DEF SaveAborted
<1>10. ASSUME NEW a \in Attempts, NEW phase \in Phases, phase \notin {"saving", "orphan"},
              Move(a, phase), server' = server
       PROVE  Typed
  <2>1. attempt' = [attempt EXCEPT ![a] = [attempt[a] EXCEPT !.phase = phase]]
    BY <1>1, <1>10 DEF Move
  <2>2. Fits([attempt[a] EXCEPT !.phase = phase])
    BY <1>1, <1>10, NewPhase
  <2> QED
    BY <1>1, <1>10, <2>1, <2>2, OneAttempt
<1>11. ASSUME NEW a \in Attempts, Finish(a) \/ FinishTruncated(a) \/ NetworkFails(a)
       PROVE  Typed /\ StoreInv'
  <2>1. /\ Move(a, "done") \/ Move(a, "failed")
        /\ server' = server /\ entries' = entries /\ keys' = keys
    BY <1>11 DEF Finish, FinishTruncated, NetworkFails
  <2>2. Typed
    BY <1>10, <2>1 DEF Phases
  <2> QED
    BY <1>1, <2>1, <2>2, UnchangedKeeps
<1>12. ASSUME NEW a \in Attempts, OrphanSettles(a) PROVE Typed /\ StoreInv'
  <2>1. attempt[a].finished < Len(Chunks[attempt[a].version])
    BY <1>1, <1>12 DEF OrphanSettles, Fits
  <2>2. AddChunk(a) => StoreInv'
    BY <1>1, <2>1, AddChunkKeeps
  <2>3. StoreInv'
    BY <1>1, <1>12, <2>2, UnchangedKeeps DEF OrphanSettles
  <2>4. Typed
    BY <1>10, <1>12 DEF OrphanSettles, Phases
  <2> QED
    BY <2>3, <2>4
<1>13. CASE UNCHANGED vars
  <2>1. server' = server /\ entries' = entries /\ keys' = keys /\ attempt' = attempt
    BY <1>13 DEF vars
  <2> QED
    BY <1>1, <2>1, UnchangedKeeps
<1> QED
  BY <1>3, <1>4, <1>5, <1>6, <1>8, <1>9, <1>11, <1>12, <1>13 DEF Next

\* The stores and the attempts are well typed in every reachable state.
LEMMA AlwaysWhole == Spec => []WholeInv
  BY InitWhole, NextWhole, PTL DEF Spec

\* Every variable keeps its type, and no attempt saves more chunks than there are.
THEOREM DownloadTypeCorrect == Spec => []TypeOK
<1>1. WholeInv => TypeOK
  BY DEF WholeInv
<1> QED
  BY <1>1, AlwaysWhole, PTL

\* An entry is found under its keys exactly once, whatever fails.
THEOREM KeysWithEntries == Spec => []KeysMatchEntries
<1>1. WholeInv => KeysMatchEntries
  BY DEF WholeInv
<1> QED
  BY <1>1, AlwaysWhole, PTL

\* A chunk is stored whole or not at all, whatever fails.
THEOREM WholeChunks == Spec => []ChunksStayWhole
<1>1. WholeInv => ChunksStayWhole
  BY DEF WholeInv
<1> QED
  BY <1>1, AlwaysWhole, PTL

(***************************************************************************)
(* Completeness                                                            *)
(***************************************************************************)
\* With one version, the chunk of a transaction is stored when it is over: an
\* entry that makes it abort was stored together with the whole chunk.  Nothing
\* that is stored is ever lost.
LEMMA AddChunkStores ==
  ASSUME TypeOK, StoreInv, OneVersion, NEW a \in Attempts,
         attempt[a].finished < Len(Chunks[attempt[a].version]), AddChunk(a)
  PROVE  /\ Stored \subseteq Stored' /\ Current(a) \subseteq Stored'
         /\ \A e \in Stored' : entries'[e] = server
<1>1. /\ attempt[a].version = server /\ server \in Versions /\ server # None
      /\ attempt[a].finished \in Nat
  BY NoneNotVersion DEF TypeOK, Attempt, OneVersion
<1>2. /\ attempt[a].finished + 1 \in DOMAIN Chunks[server]
      /\ Current(a) = Chunks[server][attempt[a].finished + 1]
      /\ Current(a) \subseteq Entries
  BY <1>1, ChunksOf DEF Current
<1>3. CASE Current(a) \cap Stored = {}
  <2>1. entries' = [e \in Entries |-> IF e \in Current(a) THEN server ELSE entries[e]]
    BY <1>1, <1>3 DEF AddChunk
  <2>2. \A e \in Entries : entries'[e] = IF e \in Current(a) THEN server ELSE entries[e]
    BY <2>1
  <2> QED
    BY <1>1, <1>2, <2>2 DEF Stored, OneVersion
<1>4. CASE Current(a) \cap Stored # {}
  <2>1. entries' = entries
    BY <1>4 DEF AddChunk
  <2>2. PICK e \in Current(a) : e \in Stored /\ entries[e] = server
    BY <1>4 DEF OneVersion
  <2>3. \A f \in Current(a) : entries[f] = server
    <3> DEFINE i == attempt[a].finished + 1
    <3>1. i \in DOMAIN Chunks[server] /\ Current(a) = Chunks[server][i] /\ e \in Chunks[server][i]
      BY <1>2, <2>2
    <3> HIDE DEF i
    <3>2. \A f \in Chunks[server][i] : entries[f] = entries[e]
      BY <2>2, <3>1 DEF StoreInv, ChunksStayWhole
    <3> QED
      BY <2>2, <3>1, <3>2
  <2> QED
    BY <1>1, <1>2, <2>1, <2>3 DEF Stored, OneVersion
<1> QED
  BY <1>3, <1>4

\* An attempt reads the version v, and what it says it has finished is stored.
Delivered(at, v, stored) ==
  /\ at.version = v
  /\ \A i \in 1..at.finished : Chunks[v][i] \subseteq stored
  /\ at.phase = "done" => at.finished = Len(Chunks[v])

AllDelivered ==
  /\ \A a \in Attempts : Delivered(attempt[a], server, Stored)
  /\ \A e \in Stored : entries[e] = server

LEMMA DeliveredIs ==
  AllDelivered <=> OneVersion /\ FinishedAreStored /\ DoneIsFinished
  BY DEF AllDelivered, OneVersion, FinishedAreStored, DoneIsFinished, Delivered

LEMMA DeliveredIsNext ==
  AllDelivered' => OneVersion' /\ FinishedAreStored' /\ DoneIsFinished'
  BY DEF AllDelivered, OneVersion, FinishedAreStored, DoneIsFinished, Delivered

LEMMA InitComplete == Init => CompleteInv
<1> SUFFICES ASSUME Init PROVE CompleteInv
  OBVIOUS
<1>1. \A a \in Attempts : /\ attempt[a].finished = 0 /\ attempt[a].phase = "idle"
                          /\ attempt[a].version = server
  BY DEF Init
<1>2. Stored = {}
  BY DEF Init, Stored
<1>3. OneVersion /\ FinishedAreStored /\ DoneIsFinished
  BY <1>1, <1>2 DEF OneVersion, FinishedAreStored, DoneIsFinished
<1> QED
  BY <1>3, InitWhole DEF CompleteInv

\* As long as nothing was hidden, no step loses an entry, and an attempt moves
\* on only past a stored chunk.
LEMMA NextComplete == CompleteInv /\ [Next]_vars => CompleteInv'
<1> SUFFICES ASSUME CompleteInv, [Next]_vars PROVE CompleteInv'
  OBVIOUS
<1>1. WholeInv' /\ TypeOK /\ StoreInv
  BY NextWhole DEF CompleteInv, WholeInv, StoreInv, TypeOK
<1>2. ~clean => ~clean'
  BY <1>1 DEF TypeOK, Next, vars, Release, Kill, Begin, ChunkArrives, SaveChunk,
              SaveAborted, Finish, FinishTruncated, NetworkFails, OrphanSettles
<1> SUFFICES ASSUME clean, clean' PROVE AllDelivered'
  BY <1>1, <1>2, DeliveredIsNext DEF CompleteInv
<1>3. /\ \A a \in Attempts : Delivered(attempt[a], server, Stored) /\ Fits(attempt[a])
      /\ \A e \in Stored : entries[e] = server
      /\ attempt \in [Attempts -> Attempt]
      /\ OneVersion
  BY <1>1, TypeSplit, DeliveredIs DEF CompleteInv, AllDelivered
<1>4. \A a \in Attempts : attempt[a].finished \in Nat
  BY <1>3 DEF Fits, Attempt
<1>5. ASSUME NEW a \in Attempts, server' = server,
             Stored \subseteq Stored', \A e \in Stored' : entries'[e] = server,
             \A b \in Attempts : b # a => attempt'[b] = attempt[b],
             Delivered(attempt'[a], server, Stored')
      PROVE  AllDelivered'
  <2> SUFFICES ASSUME NEW b \in Attempts PROVE Delivered(attempt'[b], server, Stored')
    BY <1>5 DEF AllDelivered, Delivered
  <2> QED
    BY <1>3, <1>5 DEF Delivered
<1>6. entries' = entries => Stored' = Stored /\ \A e \in Stored' : entries'[e] = server
  BY <1>3 DEF Stored
<1>7. ASSUME NEW a \in Attempts, NEW phase, phase # "done", Move(a, phase),
             server' = server,
             Stored \subseteq Stored', \A e \in Stored' : entries'[e] = server
      PROVE  AllDelivered'
  <2>1. /\ attempt'[a].phase = phase /\ attempt'[a].version = attempt[a].version
        /\ attempt'[a].finished = attempt[a].finished
    BY <1>3, <1>7 DEF Move, Attempt
  <2>2. \A b \in Attempts : b # a => attempt'[b] = attempt[b]
    BY <1>3, <1>7 DEF Move
  <2>3. Delivered(attempt'[a], server, Stored')
    BY <1>3, <1>7, <2>1 DEF Delivered
  <2> QED
    BY <1>5, <1>7, <2>2, <2>3
<1>8. ASSUME Kill PROVE AllDelivered'
  <2>1. Stored' = Stored /\ server' = server /\ \A e \in Stored' : entries'[e] = server
    BY <1>6, <1>8 DEF Kill
  <2>2. ASSUME NEW b \in Attempts PROVE Delivered(attempt'[b], server, Stored')
    <3>1. \/ attempt'[b] = attempt[b]
          \/ attempt'[b] = [attempt[b] EXCEPT !.phase = "lost"]
          \/ attempt'[b] = [attempt[b] EXCEPT !.phase = "orphan"]
      BY <1>8 DEF Kill
    <3>2. /\ attempt'[b].version = attempt[b].version
          /\ attempt'[b].finished = attempt[b].finished
          /\ attempt'[b].phase = "done" => attempt[b].phase = "done"
      BY <1>3, <3>1 DEF Attempt
    <3> QED
      BY <1>3, <2>1, <3>2 DEF Delivered
  <2> QED
    BY <2>1, <2>2 DEF AllDelivered, Delivered
<1>9. ASSUME NEW a \in Attempts, Begin(a) PROVE AllDelivered'
  <2>1. /\ attempt'[a] = [phase |-> "streaming", version |-> server, finished |-> 0]
        /\ \A b \in Attempts : b # a => attempt'[b] = attempt[b]
        /\ server' = server /\ entries' = entries
    BY <1>3, <1>9 DEF Begin
  <2>2. Delivered(attempt'[a], server, Stored')
    BY <2>1 DEF Delivered
  <2> QED
    BY <1>5, <1>6, <2>1, <2>2
<1>10. ASSUME NEW a \in Attempts, ChunkArrives(a) \/ NetworkFails(a) PROVE AllDelivered'
  BY <1>6, <1>7, <1>10 DEF ChunkArrives, NetworkFails
<1>11. ASSUME NEW a \in Attempts, SaveChunk(a) PROVE AllDelivered'
  <2>1. attempt[a].finished < Len(Chunks[attempt[a].version])
    BY <1>3, <1>11 DEF SaveChunk, Fits
  <2>2. /\ Stored \subseteq Stored' /\ Current(a) \subseteq Stored'
        /\ \A e \in Stored' : entries'[e] = server
    BY <1>1, <1>3, <1>11, <2>1, AddChunkStores DEF SaveChunk
  <2>3. /\ attempt'[a].phase = "streaming" /\ attempt'[a].version = attempt[a].version
        /\ attempt'[a].finished = attempt[a].finished + 1
        /\ \A b \in Attempts : b # a => attempt'[b] = attempt[b]
        /\ server' = server
    BY <1>3, <1>11 DEF SaveChunk, Attempt
  <2>4. \A i \in 1..(attempt[a].finished + 1) :
          i \in 1..attempt[a].finished \/ i = attempt[a].finished + 1
    BY <1>4
  <2>5. Delivered(attempt'[a], server, Stored')
    BY <1>3, <2>2, <2>3, <2>4 DEF Delivered, Current
  <2> QED
    BY <1>5, <2>2, <2>3, <2>5
<1>12. ASSUME NEW a \in Attempts, Finish(a) PROVE AllDelivered'
  <2>1. /\ attempt'[a].phase = "done" /\ attempt'[a].version = attempt[a].version
        /\ attempt'[a].finished = attempt[a].finished
        /\ \A b \in Attempts : b # a => attempt'[b] = attempt[b]
        /\ server' = server /\ entries' = entries
    BY <1>3, <1>12 DEF Finish, Move, Attempt
  <2>2. Delivered(attempt'[a], server, Stored')
    BY <1>3, <1>6, <1>12, <2>1 DEF Delivered, Finish
  <2> QED
    BY <1>5, <1>6, <2>1, <2>2
<1>13. ASSUME NEW a \in Attempts, OrphanSettles(a) PROVE AllDelivered'
  <2>1. attempt[a].finished < Len(Chunks[attempt[a].version])
    BY <1>3, <1>13 DEF OrphanSettles, Fits
  <2>2. AddChunk(a) => Stored \subseteq Stored' /\ \A e \in Stored' : entries'[e] = server
    BY <1>1, <1>3, <2>1, AddChunkStores
  <2>3. Stored \subseteq Stored' /\ \A e \in Stored' : entries'[e] = server
    BY <1>6, <1>13, <2>2 DEF OrphanSettles
  <2> QED
    BY <1>7, <1>13, <2>3 DEF OrphanSettles
<1>14. CASE UNCHANGED vars
  <2>1. attempt' = attempt /\ entries' = entries /\ server' = server
    BY <1>14 DEF vars
  <2> QED
    BY <1>3, <1>6, <2>1 DEF AllDelivered, Delivered
<1> QED
  BY <1>8, <1>9, <1>10, <1>11, <1>12, <1>13, <1>14
     DEF Next, Release, SaveAborted, FinishTruncated

\* A download that reports success has stored the whole dictionary, as long as
\* the server never changed it and no failure was hidden.
THEOREM DownloadsComplete == Spec => []DoneIsComplete
<1>1. CompleteInv => DoneIsComplete
  <2> SUFFICES ASSUME CompleteInv, clean, NEW a \in Attempts, attempt[a].phase = "done",
                      NEW i \in DOMAIN Chunks[attempt[a].version]
               PROVE  Chunks[attempt[a].version][i] \subseteq Stored
    BY DEF DoneIsComplete
  <2>1. attempt[a].finished = Len(Chunks[attempt[a].version])
    BY DEF CompleteInv, DoneIsFinished
  <2>2. attempt[a].version \in Versions
    BY DEF CompleteInv, WholeInv, TypeOK, Attempt
  <2>3. i \in 1..attempt[a].finished
    BY <2>1, <2>2, ChunksOf
  <2> QED
    BY <2>3 DEF CompleteInv, FinishedAreStored
<1> QED
  BY <1>1, InitComplete, NextComplete, PTL DEF Spec

=============================================================================
