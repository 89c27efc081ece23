---------------------------- MODULE DictDownload ----------------------------
(***************************************************************************)
(* Downloading a dictionary for offline use: saveOfflineDict               *)
(* (offline_data.ts) takes the file's chunks from the network one by one   *)
(* and saves each in a transaction of its own (saveToIndexedDb,            *)
(* indexdb_backing.ts), over two stores: the entries by their id, and one  *)
(* row for every key an entry is found by.  Several attempts may run at    *)
(* the same time (two pages) or one after the other (retries), and the     *)
(* server may have published another version of the file in between.       *)
(* Nothing ever deletes what was saved.                                    *)
(***************************************************************************)
EXTENDS Naturals, Sequences, FiniteSets

CONSTANTS
  Attempts,  \* calls of saveOfflineDict for one dictionary
  Versions,  \* versions of the file on the server
  Entries,   \* the ids of the dictionary's entries
  Chunks,    \* for every version, the sequence of its chunks: sets of entries
  Faults,    \* which failures may happen, see FaultKinds
  None

FaultKinds == {"network", "truncate", "kill", "quota"}

\* packCompressedChunks puts every entry into exactly one chunk.
EntriesOnce(chunks) ==
  \A i, j \in DOMAIN chunks : i # j => chunks[i] \cap chunks[j] = {}

ASSUME ChunksAssumption ==
  /\ Chunks \in [Versions -> Seq(SUBSET Entries)]
  /\ \A v \in Versions : EntriesOnce(Chunks[v])
ASSUME FaultsAssumption == Faults \subseteq FaultKinds
ASSUME NoneNotVersion == None \notin Versions

VARIABLES
  server,   \* the version the server offers
  entries,  \* entriesTable: the version of every stored entry, or None
  keys,     \* orthsTable: how many times the rows of an entry were added
  attempt,  \* the progress of every attempt: the version it reads, how many
            \* chunks it has finished, and whether it is in a transaction
  \* history
  clean     \* the dictionary was never changed on the server, and no failure
            \* was hidden from an attempt

vars == <<server, entries, keys, attempt, clean>>

Phases == {"idle", "streaming", "saving", "done", "failed", "orphan", "lost"}

Stored == {e \in Entries : entries[e] # None}
Current(a) == Chunks[attempt[a].version][attempt[a].finished + 1]
Move(a, phase) == attempt' = [attempt EXCEPT ![a].phase = phase]

Init ==
  /\ server \in Versions
  /\ entries = [e \in Entries |-> None]
  /\ keys = [e \in Entries |-> 0]
  /\ attempt = [a \in Attempts |-> [phase |-> "idle", version |-> server, finished |-> 0]]
  /\ clean = TRUE

\* The server is deployed with another version of the dictionary.
Release(v) ==
  /\ v # server
  /\ server' = v
  /\ clean' = FALSE
  /\ UNCHANGED <<entries, keys, attempt>>

\* The file is requested, and its metadata read.
Begin(a) ==
  /\ attempt[a].phase = "idle"
  /\ attempt' = [attempt EXCEPT ![a] =
                   [phase |-> "streaming", version |-> server, finished |-> 0]]
  /\ UNCHANGED <<server, entries, keys, clean>>

\* Mutant: the loop does not stop after the last chunk.
ChunkArrivesUnbounded(a) ==
  /\ attempt[a].phase = "streaming"
  /\ Move(a, "saving")
  /\ UNCHANGED <<server, entries, keys, clean>>

\* A chunk has arrived and is decoded; its transaction is created.
ChunkArrives(a) ==
  /\ attempt[a].phase = "streaming"
  /\ attempt[a].finished < Len(Chunks[attempt[a].version])
  /\ Move(a, "saving")
  /\ UNCHANGED <<server, entries, keys, clean>>

\* Mutant: every entry is added in a transaction of its own.
AddChunkPiecewise(a) ==
  LET new == Current(a) \ Stored IN
  /\ entries' = [e \in Entries |-> IF e \in new THEN attempt[a].version ELSE entries[e]]
  /\ keys' = [e \in Entries |-> IF e \in new THEN keys[e] + 1 ELSE keys[e]]

\* Mutant: the entries are put, not added.
AddChunkOverwrites(a) ==
  /\ entries' = [e \in Entries |-> IF e \in Current(a) THEN attempt[a].version ELSE entries[e]]
  /\ keys' = [e \in Entries |-> IF e \in Current(a) THEN keys[e] + 1 ELSE keys[e]]

\* What the transaction of a chunk does: the id of an entry that is already
\* there makes `add` fail, which aborts the whole transaction.
AddChunk(a) ==
  IF Current(a) \cap Stored = {}
    THEN /\ entries' = [e \in Entries |-> IF e \in Current(a) THEN attempt[a].version
                                          ELSE entries[e]]
         /\ keys' = [e \in Entries |-> IF e \in Current(a) THEN keys[e] + 1 ELSE keys[e]]
    ELSE UNCHANGED <<entries, keys>>

\* The transaction is over; allSettled hides whether it was aborted.
SaveChunk(a) ==
  /\ attempt[a].phase = "saving"
  /\ AddChunk(a)
  /\ attempt' = [attempt EXCEPT ![a].phase = "streaming", ![a].finished = @ + 1]
  /\ UNCHANGED <<server, clean>>

\* The transaction is aborted because the disk is full, which is hidden as well.
SaveAborted(a) ==
  /\ "quota" \in Faults
  /\ attempt[a].phase = "saving"
  /\ attempt' = [attempt EXCEPT ![a].phase = "streaming", ![a].finished = @ + 1]
  /\ clean' = FALSE
  /\ UNCHANGED <<server, entries, keys>>

\* Mutant: the attempt ends one chunk early.
FinishEarly(a) ==
  /\ attempt[a].phase = "streaming"
  /\ attempt[a].finished + 1 >= Len(Chunks[attempt[a].version])
  /\ Move(a, "done")
  /\ UNCHANGED <<server, entries, keys, clean>>

\* The stream ends after the last chunk.
Finish(a) ==
  /\ attempt[a].phase = "streaming"
  /\ attempt[a].finished = Len(Chunks[attempt[a].version])
  /\ Move(a, "done")
  /\ UNCHANGED <<server, entries, keys, clean>>

\* The stream ends between two chunks: the loop ends without an error, and the
\* number of finished chunks is not compared with the metadata.
FinishTruncated(a) ==
  /\ "truncate" \in Faults
  /\ attempt[a].phase = "streaming"
  /\ Move(a, "done")
  /\ clean' = FALSE
  /\ UNCHANGED <<server, entries, keys>>

\* The request is refused, the stream fails, or a chunk cannot be decoded.
NetworkFails(a) ==
  /\ "network" \in Faults
  /\ attempt[a].phase \in {"idle", "streaming"}
  /\ Move(a, "failed")
  /\ UNCHANGED <<server, entries, keys, clean>>

\* The browser stops the service worker with all its attempts.
Kill ==
  /\ "kill" \in Faults
  /\ \E a \in Attempts : attempt[a].phase \in {"streaming", "saving"}
  /\ attempt' = [a \in Attempts |->
       CASE attempt[a].phase = "streaming" -> [attempt[a] EXCEPT !.phase = "lost"]
         [] attempt[a].phase = "saving" -> [attempt[a] EXCEPT !.phase = "orphan"]
         [] OTHER -> attempt[a]]
  /\ UNCHANGED <<server, entries, keys, clean>>

\* A transaction whose service worker is gone is committed or dropped.
OrphanSettles(a) ==
  /\ attempt[a].phase = "orphan"
  /\ Move(a, "lost")
  /\ AddChunk(a) \/ UNCHANGED <<entries, keys>>
  /\ UNCHANGED <<server, clean>>

Next ==
  \/ \E v \in Versions : Release(v)
  \/ Kill
  \/ \E a \in Attempts :
       \/ Begin(a) \/ ChunkArrives(a) \/ SaveChunk(a) \/ SaveAborted(a)
       \/ Finish(a) \/ FinishTruncated(a) \/ NetworkFails(a) \/ OrphanSettles(a)

Spec == Init /\ [][Next]_vars

(***************************************************************************)
(* Properties                                                              *)
(***************************************************************************)
Attempt == [phase : Phases, version : Versions, finished : Nat]

\* Every variable has its type, and an attempt in a transaction has a chunk.
TypeOK ==
  /\ server \in Versions
  /\ entries \in [Entries -> Versions \cup {None}]
  /\ keys \in [Entries -> Nat]
  /\ attempt \in [Attempts -> Attempt]
  /\ clean \in BOOLEAN
  /\ \A a \in Attempts :
       LET n == Len(Chunks[attempt[a].version]) IN
       /\ attempt[a].finished <= n
       /\ attempt[a].phase \in {"saving", "orphan"} => attempt[a].finished < n

\* An entry is found under its keys exactly once: neither a retry nor a second
\* download adds its rows again, and none is stored without its rows
\* (saveToIndexedDb writes both stores in one transaction).
KeysMatchEntries == \A e \in Entries : keys[e] = IF e \in Stored THEN 1 ELSE 0

\* A chunk is stored whole or not at all, and stays of one version, whatever is
\* killed, aborted or downloaded again.
ChunksStayWhole ==
  \A e \in Stored : \A i \in DOMAIN Chunks[entries[e]] :
    e \in Chunks[entries[e]][i] =>
      \A f \in Chunks[entries[e]][i] : entries[f] = entries[e]

\* A download that reports success leaves the complete dictionary behind, also
\* when earlier ones were cut off in the middle or run at the same time: an
\* entry that makes a chunk's transaction abort came with that whole chunk.
\* (Not so after a hidden failure, or over an older version: "settles" is all
\* that saveToIndexedDb waits for, indexdb_backing.ts:95.)
DoneIsComplete ==
  clean => \A a \in Attempts : attempt[a].phase = "done" =>
    \A i \in DOMAIN Chunks[attempt[a].version] : Chunks[attempt[a].version][i] \subseteq Stored

(***************************************************************************)
(* The inductive invariants, proved in DictDownloadProofs                  *)
(***************************************************************************)
\* A stored entry comes from a chunk of its version.
StoredFromChunk ==
  \A e \in Stored : \E i \in DOMAIN Chunks[entries[e]] : e \in Chunks[entries[e]][i]

WholeInv == TypeOK /\ KeysMatchEntries /\ StoredFromChunk /\ ChunksStayWhole

\* Everything there is comes from the version on the server.
OneVersion ==
  /\ \A a \in Attempts : attempt[a].version = server
  /\ \A e \in Stored : entries[e] = server

\* The chunks an attempt has finished are stored.
FinishedAreStored ==
  \A a \in Attempts : \A i \in 1..attempt[a].finished :
    Chunks[attempt[a].version][i] \subseteq Stored

DoneIsFinished ==
  \A a \in Attempts : attempt[a].phase = "done" =>
    attempt[a].finished = Len(Chunks[attempt[a].version])

CompleteInv == WholeInv /\ (clean => OneVersion /\ FinishedAreStored /\ DoneIsFinished)

=============================================================================
