---------------------------- MODULE StreamUnpack ----------------------------
(***************************************************************************)
(* unpackStreamed (packing.ts): a generator that reads a packed file from  *)
(* a network stream, whose pieces end anywhere, and yields the file's      *)
(* metadata and then its chunks.  A file is the number of its chunks, in   *)
(* DelimiterSize bytes, and then every chunk after its length, in as many. *)
(*                                                                         *)
(* A byte is represented by its position in the file, so a buffer is the   *)
(* sequence of positions that were copied into it; the value of a          *)
(* delimiter is looked up by where it was read from.                       *)
(***************************************************************************)
EXTENDS Naturals, Sequences, SequencesExt

CONSTANTS
  Files,         \* files to unpack: sequences of the chunks' lengths
  DelimiterSize, \* DELIMITER_SIZE = METADATA_SIZE (4; scaled down in the runs)
  PieceSizes,    \* how many bytes the network may deliver at once
  Waiting        \* no piece: the generator waits for the stream

ConstantsFit ==
  /\ Files \subseteq Seq(Nat) /\ DelimiterSize \in Nat \ {0}
  /\ PieceSizes \subseteq Nat /\ Waiting \notin Seq(Nat)

VARIABLES
  lens,      \* the lengths of the chunks of this file
  sent,      \* how many bytes the stream has delivered
  next,      \* the piece that is being consumed, or Waiting for one
  buffer,    \* the bytes copied for the part that is being read
  expected,  \* expectedBytes: the length of that part
  expecting, \* "data" or "delimiter"
  yielded,   \* the parts the caller got
  status     \* "running", "done", "rejected" (by the final assert), or "broken"

vars == <<lens, sent, next, buffer, expected, expecting, yielded, status>>

Bytes(first, length) == [i \in 1..length |-> first + i - 1]

\* pack: where chunk i starts, one place behind the last one for the chunk that
\* is not there, and the length of the file.
DataStart[i \in 1 .. Len(lens) + 1] ==
  IF i = 1 THEN 1 + 2 * DelimiterSize ELSE DataStart[i - 1] + lens[i - 1] + DelimiterSize

Total == DataStart[Len(lens) + 1] - 1 - DelimiterSize

\* The delimiter in the buffer, read as a number.
DelimiterValue(bytes) ==
  LET i == CHOOSE i \in DOMAIN lens : bytes = Bytes(DataStart[i] - DelimiterSize, DelimiterSize)
  IN lens[i]

Init ==
  /\ lens \in Files
  /\ sent = 0
  /\ next = Waiting
  /\ buffer = <<>>
  /\ expected = DelimiterSize
  /\ expecting = "data"
  /\ yielded = <<>>
  /\ status = "running"

\* Mutant: the buffer is not reset after a delimiter.
FinishPartKeepsBuffer(read) ==
  IF Len(read) < expected
    THEN buffer' = read /\ UNCHANGED <<expected, expecting, yielded>>
    ELSE IF expecting = "data"
      THEN /\ yielded' = Append(yielded, read)
           /\ expecting' = "delimiter"
           /\ expected' = DelimiterSize
           /\ buffer' = <<>>
      ELSE /\ expecting' = "data"
           /\ expected' = DelimiterValue(read) + Len(read)
           /\ buffer' = read
           /\ UNCHANGED yielded

\* The end of an iteration, with the bytes read so far: a part that is complete
\* is yielded or, when it is a delimiter, tells the length of the next part.
FinishPart(read) ==
  IF Len(read) < expected
    THEN buffer' = read /\ UNCHANGED <<expected, expecting, yielded>>
    ELSE /\ buffer' = <<>>
         /\ IF expecting = "data"
              THEN /\ yielded' = Append(yielded, read)
                   /\ expecting' = "delimiter"
                   /\ expected' = DelimiterSize
              ELSE /\ expecting' = "data"
                   /\ expected' = DelimiterValue(read)
                   /\ UNCHANGED yielded

\* An iteration that does not use up its piece.
ConsumePart ==
  LET needed == expected - Len(buffer) IN
  /\ status = "running" /\ next # Waiting
  /\ Len(next) > needed
  /\ FinishPart(buffer \o SubSeq(next, 1, needed))
  /\ next' = SubSeq(next, needed + 1, Len(next))
  /\ UNCHANGED <<lens, sent, status>>

\* Mutant: the whole piece is copied, however much is needed.
ConsumeAllUnchecked ==
  /\ status = "running" /\ next # Waiting
  /\ buffer' = buffer \o next
  /\ next' = Waiting
  /\ UNCHANGED <<lens, sent, expected, expecting, yielded, status>>

\* An iteration that uses up its piece, up to its `await stream.next()`.
ConsumeAll ==
  /\ status = "running" /\ next # Waiting
  /\ Len(next) <= expected - Len(buffer)
  /\ buffer' = buffer \o next
  /\ next' = Waiting
  /\ UNCHANGED <<lens, sent, expected, expecting, yielded, status>>

\* The stream delivers a piece; the iteration that waited for it ends.
Deliver(n) ==
  /\ status = "running" /\ next = Waiting
  /\ sent + n <= Total
  /\ sent' = sent + n
  /\ next' = Bytes(sent + 1, n)
  /\ FinishPart(buffer)
  /\ UNCHANGED <<lens, status>>

\* Mutant: the loop stops before it looks at what the last piece completed.
EndEarly ==
  /\ status = "running" /\ next = Waiting
  /\ status' = IF buffer = <<>> /\ expecting = "delimiter" THEN "done" ELSE "rejected"
  /\ UNCHANGED <<lens, sent, next, buffer, expected, expecting, yielded>>

\* Mutant: the final check forgets what is in the buffer.
EndUnchecked ==
  /\ status = "running" /\ next = Waiting
  /\ FinishPart(buffer)
  /\ status' = IF expecting' = "delimiter" THEN "done" ELSE "rejected"
  /\ UNCHANGED <<lens, sent, next>>

\* The stream is over, at the end of the file or before: the last iteration
\* ends, and so does the loop.
End ==
  /\ status = "running" /\ next = Waiting
  /\ FinishPart(buffer)
  /\ status' = IF buffer' = <<>> /\ expecting' = "delimiter" THEN "done" ELSE "rejected"
  /\ UNCHANGED <<lens, sent, next>>

\* The stream fails: what is in the buffer is lost, also when it is complete.
Break ==
  /\ status = "running" /\ next = Waiting
  /\ status' = "broken"
  /\ UNCHANGED <<lens, sent, next, buffer, expected, expecting, yielded>>

Next == ConsumePart \/ ConsumeAll \/ End \/ Break \/ \E n \in PieceSizes : Deliver(n)

Spec == Init /\ [][Next]_vars

(***************************************************************************)
(* Properties                                                              *)
(***************************************************************************)
\* The buffer has room for what is copied into it, and no byte is counted that
\* the file does not have.
TypeOK ==
  /\ lens \in Files /\ sent \in 0 .. Total
  /\ next = Waiting \/ next \in Seq(1 .. Total)
  /\ expected \in Nat /\ expecting \in {"data", "delimiter"}
  /\ buffer \in Seq(1 .. Total) /\ Len(buffer) <= expected
  /\ yielded \in Seq(Seq(1 .. Total))
  /\ status \in {"running", "done", "rejected", "broken"}

\* What the caller should get: the metadata and then the chunks.
Parts == <<Bytes(1, DelimiterSize)>>
           \o [i \in DOMAIN lens |-> Bytes(DataStart[i], lens[i])]

\* However the stream is cut into pieces, the parts come in order, each with
\* exactly its own bytes ("@yields the metadata first, and then the unpacked
\* chunks, in order", packing.ts:41).
PartsInOrder == IsPrefix(yielded, Parts)

\* A stream is accepted exactly at the end of a part: everything it delivered
\* was handed to the caller, and nothing is left over. A file that was cut
\* between two chunks is accepted as well; only the caller could notice, by
\* comparing the number of chunks with the metadata.
AcceptedAtPartEnd ==
  status = "done" =>
    /\ yielded # <<>>
    /\ sent = DataStart[Len(yielded)] - 1 - DelimiterSize

\* A file that arrives completely is accepted ("Unpacks a data stream
\* representing `pack`ed data", packing.ts:35), unless its last chunk is empty:
\* the loop ends with the stream, before it looks at a part without bytes.
WholeFileAccepted ==
  status = "rejected" => sent < Total \/ (lens # <<>> /\ Last(lens) = 0)

=============================================================================
