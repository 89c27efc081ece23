--------------------------- MODULE MCDictDownload ---------------------------
(* Small instances of DictDownload for TLC: in the new version an entry has   *)
(* been added, which moves the boundaries of the chunks.                      *)
EXTENDS DictDownload, TLC

CONSTANTS oldFile, newFile, e1, e2, e3, e4, e5

MCEntries == {e1, e2, e3, e4, e5}
OldChunks == <<{e1, e2}, {e3}, {e4}>>
NewChunks == <<{e1, e2}, {e3, e5}, {e4}>>
MCChunks == [v \in Versions |-> IF v = oldFile THEN OldChunks ELSE NewChunks]

AllFaults == FaultKinds
Symmetry == Permutations(Attempts)
=============================================================================
