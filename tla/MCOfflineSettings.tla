------------------------- MODULE MCOfflineSettings -------------------------
(* Small instances of OfflineSettings for TLC. *)
EXTENDS OfflineSettings, TLC

CONSTANTS mode, dict, other

MCKeys == {mode, dict, other}
MCTwoKeys == {mode, dict}
NoFaults == {}
MCDownloadKeys == {dict}
AllFaults == FaultKinds
ReadFaults == {"readError", "kill"}
IoFaults == {"readError", "putError"}
Symmetry == Permutations(Tasks) \cup Permutations(Apps)
=============================================================================
