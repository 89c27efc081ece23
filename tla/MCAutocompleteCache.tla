------------------------ MODULE MCAutocompleteCache ------------------------
(* Small instances of AutocompleteCache for TLC. *)
EXTENDS AutocompleteCache, TLC

=============================================================================
