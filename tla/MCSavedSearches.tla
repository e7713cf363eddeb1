--------------------------- MODULE MCSavedSearches ---------------------------
(***************************************************************************)
(* Small instances of SavedSearches for TLC.                                *)
(***************************************************************************)
EXTENDS SavedSearches, TLC

CONSTANTS n1, n2, narrow, wide

\* One search finds both notices, the other only the first.
MCMatches == (narrow :> {n1}) @@ (wide :> {n1, n2})

Symmetry == Permutations(Call)
=============================================================================
