---------------------------- MODULE MCOAuthTokens ----------------------------
(***************************************************************************)
(* Small instances of OAuthTokens for TLC.                                  *)
(***************************************************************************)
EXTENDS OAuthTokens, TLC

\* Ids of one kind, and request slots, are interchangeable.
Symmetry ==
  Permutations(Request) \cup Permutations(Code)
    \cup Permutations(Refresh) \cup Permutations(Family)
=============================================================================
