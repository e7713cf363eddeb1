----------------------------- MODULE MCWatchList -----------------------------
(* TLC instances of WatchList: two watches, a query KKJ has two notices on and
   one it has none on: answers bring any part of the two. *)
EXTENDS WatchList, TLC

CONSTANTS a, b, q1, q2, n1, n2

MCMatches == (q1 :> {}) @@ (q2 :> {n1, n2})

Alike == Permutations(Call) \cup Permutations(Name)
=============================================================================
