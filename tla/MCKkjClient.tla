----------------------------- MODULE MCKkjClient -----------------------------
(* TLC instances of KkjClient: two queries whose answers share a bid.         *)
EXTENDS KkjClient, TLC

CONSTANTS q1, q2, b1, b2, b3

MCResults ==
  [q \in Query |-> IF q = q1 THEN {<<b1, b2>>, <<>>} ELSE {<<b2, b3>>}]

Slots == Permutations(Call)
=============================================================================
