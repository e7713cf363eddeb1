------------------------------ MODULE FreshCache ------------------------------
(***************************************************************************)
(* What a cache of answers promises its readers, whatever it evicts, however  *)
(* it orders its entries and whichever of two slow calls stores its answer    *)
(* last: it answers for a key with the answer to that key it learnt last,     *)
(* which only ages while it is held, whoever reads it, and is gone when its   *)
(* life is over (docs/adr/0018-cache-strategy.md; the options of the LRUCache *)
(* in kkj-client.ts).                                                       *)
(***************************************************************************)
EXTENDS Naturals

CONSTANTS
  Key,
  Answers, \* [Key -> the answers there are to it]
  Fetch,   \* how old an answer may be when it is learnt: the longest call
  Life     \* [Key -> how long it may be held]

VARIABLE
  held     \* the answers the cache would give now, with their age

Held(k, a, age) == [key |-> k, answer |-> a, age |-> age]

Init == held = {}

\* An answer arrives and takes the place of the one held for its key; others may
\* have to make room.
Learn(k, a, age) ==
  LET new == Held(k, a, age) IN
  /\ new \in held'
  /\ held' \subseteq {h \in held : h.key # k} \cup {new}

\* Time passes for all answers alike; one whose life is over is gone.
Age ==
  held' \subseteq {Held(h.key, h.answer, h.age + 1) :
                    h \in {h \in held : h.age < Fetch + Life[h.key]}}

\* Some or all are forgotten.
Forget == held' \subseteq held

Next ==
  \/ \E k \in Key : \E a \in Answers[k], age \in 0..Fetch : Learn(k, a, age)
  \/ Age
  \/ Forget

Spec == Init /\ [][Next]_held
=============================================================================
