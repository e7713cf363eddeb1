--------------------------- MODULE MCJquantsClient ----------------------------
(* Two calls, two keys; bars to be put in order, with a day without a price.  *)
EXTENDS JquantsClient

MCWishes == [c1 |-> {<<"k1", "impact">>}, c2 |-> {<<"k1", "catalog">>, <<"k2", "catalog">>}]

MCBar(day, close, adjusted) == [day |-> day, close |-> close, adjusted |-> adjusted]
MCBarSets == {{MCBar(3, 8, Null), MCBar(1, 5, 4)}, {MCBar(2, Null, Null)}}
=============================================================================
