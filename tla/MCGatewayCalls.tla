--------------------------- MODULE MCGatewayCalls ---------------------------
(* TLC instances of GatewayCalls. The hub (a public server with a cache) has  *)
(* two searches whose cache keys differ, two portfolios that differ only      *)
(* inside a nested argument, so that buildCacheKey makes one key of them.     *)
(* The ledger (a financial server) has a balance and two journal entries.     *)
EXTENDS GatewayCalls

CONSTANTS hub, ledger, search, detail, plan, plan2, balance, journal, amended

LedgerOps == Op \cap {balance, journal, amended}

MCServerOf == [o \in Op |-> IF o \in LedgerOps THEN ledger ELSE hub]
MCKeyOf == [o \in Op |-> IF o = plan2 THEN plan ELSE o]
MCCacheTTL == [s \in Server |-> 2]
MCWrites == Op \cap {journal, amended}
MCPublicSearch == Op \cap {search}
MCAccountRead == Op \cap {balance}

Slots == Permutations(Call)
=============================================================================
