------------------------------ MODULE KkjClient ------------------------------
(***************************************************************************)
(* The client of the KKJ portal (src/src/api/kkj-client.ts) with its rate    *)
(* limiter (src/src/lib/rate-limiter.ts), shared by every tool call of a     *)
(* process: a search looks in the cache, takes a slot of the limiter, fetches *)
(* with a timeout, and retries transient failures after a growing delay.     *)
(*                                                                         *)
(* Time is relative. A timer is a countdown that may fire Late ticks after    *)
(* it is due, as timers of a busy event loop do: it is due from 0 down to    *)
(* -Late, where time stops until it has fired.                               *)
(***************************************************************************)
EXTENDS Integers, Sequences, SequencesExt, FiniteSets

CONSTANTS
  Query, Bid, Call,
  Results,     \* [Query -> set of the answers KKJ may give, sequences of bids]
  Interval,    \* intervalMs: a slot of the limiter
  Timeout,     \* timeoutMs
  MaxRetries, BaseDelay,
  CacheTTL, MaxCache,
  MaxRecent,   \* how many bid keys completion remembers (200)
  Remember,    \* rememberRecentBids: FALSE for the client of the HTTP server
  Late,        \* how late a timer may fire
  Idle

ASSUME ResultsAssumption ==
  Results \in [Query -> SUBSET Seq(Bid)]
ASSUME IdleAssumption ==
  Idle \notin [stage : {"wait", "fetch"}, query : Query, left : Int, attempt : Nat]
ASSUME TimeAssumption ==
  /\ {Interval, Timeout, BaseDelay, CacheTTL, MaxCache, MaxRecent} \subseteq Nat \ {0}
  /\ MaxRetries \in Nat /\ Late \in Nat
  /\ Remember \in BOOLEAN
  /\ IsFiniteSet(Call)

VARIABLES
  backlog,    \* nextAvailableAt - now, or 0 when that is past
  flight,     \* [Call -> a search under way, or Idle]
  cache,      \* the LRU cache, the least recently used result first
  recentKeys, \* recentBidKeys
  recentBids, \* the keys of the recentBids map
  quiet       \* history: time since the newest fetch began, up to Interval

vars == <<backlog, flight, cache, recentKeys, recentBids, quiet>>

\* Math.pow(2, attempt - 1) for the attempts there are.
Delay(attempt) == BaseDelay * 2 ^ (attempt - 1)

MaxWait == Interval * (Cardinality(Call) + 1)
Timers == (-Late) .. (MaxWait + Timeout + BaseDelay * 2 ^ MaxRetries)

Search == [stage : {"wait", "fetch", "sleep"}, query : Query,
           left : Timers, attempt : 0..MaxRetries]
Entry == [query : Query, bids : Seq(Bid), age : Nat, left : 0..(CacheTTL + 1)]

(* The variables keep their types; the cache holds one result per query and   *)
(* stays within its limit; completion offers the bids that are kept and no     *)
(* others, each once; a search makes no more than MaxRetries retries.         *)
TypeOK ==
  /\ backlog \in 0..(MaxWait + Interval)
  /\ flight \in [Call -> Search \cup {Idle}]
  /\ cache \in Seq(Entry)
  /\ Len(cache) <= MaxCache
  /\ \A i, j \in DOMAIN cache : cache[i].query = cache[j].query => i = j
  /\ recentKeys \in Seq(Bid) /\ Len(recentKeys) <= MaxRecent
  /\ \A i, j \in DOMAIN recentKeys : recentKeys[i] = recentKeys[j] => i = j
  /\ recentBids = ToSet(recentKeys)
  /\ quiet \in 0..Interval

Init ==
  /\ backlog = 0
  /\ flight = [k \in Call |-> Idle]
  /\ cache = <<>>
  /\ recentKeys = <<>>
  /\ recentBids = {}
  /\ quiet = Interval

-----------------------------------------------------------------------------
(* The limiter *)

(* wait: the slot after the last one reserved, at the earliest now.           *)
Reserved(waiting) == waiting + Interval

State(stage, q, left, attempt) ==
  [stage |-> stage, query |-> q, left |-> left, attempt |-> attempt]

(* await limiter.wait(), then fetchOnce: at once when no slot lies ahead.     *)
TakeSlot(k, q, attempt) ==
  /\ backlog' = Reserved(backlog)
  /\ IF backlog = 0
     THEN /\ flight' = [flight EXCEPT ![k] = State("fetch", q, Timeout, attempt)]
          /\ quiet' = 0
     ELSE /\ flight' = [flight EXCEPT ![k] = State("wait", q, backlog, attempt)]
          /\ UNCHANGED quiet

Due(k, stage) == flight[k] # Idle /\ flight[k].stage = stage /\ flight[k].left <= 0

-----------------------------------------------------------------------------
(* The cache *)

Of(q) == {i \in DOMAIN cache : cache[i].query = q}
\* delete: a query has one result at most.
Without(q) ==
  IF Of(q) = {} THEN cache
  ELSE LET i == CHOOSE i \in Of(q) : TRUE IN
       SubSeq(cache, 1, i - 1) \o SubSeq(cache, i + 1, Len(cache))
Usable(q) == {i \in Of(q) : cache[i].left > 0}

\* Mutant of Touched: a use renews the life of a result (updateAgeOnGet).
TouchedRenewed(e) == [e EXCEPT !.left = CacheTTL + 1]

(* get makes the result the most recently used one and keeps its age.         *)
Touched(e) == e

(* set replaces the result of the query; a full cache drops its first.        *)
Put(entry) ==
  LET rest == Without(entry.query)
      room == IF Len(rest) >= MaxCache THEN Tail(rest) ELSE rest
  IN  Append(room, entry)

-----------------------------------------------------------------------------
(* rememberBidKeys *)

\* new Set: the values of a list, each where it comes first; there is one such list.
Distinct(seq) ==
  LET firsts == {i \in DOMAIN seq : \A j \in 1..(i - 1) : seq[j] # seq[i]}
  IN  {[n \in DOMAIN at |-> seq[at[n]]] : at \in
         {f \in [1..Cardinality(firsts) -> firsts] : \A m, n \in DOMAIN f : m < n => f[m] < f[n]}}

RecentKeys(bids) ==
  {SubSeq(merged, 1, IF Len(merged) < MaxRecent THEN Len(merged) ELSE MaxRecent) :
     merged \in Distinct(bids \o recentKeys)}

\* Mutant of RecentBids: bids that left the list are kept.
RecentBidsKept(bids, keys) == recentBids \cup ToSet(bids)

(* The bids of the answer are added, and those off the list deleted.          *)
RecentBids(bids, keys) == (recentBids \cup ToSet(bids)) \cap ToSet(keys)

-----------------------------------------------------------------------------
(* search *)

(* A usable result answers at once; otherwise the search takes a slot. Equal  *)
(* searches under way are not merged.                                        *)
StartSearch(k, q) ==
  /\ flight[k] = Idle
  /\ \/ /\ \E i \in Usable(q) : cache' = Append(Without(q), Touched(cache[i]))
        /\ UNCHANGED <<backlog, flight, quiet>>
     \/ /\ Usable(q) = {}
        /\ cache' = Without(q)
        /\ TakeSlot(k, q, 0)
  /\ UNCHANGED <<recentKeys, recentBids>>

(* The slot has come.                                                        *)
StartFetch(k) ==
  /\ Due(k, "wait")
  /\ flight' = [flight EXCEPT ![k] =
       State("fetch", flight[k].query, Timeout, flight[k].attempt)]
  /\ quiet' = 0
  /\ UNCHANGED <<backlog, cache, recentKeys, recentBids>>

(* KKJ answered: the bids are remembered and the result is cached, whatever   *)
(* other searches have stored meanwhile.                                     *)
FetchAnswered(k) ==
  /\ flight[k] # Idle /\ flight[k].stage = "fetch"
  /\ \E bids \in Results[flight[k].query] :
       /\ cache' = Put([query |-> flight[k].query, bids |-> bids,
                        age |-> Timeout - flight[k].left, left |-> CacheTTL + 1])
       /\ \E keys \in IF Remember THEN RecentKeys(bids) ELSE {recentKeys} :
            /\ recentKeys' = keys
            /\ recentBids' = IF Remember THEN RecentBids(bids, keys) ELSE recentBids
  /\ flight' = [flight EXCEPT ![k] = Idle]
  /\ UNCHANGED <<backlog, quiet>>

\* Mutant of Attempts: the attempt is not counted.
AttemptsUncounted(n) == n

Attempts(n) == n + 1

\* Mutant of FetchFailed: the retry takes its slot before the delay, and again
\* after it.
FetchFailedReserving(k) ==
  /\ flight[k] # Idle /\ flight[k].stage = "fetch"
  /\ LET s == flight[k] IN
     flight' = [flight EXCEPT ![k] =
       IF s.attempt >= MaxRetries THEN Idle
       ELSE State("sleep", s.query, Delay(s.attempt + 1), Attempts(s.attempt))]
  /\ backlog' = Reserved(backlog)
  /\ UNCHANGED <<cache, recentKeys, recentBids, quiet>>

(* A 5xx, a timeout, a lost connection or a body without Results.             *)
FetchFailed(k) ==
  /\ flight[k] # Idle /\ flight[k].stage = "fetch"
  /\ LET s == flight[k] IN
     flight' = [flight EXCEPT ![k] =
       IF s.attempt >= MaxRetries THEN Idle
       ELSE State("sleep", s.query, Delay(s.attempt + 1), Attempts(s.attempt))]
  /\ UNCHANGED <<backlog, cache, recentKeys, recentBids, quiet>>

(* A 4xx or an error KKJ reports is not tried again.                          *)
FetchRefused(k) ==
  /\ flight[k] # Idle /\ flight[k].stage = "fetch"
  /\ flight' = [flight EXCEPT ![k] = Idle]
  /\ UNCHANGED <<backlog, cache, recentKeys, recentBids, quiet>>

\* Mutant of Retry: a retry does not pass the limiter.
RetryAtOnce(k) ==
  /\ Due(k, "sleep")
  /\ flight' = [flight EXCEPT ![k] =
       State("fetch", flight[k].query, Timeout, flight[k].attempt)]
  /\ quiet' = 0
  /\ UNCHANGED <<backlog, cache, recentKeys, recentBids>>

(* Every retry passes the limiter again.                                     *)
Retry(k) ==
  /\ Due(k, "sleep")
  /\ TakeSlot(k, flight[k].query, flight[k].attempt)
  /\ UNCHANGED <<cache, recentKeys, recentBids>>

Tick ==
  /\ \A k \in Call : flight[k] # Idle => flight[k].left > -Late
  /\ backlog' = IF backlog > 0 THEN backlog - 1 ELSE 0
  /\ flight' = [k \in Call |->
       IF flight[k] = Idle THEN Idle ELSE [flight[k] EXCEPT !.left = @ - 1]]
  /\ cache' = [i \in DOMAIN cache |->
       IF cache[i].left = 0 THEN cache[i]
       ELSE [cache[i] EXCEPT !.age = @ + 1, !.left = @ - 1]]
  /\ quiet' = IF quiet < Interval THEN quiet + 1 ELSE quiet
  /\ UNCHANGED <<recentKeys, recentBids>>

Settle(k) ==
  StartFetch(k) \/ FetchAnswered(k) \/ FetchFailed(k) \/ FetchRefused(k) \/ Retry(k)

Next ==
  \/ \E k \in Call, q \in Query : StartSearch(k, q)
  \/ \E k \in Call : Settle(k)
  \/ Tick

Spec == Init /\ [][Next]_vars

(* A due timer fires and time passes; nobody has to search.                   *)
FairSpec == Spec /\ WF_vars(Tick) /\ \A k \in Call : WF_vars(Settle(k))

-----------------------------------------------------------------------------
(* Properties *)

(* "Upstream KKJ request limit" (server.ts:22): requests to KKJ, retries      *)
(* included, begin an interval apart, less what a timer may be late.          *)
FetchesSpaced ==
  [][\A k \in Call :
       (flight[k] = Idle \/ flight[k].stage # "fetch")
       /\ flight'[k] # Idle /\ flight'[k].stage = "fetch"
       => quiet >= Interval - Late]_vars

(* The queue of the limiter never runs ahead of the searches that wait in it: *)
(* slots are not lost to failed or finished searches (rate-limiter.ts:7-9).   *)
BacklogIsWaiting ==
  backlog <= Interval *
    (1 + Cardinality({k \in Call : flight[k] # Idle /\ flight[k].stage = "wait"}))

(* A result the cache still answers with was asked for no longer ago than the *)
(* TTL and one fetch, also when a slow search stores an older result over a    *)
(* newer one (kkj-client.ts:96-111).                                         *)
ResultsFresh ==
  \A i \in DOMAIN cache :
    cache[i].left > 0 => cache[i].age <= CacheTTL + Timeout + Late

(* Every search ends, in an answer or an error.                              *)
SearchesSettle == \A k \in Call : flight[k] # Idle ~> flight[k] = Idle

-----------------------------------------------------------------------------
(* The abstract specification: what the cache would answer a search with now    *)

HeldResults ==
  {[key |-> cache[i].query, answer |-> cache[i].bids, age |-> cache[i].age] :
     i \in {i \in DOMAIN cache : cache[i].left > 0}}

Fresh == INSTANCE FreshCache WITH
  Key <- Query, Answers <- Results, Fetch <- Timeout + Late,
  Life <- [q \in Query |-> CacheTTL], held <- HeldResults

\* Every step of the searches is one step of a fresh cache or none: a result is one
\* that KKJ gave for its query, a hit does not make it younger (updateAgeOnGet is
\* off), and a slow search that stores an older result stores its true age.
ImplementsFreshCache == Fresh!Spec
=============================================================================
