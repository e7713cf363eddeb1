---------------------------- MODULE JquantsClient -----------------------------
(***************************************************************************)
(* The client of the J-Quants API (src/src/api/jquants-client.ts) under the   *)
(* calls of the investor tools: a call gets the catalogue of listed companies *)
(* and, for analyze_award_price_impact, the daily bars around a notice. Each  *)
(* is looked up in the cache of the caller's key; a miss needs an id token of  *)
(* the key, kept for TokenTtl, and is fetched with retries.                  *)
(***************************************************************************)
EXTENDS Integers, Sequences, SequencesExt, FiniteSets

CONSTANTS
  Call, Key,
  Wishes,         \* [Call -> the calls it may be: a key, and "catalog" or "impact"]
  BarSets,        \* the bars J-Quants may have, which it lists in any order
  EventDays,      \* the days a notice may have been issued
  Window,         \* window_days
  TokenTtl,       \* idTokenTtlMs (20 hours)
  CacheTtl,       \* cacheTtlMs (10 minutes)
  MaxRetries,     \* maxRetries (2)
  MaxRevocations, \* bound: how often J-Quants withdraws a key or its tokens
  Null

ASSUME JquantsAssumption ==
  /\ Wishes \in [Call -> SUBSET (Key \X {"catalog", "impact"})]
  /\ {Window, MaxRetries, MaxRevocations} \subseteq Nat
  /\ {TokenTtl, CacheTtl} \subseteq Nat \ {0}
  /\ EventDays \subseteq Int
\* J-Quants has one bar for a day.
ASSUME BarsAssumption ==
  \A bars \in BarSets :
    /\ IsFiniteSet(bars)
    /\ \A a, b \in bars : a.day \in Int /\ (a.day = b.day => a = b)

VARIABLES
  accepted,    \* the keys J-Quants accepts
  revocations, \* how often it withdrew one, or the tokens of one
  idTokens,    \* [Key -> the id token kept for it, or Null]
  cache,       \* [Place -> an answer kept, or Null]
  flight,      \* [Call -> a call under way, or Null]
  answer       \* [Call -> how its call ended, or Null]

vars == <<accepted, revocations, idTokens, cache, flight, answer>>

Item == {"master", "bars"}
\* The keys of the cache: of a caller's key, an item, and the day bars are around.
Place == Key \X Item \X (EventDays \cup {0})
Token == [left : 0..TokenTtl, good : BOOLEAN]

(* A call tries each request at most MaxRetries + 1 times; a token is kept    *)
(* for TokenTtl and an answer for CacheTtl.                                  *)
TypeOK ==
  /\ accepted \subseteq Key /\ revocations \in 0..MaxRevocations
  /\ \A k \in Key : idTokens[k] # Null => idTokens[k] \in Token
  /\ \A at \in Place : cache[at] # Null =>
       cache[at].of \in Key /\ cache[at].left \in 0..CacheTtl
  /\ \A c \in Call : flight[c] # Null =>
       /\ flight[c].key \in Key /\ flight[c].attempt \in 0..MaxRetries
       /\ flight[c].stage \in {"refresh", "get", "bid"} /\ flight[c].item \in Item

Init ==
  /\ accepted = Key /\ revocations = 0
  /\ idTokens = [k \in Key |-> Null]
  /\ cache = [at \in Place |-> Null]
  /\ flight = [c \in Call |-> Null]
  /\ answer = [c \in Call |-> Null]

-----------------------------------------------------------------------------
(* The price around a notice: eventWindow *)

\* bar.adjustmentClose ?? bar.close, where parseDailyBar has put Close in its place.
Price(bar) == IF bar.adjusted # Null THEN bar.adjusted ELSE bar.close

\* Mutant of Sortings: the order of J-Quants is relied upon.
SortingsAsGiven(bars) ==
  {list \in [1..Cardinality(bars) -> bars] : ToSet(list) = bars}

\* dailyBars sorts by date: the lists of these bars that are in order, of which there
\* is one.
Sortings(bars) ==
  {list \in [1..Cardinality(bars) -> bars] :
     \A i, j \in DOMAIN list : i < j => list[i].day < list[j].day}

(* lastCloseOnOrBefore: the price of the last such bar, also when it has none. *)
CloseOnOrBefore(bars, day) ==
  LET at == {i \in DOMAIN bars : bars[i].day <= day}
  IN  IF at = {} THEN Null ELSE Price(bars[Max(at)])

\* Without a close at the end of the window, the one of the event stands in.
Impact(bars, day) ==
  LET start == CloseOnOrBefore(bars, day)
      end == CloseOnOrBefore(bars, day + Window)
      to == IF end = Null THEN start ELSE end
  IN  [start |-> start, end |-> to,
       change |-> IF start = Null \/ start = 0 THEN Null ELSE to - start]

-----------------------------------------------------------------------------
(* A call *)

Flight(key, whole, stage, item, day, good, attempt, of) ==
  [key |-> key, whole |-> whole, stage |-> stage, item |-> item, day |-> day,
   good |-> good, attempt |-> attempt, of |-> of]

\* Mutant of Namespace: one cache for every key.
NamespaceOne(key) == CHOOSE k \in Key : TRUE

\* The cache key begins with the hash of the caller's key.
Namespace(key) == key

\* cacheKey: for bars, with the days of the window.
CachePlace(f) == <<Namespace(f.key), f.item, f.day>>

Kept(f) == cache[CachePlace(f)] # Null /\ cache[CachePlace(f)].left > 0

Fails(c, how) ==
  /\ flight' = [flight EXCEPT ![c] = Null]
  /\ answer' = [answer EXCEPT ![c] =
                  [kind |-> how, key |-> flight[c].key, of |-> {}, bars |-> <<>>,
                   day |-> 0, impact |-> Null]]

(* What a call whole of the item does with it: the catalogue is an answer of  *)
(* the other tools; price impact goes on to its notice and ends on the bars.  *)
Uses(c, f, entry) ==
  LET of == f.of \cup {entry.of} IN
  IF f.item = "master" /\ f.whole = "impact"
  THEN /\ flight' = [flight EXCEPT ![c] = [f EXCEPT !.stage = "bid", !.of = of]]
       /\ UNCHANGED answer
  ELSE /\ flight' = [flight EXCEPT ![c] = Null]
       /\ answer' = [answer EXCEPT ![c] =
            [kind |-> "done", key |-> f.key, of |-> of, bars |-> entry.bars, day |-> f.day,
             impact |-> IF f.item = "bars" THEN Impact(entry.bars, f.day) ELSE Null]]

\* Mutant of Usable: a token kept is used without a look at expiresAt.
UsableEver(token) == token # Null

Usable(token) == token # Null /\ token.left > 0

(* authorizedGet, up to its first await: a token kept is used as it is, else   *)
(* one is asked for; calls that miss at the same time each ask.              *)
Get(c, f) ==
  LET token == idTokens[Namespace(f.key)] IN
  /\ flight' = [flight EXCEPT ![c] =
       IF Usable(token)
       THEN [f EXCEPT !.stage = "get", !.good = token.good, !.attempt = 0]
       ELSE [f EXCEPT !.stage = "refresh", !.attempt = 0]]
  /\ UNCHANGED answer

\* listedMaster and dailyBars, up to their first await.
Wants(c, f) ==
  /\ IF Kept(f) THEN Uses(c, f, cache[CachePlace(f)]) ELSE Get(c, f)
  /\ UNCHANGED <<accepted, revocations, idTokens, cache>>

(* A call with a key (without one the bundled catalogue answers, and price     *)
(* impact is an error).                                                      *)
Start(c, key, whole) ==
  /\ flight[c] = Null /\ answer[c] = Null
  /\ Wants(c, Flight(key, whole, "get", "master", 0, FALSE, 0, {}))

(* The company and the notice are looked up: the bars around its date, or an   *)
(* error when the company is not in the catalogue or the search fails.        *)
LookUp(c) ==
  /\ flight[c] # Null /\ flight[c].stage = "bid"
  /\ \/ \E day \in EventDays : Wants(c, [flight[c] EXCEPT !.item = "bars", !.day = day])
     \/ Fails(c, "failed") /\ UNCHANGED <<accepted, revocations, idTokens, cache>>

Asked(c, stage) == flight[c] # Null /\ flight[c].stage = stage

(* POST /token/auth_refresh: the token is kept under the key for TokenTtl.     *)
Refreshed(c) ==
  LET f == flight[c] IN
  /\ Asked(c, "refresh") /\ f.key \in accepted
  /\ idTokens' = [idTokens EXCEPT ![Namespace(f.key)] = [left |-> TokenTtl, good |-> TRUE]]
  /\ flight' = [flight EXCEPT ![c] = [f EXCEPT !.stage = "get", !.good = TRUE, !.attempt = 0]]
  /\ UNCHANGED <<accepted, revocations, cache, answer>>

(* GET of the item with a token J-Quants accepts: the answer is kept.          *)
Received(c) ==
  LET f == flight[c] IN
  /\ Asked(c, "get") /\ f.good
  /\ \E bars \in IF f.item = "bars" THEN BarSets ELSE {{}} :
     \E list \in Sortings({bar \in bars : bar.day \in (f.day - Window)..(f.day + Window)}) :
       LET entry == [of |-> f.key, left |-> CacheTtl, bars |-> list]
       IN /\ cache' = [cache EXCEPT ![CachePlace(f)] = entry]
          /\ Uses(c, f, entry)
  /\ UNCHANGED <<accepted, revocations, idTokens>>

(* 401 or 403: a key or a token J-Quants no longer accepts. The token is kept. *)
Refused(c) ==
  /\ \/ Asked(c, "refresh") /\ flight[c].key \notin accepted
     \/ Asked(c, "get") /\ ~flight[c].good
  /\ Fails(c, "refused")
  /\ UNCHANGED <<accepted, revocations, idTokens, cache>>

\* A transient failure is retried MaxRetries times.
Retry(c) ==
  IF flight[c].attempt < MaxRetries
  THEN flight' = [flight EXCEPT ![c].attempt = @ + 1] /\ UNCHANGED answer
  ELSE Fails(c, "failed")

(* A timeout, a broken connection, 429 or 5xx; or what is not retried: another *)
(* status, or an answer of auth_refresh without a token.                      *)
Trouble(c) ==
  /\ Asked(c, "refresh") \/ Asked(c, "get")
  /\ Retry(c) \/ Fails(c, "failed")
  /\ UNCHANGED <<accepted, revocations, idTokens, cache>>

\* The host takes the answer.
Take(c) ==
  /\ answer[c] # Null
  /\ answer' = [answer EXCEPT ![c] = Null]
  /\ UNCHANGED <<accepted, revocations, idTokens, cache, flight>>

-----------------------------------------------------------------------------
(* Time, J-Quants and the process *)

Older(kept) == IF kept # Null /\ kept.left > 0 THEN [kept EXCEPT !.left = @ - 1] ELSE kept

Tick ==
  /\ idTokens' = [k \in Key |-> Older(idTokens[k])]
  /\ cache' = [at \in Place |-> Older(cache[at])]
  /\ UNCHANGED <<accepted, revocations, flight, answer>>

(* J-Quants withdraws the tokens of a key, and perhaps the key.                *)
Revoke(key) ==
  /\ revocations < MaxRevocations
  /\ revocations' = revocations + 1
  /\ accepted' \in {accepted, accepted \ {key}}
  /\ idTokens' = [idTokens EXCEPT ![key] = IF @ = Null THEN Null ELSE [@ EXCEPT !.good = FALSE]]
  /\ flight' = [c \in Call |->
       IF flight[c] # Null /\ flight[c].key = key THEN [flight[c] EXCEPT !.good = FALSE]
       ELSE flight[c]]
  /\ UNCHANGED <<cache, answer>>

(* A new client: the process restarts, or the next request comes to the HTTP   *)
(* server, whose every request has a client of its own.                       *)
NewClient ==
  /\ \A c \in Call : flight[c] = Null
  /\ idTokens' = [k \in Key |-> Null]
  /\ cache' = [at \in Place |-> Null]
  /\ UNCHANGED <<accepted, revocations, flight, answer>>

-----------------------------------------------------------------------------
Ends(c) == Refreshed(c) \/ Received(c) \/ Refused(c) \/ Trouble(c)

Next ==
  \/ \E c \in Call : \E wish \in Wishes[c] : Start(c, wish[1], wish[2])
  \/ \E c \in Call : LookUp(c) \/ Ends(c) \/ Take(c)
  \/ \E key \in Key : Revoke(key)
  \/ Tick \/ NewClient

(* A request ends within timeoutMs, body included; a search ends (KkjClient);  *)
(* the host takes its answers, and time passes.                              *)
Fairness ==
  /\ \A c \in Call : WF_vars(LookUp(c)) /\ WF_vars(Ends(c)) /\ WF_vars(Take(c))
  /\ WF_vars(Tick)

Spec == Init /\ [][Next]_vars /\ Fairness

-----------------------------------------------------------------------------
(* Properties *)

(* What a call answers was fetched with its own key, whatever calls with       *)
(* other keys the client serves and caches (hashSecret namespaces).           *)
KeysSeparate ==
  \A c \in Call : answer[c] # Null /\ answer[c].kind = "done" => answer[c].of = {answer[c].key}

(* The prices compared are those of the latest bars up to the notice and up    *)
(* to the end of the window around its own day, however J-Quants orders them   *)
(* and whatever other windows are cached (eventWindow).                       *)
PricesAreLatest ==
  \A c \in Call : answer[c] # Null /\ answer[c].impact # Null =>
    LET bars == ToSet(answer[c].bars)
        day == answer[c].day
        impact == answer[c].impact
        IsLatest(price, upTo) ==
          \E bar \in bars : /\ bar.day <= upTo /\ Price(bar) = price
                            /\ \A other \in bars : other.day <= upTo => other.day <= bar.day
    IN /\ \A bar \in bars : bar.day \in (day - Window)..(day + Window)
       /\ impact.start # Null => IsLatest(impact.start, day)
       /\ impact.change # Null =>
            \/ IsLatest(impact.end, day + Window)
            \/ IsLatest(Null, day + Window) /\ impact.end = impact.start

(* A token J-Quants withdrew refuses calls until its own time is up and no     *)
(* longer: once J-Quants withdraws nothing more, calls with a key it accepts   *)
(* come not to be refused (resolveIdToken).                                  *)
RefusalsEnd ==
  <>[](\A c \in Call : answer[c] # Null /\ answer[c].kind = "refused" =>
         answer[c].key \notin accepted)
=============================================================================
