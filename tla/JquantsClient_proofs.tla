------------------------- MODULE JquantsClient_proofs -------------------------
(***************************************************************************)
(* Proofs about JquantsClient, for any calls, keys, answers of J-Quants and   *)
(* lifetimes.                                                               *)
(***************************************************************************)
EXTENDS JquantsClient, FiniteSetTheorems, WellFoundedInduction, TLAPS

\* A call under way; what it answers from was fetched with its own key.
Way == [key : Key, whole : {"catalog", "impact"}, stage : {"refresh", "get", "bid"},
        item : Item, day : EventDays \cup {0}, good : BOOLEAN, attempt : 0..MaxRetries,
        of : SUBSET Key]

FlightOK ==
  /\ flight \in [Call -> Way \cup {Null}]
  /\ \A c \in Call : flight[c] # Null => flight[c].of \subseteq {flight[c].key}

\* Bars in order, all of the window around a day.
AllBars == UNION BarSets
BarsOK(bars, day) ==
  /\ bars \in Seq(AllBars)
  /\ \A i, j \in DOMAIN bars : i < j => bars[i].day < bars[j].day
  /\ \A i \in DOMAIN bars : bars[i].day \in (day - Window)..(day + Window)

\* The cache of a key holds what was fetched with it, for the day it is kept for.
EntryOK(entry, at) ==
  /\ DOMAIN entry = {"of", "left", "bars"}
  /\ entry.of = at[1]
  /\ entry.left \in 0..CacheTtl
  /\ at[2] = "bars" => BarsOK(entry.bars, at[3])
CacheOK ==
  /\ cache = [at \in Place |-> cache[at]]
  /\ \A at \in Place : cache[at] # Null => EntryOK(cache[at], at)

TokensOK == idTokens \in [Key -> Token \cup {Null}]

\* An answer about prices holds what eventWindow makes of its bars.
PricedOK ==
  \A c \in Call : answer[c] # Null /\ answer[c].impact # Null =>
    /\ answer[c].day \in Int /\ BarsOK(answer[c].bars, answer[c].day)
    /\ answer[c].impact = Impact(answer[c].bars, answer[c].day)

AnswersOK == answer = [c \in Call |-> answer[c]] /\ KeysSeparate /\ PricedOK

Bounds == accepted \subseteq Key /\ revocations \in 0..MaxRevocations

IInv == FlightOK /\ CacheOK /\ TokensOK /\ AnswersOK /\ Bounds

-----------------------------------------------------------------------------
\* The bounds, one by one.
LEMMA Numbers ==
  MaxRetries \in Nat /\ CacheTtl \in Nat /\ TokenTtl \in Nat /\ EventDays \subseteq Int
  BY JquantsAssumption

\* The first state satisfies the invariant.
LEMMA KeysInit == Init => IInv
  BY JquantsAssumption
    DEF Init, IInv, FlightOK, CacheOK, TokensOK, AnswersOK, KeysSeparate, PricedOK, Bounds

\* What dailyBars keeps for a day is in order, and of the window around it.
LEMMA SortedOK ==
  ASSUME NEW bars \in BarSets, NEW day,
         NEW list \in Sortings({bar \in bars : bar.day \in (day - Window)..(day + Window)})
  PROVE  BarsOK(list, day)
<1>1. PICK within : within = {bar \in bars : bar.day \in (day - Window)..(day + Window)}
  OBVIOUS
<1>2. Cardinality(within) \in Nat
  <2>1. IsFiniteSet(within)
    BY <1>1, BarsAssumption, FS_Subset
  <2>. QED
    BY <2>1, FS_CardinalityType
<1>3. list \in [1..Cardinality(within) -> within]
  BY <1>1 DEF Sortings
<1>4. list \in Seq(AllBars)
  <2>1. within \subseteq AllBars
    BY <1>1 DEF AllBars
  <2>. QED
    BY <1>2, <1>3, <2>1
<1>5. \A i, j \in DOMAIN list : i < j => list[i].day < list[j].day
  BY DEF Sortings
<1>6. \A i \in DOMAIN list : list[i] \in within
  BY <1>3
<1>. QED
  BY <1>1, <1>4, <1>5, <1>6 DEF BarsOK

\* The day of a call under way is a number.
LEMMA WayDays == \A f \in Way : f.day \in Int
<1>1. EventDays \cup {0} \subseteq Int
  BY Numbers
<1>2. \A f \in Way : f.day \in EventDays \cup {0}
  BY DEF Way
<1>. QED
  BY <1>1, <1>2

\* What a call does with an entry of its own key.
LEMMA UsesOK ==
  ASSUME FlightOK, AnswersOK, NEW c \in Call, NEW f \in Way, f.of \subseteq {f.key},
         NEW entry, entry.of = f.key, f.item = "bars" => BarsOK(entry.bars, f.day),
         Uses(c, f, entry)
  PROVE  FlightOK' /\ AnswersOK'
<1>1. f.of \cup {entry.of} = {f.key}
  OBVIOUS
<1>2. CASE f.item = "master" /\ f.whole = "impact"
  <2>1. [f EXCEPT !.stage = "bid", !.of = {f.key}] \in Way
    BY DEF Way
  <2>2. flight' = [flight EXCEPT ![c] = [f EXCEPT !.stage = "bid", !.of = {f.key}]]
        /\ answer' = answer
    BY <1>1, <1>2 DEF Uses
  <2>3. [f EXCEPT !.stage = "bid", !.of = {f.key}].of = {f.key}
        /\ [f EXCEPT !.stage = "bid", !.of = {f.key}].key = f.key
    BY DEF Way
  <2>. QED
    BY <2>1, <2>2, <2>3 DEF FlightOK, AnswersOK, KeysSeparate, PricedOK
<1>3. CASE ~(f.item = "master" /\ f.whole = "impact")
  <2> DEFINE of == f.of \cup {entry.of}
             impact == IF f.item = "bars" THEN Impact(entry.bars, f.day) ELSE Null
  <2>1. /\ flight' = [flight EXCEPT ![c] = Null]
        /\ answer' = [answer EXCEPT ![c] =
             [kind |-> "done", key |-> f.key, of |-> of, bars |-> entry.bars, day |-> f.day,
              impact |-> impact]]
    BY <1>3 DEF Uses
  <2>2. of = {f.key}
    BY <1>1
  <2>3. impact # Null =>
          /\ f.day \in Int /\ BarsOK(entry.bars, f.day)
          /\ impact = Impact(entry.bars, f.day)
    <3>1. f.day \in Int
      BY WayDays
    <3>2. CASE f.item = "bars"
      BY <3>1, <3>2
    <3>3. CASE f.item # "bars"
      BY <3>3
    <3>. QED
      BY <3>2, <3>3
  <2> HIDE DEF of, impact
  <2>4. FlightOK' /\ (answer = [d \in Call |-> answer[d]])' /\ KeysSeparate'
    BY <2>1, <2>2 DEF FlightOK, AnswersOK, KeysSeparate
  <2>5. PricedOK'
    BY <2>1, <2>3 DEF AnswersOK, PricedOK
  <2>. QED
    BY <2>4, <2>5 DEF AnswersOK
<1>. QED
  BY <1>2, <1>3

\* A call that fails answers with nothing of J-Quants.
LEMMA FailsOK ==
  ASSUME IInv, NEW c \in Call, NEW how \in {"failed", "refused"}, Fails(c, how)
  PROVE  FlightOK' /\ AnswersOK'
  BY DEF IInv, FlightOK, AnswersOK, KeysSeparate, PricedOK, Fails

\* What J-Quants thinks of a token is part of it and of the call that uses it.
LEMMA GoodOK ==
  ASSUME NEW good \in BOOLEAN
  PROVE  /\ \A t \in Token : [t EXCEPT !.good = good] \in Token
         /\ \A f \in Way : /\ [f EXCEPT !.good = good] \in Way
                          /\ [f EXCEPT !.good = good].of = f.of
                          /\ [f EXCEPT !.good = good].key = f.key
  BY DEF Token, Way

\* A call turns to its next request, with or without a token.
LEMMA TurnsOK ==
  ASSUME NEW f \in Way, NEW good \in BOOLEAN
  PROVE  LET get == [f EXCEPT !.stage = "get", !.good = good, !.attempt = 0]
             refresh == [f EXCEPT !.stage = "refresh", !.attempt = 0]
         IN /\ get \in Way /\ get.of = f.of /\ get.key = f.key
            /\ refresh \in Way /\ refresh.of = f.of /\ refresh.key = f.key
<1> DEFINE stays(g) == g \in Way /\ g.of = f.of /\ g.key = f.key
           good1 == [f EXCEPT !.good = good]
<1>1. stays(good1)
  BY GoodOK
<1>2. ASSUME NEW g \in Way, stays(g), NEW stage \in {"get", "refresh"}
      PROVE  stays([g EXCEPT !.stage = stage, !.attempt = 0])
  <2>1. [g EXCEPT !.stage = stage] \in Way
    BY <1>2 DEF Way
  <2>2. \A h \in Way : [h EXCEPT !.attempt = 0] \in Way
    BY Numbers DEF Way
  <2>3. [g EXCEPT !.stage = stage, !.attempt = 0]
        = [[g EXCEPT !.stage = stage] EXCEPT !.attempt = 0]
    BY <1>2 DEF Way
  <2>. QED
    BY <2>1, <2>2, <2>3, <1>2 DEF Way
<1>3. stays([f EXCEPT !.stage = "refresh", !.attempt = 0])
  BY <1>2
<1>4. stays([good1 EXCEPT !.stage = "get", !.attempt = 0])
  BY <1>1, <1>2
<1>5. [good1 EXCEPT !.stage = "get", !.attempt = 0]
      = [f EXCEPT !.stage = "get", !.good = good, !.attempt = 0]
  BY DEF Way
<1>. QED
  BY <1>3, <1>4, <1>5

\* A call that wants an item finds it under its own key, or asks.
LEMMA WantsOK ==
  ASSUME IInv, NEW c \in Call, NEW f \in Way, f.of \subseteq {f.key}, Wants(c, f)
  PROVE  IInv'
<1>1. CacheOK' /\ TokensOK' /\ Bounds'
  BY DEF IInv, CacheOK, TokensOK, Bounds, Wants
<1>2. CachePlace(f) = <<f.key, f.item, f.day>> /\ CachePlace(f) \in Place
  BY DEF Way, CachePlace, Namespace, Place
<1>3. CASE Kept(f)
  <2>1. EntryOK(cache[CachePlace(f)], CachePlace(f))
    BY <1>2, <1>3 DEF IInv, CacheOK, Kept
  <2>2. Uses(c, f, cache[CachePlace(f)])
    BY <1>3 DEF Wants
  <2>3. /\ cache[CachePlace(f)].of = f.key
        /\ f.item = "bars" => BarsOK(cache[CachePlace(f)].bars, f.day)
    BY <1>2, <2>1 DEF EntryOK
  <2>. QED
    BY <1>1, <2>2, <2>3, UsesOK DEF IInv
<1>4. CASE ~Kept(f)
  <2> DEFINE token == idTokens[f.key]
             asks == IF Usable(token)
                     THEN [f EXCEPT !.stage = "get", !.good = token.good, !.attempt = 0]
                     ELSE [f EXCEPT !.stage = "refresh", !.attempt = 0]
  <2>1. flight' = [flight EXCEPT ![c] = asks] /\ answer' = answer
    BY <1>4 DEF Wants, Get, Namespace
  <2>2. Usable(token) => token.good \in BOOLEAN
    BY DEF Usable, IInv, TokensOK, Token, Way
  <2>3. asks \in Way /\ asks.of = f.of /\ asks.key = f.key
    <3>1. CASE Usable(token)
      BY <2>2, <3>1, TurnsOK
    <3>2. CASE ~Usable(token)
      BY <3>2, TurnsOK
    <3>. QED
      BY <3>1, <3>2
  <2> HIDE DEF asks
  <2>5. FlightOK' /\ AnswersOK'
    BY <2>1, <2>3 DEF IInv, FlightOK, AnswersOK, KeysSeparate, PricedOK
  <2>. QED
    BY <1>1, <2>5 DEF IInv
<1>. QED
  BY <1>3, <1>4

\* A call that goes on keeps its key and what it has used.
LEMMA GoesOnOK ==
  ASSUME FlightOK, NEW c \in Call, flight[c] # Null, NEW f \in Way,
         f.of = flight[c].of, f.key = flight[c].key, flight' = [flight EXCEPT ![c] = f]
  PROVE  FlightOK'
  BY DEF FlightOK

\* Every action keeps the keys apart.
LEMMA KeysStep == IInv /\ [Next]_vars => IInv'
<1> SUFFICES ASSUME IInv, [Next]_vars PROVE IInv'
  OBVIOUS
<1> USE JquantsAssumption, Numbers
<1>0. \A c \in Call : flight[c] # Null => flight[c] \in Way
  BY DEF IInv, FlightOK
<1>1. ASSUME NEW c \in Call, NEW wish \in Wishes[c], Start(c, wish[1], wish[2]) PROVE IInv'
  <2> DEFINE f == Flight(wish[1], wish[2], "get", "master", 0, FALSE, 0, {})
  <2>1. wish[1] \in Key /\ wish[2] \in {"catalog", "impact"}
    OBVIOUS
  <2>2. f \in Way /\ f.of = {}
    BY <2>1 DEF Flight, Way, Item
  <2>3. Wants(c, f)
    BY <1>1 DEF Start
  <2>. QED
    BY <2>2, <2>3, WantsOK
<1>2. ASSUME NEW c \in Call, LookUp(c) PROVE IInv'
  <2>1. flight[c] \in Way /\ flight[c].of \subseteq {flight[c].key}
    BY <1>2 DEF LookUp, IInv, FlightOK
  <2>2. ASSUME NEW day \in EventDays, Wants(c, [flight[c] EXCEPT !.item = "bars", !.day = day])
        PROVE  IInv'
    <3> DEFINE f == [flight[c] EXCEPT !.item = "bars", !.day = day]
    <3>1. f \in Way /\ f.of \subseteq {f.key}
      BY <2>1 DEF Way, Item
    <3>. QED
      BY <2>2, <3>1, WantsOK
  <2>3. ASSUME Fails(c, "failed"), UNCHANGED <<accepted, revocations, idTokens, cache>>
        PROVE  IInv'
    BY <2>3, FailsOK DEF IInv, CacheOK, TokensOK, Bounds
  <2>. QED
    BY <1>2, <2>2, <2>3 DEF LookUp
<1>3. ASSUME NEW c \in Call, Refreshed(c) PROVE IInv'
  <2> DEFINE f == [flight[c] EXCEPT !.stage = "get", !.good = TRUE, !.attempt = 0]
  <2>1. flight[c] # Null /\ flight[c] \in Way
    BY <1>0, <1>3 DEF Refreshed, Asked
  <2>2. f \in Way /\ f.of = flight[c].of /\ f.key = flight[c].key
    <3>1. TRUE \in BOOLEAN
      OBVIOUS
    <3>. QED
      BY <2>1, <3>1, TurnsOK
  <2>3. flight' = [flight EXCEPT ![c] = f]
    BY <1>3 DEF Refreshed
  <2>4. FlightOK'
    BY <2>1, <2>2, <2>3, GoesOnOK DEF IInv
  <2>5. TokensOK'
    BY <1>3, <2>1 DEF Refreshed, IInv, TokensOK, Token, Namespace, Way
  <2>. QED
    BY <1>3, <2>4, <2>5 DEF Refreshed, IInv, CacheOK, AnswersOK, KeysSeparate, PricedOK, Bounds
<1>4. ASSUME NEW c \in Call, Received(c) PROVE IInv'
  <2>1. flight[c] \in Way /\ flight[c].of \subseteq {flight[c].key}
    BY <1>4 DEF Received, Asked, IInv, FlightOK
  <2>2. PICK bars \in IF flight[c].item = "bars" THEN BarSets ELSE {{}} :
          \E list \in Sortings({bar \in bars : bar.day
                         \in (flight[c].day - Window)..(flight[c].day + Window)}) :
            LET entry == [of |-> flight[c].key, left |-> CacheTtl, bars |-> list] IN
            /\ cache' = [cache EXCEPT ![CachePlace(flight[c])] = entry]
            /\ Uses(c, flight[c], entry)
    BY <1>4 DEF Received
  <2>3. PICK list \in Sortings({bar \in bars : bar.day
                         \in (flight[c].day - Window)..(flight[c].day + Window)}) :
          LET entry == [of |-> flight[c].key, left |-> CacheTtl, bars |-> list] IN
          /\ cache' = [cache EXCEPT ![CachePlace(flight[c])] = entry]
          /\ Uses(c, flight[c], entry)
    BY <2>2
  <2> DEFINE entry == [of |-> flight[c].key, left |-> CacheTtl, bars |-> list]
             own == CachePlace(flight[c])
  <2>4. own = <<flight[c].key, flight[c].item, flight[c].day>> /\ own \in Place
    BY <2>1 DEF Way, CachePlace, Namespace, Place
  <2>5. flight[c].item = "bars" => BarsOK(list, flight[c].day)
    BY <2>2, <2>3, SortedOK
  <2>6. entry.of = flight[c].key /\ (flight[c].item = "bars" => BarsOK(entry.bars, flight[c].day))
    BY <2>5
  <2>7. EntryOK(entry, own)
    BY <2>4, <2>6 DEF EntryOK
  <2>8. Uses(c, flight[c], entry) /\ cache' = [cache EXCEPT ![own] = entry]
    BY <2>3
  <2> HIDE DEF entry, own
  <2>9. FlightOK' /\ AnswersOK'
    BY <2>1, <2>6, <2>8, UsesOK DEF IInv
  <2>10. CacheOK'
    BY <2>4, <2>7, <2>8 DEF IInv, CacheOK
  <2>. QED
    BY <1>4, <2>9, <2>10 DEF Received, IInv, TokensOK, Bounds
<1>5. ASSUME NEW c \in Call, Refused(c) PROVE IInv'
  BY <1>5, FailsOK DEF Refused, IInv, CacheOK, TokensOK, Bounds
<1>6. ASSUME NEW c \in Call, Trouble(c) PROVE IInv'
  <2>1. CacheOK' /\ TokensOK' /\ Bounds'
    BY <1>6 DEF Trouble, IInv, CacheOK, TokensOK, Bounds
  <2>2. CASE Fails(c, "failed")
    BY <2>1, <2>2, FailsOK DEF IInv
  <2>3. CASE flight[c].attempt < MaxRetries /\ Retry(c)
    <3> DEFINE f == [flight[c] EXCEPT !.attempt = @ + 1]
    <3>1. flight[c] # Null /\ flight[c] \in Way
      BY <1>0, <1>6 DEF Trouble, Asked
    <3>2. f \in Way /\ f.of = flight[c].of /\ f.key = flight[c].key
      BY <2>3, <3>1 DEF Way
    <3>3. flight' = [flight EXCEPT ![c] = f] /\ answer' = answer
      BY <2>3 DEF Retry
    <3>4. FlightOK'
      BY <3>1, <3>2, <3>3, GoesOnOK DEF IInv
    <3>. QED
      BY <2>1, <3>3, <3>4 DEF IInv, AnswersOK, KeysSeparate, PricedOK
  <2>. QED
    BY <1>6, <2>2, <2>3 DEF Trouble, Retry
<1>7. ASSUME NEW c \in Call, Take(c) PROVE IInv'
  BY <1>7 DEF Take, IInv, FlightOK, CacheOK, TokensOK, AnswersOK, KeysSeparate, PricedOK, Bounds
<1>8. ASSUME NEW key \in Key, Revoke(key) PROVE IInv'
  <2>1. \A c \in Call : flight[c] # Null =>
          /\ [flight[c] EXCEPT !.good = FALSE] \in Way
          /\ [flight[c] EXCEPT !.good = FALSE].of = flight[c].of
          /\ [flight[c] EXCEPT !.good = FALSE].key = flight[c].key
    <3>1. FALSE \in BOOLEAN
      OBVIOUS
    <3>. QED
      BY <1>0, <3>1, GoodOK
  <2>2. FlightOK'
    BY <1>8, <2>1 DEF Revoke, IInv, FlightOK
  <2>3. TokensOK'
    <3>1. FALSE \in BOOLEAN
      OBVIOUS
    <3>2. \A t \in Token : [t EXCEPT !.good = FALSE] \in Token
      BY <3>1, GoodOK
    <3>. QED
      BY <1>8, <3>2 DEF Revoke, IInv, TokensOK
  <2>4. Bounds'
    BY <1>8 DEF Revoke, IInv, Bounds
  <2>. QED
    BY <1>8, <2>2, <2>3, <2>4 DEF Revoke, IInv, CacheOK, AnswersOK, KeysSeparate, PricedOK
<1>9. CASE Tick
  <2>1. TokensOK'
    BY <1>9 DEF Tick, IInv, TokensOK, Token, Older
  <2>2. ASSUME NEW at \in Place, cache'[at] # Null
        PROVE  EntryOK(cache'[at], at)
    <3>1. cache'[at] = Older(cache[at])
      BY <1>9 DEF Tick
    <3>2. EntryOK(cache[at], at)
      BY <2>2, <3>1 DEF Older, IInv, CacheOK
    <3>. QED
      BY <3>1, <3>2 DEF Older, EntryOK
  <2>3. CacheOK'
    BY <1>9, <2>2 DEF Tick, CacheOK
  <2>. QED
    BY <1>9, <2>1, <2>3 DEF Tick, IInv, FlightOK, AnswersOK, KeysSeparate, PricedOK, Bounds
<1>10. CASE NewClient
  BY <1>10 DEF NewClient, IInv, FlightOK, CacheOK, TokensOK, AnswersOK, KeysSeparate, PricedOK, Bounds
<1>11. CASE UNCHANGED vars
  BY <1>11 DEF vars, IInv, FlightOK, CacheOK, TokensOK, AnswersOK, KeysSeparate, PricedOK, Bounds
<1>. QED
  BY <1>1, <1>2, <1>3, <1>4, <1>5, <1>6, <1>7, <1>8, <1>9, <1>10, <1>11 DEF Next, Ends

\* Whatever calls with other keys are served and cached, an answer holds only
\* what was fetched with the key of its own call (hashSecret, cacheKey).
THEOREM KeysApart == Spec => []KeysSeparate
<1>1. IInv => KeysSeparate
  BY DEF IInv, AnswersOK
<1>. QED
  BY KeysInit, KeysStep, <1>1, PTL DEF Spec

\* The variables keep their types: a request is tried at most MaxRetries + 1
\* times, a token kept at most TokenTtl and an answer at most CacheTtl.
THEOREM TypeCorrect == Spec => []TypeOK
<1>1. IInv => TypeOK
  <2> SUFFICES ASSUME IInv PROVE TypeOK
    OBVIOUS
  <2>1. ASSUME NEW at \in Place, cache[at] # Null
        PROVE  cache[at].of \in Key /\ cache[at].left \in 0..CacheTtl
    BY <2>1 DEF IInv, CacheOK, EntryOK, Place
  <2>. QED
    BY <2>1 DEF IInv, FlightOK, TokensOK, Bounds, Way, TypeOK
<1>. QED
  BY KeysInit, KeysStep, <1>1, PTL DEF Spec

-----------------------------------------------------------------------------
(* The prices *)

\* Some of the positions of a list have a last one: the least number of steps back.
LEMMA LastPosition ==
  ASSUME NEW n \in Nat, NEW at \in SUBSET (1..n), at # {}
  PROVE  Max(at) \in at /\ \A i \in at : i <= Max(at)
<1>1. PICK less : less = {pair \in Nat \X Nat : pair[1] < pair[2]}
  OBVIOUS
<1>2. PICK back : back = {n - i : i \in at}
  OBVIOUS
<1>3. back \subseteq Nat /\ back # {}
  <2>1. \A i \in at : n - i \in Nat
    OBVIOUS
  <2>. QED
    BY <1>2, <2>1
<1>4. PICK least \in back : \A m \in back : ~(<<m, least>> \in less)
  BY <1>1, <1>3, NatLessThanWellFounded, WFMin DEF OpToRel
<1>5. PICK last \in at : least = n - last
  BY <1>2
<1>6. ASSUME NEW i \in at PROVE i <= last
  <2>1. n - i \in back /\ n - i \in Nat /\ least \in Nat
    BY <1>2, <1>3
  <2>2. ~(n - i < least)
    BY <1>1, <1>4, <2>1
  <2>. QED
    BY <1>5, <2>2
<1>. QED
  BY <1>6 DEF Max

\* lastCloseOnOrBefore finds a latest bar of bars in order, where there is one.
LEMMA CloseIsLatest ==
  ASSUME NEW day, NEW bars, BarsOK(bars, day), NEW upTo \in Int,
         NEW some \in ToSet(bars), some.day <= upTo
  PROVE  \E bar \in ToSet(bars) :
           /\ bar.day <= upTo /\ Price(bar) = CloseOnOrBefore(bars, upTo)
           /\ \A other \in ToSet(bars) : other.day <= upTo => other.day <= bar.day
<1>1. PICK at : at = {i \in DOMAIN bars : bars[i].day <= upTo}
  OBVIOUS
<1>2. Len(bars) \in Nat /\ DOMAIN bars = 1..Len(bars)
  BY DEF BarsOK
<1>3. at \in SUBSET (1..Len(bars)) /\ at # {}
  BY <1>1, <1>2 DEF ToSet
<1>4. PICK last : last = Max(at) /\ last \in at /\ \A i \in at : i <= last
  BY <1>2, <1>3, LastPosition
<1>5. CloseOnOrBefore(bars, upTo) = Price(bars[last])
  BY <1>1, <1>3, <1>4 DEF CloseOnOrBefore
<1>6. \A i \in DOMAIN bars : bars[i].day \in Int
  BY DEF BarsOK
<1>7. \A i \in at : bars[i].day <= bars[last].day
  <2>1. TAKE i \in at
  <2>2. i \in Int /\ last \in Int /\ i <= last /\ i \in DOMAIN bars /\ last \in DOMAIN bars
    BY <1>2, <1>3, <1>4
  <2>3. CASE i = last
    BY <1>6, <2>2, <2>3
  <2>4. CASE i < last
    BY <1>6, <2>2, <2>4 DEF BarsOK
  <2>. QED
    BY <2>2, <2>3, <2>4
<1>8. bars[last] \in ToSet(bars) /\ bars[last].day <= upTo
  BY <1>1, <1>4 DEF ToSet
<1>9. \A other \in ToSet(bars) : other.day <= upTo => other.day <= bars[last].day
  BY <1>1, <1>7 DEF ToSet
<1>. QED
  BY <1>5, <1>8, <1>9

\* Where there is no such bar there is no price.
LEMMA NoClose ==
  ASSUME NEW bars, NEW upTo, \A bar \in ToSet(bars) : ~(bar.day <= upTo)
  PROVE  CloseOnOrBefore(bars, upTo) = Null
  BY DEF CloseOnOrBefore, ToSet

(* The impact of a notice compares the close on or before its day with the one on  *)
(* or before the end of its window, in bars of that window, whatever is cached and  *)
(* in whatever order J-Quants lists them (dailyBars, eventWindow).               *)
THEOREM LatestPrices == Spec => []PricesAreLatest
<1>1. ASSUME PricedOK, NEW c \in Call, answer[c] # Null, answer[c].impact # Null,
             NEW bars, bars = ToSet(answer[c].bars), NEW day, day = answer[c].day,
             NEW impact, impact = answer[c].impact
      PROVE  LET IsLatest(price, upTo) ==
                   \E bar \in bars : /\ bar.day <= upTo /\ Price(bar) = price
                                     /\ \A other \in bars :
                                          other.day <= upTo => other.day <= bar.day
             IN /\ \A bar \in bars : bar.day \in (day - Window)..(day + Window)
                /\ impact.start # Null => IsLatest(impact.start, day)
                /\ impact.change # Null =>
                     \/ IsLatest(impact.end, day + Window)
                     \/ IsLatest(Null, day + Window) /\ impact.end = impact.start
  <2> DEFINE IsLatest(price, upTo) ==
               \E bar \in bars : /\ bar.day <= upTo /\ Price(bar) = price
                                 /\ \A other \in bars :
                                      other.day <= upTo => other.day <= bar.day
  <2>1. PICK list : list = answer[c].bars
    OBVIOUS
  <2>2. day \in Int /\ BarsOK(list, day) /\ impact = Impact(list, day) /\ bars = ToSet(list)
    BY <1>1, <2>1 DEF PricedOK
  <2>3. day + Window \in Int /\ Window \in Nat
    BY <2>2, JquantsAssumption
  <2>4. PICK start, end :
          start = CloseOnOrBefore(list, day) /\ end = CloseOnOrBefore(list, day + Window)
    OBVIOUS
  <2>5. /\ impact.start = start
        /\ impact.end = IF end = Null THEN start ELSE end
        /\ impact.change # Null => start # Null
    BY <2>2, <2>4 DEF Impact
  <2>6. \A bar \in bars : bar.day \in (day - Window)..(day + Window)
    BY <2>2 DEF BarsOK, ToSet
  <2>7. ASSUME start # Null
        PROVE  IsLatest(start, day) /\ IsLatest(end, day + Window)
    <3>1. PICK some \in bars : some.day <= day
      BY <2>2, <2>4, <2>7, NoClose
    <3>2. some.day <= day + Window
      BY <2>2, <2>3, <2>6, <3>1
    <3>3. IsLatest(start, day)
      BY <2>2, <2>4, <3>1, CloseIsLatest
    <3>4. IsLatest(end, day + Window)
      BY <2>2, <2>3, <2>4, <3>1, <3>2, CloseIsLatest
    <3>. QED
      BY <3>3, <3>4
  <2> HIDE DEF IsLatest
  <2>8. \/ ~(impact.change # Null)
        \/ IsLatest(impact.end, day + Window)
        \/ IsLatest(Null, day + Window) /\ impact.end = impact.start
    BY <2>5, <2>7
  <2>9. impact.start # Null => IsLatest(impact.start, day)
    BY <2>5, <2>7
  <2>. QED
    BY <2>6, <2>8, <2>9 DEF IsLatest
<1>2. IInv => PricesAreLatest
  BY <1>1 DEF IInv, AnswersOK, PricesAreLatest
<1>. QED
  BY KeysInit, KeysStep, <1>2, PTL DEF Spec
-----------------------------------------------------------------------------
(* Where a refusal comes from *)

\* A token kept that J-Quants no longer accepts.
Withdrawn(tokens, k) == tokens[k] # Null /\ ~tokens[k].good

\* A call that is about to be refused.
Doomed(flights, c) ==
  /\ flights[c] # Null
  /\ \/ flights[c].stage = "refresh" /\ flights[c].key \notin accepted
     \/ flights[c].stage = "get" /\ ~flights[c].good

WasRefused(answers, c) == answers[c] # Null /\ answers[c].kind = "refused"

(* What a step may do as long as J-Quants withdraws nothing: a token that is   *)
(* withdrawn grows no younger and no other becomes so; a call comes to be      *)
(* refused only by such a token in its time, or by a key J-Quants does not     *)
(* accept (resolveIdToken).                                                   *)
RefusalsWane ==
  revocations' = revocations =>
    /\ accepted' = accepted
    /\ \A k \in Key : Withdrawn(idTokens', k) =>
         Withdrawn(idTokens, k) /\ idTokens'[k].left <= idTokens[k].left
    /\ \A c \in Call : Doomed(flight', c) =>
         LET k == flight'[c].key IN
         \/ Doomed(flight, c)
         \/ k \notin accepted
         \/ Withdrawn(idTokens, k) /\ idTokens[k].left > 0
    /\ \A c \in Call : WasRefused(answer', c) =>
         WasRefused(answer, c) \/ Doomed(flight, c)

(* While J-Quants has withdrawn nothing, no call is refused.                  *)
Unprovoked ==
  revocations = 0 =>
    /\ accepted = Key
    /\ \A k \in Key : ~Withdrawn(idTokens, k)
    /\ \A c \in Call : ~Doomed(flight, c) /\ ~WasRefused(answer, c)

\* A step that leaves the tokens alone and dooms calls for a cause keeps the rule.
LEMMA DoomedForCause ==
  ASSUME IInv, UNCHANGED <<accepted, idTokens>>,
         \A c \in Call : Doomed(flight', c) =>
           \/ Doomed(flight, c)
           \/ flight'[c].key \notin accepted
           \/ Withdrawn(idTokens, flight'[c].key) /\ idTokens[flight'[c].key].left > 0,
         \A c \in Call : WasRefused(answer', c) => WasRefused(answer, c) \/ Doomed(flight, c)
  PROVE  RefusalsWane
<1>1. \A k \in Key : Withdrawn(idTokens, k) => idTokens[k].left <= idTokens[k].left
  BY JquantsAssumption DEF IInv, TokensOK, Token, Withdrawn
<1>2. \A k \in Key : Withdrawn(idTokens', k) =>
        Withdrawn(idTokens, k) /\ idTokens'[k].left <= idTokens[k].left
  BY <1>1 DEF Withdrawn
<1>. QED
  BY <1>2 DEF RefusalsWane

\* A call that fails is doomed no more, and was refused only when it was.
LEMMA FailsWanes ==
  ASSUME IInv, NEW c \in Call, NEW how \in {"failed", "refused"}, Fails(c, how),
         how = "refused" => Doomed(flight, c), UNCHANGED <<accepted, idTokens>>
  PROVE  RefusalsWane
<1>1. /\ flight'[c] = Null /\ answer'[c].kind = how
      /\ \A d \in Call : d # c => flight'[d] = flight[d] /\ answer'[d] = answer[d]
  BY DEF IInv, FlightOK, AnswersOK, Fails
<1>2. \A d \in Call : Doomed(flight', d) => Doomed(flight, d)
  BY <1>1 DEF Doomed
<1>3. \A d \in Call : WasRefused(answer', d) => WasRefused(answer, d) \/ Doomed(flight, d)
  BY <1>1 DEF WasRefused
<1>. QED
  BY <1>2, <1>3, DoomedForCause

\* A call that uses an item goes on to its notice or is done.
LEMMA UsesWanes ==
  ASSUME IInv, NEW c \in Call, NEW f \in Way, NEW entry, Uses(c, f, entry),
         UNCHANGED <<accepted, idTokens>>
  PROVE  RefusalsWane
<1>1. \/ flight'[c] = Null /\ answer'[c].kind = "done"
      \/ flight'[c].stage = "bid" /\ answer'[c] = answer[c]
  <2>1. CASE f.item = "master" /\ f.whole = "impact"
    BY <2>1 DEF Uses, IInv, FlightOK, Way
  <2>2. CASE ~(f.item = "master" /\ f.whole = "impact")
    BY <2>2 DEF Uses, IInv, FlightOK, AnswersOK
  <2>. QED
    BY <2>1, <2>2
<1>2. \A d \in Call : d # c => flight'[d] = flight[d] /\ answer'[d] = answer[d]
  <2>1. CASE f.item = "master" /\ f.whole = "impact"
    BY <2>1 DEF Uses, IInv, FlightOK, AnswersOK
  <2>2. CASE ~(f.item = "master" /\ f.whole = "impact")
    BY <2>2 DEF Uses, IInv, FlightOK, AnswersOK
  <2>. QED
    BY <2>1, <2>2
<1>3. \A d \in Call : Doomed(flight', d) => Doomed(flight, d)
  BY <1>1, <1>2 DEF Doomed
<1>4. \A d \in Call : WasRefused(answer', d) => WasRefused(answer, d) \/ Doomed(flight, d)
  BY <1>1, <1>2 DEF WasRefused
<1>. QED
  BY <1>3, <1>4, DoomedForCause

\* A call that wants an item asks for it with the token kept for its key, if
\* that one is still to be used.
LEMMA WantsWanes ==
  ASSUME IInv, NEW c \in Call, NEW f \in Way, Wants(c, f)
  PROVE  RefusalsWane
<1>1. UNCHANGED <<accepted, idTokens>>
  BY DEF Wants
<1>2. CASE Kept(f)
  BY <1>1, <1>2, UsesWanes DEF Wants
<1>3. CASE ~Kept(f)
  <2> DEFINE k == f.key
  <2>1. Get(c, f)
    BY <1>3 DEF Wants
  <2>2. k \in Key /\ idTokens[k] \in Token \cup {Null}
    BY DEF IInv, TokensOK, Way
  <2>3. CASE Usable(idTokens[k])
    <3>1. /\ flight'[c].stage = "get" /\ flight'[c].key = k
          /\ flight'[c].good = idTokens[k].good
      BY <2>1, <2>3 DEF Get, Namespace, IInv, FlightOK, Way
    <3>2. /\ answer' = answer
          /\ \A d \in Call : d # c => flight'[d] = flight[d]
      BY <2>1, <2>3 DEF Get, IInv, FlightOK
    <3>3. Doomed(flight', c) => Withdrawn(idTokens, k) /\ idTokens[k].left > 0
      BY <2>3, <3>1 DEF Doomed, Withdrawn, Usable
    <3>4. \A d \in Call : d # c => (Doomed(flight', d) => Doomed(flight, d))
      BY <3>2 DEF Doomed
    <3>5. \A d \in Call : WasRefused(answer', d) => WasRefused(answer, d)
      BY <3>2 DEF WasRefused
    <3>. QED
      BY <1>1, <3>1, <3>3, <3>4, <3>5, DoomedForCause
  <2>4. CASE ~Usable(idTokens[k])
    <3>1. /\ flight'[c].stage = "refresh" /\ flight'[c].key = k
          /\ answer' = answer
          /\ \A d \in Call : d # c => flight'[d] = flight[d]
      BY <2>1, <2>4 DEF Get, Namespace, IInv, FlightOK, Way
    <3>2. Doomed(flight', c) => k \notin accepted
      BY <3>1 DEF Doomed
    <3>3. \A d \in Call : d # c => (Doomed(flight', d) => Doomed(flight, d))
      BY <3>1 DEF Doomed
    <3>4. \A d \in Call : WasRefused(answer', d) => WasRefused(answer, d)
      BY <3>1 DEF WasRefused
    <3>. QED
      BY <1>1, <3>1, <3>2, <3>3, <3>4, DoomedForCause
  <2>. QED
    BY <2>3, <2>4
<1>. QED
  BY <1>2, <1>3

\* Every action but Revoke lets the refusals wane, and Revoke is counted.
LEMMA WaneStep ==
  IInv /\ [Next]_vars => RefusalsWane /\ (revocations' = 0 => revocations = 0)
<1> SUFFICES ASSUME IInv, [Next]_vars
             PROVE  RefusalsWane /\ (revocations' = 0 => revocations = 0)
  OBVIOUS
<1> USE JquantsAssumption, Numbers
<1>0. \A c \in Call : flight[c] # Null => flight[c] \in Way
  BY DEF IInv, FlightOK
<1>1. ASSUME NEW c \in Call, NEW wish \in Wishes[c], Start(c, wish[1], wish[2])
      PROVE  RefusalsWane /\ revocations' = revocations
  <2> DEFINE f == Flight(wish[1], wish[2], "get", "master", 0, FALSE, 0, {})
  <2>1. wish[1] \in Key /\ wish[2] \in {"catalog", "impact"}
    OBVIOUS
  <2>2. f \in Way
    BY <2>1 DEF Flight, Way, Item
  <2>3. Wants(c, f)
    BY <1>1 DEF Start
  <2>. QED
    BY <2>2, <2>3, WantsWanes DEF Wants
<1>2. ASSUME NEW c \in Call, LookUp(c) PROVE RefusalsWane /\ revocations' = revocations
  <2>1. flight[c] \in Way
    BY <1>0, <1>2 DEF LookUp
  <2>2. ASSUME NEW day \in EventDays, Wants(c, [flight[c] EXCEPT !.item = "bars", !.day = day])
        PROVE  RefusalsWane /\ revocations' = revocations
    <3>1. [flight[c] EXCEPT !.item = "bars", !.day = day] \in Way
      BY <2>1 DEF Way, Item
    <3>. QED
      BY <2>2, <3>1, WantsWanes DEF Wants
  <2>3. ASSUME Fails(c, "failed"), UNCHANGED <<accepted, revocations, idTokens, cache>>
        PROVE  RefusalsWane /\ revocations' = revocations
    BY <2>3, FailsWanes
  <2>. QED
    BY <1>2, <2>2, <2>3 DEF LookUp
<1>3. ASSUME NEW c \in Call, Refreshed(c) PROVE RefusalsWane /\ revocations' = revocations
  <2>1. flight[c] \in Way /\ flight[c] # Null /\ flight[c].key \in Key
    BY <1>0, <1>3 DEF Refreshed, Asked, Way
  <2>2. flight' = [flight EXCEPT ![c] =
                     [flight[c] EXCEPT !.stage = "get", !.good = TRUE, !.attempt = 0]]
    BY <1>3 DEF Refreshed
  <2>3. /\ flight'[c].good = TRUE /\ flight'[c].stage = "get"
        /\ \A d \in Call : d # c => flight'[d] = flight[d]
    BY <2>1, <2>2 DEF IInv, FlightOK, Way
  <2>4. \A d \in Call : Doomed(flight', d) => Doomed(flight, d)
    BY <2>3 DEF Doomed
  <2>5. /\ idTokens'[flight[c].key].good = TRUE
        /\ \A k \in Key : k # flight[c].key => idTokens'[k] = idTokens[k]
    BY <1>3, <2>1 DEF Refreshed, Namespace, IInv, TokensOK
  <2>6. \A k \in Key : Withdrawn(idTokens', k) =>
          Withdrawn(idTokens, k) /\ idTokens'[k].left <= idTokens[k].left
    BY <2>5 DEF Withdrawn, IInv, TokensOK, Token
  <2>. QED
    BY <1>3, <2>4, <2>6 DEF RefusalsWane, Refreshed, WasRefused
<1>4. ASSUME NEW c \in Call, Received(c) PROVE RefusalsWane /\ revocations' = revocations
  <2>1. flight[c] \in Way
    BY <1>0, <1>4 DEF Received, Asked
  <2>2. \E entry : Uses(c, flight[c], entry)
    BY <1>4 DEF Received
  <2>. QED
    BY <1>4, <2>1, <2>2, UsesWanes DEF Received
<1>5. ASSUME NEW c \in Call, Refused(c) PROVE RefusalsWane /\ revocations' = revocations
  <2>1. Doomed(flight, c)
    BY <1>5 DEF Refused, Asked, Doomed
  <2>. QED
    BY <1>5, <2>1, FailsWanes DEF Refused
<1>6. ASSUME NEW c \in Call, Trouble(c) PROVE RefusalsWane /\ revocations' = revocations
  <2>1. CASE Fails(c, "failed")
    BY <1>6, <2>1, FailsWanes DEF Trouble
  <2>2. CASE Retry(c) /\ ~Fails(c, "failed")
    <3>1. flight[c] \in Way
      BY <1>0, <1>6 DEF Trouble, Asked
    <3>2. flight' = [flight EXCEPT ![c].attempt = @ + 1] /\ answer' = answer
      BY <2>2 DEF Retry
    <3>3. /\ flight'[c].stage = flight[c].stage /\ flight'[c].good = flight[c].good
          /\ flight'[c].key = flight[c].key
          /\ \A d \in Call : d # c => flight'[d] = flight[d]
      BY <3>1, <3>2 DEF IInv, FlightOK, Way
    <3>4. flight[c] # Null
      BY <1>6 DEF Trouble, Asked
    <3>5. \A d \in Call : Doomed(flight', d) => Doomed(flight, d)
      BY <3>3, <3>4 DEF Doomed
    <3>6. \A d \in Call : WasRefused(answer', d) => WasRefused(answer, d)
      BY <3>2 DEF WasRefused
    <3>. QED
      BY <1>6, <3>5, <3>6, DoomedForCause DEF Trouble
  <2>. QED
    BY <1>6, <2>1, <2>2 DEF Trouble
<1>7. ASSUME NEW c \in Call, Take(c) PROVE RefusalsWane /\ revocations' = revocations
  <2>1. \A d \in Call : Doomed(flight', d) => Doomed(flight, d)
    BY <1>7 DEF Take, Doomed
  <2>2. \A d \in Call : WasRefused(answer', d) => WasRefused(answer, d)
    BY <1>7 DEF Take, WasRefused, IInv, AnswersOK
  <2>. QED
    BY <1>7, <2>1, <2>2, DoomedForCause DEF Take
<1>8. CASE Tick
  <2>1. \A k \in Key : idTokens[k] \in Token \cup {Null} /\ idTokens'[k] = Older(idTokens[k])
    BY <1>8 DEF Tick, IInv, TokensOK
  <2>2. \A t \in Token : Older(t).good = t.good /\ Older(t).left <= t.left
    BY DEF Older, Token
  <2>3. Older(Null) = Null
    BY DEF Older
  <2>4. \A k \in Key : Withdrawn(idTokens', k) =>
          Withdrawn(idTokens, k) /\ idTokens'[k].left <= idTokens[k].left
    BY <2>1, <2>2, <2>3 DEF Withdrawn
  <2>. QED
    BY <1>8, <2>4 DEF Tick, RefusalsWane, Doomed, WasRefused
<1>9. ASSUME NEW key \in Key, Revoke(key) PROVE RefusalsWane /\ revocations' = revocations + 1
  BY <1>9 DEF Revoke, RefusalsWane, IInv, Bounds
<1>10. CASE NewClient
  <2>1. \A k \in Key : ~Withdrawn(idTokens', k)
    BY <1>10 DEF NewClient, Withdrawn
  <2>. QED
    BY <1>10, <2>1 DEF NewClient, RefusalsWane, Doomed, WasRefused
<1>11. CASE UNCHANGED vars
  BY <1>11 DEF vars, RefusalsWane, Doomed, WasRefused, Withdrawn, IInv, TokensOK, Token
<1>12. revocations \in Nat
  BY DEF IInv, Bounds
<1>. QED
  BY <1>1, <1>2, <1>3, <1>4, <1>5, <1>6, <1>7, <1>8, <1>9, <1>10, <1>11, <1>12
    DEF Next, Ends, Tick, NewClient, vars

\* Once J-Quants withdraws nothing more, the tokens it withdrew only run out, and
\* a call with a key it accepts comes to be refused by such a token alone: what
\* RefusalsEnd needs beside fairness (resolveIdToken).
THEOREM RefusalsOnlyWane == Spec => [][RefusalsWane]_vars
  BY KeysInit, KeysStep, WaneStep, PTL DEF Spec

\* A client of keys that J-Quants never withdrew is never refused, however its
\* calls share tokens, expire them and try again (resolveIdToken).
THEOREM NoneRefusedUnprovoked == Spec => []Unprovoked
<1>1. Init => Unprovoked
  BY DEF Init, Unprovoked, Withdrawn, Doomed, WasRefused
<1>2. IInv /\ Unprovoked /\ [Next]_vars => Unprovoked'
  <2> SUFFICES ASSUME IInv, Unprovoked, [Next]_vars, revocations' = 0
               PROVE  /\ accepted' = Key
                      /\ \A k \in Key : ~Withdrawn(idTokens', k)
                      /\ \A c \in Call : ~Doomed(flight, c)' /\ ~WasRefused(answer', c)
    BY DEF Unprovoked, Withdrawn, WasRefused
  <2>1. RefusalsWane /\ revocations = 0
    BY WaneStep
  <2>2. /\ accepted' = accepted /\ accepted = Key
        /\ \A k \in Key : ~Withdrawn(idTokens, k) /\ ~Withdrawn(idTokens', k)
        /\ \A c \in Call : ~Doomed(flight, c) /\ ~WasRefused(answer', c)
    BY <2>1 DEF Unprovoked, RefusalsWane
  <2>3. ASSUME NEW c \in Call, Doomed(flight', c) PROVE FALSE
    <3>1. flight'[c].key \in Key
      BY KeysStep, <2>3 DEF IInv, FlightOK, Way, Doomed
    <3>2. revocations' = revocations
      BY <2>1
    <3>3. \/ Doomed(flight, c) \/ flight'[c].key \notin accepted
          \/ Withdrawn(idTokens, flight'[c].key)
      BY <2>1, <2>3, <3>2 DEF RefusalsWane
    <3>. QED
      BY <2>2, <3>1, <3>3 DEF Unprovoked
  <2>4. \A c \in Call : Doomed(flight, c)' => Doomed(flight', c)
    BY <2>2 DEF Doomed
  <2>. QED
    BY <2>2, <2>3, <2>4
<1>. QED
  BY <1>1, <1>2, KeysInit, KeysStep, PTL DEF Spec
=============================================================================
