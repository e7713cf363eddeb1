-------------------------- MODULE KkjClient_proofs ---------------------------
(***************************************************************************)
(* Proofs about KkjClient, for any queries, bids, calls, answers, interval,   *)
(* timeout, retries, lifetimes and lateness of timers.                       *)
(***************************************************************************)
EXTENDS KkjClient, FiniteSetTheorems, SequenceTheorems, TLAPS

\* The bounds, one by one.
LEMMA Numbers ==
  /\ Interval \in Nat \ {0} /\ Timeout \in Nat \ {0} /\ CacheTTL \in Nat \ {0}
  /\ MaxCache \in Nat \ {0} /\ Late \in Nat /\ IsFiniteSet(Call)
  BY TimeAssumption

-----------------------------------------------------------------------------
(* The limiter *)

\* A search under way; what is left of a delay is not looked at.
IsSearch(s) ==
  /\ s = State(s.stage, s.query, s.left, s.attempt)
  /\ s.stage \in {"wait", "fetch", "sleep"}
  /\ s.query \in Query /\ s.attempt \in Nat
  /\ s.stage # "sleep" => s.left \in Int /\ s.left >= -Late /\ s # Idle

Waits(s) == s # Idle /\ s.stage = "wait"
Waiting == {k \in Call : Waits(flight[k])}
Slot(k) == flight[k].left

Searches ==
  /\ backlog \in Nat /\ quiet \in 0..Interval
  /\ DOMAIN flight = Call
  /\ \A k \in Call : flight[k] # Idle => IsSearch(flight[k])

\* The slots searches wait for are an interval apart, and the next free one lies an
\* interval after each of them.
SlotsApart ==
  /\ \A k \in Waiting : Slot(k) + Interval <= backlog
  /\ \A j, k \in Waiting : j # k => Slot(j) + Interval <= Slot(k) \/ Slot(k) + Interval <= Slot(j)

\* A slot to come lies an interval after the newest fetch, less its lateness.
SlotsPaced ==
  Late < Interval =>
    /\ backlog + quiet >= Interval - Late
    /\ \A k \in Waiting : Slot(k) + quiet >= Interval - Late

LimiterInv == Searches /\ SlotsApart /\ SlotsPaced

\* What a step makes of the limiter.
Reserves(k) ==
  /\ ~Waits(flight[k])
  /\ backlog' = backlog + Interval
  /\ \E s : /\ IsSearch(s) /\ flight' = [flight EXCEPT ![k] = s]
            /\ IF backlog = 0 THEN s.stage = "fetch" /\ quiet' = 0
               ELSE s.stage = "wait" /\ s.left = backlog /\ UNCHANGED quiet

Begins(k) ==
  /\ Waits(flight[k]) /\ Slot(k) <= 0
  /\ UNCHANGED backlog
  /\ \E s : IsSearch(s) /\ s.stage = "fetch" /\ flight' = [flight EXCEPT ![k] = s]
  /\ quiet' = 0

Leaves(k) ==
  /\ ~Waits(flight[k])
  /\ UNCHANGED <<backlog, quiet>>
  /\ \E s : /\ s = Idle \/ (IsSearch(s) /\ s.stage = "sleep")
            /\ flight' = [flight EXCEPT ![k] = s]

Stays == UNCHANGED <<backlog, quiet, flight>>

LEMMA StateOK ==
  ASSUME NEW stage \in {"wait", "fetch", "sleep"}, NEW q \in Query, NEW left, NEW n \in Nat,
         stage # "sleep" => left \in Int /\ left >= -Late
  PROVE  /\ IsSearch(State(stage, q, left, n))
         /\ State(stage, q, left, n).stage = stage
         /\ State(stage, q, left, n).left = left
<1>1. stage # "sleep" =>
        State(stage, q, left, n) \in [stage : {"wait", "fetch"}, query : Query, left : Int, attempt : Nat]
  BY DEF State
<1>. QED
  BY <1>1, IdleAssumption DEF State, IsSearch

LEMMA Takes ==
  ASSUME Searches, NEW k \in Call, NEW q \in Query, NEW n \in Nat, TakeSlot(k, q, n),
         ~Waits(flight[k])
  PROVE  Reserves(k)
<1>1. backlog' = backlog + Interval
  BY DEF TakeSlot, Reserved
<1>2. CASE backlog = 0
  <2>1. PICK s : s = State("fetch", q, Timeout, n)
    OBVIOUS
  <2>2. IsSearch(s) /\ s.stage = "fetch"
    BY <2>1, StateOK, Numbers
  <2>. QED
    BY <1>1, <1>2, <2>1, <2>2 DEF TakeSlot, Reserves
<1>3. CASE backlog # 0
  <2>1. PICK s : s = State("wait", q, backlog, n)
    OBVIOUS
  <2>2. IsSearch(s) /\ s.stage = "wait" /\ s.left = backlog
    BY <2>1, StateOK, Numbers DEF Searches
  <2>. QED
    BY <1>1, <1>3, <2>1, <2>2 DEF TakeSlot, Reserves
<1>. QED
  BY <1>2, <1>3

\* Every step but Tick does one of these.
LEMMA Steps ==
  ASSUME Searches, NEW k \in Call, (\E q \in Query : StartSearch(k, q)) \/ Settle(k)
  PROVE  Reserves(k) \/ Begins(k) \/ Leaves(k) \/ Stays
<1>1. ASSUME NEW q \in Query, StartSearch(k, q) PROVE Reserves(k) \/ Stays
  <2>1. CASE TakeSlot(k, q, 0)
    BY <1>1, <2>1, Takes DEF StartSearch, Waits
  <2>. QED
    BY <1>1, <2>1 DEF StartSearch, Stays
<1>2. CASE StartFetch(k)
  <2>1. PICK s : s = State("fetch", flight[k].query, Timeout, flight[k].attempt)
    OBVIOUS
  <2>2. IsSearch(s) /\ s.stage = "fetch"
    <3>1. flight[k].query \in Query /\ flight[k].attempt \in Nat
      BY <1>2 DEF StartFetch, Due, Searches, IsSearch
    <3>. QED
      BY <2>1, <3>1, StateOK, Numbers
  <2>. QED
    BY <1>2, <2>1, <2>2 DEF StartFetch, Due, Begins, Waits, Slot
<1>3. CASE FetchAnswered(k) \/ FetchRefused(k)
  BY <1>3 DEF FetchAnswered, FetchRefused, Leaves, Waits
<1>4. CASE FetchFailed(k)
  <2>1. PICK s : s = State("sleep", flight[k].query, Delay(flight[k].attempt + 1), Attempts(flight[k].attempt))
    OBVIOUS
  <2>2. IsSearch(s) /\ s.stage = "sleep"
    <3>1. flight[k].query \in Query /\ Attempts(flight[k].attempt) \in Nat
      BY <1>4 DEF FetchFailed, Searches, IsSearch, Attempts
    <3>. QED
      BY <2>1, <3>1, StateOK
  <2>3. flight' = [flight EXCEPT ![k] = IF flight[k].attempt >= MaxRetries THEN Idle ELSE s]
    BY <1>4, <2>1 DEF FetchFailed
  <2>. QED
    BY <1>4, <2>2, <2>3 DEF FetchFailed, Leaves, Waits
<1>5. CASE Retry(k)
  <2>1. flight[k].query \in Query /\ flight[k].attempt \in Nat /\ ~Waits(flight[k])
    BY <1>5 DEF Retry, Due, Searches, IsSearch, Waits
  <2>. QED
    BY <1>5, <2>1, Takes DEF Retry
<1>. QED
  BY <1>1, <1>2, <1>3, <1>4, <1>5 DEF Settle

\* What a change of one search leaves of the others.
LEMMA OneSearch ==
  ASSUME Searches, NEW k \in Call, NEW s, s = Idle \/ IsSearch(s),
         flight' = [flight EXCEPT ![k] = s],
         backlog' \in Nat, quiet' \in 0..Interval
  PROVE  /\ Searches' /\ flight'[k] = s
         /\ \A j \in Call : j # k => flight'[j] = flight[j]
<1>1. /\ DOMAIN flight' = Call /\ flight'[k] = s
      /\ \A j \in Call : j # k => flight'[j] = flight[j]
  BY DEF Searches
<1>2. \A j \in Call : flight'[j] # Idle => IsSearch(flight'[j])
  BY <1>1 DEF Searches
<1>3. (\A j \in Call : flight[j] # Idle => IsSearch(flight[j]))'
  BY <1>2 DEF IsSearch, State
<1>. QED
  BY <1>1, <1>3 DEF Searches

\* A waiting search has a slot, in time or up to Late past.
LEMMA SlotType ==
  ASSUME Searches
  PROVE  \A k \in Waiting : k \in Call /\ Slot(k) \in Int /\ Slot(k) >= -Late
  BY DEF Searches, IsSearch, Waiting, Waits, Slot

LEMMA Reserving ==
  ASSUME LimiterInv, NEW k \in Call, Reserves(k)
  PROVE  /\ LimiterInv'
         /\ k \notin Waiting /\ backlog' = backlog + Interval
         /\ \A j \in Waiting : Slot(j)' = Slot(j)
         /\ \/ backlog = 0 /\ Waiting' = Waiting
            \/ backlog # 0 /\ Waiting' = Waiting \cup {k} /\ Slot(k)' = backlog
<1>0. Searches /\ backlog \in Nat /\ quiet \in 0..Interval
  BY DEF LimiterInv, Searches
<1>1. PICK s : /\ IsSearch(s) /\ flight' = [flight EXCEPT ![k] = s]
               /\ IF backlog = 0 THEN s.stage = "fetch" /\ quiet' = 0
                  ELSE s.stage = "wait" /\ s.left = backlog /\ UNCHANGED quiet
  BY DEF Reserves
<1>2. backlog' = backlog + Interval /\ ~Waits(flight[k]) /\ k \notin Waiting
  BY DEF Reserves, Waiting
<1>3. backlog' \in Nat /\ quiet' \in 0..Interval
  BY <1>0, <1>1, <1>2, Numbers
<1>4. /\ Searches' /\ flight'[k] = s
      /\ \A j \in Call : j # k => flight'[j] = flight[j]
  BY <1>0, <1>1, <1>3, OneSearch
<1>5. \A j \in Waiting : Slot(j) \in Int /\ Slot(j) >= -Late /\ Slot(j) + Interval <= backlog
  BY <1>0, SlotType DEF LimiterInv, SlotsApart
<1>6. CASE backlog = 0
  <2>1. Waiting' = Waiting /\ \A j \in Waiting : Slot(j)' = Slot(j)
    BY <1>1, <1>2, <1>4, <1>6 DEF Waiting, Waits, Slot
  <2>2. SlotsApart'
    BY <1>2, <1>5, <1>6, <2>1, Numbers DEF LimiterInv, SlotsApart
  <2>3. Late < Interval => Waiting = {}
    BY <1>5, <1>6, Numbers
  <2>4. SlotsPaced'
    BY <1>1, <1>2, <1>6, <2>1, <2>3, Numbers DEF SlotsPaced
  <2>. QED
    BY <1>2, <1>4, <1>6, <2>1, <2>2, <2>4 DEF LimiterInv
<1>7. CASE backlog # 0
  <2>1. /\ Waiting' = Waiting \cup {k} /\ \A j \in Waiting : Slot(j)' = Slot(j)
        /\ Slot(k)' = backlog
    BY <1>1, <1>2, <1>4, <1>7 DEF Waiting, Waits, Slot, IsSearch
  <2>2. SlotsApart'
    BY <1>0, <1>2, <1>5, <2>1, Numbers DEF LimiterInv, SlotsApart
  <2>3. SlotsPaced'
    BY <1>0, <1>1, <1>2, <1>5, <1>7, <2>1, Numbers DEF LimiterInv, SlotsPaced
  <2>. QED
    BY <1>2, <1>4, <1>7, <2>1, <2>2, <2>3 DEF LimiterInv
<1>. QED
  BY <1>6, <1>7

LEMMA Beginning ==
  ASSUME LimiterInv, NEW k \in Call, Begins(k)
  PROVE  /\ LimiterInv'
         /\ k \in Waiting /\ Waiting' = Waiting \ {k} /\ backlog' = backlog
         /\ \A j \in Waiting : j # k => Slot(j)' = Slot(j)
<1>0. Searches /\ backlog \in Nat /\ quiet \in 0..Interval
  BY DEF LimiterInv, Searches
<1>1. PICK s : IsSearch(s) /\ s.stage = "fetch" /\ flight' = [flight EXCEPT ![k] = s]
  BY DEF Begins
<1>2. backlog' = backlog /\ quiet' = 0 /\ k \in Waiting /\ Slot(k) <= 0
  BY DEF Begins, Waiting
<1>3. /\ Searches' /\ flight'[k] = s
      /\ \A j \in Call : j # k => flight'[j] = flight[j]
  <2>1. backlog' \in Nat /\ quiet' \in 0..Interval
    BY <1>0, <1>2, Numbers
  <2>. QED
    BY <1>0, <1>1, <2>1, OneSearch
<1>4. Waiting' = Waiting \ {k} /\ \A j \in Waiting : j # k => Slot(j)' = Slot(j)
  BY <1>1, <1>3 DEF Waiting, Waits, Slot
<1>5. \A j \in Waiting : Slot(j) \in Int /\ Slot(j) >= -Late
  BY <1>0, SlotType
<1>6. SlotsApart'
  BY <1>2, <1>4 DEF LimiterInv, SlotsApart
<1>7. SlotsPaced'
  <2>1. \A j \in Waiting : Slot(j) + Interval <= backlog
    BY DEF LimiterInv, SlotsApart
  <2>2. \A j \in Waiting : j # k => Slot(j) + Interval <= Slot(k) \/ Slot(k) + Interval <= Slot(j)
    BY <1>2 DEF LimiterInv, SlotsApart
  <2>. QED
    BY <1>0, <1>2, <1>4, <1>5, <2>1, <2>2, Numbers DEF SlotsPaced
<1>. QED
  BY <1>2, <1>3, <1>4, <1>6, <1>7 DEF LimiterInv

LEMMA Leaving ==
  ASSUME LimiterInv, NEW k \in Call, Leaves(k)
  PROVE  LimiterInv' /\ Waiting' = Waiting /\ \A j \in Waiting : Slot(j)' = Slot(j)
<1>0. Searches /\ backlog \in Nat /\ quiet \in 0..Interval
  BY DEF LimiterInv, Searches
<1>1. PICK s : /\ s = Idle \/ (IsSearch(s) /\ s.stage = "sleep")
               /\ flight' = [flight EXCEPT ![k] = s]
  BY DEF Leaves
<1>2. backlog' = backlog /\ quiet' = quiet /\ k \notin Waiting
  BY DEF Leaves, Waiting
<1>3. /\ Searches' /\ flight'[k] = s
      /\ \A j \in Call : j # k => flight'[j] = flight[j]
  BY <1>0, <1>1, <1>2, OneSearch
<1>4. Waiting' = Waiting /\ \A j \in Waiting : Slot(j)' = Slot(j)
  BY <1>1, <1>2, <1>3 DEF Waiting, Waits, Slot
<1>. QED
  BY <1>2, <1>3, <1>4 DEF LimiterInv, SlotsApart, SlotsPaced

LEMMA Ticking ==
  ASSUME LimiterInv, Tick
  PROVE  /\ LimiterInv' /\ Waiting' = Waiting
         /\ \A j \in Waiting : Slot(j)' = Slot(j) - 1
         /\ \A j \in Call : flight'[j] # Idle => flight[j] # Idle /\ flight'[j].stage = flight[j].stage
<1>0. Searches /\ backlog \in Nat /\ quiet \in 0..Interval
  BY DEF LimiterInv, Searches
<1>1. /\ backlog' = IF backlog > 0 THEN backlog - 1 ELSE 0
      /\ quiet' = IF quiet < Interval THEN quiet + 1 ELSE quiet
      /\ \A k \in Call : flight[k] # Idle => flight[k].left > -Late
  BY DEF Tick
<1>2. ASSUME NEW k \in Call, flight[k] # Idle
      PROVE  LET s == [flight[k] EXCEPT !.left = @ - 1] IN
             /\ IsSearch(s) /\ s.stage = flight[k].stage
             /\ s.left = flight[k].left - 1
  <2>1. PICK t : t = flight[k]
    OBVIOUS
  <2>2. IsSearch(t) /\ t.left > -Late
    BY <1>0, <1>1, <1>2, <2>1 DEF Searches
  <2>3. PICK s : s = [t EXCEPT !.left = @ - 1]
    OBVIOUS
  <2>4. s = State(t.stage, t.query, t.left - 1, t.attempt)
    BY <2>2, <2>3 DEF IsSearch, State
  <2>5. /\ s.stage = t.stage /\ s.query = t.query /\ s.left = t.left - 1
        /\ s.attempt = t.attempt
    BY <2>4 DEF State
  <2>6. IsSearch(s)
    <3>1. t.stage # "sleep" => t.left - 1 \in Int /\ t.left - 1 >= -Late
      BY <2>2, Numbers DEF IsSearch
    <3>. QED
      BY <2>2, <2>4, <3>1, StateOK DEF IsSearch
  <2>. QED
    BY <2>1, <2>3, <2>5, <2>6
<1>3. /\ DOMAIN flight' = Call
      /\ \A k \in Call : flight'[k] =
           IF flight[k] = Idle THEN Idle ELSE [flight[k] EXCEPT !.left = @ - 1]
  BY DEF Tick
<1>4. Searches'
  <2>1. \A k \in Call : flight'[k] # Idle => IsSearch(flight'[k])
    BY <1>2, <1>3
  <2>2. (\A k \in Call : flight[k] # Idle => IsSearch(flight[k]))'
    BY <2>1 DEF IsSearch, State
  <2>3. backlog' \in Nat /\ quiet' \in 0..Interval
    BY <1>0, <1>1, Numbers
  <2>. QED
    BY <1>3, <2>2, <2>3 DEF Searches
<1>5. \A j \in Call : flight'[j] # Idle => flight[j] # Idle /\ flight'[j].stage = flight[j].stage
  BY <1>2, <1>3
<1>6. Waiting' = Waiting /\ \A j \in Waiting : Slot(j)' = Slot(j) - 1
  <2>1. ASSUME NEW j \in Call PROVE (flight'[j] # Idle /\ flight'[j].stage = "wait") <=> Waits(flight[j])
    <3>1. CASE flight[j] = Idle
      BY <1>3, <3>1 DEF Waits
    <3>2. CASE flight[j] # Idle
      <4>1. /\ IsSearch(flight'[j]) /\ flight'[j].stage = flight[j].stage
            /\ IsSearch(flight[j])
        BY <1>0, <1>2, <1>3, <3>2 DEF Searches
      <4>. QED
        BY <3>2, <4>1 DEF Waits, IsSearch
    <3>. QED
      BY <3>1, <3>2
  <2>. QED
    BY <1>2, <1>3, <2>1 DEF Waiting, Waits, Slot
<1>7. \A j \in Waiting : Slot(j) \in Int /\ Slot(j) >= -Late + 1
  BY <1>0, <1>1, SlotType, Numbers DEF Waiting, Waits, Slot
<1>8. SlotsApart'
  BY <1>0, <1>1, <1>6, <1>7, Numbers DEF LimiterInv, SlotsApart
<1>9. SlotsPaced'
  BY <1>0, <1>1, <1>6, <1>7, Numbers DEF LimiterInv, SlotsPaced
<1>. QED
  BY <1>4, <1>5, <1>6, <1>8, <1>9 DEF LimiterInv

LEMMA LimiterInit == Init => LimiterInv
<1>1. ASSUME Init PROVE Waiting = {} /\ Searches
  BY <1>1, Numbers DEF Init, Searches, Waiting, Waits
<1>. QED
  BY <1>1, Numbers DEF Init, LimiterInv, SlotsApart, SlotsPaced

LEMMA LimiterStep == LimiterInv /\ [Next]_vars => LimiterInv'
<1>. SUFFICES ASSUME LimiterInv, [Next]_vars PROVE LimiterInv'
  OBVIOUS
<1>1. ASSUME NEW k \in Call, (\E q \in Query : StartSearch(k, q)) \/ Settle(k)
      PROVE  LimiterInv'
  <2>1. CASE Stays
    BY <2>1 DEF Stays, LimiterInv, Searches, SlotsApart, SlotsPaced, Waiting, Slot
  <2>2. Searches
    BY DEF LimiterInv
  <2>. QED
    BY <1>1, <2>1, <2>2, Steps, Reserving, Beginning, Leaving
<1>2. CASE Tick
  BY <1>2, Ticking
<1>3. CASE UNCHANGED vars
  BY <1>3 DEF vars, LimiterInv, Searches, SlotsApart, SlotsPaced, Waiting, Slot
<1>. QED
  BY <1>1, <1>2, <1>3 DEF Next

\* Fetches begin an interval apart, retries included, less what a timer may be late:
\* the limiter shared by all searches keeps to it (RateLimiter.wait).
THEOREM Spacing == Spec => FetchesSpaced
<1>1. ASSUME LimiterInv, [Next]_vars, NEW k \in Call,
             flight[k] = Idle \/ flight[k].stage # "fetch",
             flight'[k] # Idle, flight'[k].stage = "fetch"
      PROVE  quiet >= Interval - Late
  <2>0. Searches /\ backlog \in Nat /\ quiet \in 0..Interval
    BY <1>1 DEF LimiterInv, Searches
  <2>1. ASSUME NEW j \in Call, NEW s, flight' = [flight EXCEPT ![j] = s],
               s = Idle \/ s.stage # "fetch"
        PROVE  FALSE
    BY <1>1, <2>0, <2>1 DEF Searches
  <2>2. ASSUME NEW j \in Call, Reserves(j) PROVE quiet >= Interval - Late
    <3>1. backlog = 0
      <4>1. PICK s : /\ IsSearch(s) /\ flight' = [flight EXCEPT ![j] = s]
                     /\ backlog = 0 \/ s.stage = "wait"
        BY <2>2 DEF Reserves
      <4>. QED
        BY <2>1, <4>1
    <3>. QED
      BY <1>1, <2>0, <3>1, Numbers DEF LimiterInv, SlotsPaced
  <2>3. ASSUME NEW j \in Call, Begins(j) PROVE quiet >= Interval - Late
    <3>1. j \in Waiting /\ Slot(j) <= 0
      BY <2>3 DEF Begins, Waiting
    <3>2. Slot(j) \in Int
      BY <2>0, <3>1, SlotType
    <3>. QED
      BY <1>1, <2>0, <3>1, <3>2, Numbers DEF LimiterInv, SlotsPaced
  <2>4. ASSUME NEW j \in Call, Leaves(j) PROVE FALSE
    BY <2>1, <2>4 DEF Leaves
  <2>5. ASSUME NEW j \in Call, (\E q \in Query : StartSearch(j, q)) \/ Settle(j)
        PROVE  quiet >= Interval - Late
    <3>1. CASE Stays
      BY <1>1, <3>1 DEF Stays
    <3>. QED
      BY <2>0, <2>2, <2>3, <2>4, <2>5, <3>1, Steps
  <2>6. CASE Tick
    BY <1>1, <2>6, Ticking
  <2>7. CASE UNCHANGED vars
    BY <1>1, <2>7 DEF vars
  <2>. QED
    BY <1>1, <2>5, <2>6, <2>7 DEF Next
<1>2. LimiterInv /\ [Next]_vars =>
        [\A k \in Call :
           (flight[k] = Idle \/ flight[k].stage # "fetch")
           /\ flight'[k] # Idle /\ flight'[k].stage = "fetch"
           => quiet >= Interval - Late]_vars
  BY <1>1
<1>. QED
  BY LimiterInit, LimiterStep, <1>2, PTL DEF Spec, FetchesSpaced

-----------------------------------------------------------------------------
(* The cache *)

\* The age of a result and what is left of its life make up the TTL and at most one
\* fetch that ended late.
Life == CacheTTL + 1 + Timeout + Late
Good == {e \in [query : Query, bids : Seq(Bid), age : Int, left : Nat] :
           e.left > 0 => e.age + e.left <= Life}

LEMMA WithoutGood ==
  ASSUME cache \in Seq(Good), NEW q
  PROVE  Without(q) \in Seq(Good)
<1>1. CASE Of(q) = {}
  BY <1>1 DEF Without
<1>2. CASE Of(q) # {}
  <2> DEFINE i == CHOOSE i \in Of(q) : TRUE
             before == SubSeq(cache, 1, i - 1)
             after == SubSeq(cache, i + 1, Len(cache))
  <2>1. i \in 1..Len(cache) /\ Len(cache) \in Nat
    BY <1>2 DEF Of
  <2>2. Without(q) = before \o after
    BY <1>2 DEF Without
  <2> HIDE DEF i
  <2>3. \A j \in 1..Len(cache) : cache[j] \in Good
    BY <2>1
  <2>4. before \in Seq(Good)
    BY <2>1, <2>3, SubSeqProperties
  <2>5. after \in Seq(Good)
    BY <2>1, <2>3, SubSeqProperties
  <2> HIDE DEF before, after
  <2>. QED
    BY <2>2, <2>4, <2>5
<1>. QED
  BY <1>1, <1>2

LEMMA PutGood ==
  ASSUME cache \in Seq(Good), NEW e \in Good
  PROVE  Put(e) \in Seq(Good)
<1>1. PICK rest : rest = Without(e.query)
  OBVIOUS
<1>2. rest \in Seq(Good)
  BY <1>1, WithoutGood
<1>3. PICK room : room = IF Len(rest) >= MaxCache THEN Tail(rest) ELSE rest
  OBVIOUS
<1>4. room \in Seq(Good)
  <2>1. CASE Len(rest) >= MaxCache
    <3>1. rest # <<>>
      BY <1>2, <2>1, Numbers
    <3>. QED
      BY <1>2, <1>3, <2>1, <3>1
  <2>2. CASE ~(Len(rest) >= MaxCache)
    BY <1>2, <1>3, <2>2
  <2>. QED
    BY <2>1, <2>2
<1>5. Put(e) = Append(room, e)
  BY <1>1, <1>3 DEF Put
<1>. QED
  BY <1>4, <1>5

IInv == LimiterInv /\ cache \in Seq(Good)

LEMMA CacheStep ==
  ASSUME IInv, [Next]_vars
  PROVE  cache' \in Seq(Good)
<1>0. cache \in Seq(Good) /\ Searches
  BY DEF IInv, LimiterInv
<1>1. ASSUME NEW k \in Call, NEW q \in Query, StartSearch(k, q)
      PROVE  cache' \in Seq(Good)
  <2>1. Without(q) \in Seq(Good)
    BY <1>0, WithoutGood
  <2>2. \A i \in Usable(q) : cache[i] \in Good
    BY <1>0 DEF Usable, Of
  <2>. QED
    BY <1>1, <2>1, <2>2 DEF StartSearch, Touched
<1>2. ASSUME NEW k \in Call, FetchAnswered(k) PROVE cache' \in Seq(Good)
  <2>1. flight[k].query \in Query /\ flight[k].left \in Int /\ flight[k].left >= -Late
    BY <1>0, <1>2 DEF FetchAnswered, Searches, IsSearch
  <2>2. PICK bids \in Results[flight[k].query] :
          cache' = Put([query |-> flight[k].query, bids |-> bids,
                        age |-> Timeout - flight[k].left, left |-> CacheTTL + 1])
    BY <1>2 DEF FetchAnswered
  <2>3. bids \in Seq(Bid)
    BY <2>1, <2>2, ResultsAssumption
  <2>4. PICK e : e = [query |-> flight[k].query, bids |-> bids,
                      age |-> Timeout - flight[k].left, left |-> CacheTTL + 1]
    OBVIOUS
  <2>5. /\ Timeout - flight[k].left \in Int /\ CacheTTL + 1 \in Nat
        /\ Timeout - flight[k].left + (CacheTTL + 1) <= Life
    BY <2>1, Numbers DEF Life
  <2>6. e \in Good
    BY <2>1, <2>3, <2>4, <2>5 DEF Good
  <2>. QED
    BY <1>0, <2>2, <2>4, <2>6, PutGood
<1>3. CASE Tick
  <2>1. ASSUME NEW i \in DOMAIN cache, cache[i].left # 0
        PROVE  [cache[i] EXCEPT !.age = @ + 1, !.left = @ - 1] \in Good
    <3>1. PICK e \in Good : e = cache[i]
      BY <1>0, <2>1
    <3>2. e.age \in Int /\ e.left \in Nat /\ e.left > 0 /\ e.age + e.left <= Life
      BY <2>1, <3>1 DEF Good
    <3>3. /\ e.age + 1 \in Int /\ e.left - 1 \in Nat
          /\ e.age + 1 + (e.left - 1) <= Life
      BY <3>2, Numbers DEF Life
    <3>4. \A a \in Int, l \in Nat : a + l <= Life =>
            [e EXCEPT !.age = a, !.left = l] \in Good
      BY DEF Good
    <3>. QED
      BY <3>1, <3>3, <3>4
  <2>2. /\ DOMAIN cache = 1..Len(cache) /\ Len(cache) \in Nat
        /\ \A i \in DOMAIN cache : cache[i] \in Good
    BY <1>0
  <2>3. cache' \in [1..Len(cache) -> Good]
    BY <1>3, <2>1, <2>2 DEF Tick
  <2>. QED
    BY <2>2, <2>3
<1>4. ASSUME NEW k \in Call, StartFetch(k) \/ FetchFailed(k) \/ FetchRefused(k) \/ Retry(k)
      PROVE  cache' \in Seq(Good)
  BY <1>0, <1>4 DEF StartFetch, FetchFailed, FetchRefused, Retry
<1>5. CASE UNCHANGED vars
  BY <1>0, <1>5 DEF vars
<1>. QED
  BY <1>1, <1>2, <1>3, <1>4, <1>5 DEF Next, Settle

LEMMA CacheHolds == Spec => []IInv
<1>1. Init => IInv
  BY LimiterInit DEF Init, IInv
<1>2. IInv /\ [Next]_vars => IInv'
  BY LimiterStep, CacheStep DEF IInv
<1>. QED
  BY <1>1, <1>2, PTL DEF Spec

\* What the cache answers with is not older than the TTL and one fetch, also when a
\* slow search stores an older result over a newer one (KkjClient.search).
THEOREM Freshness == Spec => []ResultsFresh
<1>1. IInv => ResultsFresh
  BY Numbers DEF IInv, Good, Life, ResultsFresh
<1>. QED
  BY <1>1, CacheHolds, PTL

-----------------------------------------------------------------------------
(* The backlog *)

\* The searches whose slots come after k's, and the time until k's slot.
Behind(k) == {j \in Waiting : Slot(j) > Slot(k)}
Ahead(k) == IF Slot(k) > 0 THEN Slot(k) ELSE 0

\* The invariant behind BacklogIsWaiting: after the slot of a waiting search the
\* queue is no longer than the searches behind it, so that the slot that one frees
\* by its fetch is not missed.
Queue ==
  /\ BacklogIsWaiting
  /\ \A k \in Waiting : backlog <= Ahead(k) + Interval * (1 + Cardinality(Behind(k)))

LEMMA Times ==
  ASSUME NEW m \in Nat
  PROVE  /\ Interval * (1 + m) \in Nat /\ Interval <= Interval * (1 + m)
         /\ Interval * (1 + m) + Interval = Interval * (1 + (m + 1))
<1>1. Interval \in Nat
  BY Numbers
<1>2. Interval * (1 + m) = Interval + Interval * m /\ Interval * m \in Nat
  BY <1>1
<1>3. Interval * (1 + (m + 1)) = Interval + Interval * m + Interval
  BY <1>1
<1>. QED
  BY <1>1, <1>2, <1>3

LEMMA Grows ==
  ASSUME NEW m \in Nat, NEW n \in Nat, m <= n
  PROVE  Interval * (1 + m) <= Interval * (1 + n)
<1>1. Interval \in Nat /\ n - m \in Nat
  BY Numbers
<1>2. Interval * (n - m) \in Nat
  BY <1>1
<1>3. Interval * (1 + n) = Interval * (1 + m) + Interval * (n - m)
  BY <1>1
<1>4. Interval * (1 + m) \in Nat
  BY Times
<1>. QED
  BY <1>2, <1>3, <1>4

LEMMA Counts ==
  ASSUME Searches
  PROVE  /\ IsFiniteSet(Waiting) /\ Cardinality(Waiting) \in Nat
         /\ \A S \in SUBSET Waiting :
              /\ IsFiniteSet(S) /\ Cardinality(S) \in Nat
              /\ Cardinality(S) <= Cardinality(Waiting)
<1>1. IsFiniteSet(Waiting)
  BY Numbers, FS_Subset DEF Waiting
<1>. QED
  BY <1>1, FS_Subset, FS_CardinalityType

LEMMA WaitingIs ==
  Waiting = {k \in Call : flight[k] # Idle /\ flight[k].stage = "wait"}
  BY DEF Waiting, Waits

LEMMA QueueReserving ==
  ASSUME LimiterInv, Queue, NEW k \in Call, Reserves(k)
  PROVE  Queue'
<1>0. Searches /\ Searches' /\ backlog \in Nat
  BY Reserving DEF LimiterInv, Searches
<1>1. /\ k \notin Waiting /\ backlog' = backlog + Interval
      /\ \A j \in Waiting : Slot(j)' = Slot(j) /\ Slot(j) \in Int /\ Slot(j) + Interval <= backlog
  BY <1>0, Reserving, SlotType DEF LimiterInv, SlotsApart
<1>2. /\ IsFiniteSet(Waiting) /\ Cardinality(Waiting) \in Nat
      /\ \A j : IsFiniteSet(Behind(j)) /\ Cardinality(Behind(j)) \in Nat
  BY <1>0, Counts DEF Behind
<1>3. CASE backlog = 0 /\ Waiting' = Waiting
  <2>1. \A j \in Waiting : Behind(j)' = Behind(j) /\ Ahead(j)' = Ahead(j) /\ Ahead(j) \in Nat
    BY <1>1, <1>3 DEF Behind, Ahead
  <2>2. backlog' = Interval
    BY <1>1, <1>3, Numbers
  <2>3. BacklogIsWaiting'
    BY <1>2, <1>3, <2>2, Times, WaitingIs DEF BacklogIsWaiting, Waiting, Waits
  <2>4. ASSUME NEW j \in Waiting
        PROVE  backlog' <= Ahead(j) + Interval * (1 + Cardinality(Behind(j)))
    <3>1. /\ Interval <= Interval * (1 + Cardinality(Behind(j)))
          /\ Interval * (1 + Cardinality(Behind(j))) \in Nat
      BY <1>2, Times
    <3>. QED
      BY <2>1, <2>2, <3>1, Numbers
  <2>. QED
    BY <1>3, <2>1, <2>3, <2>4 DEF Queue
<1>4. CASE backlog # 0 /\ Waiting' = Waiting \cup {k} /\ Slot(k)' = backlog
  <2>1. /\ Cardinality(Waiting)' = Cardinality(Waiting) + 1
        /\ Cardinality(Waiting \cup {k}) = Cardinality(Waiting) + 1
    BY <1>1, <1>2, <1>4, FS_AddElement
  <2>2. BacklogIsWaiting'
    <3>1. backlog <= Interval * (1 + Cardinality(Waiting))
      BY WaitingIs DEF Queue, BacklogIsWaiting
    <3>2. /\ Interval * (1 + Cardinality(Waiting)) + Interval = Interval * (1 + (Cardinality(Waiting) + 1))
          /\ Interval * (1 + Cardinality(Waiting)) \in Nat
      BY <1>2, Times
    <3>3. backlog' <= Interval * (1 + Cardinality(Waiting \cup {k}))
      BY <1>0, <1>1, <2>1, <3>1, <3>2, Numbers
    <3>. QED
      BY <1>4, <3>3 DEF BacklogIsWaiting, Waiting, Waits
  <2>3. ASSUME NEW j \in Waiting
        PROVE  backlog' <= Ahead(j)' + Interval * (1 + Cardinality(Behind(j)'))
    <3>1. Behind(j)' = Behind(j) \cup {k} /\ k \notin Behind(j)
      BY <1>0, <1>1, <1>4, Numbers DEF Behind
    <3>2. Cardinality(Behind(j)') = Cardinality(Behind(j)) + 1
      BY <1>2, <3>1, FS_AddElement
    <3>3. /\ Interval * (1 + Cardinality(Behind(j))) + Interval
               = Interval * (1 + (Cardinality(Behind(j)) + 1))
          /\ Interval * (1 + Cardinality(Behind(j))) \in Nat
      BY <1>2, Times
    <3>4. Ahead(j)' = Ahead(j) /\ Ahead(j) \in Nat
      BY <1>1 DEF Ahead
    <3>5. backlog <= Ahead(j) + Interval * (1 + Cardinality(Behind(j)))
      BY DEF Queue
    <3>. QED
      BY <1>0, <1>1, <3>2, <3>3, <3>4, <3>5, Numbers
  <2>4. backlog' <= Ahead(k)' + Interval * (1 + Cardinality(Behind(k)'))
    <3>1. Behind(k)' = {}
      BY <1>0, <1>1, <1>4, Numbers DEF Behind
    <3>2. Cardinality(Behind(k)') = 0
      BY <3>1, FS_EmptySet
    <3>3. Interval * (1 + 0) = Interval
      BY Numbers
    <3>4. Ahead(k)' = backlog
      BY <1>0, <1>4 DEF Ahead
    <3>. QED
      BY <1>0, <1>1, <3>2, <3>3, <3>4, Numbers
  <2>. QED
    BY <1>4, <2>2, <2>3, <2>4 DEF Queue
<1>. QED
  BY <1>3, <1>4, Reserving

LEMMA QueueBeginning ==
  ASSUME LimiterInv, Queue, NEW k \in Call, Begins(k)
  PROVE  Queue'
<1>0. Searches /\ Searches' /\ backlog \in Nat
  BY Beginning DEF LimiterInv, Searches
<1>1. /\ k \in Waiting /\ Waiting' = Waiting \ {k} /\ backlog' = backlog
      /\ \A j \in Waiting : j # k => Slot(j)' = Slot(j)
      /\ \A j \in Waiting : Slot(j) \in Int
      /\ Slot(k) <= 0
  BY <1>0, Beginning, SlotType DEF Begins
<1>2. \A S \in SUBSET Waiting : IsFiniteSet(S) /\ Cardinality(S) \in Nat
  BY <1>0, Counts
<1>3. backlog <= Interval * (1 + Cardinality(Behind(k)))
  <2>1. Interval * (1 + Cardinality(Behind(k))) \in Nat
    BY <1>2, Times DEF Behind
  <2>2. Ahead(k) = 0
    BY <1>1 DEF Ahead
  <2>. QED
    BY <1>0, <1>1, <2>1, <2>2 DEF Queue
<1>4. ASSUME NEW S \in SUBSET Waiting, Behind(k) \subseteq S
      PROVE  backlog <= Interval * (1 + Cardinality(S))
  <2>1. Cardinality(Behind(k)) <= Cardinality(S) /\ Cardinality(Behind(k)) \in Nat
        /\ Cardinality(S) \in Nat
    BY <1>2, <1>4, FS_Subset
  <2>2. /\ Interval * (1 + Cardinality(Behind(k))) <= Interval * (1 + Cardinality(S))
        /\ Interval * (1 + Cardinality(Behind(k))) \in Nat
        /\ Interval * (1 + Cardinality(S)) \in Nat
    BY <2>1, Grows, Times
  <2>. QED
    BY <1>0, <1>3, <2>2
<1>5. BacklogIsWaiting'
  <2>1. Behind(k) \subseteq Waiting \ {k}
    BY <1>1 DEF Behind
  <2>2. backlog' <= Interval * (1 + Cardinality(Waiting \ {k}))
    BY <1>1, <1>4, <2>1
  <2>. QED
    BY <1>1, <2>2 DEF BacklogIsWaiting, Waiting, Waits
<1>6. ASSUME NEW j \in Waiting, j # k
      PROVE  backlog' <= Ahead(j)' + Interval * (1 + Cardinality(Behind(j)'))
  <2>1. Behind(j)' = Behind(j) \ {k}
    BY <1>1, <1>6 DEF Behind
  <2>2. Ahead(j)' = Ahead(j) /\ Ahead(j) \in Nat
    BY <1>1, <1>6 DEF Ahead
  <2>3. CASE Slot(k) > Slot(j)
    <3>1. Behind(k) \subseteq Behind(j) \ {k}
      BY <1>1, <2>3 DEF Behind
    <3>2. backlog <= Interval * (1 + Cardinality(Behind(j) \ {k}))
      BY <1>4, <3>1 DEF Behind
    <3>3. Interval * (1 + Cardinality(Behind(j) \ {k})) \in Nat
      BY <1>2, Times DEF Behind
    <3>. QED
      BY <1>0, <1>1, <2>1, <2>2, <3>2, <3>3
  <2>4. CASE ~(Slot(k) > Slot(j))
    <3>1. Behind(j) \ {k} = Behind(j)
      BY <2>4 DEF Behind
    <3>. QED
      BY <1>1, <2>1, <2>2, <3>1 DEF Queue
  <2>. QED
    BY <2>3, <2>4
<1>. QED
  BY <1>1, <1>5, <1>6 DEF Queue

\* When no slot is taken or used and all slots come nearer together, the queue is
\* no longer than before.
LEMMA QueueKept ==
  ASSUME Queue, Searches, Waiting' = Waiting, backlog' \in Nat, NEW d \in {0, 1},
         \A j \in Waiting : Slot(j)' = Slot(j) - d,
         backlog' = IF backlog > d THEN backlog - d ELSE 0
  PROVE  Queue'
<1>0. backlog \in Nat /\ backlog' <= backlog /\ (\A j \in Waiting : Slot(j) \in Int)
  BY SlotType DEF Searches
<1>1. BacklogIsWaiting'
  <2>1. backlog <= Interval * (1 + Cardinality(Waiting))
    BY WaitingIs DEF Queue, BacklogIsWaiting
  <2>2. Interval * (1 + Cardinality(Waiting)) \in Nat
    BY Counts, Times
  <2>3. backlog' <= Interval * (1 + Cardinality(Waiting'))
    BY <1>0, <2>1, <2>2
  <2>. QED
    BY <2>3 DEF BacklogIsWaiting, Waiting, Waits
<1>2. ASSUME NEW j \in Waiting
      PROVE  backlog' <= Ahead(j)' + Interval * (1 + Cardinality(Behind(j)'))
  <2>1. Behind(j)' = Behind(j)
    BY <1>0 DEF Behind
  <2>2. Interval * (1 + Cardinality(Behind(j))) \in Nat
        /\ Interval <= Interval * (1 + Cardinality(Behind(j)))
    BY Counts, Times DEF Behind
  <2>3. backlog <= Ahead(j) + Interval * (1 + Cardinality(Behind(j)))
    BY DEF Queue
  <2>4. /\ Ahead(j) \in Nat /\ Ahead(j)' \in Nat
        /\ Ahead(j)' = IF Ahead(j) > d THEN Ahead(j) - d ELSE 0
    BY <1>0 DEF Ahead
  <2>5. ASSUME NEW n \in Nat, Interval <= n, backlog <= Ahead(j) + n
        PROVE  backlog' <= Ahead(j)' + n
    BY <1>0, <2>4, <2>5, Numbers
  <2>6. backlog' <= Ahead(j)' + Interval * (1 + Cardinality(Behind(j)))
    BY <2>2, <2>3, <2>5
  <2>. QED
    BY <2>1, <2>6
<1>. QED
  BY <1>1, <1>2 DEF Queue

LEMMA QueueStep == LimiterInv /\ Queue /\ [Next]_vars => Queue'
<1>. SUFFICES ASSUME LimiterInv, Queue, [Next]_vars PROVE Queue'
  OBVIOUS
<1>0. Searches /\ backlog \in Nat /\ \A j \in Waiting : Slot(j) \in Int
  BY SlotType DEF LimiterInv, Searches
<1>1. ASSUME Waiting' = Waiting, \A j \in Waiting : Slot(j)' = Slot(j), backlog' = backlog
      PROVE  Queue'
  <2>1. backlog' = IF backlog > 0 THEN backlog - 0 ELSE 0
    BY <1>0, <1>1
  <2>2. \A j \in Waiting : Slot(j)' = Slot(j) - 0
    BY <1>0, <1>1
  <2>. QED
    BY <1>0, <1>1, <2>1, <2>2, QueueKept
<1>2. ASSUME flight' = flight, backlog' = backlog PROVE Queue'
  <2>1. Waiting' = Waiting /\ \A j \in Waiting : Slot(j)' = Slot(j)
    BY <1>2 DEF Waiting, Slot
  <2>. QED
    BY <1>1, <1>2, <2>1
<1>3. ASSUME NEW k \in Call, (\E q \in Query : StartSearch(k, q)) \/ Settle(k)
      PROVE  Queue'
  <2>1. CASE Stays
    BY <1>2, <2>1 DEF Stays
  <2>2. CASE Leaves(k)
    BY <1>1, <2>2, Leaving DEF Leaves
  <2>. QED
    BY <1>0, <1>3, <2>1, <2>2, Steps, QueueReserving, QueueBeginning
<1>4. CASE Tick
  <2>1. Waiting' = Waiting /\ \A j \in Waiting : Slot(j)' = Slot(j) - 1
    BY <1>4, Ticking
  <2>2. backlog' = IF backlog > 0 THEN backlog - 1 ELSE 0
    BY <1>4 DEF Tick
  <2>3. /\ backlog' = IF backlog > 1 THEN backlog - 1 ELSE 0
        /\ backlog' \in Nat
    BY <1>0, <2>2
  <2>. QED
    BY <1>0, <2>1, <2>3, QueueKept
<1>5. CASE UNCHANGED vars
  BY <1>2, <1>5 DEF vars
<1>. QED
  BY <1>3, <1>4, <1>5 DEF Next

\* Nobody waits at the start.
LEMMA QueueInit == Init => LimiterInv /\ Queue
<1>1. ASSUME Init PROVE Waiting = {} /\ backlog = 0 /\ LimiterInv
  BY <1>1, LimiterInit DEF Init, Waiting, Waits
<1>2. ASSUME Init PROVE BacklogIsWaiting
  <2>1. Cardinality(Waiting) = 0
    BY <1>1, <1>2, FS_EmptySet
  <2>2. backlog <= Interval * (1 + Cardinality(Waiting))
    BY <1>1, <1>2, <2>1, Numbers
  <2>. QED
    BY <2>2, WaitingIs DEF BacklogIsWaiting
<1>. QED
  BY <1>1, <1>2 DEF Queue

\* The queue of the limiter never runs ahead of the searches that wait in it: no slot
\* is lost to a failed or finished search (RateLimiter.wait).
THEOREM Backlog == Spec => []BacklogIsWaiting
<1>1. (LimiterInv /\ Queue) /\ [Next]_vars => (LimiterInv /\ Queue)'
  BY LimiterStep, QueueStep
<1>2. LimiterInv /\ Queue => BacklogIsWaiting
  BY DEF Queue
<1>. QED
  BY QueueInit, <1>1, <1>2, PTL DEF Spec

-----------------------------------------------------------------------------
(* The types *)

\* 2 ^ n counts the subsets of a set of n, and so it grows with n.
LEMMA PowersGrow ==
  ASSUME NEW m \in Nat, NEW n \in Nat, m <= n
  PROVE  2 ^ m \in Nat /\ 2 ^ n \in Nat /\ 2 ^ m <= 2 ^ n
<1>1. ASSUME NEW k \in Nat
      PROVE  IsFiniteSet(SUBSET (1..k)) /\ Cardinality(SUBSET (1..k)) = 2 ^ k
             /\ 2 ^ k \in Nat
  <2>1. IsFiniteSet(1..k) /\ Cardinality(1..k) = k
    BY FS_Interval
  <2>2. IsFiniteSet(SUBSET (1..k)) /\ Cardinality(SUBSET (1..k)) = 2 ^ k
    BY <2>1, FS_SUBSET
  <2>. QED
    BY <2>2, FS_CardinalityType
<1>2. SUBSET (1..m) \in SUBSET (SUBSET (1..n))
  OBVIOUS
<1>3. Cardinality(SUBSET (1..m)) <= Cardinality(SUBSET (1..n))
  BY <1>1, <1>2, FS_Subset
<1>. QED
  BY <1>1, <1>3

\* The delay before the last retry.
Longest == BaseDelay * 2 ^ MaxRetries

\* The delay before a retry is at most the one before the last retry.
LEMMA DelayBounded ==
  /\ Longest \in Nat /\ MaxRetries \in Nat
  /\ \A n \in 1..MaxRetries : Delay(n) \in 0..Longest
<1>1. BaseDelay \in Nat /\ MaxRetries \in Nat
  BY TimeAssumption
<1>2. 2 ^ MaxRetries \in Nat
  BY <1>1, PowersGrow
<1>3. Longest \in Nat
  BY <1>1, <1>2 DEF Longest
<1>4. ASSUME NEW n \in 1..MaxRetries PROVE Delay(n) \in 0..Longest
  <2>1. PICK p, q : p = 2 ^ (n - 1) /\ q = 2 ^ MaxRetries
    OBVIOUS
  <2>2. p \in Nat /\ q \in Nat /\ p <= q
    <3>1. n - 1 \in Nat /\ n - 1 <= MaxRetries
      BY <1>1
    <3>. QED
      BY <1>1, <2>1, <3>1, PowersGrow
  <2>3. BaseDelay * p \in Nat /\ BaseDelay * (q - p) \in Nat
    BY <1>1, <2>2
  <2>4. BaseDelay * q = BaseDelay * p + BaseDelay * (q - p)
    BY <1>1, <2>2
  <2>5. Delay(n) = BaseDelay * p /\ Longest = BaseDelay * q
    BY <2>1 DEF Delay, Longest
  <2>. QED
    BY <1>3, <2>3, <2>4, <2>5
<1>. QED
  BY <1>1, <1>3, <1>4

\* The times a timer may count: the wait for a slot, the timeout and the delays.
LEMMA TimersHold ==
  /\ MaxWait \in Nat /\ Timers \subseteq Int
  /\ 0..MaxWait \subseteq Timers /\ (-Late)..Timeout \subseteq Timers /\ 0..Longest \subseteq Timers
  /\ \A t \in Timers : t > -Late => t - 1 \in Timers
<1>1. Cardinality(Call) \in Nat
  BY Numbers, FS_CardinalityType
<1>2. MaxWait \in Nat
  <2>1. Interval \in Nat /\ Cardinality(Call) + 1 \in Nat
    BY <1>1, Numbers
  <2>. QED
    BY <2>1 DEF MaxWait
<1>3. Timers = (-Late)..(MaxWait + Timeout + Longest)
  BY DEF Timers, Longest
<1>. QED
  BY <1>2, <1>3, DelayBounded, Numbers

\* The searches keep their types; an answer takes no longer than the timeout.
FlightType ==
  /\ flight \in [Call -> Search \cup {Idle}]
  /\ \A k \in Call : flight[k] # Idle /\ flight[k].stage = "fetch" => flight[k].left <= Timeout

\* A search made by State is one of the type.
LEMMA StateType ==
  ASSUME NEW stage \in {"wait", "fetch", "sleep"}, NEW q \in Query, NEW left \in Timers,
         NEW n \in 0..MaxRetries
  PROVE  /\ State(stage, q, left, n) \in Search
         /\ State(stage, q, left, n).stage = stage
         /\ State(stage, q, left, n).left = left
  BY DEF State, Search

\* The queue of the limiter is no longer than all the calls could make it.
LEMMA BacklogBounded ==
  ASSUME LimiterInv, BacklogIsWaiting
  PROVE  backlog \in 0..MaxWait
<1>1. Searches /\ backlog \in Nat
  BY DEF LimiterInv, Searches
<1>2. Waiting \in SUBSET Call
  BY DEF Waiting
<1>3. /\ Cardinality(Waiting) \in Nat /\ Cardinality(Call) \in Nat
      /\ Cardinality(Waiting) <= Cardinality(Call)
  BY <1>1, <1>2, Numbers, Counts, FS_Subset, FS_CardinalityType
<1>4. Interval * (1 + Cardinality(Waiting)) <= Interval * (1 + Cardinality(Call))
  BY <1>3, Grows
<1>5. /\ Interval * (1 + Cardinality(Waiting)) \in Nat
      /\ Interval * (1 + Cardinality(Call)) \in Nat
  BY <1>3, Times
<1>6. backlog <= Interval * (1 + Cardinality(Waiting))
  BY WaitingIs DEF BacklogIsWaiting
<1>7. MaxWait = Interval * (1 + Cardinality(Call))
  <2>1. Cardinality(Call) + 1 = 1 + Cardinality(Call)
    BY <1>3
  <2>. QED
    BY <2>1 DEF MaxWait
<1>. QED
  BY <1>1, <1>4, <1>5, <1>6, <1>7

\* The searches after any step.
LEMMA FlightTypeStep ==
  ASSUME LimiterInv, BacklogIsWaiting, FlightType, [Next]_vars
  PROVE  FlightType'
<1>0. /\ backlog \in Timers /\ Timeout \in Timers
      /\ backlog \in 0..MaxWait
  BY BacklogBounded, TimersHold, Numbers
<1>1. ASSUME NEW k \in Call, NEW s, s = Idle \/ s \in Search,
             s # Idle /\ s.stage = "fetch" => s.left <= Timeout,
             flight' = [flight EXCEPT ![k] = s]
      PROVE  FlightType'
  BY <1>1 DEF FlightType
<1>2. ASSUME NEW k \in Call, NEW q \in Query, NEW n \in 0..MaxRetries, TakeSlot(k, q, n)
      PROVE  FlightType'
  <2>1. CASE backlog = 0
    <3>1. PICK s : s = State("fetch", q, Timeout, n)
      OBVIOUS
    <3>2. s \in Search /\ s.left <= Timeout
      BY <1>0, <3>1, StateType, Numbers
    <3>. QED
      BY <1>1, <1>2, <2>1, <3>1, <3>2 DEF TakeSlot
  <2>2. CASE backlog # 0
    <3>1. PICK s : s = State("wait", q, backlog, n)
      OBVIOUS
    <3>2. s \in Search /\ s.stage = "wait"
      BY <1>0, <3>1, StateType
    <3>. QED
      BY <1>1, <1>2, <2>2, <3>1, <3>2 DEF TakeSlot
  <2>. QED
    BY <2>1, <2>2
<1>3. \A k \in Call : flight[k] # Idle => flight[k] \in Search
  BY DEF FlightType
<1>4. ASSUME NEW k \in Call, NEW q \in Query, StartSearch(k, q) PROVE FlightType'
  <2>1. CASE TakeSlot(k, q, 0)
    BY <1>2, <2>1, DelayBounded
  <2>2. CASE UNCHANGED flight
    BY <2>2 DEF FlightType
  <2>. QED
    BY <1>4, <2>1, <2>2 DEF StartSearch
<1>5. ASSUME NEW k \in Call, StartFetch(k) PROVE FlightType'
  <2>1. PICK s : s = State("fetch", flight[k].query, Timeout, flight[k].attempt)
    OBVIOUS
  <2>2. flight[k].query \in Query /\ flight[k].attempt \in 0..MaxRetries
    BY <1>3, <1>5 DEF StartFetch, Due, Search
  <2>3. s \in Search /\ s.left <= Timeout
    BY <1>0, <2>1, <2>2, StateType, Numbers
  <2>. QED
    BY <1>1, <1>5, <2>1, <2>3 DEF StartFetch
<1>6. ASSUME NEW k \in Call, FetchAnswered(k) \/ FetchRefused(k) PROVE FlightType'
  BY <1>1, <1>6 DEF FetchAnswered, FetchRefused
<1>7. ASSUME NEW k \in Call, FetchFailed(k) PROVE FlightType'
  <2>1. flight[k].query \in Query /\ flight[k].attempt \in 0..MaxRetries
    BY <1>3, <1>7 DEF FetchFailed, Search
  <2>2. CASE flight[k].attempt >= MaxRetries
    BY <1>1, <1>7, <2>2 DEF FetchFailed
  <2>3. CASE ~(flight[k].attempt >= MaxRetries)
    <3>1. PICK n \in 1..MaxRetries : n = flight[k].attempt + 1
      BY <2>1, <2>3, DelayBounded
    <3>2. PICK s : s = State("sleep", flight[k].query, Delay(n), n)
      OBVIOUS
    <3>3. Delay(n) \in Timers /\ n \in 0..MaxRetries
      BY <3>1, DelayBounded, TimersHold
    <3>4. s \in Search /\ s.stage = "sleep"
      BY <2>1, <3>2, <3>3, StateType
    <3>5. flight' = [flight EXCEPT ![k] = s]
      BY <1>7, <2>3, <3>1, <3>2 DEF FetchFailed, Attempts
    <3>. QED
      BY <1>1, <3>4, <3>5
  <2>. QED
    BY <2>2, <2>3
<1>8. ASSUME NEW k \in Call, Retry(k) PROVE FlightType'
  <2>1. flight[k].query \in Query /\ flight[k].attempt \in 0..MaxRetries
    BY <1>3, <1>8 DEF Retry, Due, Search
  <2>. QED
    BY <1>2, <1>8, <2>1 DEF Retry
<1>9. CASE Tick
  <2>1. ASSUME NEW k \in Call, flight[k] # Idle
        PROVE  LET s == [flight[k] EXCEPT !.left = @ - 1] IN
               /\ s \in Search /\ (s.stage = "fetch" => s.left <= Timeout)
    <3>1. PICK t \in Search : t = flight[k]
      BY <1>3, <2>1
    <3>2. t.left \in Timers /\ t.left > -Late /\ (t.stage = "fetch" => t.left <= Timeout)
      BY <1>9, <2>1, <3>1 DEF Tick, Search, FlightType
    <3>3. t.left - 1 \in Timers /\ t.left \in Int
      BY <3>2, TimersHold
    <3>4. [t EXCEPT !.left = @ - 1] \in Search
      BY <3>1, <3>3 DEF Search
    <3>5. /\ [t EXCEPT !.left = @ - 1].stage = t.stage
          /\ [t EXCEPT !.left = @ - 1].left = t.left - 1
      BY DEF Search
    <3>. QED
      BY <3>1, <3>2, <3>3, <3>4, <3>5, Numbers
  <2>2. /\ flight' = [k \in Call |-> flight'[k]]
        /\ \A k \in Call : flight'[k] =
             IF flight[k] = Idle THEN Idle ELSE [flight[k] EXCEPT !.left = @ - 1]
    BY <1>9 DEF Tick
  <2>3. \A k \in Call :
          /\ flight'[k] \in Search \cup {Idle}
          /\ flight'[k] # Idle /\ flight'[k].stage = "fetch" => flight'[k].left <= Timeout
    BY <2>1, <2>2
  <2>. QED
    BY <2>2, <2>3 DEF FlightType
<1>10. CASE UNCHANGED vars
  BY <1>10 DEF vars, FlightType
<1>. QED
  BY <1>4, <1>5, <1>6, <1>7, <1>8, <1>9, <1>10 DEF Next, Settle

\* A list of results, one for a query.
OnePerQuery(list) ==
  /\ list \in Seq(Entry)
  /\ \A i, j \in DOMAIN list : list[i].query = list[j].query => i = j

CacheType == OnePerQuery(cache) /\ Len(cache) <= MaxCache

\* The results in a list.
Members(list) == {list[i] : i \in DOMAIN list}

\* What is left of the cache without the result of a query.
LEMMA WithoutType ==
  ASSUME OnePerQuery(cache), NEW q, NEW rest, rest = Without(q)
  PROVE  /\ OnePerQuery(rest)
         /\ \A i \in DOMAIN rest : rest[i].query # q
         /\ Len(rest) = IF Of(q) = {} THEN Len(cache) ELSE Len(cache) - 1
         /\ Members(rest) = {e \in Members(cache) : e.query # q}
<1>1. CASE Of(q) = {}
  BY <1>1 DEF Without, Of, OnePerQuery, Members
<1>2. CASE Of(q) # {}
  <2>1. PICK at : at = CHOOSE i \in Of(q) : TRUE
    OBVIOUS
  <2>2. at \in DOMAIN cache /\ cache[at].query = q
    BY <1>2, <2>1 DEF Of
  <2>3. PICK before, after :
          before = SubSeq(cache, 1, at - 1) /\ after = SubSeq(cache, at + 1, Len(cache))
    OBVIOUS
  <2>4. rest = before \o after
    BY <1>2, <2>1, <2>3 DEF Without
  <2>5. /\ Len(cache) \in Nat /\ DOMAIN cache = 1..Len(cache) /\ at \in 1..Len(cache)
        /\ \A i \in 1..Len(cache) : cache[i] \in Entry
    BY <2>2 DEF OnePerQuery
  <2>6. /\ before \in Seq(Entry) /\ Len(before) = at - 1
        /\ \A i \in 1..(at - 1) : before[i] = cache[i]
    <3>1. \A i \in 1..(at - 1) : cache[i] \in Entry
      BY <2>5
    <3>2. \A i \in 1..(at - 1) - 1 + 1 : before[i] = cache[1 + i - 1]
      BY <2>3, <2>5, <3>1, SubSeqProperties
    <3>3. /\ before \in Seq(Entry)
          /\ Len(before) = IF 1 <= at - 1 THEN at - 1 - 1 + 1 ELSE 0
      BY <2>3, <2>5, <3>1, SubSeqProperties
    <3>4. \A i \in 1..(at - 1) : 1 + i - 1 = i /\ i \in 1..(at - 1) - 1 + 1
      BY <2>5
    <3>. QED
      BY <2>5, <3>2, <3>3, <3>4
  <2>7. /\ after \in Seq(Entry) /\ Len(after) = Len(cache) - at
        /\ \A i \in 1..(Len(cache) - at) : after[i] = cache[at + i]
    <3>1. \A i \in (at + 1)..Len(cache) : cache[i] \in Entry
      BY <2>5
    <3>2. \A i \in 1..Len(cache) - (at + 1) + 1 : after[i] = cache[(at + 1) + i - 1]
      BY <2>3, <2>5, <3>1, SubSeqProperties
    <3>3. /\ after \in Seq(Entry)
          /\ Len(after) = IF at + 1 <= Len(cache) THEN Len(cache) - (at + 1) + 1 ELSE 0
      BY <2>3, <2>5, <3>1, SubSeqProperties
    <3>4. \A i \in 1..(Len(cache) - at) :
            (at + 1) + i - 1 = at + i /\ i \in 1..Len(cache) - (at + 1) + 1
      BY <2>5
    <3>5. Len(after) = Len(cache) - at
      <4>1. PICK n \in Nat : n = Len(cache) /\ at \in 1..n
        <5>1. Len(cache) \in Nat /\ at \in 1..Len(cache)
          BY <2>5
        <5>. QED
          BY <5>1
      <4>2. (IF at + 1 <= n THEN n - (at + 1) + 1 ELSE 0) = n - at
        BY <4>1
      <4>. QED
        BY <3>3, <4>1, <4>2
    <3>6. ASSUME NEW i \in 1..(Len(cache) - at) PROVE after[i] = cache[at + i]
      <4>1. (at + 1) + i - 1 = at + i /\ i \in 1..Len(cache) - (at + 1) + 1
        BY <3>4
      <4>. QED
        BY <3>2, <4>1
    <3>. QED
      BY <3>3, <3>5, <3>6
  <2>8. /\ rest \in Seq(Entry) /\ Len(rest) = Len(cache) - 1
        /\ \A i \in 1..(Len(cache) - 1) : rest[i] = IF i < at THEN cache[i] ELSE cache[i + 1]
    <3>1. /\ rest \in Seq(Entry) /\ Len(rest) = Len(before) + Len(after)
          /\ \A i \in 1..Len(before) + Len(after) :
               rest[i] = IF i <= Len(before) THEN before[i] ELSE after[i - Len(before)]
      BY <2>4, <2>6, <2>7, ConcatProperties
    <3>2. ASSUME NEW i \in 1..(Len(cache) - 1)
          PROVE  rest[i] = IF i < at THEN cache[i] ELSE cache[i + 1]
      <4>1. CASE i < at
        BY <2>5, <2>6, <2>7, <3>1, <4>1
      <4>2. CASE ~(i < at)
        <5>1. i - Len(before) \in 1..(Len(cache) - at) /\ at + (i - Len(before)) = i + 1
          BY <2>5, <2>6, <4>2
        <5>2. rest[i] = after[i - Len(before)]
          BY <2>5, <2>6, <2>7, <3>1, <4>2
        <5>. QED
          BY <2>7, <4>2, <5>1, <5>2
      <4>. QED
        BY <4>1, <4>2
    <3>. QED
      BY <2>5, <2>6, <2>7, <3>1, <3>2
  <2>9. PICK place : place = [i \in 1..(Len(cache) - 1) |-> IF i < at THEN i ELSE i + 1]
    OBVIOUS
  <2>10. /\ DOMAIN rest = 1..(Len(cache) - 1)
         /\ \A i \in DOMAIN rest :
              /\ rest[i] = cache[place[i]] /\ place[i] \in DOMAIN cache /\ place[i] # at
         /\ \A i, j \in DOMAIN rest : place[i] = place[j] => i = j
    BY <2>5, <2>8, <2>9
  <2>11. \A i, j \in DOMAIN cache : cache[i].query = cache[j].query => i = j
    BY DEF OnePerQuery
  <2>12. \A i \in DOMAIN rest : rest[i].query # q
    BY <2>2, <2>10, <2>11
  <2>13. ASSUME NEW j \in DOMAIN cache, j # at
         PROVE  \E i \in DOMAIN rest : rest[i] = cache[j]
    <3>1. CASE j < at
      <4>1. j \in 1..(Len(cache) - 1) /\ rest[j] = cache[j]
        BY <2>5, <2>8, <3>1
      <4>. QED
        BY <2>10, <4>1
    <3>2. CASE j > at
      <4>1. j - 1 \in 1..(Len(cache) - 1) /\ ~(j - 1 < at) /\ (j - 1) + 1 = j
        BY <2>5, <3>2
      <4>2. rest[j - 1] = cache[j]
        BY <2>8, <4>1
      <4>. QED
        BY <2>10, <4>1, <4>2
    <3>. QED
      BY <2>5, <2>13, <3>1, <3>2
  <2>14. Members(rest) = {e \in Members(cache) : e.query # q}
    BY <2>2, <2>10, <2>12, <2>13 DEF Members
  <2>. QED
    BY <1>2, <2>8, <2>10, <2>11, <2>12, <2>14 DEF OnePerQuery
<1>. QED
  BY <1>1, <1>2

\* A result of another query is added last.
LEMMA AppendType ==
  ASSUME NEW list, OnePerQuery(list), NEW e \in Entry,
         \A i \in DOMAIN list : list[i].query # e.query
  PROVE  OnePerQuery(Append(list, e)) /\ Len(Append(list, e)) = Len(list) + 1
<1>1. /\ Append(list, e) \in Seq(Entry) /\ Len(Append(list, e)) = Len(list) + 1
      /\ Len(list) \in Nat /\ DOMAIN list = 1..Len(list)
      /\ \A i \in 1..Len(list) : Append(list, e)[i] = list[i]
      /\ Append(list, e)[Len(list) + 1] = e
  BY DEF OnePerQuery
<1>2. DOMAIN Append(list, e) = 1..(Len(list) + 1)
  BY <1>1
<1>3. \A i, j \in 1..Len(list) : list[i].query = list[j].query => i = j
  BY <1>1 DEF OnePerQuery
<1>4. ASSUME NEW i \in 1..(Len(list) + 1), NEW j \in 1..(Len(list) + 1),
             Append(list, e)[i].query = Append(list, e)[j].query
      PROVE  i = j
  <2>1. CASE i \in 1..Len(list) /\ j \in 1..Len(list)
    BY <1>1, <1>3, <1>4, <2>1
  <2>2. CASE i = Len(list) + 1 /\ j = Len(list) + 1
    BY <2>2
  <2>3. CASE i \in 1..Len(list) /\ j = Len(list) + 1
    BY <1>1, <1>4, <2>3
  <2>4. CASE i = Len(list) + 1 /\ j \in 1..Len(list)
    BY <1>1, <1>4, <2>4
  <2>. QED
    BY <1>1, <2>1, <2>2, <2>3, <2>4
<1>. QED
  BY <1>1, <1>2, <1>4 DEF OnePerQuery

\* set keeps to the limit and to one result for a query.
LEMMA PutType ==
  ASSUME CacheType, NEW e \in Entry
  PROVE  OnePerQuery(Put(e)) /\ Len(Put(e)) <= MaxCache
<1>1. PICK rest : rest = Without(e.query)
  OBVIOUS
<1>2. /\ OnePerQuery(rest) /\ \A i \in DOMAIN rest : rest[i].query # e.query
      /\ Len(rest) \in Nat /\ Len(rest) <= MaxCache
  <2>1. Len(cache) \in Nat /\ Len(cache) <= MaxCache
    BY DEF CacheType, OnePerQuery
  <2>. QED
    BY <1>1, <2>1, WithoutType, Numbers DEF CacheType, OnePerQuery
<1>3. PICK room : room = IF Len(rest) >= MaxCache THEN Tail(rest) ELSE rest
  OBVIOUS
<1>4. /\ OnePerQuery(room) /\ \A i \in DOMAIN room : room[i].query # e.query
      /\ Len(room) + 1 <= MaxCache
  <2>1. CASE Len(rest) >= MaxCache
    <3>1. rest # <<>> /\ rest \in Seq(Entry)
      BY <1>2, <2>1, Numbers DEF OnePerQuery
    <3>2. /\ Tail(rest) \in Seq(Entry) /\ Len(Tail(rest)) = Len(rest) - 1
          /\ \A i \in 1..Len(Tail(rest)) : Tail(rest)[i] = rest[i + 1]
      BY <3>1, HeadTailProperties
    <3>3. DOMAIN Tail(rest) = 1..(Len(rest) - 1) /\ DOMAIN rest = 1..Len(rest)
      BY <3>1, <3>2
    <3>4. \A i \in DOMAIN Tail(rest) : Tail(rest)[i] = rest[i + 1] /\ i + 1 \in DOMAIN rest
      BY <1>2, <3>2, <3>3
    <3>5. \A i, j \in DOMAIN Tail(rest) : Tail(rest)[i].query = Tail(rest)[j].query => i = j
      BY <1>2, <3>3, <3>4 DEF OnePerQuery
    <3>. QED
      BY <1>2, <1>3, <2>1, <3>2, <3>4, <3>5, Numbers DEF OnePerQuery
  <2>2. CASE ~(Len(rest) >= MaxCache)
    BY <1>2, <1>3, <2>2, Numbers
  <2>. QED
    BY <2>1, <2>2
<1>5. Put(e) = Append(room, e)
  BY <1>1, <1>3 DEF Put
<1>. QED
  BY <1>4, <1>5, AppendType

\* The cache after any step.
LEMMA CacheTypeStep ==
  ASSUME Searches, FlightType, CacheType, [Next]_vars
  PROVE  CacheType'
<1>1. ASSUME NEW k \in Call, NEW q \in Query, StartSearch(k, q) PROVE CacheType'
  <2>1. PICK rest : rest = Without(q)
    OBVIOUS
  <2>2. /\ OnePerQuery(rest) /\ \A i \in DOMAIN rest : rest[i].query # q
        /\ Len(rest) = IF Of(q) = {} THEN Len(cache) ELSE Len(cache) - 1
    BY <2>1, WithoutType DEF CacheType
  <2>3. Len(cache) \in Nat /\ Len(cache) <= MaxCache
    BY DEF CacheType, OnePerQuery
  <2>4. CASE cache' = Without(q)
    BY <2>1, <2>2, <2>3, <2>4, Numbers DEF CacheType, OnePerQuery
  <2>5. ASSUME NEW i \in Usable(q), cache' = Append(Without(q), Touched(cache[i]))
        PROVE  CacheType'
    <3>1. i \in Of(q) /\ cache[i] \in Entry /\ cache[i].query = q
      BY DEF Usable, Of, CacheType, OnePerQuery
    <3>2. PICK e \in Entry : e = cache[i] /\ e.query = q
      BY <3>1
    <3>3. cache' = Append(rest, e)
      BY <2>1, <2>5, <3>2 DEF Touched
    <3>4. OnePerQuery(cache') /\ Len(cache') = Len(rest) + 1
      BY <2>2, <3>2, <3>3, AppendType
    <3>5. Len(rest) = Len(cache) - 1
      BY <2>2, <3>1
    <3>6. OnePerQuery(cache)'
      BY <3>4 DEF OnePerQuery, Entry
    <3>. QED
      BY <2>3, <3>4, <3>5, <3>6, Numbers DEF CacheType
  <2>. QED
    BY <1>1, <2>4, <2>5 DEF StartSearch
<1>2. ASSUME NEW k \in Call, FetchAnswered(k) PROVE CacheType'
  <2>1. /\ flight[k].query \in Query /\ flight[k].left \in Int
        /\ flight[k].left <= Timeout
    BY <1>2 DEF FetchAnswered, Searches, IsSearch, FlightType
  <2>2. PICK bids \in Results[flight[k].query] :
          cache' = Put([query |-> flight[k].query, bids |-> bids,
                        age |-> Timeout - flight[k].left, left |-> CacheTTL + 1])
    BY <1>2 DEF FetchAnswered
  <2>3. bids \in Seq(Bid)
    BY <2>1, <2>2, ResultsAssumption
  <2>4. PICK e : e = [query |-> flight[k].query, bids |-> bids,
                      age |-> Timeout - flight[k].left, left |-> CacheTTL + 1]
    OBVIOUS
  <2>5. e \in Entry
    BY <2>1, <2>3, <2>4, Numbers DEF Entry
  <2>6. OnePerQuery(cache') /\ Len(cache') <= MaxCache
    BY <2>2, <2>4, <2>5, PutType
  <2>. QED
    BY <2>6 DEF CacheType, OnePerQuery, Entry
<1>3. CASE Tick
  <2>1. /\ DOMAIN cache = 1..Len(cache) /\ Len(cache) \in Nat
        /\ \A i \in DOMAIN cache : cache[i] \in Entry
    BY DEF CacheType, OnePerQuery
  <2>2. ASSUME NEW e \in Entry, e.left # 0
        PROVE  [e EXCEPT !.age = @ + 1, !.left = @ - 1] \in Entry
               /\ [e EXCEPT !.age = @ + 1, !.left = @ - 1].query = e.query
    <3>1. e.age + 1 \in Nat /\ e.left - 1 \in 0..(CacheTTL + 1)
      BY <2>2, Numbers DEF Entry
    <3>2. \A a \in Nat, l \in 0..(CacheTTL + 1) :
            [e EXCEPT !.age = a, !.left = l] \in Entry
            /\ [e EXCEPT !.age = a, !.left = l].query = e.query
      BY DEF Entry
    <3>. QED
      BY <3>1, <3>2
  <2>3. /\ cache' \in [1..Len(cache) -> Entry]
        /\ \A i \in 1..Len(cache) : cache'[i].query = cache[i].query
    BY <1>3, <2>1, <2>2 DEF Tick
  <2>4. cache' \in Seq(Entry) /\ Len(cache') = Len(cache) /\ DOMAIN cache' = DOMAIN cache
    BY <2>1, <2>3
  <2>5. \A i, j \in DOMAIN cache' : cache'[i].query = cache'[j].query => i = j
    BY <2>1, <2>3, <2>4 DEF CacheType, OnePerQuery
  <2>6. Entry' = Entry
    BY DEF Entry
  <2>. QED
    BY <2>4, <2>5, <2>6 DEF CacheType, OnePerQuery
<1>4. ASSUME NEW k \in Call, StartFetch(k) \/ FetchFailed(k) \/ FetchRefused(k) \/ Retry(k)
      PROVE  CacheType'
  BY <1>4 DEF StartFetch, FetchFailed, FetchRefused, Retry, CacheType, OnePerQuery
<1>5. CASE UNCHANGED vars
  BY <1>5 DEF vars, CacheType, OnePerQuery
<1>. QED
  BY <1>1, <1>2, <1>3, <1>4, <1>5 DEF Next, Settle

\* The keys on offer: each once, no more than MaxRecent, and those of the bids kept.
RecentType ==
  /\ recentKeys \in Seq(Bid) /\ Len(recentKeys) <= MaxRecent
  /\ \A i, j \in DOMAIN recentKeys : recentKeys[i] = recentKeys[j] => i = j
  /\ recentBids = ToSet(recentKeys)

\* A list without what it repeats.
LEMMA DistinctOf ==
  ASSUME NEW list \in Seq(Bid), NEW merged \in Distinct(list)
  PROVE  /\ merged \in Seq(Bid)
         /\ \A i, j \in DOMAIN merged : merged[i] = merged[j] => i = j
         /\ ToSet(merged) \subseteq ToSet(list)
<1>1. PICK firsts :
        firsts = {i \in DOMAIN list : \A j \in 1..(i - 1) : list[j] # list[i]}
  OBVIOUS
<1>2. Cardinality(firsts) \in Nat
  <2>1. Len(list) \in Nat /\ firsts \in SUBSET (1..Len(list))
    BY <1>1
  <2>2. IsFiniteSet(1..Len(list))
    BY <2>1, FS_Interval
  <2>. QED
    BY <2>1, <2>2, FS_Subset, FS_CardinalityType
<1>3. PICK at \in [1..Cardinality(firsts) -> firsts] :
        /\ \A m, n \in DOMAIN at : m < n => at[m] < at[n]
        /\ merged = [n \in DOMAIN at |-> list[at[n]]]
  BY <1>1 DEF Distinct
<1>4. \A n \in 1..Cardinality(firsts) :
        at[n] \in firsts /\ at[n] \in 1..Len(list) /\ merged[n] = list[at[n]]
  BY <1>1, <1>3
<1>5. merged \in [1..Cardinality(firsts) -> Bid]
  BY <1>3, <1>4
<1>6. ASSUME NEW m \in 1..Cardinality(firsts), NEW n \in 1..Cardinality(firsts), m < n
      PROVE  merged[m] # merged[n]
  <2>1. at[m] < at[n] /\ at[m] \in Int /\ at[n] \in Int /\ at[m] >= 1
    BY <1>3, <1>4, <1>6
  <2>2. at[m] \in 1..(at[n] - 1)
    BY <2>1
  <2>. QED
    BY <1>1, <1>4, <2>2
<1>7. \A i, j \in DOMAIN merged : merged[i] = merged[j] => i = j
  <2>1. TAKE i \in DOMAIN merged, j \in DOMAIN merged
  <2>2. i \in 1..Cardinality(firsts) /\ j \in 1..Cardinality(firsts)
    BY <1>5
  <2>. QED
    BY <1>6, <2>2
<1>8. merged \in Seq(Bid)
  BY <1>2, <1>5
<1>9. ToSet(merged) \subseteq ToSet(list)
  BY <1>4, <1>5 DEF ToSet
<1>. QED
  BY <1>7, <1>8, <1>9

\* What rememberBidKeys makes of the bids of an answer.
LEMMA RecentKeysOf ==
  ASSUME RecentType, NEW bids \in Seq(Bid), NEW keys \in RecentKeys(bids)
  PROVE  /\ keys \in Seq(Bid) /\ Len(keys) <= MaxRecent
         /\ \A i, j \in DOMAIN keys : keys[i] = keys[j] => i = j
         /\ RecentBids(bids, keys) = ToSet(keys)
<1>1. PICK list : list = bids \o recentKeys
  OBVIOUS
<1>2. list \in Seq(Bid) /\ ToSet(list) \subseteq ToSet(bids) \cup ToSet(recentKeys)
  BY <1>1, ConcatProperties DEF RecentType, ToSet
<1>3. PICK merged \in Distinct(list) :
        keys = SubSeq(merged, 1, IF Len(merged) < MaxRecent THEN Len(merged) ELSE MaxRecent)
  BY <1>1 DEF RecentKeys
<1>4. /\ merged \in Seq(Bid) /\ ToSet(merged) \subseteq ToSet(list)
      /\ \A i, j \in DOMAIN merged : merged[i] = merged[j] => i = j
  BY <1>2, DistinctOf
<1>5. PICK n \in Nat : /\ n = IF Len(merged) < MaxRecent THEN Len(merged) ELSE MaxRecent
                       /\ n <= Len(merged) /\ n <= MaxRecent
  <2>1. Len(merged) \in Nat /\ MaxRecent \in Nat
    BY <1>4, TimeAssumption
  <2>. QED
    BY <2>1
<1>6. /\ keys \in Seq(Bid) /\ Len(keys) = n
      /\ \A i \in 1..n : keys[i] = merged[i]
  <2>1. \A i \in 1..n : merged[i] \in Bid
    BY <1>4, <1>5
  <2>2. /\ keys \in Seq(Bid) /\ Len(keys) = IF 1 <= n THEN n - 1 + 1 ELSE 0
        /\ \A i \in 1..n - 1 + 1 : keys[i] = merged[1 + i - 1]
    BY <1>3, <1>5, <2>1, SubSeqProperties
  <2>3. \A i \in 1..n : 1 + i - 1 = i /\ i \in 1..n - 1 + 1
    BY <1>5
  <2>. QED
    BY <1>5, <2>2, <2>3
<1>7. DOMAIN keys = 1..n /\ 1..n \subseteq DOMAIN merged
  BY <1>4, <1>5, <1>6
<1>8. \A i, j \in DOMAIN keys : keys[i] = keys[j] => i = j
  BY <1>4, <1>6, <1>7
<1>9. ToSet(keys) \subseteq ToSet(merged)
  BY <1>6, <1>7 DEF ToSet
<1>10. ToSet(keys) \subseteq ToSet(bids) \cup recentBids
  BY <1>2, <1>4, <1>9 DEF RecentType
<1>. QED
  BY <1>5, <1>6, <1>8, <1>10 DEF RecentBids

\* The keys on offer after any step.
LEMMA RecentTypeStep ==
  ASSUME Searches, RecentType, [Next]_vars
  PROVE  RecentType'
<1>1. ASSUME NEW k \in Call, FetchAnswered(k) PROVE RecentType'
  <2>1. flight[k].query \in Query
    BY <1>1 DEF FetchAnswered, Searches, IsSearch
  <2>2. PICK bids \in Results[flight[k].query] :
          \E keys \in IF Remember THEN RecentKeys(bids) ELSE {recentKeys} :
            /\ recentKeys' = keys
            /\ recentBids' = IF Remember THEN RecentBids(bids, keys) ELSE recentBids
    BY <1>1 DEF FetchAnswered
  <2>3. bids \in Seq(Bid)
    BY <2>1, <2>2, ResultsAssumption
  <2>4. CASE Remember
    <3>1. PICK keys \in RecentKeys(bids) :
            recentKeys' = keys /\ recentBids' = RecentBids(bids, keys)
      BY <2>2, <2>4
    <3>2. /\ keys \in Seq(Bid) /\ Len(keys) <= MaxRecent
          /\ \A i, j \in DOMAIN keys : keys[i] = keys[j] => i = j
          /\ RecentBids(bids, keys) = ToSet(keys)
      BY <2>3, RecentKeysOf
    <3>. QED
      BY <3>1, <3>2 DEF RecentType
  <2>5. CASE ~Remember
    BY <2>2, <2>5 DEF RecentType
  <2>. QED
    BY <2>4, <2>5
<1>2. ASSUME UNCHANGED <<recentKeys, recentBids>> PROVE RecentType'
  BY <1>2 DEF RecentType
<1>3. ASSUME NEW k \in Call, NEW q \in Query, StartSearch(k, q)
      PROVE  UNCHANGED <<recentKeys, recentBids>>
  BY <1>3 DEF StartSearch
<1>4. ASSUME NEW k \in Call, StartFetch(k) \/ FetchFailed(k) \/ FetchRefused(k) \/ Retry(k)
      PROVE  UNCHANGED <<recentKeys, recentBids>>
  BY <1>4 DEF StartFetch, FetchFailed, FetchRefused, Retry
<1>. QED
  BY <1>1, <1>2, <1>3, <1>4 DEF Next, Settle, Tick, vars

(* The limiter bounds the slots searches wait for (Queue); with that the types   *)
(* are inductive.                                                             *)
TypeInv == LimiterInv /\ Queue /\ FlightType /\ CacheType /\ RecentType

LEMMA TypeInvHolds == Spec => []TypeInv
<1>1. Init => FlightType /\ CacheType /\ RecentType
  <2> SUFFICES ASSUME Init PROVE FlightType /\ CacheType /\ RecentType
    OBVIOUS
  <2>1. FlightType
    BY DEF Init, FlightType
  <2>2. CacheType
    BY Numbers DEF Init, CacheType, OnePerQuery
  <2>3. RecentType
    BY TimeAssumption DEF Init, RecentType, ToSet
  <2>. QED
    BY <2>1, <2>2, <2>3
<1>2. Init => TypeInv
  BY <1>1, LimiterInit, QueueInit DEF TypeInv
<1>3. TypeInv /\ [Next]_vars => TypeInv'
  <2> SUFFICES ASSUME TypeInv, [Next]_vars PROVE TypeInv'
    OBVIOUS
  <2>1. LimiterInv /\ Queue /\ FlightType /\ CacheType /\ RecentType /\ Searches
        /\ BacklogIsWaiting
    BY DEF TypeInv, LimiterInv, Queue
  <2>2. LimiterInv' /\ Queue'
    BY <2>1, LimiterStep, QueueStep
  <2>3. FlightType' /\ CacheType' /\ RecentType'
    BY <2>1, FlightTypeStep, CacheTypeStep, RecentTypeStep
  <2>. QED
    BY <2>2, <2>3 DEF TypeInv
<1>. QED
  BY <1>2, <1>3, PTL DEF Spec

(* The variables keep their types: the cache holds one result for a query within  *)
(* its limit, completion offers each bid that is kept, once, and no others        *)
(* (rememberBidKeys), and no search is retried more than MaxRetries times.       *)
THEOREM TypeCorrect == Spec => []TypeOK
<1>1. TypeInv => TypeOK
  <2> SUFFICES ASSUME TypeInv PROVE TypeOK
    OBVIOUS
  <2>1. backlog \in 0..(MaxWait + Interval)
    <3>1. backlog \in 0..MaxWait
      BY BacklogBounded DEF TypeInv, Queue
    <3>. QED
      BY <3>1, TimersHold, Numbers
  <2>2. quiet \in 0..Interval
    BY DEF TypeInv, LimiterInv, Searches
  <2>3. /\ flight \in [Call -> Search \cup {Idle}]
        /\ cache \in Seq(Entry) /\ Len(cache) <= MaxCache
        /\ \A i, j \in DOMAIN cache : cache[i].query = cache[j].query => i = j
    BY DEF TypeInv, FlightType, CacheType, OnePerQuery
  <2>4. /\ recentKeys \in Seq(Bid) /\ Len(recentKeys) <= MaxRecent
        /\ \A i, j \in DOMAIN recentKeys : recentKeys[i] = recentKeys[j] => i = j
        /\ recentBids = ToSet(recentKeys)
    BY DEF TypeInv, RecentType
  <2>. QED
    BY <2>1, <2>2, <2>3, <2>4 DEF TypeOK
<1>. QED
  BY <1>1, TypeInvHolds, PTL

-----------------------------------------------------------------------------
(* How long a search takes *)

\* The longest that one attempt may take: its delay, its slot and its fetch, each late.
Round == Longest + MaxWait + Timeout + 3 * Late

\* The time that may be left of the attempt that a search makes.
OfAttempt(s) ==
  s.left + Late
  + (CASE s.stage = "sleep" -> MaxWait + Timeout + 2 * Late
       [] s.stage = "wait"  -> Timeout + Late
       [] s.stage = "fetch" -> 0)

\* The time that may be left of a search, with every attempt that may follow.
TimeLeft(s) == OfAttempt(s) + Round * (MaxRetries - s.attempt)

\* It never grows while the search lasts, and passes with time.
NotPutOff ==
  \A k \in Call : flight[k] # Idle /\ flight'[k] # Idle =>
    /\ TimeLeft(flight'[k]) <= TimeLeft(flight[k])
    /\ Tick => TimeLeft(flight'[k]) = TimeLeft(flight[k]) - 1

\* No search outlasts the attempts it may make.
EndsInTime ==
  \A k \in Call : flight[k] # Idle => TimeLeft(flight[k]) \in 0..(Round * (MaxRetries + 1))

\* So many attempts take so long.
LEMMA Rounds ==
  /\ Round \in Nat /\ \A n \in Nat : Round * n \in Nat
  /\ \A n \in Nat : Round * (n + 1) = Round * n + Round
  /\ \A m, n \in Nat : m <= n => Round * m <= Round * n
<1>1. Round \in Nat
  BY DelayBounded, TimersHold, Numbers DEF Round
<1>2. \A n \in Nat : Round * n \in Nat /\ Round * (n + 1) = Round * n + Round
  BY <1>1
<1>3. ASSUME NEW m \in Nat, NEW n \in Nat, m <= n PROVE Round * m <= Round * n
  <2>1. Round * m \in Nat /\ Round * (n - m) \in Nat
    BY <1>1, <1>3
  <2>2. Round * n = Round * m + Round * (n - m)
    BY <1>1, <1>3
  <2>. QED
    BY <1>1, <2>1, <2>2
<1>. QED
  BY <1>1, <1>2, <1>3

\* The time left of a search in each of its stages.
LEMMA LeftOf ==
  ASSUME NEW stage \in {"wait", "fetch", "sleep"}, NEW q, NEW left \in Timers,
         NEW n \in 0..MaxRetries, NEW s, s = State(stage, q, left, n),
         NEW rest, rest = Round * (MaxRetries - n)
  PROVE  /\ rest \in Nat /\ left \in Int /\ left + Late >= 0
         /\ stage = "sleep" => TimeLeft(s) = left + MaxWait + Timeout + 3 * Late + rest
         /\ stage = "wait" => TimeLeft(s) = left + Timeout + 2 * Late + rest
         /\ stage = "fetch" => TimeLeft(s) = left + Late + rest
<1>1. MaxRetries - n \in Nat
  BY DelayBounded
<1>2. rest \in Nat
  BY <1>1, Rounds
<1>3. left \in Int /\ left + Late >= 0
  BY TimersHold, Numbers DEF Timers
<1>4. s.stage = stage /\ s.left = left /\ s.attempt = n
  BY DEF State
<1>5. /\ stage = "sleep" => OfAttempt(s) = left + Late + (MaxWait + Timeout + 2 * Late)
      /\ stage = "wait" => OfAttempt(s) = left + Late + (Timeout + Late)
      /\ stage = "fetch" => OfAttempt(s) = left + Late + 0
  BY <1>4 DEF OfAttempt
<1>6. TimeLeft(s) = OfAttempt(s) + rest
  BY <1>4 DEF TimeLeft
<1>. QED
  BY <1>2, <1>3, <1>5, <1>6, TimersHold, Numbers

\* A search is made by State.
LEMMA SearchIsState ==
  ASSUME NEW s \in Search
  PROVE  /\ s = State(s.stage, s.query, s.left, s.attempt)
         /\ s.stage \in {"wait", "fetch", "sleep"}
         /\ s.query \in Query /\ s.left \in Timers /\ s.attempt \in 0..MaxRetries
  BY DEF Search, State

\* No search is put off by a step.
LEMMA PutOffStep ==
  ASSUME LimiterInv, BacklogIsWaiting, FlightType, [Next]_vars, NEW k \in Call,
         flight[k] # Idle, flight'[k] # Idle
  PROVE  TimeLeft(flight'[k]) <= TimeLeft(flight[k])
<1>1. PICK stage, q, left, n :
        /\ flight[k] = State(stage, q, left, n)
        /\ flight[k].stage = stage /\ flight[k].query = q
        /\ flight[k].left = left /\ flight[k].attempt = n
        /\ stage \in {"wait", "fetch", "sleep"} /\ left \in Timers /\ n \in 0..MaxRetries
  <2>1. flight[k] \in Search
    BY DEF FlightType
  <2>. QED
    BY <2>1, SearchIsState
<1>2. PICK rest : rest = Round * (MaxRetries - n)
  OBVIOUS
<1>3. /\ rest \in Nat /\ left \in Int /\ left + Late >= 0
      /\ stage = "sleep" => TimeLeft(flight[k]) = left + MaxWait + Timeout + 3 * Late + rest
      /\ stage = "wait" => TimeLeft(flight[k]) = left + Timeout + 2 * Late + rest
      /\ stage = "fetch" => TimeLeft(flight[k]) = left + Late + rest
  BY <1>1, <1>2, LeftOf
<1>4. /\ backlog \in 0..MaxWait /\ backlog \in Timers /\ Timeout \in Timers /\ MaxWait \in Nat
      /\ Timeout \in Nat /\ Late \in Nat
  BY BacklogBounded, TimersHold, Numbers
<1>5. flight \in [Call -> Search \cup {Idle}]
  BY DEF FlightType
<1>6. CASE UNCHANGED flight
  BY <1>1, <1>3, <1>4, <1>6
<1>7. CASE Tick
  <2>1. flight'[k] = [flight[k] EXCEPT !.left = @ - 1]
    BY <1>7 DEF Tick
  <2>2. flight'[k] = State(stage, q, left - 1, n)
    BY <1>1, <2>1 DEF State
  <2>3. left - 1 \in Timers
    BY <1>1, <1>7, TimersHold DEF Tick
  <2>4. /\ stage = "sleep" => TimeLeft(flight'[k]) = left - 1 + MaxWait + Timeout + 3 * Late + rest
        /\ stage = "wait" => TimeLeft(flight'[k]) = left - 1 + Timeout + 2 * Late + rest
        /\ stage = "fetch" => TimeLeft(flight'[k]) = left - 1 + Late + rest
    BY <1>1, <1>2, <2>2, <2>3, LeftOf
  <2>. QED
    BY <1>1, <1>3, <1>4, <2>4
<1>8. CASE Settle(k)
  <2>1. CASE StartFetch(k)
    <3>1. flight'[k] = State("fetch", q, Timeout, n) /\ stage = "wait"
      BY <1>1, <1>5, <2>1 DEF StartFetch, Due
    <3>2. TimeLeft(flight'[k]) = Timeout + Late + rest
      BY <1>1, <1>2, <1>4, <3>1, LeftOf
    <3>. QED
      BY <1>3, <1>4, <3>1, <3>2
  <2>2. CASE FetchFailed(k)
    <3>1. /\ stage = "fetch" /\ ~(n >= MaxRetries)
          /\ flight'[k] = State("sleep", q, Delay(n + 1), n + 1)
      BY <1>1, <1>5, <2>2 DEF FetchFailed, Attempts
    <3>2. PICK m \in 1..MaxRetries : m = n + 1
      BY <1>1, <3>1, DelayBounded
    <3>3. PICK later : later = Round * (MaxRetries - m)
      OBVIOUS
    <3>4. Delay(m) \in Timers /\ Delay(m) <= Longest /\ Longest \in Nat
      BY DelayBounded, TimersHold
    <3>5. m \in 0..MaxRetries
      BY DelayBounded
    <3>6. /\ TimeLeft(flight'[k]) = Delay(m) + MaxWait + Timeout + 3 * Late + later
          /\ later \in Nat /\ Delay(m) \in Int
      BY <3>1, <3>2, <3>3, <3>4, <3>5, LeftOf
    <3>7. rest = later + Round
      <4>1. MaxRetries - m \in Nat /\ MaxRetries - n = MaxRetries - m + 1
        BY <1>1, <3>2, DelayBounded
      <4>. QED
        BY <1>2, <3>3, <4>1, Rounds
    <3>8. Round = Longest + MaxWait + Timeout + 3 * Late
      BY DEF Round
    <3>. QED
      BY <1>3, <1>4, <3>1, <3>4, <3>6, <3>7, <3>8
  <2>3. CASE Retry(k)
    <3>1. stage = "sleep" /\ TakeSlot(k, q, n)
      BY <1>1, <2>3 DEF Retry, Due
    <3>2. CASE backlog = 0
      <4>1. flight'[k] = State("fetch", q, Timeout, n)
        BY <1>5, <3>1, <3>2 DEF TakeSlot
      <4>2. TimeLeft(flight'[k]) = Timeout + Late + rest
        BY <1>1, <1>2, <1>4, <4>1, LeftOf
      <4>. QED
        BY <1>3, <1>4, <3>1, <4>2
    <3>3. CASE backlog # 0
      <4>1. flight'[k] = State("wait", q, backlog, n)
        BY <1>5, <3>1, <3>3 DEF TakeSlot
      <4>2. TimeLeft(flight'[k]) = backlog + Timeout + 2 * Late + rest
        BY <1>1, <1>2, <1>4, <4>1, LeftOf
      <4>. QED
        BY <1>3, <1>4, <3>1, <4>2
    <3>. QED
      BY <3>2, <3>3
  <2>4. CASE FetchAnswered(k) \/ FetchRefused(k)
    BY <1>5, <2>4 DEF FetchAnswered, FetchRefused
  <2>. QED
    BY <1>8, <2>1, <2>2, <2>3, <2>4 DEF Settle
<1>9. ASSUME NEW j \in Call, (\E p \in Query : StartSearch(j, p)) \/ Settle(j), j # k
      PROVE  TimeLeft(flight'[k]) <= TimeLeft(flight[k])
  <2>1. flight'[k] = flight[k]
    BY <1>5, <1>9 DEF StartSearch, Settle, TakeSlot, StartFetch, FetchAnswered, FetchFailed,
                      FetchRefused, Retry
  <2>. QED
    BY <1>1, <1>3, <1>4, <2>1
<1>10. ASSUME NEW p \in Query PROVE ~StartSearch(k, p)
  BY DEF StartSearch
<1>. QED
  BY <1>6, <1>7, <1>8, <1>9, <1>10 DEF Next, vars

\* While time passes, so does what is left of a search.
LEMMA TickCounts ==
  ASSUME FlightType, Tick, NEW k \in Call, flight[k] # Idle
  PROVE  TimeLeft(flight'[k]) = TimeLeft(flight[k]) - 1
<1>1. PICK s \in Search : s = flight[k]
  BY DEF FlightType
<1>2. flight'[k] = [s EXCEPT !.left = @ - 1]
  BY <1>1 DEF Tick
<1>3. PICK t : t = [s EXCEPT !.left = @ - 1]
  OBVIOUS
<1>4. t.stage = s.stage /\ t.attempt = s.attempt /\ t.left = s.left - 1
  BY <1>1, <1>3 DEF Search
<1>5. s.left \in Timers /\ s.attempt \in 0..MaxRetries /\ s.stage \in {"wait", "fetch", "sleep"}
  BY <1>1 DEF Search
<1>6. s.left - 1 \in Timers
  BY <1>1, <1>5, TimersHold DEF Tick
<1>7. PICK rest : rest = Round * (MaxRetries - s.attempt)
  OBVIOUS
<1>8. /\ rest \in Nat /\ s.left \in Int
      /\ s.stage = "sleep" => TimeLeft(s) = s.left + MaxWait + Timeout + 3 * Late + rest
      /\ s.stage = "wait" => TimeLeft(s) = s.left + Timeout + 2 * Late + rest
      /\ s.stage = "fetch" => TimeLeft(s) = s.left + Late + rest
  BY <1>5, <1>7, SearchIsState, LeftOf
<1>9. /\ s.stage = "sleep" => TimeLeft(t) = s.left - 1 + MaxWait + Timeout + 3 * Late + rest
      /\ s.stage = "wait" => TimeLeft(t) = s.left - 1 + Timeout + 2 * Late + rest
      /\ s.stage = "fetch" => TimeLeft(t) = s.left - 1 + Late + rest
  <2>1. t = State(s.stage, s.query, s.left - 1, s.attempt)
    BY <1>1, <1>3, SearchIsState DEF State
  <2>. QED
    BY <1>5, <1>6, <1>7, <2>1, LeftOf
<1>. QED
  BY <1>1, <1>2, <1>3, <1>5, <1>8, <1>9, TimersHold, Numbers

\* A search begins with no more time than its attempts may take.
LEMMA EndsStep ==
  ASSUME LimiterInv, BacklogIsWaiting, FlightType, FlightType', EndsInTime, [Next]_vars
  PROVE  EndsInTime'
<1> SUFFICES ASSUME NEW k \in Call, flight'[k] # Idle
             PROVE  TimeLeft(flight'[k]) \in 0..(Round * (MaxRetries + 1))
  BY DEF EndsInTime
<1>1. TimeLeft(flight'[k]) \in Nat
  <2>1. PICK s \in Search : s = flight'[k]
    BY DEF FlightType
  <2>2. PICK rest : rest = Round * (MaxRetries - s.attempt)
    OBVIOUS
  <2>3. /\ rest \in Nat /\ s.left \in Int /\ s.left + Late >= 0
        /\ s.stage = "sleep" => TimeLeft(s) = s.left + MaxWait + Timeout + 3 * Late + rest
        /\ s.stage = "wait" => TimeLeft(s) = s.left + Timeout + 2 * Late + rest
        /\ s.stage = "fetch" => TimeLeft(s) = s.left + Late + rest
    BY <2>2, SearchIsState, LeftOf
  <2>4. s.stage \in {"wait", "fetch", "sleep"}
    BY SearchIsState
  <2>. QED
    BY <2>1, <2>3, <2>4, TimersHold, Numbers
<1>2. CASE flight[k] # Idle
  <2>1. TimeLeft(flight'[k]) <= TimeLeft(flight[k])
    BY <1>2, PutOffStep
  <2>2. TimeLeft(flight[k]) \in 0..(Round * (MaxRetries + 1)) /\ Round * (MaxRetries + 1) \in Nat
    BY <1>2, Rounds, DelayBounded DEF EndsInTime
  <2>. QED
    BY <1>1, <2>1, <2>2
<1>3. CASE flight[k] = Idle
  <2>1. PICK q \in Query : TakeSlot(k, q, 0)
    <3>1. flight \in [Call -> Search \cup {Idle}]
      BY DEF FlightType
    <3>2. ~Tick /\ ~UNCHANGED vars
      BY <1>3 DEF Tick, vars
    <3>3. ~Settle(k)
      BY <1>3 DEF Settle, StartFetch, FetchAnswered, FetchFailed, FetchRefused, Retry, Due
    <3>4. ASSUME NEW j \in Call, (\E p \in Query : StartSearch(j, p)) \/ Settle(j), j # k
          PROVE  FALSE
      BY <1>3, <3>1, <3>4 DEF StartSearch, Settle, TakeSlot, StartFetch, FetchAnswered,
                              FetchFailed, FetchRefused, Retry
    <3>5. PICK p \in Query : StartSearch(k, p)
      BY <3>2, <3>3, <3>4 DEF Next
    <3>. QED
      BY <1>3, <3>5 DEF StartSearch
  <2>2. /\ backlog \in 0..MaxWait /\ backlog \in Timers /\ Timeout \in Timers /\ MaxWait \in Nat
        /\ Timeout \in Nat /\ Late \in Nat /\ 0 \in 0..MaxRetries
    BY BacklogBounded, TimersHold, Numbers, DelayBounded
  <2>3. PICK rest : rest = Round * (MaxRetries - 0)
    OBVIOUS
  <2>4. flight \in [Call -> Search \cup {Idle}]
    BY DEF FlightType
  <2>5. rest \in Nat /\ TimeLeft(flight'[k]) <= MaxWait + Timeout + 2 * Late + rest
    <3>1. CASE backlog = 0
      <4>1. flight'[k] = State("fetch", q, Timeout, 0)
        BY <2>1, <2>4, <3>1 DEF TakeSlot
      <4>2. rest \in Nat /\ TimeLeft(flight'[k]) = Timeout + Late + rest
        BY <2>2, <2>3, <4>1, LeftOf
      <4>. QED
        BY <2>2, <4>2
    <3>2. CASE backlog # 0
      <4>1. flight'[k] = State("wait", q, backlog, 0)
        BY <2>1, <2>4, <3>2 DEF TakeSlot
      <4>2. rest \in Nat /\ TimeLeft(flight'[k]) = backlog + Timeout + 2 * Late + rest
        BY <2>2, <2>3, <4>1, LeftOf
      <4>. QED
        BY <2>2, <4>2
    <3>. QED
      BY <3>1, <3>2
  <2>6. Round * (MaxRetries + 1) = rest + Round
    <3>1. MaxRetries - 0 = MaxRetries
      BY DelayBounded
    <3>. QED
      BY <2>3, <3>1, Rounds, DelayBounded
  <2>7. Round = Longest + MaxWait + Timeout + 3 * Late /\ Longest \in Nat
    BY DelayBounded DEF Round
  <2>. QED
    BY <1>1, <2>2, <2>5, <2>6, <2>7
<1>. QED
  BY <1>2, <1>3

\* What the two theorems rest on.
TimeInv == LimiterInv /\ Queue /\ FlightType /\ EndsInTime

LEMMA TimeHolds == Spec => []TimeInv
<1>1. Init => TimeInv
  BY LimiterInit, QueueInit DEF Init, TimeInv, FlightType, EndsInTime
<1>2. TimeInv /\ [Next]_vars => TimeInv'
  BY LimiterStep, QueueStep, FlightTypeStep, EndsStep DEF TimeInv, Queue
<1>. QED
  BY <1>1, <1>2, PTL DEF Spec

(* A search is over after the time that all the attempts it may make can take,    *)
(* with the wait for their slots and late timers, whatever other searches do.     *)
THEOREM SearchesBounded == Spec => []EndsInTime
BY TimeHolds, PTL DEF TimeInv

(* Nothing puts a search off: no failure, retry or other search adds to the time  *)
(* that is left of it, and with every tick of the clock that is one less.          *)
THEOREM NeverPutOff == Spec => [][NotPutOff]_vars
<1>1. TimeInv /\ [Next]_vars => [NotPutOff]_vars
  BY PutOffStep, TickCounts DEF TimeInv, Queue, NotPutOff
<1>. QED
  BY <1>1, TimeHolds, PTL DEF Spec

-----------------------------------------------------------------------------
(* The cache implements FreshCache *)

Views(list) ==
  {[key |-> e.query, answer |-> e.bids, age |-> e.age] :
     e \in {e \in Members(list) : e.left > 0}}

\* What the mapping says of a cache now and after a step.
LEMMA HeldViews == HeldResults = Views(cache) /\ HeldResults' = Views(cache')
  BY DEF HeldResults, Views, Members

\* A result that is added is a member, and the others stay.
LEMMA AppendMembers ==
  ASSUME NEW list \in Seq(Entry), NEW e
  PROVE  Members(Append(list, e)) = Members(list) \cup {e}
<1>1. /\ DOMAIN Append(list, e) = 1..(Len(list) + 1)
      /\ DOMAIN list = 1..Len(list) /\ Len(list) \in Nat
      /\ \A i \in 1..Len(list) : Append(list, e)[i] = list[i]
      /\ Append(list, e)[Len(list) + 1] = e
  BY AppendProperties
<1>. QED
  BY <1>1 DEF Members

\* set leaves the new result and some of those of other queries.
LEMMA PutMembers ==
  ASSUME CacheType, NEW e \in Entry
  PROVE  /\ e \in Members(Put(e))
         /\ Members(Put(e)) \subseteq {f \in Members(cache) : f.query # e.query} \cup {e}
<1>1. PICK rest : rest = Without(e.query)
  OBVIOUS
<1>2. /\ rest \in Seq(Entry)
      /\ Members(rest) = {f \in Members(cache) : f.query # e.query}
  BY <1>1, WithoutType DEF CacheType, OnePerQuery
<1>3. PICK room : room = IF Len(rest) >= MaxCache THEN Tail(rest) ELSE rest
  OBVIOUS
<1>4. room \in Seq(Entry) /\ Members(room) \subseteq Members(rest)
  <2>1. CASE Len(rest) >= MaxCache
    <3>1. rest # <<>>
      BY <1>2, <2>1, Numbers
    <3>2. /\ Tail(rest) \in Seq(Entry) /\ Len(Tail(rest)) = Len(rest) - 1
          /\ \A i \in 1..Len(Tail(rest)) : Tail(rest)[i] = rest[i + 1]
      BY <1>2, <3>1, HeadTailProperties
    <3>3. \A i \in DOMAIN Tail(rest) : Tail(rest)[i] = rest[i + 1] /\ i + 1 \in DOMAIN rest
      BY <1>2, <3>1, <3>2
    <3>. QED
      BY <1>3, <2>1, <3>2, <3>3 DEF Members
  <2>2. CASE ~(Len(rest) >= MaxCache)
    BY <1>2, <1>3, <2>2
  <2>. QED
    BY <2>1, <2>2
<1>5. Put(e) = Append(room, e)
  BY <1>1, <1>3 DEF Put
<1>. QED
  BY <1>2, <1>4, <1>5, AppendMembers

\* A search that hits or misses leaves what the cache would answer.
LEMMA StartHolds ==
  ASSUME CacheType, NEW k \in Call, NEW q \in Query, StartSearch(k, q)
  PROVE  Views(cache') = Views(cache)
<1>1. PICK rest : rest = Without(q)
  OBVIOUS
<1>2. /\ rest \in Seq(Entry)
      /\ Members(rest) = {f \in Members(cache) : f.query # q}
  BY <1>1, WithoutType DEF CacheType, OnePerQuery
<1>3. /\ \A i \in DOMAIN cache : cache[i] \in Entry
      /\ \A i, j \in DOMAIN cache : cache[i].query = cache[j].query => i = j
  BY DEF CacheType, OnePerQuery
<1>4. ASSUME NEW i \in Usable(q), cache' = Append(Without(q), Touched(cache[i]))
      PROVE  Views(cache') = Views(cache)
  <2>1. i \in DOMAIN cache /\ cache[i].query = q
    BY DEF Usable, Of
  <2>2. Members(cache') = Members(rest) \cup {cache[i]}
    BY <1>1, <1>2, <1>4, AppendMembers DEF Touched
  <2>3. \A f \in Members(cache) : f.query = q => f = cache[i]
    BY <1>3, <2>1 DEF Members
  <2>4. Members(cache') = Members(cache)
    BY <1>2, <2>1, <2>2, <2>3 DEF Members
  <2>. QED
    BY <2>4 DEF Views
<1>5. ASSUME Usable(q) = {}, cache' = Without(q)
      PROVE  Views(cache') = Views(cache)
  <2>1. \A f \in Members(cache) : f.query = q => ~(f.left > 0)
    BY <1>5 DEF Usable, Of, Members
  <2>2. {f \in Members(cache') : f.left > 0} = {f \in Members(cache) : f.left > 0}
    BY <1>1, <1>2, <1>5, <2>1
  <2>. QED
    BY <2>2 DEF Views
<1>. QED
  BY <1>4, <1>5 DEF StartSearch

\* An answer of KKJ is learnt with its age.
LEMMA AnswerLearnt ==
  ASSUME Searches, FlightType, CacheType, NEW k \in Call, FetchAnswered(k)
  PROVE  \E q \in Query : \E bids \in Results[q], age \in 0..(Timeout + Late) :
           Fresh!Learn(q, bids, age)
<1>1. /\ flight[k].query \in Query /\ flight[k].left \in Int
      /\ flight[k].left <= Timeout /\ flight[k].left >= -Late
  BY DEF FetchAnswered, Searches, IsSearch, FlightType
<1>2. PICK bids \in Results[flight[k].query] :
        cache' = Put([query |-> flight[k].query, bids |-> bids,
                      age |-> Timeout - flight[k].left, left |-> CacheTTL + 1])
  BY DEF FetchAnswered
<1>3. PICK q, age : q = flight[k].query /\ age = Timeout - flight[k].left
  OBVIOUS
<1>4. q \in Query /\ age \in 0..(Timeout + Late) /\ bids \in Results[q] /\ bids \in Seq(Bid)
  BY <1>1, <1>2, <1>3, Numbers, ResultsAssumption
<1>5. PICK e : e = [query |-> q, bids |-> bids, age |-> age, left |-> CacheTTL + 1]
  OBVIOUS
<1>6. e \in Entry
  BY <1>4, <1>5, Numbers DEF Entry
<1>7. /\ e \in Members(cache')
      /\ Members(cache') \subseteq {f \in Members(cache) : f.query # q} \cup {e}
  BY <1>2, <1>3, <1>5, <1>6, PutMembers
<1>8. PICK new : new = [key |-> q, answer |-> bids, age |-> age]
  OBVIOUS
<1>9. new \in Views(cache')
  BY <1>5, <1>7, <1>8, Numbers DEF Views
<1>10. Views(cache') \subseteq {h \in Views(cache) : h.key # q} \cup {new}
  BY <1>5, <1>7, <1>8 DEF Views
<1>11. Fresh!Learn(q, bids, age)
  BY <1>8, <1>9, <1>10, HeldViews DEF Fresh!Learn, Fresh!Held
<1>. QED
  BY <1>4, <1>11

\* A result as a tick leaves it.
Aged(e) == IF e.left = 0 THEN e ELSE [e EXCEPT !.age = @ + 1, !.left = @ - 1]

\* As time passes the results age, and those whose life is over are gone.
LEMMA ResultsAge ==
  ASSUME cache \in Seq(Good), Tick
  PROVE  Fresh!Age
<1>1. /\ DOMAIN cache' = DOMAIN cache
      /\ \A i \in DOMAIN cache : cache[i] \in Good
      /\ \A i \in DOMAIN cache : cache'[i] = Aged(cache[i])
  <2>1. cache' = [i \in DOMAIN cache |-> Aged(cache[i])]
    BY Zenon DEF Tick, Aged
  <2>2. \A i \in DOMAIN cache : cache[i] \in Good
    OBVIOUS
  <2>. QED
    BY <2>1, <2>2
<1>2. ASSUME NEW h \in Views(cache')
      PROVE  \E g \in {g \in Views(cache) :
                        g.age < Timeout + Late + [q \in Query |-> CacheTTL][g.key]} :
               h = Fresh!Held(g.key, g.answer, g.age + 1)
  <2>1. PICK i \in DOMAIN cache :
          /\ cache'[i].left > 0
          /\ h = [key |-> cache'[i].query, answer |-> cache'[i].bids, age |-> cache'[i].age]
    <3>1. PICK f \in Members(cache') :
            f.left > 0 /\ h = [key |-> f.query, answer |-> f.bids, age |-> f.age]
      BY <1>2, Zenon DEF Views
    <3>2. PICK i \in DOMAIN cache' : f = cache'[i]
      BY <3>1, Zenon DEF Members
    <3>. QED
      BY <1>1, <3>1, <3>2, Zenon
  <2>2. PICK e \in Good : e = cache[i]
    BY <1>1
  <2>3. /\ e.query \in Query /\ e.age \in Int /\ e.left \in Nat
        /\ e.left > 0 => e.age + e.left <= Life
    BY <2>2 DEF Good
  <2>4. cache'[i] = IF e.left = 0 THEN e ELSE [e EXCEPT !.age = e.age + 1, !.left = e.left - 1]
    BY <1>1, <2>2 DEF Aged
  <2>5. e.left # 0
    BY <2>1, <2>4
  <2>6. /\ cache'[i].query = e.query /\ cache'[i].bids = e.bids
        /\ cache'[i].age = e.age + 1 /\ cache'[i].left = e.left - 1
    BY <2>2, <2>4, <2>5 DEF Good
  <2>7. e.left > 1 /\ e.age < Timeout + Late + CacheTTL
    BY <2>1, <2>3, <2>5, <2>6, Numbers DEF Life
  <2>8. PICK g : g = [key |-> e.query, answer |-> e.bids, age |-> e.age]
    OBVIOUS
  <2>9. g \in Views(cache)
    BY <2>2, <2>3, <2>7, <2>8 DEF Views, Members
  <2>10. g.age < Timeout + Late + [q \in Query |-> CacheTTL][g.key]
    BY <2>3, <2>7, <2>8
  <2>11. h = Fresh!Held(g.key, g.answer, g.age + 1)
    BY <2>1, <2>6, <2>8 DEF Fresh!Held
  <2>. QED
    BY <2>9, <2>10, <2>11
<1>3. HeldResults = Views(cache) /\ HeldResults' = Views(cache')
  BY HeldViews
<1>. QED
  BY <1>2, <1>3 DEF Fresh!Age

\* Every step of the searches is a step of the abstract cache or leaves it.
LEMMA FreshStep ==
  Searches /\ FlightType /\ CacheType /\ cache \in Seq(Good) /\ [Next]_vars
  => [Fresh!Next]_HeldResults
<1> SUFFICES ASSUME Searches, FlightType, CacheType, cache \in Seq(Good), [Next]_vars
             PROVE  Fresh!Next \/ HeldResults' = HeldResults
  OBVIOUS
<1>1. ASSUME NEW k \in Call, NEW q \in Query, StartSearch(k, q)
      PROVE  HeldResults' = HeldResults
  BY <1>1, StartHolds, HeldViews
<1>2. ASSUME NEW k \in Call, FetchAnswered(k) PROVE Fresh!Next
  BY <1>2, AnswerLearnt DEF Fresh!Next
<1>3. CASE Tick
  BY <1>3, ResultsAge DEF Fresh!Next
<1>4. ASSUME NEW k \in Call, StartFetch(k) \/ FetchFailed(k) \/ FetchRefused(k) \/ Retry(k)
      PROVE  HeldResults' = HeldResults
  BY <1>4 DEF StartFetch, FetchFailed, FetchRefused, Retry, HeldResults
<1>5. CASE UNCHANGED vars
  BY <1>5 DEF vars, HeldResults
<1>. QED
  BY <1>1, <1>2, <1>3, <1>4, <1>5 DEF Next, Settle

\* The cache of the searches is a fresh cache: hits, evictions, slow searches and
\* retries included, it never answers with a result that KKJ did not give for the
\* query, that another has replaced, or that has grown younger.
THEOREM CacheIsFresh == Spec => ImplementsFreshCache
<1>1. Init => Fresh!Init
  BY DEF Init, Fresh!Init, HeldResults
<1>2. TypeInv /\ IInv /\ [Next]_vars => [Fresh!Next]_HeldResults
  BY FreshStep DEF TypeInv, LimiterInv, IInv
<1>. QED
  BY <1>1, <1>2, TypeInvHolds, CacheHolds, PTL DEF Spec, ImplementsFreshCache, Fresh!Spec
=============================================================================
