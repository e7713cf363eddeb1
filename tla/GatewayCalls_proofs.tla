------------------------- MODULE GatewayCalls_proofs --------------------------
(***************************************************************************)
(* Proofs about GatewayCalls, for any operations, servers, policies, calls in *)
(* flight, approvals and lifetimes.                                         *)
(***************************************************************************)
EXTENDS GatewayCalls, SequenceTheorems, TLAPS

(* The invariant behind WritesApproved: an approval still good was issued when *)
(* its operation was last approved, or before.                               *)
ApprovalsFresh ==
  \A a \in Approval : approvals[a] # None /\ approvals[a].left > 0 =>
    issuedAgo[approvals[a].op] + approvals[a].left <= ApprovalTTL + 1

(* The invariant behind FinancialPaced: what the rate limit still waits for   *)
(* and the time a financial server was left alone make up the window.         *)
Paced == \A s \in Financial : quiet[s] + recent[s] >= Window

\* The bounds, one by one.
LEMMA Numbers ==
  /\ Window \in Nat \ {0} /\ ApprovalTTL \in Nat \ {0} /\ MaxEntries \in Nat \ {0}
  /\ Timeout \in Nat
  /\ \A s \in Server : CacheTTL[s] \in Nat
  /\ \A o \in Op : ServerOf[o] \in Server
  BY BoundsAssumption, OpAssumption

-----------------------------------------------------------------------------
(* The two ways a call starts *)

\* The call goes on to the proxy.
Admits(k, o) ==
  /\ Proxy(k, o)
  /\ UNCHANGED <<approvals, issuedAgo>>
  /\ recent' \in {recent, [recent EXCEPT ![ServerOf[o]] = Window]}
  /\ ServerOf[o] \in Financial =>
       recent[ServerOf[o]] = 0 /\ recent' = [recent EXCEPT ![ServerOf[o]] = Window]
  /\ o \in NeedsApproval => \E a \in Approval : Verified(a, o)

\* The call is answered at once; it may have been counted.
Refuses(k, o) ==
  /\ flight' = [flight EXCEPT ![k] = Refused(o)]
  /\ UNCHANGED <<cache, approvals, quiet, issuedAgo>>
  /\ recent' \in {recent, [recent EXCEPT ![ServerOf[o]] = Window]}

\* Whichever tool starts a call, it is admitted or refused: no tool takes another
\* way to a financial server or to a tool that needs approval.
LEMMA Starts ==
  ASSUME NEW k \in Call, NEW o \in Op,
         CallRegistered(k, o) \/ SearchPublic(k, o) \/ ReadAccount(k, o)
  PROVE  flight[k] = None /\ (Admits(k, o) \/ Refuses(k, o))
<1>1. ASSUME NEW oauth, NEW tier, NEW a \in Approval \cup {None}, NEW declared,
             Evaluate(k, o, oauth, tier, a, declared), UNCHANGED issuedAgo
      PROVE  Admits(k, o) \/ Refuses(k, o)
  <2>1. CASE recent[ServerOf[o]] = 0 /\ recent' = [recent EXCEPT ![ServerOf[o]] = Window]
             /\ ToolPolicyMet(o, a, declared) /\ Proxy(k, o) /\ UNCHANGED approvals
    <3>1. o \in NeedsApproval => a \in Approval /\ Verified(a, o)
      BY <2>1 DEF ToolPolicyMet, Verified
    <3>. QED
      BY <2>1, <3>1, <1>1 DEF Admits
  <2>2. CASE flight' = [flight EXCEPT ![k] = Refused(o)]
             /\ UNCHANGED <<cache, approvals, quiet>>
             /\ recent' \in {recent, [recent EXCEPT ![ServerOf[o]] = Window]}
    BY <2>2, <1>1 DEF Refuses
  <2>. QED
    BY <1>1, <2>1, <2>2 DEF Evaluate
<1>2. CASE CallRegistered(k, o)
  BY <1>1, <1>2 DEF CallRegistered, Refuses
<1>3. CASE SearchPublic(k, o)
  BY <1>3, RegistryAssumption DEF SearchPublic, Admits
<1>4. CASE ReadAccount(k, o)
  BY <1>1, <1>4 DEF ReadAccount
<1>. QED
  BY <1>2, <1>3, <1>4

-----------------------------------------------------------------------------
(* The cache *)

(* The invariant behind AnswersFresh: an entry is filed under the key of its  *)
(* operation, and its age and what is left of its life make up the TTL and at  *)
(* most one child call.                                                      *)
EntryOK(e) ==
  /\ e \in Entry
  /\ e.key = KeyOf[e.op]
  /\ e.left > 0 => e.age + e.left <= CacheTTL[ServerOf[e.op]] + Timeout + 1

CacheOK(entries) ==
  /\ entries \in Seq(Entry)
  /\ Len(entries) <= MaxEntries
  /\ \A i, j \in DOMAIN entries : entries[i].key = entries[j].key => i = j
  /\ \A i \in DOMAIN entries : EntryOK(entries[i])

\* Without a key that is there the cache keeps its other entries in their order.
LEMMA WithoutIs ==
  ASSUME CacheOK(cache), NEW key, Keyed(key) # {}
  PROVE  \E i \in Keyed(key) :
           /\ i \in 1..Len(cache)
           /\ Without(key) \in Seq(Entry) /\ Len(Without(key)) = Len(cache) - 1
           /\ \A j \in 1..Len(Without(key)) :
                Without(key)[j] = IF j < i THEN cache[j] ELSE cache[j + 1]
<1>1. PICK i : i = CHOOSE at \in Keyed(key) : TRUE
  OBVIOUS
<1>2. PICK before, after : /\ before = SubSeq(cache, 1, i - 1)
                           /\ after = SubSeq(cache, i + 1, Len(cache))
  OBVIOUS
<1>3. PICK rest : rest = before \o after
  OBVIOUS
<1>4. Without(key) = rest
  BY <1>1, <1>2, <1>3 DEF Without
<1>5. /\ i \in Keyed(key) /\ i \in 1..Len(cache)
      /\ cache \in Seq(Entry) /\ Len(cache) \in Nat
      /\ \A j \in 1..Len(cache) : cache[j] \in Entry
  BY <1>1 DEF Keyed, CacheOK
<1>6. /\ before \in Seq(Entry) /\ Len(before) = i - 1
      /\ \A j \in 1..(i - 1) : before[j] = cache[j]
  BY <1>2, <1>5, SubSeqProperties
<1>7. /\ after \in Seq(Entry) /\ Len(after) = Len(cache) - i
      /\ \A j \in 1..(Len(cache) - i) : after[j] = cache[j + i]
  BY <1>2, <1>5, SubSeqProperties
<1>8. /\ rest \in Seq(Entry)
      /\ Len(rest) = Len(before) + Len(after)
      /\ \A j \in 1..(Len(before) + Len(after)) :
           rest[j] = IF j <= Len(before) THEN before[j] ELSE after[j - Len(before)]
  BY <1>3, <1>6, <1>7, ConcatProperties
<1>9. Len(rest) = Len(cache) - 1
  BY <1>5, <1>6, <1>7, <1>8
<1>10. ASSUME NEW j \in 1..Len(rest)
       PROVE  rest[j] = IF j < i THEN cache[j] ELSE cache[j + 1]
  <2>1. CASE j < i
    BY <1>5, <1>6, <1>7, <1>8, <1>9, <2>1
  <2>2. CASE ~(j < i)
    <3>1. j - (i - 1) \in 1..(Len(cache) - i) /\ (j - (i - 1)) + i = j + 1
      BY <1>5, <1>9, <2>2
    <3>2. rest[j] = after[j - (i - 1)]
      BY <1>5, <1>6, <1>7, <1>8, <1>9, <2>2
    <3>. QED
      BY <1>7, <2>2, <3>1, <3>2
  <2>. QED
    BY <2>1, <2>2
<1>. QED
  BY <1>4, <1>5, <1>8, <1>9, <1>10

LEMMA WithoutOK ==
  ASSUME CacheOK(cache), NEW key
  PROVE  CacheOK(Without(key))
<1>1. CASE Keyed(key) = {}
  BY <1>1 DEF Without
<1>2. CASE Keyed(key) # {}
  <2>1. PICK rest : rest = Without(key)
    OBVIOUS
  <2>2. PICK i \in Keyed(key) :
          /\ i \in 1..Len(cache)
          /\ rest \in Seq(Entry) /\ Len(rest) = Len(cache) - 1
          /\ \A j \in 1..Len(rest) : rest[j] = IF j < i THEN cache[j] ELSE cache[j + 1]
    BY <1>2, <2>1, WithoutIs
  <2>3. /\ DOMAIN rest = 1..Len(rest) /\ DOMAIN cache = 1..Len(cache)
        /\ Len(rest) \in Nat /\ Len(cache) \in Nat
    BY <2>2 DEF CacheOK
  <2>4. ASSUME NEW j \in DOMAIN rest, NEW l \in DOMAIN rest, rest[j].key = rest[l].key
        PROVE  j = l
    <3>1. \A m, n \in DOMAIN cache : cache[m].key = cache[n].key => m = n
      BY DEF CacheOK
    <3>2. PICK m, n : m = (IF j < i THEN j ELSE j + 1) /\ n = (IF l < i THEN l ELSE l + 1)
      OBVIOUS
    <3>3. /\ m \in DOMAIN cache /\ n \in DOMAIN cache
          /\ rest[j] = cache[m] /\ rest[l] = cache[n]
      BY <2>2, <2>3, <3>2
    <3>4. m = n
      BY <2>4, <3>1, <3>3, Zenon
    <3>5. i \in Int /\ j \in Int /\ l \in Int
      BY <2>2, <2>3
    <3>. QED
      BY <3>2, <3>4, <3>5
  <2>5. ASSUME NEW j \in DOMAIN rest PROVE EntryOK(rest[j])
    <3>1. j \in 1..(Len(cache) - 1) /\ rest[j] = IF j < i THEN cache[j] ELSE cache[j + 1]
      BY <2>2, <2>3
    <3>2. j \in DOMAIN cache /\ j + 1 \in DOMAIN cache
      BY <2>3, <3>1
    <3>. QED
      BY <3>1, <3>2 DEF CacheOK
  <2>. QED
    BY <2>1, <2>2, <2>3, <2>4, <2>5, Numbers DEF CacheOK
<1>. QED
  BY <1>1, <1>2

\* A new entry takes the place of the one with its key, or the last one; a full
\* cache has dropped its oldest first.
LEMMA PutOK ==
  ASSUME CacheOK(cache), NEW entry, EntryOK(entry)
  PROVE  CacheOK(Put(entry))
<1> DEFINE room == IF Len(cache) >= MaxEntries THEN Tail(cache) ELSE cache
           at == {i \in DOMAIN room : room[i].key = entry.key}
<1>1. CacheOK(room) /\ Len(room) + 1 <= MaxEntries
  <2>1. CASE Len(cache) >= MaxEntries
    <3>1. cache \in Seq(Entry) /\ cache # <<>>
      BY <2>1, Numbers DEF CacheOK
    <3>2. /\ Tail(cache) \in Seq(Entry) /\ Len(Tail(cache)) = Len(cache) - 1
          /\ DOMAIN Tail(cache) = 1..(Len(cache) - 1) /\ DOMAIN cache = 1..Len(cache)
          /\ \A i \in 1..(Len(cache) - 1) : Tail(cache)[i] = cache[i + 1]
      BY <3>1
    <3>. QED
      BY <2>1, <3>1, <3>2, Numbers DEF CacheOK
  <2>2. CASE ~(Len(cache) >= MaxEntries)
    BY <2>2, Numbers DEF CacheOK
  <2>. QED
    BY <2>1, <2>2
<1> HIDE DEF room
<1>2. CASE at = {}
  <2>1. Put(entry) = Append(room, entry)
    BY <1>2 DEF Put, room
  <2>2. /\ Append(room, entry) \in Seq(Entry) /\ Len(Append(room, entry)) = Len(room) + 1
        /\ DOMAIN Append(room, entry) = 1..(Len(room) + 1) /\ DOMAIN room = 1..Len(room)
        /\ \A i \in 1..Len(room) : Append(room, entry)[i] = room[i]
        /\ Append(room, entry)[Len(room) + 1] = entry
    BY <1>1 DEF CacheOK, EntryOK
  <2>3. \A i \in 1..Len(room) : room[i].key # entry.key
    BY <1>2, <2>2
  <2>. QED
    BY <1>1, <2>1, <2>2, <2>3, Numbers DEF CacheOK
<1>3. CASE at # {}
  <2> DEFINE put == [i \in DOMAIN room |-> IF i \in at THEN entry ELSE room[i]]
  <2>1. Put(entry) = put
    BY <1>3 DEF Put, room
  <2>2. DOMAIN room = 1..Len(room) /\ Len(room) \in Nat /\ \A i \in DOMAIN room : room[i] \in Entry
    BY <1>1 DEF CacheOK
  <2>3. put \in [1..Len(room) -> Entry]
    BY <2>2 DEF EntryOK
  <2>4. put \in Seq(Entry) /\ Len(put) = Len(room) /\ DOMAIN put = DOMAIN room
    BY <2>2, <2>3
  <2>5. \A i \in DOMAIN room : put[i].key = room[i].key /\ EntryOK(put[i])
    BY <1>1 DEF CacheOK
  <2> HIDE DEF put
  <2>. QED
    BY <1>1, <2>1, <2>4, <2>5, Numbers DEF CacheOK
<1>. QED
  BY <1>2, <1>3

\* As time passes an entry ages by what is left of its life.
Aged(e) == [e EXCEPT !.age = IF e.left > 0 THEN @ + 1 ELSE @, !.left = Less(@)]

LEMMA AgedOK ==
  ASSUME NEW e, EntryOK(e)
  PROVE  EntryOK(Aged(e)) /\ Aged(e).key = e.key
<1>1. e \in Entry /\ e.age \in Nat /\ e.left \in Nat /\ e.op \in Op
      /\ CacheTTL[ServerOf[e.op]] \in Nat
  BY Numbers DEF EntryOK, Entry
<1>2. /\ Aged(e).key = e.key /\ Aged(e).op = e.op
      /\ Aged(e).left = Less(e.left)
      /\ Aged(e).age = IF e.left > 0 THEN e.age + 1 ELSE e.age
  BY <1>1 DEF Aged, Entry
<1>3. Less(e.left) \in Nat /\ (e.left > 0 => Less(e.left) = e.left - 1)
      /\ (e.left = 0 => Less(e.left) = 0)
  BY <1>1 DEF Less
<1>4. Aged(e) \in Entry
  <2>1. \A n, m \in Nat : [e EXCEPT !.age = n, !.left = m] \in Entry
    BY <1>1 DEF Entry
  <2>2. (IF e.left > 0 THEN e.age + 1 ELSE e.age) \in Nat
    BY <1>1
  <2>. QED
    BY <1>3, <2>1, <2>2 DEF Aged
<1>. QED
  BY <1>1, <1>2, <1>3, <1>4, Numbers DEF EntryOK

LEMMA AgesOK ==
  ASSUME NEW entries, CacheOK(entries)
  PROVE  CacheOK([i \in DOMAIN entries |-> Aged(entries[i])])
<1> DEFINE aged == [i \in DOMAIN entries |-> Aged(entries[i])]
<1>1. entries \in Seq(Entry) /\ Len(entries) \in Nat /\ DOMAIN entries = 1..Len(entries)
  BY DEF CacheOK
<1>2. \A i \in DOMAIN entries : EntryOK(aged[i]) /\ aged[i].key = entries[i].key
  BY AgedOK DEF CacheOK
<1>3. aged \in [1..Len(entries) -> Entry]
  BY <1>1, <1>2 DEF EntryOK
<1> HIDE DEF aged
<1>4. aged \in Seq(Entry) /\ Len(aged) = Len(entries) /\ DOMAIN aged = DOMAIN entries
  BY <1>1, <1>3
<1>5. CacheOK(aged)
  BY <1>2, <1>4 DEF CacheOK
<1>. QED
  BY <1>5 DEF aged

-----------------------------------------------------------------------------
(* The calls *)

\* What holds of a call under way and of its answer.
CallOK(f) ==
  /\ f \in Fetch \cup Reply \cup {None}
  /\ f # None /\ f.stage = "fetch" /\ f.op \in NeedsApproval => f.issued <= ApprovalTTL
  /\ f # None /\ f.stage = "reply" /\ f.outcome = "ok" =>
       f.age <= CacheTTL[ServerOf[f.op]] + Timeout
  /\ f # None /\ f.stage = "reply" /\ ServerOf[f.op] \in Financial => ~f.hit

CallsOK(calls) == calls \in [Call -> Fetch \cup Reply \cup {None}] /\ \A k \in Call : CallOK(calls[k])

ClocksOK ==
  /\ recent \in [Server -> 0..Window]
  /\ approvals \in [Approval -> Token \cup {None}]
  /\ quiet \in [Server -> 0..Window]
  /\ issuedAgo \in [Op -> 0..NeverIssued]

IInv == CacheOK(cache) /\ CallsOK(flight) /\ ClocksOK /\ ApprovalsFresh /\ Paced

\* The invariant implies each of the properties.
LEMMA Implied ==
  IInv => TypeOK /\ AnswersFresh /\ WritesApproved /\ FinancialNeverCached
<1>1. CallsOK(flight) => AnswersFresh /\ WritesApproved /\ FinancialNeverCached
  BY DEF CallsOK, CallOK, AnswersFresh, WritesApproved, FinancialNeverCached
<1>2. CacheOK(cache) /\ CallsOK(flight) /\ ClocksOK => TypeOK
  BY DEF CacheOK, CallsOK, ClocksOK, TypeOK
<1>. QED
  BY <1>1, <1>2 DEF IInv

\* One call that changes leaves the others as they were.
LEMMA OneCall ==
  ASSUME CallsOK(flight), NEW k \in Call, NEW f, CallOK(f), flight' = [flight EXCEPT ![k] = f]
  PROVE  CallsOK(flight')
  BY DEF CallsOK, CallOK

\* A call that is refused is answered with nothing.
LEMMA RefusedOK ==
  ASSUME NEW o \in Op PROVE CallOK(Refused(o))
  BY Numbers DEF CallOK, Refused, Answer, Reply, Fetch

\* The rate limit that starts anew keeps its pace.
LEMMA CountedOK ==
  ASSUME ClocksOK, Paced, NEW o \in Op,
         recent' \in {recent, [recent EXCEPT ![ServerOf[o]] = Window]}
  PROVE  /\ recent' \in [Server -> 0..Window]
         /\ \A s \in Server : recent'[s] >= recent[s]
<1>1. ServerOf[o] \in Server /\ Window \in 0..Window
  BY Numbers
<1>2. [recent EXCEPT ![ServerOf[o]] = Window] \in [Server -> 0..Window]
  BY <1>1 DEF ClocksOK
<1>3. \A s \in Server : /\ recent[s] \in 0..Window
                        /\ [recent EXCEPT ![ServerOf[o]] = Window][s]
                             = IF s = ServerOf[o] THEN Window ELSE recent[s]
  BY <1>1 DEF ClocksOK
<1>. QED
  BY <1>1, <1>2, <1>3, Numbers DEF ClocksOK

\* The child is asked: the call waits, and its server has not been left alone.
LEMMA FetchOK ==
  ASSUME IInv, NEW k \in Call, NEW o \in Op, StartFetch(k, o),
         o \in NeedsApproval => \E a \in Approval : Verified(a, o)
  PROVE  /\ CallsOK(flight')
         /\ quiet' \in [Server -> 0..Window]
         /\ \A s \in Server : s # ServerOf[o] => quiet'[s] = quiet[s]
<1> DEFINE f == [stage |-> "fetch", op |-> o, age |-> 0, issued |-> issuedAgo[o]]
<1>1. o \in NeedsApproval => issuedAgo[o] <= ApprovalTTL
  <2> SUFFICES ASSUME NEW a \in Approval, Verified(a, o) PROVE issuedAgo[o] <= ApprovalTTL
    OBVIOUS
  <2>1. approvals[a] # None /\ approvals[a] \in Token /\ approvals[a].left > 0
        /\ approvals[a].op = o
    BY DEF Verified, IInv, ClocksOK
  <2>2. issuedAgo[o] + approvals[a].left <= ApprovalTTL + 1 /\ approvals[a].left \in Nat
    BY <2>1, Numbers DEF IInv, ApprovalsFresh, Token
  <2>3. issuedAgo[o] \in Nat
    BY Numbers DEF IInv, ClocksOK, NeverIssued
  <2>. QED
    BY <2>1, <2>2, <2>3, Numbers
<1>2. f \in Fetch
  <2>1. issuedAgo[o] \in 0..NeverIssued /\ 0 \in 0..Timeout
    BY Numbers DEF IInv, ClocksOK
  <2>. QED
    BY <2>1 DEF Fetch
<1>3. CallOK(f)
  BY <1>1, <1>2 DEF CallOK
<1>4. flight' = [flight EXCEPT ![k] = f] /\ quiet' = [quiet EXCEPT ![ServerOf[o]] = 0]
  BY DEF StartFetch
<1> HIDE DEF f
<1>5. CallsOK(flight')
  BY <1>3, <1>4, OneCall DEF IInv
<1>6. /\ quiet' \in [Server -> 0..Window]
      /\ \A s \in Server : s # ServerOf[o] => quiet'[s] = quiet[s]
  BY <1>4, Numbers DEF IInv, ClocksOK
<1>. QED
  BY <1>5, <1>6

\* The proxy answers from a usable entry or asks the child.
LEMMA ProxyOK ==
  ASSUME IInv, NEW k \in Call, NEW o \in Op, Proxy(k, o),
         o \in NeedsApproval => \E a \in Approval : Verified(a, o)
  PROVE  /\ CacheOK(cache') /\ CallsOK(flight')
         /\ quiet' \in [Server -> 0..Window]
         /\ \A s \in Server : s # ServerOf[o] => quiet'[s] = quiet[s]
<1>1. CASE StartFetch(k, o) /\ cache' \in {cache, Without(KeyOf[o])}
  BY <1>1, FetchOK, WithoutOK DEF IInv
<1>2. ASSUME Cacheable(o), NEW i \in Keyed(KeyOf[o]), Usable(cache[i]), UNCHANGED <<cache, quiet>>,
             flight' = [flight EXCEPT ![k] = Answer(o, "ok", cache[i].op, cache[i].age, TRUE)]
      PROVE  /\ CacheOK(cache') /\ CallsOK(flight')
             /\ quiet' \in [Server -> 0..Window]
             /\ \A s \in Server : s # ServerOf[o] => quiet'[s] = quiet[s]
  <2> DEFINE e == cache[i]
             f == Answer(o, "ok", e.op, e.age, TRUE)
  <2>1. EntryOK(e) /\ e.key = KeyOf[o]
    BY <1>2 DEF IInv, CacheOK, Keyed
  <2>2. e.op \in Op /\ e.age \in Nat /\ e.left \in Nat /\ e.left > 0
    BY <1>2, <2>1 DEF EntryOK, Entry, Usable
  <2>3. ServerOf[e.op] = ServerOf[o] /\ CacheTTL[ServerOf[o]] \in Nat
    BY <2>1, <2>2, OpAssumption, Numbers DEF EntryOK
  <2>4. e.age <= CacheTTL[ServerOf[o]] + Timeout
    BY <2>1, <2>2, <2>3, Numbers DEF EntryOK
  <2>5. f \in Reply
    BY <2>2 DEF Answer, Reply
  <2>6. f.stage = "reply" /\ f.op = o /\ f.age = e.age /\ ServerOf[o] \notin Financial
    BY <1>2 DEF Answer, Cacheable
  <2> HIDE DEF f
  <2>7. CallOK(f)
    BY <2>4, <2>5, <2>6 DEF CallOK
  <2>8. CallsOK(flight')
    BY <1>2, <2>7, OneCall DEF IInv, f
  <2>. QED
    BY <1>2, <2>8 DEF IInv, ClocksOK
<1>. QED
  BY <1>1, <1>2 DEF Proxy

\* A call that starts keeps the invariant.
LEMMA StartOK ==
  ASSUME IInv, NEW k \in Call, NEW o \in Op, Admits(k, o) \/ Refuses(k, o)
  PROVE  IInv'
<1>1. recent' \in [Server -> 0..Window] /\ \A s \in Server : recent'[s] >= recent[s]
  BY CountedOK DEF IInv, Admits, Refuses
<1>2. UNCHANGED <<approvals, issuedAgo>>
  BY DEF Admits, Refuses
<1>3. ApprovalsFresh'
  BY <1>2 DEF IInv, ApprovalsFresh
<1>4. CASE Admits(k, o)
  <2>1. /\ CacheOK(cache') /\ CallsOK(flight')
        /\ quiet' \in [Server -> 0..Window]
        /\ \A s \in Server : s # ServerOf[o] => quiet'[s] = quiet[s]
    BY <1>4, ProxyOK DEF Admits
  <2>2. Paced'
    <3> SUFFICES ASSUME NEW s \in Financial PROVE quiet'[s] + recent'[s] >= Window
      BY DEF Paced
    <3>1. s \in Server /\ quiet[s] \in Nat /\ recent[s] \in Nat /\ recent'[s] \in Nat
          /\ quiet'[s] \in Nat /\ recent'[s] >= recent[s] /\ quiet[s] + recent[s] >= Window
      BY <1>1, <2>1, OpAssumption, Numbers DEF IInv, ClocksOK, Paced
    <3>2. CASE s = ServerOf[o]
      <4>1. recent'[s] = Window
        BY <1>4, <3>1, <3>2 DEF Admits, IInv, ClocksOK
      <4>. QED
        BY <3>1, <4>1, Numbers
    <3>3. CASE s # ServerOf[o]
      BY <2>1, <3>1, <3>3, Numbers
    <3>. QED
      BY <3>2, <3>3
  <2>3. ClocksOK'
    BY <1>1, <1>2, <2>1 DEF IInv, ClocksOK
  <2>. QED
    BY <2>1, <2>2, <2>3, <1>3 DEF IInv
<1>5. CASE Refuses(k, o)
  <2>1. CallsOK(flight')
    BY <1>5, RefusedOK, OneCall DEF Refuses, IInv
  <2>2. UNCHANGED <<cache, quiet>>
    BY <1>5 DEF Refuses
  <2>3. Paced'
    <3> SUFFICES ASSUME NEW s \in Financial PROVE quiet[s] + recent'[s] >= Window
      BY <2>2 DEF Paced
    <3>. QED
      BY <1>1, OpAssumption, Numbers DEF IInv, ClocksOK, Paced
  <2>. QED
    BY <1>1, <1>2, <1>3, <2>1, <2>2, <2>3 DEF IInv, ClocksOK
<1>. QED
  BY <1>4, <1>5

\* What a call under way makes of its child's answer, or of the lack of one.
LEMMA AnsweredOK ==
  ASSUME IInv, NEW k \in Call, FetchAnswered(k) \/ FetchFailed(k)
  PROVE  IInv'
<1> DEFINE c == flight[k]
<1>1. c \in Fetch /\ c # None
  <2>1. c # None /\ c.stage = "fetch" /\ c \in Fetch \cup Reply
    BY DEF FetchAnswered, FetchFailed, IInv, CallsOK
  <2>. QED
    BY <2>1 DEF Reply
<1>2. c.op \in Op /\ c.age \in 0..Timeout /\ CacheTTL[ServerOf[c.op]] \in Nat
      /\ ServerOf[c.op] \in Server
  BY <1>1, Numbers DEF Fetch
<1>3. UNCHANGED <<recent, approvals, quiet, issuedAgo>>
  BY DEF FetchAnswered, FetchFailed
<1>4. ClocksOK' /\ ApprovalsFresh' /\ Paced'
  BY <1>3 DEF IInv, ClocksOK, ApprovalsFresh, Paced
<1> HIDE DEF c
<1>5. CASE FetchAnswered(k)
  <2> DEFINE e == [key |-> KeyOf[c.op], op |-> c.op, age |-> c.age,
                   left |-> CacheTTL[ServerOf[c.op]] + 1]
             f == Answer(c.op, "ok", c.op, c.age, FALSE)
  <2>1. e \in Entry
    BY <1>2, Numbers DEF Entry
  <2>2. EntryOK(e)
    BY <1>2, <2>1, Numbers DEF EntryOK
  <2>3. cache' \in {cache, Put(e)} /\ flight' = [flight EXCEPT ![k] = f]
    BY <1>5 DEF FetchAnswered, c
  <2>4. f \in Reply
    BY <1>2, Numbers DEF Answer, Reply
  <2>5. f.stage = "reply" /\ f.op = c.op /\ f.age = c.age /\ ~f.hit
    BY DEF Answer
  <2> HIDE DEF e, f
  <2>6. CallOK(f)
    BY <1>2, <2>4, <2>5, Numbers DEF CallOK
  <2>7. CacheOK(cache')
    BY <2>2, <2>3, PutOK DEF IInv
  <2>8. CallsOK(flight')
    BY <2>3, <2>6, OneCall DEF IInv
  <2>. QED
    BY <1>4, <2>7, <2>8 DEF IInv
<1>6. CASE FetchFailed(k)
  <2> DEFINE f == Answer(c.op, "error", None, 0, FALSE)
  <2>1. f \in Reply
    BY <1>2 DEF Answer, Reply
  <2>2. f.stage = "reply" /\ f.outcome = "error" /\ ~f.hit
    BY DEF Answer
  <2>3. flight' = [flight EXCEPT ![k] = f] /\ cache' = cache
    BY <1>6 DEF FetchFailed, c
  <2> HIDE DEF f
  <2>4. CallOK(f)
    BY <2>1, <2>2 DEF CallOK
  <2>5. CallsOK(flight')
    BY <2>3, <2>4, OneCall DEF IInv
  <2>. QED
    BY <1>4, <2>3, <2>5 DEF IInv
<1>. QED
  BY <1>5, <1>6

\* A step of time leaves what the deadlines and the histories say together.
LEMMA TickOK == ASSUME IInv, Tick PROVE IInv'
<1>1. CacheOK(cache')
  <2>1. cache' = [i \in DOMAIN cache |-> Aged(cache[i])]
    BY DEF Tick, Aged
  <2>. QED
    BY <2>1, AgesOK DEF IInv
<1>2. CallsOK(flight')
  <2>1. ASSUME NEW k \in Call PROVE CallOK(flight'[k])
    <3>1. CASE flight[k] = None
      BY <3>1 DEF Tick, CallOK
    <3>2. CASE flight[k] # None
      <4>1. flight[k] \in Fetch /\ flight[k].age < Timeout /\ flight[k].stage = "fetch"
        BY <3>2 DEF Tick, IInv, CallsOK, Reply
      <4>2. flight[k].age \in Nat /\ flight[k].age + 1 \in 0..Timeout
        BY <4>1, Numbers DEF Fetch
      <4>3. flight'[k] = [flight[k] EXCEPT !.age = @ + 1]
        BY <3>2 DEF Tick
      <4>4. /\ flight'[k] \in Fetch /\ flight'[k].stage = "fetch"
            /\ flight'[k].op = flight[k].op /\ flight'[k].issued = flight[k].issued
        BY <4>1, <4>2, <4>3 DEF Fetch
      <4>. QED
        BY <3>2, <4>1, <4>4 DEF IInv, CallsOK, CallOK
    <3>. QED
      BY <3>1, <3>2
  <2>2. flight' = [k \in Call |-> flight'[k]]
    BY DEF Tick
  <2>. QED
    BY <2>1, <2>2 DEF CallsOK, CallOK
<1>3. ASSUME NEW s \in Server
      PROVE  /\ recent'[s] \in 0..Window /\ quiet'[s] \in 0..Window
             /\ quiet[s] + recent[s] >= Window => quiet'[s] + recent'[s] >= Window
  <2>1. recent'[s] = Less(recent[s]) /\ quiet'[s] = More(quiet[s], Window)
    BY DEF Tick
  <2>2. recent[s] \in 0..Window /\ quiet[s] \in 0..Window
    BY DEF IInv, ClocksOK
  <2>. QED
    BY <2>1, <2>2, Numbers DEF Less, More
<1>4. Paced'
  BY <1>3, OpAssumption DEF IInv, Paced
<1>5. ASSUME NEW o \in Op
      PROVE  issuedAgo'[o] \in 0..NeverIssued /\ issuedAgo'[o] <= issuedAgo[o] + 1
  <2>1. issuedAgo'[o] = More(issuedAgo[o], NeverIssued) /\ issuedAgo[o] \in 0..NeverIssued
    BY DEF Tick, IInv, ClocksOK
  <2>. QED
    BY <2>1, Numbers DEF More, NeverIssued
<1>6. ASSUME NEW a \in Approval, approvals[a] # None
      PROVE  /\ approvals[a] \in Token /\ approvals'[a] \in Token
             /\ approvals'[a].op = approvals[a].op
             /\ approvals'[a].left = Less(approvals[a].left)
  <2>1. approvals[a] \in Token /\ approvals[a].left \in 0..(ApprovalTTL + 1)
    BY <1>6 DEF IInv, ClocksOK, Token
  <2>2. approvals'[a] = [approvals[a] EXCEPT !.left = Less(@)]
    BY <1>6 DEF Tick
  <2>3. Less(approvals[a].left) \in 0..(ApprovalTTL + 1)
    BY <2>1, Numbers DEF Less
  <2>. QED
    BY <2>1, <2>2, <2>3 DEF Token
<1>7. \A a \in Approval : approvals[a] = None => approvals'[a] = None
  BY DEF Tick
<1>8. ApprovalsFresh'
  <2> SUFFICES ASSUME NEW a \in Approval, approvals'[a] # None, approvals'[a].left > 0
               PROVE  issuedAgo'[approvals'[a].op] + approvals'[a].left <= ApprovalTTL + 1
    BY DEF ApprovalsFresh
  <2> DEFINE o == approvals[a].op
  <2>1. approvals[a] # None
    BY <1>7
  <2>2. approvals[a].left \in Nat /\ o \in Op /\ approvals'[a].op = o
        /\ approvals'[a].left = Less(approvals[a].left)
    BY <1>6, <2>1, Numbers DEF Token
  <2>3. approvals[a].left > 0 /\ approvals'[a].left = approvals[a].left - 1
    BY <2>2 DEF Less
  <2>4. issuedAgo[o] + approvals[a].left <= ApprovalTTL + 1
    BY <2>1, <2>3 DEF IInv, ApprovalsFresh
  <2>5. issuedAgo[o] \in Nat /\ issuedAgo'[o] \in Nat /\ issuedAgo'[o] <= issuedAgo[o] + 1
    BY <2>2, <1>5, Numbers DEF IInv, ClocksOK, NeverIssued
  <2>. QED
    BY <2>2, <2>3, <2>4, <2>5, Numbers
<1>9. ClocksOK'
  <2>1. /\ recent' = [s \in Server |-> recent'[s]] /\ quiet' = [s \in Server |-> quiet'[s]]
        /\ approvals' = [a \in Approval |-> approvals'[a]]
        /\ issuedAgo' = [o \in Op |-> issuedAgo'[o]]
    BY DEF Tick
  <2>2. recent' \in [Server -> 0..Window] /\ quiet' \in [Server -> 0..Window]
    BY <1>3, <2>1
  <2>3. approvals' \in [Approval -> Token \cup {None}]
    BY <1>6, <1>7, <2>1
  <2>4. issuedAgo' \in [Op -> 0..NeverIssued]
    BY <1>5, <2>1
  <2>. QED
    BY <2>2, <2>3, <2>4 DEF ClocksOK
<1>. QED
  BY <1>1, <1>2, <1>4, <1>8, <1>9 DEF IInv

-----------------------------------------------------------------------------
(* The theorems *)

\* The first state satisfies the invariant.
LEMMA InvInit == Init => IInv
<1> SUFFICES ASSUME Init PROVE IInv
  OBVIOUS
<1>1. CacheOK(cache)
  BY Numbers DEF Init, CacheOK
<1>2. CallsOK(flight)
  BY DEF Init, CallsOK, CallOK
<1>3. ClocksOK
  BY Numbers DEF Init, ClocksOK, NeverIssued
<1>4. ApprovalsFresh /\ Paced
  BY Numbers, OpAssumption DEF Init, ApprovalsFresh, Paced
<1>. QED
  BY <1>1, <1>2, <1>3, <1>4 DEF IInv

\* Every action keeps the invariant.
LEMMA InvStep == IInv /\ [Next]_vars => IInv'
<1> SUFFICES ASSUME IInv, [Next]_vars PROVE IInv'
  OBVIOUS
<1>1. ASSUME NEW a \in Approval, NEW o \in Op, IssueApproval(a, o) PROVE IInv'
  <2> DEFINE token == [op |-> o, left |-> ApprovalTTL + 1]
  <2>1. token \in Token
    BY Numbers DEF Token
  <2>2. token.op = o /\ token.left = ApprovalTTL + 1
    OBVIOUS
  <2>3. approvals' = [approvals EXCEPT ![a] = token] /\ issuedAgo' = [issuedAgo EXCEPT ![o] = 0]
        /\ UNCHANGED <<cache, recent, flight, quiet>>
    BY <1>1 DEF IssueApproval
  <2> HIDE DEF token
  <2>4. 0 \in 0..NeverIssued
    BY Numbers DEF NeverIssued
  <2>5. ClocksOK'
    BY <2>1, <2>3, <2>4 DEF IInv, ClocksOK
  <2>6. ApprovalsFresh'
    <3> SUFFICES ASSUME NEW b \in Approval, approvals'[b] # None, approvals'[b].left > 0
                 PROVE  issuedAgo'[approvals'[b].op] + approvals'[b].left <= ApprovalTTL + 1
      BY DEF ApprovalsFresh
    <3>1. CASE b = a
      BY <2>2, <2>3, <3>1, Numbers DEF IInv, ClocksOK
    <3>2. CASE b # a
      <4>1. approvals'[b] = approvals[b]
        BY <2>3, <3>2 DEF IInv, ClocksOK
      <4>2. approvals[b].op \in Op /\ approvals[b].left \in Nat
            /\ issuedAgo[approvals[b].op] + approvals[b].left <= ApprovalTTL + 1
        BY <4>1, Numbers DEF IInv, ClocksOK, ApprovalsFresh, Token
      <4>3. issuedAgo'[approvals[b].op] \in {0, issuedAgo[approvals[b].op]}
            /\ issuedAgo[approvals[b].op] \in Nat
        BY <2>3, <4>2, Numbers DEF IInv, ClocksOK, NeverIssued
      <4>. QED
        BY <4>1, <4>2, <4>3, Numbers
    <3>. QED
      BY <3>1, <3>2
  <2>. QED
    BY <2>3, <2>5, <2>6 DEF IInv, Paced
<1>2. ASSUME NEW k \in Call, NEW o \in Op,
             CallRegistered(k, o) \/ SearchPublic(k, o) \/ ReadAccount(k, o)
      PROVE  IInv'
  BY <1>2, Starts, StartOK
<1>3. ASSUME NEW k \in Call, FetchAnswered(k) \/ FetchFailed(k) PROVE IInv'
  BY <1>3, AnsweredOK
<1>4. ASSUME NEW k \in Call, Respond(k) PROVE IInv'
  <2>1. CallsOK(flight')
    BY <1>4, OneCall DEF Respond, IInv, CallOK
  <2>. QED
    BY <1>4, <2>1 DEF Respond, IInv, ClocksOK, ApprovalsFresh, Paced
<1>5. CASE Tick
  BY <1>5, TickOK
<1>6. CASE Restart
  <2>1. CacheOK(cache')
    BY <1>6, Numbers DEF Restart, CacheOK
  <2>2. CallsOK(flight')
    BY <1>6 DEF Restart, CallsOK, CallOK
  <2>3. ClocksOK'
    BY <1>6, Numbers DEF Restart, IInv, ClocksOK
  <2>4. ApprovalsFresh' /\ Paced'
    BY <1>6, Numbers, OpAssumption DEF Restart, IInv, ApprovalsFresh, Paced
  <2>. QED
    BY <2>1, <2>2, <2>3, <2>4 DEF IInv
<1>7. CASE UNCHANGED vars
  BY <1>7 DEF vars, IInv, ClocksOK, ApprovalsFresh, Paced
<1>. QED
  BY <1>1, <1>2, <1>3, <1>4, <1>5, <1>6, <1>7 DEF Next

\* The variables keep their types: no key has two entries, the cache never grows
\* past its limit (ToolCache.set).
THEOREM TypeCorrect == Spec => []TypeOK
  BY InvInit, InvStep, Implied, PTL DEF Spec

\* An answer is never older than its server's TTL and one child call, also when
\* slow calls store older answers over newer ones (proxyToolCall).
THEOREM Freshness == Spec => []AnswersFresh
  BY InvInit, InvStep, Implied, PTL DEF Spec

\* What needs approval reaches the child only after an approval of that very
\* operation, whichever tool calls the proxy (PolicyEngine.evaluate).
THEOREM Approved == Spec => []WritesApproved
  BY InvInit, InvStep, Implied, PTL DEF Spec

\* No answer of a financial server comes from the cache (isCacheable).
THEOREM NeverCached == Spec => []FinancialNeverCached
  BY InvInit, InvStep, Implied, PTL DEF Spec

\* One instance calls a financial server at most once per window over all the
\* tools that reach it (PolicyEngine.checkRateLimit).
THEOREM Pacing == Spec => FinancialPaced
<1>1. ASSUME IInv, [Next]_vars, NEW s \in Financial, NEW k \in Call, flight[k] = None,
             flight'[k] # None, flight'[k].stage = "fetch", ServerOf[flight'[k].op] = s
      PROVE  quiet[s] >= Window
  <2>1. ASSUME NEW l \in Call, NEW f, flight' = [flight EXCEPT ![l] = f],
               f = None \/ f.stage = "reply"
        PROVE  FALSE
    BY <1>1, <2>1 DEF IInv, CallsOK
  <2>2. ASSUME NEW l \in Call, NEW o \in Op, Refuses(l, o) PROVE FALSE
    BY <2>1, <2>2 DEF Refuses, Refused, Answer
  <2>3. ASSUME NEW l \in Call, NEW o \in Op, Admits(l, o) PROVE quiet[s] >= Window
    <3>1. CASE ~StartFetch(l, o)
      BY <2>1, <2>3, <3>1 DEF Admits, Proxy, Answer
    <3>2. CASE StartFetch(l, o)
      <4>1. DOMAIN flight = Call
        BY <1>1 DEF IInv, CallsOK
      <4>2. l = k
        BY <1>1, <3>2, <4>1 DEF StartFetch
      <4>3. flight'[k].op = o
        BY <3>2, <4>1, <4>2 DEF StartFetch
      <4>4. ServerOf[o] = s
        BY <1>1, <4>3
      <4>5. recent[s] = 0
        BY <1>1, <2>3, <4>4 DEF Admits
      <4>6. quiet[s] + recent[s] >= Window /\ s \in Server
        BY <1>1, OpAssumption DEF IInv, Paced
      <4>7. quiet[s] \in Nat
        BY <1>1, <4>6, Numbers DEF IInv, ClocksOK
      <4>. QED
        BY <4>5, <4>6, <4>7
    <3>. QED
      BY <3>1, <3>2
  <2>4. ASSUME NEW l \in Call, FetchAnswered(l) \/ FetchFailed(l) \/ Respond(l) PROVE FALSE
    BY <2>1, <2>4 DEF FetchAnswered, FetchFailed, Respond, Answer
  <2>5. ASSUME Tick \/ Restart \/ UNCHANGED vars PROVE FALSE
    BY <1>1, <2>5 DEF Tick, Restart, vars
  <2>6. ASSUME NEW a \in Approval, NEW o \in Op, IssueApproval(a, o) PROVE FALSE
    BY <1>1, <2>6 DEF IssueApproval
  <2>. QED
    BY <1>1, <2>2, <2>3, <2>4, <2>5, <2>6, Starts DEF Next
<1>2. IInv /\ [Next]_vars => [\A s \in Financial : PacedStep(s)]_vars
  BY <1>1 DEF PacedStep
<1>. QED
  BY InvInit, InvStep, <1>2, PTL DEF Spec, FinancialPaced

-----------------------------------------------------------------------------
(* The cache implements FreshCache *)

Keys == {KeyOf[o] : o \in Op}
OpsOf(key) == {o \in Op : KeyOf[o] = key}

\* The entries in a list.
Members(list) == {list[i] : i \in DOMAIN list}

\* What the cache would answer a call with now: the result of an operation with the
\* key of the call.
Views(list) ==
  {[key |-> e.key, answer |-> e.op, age |-> e.age] : e \in {e \in Members(list) : Usable(e)}}

\* Operations with one key have one server, and its life.
LifeOf == [key \in Keys |-> CacheTTL[ServerOf[CHOOSE o \in OpsOf(key) : TRUE]]]

Fresh == INSTANCE FreshCache WITH
  Key <- Keys, Answers <- [key \in Keys |-> OpsOf(key)], Fetch <- Timeout,
  Life <- LifeOf, held <- Views(cache)

LEMMA LifeIsTTL ==
  ASSUME NEW o \in Op
  PROVE  KeyOf[o] \in Keys /\ o \in OpsOf(KeyOf[o]) /\ LifeOf[KeyOf[o]] = CacheTTL[ServerOf[o]]
<1>1. KeyOf[o] \in Keys /\ o \in OpsOf(KeyOf[o])
  BY DEF Keys, OpsOf
<1>2. PICK p : p = CHOOSE one \in OpsOf(KeyOf[o]) : TRUE
  OBVIOUS
<1>3. p \in Op /\ KeyOf[p] = KeyOf[o]
  BY <1>1, <1>2 DEF OpsOf
<1>4. LifeOf[KeyOf[o]] = CacheTTL[ServerOf[p]]
  BY <1>1, <1>2 DEF LifeOf
<1>. QED
  BY <1>1, <1>3, <1>4, OpAssumption

\* The cache without a key has the entries of the others.
LEMMA WithoutMembers ==
  ASSUME CacheOK(cache), NEW key
  PROVE  Members(Without(key)) = {e \in Members(cache) : e.key # key}
<1>1. CASE Keyed(key) = {}
  BY <1>1 DEF Without, Keyed, Members
<1>2. CASE Keyed(key) # {}
  <2>1. PICK rest : rest = Without(key)
    OBVIOUS
  <2>2. PICK i \in Keyed(key) :
          /\ i \in 1..Len(cache)
          /\ rest \in Seq(Entry) /\ Len(rest) = Len(cache) - 1
          /\ \A j \in 1..Len(rest) : rest[j] = IF j < i THEN cache[j] ELSE cache[j + 1]
    BY <1>2, <2>1, WithoutIs
  <2>3. /\ DOMAIN rest = 1..(Len(cache) - 1) /\ DOMAIN cache = 1..Len(cache)
        /\ Len(cache) \in Nat /\ cache[i].key = key
    BY <2>2 DEF CacheOK, Keyed
  <2>4. \A j \in DOMAIN rest : \E l \in DOMAIN cache : l # i /\ rest[j] = cache[l]
    <3>1. ASSUME NEW j \in 1..(Len(cache) - 1), j < i
          PROVE  j \in DOMAIN cache /\ j # i /\ rest[j] = cache[j]
      BY <2>2, <2>3, <3>1
    <3>2. ASSUME NEW j \in 1..(Len(cache) - 1), ~(j < i)
          PROVE  j + 1 \in DOMAIN cache /\ j + 1 # i /\ rest[j] = cache[j + 1]
      BY <2>2, <2>3, <3>2
    <3>. QED
      BY <2>2, <2>3, <3>1, <3>2
  <2>5. \A l \in DOMAIN cache : l # i => \E j \in DOMAIN rest : rest[j] = cache[l]
    <3>1. ASSUME NEW l \in DOMAIN cache, l < i
          PROVE  l \in DOMAIN rest /\ rest[l] = cache[l]
      BY <2>2, <2>3, <3>1
    <3>2. ASSUME NEW l \in DOMAIN cache, l > i
          PROVE  l - 1 \in DOMAIN rest /\ rest[l - 1] = cache[l]
      <4>1. l - 1 \in 1..(Len(cache) - 1) /\ ~(l - 1 < i) /\ (l - 1) + 1 = l
        BY <2>2, <2>3, <3>2
      <4>. QED
        BY <2>2, <2>3, <4>1
    <3>3. \A l \in DOMAIN cache : l # i => l < i \/ l > i
      BY <2>2, <2>3
    <3>. QED
      BY <3>1, <3>2, <3>3
  <2>6. \A l \in DOMAIN cache : l # i => cache[l].key # key
    <3>1. \A m, n \in DOMAIN cache : cache[m].key = cache[n].key => m = n
      BY DEF CacheOK
    <3>. QED
      BY <2>2, <2>3, <3>1
  <2>7. \A e : e \in Members(rest) <=> \E l \in DOMAIN cache : l # i /\ e = cache[l]
    <3>1. \A e : e \in Members(rest) <=> \E j \in DOMAIN rest : e = rest[j]
      BY DEF Members
    <3>2. ASSUME NEW e, e \in Members(rest)
          PROVE  \E l \in DOMAIN cache : l # i /\ e = cache[l]
      BY <2>4, <3>1, <3>2
    <3>3. ASSUME NEW l \in DOMAIN cache, l # i PROVE cache[l] \in Members(rest)
      BY <2>5, <3>1, <3>3
    <3>. QED
      BY <3>2, <3>3
  <2>8. \A l \in DOMAIN cache : l # i <=> cache[l].key # key
    BY <2>3, <2>6
  <2>9. Members(rest) = {e \in Members(cache) : e.key # key}
    BY <2>7, <2>8 DEF Members
  <2>. QED
    BY <2>1, <2>9
<1>. QED
  BY <1>1, <1>2

\* set leaves the new entry and some of those of other keys.
LEMMA PutMembers ==
  ASSUME CacheOK(cache), NEW entry, EntryOK(entry)
  PROVE  /\ entry \in Members(Put(entry))
         /\ Members(Put(entry)) \subseteq {e \in Members(cache) : e.key # entry.key} \cup {entry}
<1>1. PICK room : room = IF Len(cache) >= MaxEntries THEN Tail(cache) ELSE cache
  OBVIOUS
<1>2. PICK at : at = {i \in DOMAIN room : room[i].key = entry.key}
  OBVIOUS
<1>3. Put(entry) = IF at = {} THEN Append(room, entry)
                   ELSE [i \in DOMAIN room |-> IF i \in at THEN entry ELSE room[i]]
  BY <1>1, <1>2 DEF Put
<1>4. room \in Seq(Entry) /\ \A i \in DOMAIN room : room[i] \in Members(cache)
  <2>0. cache \in Seq(Entry) /\ Len(cache) \in Nat /\ DOMAIN cache = 1..Len(cache)
    BY DEF CacheOK
  <2>1. CASE Len(cache) >= MaxEntries
    <3>1. cache # <<>>
      BY <2>0, <2>1, Numbers
    <3>2. /\ Tail(cache) \in Seq(Entry) /\ Len(Tail(cache)) = Len(cache) - 1
          /\ \A i \in 1..Len(Tail(cache)) : Tail(cache)[i] = cache[i + 1]
      BY <2>0, <3>1, HeadTailProperties
    <3>3. \A i \in DOMAIN Tail(cache) : Tail(cache)[i] = cache[i + 1] /\ i + 1 \in DOMAIN cache
      BY <2>0, <3>1, <3>2
    <3>. QED
      BY <1>1, <2>1, <3>2, <3>3 DEF Members
  <2>2. CASE ~(Len(cache) >= MaxEntries)
    BY <1>1, <2>0, <2>2 DEF Members
  <2>. QED
    BY <2>1, <2>2
<1>5. CASE at = {}
  <2>1. /\ DOMAIN Append(room, entry) = 1..(Len(room) + 1)
        /\ DOMAIN room = 1..Len(room) /\ Len(room) \in Nat
        /\ \A i \in 1..Len(room) : Append(room, entry)[i] = room[i]
        /\ Append(room, entry)[Len(room) + 1] = entry
    BY <1>4, AppendProperties DEF EntryOK
  <2>2. Members(Append(room, entry)) = Members(room) \cup {entry}
    BY <2>1 DEF Members
  <2>3. \A e \in Members(room) : e.key # entry.key /\ e \in Members(cache)
    BY <1>2, <1>4, <1>5 DEF Members
  <2>. QED
    BY <1>3, <1>5, <2>2, <2>3
<1>6. CASE at # {}
  <2>1. PICK put : put = [i \in DOMAIN room |-> IF i \in at THEN entry ELSE room[i]]
    OBVIOUS
  <2>2. DOMAIN put = DOMAIN room /\ \A i \in DOMAIN room : put[i] = IF i \in at THEN entry ELSE room[i]
    BY <2>1
  <2>3. entry \in Members(put)
    BY <1>2, <1>6, <2>2 DEF Members
  <2>4. \A e \in Members(put) : e = entry \/ (e.key # entry.key /\ e \in Members(cache))
    BY <1>2, <1>4, <2>2 DEF Members
  <2>. QED
    BY <1>3, <1>6, <2>1, <2>3, <2>4
<1>. QED
  BY <1>5, <1>6

\* A call that starts leaves what the cache would answer, whatever it does.
LEMMA StartHolds ==
  ASSUME CacheOK(cache), NEW k \in Call, NEW o \in Op, Admits(k, o) \/ Refuses(k, o)
  PROVE  Views(cache') = Views(cache)
<1>1. CASE cache' = cache
  BY <1>1
<1>2. ASSUME cache' = Without(KeyOf[o]), {i \in Keyed(KeyOf[o]) : Usable(cache[i])} = {}
      PROVE  Views(cache') = Views(cache)
  <2>1. Members(cache') = {e \in Members(cache) : e.key # KeyOf[o]}
    BY <1>2, WithoutMembers
  <2>2. \A e \in Members(cache) : e.key = KeyOf[o] => ~Usable(e)
    BY <1>2 DEF Keyed, Members
  <2>3. {e \in Members(cache') : Usable(e)} = {e \in Members(cache) : Usable(e)}
    BY <2>1, <2>2
  <2>. QED
    BY <2>3 DEF Views
<1>. QED
  BY <1>1, <1>2 DEF Admits, Refuses, Proxy

\* The answer of a child is learnt with its age, or not at all.
LEMMA AnswerLearnt ==
  ASSUME IInv, NEW k \in Call, FetchAnswered(k)
  PROVE  Fresh!Next \/ Views(cache') = Views(cache)
<1>1. PICK o, age : o = flight[k].op /\ age = flight[k].age
  OBVIOUS
<1>2. o \in Op /\ age \in 0..Timeout
  <2>1. flight[k] \in Fetch \cup Reply /\ flight[k].stage = "fetch"
    BY DEF FetchAnswered, IInv, CallsOK
  <2>. QED
    BY <1>1, <2>1 DEF Fetch, Reply
<1>3. CASE ~Cacheable(o)
  BY <1>1, <1>3 DEF FetchAnswered
<1>4. CASE Cacheable(o)
  <2>1. PICK e : e = [key |-> KeyOf[o], op |-> o, age |-> age, left |-> CacheTTL[ServerOf[o]] + 1]
    OBVIOUS
  <2>2. cache' = Put(e)
    BY <1>1, <1>4, <2>1 DEF FetchAnswered
  <2>3. CacheTTL[ServerOf[o]] \in Nat /\ age \in Nat /\ age <= Timeout
    BY <1>2, Numbers
  <2>4. EntryOK(e)
    BY <1>2, <2>1, <2>3, Numbers DEF EntryOK, Entry
  <2>5. /\ e \in Members(cache')
        /\ Members(cache') \subseteq {f \in Members(cache) : f.key # e.key} \cup {e}
    BY <2>2, <2>4, PutMembers DEF IInv
  <2>6. PICK new : new = [key |-> KeyOf[o], answer |-> o, age |-> age]
    OBVIOUS
  <2>7. Usable(e)
    BY <2>1, <2>3 DEF Usable
  <2>8. new \in Views(cache')
    BY <2>1, <2>5, <2>6, <2>7 DEF Views
  <2>9. Views(cache') \subseteq {h \in Views(cache) : h.key # KeyOf[o]} \cup {new}
    BY <2>1, <2>5, <2>6 DEF Views
  <2>10. Fresh!Learn(KeyOf[o], o, age)
    BY <2>6, <2>8, <2>9 DEF Fresh!Learn, Fresh!Held
  <2>11. KeyOf[o] \in Keys /\ o \in [key \in Keys |-> OpsOf(key)][KeyOf[o]]
    BY <1>2, LifeIsTTL
  <2>. QED
    BY <1>2, <2>10, <2>11 DEF Fresh!Next
<1>. QED
  BY <1>3, <1>4

\* As time passes the answers age, and those whose life is over are gone.
LEMMA AnswersAge ==
  ASSUME CacheOK(cache), Tick
  PROVE  Fresh!Age
<1>1. /\ DOMAIN cache' = DOMAIN cache
      /\ \A i \in DOMAIN cache : EntryOK(cache[i])
      /\ \A i \in DOMAIN cache : cache'[i] = Aged(cache[i])
  <2>1. cache' = [i \in DOMAIN cache |-> Aged(cache[i])]
    BY Zenon DEF Tick, Aged
  <2>2. \A i \in DOMAIN cache : EntryOK(cache[i])
    BY DEF CacheOK
  <2>. QED
    BY <2>1, <2>2
<1>2. ASSUME NEW h \in Views(cache')
      PROVE  \E g \in {g \in Views(cache) : g.age < Timeout + LifeOf[g.key]} :
               h = Fresh!Held(g.key, g.answer, g.age + 1)
  <2>1. PICK i \in DOMAIN cache :
          /\ Usable(cache'[i])
          /\ h = [key |-> cache'[i].key, answer |-> cache'[i].op, age |-> cache'[i].age]
    <3>1. PICK f \in Members(cache') :
            Usable(f) /\ h = [key |-> f.key, answer |-> f.op, age |-> f.age]
      BY <1>2, Zenon DEF Views
    <3>2. PICK i \in DOMAIN cache' : f = cache'[i]
      BY <3>1, Zenon DEF Members
    <3>. QED
      BY <1>1, <3>1, <3>2, Zenon
  <2>2. PICK e : e = cache[i]
    OBVIOUS
  <2>3. /\ e \in Entry /\ e.key = KeyOf[e.op] /\ e.op \in Op /\ e.age \in Nat /\ e.left \in Nat
        /\ e.left > 0 => e.age + e.left <= CacheTTL[ServerOf[e.op]] + Timeout + 1
        /\ CacheTTL[ServerOf[e.op]] \in Nat
    BY <1>1, <2>2, Numbers DEF EntryOK, Entry
  <2>4. /\ cache'[i].key = e.key /\ cache'[i].op = e.op
        /\ cache'[i].left = Less(e.left)
        /\ cache'[i].age = IF e.left > 0 THEN e.age + 1 ELSE e.age
    BY <1>1, <2>2, <2>3 DEF Aged, Entry
  <2>5. e.left > 1 /\ e.age < Timeout + CacheTTL[ServerOf[e.op]]
    BY <2>1, <2>3, <2>4, Numbers DEF Usable, Less
  <2>6. PICK g : g = [key |-> e.key, answer |-> e.op, age |-> e.age]
    OBVIOUS
  <2>7. g \in Views(cache)
    BY <2>2, <2>3, <2>5, <2>6 DEF Views, Members, Usable
  <2>8. g.age < Timeout + LifeOf[g.key]
    BY <2>3, <2>5, <2>6, LifeIsTTL
  <2>9. h = Fresh!Held(g.key, g.answer, g.age + 1)
    BY <2>1, <2>3, <2>4, <2>5, <2>6 DEF Fresh!Held
  <2>. QED
    BY <2>7, <2>8, <2>9
<1>. QED
  BY <1>2 DEF Fresh!Age

\* Every step of the gateway is a step of the abstract cache or leaves it.
LEMMA FreshStep == IInv /\ [Next]_vars => [Fresh!Next]_(Views(cache))
<1> SUFFICES ASSUME IInv, [Next]_vars
             PROVE  Fresh!Next \/ Views(cache') = Views(cache)
  OBVIOUS
<1>0. CacheOK(cache)
  BY DEF IInv
<1>1. ASSUME NEW k \in Call, NEW o \in Op,
             CallRegistered(k, o) \/ SearchPublic(k, o) \/ ReadAccount(k, o)
      PROVE  Views(cache') = Views(cache)
  BY <1>0, <1>1, Starts, StartHolds
<1>2. ASSUME NEW k \in Call, FetchAnswered(k)
      PROVE  Fresh!Next \/ Views(cache') = Views(cache)
  BY <1>2, AnswerLearnt
<1>3. CASE Tick
  BY <1>0, <1>3, AnswersAge DEF Fresh!Next
<1>4. CASE Restart
  <2>1. cache' = <<>>
    BY <1>4 DEF Restart
  <2>2. Members(cache') = {}
    BY <2>1 DEF Members
  <2>3. Views(cache') = {}
    BY <2>2 DEF Views
  <2>. QED
    BY <2>3 DEF Fresh!Next, Fresh!Forget
<1>5. CASE cache' = cache
  BY <1>5
<1>6. ASSUME NEW a \in Approval, NEW o \in Op, IssueApproval(a, o) PROVE cache' = cache
  BY <1>6 DEF IssueApproval
<1>7. ASSUME NEW k \in Call, FetchFailed(k) \/ Respond(k) PROVE cache' = cache
  BY <1>7 DEF FetchFailed, Respond
<1>. QED
  BY <1>1, <1>2, <1>3, <1>4, <1>5, <1>6, <1>7 DEF Next, vars

(* The gateway's cache is a fresh cache too (tool-cache.ts): whoever calls, and   *)
(* whatever the cache drops or a restart forgets, it answers for a key with the  *)
(* result stored last, which only ages, until the TTL of its server is over.     *)
THEOREM CacheIsFresh == Spec => Fresh!Spec
<1>1. Init => Fresh!Init
  BY DEF Init, Fresh!Init, Views, Members
<1>. QED
  BY <1>1, FreshStep, InvInit, InvStep, PTL DEF Spec, Fresh!Spec
=============================================================================
