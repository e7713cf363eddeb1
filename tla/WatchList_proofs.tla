-------------------------- MODULE WatchList_proofs ---------------------------
(***************************************************************************)
(* Proofs about WatchList, for any names, queries, notices, calls in flight   *)
(* and transports.                                                          *)
(***************************************************************************)
EXTENDS WatchList, TLAPS

\* What a watch marks as seen is in d for its query.
WatchOK(w, d) == {w.query} \X w.seen \subseteq d
WatchesOK(watches, d) == \A n \in Name : watches[n] # Idle => WatchOK(watches[n], d)

\* Also what the calls under way read before they awaited was reported: they write it
\* back.
IInv ==
  /\ TypeOK
  /\ WatchesOK(memory, reported) /\ WatchesOK(held, reported)
  /\ \A k \in Call : flight[k] # Idle =>
       /\ WatchesOK(flight[k].entries, reported)
       /\ flight[k].action = "check" => flight[k].entries[flight[k].name] # Idle

LEMMA NoneOK == NoWatches \in Watches /\ \A d : WatchesOK(NoWatches, d)
  BY DEF NoWatches, Watches, WatchesOK

\* Reports are not forgotten.
LEMMA Kept ==
  ASSUME NEW d, NEW e, d \subseteq e, NEW f, WatchesOK(f, d)
  PROVE  WatchesOK(f, e)
  BY DEF WatchesOK, WatchOK

-----------------------------------------------------------------------------
(* Initially, and in the steps of a call *)

LEMMA InvInit == Init => IInv
<1>. SUFFICES ASSUME Init PROVE IInv
  OBVIOUS
<1>1. /\ memory = NoWatches /\ held = NoWatches /\ reported = {}
      /\ \A k \in Call : flight[k] = Idle
  BY DEF Init
<1>2. TypeOK
  BY <1>1, NoneOK DEF Init, TypeOK
<1>. QED
  BY <1>1, <1>2, NoneOK DEF IInv

\* The token the client sends, merged with the memory.
LEMMA Merged ==
  ASSUME IInv, NEW token \in {NoWatches, held}
  PROVE  /\ MergeEntries(token, memory) \in Watches
         /\ WatchesOK(MergeEntries(token, memory), reported)
<1>1. /\ token \in Watches /\ WatchesOK(token, reported)
      /\ memory \in Watches /\ WatchesOK(memory, reported)
  BY NoneOK DEF IInv, TypeOK
<1>. QED
  BY <1>1 DEF MergeEntries, Watches, WatchesOK

\* A call that starts keeps the watches it read.
LEMMA Starts ==
  ASSUME IInv, NEW k \in Call, NEW c \in Save \cup Check, WatchesOK(c.entries, reported),
         c.action = "check" => c.entries[c.name] # Idle,
         flight' = [flight EXCEPT ![k] = c],
         UNCHANGED <<transport, memory, held, reported, repeated>>, Overlap(k)
  PROVE  IInv'
<1>1. TypeOK /\ TypeOK'
  <2>1. overlapped' \in BOOLEAN
    BY DEF IInv, TypeOK, Overlap
  <2>2. told' \in [Name -> SUBSET Notice]
    BY DEF IInv, TypeOK, Overlap
  <2>3. flight' \in [Call -> Save \cup Check \cup {Idle}]
    BY DEF IInv, TypeOK
  <2>. QED
    BY <2>1, <2>2, <2>3 DEF IInv, TypeOK
<1>2. \A l \in Call : flight'[l] = IF l = k THEN c ELSE flight[l]
  BY <1>1 DEF TypeOK
<1>. QED
  BY <1>1, <1>2 DEF IInv

\* A call that ends leaves good watches when those it writes are good.
LEMMA Ends ==
  ASSUME IInv, NEW k \in Call, flight' = [flight EXCEPT ![k] = Idle],
         UNCHANGED <<transport, overlapped>>,
         reported \subseteq reported', reported' \subseteq Query \X Notice,
         memory' \in Watches, WatchesOK(memory', reported'),
         held' \in Watches, WatchesOK(held', reported'),
         told' \in [Name -> SUBSET Notice], repeated' \in BOOLEAN
  PROVE  IInv'
<1>1. TypeOK /\ TypeOK'
  BY DEF IInv, TypeOK
<1>2. \A l \in Call : flight'[l] # Idle => flight'[l] = flight[l]
  BY <1>1 DEF TypeOK
<1>3. ASSUME NEW l \in Call, flight'[l] # Idle
      PROVE  /\ WatchesOK(flight'[l].entries, reported')
             /\ flight'[l].action = "check" => flight'[l].entries[flight'[l].name] # Idle
  BY <1>2, <1>3, Kept DEF IInv
<1>. QED
  BY <1>1, <1>3 DEF IInv

\* Watches into which a good one is put stay good.
LEMMA Upserted ==
  ASSUME NEW d, NEW f \in Watches, WatchesOK(f, d), NEW n \in Name, NEW w \in Watch,
         WatchOK(w, d)
  PROVE  Upsert(f, n, w) \in Watches /\ WatchesOK(Upsert(f, n, w), d)
  BY DEF Upsert, Watches, WatchesOK

LEMMA Remembered ==
  ASSUME IInv, reported \subseteq reported', NEW n \in Name, NEW w \in Watch,
         WatchOK(w, reported'), Remember(n, w)
  PROVE  memory' \in Watches /\ WatchesOK(memory', reported')
<1>1. memory \in Watches /\ WatchesOK(memory, reported')
  BY Kept DEF IInv, TypeOK
<1>2. Upsert(memory, n, w) \in Watches /\ WatchesOK(Upsert(memory, n, w), reported')
  BY <1>1, Upserted
<1>. QED
  BY <1>2, NoneOK DEF Remember, Upsert

LEMMA SaveEnds == ASSUME IInv, NEW k \in Call, FinishSave(k) PROVE IInv'
<1>1. PICK c : c = flight[k]
  OBVIOUS
<1>2. /\ c \in Save /\ c.name \in Name /\ c.query \in Query /\ c.entries \in Watches
      /\ WatchesOK(c.entries, reported) /\ TypeOK
  BY <1>1 DEF FinishSave, IInv, TypeOK, Save, Check
<1>3. PICK w : w = [query |-> c.query, seen |-> {}]
  OBVIOUS
<1>4. w \in Watch /\ \A d : WatchOK(w, d)
  BY <1>2, <1>3 DEF Watch, WatchOK
<1>5. /\ Remember(c.name, w)
      /\ flight' = [flight EXCEPT ![k] = Idle]
      /\ UNCHANGED <<transport, reported, overlapped, repeated>>
      /\ held' = Upsert(c.entries, c.name, w) \/ UNCHANGED held
      /\ told' = [told EXCEPT ![c.name] = {}] \/ UNCHANGED told
  BY <1>1, <1>3 DEF FinishSave
<1>6. memory' \in Watches /\ WatchesOK(memory', reported')
  BY <1>2, <1>4, <1>5, Remembered
<1>7. held' \in Watches /\ WatchesOK(held', reported')
  BY <1>2, <1>4, <1>5, Upserted DEF IInv, TypeOK
<1>8. told' \in [Name -> SUBSET Notice]
  BY <1>2, <1>5 DEF TypeOK
<1>. QED
  BY <1>2, <1>5, <1>6, <1>7, <1>8, Ends DEF TypeOK

LEMMA CheckEnds == ASSUME IInv, NEW k \in Call, FinishCheck(k) PROVE IInv'
<1>1. PICK c : c = flight[k]
  OBVIOUS
<1>2. /\ c \in Check /\ c.name \in Name /\ c.entries \in Watches /\ TypeOK
      /\ WatchesOK(c.entries, reported) /\ c.entries[c.name] # Idle
  BY <1>1 DEF FinishCheck, IInv, TypeOK, Save, Check
<1>3. PICK v : v = c.entries[c.name]
  OBVIOUS
<1>4. v \in Watch /\ WatchOK(v, reported)
  BY <1>2, <1>3 DEF Watches, WatchesOK
<1>5. PICK found \in SUBSET Matches[v.query], arrives \in BOOLEAN :
        LET new == NewNotices(c, found) IN
        /\ Remember(c.name, Updated(c, found))
        /\ reported' = IF arrives \/ ~Stateless THEN reported \cup {v.query} \X new
                       ELSE reported
        /\ IF arrives
           THEN /\ held' = Upsert(c.entries, c.name, Updated(c, found))
                /\ told' = IF overlapped THEN told
                           ELSE [told EXCEPT ![c.name] = @ \cup new]
                /\ repeated' = (repeated \/ told[c.name] \cap new # {})
           ELSE UNCHANGED <<held, told, repeated>>
  BY <1>1, <1>3 DEF FinishCheck
<1>6. PICK w : w = Updated(c, found)
  OBVIOUS
<1>7. w = [v EXCEPT !.seen = @ \cup found] /\ NewNotices(c, found) = found \ v.seen
  BY <1>3, <1>6 DEF Updated, NewNotices
<1>8. /\ w \in Watch /\ w.query = v.query /\ w.seen = v.seen \cup found
      /\ found \subseteq Notice /\ v.query \in Query
  BY <1>4, <1>7, MatchesAssumption DEF Watch
<1>9. /\ flight' = [flight EXCEPT ![k] = Idle]
      /\ UNCHANGED <<transport, overlapped>>
  BY <1>1 DEF FinishCheck
<1>10. PICK new : new = found \ v.seen
  OBVIOUS
<1>11. /\ Remember(c.name, w)
       /\ reported' = IF arrives \/ ~Stateless THEN reported \cup {v.query} \X new
                      ELSE reported
       /\ IF arrives
          THEN /\ held' = Upsert(c.entries, c.name, w)
               /\ told' = IF overlapped THEN told
                          ELSE [told EXCEPT ![c.name] = @ \cup new]
               /\ repeated' = (repeated \/ told[c.name] \cap new # {})
          ELSE UNCHANGED <<held, told, repeated>>
  BY <1>5, <1>6, <1>7, <1>10
<1>12. reported \subseteq reported' /\ reported' \subseteq Query \X Notice
  BY <1>2, <1>8, <1>10, <1>11 DEF TypeOK
<1>13. told' \in [Name -> SUBSET Notice] /\ repeated' \in BOOLEAN
  BY <1>2, <1>8, <1>10, <1>11 DEF TypeOK
<1>14. CASE arrives \/ ~Stateless
  <2>1. WatchOK(w, reported')
    BY <1>4, <1>8, <1>10, <1>11, <1>14 DEF WatchOK
  <2>2. memory' \in Watches /\ WatchesOK(memory', reported')
    BY <1>2, <1>8, <1>11, <1>12, <2>1, Remembered
  <2>3. WatchesOK(c.entries, reported') /\ WatchesOK(held, reported') /\ held \in Watches
    BY <1>2, <1>12, Kept DEF IInv, TypeOK
  <2>4. held' \in Watches /\ WatchesOK(held', reported')
    BY <1>2, <1>8, <1>11, <2>1, <2>3, Upserted
  <2>. QED
    BY <1>9, <1>12, <1>13, <2>2, <2>4, Ends
<1>15. CASE ~arrives /\ Stateless
  <2>1. memory' \in Watches /\ WatchesOK(memory', reported')
    BY <1>11, <1>15, NoneOK DEF Remember
  <2>2. held' \in Watches /\ WatchesOK(held', reported')
    BY <1>11, <1>12, <1>15, Kept DEF IInv, TypeOK
  <2>. QED
    BY <1>9, <1>12, <1>13, <2>1, <2>2, Ends
<1>. QED
  BY <1>14, <1>15

-----------------------------------------------------------------------------
(* The other steps *)

LEMMA SaveStarts ==
  ASSUME IInv, NEW k \in Call, NEW n \in Name, NEW q \in Query, StartSave(k, n, q)
  PROVE  IInv'
<1>1. PICK token \in {NoWatches, held} :
        flight' = [flight EXCEPT ![k] =
          [action |-> "save", name |-> n, query |-> q,
           entries |-> MergeEntries(token, memory)]]
  BY DEF StartSave
<1>2. PICK c : c = [action |-> "save", name |-> n, query |-> q,
                    entries |-> MergeEntries(token, memory)]
  OBVIOUS
<1>3. c \in Save /\ WatchesOK(c.entries, reported) /\ c.action = "save"
  BY <1>2, Merged DEF Save
<1>4. /\ flight' = [flight EXCEPT ![k] = c] /\ Overlap(k)
      /\ UNCHANGED <<transport, memory, held, reported, repeated>>
  BY <1>1, <1>2 DEF StartSave
<1>. QED
  BY <1>3, <1>4, Starts

LEMMA CheckStarts ==
  ASSUME IInv, NEW k \in Call, NEW n \in Name, StartCheck(k, n)
  PROVE  IInv'
<1>1. PICK token \in {NoWatches, held} :
        /\ MergeEntries(token, memory)[n] # Idle
        /\ flight' = [flight EXCEPT ![k] =
             [action |-> "check", name |-> n, entries |-> MergeEntries(token, memory)]]
  BY DEF StartCheck
<1>2. PICK c : c = [action |-> "check", name |-> n,
                    entries |-> MergeEntries(token, memory)]
  OBVIOUS
<1>3. /\ c \in Check /\ WatchesOK(c.entries, reported)
      /\ c.entries[c.name] # Idle
  BY <1>1, <1>2, Merged DEF Check
<1>4. /\ flight' = [flight EXCEPT ![k] = c] /\ Overlap(k)
      /\ UNCHANGED <<transport, memory, held, reported, repeated>>
  BY <1>1, <1>2 DEF StartCheck
<1>. QED
  BY <1>3, <1>4, Starts

LEMMA InvStep == IInv /\ [Next]_vars => IInv'
<1>. SUFFICES ASSUME IInv, [Next]_vars PROVE IInv'
  OBVIOUS
<1>1. ASSUME NEW k \in Call, Fail(k) PROVE IInv'
  BY <1>1, Ends DEF Fail, IInv, TypeOK
<1>2. CASE List
  <2>1. held' \in Watches /\ WatchesOK(held', reported)
    BY <1>2, Merged DEF List
  <2>. QED
    BY <1>2, <2>1 DEF List, IInv, TypeOK
<1>3. CASE Restart
  BY <1>3, NoneOK DEF Restart, IInv, TypeOK
<1>4. CASE UNCHANGED vars
  BY <1>4 DEF vars, IInv, TypeOK
<1>. QED
  BY <1>1, <1>2, <1>3, <1>4, SaveStarts, CheckStarts, SaveEnds, CheckEnds DEF Next

\* The variables keep their types: the memory and the tokens hold well-formed
\* watches, whichever calls wrote them (watch_listed_awards).
THEOREM TypeCorrect == Spec => []TypeOK
<1>1. IInv => TypeOK
  BY DEF IInv
<1>. QED
  BY InvInit, InvStep, <1>1, PTL DEF Spec

\* However calls overlap, fail or follow a restart, and whichever answers the client
\* cancels or loses, a notice marked as seen was reported by an answer for the query of
\* its watch, over HTTP by one the client has had (watch_listed_awards).
THEOREM SeenNoticesReported == Spec => []SeenWasReported
<1>1. IInv => SeenWasReported
  BY DEF IInv, SeenWasReported, WatchesOK, WatchOK
<1>. QED
  BY InvInit, InvStep, <1>1, PTL DEF Spec

-----------------------------------------------------------------------------
(* Reported once *)

\* What the names of the watches have reported, by t, is marked as seen.
ToldOK(watches, t) ==
  \A n \in Name : watches[n] # Idle => t[n] \subseteq watches[n].seen

\* The invariant behind ReportedOnce: wherever a watch is kept it knows what its name
\* has reported, until two calls are under way, from when nothing counts as told.
OnceInv ==
  /\ IInv /\ ~repeated
  /\ overlapped => \A n \in Name : told[n] = {}
  /\ ~overlapped => \A j, k \in Call : flight[j] # Idle /\ flight[k] # Idle => j = k
  /\ ToldOK(memory, told) /\ ToldOK(held, told)
  /\ \A k \in Call : flight[k] # Idle => ToldOK(flight[k].entries, told)

LEMMA ToldMerged ==
  ASSUME NEW t, NEW f, NEW g, ToldOK(f, t), ToldOK(g, t)
  PROVE  ToldOK(MergeEntries(f, g), t)
  BY DEF ToldOK, MergeEntries

LEMMA ToldNone == \A t : ToldOK(NoWatches, t)
  BY DEF ToldOK, NoWatches

LEMMA ToldNothing ==
  ASSUME NEW t, \A n \in Name : t[n] = {}, NEW f
  PROVE  ToldOK(f, t)
  BY DEF ToldOK

\* A watch with more seen, put into watches that know what their names reported.
LEMMA ToldPut ==
  ASSUME NEW t, NEW u, NEW n \in Name, NEW w, NEW f \in Watches, ToldOK(f, t),
         \A m \in Name : m # n => u[m] \subseteq t[m],
         u[n] \subseteq w.seen
  PROVE  ToldOK([f EXCEPT ![n] = w], u)
  BY DEF ToldOK, Watches

LEMMA OnceStarts ==
  ASSUME OnceInv, NEW k \in Call, flight[k] = Idle, NEW c, flight' = [flight EXCEPT ![k] = c],
         NEW token \in {NoWatches, held}, c.entries = MergeEntries(token, memory),
         UNCHANGED <<memory, held, repeated>>, Overlap(k), IInv'
  PROVE  OnceInv'
<1>1. \A l \in Call : flight'[l] = IF l = k THEN c ELSE flight[l]
  BY DEF OnceInv, IInv, TypeOK
<1>2. CASE \A other \in Call : flight[other] = Idle
  <2>1. UNCHANGED <<overlapped, told>>
    BY <1>2 DEF Overlap
  <2>2. ToldOK(c.entries, told)
    BY ToldMerged, ToldNone DEF OnceInv
  <2>. QED
    BY <1>1, <1>2, <2>1, <2>2 DEF OnceInv
<1>3. CASE ~\A other \in Call : flight[other] = Idle
  <2>1. overlapped' = TRUE /\ told' = [n \in Name |-> {}]
    BY <1>3 DEF Overlap
  <2>2. \A n \in Name : told'[n] = {}
    BY <2>1
  <2>3. /\ ToldOK(memory', told') /\ ToldOK(held', told')
        /\ \A l \in Call : ToldOK(flight'[l].entries, told')
    BY <2>2, ToldNothing
  <2>. QED
    BY <2>1, <2>2, <2>3 DEF OnceInv
<1>. QED
  BY <1>2, <1>3

LEMMA OnceEnds ==
  ASSUME OnceInv, NEW k \in Call, flight[k] # Idle, flight' = [flight EXCEPT ![k] = Idle],
         UNCHANGED overlapped, IInv', ~repeated',
         ToldOK(memory', told'), ToldOK(held', told'),
         \/ ~overlapped
         \/ \A n \in Name : told'[n] = {}
  PROVE  OnceInv'
<1>1. \A l \in Call : flight'[l] = IF l = k THEN Idle ELSE flight[l]
  BY DEF OnceInv, IInv, TypeOK
<1>2. ASSUME NEW l \in Call, flight'[l] # Idle PROVE ToldOK(flight'[l].entries, told')
  <2>1. CASE ~overlapped
    BY <1>1, <1>2, <2>1 DEF OnceInv
  <2>2. CASE \A n \in Name : told'[n] = {}
    BY <2>2, ToldNothing
  <2>. QED
    BY <2>1, <2>2
<1>. QED
  BY <1>1, <1>2 DEF OnceInv

LEMMA OnceSave == ASSUME OnceInv, NEW k \in Call, FinishSave(k), IInv' PROVE OnceInv'
<1>1. PICK c : c = flight[k]
  OBVIOUS
<1>2. /\ c \in Save /\ c.name \in Name /\ c.entries \in Watches
      /\ ToldOK(c.entries, told) /\ memory \in Watches /\ TypeOK
  BY <1>1 DEF FinishSave, OnceInv, IInv, TypeOK, Save, Check
<1>3. PICK w : w = [query |-> c.query, seen |-> {}]
  OBVIOUS
<1>4. /\ flight[k] # Idle /\ Remember(c.name, w)
      /\ flight' = [flight EXCEPT ![k] = Idle]
      /\ UNCHANGED <<overlapped, repeated>>
  BY <1>1, <1>3 DEF FinishSave
<1>5. CASE /\ held' = [c.entries EXCEPT ![c.name] = w] \/ UNCHANGED held
           /\ told' = [told EXCEPT ![c.name] = {}]
  <2>1. /\ \A m \in Name : told'[m] \subseteq told[m]
        /\ told'[c.name] \subseteq w.seen
    BY <1>2, <1>5 DEF TypeOK
  <2>2. ToldOK(held', told')
    <3>1. ToldOK(held, told')
      BY <2>1 DEF OnceInv, ToldOK
    <3>2. ToldOK([c.entries EXCEPT ![c.name] = w], told')
      BY <1>2, <2>1, ToldPut
    <3>. QED
      BY <1>5, <3>1, <3>2
  <2>3. ToldOK(memory', told')
    BY <1>2, <1>4, <2>1, ToldPut, ToldNone DEF Remember, OnceInv
  <2>4. overlapped => \A n \in Name : told'[n] = {}
    BY <1>2, <1>5 DEF OnceInv, TypeOK
  <2>. QED
    BY <1>4, <2>2, <2>3, <2>4, OnceEnds DEF OnceInv
<1>6. CASE Stateless /\ UNCHANGED <<held, told>>
  <2>1. ToldOK(memory', told')
    BY <1>4, <1>6, ToldNone DEF Remember
  <2>. QED
    BY <1>4, <1>6, <2>1, OnceEnds DEF OnceInv
<1>. QED
  BY <1>1, <1>3, <1>5, <1>6 DEF FinishSave, Upsert

LEMMA OnceCheck == ASSUME OnceInv, NEW k \in Call, FinishCheck(k), IInv' PROVE OnceInv'
<1>1. PICK c : c = flight[k]
  OBVIOUS
<1>2. /\ c \in Check /\ c.name \in Name /\ c.entries \in Watches /\ TypeOK
      /\ ToldOK(c.entries, told) /\ memory \in Watches /\ c.entries[c.name] # Idle
  BY <1>1 DEF FinishCheck, OnceInv, IInv, TypeOK, Save, Check
<1>3. PICK v : v = c.entries[c.name]
  OBVIOUS
<1>4. v \in Watch /\ told[c.name] \subseteq v.seen
  BY <1>2, <1>3 DEF Watches, ToldOK
<1>5. PICK found \in SUBSET Matches[v.query], arrives \in BOOLEAN :
        LET new == NewNotices(c, found) IN
        /\ Remember(c.name, Updated(c, found))
        /\ reported' = IF arrives \/ ~Stateless THEN reported \cup {v.query} \X new
                       ELSE reported
        /\ IF arrives
           THEN /\ held' = Upsert(c.entries, c.name, Updated(c, found))
                /\ told' = IF overlapped THEN told
                           ELSE [told EXCEPT ![c.name] = @ \cup new]
                /\ repeated' = (repeated \/ told[c.name] \cap new # {})
           ELSE UNCHANGED <<held, told, repeated>>
  BY <1>1, <1>3 DEF FinishCheck
<1>6. PICK w : w = Updated(c, found)
  OBVIOUS
<1>7. PICK new : new = NewNotices(c, found)
  OBVIOUS
<1>8. w.seen = v.seen \cup found /\ new = found \ v.seen
  BY <1>3, <1>4, <1>6, <1>7 DEF Updated, NewNotices, Watch
<1>9. /\ flight[k] # Idle /\ Remember(c.name, w) /\ UNCHANGED overlapped
      /\ flight' = [flight EXCEPT ![k] = Idle]
  BY <1>5, <1>6 DEF FinishCheck
<1>10. CASE arrives
  <2>1. /\ held' = [c.entries EXCEPT ![c.name] = w]
        /\ told' = IF overlapped THEN told
                   ELSE [told EXCEPT ![c.name] = @ \cup new]
        /\ repeated' = (repeated \/ told[c.name] \cap new # {})
    BY <1>5, <1>6, <1>7, <1>10 DEF Upsert
  <2>2. ~repeated'
    <3>1. told[c.name] \cap new = {}
      BY <1>4, <1>8
    <3>. QED
      BY <2>1, <3>1 DEF OnceInv
  <2>3. /\ \A m \in Name : m # c.name => told'[m] \subseteq told[m]
        /\ told'[c.name] \subseteq w.seen
    BY <1>2, <1>4, <1>8, <2>1 DEF TypeOK
  <2>4. ToldOK(held', told')
    BY <1>2, <2>1, <2>3, ToldPut
  <2>5. ToldOK(memory', told')
    BY <1>2, <1>9, <2>3, ToldPut, ToldNone DEF Remember, OnceInv
  <2>6. overlapped => \A n \in Name : told'[n] = {}
    BY <2>1 DEF OnceInv
  <2>. QED
    BY <1>9, <2>2, <2>4, <2>5, <2>6, OnceEnds
<1>11. CASE ~arrives
  <2>1. UNCHANGED <<held, told, repeated>>
    BY <1>5, <1>11
  <2>2. told[c.name] \subseteq w.seen
    BY <1>4, <1>8
  <2>3. ToldOK(memory', told')
    BY <1>2, <1>9, <2>1, <2>2, ToldPut, ToldNone DEF Remember, OnceInv
  <2>. QED
    BY <1>9, <2>1, <2>3, OnceEnds DEF OnceInv
<1>. QED
  BY <1>10, <1>11

LEMMA OnceStep == OnceInv /\ [Next]_vars => OnceInv'
<1>. SUFFICES ASSUME OnceInv, [Next]_vars PROVE OnceInv'
  OBVIOUS
<1>0. IInv /\ IInv' /\ TypeOK
  BY InvStep DEF OnceInv, IInv
<1>1. ASSUME NEW k \in Call, NEW n \in Name, NEW q \in Query, StartSave(k, n, q)
      PROVE  OnceInv'
  <2>1. PICK token \in {NoWatches, held} :
          flight' = [flight EXCEPT ![k] =
            [action |-> "save", name |-> n, query |-> q,
             entries |-> MergeEntries(token, memory)]]
    BY <1>1 DEF StartSave
  <2>2. PICK c : c = [action |-> "save", name |-> n, query |-> q,
                      entries |-> MergeEntries(token, memory)]
    OBVIOUS
  <2>3. c.entries = MergeEntries(token, memory) /\ flight' = [flight EXCEPT ![k] = c]
    BY <2>1, <2>2
  <2>4. /\ flight[k] = Idle /\ Overlap(k)
        /\ UNCHANGED <<memory, held, repeated>>
    BY <1>1 DEF StartSave
  <2>. QED
    BY <1>0, <2>3, <2>4, OnceStarts
<1>2. ASSUME NEW k \in Call, NEW n \in Name, StartCheck(k, n) PROVE OnceInv'
  <2>1. PICK token \in {NoWatches, held} :
          flight' = [flight EXCEPT ![k] =
            [action |-> "check", name |-> n, entries |-> MergeEntries(token, memory)]]
    BY <1>2 DEF StartCheck
  <2>2. PICK c : c = [action |-> "check", name |-> n,
                      entries |-> MergeEntries(token, memory)]
    OBVIOUS
  <2>3. c.entries = MergeEntries(token, memory) /\ flight' = [flight EXCEPT ![k] = c]
    BY <2>1, <2>2
  <2>4. /\ flight[k] = Idle /\ Overlap(k)
        /\ UNCHANGED <<memory, held, repeated>>
    BY <1>2 DEF StartCheck
  <2>. QED
    BY <1>0, <2>3, <2>4, OnceStarts
<1>3. ASSUME NEW k \in Call, Fail(k) PROVE OnceInv'
  BY <1>0, <1>3, OnceEnds DEF Fail, OnceInv
<1>4. CASE List
  <2>1. ToldOK(held', told)
    BY <1>4, ToldMerged, ToldNone DEF List, OnceInv
  <2>. QED
    BY <1>0, <1>4, <2>1 DEF List, OnceInv
<1>5. CASE Restart
  BY <1>0, <1>5, ToldNone DEF Restart, OnceInv
<1>6. CASE UNCHANGED vars
  BY <1>0, <1>6 DEF vars, OnceInv
<1>. QED
  BY <1>0, <1>1, <1>2, <1>3, <1>4, <1>5, <1>6, OnceSave, OnceCheck DEF Next

\* Until two of its calls overlap, a client is told of a notice once for each time it
\* saves the watch, also after restarts and answers it did not get
\* (watch_listed_awards).
THEOREM Once == Spec => []ReportedOnce
<1>1. Init => OnceInv
  <2>1. ASSUME Init PROVE OnceInv
    BY <2>1, InvInit, ToldNone DEF Init, OnceInv
  <2>. QED
    BY <2>1
<1>2. OnceInv => ReportedOnce
  BY DEF OnceInv, ReportedOnce
<1>. QED
  BY <1>1, OnceStep, <1>2, PTL DEF Spec
=============================================================================
