------------------------ MODULE SavedSearches_proofs -------------------------
(***************************************************************************)
(* Proofs about SavedSearches, for any names, conditions, notices, checks in  *)
(* flight, page and length of a behaviour.                                   *)
(***************************************************************************)
EXTENDS SavedSearches, FiniteSetTheorems, TLAPS

\* Conditions whose matches always fit in one answer.
Fits(c) == Cardinality(Matches[c]) <= Page

\* What holds of every entry, in the memory, in the token the client holds, or in
\* the hands of a check.
EntryOK(e) ==
  e.lastCheckedAt # Never =>
    /\ e.lastCheckedAt <= clock
    /\ Fits(e.criteria) => \A n \in Matches[e.criteria] :
         published[n] # Never /\ JstDay(published[n]) < CheckedDay(e.lastCheckedAt)
         => <<e.criteria, n>> \in reported

EntriesOK(entries) == \A n \in Name : entries[n] # Never => EntryOK(entries[n])

\* A check that awaits: it found, or a check before it reported, every match dated
\* before the UTC day half a day after its search; it returns by then.
CheckOK(c) ==
  /\ EntriesOK(c.token) /\ EntryOK(c.saved)
  /\ c.found \subseteq Matches[c.saved.criteria]
  /\ c.since <= clock /\ clock <= c.since + 1
  /\ \A n \in Matches[c.saved.criteria] :
       Fits(c.saved.criteria) /\ published[n] # Never
       /\ JstDay(published[n]) < UtcDay(c.since + 1)
       => n \in c.found \/ <<c.saved.criteria, n>> \in reported

IInv ==
  /\ TypeOK
  /\ EntriesOK(memory) /\ EntriesOK(held)
  /\ \A k \in Call : flight[k] # Never => CheckOK(flight[k])

\* The days of a later moment are not earlier; a Japanese date is a UTC date half a
\* day later, and never behind the UTC date.
LEMMA Days ==
  ASSUME NEW s \in Nat, NEW t \in Nat, s <= t
  PROVE  /\ UtcDay(s) \in Nat /\ JstDay(s) \in Nat
         /\ UtcDay(s) <= UtcDay(t) /\ JstDay(s) <= JstDay(t)
         /\ UtcDay(s) <= JstDay(s) /\ JstDay(s) = UtcDay(s + 1)
  BY DEF UtcDay, JstDay

-----------------------------------------------------------------------------
(* What a call writes back *)

\* What is remembered and what goes into a token are entries again, all of them
\* the new one or old ones.
LEMMA Written ==
  ASSUME TypeOK, NEW token \in Entries, NEW n \in Name, NEW e \in Entry
  PROVE  /\ Remember(n, e) \in Entries
         /\ stateless => Remember(n, e) = NoEntries
         /\ \A m \in Name : Remember(n, e)[m] \in {e, memory[m]}
         /\ Upsert(token, n, e) \in Entries
         /\ \A m \in Name : Upsert(token, n, e)[m] \in {e, token[m]}
<1>1. memory \in Entries /\ (stateless => memory = NoEntries)
  BY DEF TypeOK
<1>2. /\ [memory EXCEPT ![n] = e] \in Entries
      /\ \A m \in Name : [memory EXCEPT ![n] = e][m] \in {e, memory[m]}
  BY <1>1 DEF Entries
<1>3. /\ Upsert(token, n, e) \in Entries
      /\ \A m \in Name : Upsert(token, n, e)[m] \in {e, token[m]}
  BY DEF Upsert, Entries
<1>. QED
  BY <1>1, <1>2, <1>3 DEF Remember

\* What every step leaves true: time and the reports only grow, and a notice gets
\* the date of the day it is published.
Onward ==
  /\ clock' \in {clock, clock + 1} /\ clock' \in Time
  /\ reported \subseteq reported'
  /\ \A n \in Notice : published'[n] \in {published[n], clock}

LEMMA EntryKept ==
  ASSUME TypeOK, Onward, NEW e \in Entry, EntryOK(e)
  PROVE  EntryOK(e)'
<1>. SUFFICES ASSUME e.lastCheckedAt # Never
              PROVE  EntryOK(e)'
  BY DEF EntryOK
<1>1. e.lastCheckedAt \in Nat /\ clock \in Nat /\ e.lastCheckedAt <= clock
  BY ClockAssumption DEF TypeOK, Entry, Time, EntryOK
<1>2. e.lastCheckedAt <= clock'
  BY <1>1 DEF Onward
<1>3. ASSUME NEW n \in Matches[e.criteria], Fits(e.criteria), published'[n] # Never,
             JstDay(published'[n]) < CheckedDay(e.lastCheckedAt)
      PROVE  <<e.criteria, n>> \in reported'
  <2>1. n \in Notice
    BY MatchesAssumption DEF Entry
  <2>2. CASE published'[n] = clock
    <3>1. UtcDay(e.lastCheckedAt) <= UtcDay(clock) /\ UtcDay(clock) <= JstDay(clock)
      BY <1>1, Days
    <3>2. UtcDay(e.lastCheckedAt) \in Nat /\ UtcDay(clock) \in Nat /\ JstDay(clock) \in Nat
      BY <1>1, Days
    <3>3. JstDay(clock) < UtcDay(e.lastCheckedAt)
      BY <1>3, <2>2 DEF CheckedDay
    <3>. QED
      BY <3>1, <3>2, <3>3
  <2>3. CASE published'[n] = published[n]
    BY <1>3, <2>3 DEF EntryOK, Onward
  <2>. QED
    BY <2>1, <2>2, <2>3 DEF Onward
<1>. QED
  BY <1>2, <1>3 DEF EntryOK

LEMMA EntriesKept ==
  ASSUME TypeOK, Onward, NEW f \in Entries, EntriesOK(f)
  PROVE  EntriesOK(f)'
BY EntryKept DEF EntriesOK, Entries

LEMMA CheckKept ==
  ASSUME TypeOK, Onward, NEW c \in Check, CheckOK(c), clock' <= c.since + 1
  PROVE  CheckOK(c)'
<1>1. EntriesOK(c.token)' /\ EntryOK(c.saved)'
  BY EntriesKept, EntryKept DEF Check, CheckOK
<1>2. c.since \in Nat /\ clock \in Nat /\ c.since <= clock /\ c.since <= clock'
  BY ClockAssumption DEF TypeOK, Check, Time, CheckOK, Onward
<1>3. ASSUME NEW n \in Matches[c.saved.criteria], Fits(c.saved.criteria),
             published'[n] # Never, JstDay(published'[n]) < UtcDay(c.since + 1)
      PROVE  n \in c.found \/ <<c.saved.criteria, n>> \in reported'
  <2>1. n \in Notice
    BY MatchesAssumption DEF Check, Entry
  <2>2. CASE published'[n] = clock
    <3>1. JstDay(c.since) = UtcDay(c.since + 1) /\ JstDay(c.since) <= JstDay(clock)
      BY <1>2, Days
    <3>2. JstDay(c.since) \in Nat /\ JstDay(clock) \in Nat
      BY <1>2, Days
    <3>. QED
      BY <1>3, <2>2, <3>1, <3>2
  <2>3. CASE published'[n] = published[n]
    BY <1>3, <2>3 DEF CheckOK, Onward
  <2>. QED
    BY <2>1, <2>2, <2>3 DEF Onward
<1>. QED
  BY <1>1, <1>2, <1>3 DEF CheckOK

-----------------------------------------------------------------------------
(* Initially, and in every step *)

LEMMA InvInit == Init => IInv
<1>. SUFFICES ASSUME Init PROVE IInv
  OBVIOUS
<1>0. NoEntries \in Entries /\ \A n \in Name : NoEntries[n] = Never
  BY DEF NoEntries, Entries
<1>1. TypeOK
  <2>1. clock \in Time
    BY ClockAssumption DEF Init, Time
  <2>. QED
    BY <1>0, <2>1 DEF Init, TypeOK
<1>2. EntriesOK(memory) /\ EntriesOK(held)
  BY <1>0 DEF Init, EntriesOK
<1>3. \A k \in Call : flight[k] = Never
  BY DEF Init
<1>. QED
  BY <1>1, <1>2, <1>3 DEF IInv

\* The steps that write nothing keep the invariant when the checks in flight do.
LEMMA Calm ==
  ASSUME IInv, Onward, UNCHANGED <<stateless, memory, held>>,
         published' \in [Notice -> Time \cup {Never}], reported' \subseteq Criteria \X Notice,
         flight' \in [Call -> Check \cup {Never}],
         \A k \in Call : flight'[k] # Never =>
           /\ flight'[k] = flight[k] \/ (flight'[k] \in Check /\ CheckOK(flight[k])')
           /\ clock' <= flight'[k].since + 1
  PROVE  IInv'
<1>1. TypeOK'
  BY DEF IInv, TypeOK, Onward
<1>2. EntriesOK(memory)' /\ EntriesOK(held)'
  <2>1. memory \in Entries /\ held \in Entries /\ TypeOK
    BY DEF IInv, TypeOK
  <2>2. EntriesOK(memory) /\ EntriesOK(held)
    BY DEF IInv
  <2>3. PICK m \in Entries : m = memory
    BY <2>1
  <2>4. PICK h \in Entries : h = held
    BY <2>1
  <2>5. EntriesOK(m)' /\ EntriesOK(h)'
    BY <2>1, <2>2, <2>3, <2>4, EntriesKept
  <2>. QED
    BY <2>3, <2>4, <2>5 DEF EntriesOK, EntryOK
<1>3. ASSUME NEW k \in Call, flight'[k] # Never PROVE CheckOK(flight[k])'
  <2>1. CASE flight'[k] = flight[k]
    <3>1. flight[k] \in Check /\ CheckOK(flight[k]) /\ TypeOK
      BY <1>3, <2>1 DEF IInv, TypeOK
    <3>2. PICK c \in Check : c = flight[k]
      BY <3>1
    <3>3. CheckOK(c)'
      BY <1>3, <2>1, <3>1, <3>2, CheckKept
    <3>4. CheckOK(flight[k])'
      BY <2>1, <3>2, <3>3 DEF CheckOK, EntriesOK, EntryOK
    <3>. QED
      BY <3>4
  <2>. QED
    BY <1>3, <2>1
<1>. QED
  BY <1>1, <1>2, <1>3 DEF IInv

\* A check that starts from a good entry is good.
LEMMA Started ==
  ASSUME IInv, NEW token \in Entries, EntriesOK(token), NEW n \in Name,
         NEW e \in Entry, EntryOK(e),
         NEW c, c = [name |-> n, token |-> token, saved |-> e,
                     found |-> Search(e), since |-> clock]
  PROVE  c \in Check /\ CheckOK(c)
<1>1. Search(e) \subseteq Matches[e.criteria] /\ Search(e) \subseteq Notice
  BY MatchesAssumption DEF Search, Entry
<1>2. clock \in Time /\ clock \in Nat
  BY ClockAssumption DEF IInv, TypeOK, Time
<1>3. ASSUME NEW m \in Matches[e.criteria], Fits(e.criteria), published[m] # Never
      PROVE  m \in Search(e) \/ <<e.criteria, m>> \in reported
  <2>1. CASE e.lastCheckedAt = Never
    BY <1>3, <2>1 DEF Search
  <2>2. CASE e.lastCheckedAt # Never
    <3>1. CASE JstDay(published[m]) < CheckedDay(e.lastCheckedAt)
      BY <1>3, <2>2, <3>1 DEF EntryOK
    <3>2. CASE ~(JstDay(published[m]) < CheckedDay(e.lastCheckedAt))
      <4>1. m \in Notice /\ published[m] \in Nat /\ e.lastCheckedAt \in Nat
        BY <1>3, <2>2, MatchesAssumption, ClockAssumption DEF Entry, IInv, TypeOK, Time
      <4>2. JstDay(published[m]) \in Nat /\ CheckedDay(e.lastCheckedAt) \in Nat
        BY <4>1, Days DEF CheckedDay
      <4>. QED
        BY <1>3, <3>2, <4>2 DEF Search
    <3>. QED
      BY <3>1, <3>2
  <2>. QED
    BY <2>1, <2>2
<1>4. c \in Check
  BY <1>1, <1>2 DEF Check
<1>. QED
  BY <1>1, <1>2, <1>3, <1>4 DEF CheckOK

\* A call that writes a good entry back keeps the invariant.
LEMMA Writes ==
  ASSUME IInv, NEW token \in Entries, EntriesOK(token), NEW n \in Name,
         NEW e \in Entry, EntryOK(e)',
         memory' = Remember(n, e), Answer(Upsert(token, n, e)),
         UNCHANGED <<stateless, clock, published>>,
         reported \subseteq reported', reported' \subseteq Criteria \X Notice,
         flight' \in [Call -> Check \cup {Never}],
         \A l \in Call : flight'[l] \in {flight[l], Never}
  PROVE  IInv'
<1>1. TypeOK /\ Onward
  BY DEF IInv, TypeOK, Onward
<1>2. \A l \in Call : flight'[l] # Never => flight'[l] = flight[l]
  BY <1>1 DEF TypeOK
<1>3. TypeOK'
  BY <1>1, Written DEF TypeOK, Answer
<1>4. ASSUME NEW f, f \in Entries, NEW g, g \in Entries, EntriesOK(g),
             \A m \in Name : f[m] \in {e, g[m]}
      PROVE  EntriesOK(f)'
  <2>1. EntriesOK(g)'
    BY <1>1, <1>4, EntriesKept
  <2>. QED
    BY <1>4, <2>1 DEF EntriesOK, EntryOK
<1>5. PICK m : m = memory
  OBVIOUS
<1>6. PICK w : w = Remember(n, e)
  OBVIOUS
<1>7. PICK h : h = Upsert(token, n, e)
  OBVIOUS
<1>8. EntriesOK(w)'
  <2>1. m \in Entries /\ EntriesOK(m)
    BY <1>5 DEF IInv, TypeOK
  <2>2. w \in Entries /\ \A x \in Name : w[x] \in {e, m[x]}
    BY <1>1, <1>5, <1>6, Written
  <2>. QED
    BY <2>1, <2>2, <1>4
<1>9. EntriesOK(h)'
  <2>1. h \in Entries /\ \A x \in Name : h[x] \in {e, token[x]}
    BY <1>1, <1>7, Written
  <2>. QED
    BY <2>1, <1>4
<1>10. EntriesOK(memory)' /\ EntriesOK(held)'
  <2>1. PICK g : g = held
    OBVIOUS
  <2>2. EntriesOK(g)'
    BY <1>1, <2>1, EntriesKept DEF IInv, TypeOK
  <2>3. held' = g \/ held' = h
    BY <1>7, <2>1 DEF Answer
  <2>. QED
    BY <1>6, <1>8, <1>9, <2>2, <2>3 DEF EntriesOK, EntryOK
<1>11. ASSUME NEW l \in Call, flight'[l] # Never PROVE CheckOK(flight[l])'
  <2>1. flight'[l] = flight[l] /\ flight[l] \in Check /\ CheckOK(flight[l])
    BY <1>1, <1>2, <1>11 DEF IInv, TypeOK
  <2>2. PICK c \in Check : c = flight[l]
    BY <2>1
  <2>3. clock' <= c.since + 1
    BY <2>1, <2>2 DEF CheckOK
  <2>4. CheckOK(c)'
    BY <1>1, <2>1, <2>2, <2>3, CheckKept
  <2>. QED
    BY <2>1, <2>2, <2>4 DEF CheckOK, EntriesOK, EntryOK
<1>. QED
  BY <1>3, <1>10, <1>11 DEF IInv

LEMMA InvStep == IInv /\ [Next]_vars => IInv'
<1>. SUFFICES ASSUME IInv, [Next]_vars PROVE IInv'
  OBVIOUS
<1>0. /\ TypeOK /\ clock \in Nat /\ clock \in Time
      /\ \A t \in StateTokens : t \in Entries /\ EntriesOK(t)
  <2>1. NoEntries \in Entries /\ \A n \in Name : NoEntries[n] = Never
    BY DEF NoEntries, Entries
  <2>. QED
    BY <2>1, ClockAssumption DEF IInv, TypeOK, Time, StateTokens, EntriesOK
<1>1. ASSUME NEW n \in Name, NEW c \in Criteria, NEW token \in StateTokens,
             SaveSearch(n, c, token)
      PROVE  IInv'
  <2>1. PICK e : e = [criteria |-> c, lastCheckedAt |-> Never]
    OBVIOUS
  <2>2. e \in Entry /\ EntryOK(e)'
    BY <2>1 DEF Entry, EntryOK
  <2>3. /\ memory' = Remember(n, e) /\ Answer(Upsert(token, n, e))
        /\ UNCHANGED <<stateless, clock, published, flight, reported>>
    BY <1>1, <2>1 DEF SaveSearch
  <2>. QED
    BY <1>0, <2>2, <2>3, Writes DEF TypeOK, IInv
<1>2. ASSUME NEW k \in Call, NEW n \in Name, NEW token \in StateTokens,
             StartCheck(k, n, token)
      PROVE  IInv'
  <2>1. PICK e : e = IF token[n] # Never THEN token[n] ELSE memory[n]
    OBVIOUS
  <2>2. e # Never
    BY <1>2, <2>1 DEF StartCheck
  <2>3. e = token[n] \/ e = memory[n]
    BY <2>1
  <2>4. token \in Entries /\ memory \in Entries /\ EntriesOK(token) /\ EntriesOK(memory)
    BY <1>0 DEF TypeOK, IInv
  <2>5. e \in Entry /\ EntryOK(e)
    BY <2>2, <2>3, <2>4 DEF Entries, EntriesOK
  <2>7. PICK c : c = [name |-> n, token |-> token, saved |-> e,
                      found |-> Search(e), since |-> clock]
    OBVIOUS
  <2>8. c \in Check /\ CheckOK(c)
    BY <1>0, <2>5, <2>7, Started
  <2>9. /\ flight' = [flight EXCEPT ![k] = c]
        /\ UNCHANGED <<stateless, clock, published, memory, held, reported>>
    BY <1>2, <2>1, <2>7 DEF StartCheck
  <2>10. CheckOK(c)'
    BY <2>8, <2>9 DEF CheckOK, EntriesOK, EntryOK
  <2>11. Onward
    BY <1>0, <2>9 DEF Onward
  <2>12. ASSUME NEW l \in Call, flight'[l] # Never
         PROVE  /\ flight'[l] = flight[l] \/ (flight'[l] \in Check /\ CheckOK(flight[l])')
                /\ clock' <= flight'[l].since + 1
    <3>1. CASE l = k
      <4>1. flight'[l] = c /\ clock' = c.since
        BY <1>0, <2>7, <2>9, <3>1 DEF TypeOK
      <4>2. CheckOK(flight[l])'
        BY <2>10, <4>1 DEF CheckOK, EntriesOK, EntryOK
      <4>. QED
        BY <1>0, <2>8, <2>9, <4>1, <4>2
    <3>2. CASE l # k
      <4>1. flight'[l] = flight[l]
        BY <1>0, <2>9, <3>2 DEF TypeOK
      <4>. QED
        BY <2>9, <2>12, <4>1 DEF IInv, CheckOK
    <3>. QED
      BY <3>1, <3>2
  <2>13. flight' \in [Call -> Check \cup {Never}]
    BY <1>0, <2>8, <2>9 DEF TypeOK
  <2>. QED
    BY <1>0, <2>9, <2>11, <2>12, <2>13, Calm DEF TypeOK
<1>3. ASSUME NEW k \in Call, FinishCheck(k) PROVE IInv'
  <2>1. PICK c \in Check : c = flight[k]
    BY <1>3 DEF FinishCheck, IInv, TypeOK
  <2>2. CheckOK(c)
    BY <1>3, <2>1 DEF FinishCheck, IInv
  <2>3. PICK e : e = [c.saved EXCEPT !.lastCheckedAt = clock]
    OBVIOUS
  <2>4. PICK page \in FirstPages(c.found) :
          reported' = reported \cup ({c.saved.criteria} \X page)
    BY <1>3, <2>1 DEF FinishCheck
  <2>5. /\ memory' = Remember(c.name, e) /\ Answer(Upsert(c.token, c.name, e))
        /\ flight' = [flight EXCEPT ![k] = Never]
        /\ UNCHANGED <<stateless, clock, published>>
    BY <1>3, <2>1, <2>3 DEF FinishCheck
  <2>6. /\ e \in Entry /\ e.criteria = c.saved.criteria /\ e.lastCheckedAt = clock
        /\ c.token \in Entries /\ c.name \in Name
    BY <1>0, <2>1, <2>3 DEF Check, Entry
  <2>7. page \subseteq c.found
    BY <2>4 DEF FirstPages
  <2>8. reported \subseteq reported' /\ reported' \subseteq Criteria \X Notice
    BY <1>0, <2>1, <2>4, <2>7 DEF TypeOK, Check, Entry
  <2>9. ASSUME NEW n \in Matches[e.criteria], Fits(e.criteria), published[n] # Never,
               JstDay(published[n]) < UtcDay(clock)
        PROVE  <<e.criteria, n>> \in reported'
    <3>1. n \in Notice /\ published[n] \in Nat /\ c.since \in Nat
      BY <1>0, <2>1, <2>6, <2>9, MatchesAssumption, ClockAssumption DEF TypeOK, Check, Time, Entry
    <3>2. UtcDay(clock) <= UtcDay(c.since + 1)
      BY <1>0, <2>2, <3>1, Days DEF CheckOK
    <3>3. JstDay(published[n]) \in Nat /\ UtcDay(clock) \in Nat /\ UtcDay(c.since + 1) \in Nat
      BY <1>0, <3>1, Days
    <3>4. n \in c.found \/ <<e.criteria, n>> \in reported
      BY <2>2, <2>6, <2>9, <3>2, <3>3 DEF CheckOK
    <3>5. page = c.found
      <4>1. Matches[e.criteria] \subseteq Notice /\ IsFiniteSet(Notice)
        BY <2>6, MatchesAssumption DEF Entry
      <4>2. IsFiniteSet(Matches[e.criteria])
        BY <4>1, FS_Subset
      <4>3. c.found \in SUBSET Matches[e.criteria]
        BY <2>2, <2>6 DEF CheckOK
      <4>4. /\ Cardinality(c.found) <= Cardinality(Matches[e.criteria])
            /\ IsFiniteSet(c.found)
        BY <4>2, <4>3, FS_Subset
      <4>5. Cardinality(c.found) \in Nat /\ Cardinality(Matches[e.criteria]) \in Nat
        BY <4>2, <4>4, FS_CardinalityType
      <4>6. Cardinality(c.found) <= Page
        BY <2>9, <4>4, <4>5, PageAssumption DEF Fits
      <4>. QED
        BY <2>4, <4>6 DEF FirstPages
    <3>. QED
      BY <2>4, <2>6, <2>8, <3>4, <3>5
  <2>10. EntryOK(e)'
    BY <1>0, <2>5, <2>6, <2>9 DEF EntryOK, CheckedDay
  <2>11. /\ flight' \in [Call -> Check \cup {Never}]
         /\ \A l \in Call : flight'[l] \in {flight[l], Never}
    BY <1>0, <2>5 DEF TypeOK
  <2>12. EntriesOK(c.token)
    BY <2>2 DEF CheckOK
  <2>. QED
    BY <2>5, <2>6, <2>8, <2>10, <2>11, <2>12, Writes
<1>4. ASSUME NEW k \in Call, FailCheck(k) PROVE IInv'
  <2>1. \A l \in Call : flight'[l] # Never =>
          flight'[l] = flight[l] /\ clock' <= flight'[l].since + 1
    BY <1>0, <1>4 DEF FailCheck, IInv, TypeOK, CheckOK
  <2>2. flight' \in [Call -> Check \cup {Never}] /\ Onward
    BY <1>0, <1>4 DEF FailCheck, TypeOK, Onward
  <2>. QED
    BY <1>0, <1>4, <2>1, <2>2, Calm DEF FailCheck, TypeOK
<1>5. ASSUME NEW n \in Notice, Publish(n) PROVE IInv'
  <2>1. \A l \in Call : flight'[l] # Never =>
          flight'[l] = flight[l] /\ clock' <= flight'[l].since + 1
    BY <1>0, <1>5 DEF Publish, IInv, TypeOK, CheckOK
  <2>2. Onward /\ published' \in [Notice -> Time \cup {Never}]
    BY <1>0, <1>5 DEF Publish, TypeOK, Onward
  <2>. QED
    BY <1>0, <1>5, <2>1, <2>2, Calm DEF Publish, TypeOK
<1>6. CASE AdvanceClock
  <2>1. \A l \in Call : flight'[l] # Never =>
          flight'[l] = flight[l] /\ clock' <= flight'[l].since + 1
    BY <1>0, <1>6 DEF AdvanceClock, IInv, TypeOK, CheckOK
  <2>2. Onward
    BY <1>0, <1>6, ClockAssumption DEF AdvanceClock, TypeOK, Onward, Time
  <2>. QED
    BY <1>0, <1>6, <2>1, <2>2, Calm DEF AdvanceClock, TypeOK
<1>7. CASE ListSavedSearches
  BY <1>7 DEF ListSavedSearches, Answer, IInv, TypeOK, EntriesOK, CheckOK, EntryOK
<1>8. CASE UNCHANGED vars
  BY <1>8 DEF vars, IInv, TypeOK, EntriesOK, CheckOK, EntryOK
<1>. QED
  BY <1>1, <1>2, <1>3, <1>4, <1>5, <1>6, <1>7, <1>8 DEF Next

\* The variables keep their types: whatever calls wrote them, the memory and the
\* tokens hold well-formed entries (upsertSavedSearch).
THEOREM TypeCorrect == Spec => []TypeOK
<1>1. IInv => TypeOK
  BY DEF IInv
<1>. QED
  BY InvInit, InvStep, <1>1, PTL DEF Spec

\* However checks overlap or fail, no entry says it was checked past a matching
\* notice that no check answered with, for conditions whose matches fit in one answer
\* (check_saved_search): the dates of two time zones never leave a gap.
THEOREM NothingMissed == Spec => []NothingSkipped
<1>1. IInv => NothingSkipped
  BY DEF IInv, NothingSkipped, KnownEntries, EntriesOK, EntryOK, Fits
<1>. QED
  BY InvInit, InvStep, <1>1, PTL DEF Spec
=============================================================================
