---------------------------- MODULE SavedSearches ----------------------------
(***************************************************************************)
(* save_search, check_saved_search and list_saved_searches                  *)
(* (src/src/tools/saved-search-alert.ts).                                   *)
(*                                                                         *)
(* A saved search lives in the memory of one server (stdio) and in signed   *)
(* state tokens the client carries (stateless HTTP, where every request has  *)
(* a server of its own, so that no memory survives it). check_saved_search  *)
(* reads the entry, awaits client.search, and writes the entry back with     *)
(* lastCheckedAt = now; the next check asks for notices issued on or after   *)
(* the UTC date of that moment, while notices carry Japanese dates.          *)
(*                                                                         *)
(* The clock counts half days: two steps per UTC day, the second of which    *)
(* (15:00-24:00 UTC) is already the next day in Japan.                       *)
(***************************************************************************)
EXTENDS Naturals, FiniteSets

CONSTANTS
  Name, Criteria, Notice,  \* saved search names, search conditions, notices
  Call,                    \* check_saved_search calls in flight
  Matches,                 \* [Criteria -> SUBSET Notice]: what a search finds
  Page,                    \* how many notices a check returns (10)
  MaxClock,                \* bound: half days a behaviour lasts
  Never                    \* null: no entry, not checked yet, not published yet

ASSUME MatchesAssumption ==
  /\ IsFiniteSet(Notice)
  /\ Matches \in [Criteria -> SUBSET Notice]
ASSUME ClockAssumption == MaxClock \in Nat /\ Never \notin Nat
ASSUME PageAssumption == Page \in Nat \ {0}

VARIABLES
  stateless,  \* TRUE: HTTP, one server per request; FALSE: stdio
  clock,
  published,  \* [Notice -> Nat or Never]: when KKJ published it
  memory,     \* savedSearches: a Map, Never where it has no entry
  held,       \* the newest state token the client holds (same shape)
  flight,     \* [Call -> a check that awaits client.search, or Never]
  reported    \* history: <<criteria, notice>> pairs some check answered with

vars == <<stateless, clock, published, memory, held, flight, reported>>

Time == 0..MaxClock
Entry == [criteria : Criteria, lastCheckedAt : Time \cup {Never}]
Entries == [Name -> Entry \cup {Never}]
Check == [name : Name, token : Entries, saved : Entry,
          found : SUBSET Notice, since : Time]

NoEntries == [n \in Name |-> Never]

\* The variables keep their types: memory and tokens hold well-formed entries under
\* their own names (SavedSearchEntry), whatever calls wrote them.
TypeOK ==
  /\ stateless \in BOOLEAN
  /\ stateless => memory = NoEntries
  /\ clock \in Time
  /\ published \in [Notice -> Time \cup {Never}]
  /\ memory \in Entries
  /\ held \in Entries
  /\ flight \in [Call -> Check \cup {Never}]
  /\ reported \subseteq Criteria \X Notice

Init ==
  /\ stateless \in BOOLEAN
  /\ clock = 0
  /\ published = [n \in Notice |-> Never]
  /\ memory = NoEntries
  /\ held = NoEntries
  /\ flight = [k \in Call |-> Never]
  /\ reported = {}

UtcDay(t) == t \div 2

\* cftIssueDate of a notice published at time t.
JstDay(t) == (t + 1) \div 2

\* Mutant of CheckedDay: lastCheckedAt as a Japanese date.
CheckedDayInJapan(t) == JstDay(t)

\* lastCheckedAt.slice(0, 10)
CheckedDay(t) == UtcDay(t)

\* upsertSavedSearch: dedupe of [next, ...entries] where the later entry of a
\* name wins, which is the one the token came with.
Upsert(entries, name, next) ==
  [entries EXCEPT ![name] = IF @ # Never THEN @ ELSE next]

\* savedSearches.set; nothing of it outlives the request in stateless HTTP.
Remember(name, next) ==
  IF stateless THEN memory ELSE [memory EXCEPT ![name] = next]

\* state_token is optional; decodeSavedSearchToken takes none for no entries.
StateTokens == {held, NoEntries}

\* The client gets the token of the answer, or the answer is lost or was cancelled.
Answer(token) == held' \in {held, token}

-----------------------------------------------------------------------------
\* save_search with or without the token the client holds.
SaveSearch(name, c, token) ==
  LET next == [criteria |-> c, lastCheckedAt |-> Never] IN
  /\ token \in StateTokens
  /\ memory' = Remember(name, next)
  /\ Answer(Upsert(token, name, next))
  /\ UNCHANGED <<stateless, clock, published, flight, reported>>

\* The notices a search with these conditions finds now.
Search(saved) ==
  {n \in Matches[saved.criteria] :
     /\ published[n] # Never
     /\ saved.lastCheckedAt # Never
          => JstDay(published[n]) >= CheckedDay(saved.lastCheckedAt)}

\* check_saved_search finds the entry, in the token first, and the search runs.
StartCheck(k, name, token) ==
  LET known == IF token[name] # Never THEN token[name] ELSE memory[name] IN
  /\ flight[k] = Never
  /\ token \in StateTokens
  /\ known # Never
  /\ flight' = [flight EXCEPT ![k] =
       [name |-> name, token |-> token, saved |-> known,
        found |-> Search(known), since |-> clock]]
  /\ UNCHANGED <<stateless, clock, published, memory, held, reported>>

\* result.bids.slice(0, 10), in whatever order KKJ ranked the notices.
FirstPages(found) ==
  {page \in SUBSET found :
     IF Cardinality(found) <= Page THEN page = found ELSE Cardinality(page) = Page}

\* The search returned: the entry read before the await is written back with the
\* time it is now, and the first ten notices are returned with a new token.
FinishCheck(k) ==
  LET check == flight[k]
      updated == [check.saved EXCEPT !.lastCheckedAt = clock] IN
  /\ check # Never
  /\ memory' = Remember(check.name, updated)
  /\ Answer(Upsert(check.token, check.name, updated))
  /\ \E page \in FirstPages(check.found) :
       reported' = reported \cup ({check.saved.criteria} \X page)
  /\ flight' = [flight EXCEPT ![k] = Never]
  /\ UNCHANGED <<stateless, clock, published>>

\* list_saved_searches without a token gives one of what the memory has; with tokens it
\* gives their entries back.
ListSavedSearches ==
  /\ memory # NoEntries
  /\ Answer(memory)
  /\ UNCHANGED <<stateless, clock, published, memory, flight, reported>>

\* The search failed: a tool error, and nothing is remembered.
FailCheck(k) ==
  /\ flight[k] # Never
  /\ flight' = [flight EXCEPT ![k] = Never]
  /\ UNCHANGED <<stateless, clock, published, memory, held, reported>>

\* KKJ publishes a notice, dated today in Japan.
Publish(n) ==
  /\ published[n] = Never
  /\ published' = [published EXCEPT ![n] = clock]
  /\ UNCHANGED <<stateless, clock, memory, held, flight, reported>>

\* A search, its retries and the ten minutes a cached result may be old take far
\* less than half a day, so a call in flight sees at most one step of the clock.
AdvanceClock ==
  /\ clock < MaxClock
  /\ \A k \in Call : flight[k] # Never => flight[k].since = clock
  /\ clock' = clock + 1
  /\ UNCHANGED <<stateless, published, memory, held, flight, reported>>

Next ==
  \/ \E name \in Name, c \in Criteria : \E token \in StateTokens :
       SaveSearch(name, c, token)
  \/ \E k \in Call, name \in Name : \E token \in StateTokens :
       StartCheck(k, name, token)
  \/ \E k \in Call : FinishCheck(k)
  \/ \E k \in Call : FailCheck(k)
  \/ ListSavedSearches
  \/ \E n \in Notice : Publish(n)
  \/ AdvanceClock

Spec == Init /\ [][Next]_vars

-----------------------------------------------------------------------------
(* Properties *)

KnownEntries == {entries[n] : entries \in {memory, held}, n \in Name} \ {Never}

\* Whatever checks ran, overlapped or failed, an entry never says it was checked
\* past a matching notice that no check answered with: the next check, which asks from
\* the UTC date of lastCheckedAt (saved-search-alert.ts:185), skips nothing. Only
\* for conditions that never match more than a check returns
\* (saved-search-alert.ts:196): the rest of a longer result is skipped.
NothingSkipped ==
  \A e \in KnownEntries :
    e.lastCheckedAt # Never /\ Cardinality(Matches[e.criteria]) <= Page =>
    \A n \in Matches[e.criteria] :
      /\ published[n] # Never
      /\ JstDay(published[n]) < CheckedDay(e.lastCheckedAt)
      => <<e.criteria, n>> \in reported
=============================================================================
