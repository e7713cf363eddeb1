------------------------------ MODULE WatchList ------------------------------
(***************************************************************************)
(* watch_listed_awards (src/src/tools/watch-listed-awards.ts): a watch list  *)
(* of listed companies whose notices are reported once each.                *)
(*                                                                         *)
(* A watch remembers the keys of the notices it has reported (seenKeys). It  *)
(* lives in the memory of one server (stdio) and in the state token every    *)
(* call returns (stateless HTTP). The handler reads both before it awaits    *)
(* client.search or the company catalog, and writes the watch it read back.  *)
(* KKJ answers with any part of what it has on a query: the client caps and  *)
(* caches answers. The code and the timestamps of a watch are left out.      *)
(***************************************************************************)
CONSTANTS
  Name, Query, Notice,  \* names of watches, company queries, KKJ notices
  Call,                 \* calls in flight
  Matches,              \* [Query -> SUBSET Notice]: what KKJ has on a query
  Transports,           \* the transports considered, "stdio" and "http"
  Idle                  \* `no call in flight`, and no watch of a name

ASSUME MatchesAssumption == Matches \in [Query -> SUBSET Notice]
ASSUME TransportsAssumption == Transports \subseteq {"stdio", "http"}

VARIABLES
  transport, \* how the client reaches the server: with "http", one per request
  memory,    \* the server's watches: a Map, Idle where it has none
  held,      \* the watches in the newest state token the client received
  flight,    \* [Call -> a save or a check that awaits, or Idle]
  reported,  \* history: the <<query, notice>> pairs answers have reported; over
             \* HTTP the answers the client received
  told,      \* history: what each name reported since the client last saved it
  overlapped, \* history: two calls were under way at one time
  repeated   \* history: before that, a check reported a notice in told again

vars == <<transport, memory, held, flight, reported, told, overlapped, repeated>>

Stateless == transport = "http"

Watch == [query : Query, seen : SUBSET Notice]
Watches == [Name -> Watch \cup {Idle}]
Save == [action : {"save"}, name : Name, query : Query, entries : Watches]
Check == [action : {"check"}, name : Name, entries : Watches]

(* The variables keep their types; the watches of the memory and of a token  *)
(* stay well-formed WatchEntry records under their own names.                *)
TypeOK ==
  /\ transport \in Transports
  /\ memory \in Watches
  /\ held \in Watches
  /\ flight \in [Call -> Save \cup Check \cup {Idle}]
  /\ reported \subseteq Query \X Notice
  /\ told \in [Name -> SUBSET Notice]
  /\ {overlapped, repeated} \subseteq BOOLEAN

NoWatches == [n \in Name |-> Idle]

Init ==
  /\ transport \in Transports
  /\ memory = NoWatches
  /\ held = NoWatches
  /\ flight = [k \in Call |-> Idle]
  /\ reported = {}
  /\ told = [n \in Name |-> {}]
  /\ overlapped = FALSE
  /\ repeated = FALSE

(* mergeEntries: the memory's entry wins over the token's.                   *)
MergeEntries(token, mem) ==
  [n \in Name |-> IF mem[n] # Idle THEN mem[n] ELSE token[n]]

(* upsert: the new entry wins over the one of its name.                      *)
Upsert(entries, n, watch) == [entries EXCEPT ![n] = watch]

(* memory.set; a stateless server does not outlive its request.              *)
Remember(n, watch) ==
  memory' = IF Stateless THEN NoWatches ELSE [memory EXCEPT ![n] = watch]

\* What the history keeps of a call that starts.
Overlap(k) ==
  IF \A other \in Call : flight[other] = Idle
  THEN UNCHANGED <<overlapped, told>>
  ELSE overlapped' = TRUE /\ told' = [n \in Name |-> {}]

(* A call decodes the token the client sends (the newest, or none), merges   *)
(* the memory in, and awaits: save the company catalog, check the search.     *)
StartSave(k, n, q) ==
  /\ flight[k] = Idle
  /\ \E token \in {NoWatches, held} :
       flight' = [flight EXCEPT ![k] =
         [action |-> "save", name |-> n, query |-> q,
          entries |-> MergeEntries(token, memory)]]
  /\ Overlap(k)
  /\ UNCHANGED <<transport, memory, held, reported, repeated>>

StartCheck(k, n) ==
  /\ flight[k] = Idle
  /\ \E token \in {NoWatches, held} :
       LET entries == MergeEntries(token, memory) IN
       /\ entries[n] # Idle
       /\ flight' = [flight EXCEPT ![k] =
            [action |-> "check", name |-> n, entries |-> entries]]
  /\ Overlap(k)
  /\ UNCHANGED <<transport, memory, held, reported, repeated>>

(* list answers at once, with a token of the merged watches.                 *)
List ==
  /\ \E token \in {NoWatches, held} : held' = MergeEntries(token, memory)
  /\ UNCHANGED <<transport, memory, flight, reported, told, overlapped, repeated>>

(* The handler writes before it answers, and the answer need not arrive: a     *)
(* response over HTTP may be lost, and the SDK drops the answer to a call that *)
(* the client cancelled or gave up waiting for, also on stdio.                *)
FinishSave(k) ==
  /\ flight[k] # Idle /\ flight[k].action = "save"
  /\ LET n     == flight[k].name
         saved == [query |-> flight[k].query, seen |-> {}] IN
     /\ Remember(n, saved)
     /\ \E arrives \in BOOLEAN :
          /\ held' = IF arrives THEN Upsert(flight[k].entries, n, saved) ELSE held
          /\ told' = IF arrives \/ ~Stateless THEN [told EXCEPT ![n] = {}] ELSE told
  /\ flight' = [flight EXCEPT ![k] = Idle]
  /\ UNCHANGED <<transport, reported, overlapped, repeated>>

\* Mutants of Updated: only the keys of the last answer are kept; the watch is
\* read anew after the search.
SeenReplaced(c, found) == [c.entries[c.name] EXCEPT !.seen = found]
OnNewestWatch(c, found) ==
  LET w == IF memory[c.name] # Idle THEN memory[c.name]
           ELSE c.entries[c.name]
  IN  [w EXCEPT !.seen = @ \cup found]
(* The watch a check writes back: the one it read before it awaited, with    *)
(* the keys it found added.                                                  *)
Updated(c, found) == [c.entries[c.name] EXCEPT !.seen = @ \cup found]

(* The notices a check reports.                                              *)
NewNotices(c, found) == found \ c.entries[c.name].seen

FinishCheck(k) ==
  /\ flight[k] # Idle /\ flight[k].action = "check"
  /\ LET c == flight[k]
         q == c.entries[c.name].query IN
     \E found \in SUBSET Matches[q], arrives \in BOOLEAN :
       LET new == NewNotices(c, found) IN
       /\ Remember(c.name, Updated(c, found))
       /\ reported' = IF arrives \/ ~Stateless THEN reported \cup {q} \X new
                      ELSE reported
       /\ IF arrives
          THEN /\ held' = Upsert(c.entries, c.name, Updated(c, found))
               /\ told' = IF overlapped THEN told
                          ELSE [told EXCEPT ![c.name] = @ \cup new]
               /\ repeated' = (repeated \/ told[c.name] \cap new # {})
          ELSE UNCHANGED <<held, told, repeated>>
  /\ flight' = [flight EXCEPT ![k] = Idle]
  /\ UNCHANGED <<transport, overlapped>>

(* The awaited call throws: the handler answers an error, nothing changes.   *)
Fail(k) ==
  /\ flight[k] # Idle
  /\ flight' = [flight EXCEPT ![k] = Idle]
  /\ UNCHANGED <<transport, memory, held, reported, told, overlapped, repeated>>

(* The stdio server restarts: its memory and the calls in flight are gone.   *)
Restart ==
  /\ ~Stateless
  /\ memory' = NoWatches
  /\ flight' = [k \in Call |-> Idle]
  /\ UNCHANGED <<transport, held, reported, told, overlapped, repeated>>

Next ==
  \/ \E k \in Call, n \in Name, q \in Query : StartSave(k, n, q)
  \/ \E k \in Call, n \in Name : StartCheck(k, n)
  \/ \E k \in Call : FinishSave(k) \/ FinishCheck(k) \/ Fail(k)
  \/ List
  \/ Restart

Spec == Init /\ [][Next]_vars

-----------------------------------------------------------------------------
(* A notice a watch marks as seen, in the memory or in the token the client  *)
(* holds, was reported by an answer, for the query of that watch: however     *)
(* calls overlap, fail or follow a restart, and whatever the watch was saved  *)
(* to meanwhile. Over HTTP the client has had that answer; on stdio it may     *)
(* have cancelled the check, which marks all the same                        *)
(* (watch-listed-awards.ts:114-122).                                        *)
SeenWasReported ==
  \A watches \in {memory, held}, n \in Name : watches[n] # Idle =>
    {watches[n].query} \X watches[n].seen \subseteq reported

(* A client that makes one call at a time is told of a notice at most once   *)
(* until it saves the watch anew, whether the server keeps its memory,       *)
(* restarts, or knows the watch from the token only, and whichever answers the *)
(* client does not get.                                                      *)
ReportedOnce == ~repeated
=============================================================================
