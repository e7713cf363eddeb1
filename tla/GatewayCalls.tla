---------------------------- MODULE GatewayCalls ----------------------------
(***************************************************************************)
(* The gateway's way to a child MCP server (gateway/src): the mode filter,   *)
(* the policy engine with its rate limit and approval tokens, the TTL cache  *)
(* of tool results and the proxied call.                                     *)
(*                                                                         *)
(* An operation of Op stands for a tool of a child server with arguments.    *)
(* Everything a handler does before it awaits the child is one step. Time    *)
(* is relative: every deadline is a countdown that Tick lowers, and a        *)
(* deadline the code still accepts at its last instant starts at one more.   *)
(***************************************************************************)
EXTENDS Naturals, Sequences, FiniteSets, TLC

CONSTANTS
  Op, Server,
  ServerOf,         \* [Op -> Server]
  KeyOf,            \* [Op -> Key]: what buildCacheKey makes of an operation
  Financial,        \* servers with risk_level "financial"
  CacheTTL,         \* [Server -> Nat]: cache_ttl_seconds, 0 when unset
  Listed,           \* operations whose tool the server's allowlist lets through
  NeedsApproval,    \* operations whose policy has required_approval
  NeedsDeclaration, \* operations whose policy has a compliance_check
  PublicSearch,     \* what search_public_opportunities and analyze_funding_fit ask for
  AccountRead,      \* what analyze_funding_fit asks freee for
  Call,             \* slots of child calls under way
  Approval,         \* approval tokens
  Window,           \* the second of the rate limit
  ApprovalTTL,      \* life of an approval token
  Timeout,          \* AbortSignal.timeout of a child call
  MaxEntries,       \* entries of the cache
  None

ASSUME OpAssumption ==
  /\ ServerOf \in [Op -> Server]
  /\ CacheTTL \in [Server -> Nat]
  /\ Financial \subseteq Server
  /\ \A S \in {Listed, NeedsApproval, NeedsDeclaration, PublicSearch, AccountRead} : S \subseteq Op
  /\ \A o \in Op, p \in Op : KeyOf[o] = KeyOf[p] => ServerOf[o] = ServerOf[p]
ASSUME RegistryAssumption ==
  /\ \A o \in NeedsApproval : ServerOf[o] \in Financial
  /\ \A o \in PublicSearch : ServerOf[o] \notin Financial
ASSUME BoundsAssumption ==
  /\ {Window, ApprovalTTL, MaxEntries} \subseteq Nat \ {0}
  /\ Timeout \in Nat
  /\ None \notin Op \cup Approval

VARIABLES
  cache,     \* the Map of tool-cache.ts in insertion order
  recent,    \* [Server -> time until the newest admitted request leaves the window]
  approvals, \* [Approval -> an issued token, or None]
  flight,    \* [Call -> a child call or its reply, or None]
  quiet,     \* history: time since the gateway last called a server, up to Window
  issuedAgo  \* history: time since an approval of an operation was last issued

vars == <<cache, recent, approvals, flight, quiet, issuedAgo>>

NeverIssued == ApprovalTTL + 1

Entry == [key : {KeyOf[o] : o \in Op}, op : Op, age : Nat, left : Nat]
Token == [op : Op, left : 0..(ApprovalTTL + 1)]
Fetch == [stage : {"fetch"}, op : Op, age : 0..Timeout, issued : 0..NeverIssued]
Reply == [stage : {"reply"}, op : Op, outcome : {"ok", "error", "refused"},
          ran : Op \cup {None}, age : Nat, hit : BOOLEAN]

(* The variables keep their types; no cache key has two entries and the cache *)
(* never grows past its limit (tool-cache.ts:60-71).                        *)
TypeOK ==
  /\ cache \in Seq(Entry)
  /\ Len(cache) <= MaxEntries
  /\ \A i, j \in DOMAIN cache : cache[i].key = cache[j].key => i = j
  /\ recent \in [Server -> 0..Window]
  /\ approvals \in [Approval -> Token \cup {None}]
  /\ flight \in [Call -> Fetch \cup Reply \cup {None}]
  /\ quiet \in [Server -> 0..Window]
  /\ issuedAgo \in [Op -> 0..NeverIssued]

Init ==
  /\ cache = <<>>
  /\ recent = [s \in Server |-> 0]
  /\ approvals = [a \in Approval |-> None]
  /\ flight = [k \in Call |-> None]
  /\ quiet = [s \in Server |-> Window]
  /\ issuedAgo = [o \in Op |-> NeverIssued]

-----------------------------------------------------------------------------
(* tool-cache.ts *)

Keyed(key) == {i \in DOMAIN cache : cache[i].key = key}
\* delete: a key has one entry at most.
Without(key) ==
  IF Keyed(key) = {} THEN cache
  ELSE LET i == CHOOSE i \in Keyed(key) : TRUE IN
       SubSeq(cache, 1, i - 1) \o SubSeq(cache, i + 1, Len(cache))

\* Mutant of Usable: the expiry of an entry is not looked at.
UsableForever(e) == e.left \in Nat

(* get: an entry is good until its expiresAt, that instant included.         *)
Usable(e) == e.left > 0

(* set: a full cache drops its oldest entry, even when the key is there; a   *)
(* key that is still there keeps its place.                                  *)
Put(entry) ==
  LET room == IF Len(cache) >= MaxEntries THEN Tail(cache) ELSE cache
      at   == {i \in DOMAIN room : room[i].key = entry.key}
  IN  IF at = {} THEN Append(room, entry)
      ELSE [i \in DOMAIN room |-> IF i \in at THEN entry ELSE room[i]]

\* Mutant of Cacheable: the risk level is not looked at.
CacheableWithTTL(o) == CacheTTL[ServerOf[o]] > 0

(* isCacheable: bypassCache is never passed.                                 *)
Cacheable(o) ==
  /\ CacheTTL[ServerOf[o]] > 0
  /\ ServerOf[o] \notin Financial

-----------------------------------------------------------------------------
(* proxyToolCall *)

Answer(o, outcome, ran, age, hit) ==
  [stage |-> "reply", op |-> o, outcome |-> outcome, ran |-> ran, age |-> age,
   hit |-> hit]

Refused(o) == Answer(o, "refused", None, 0, FALSE)

StartFetch(k, o) ==
  /\ flight' = [flight EXCEPT ![k] =
       [stage |-> "fetch", op |-> o, age |-> 0, issued |-> issuedAgo[o]]]
  /\ quiet' = [quiet EXCEPT ![ServerOf[o]] = 0]

(* A usable entry answers at once, an expired one is deleted, and without one *)
(* the child is asked.                                                       *)
Proxy(k, o) ==
  LET usable == {i \in Keyed(KeyOf[o]) : Usable(cache[i])} IN
  \/ /\ Cacheable(o)
     /\ \E i \in usable :
          flight' = [flight EXCEPT ![k] =
            Answer(o, "ok", cache[i].op, cache[i].age, TRUE)]
     /\ UNCHANGED <<cache, quiet>>
  \/ /\ Cacheable(o)
     /\ usable = {}
     /\ cache' = Without(KeyOf[o])
     /\ StartFetch(k, o)
  \/ /\ ~Cacheable(o)
     /\ StartFetch(k, o)
     /\ UNCHANGED cache

(* The child answered in time. Its answer, an error it reports included, is  *)
(* cached for the TTL from now on.                                           *)
FetchAnswered(k) ==
  /\ flight[k] # None /\ flight[k].stage = "fetch"
  /\ LET o == flight[k].op IN
     /\ cache' = IF Cacheable(o)
                 THEN Put([key |-> KeyOf[o], op |-> o, age |-> flight[k].age,
                           left |-> CacheTTL[ServerOf[o]] + 1])
                 ELSE cache
     /\ flight' = [flight EXCEPT ![k] = Answer(o, "ok", o, flight[k].age, FALSE)]
  /\ UNCHANGED <<recent, approvals, quiet, issuedAgo>>

(* No connection, a status that is not ok, a bad body, or the timeout.       *)
FetchFailed(k) ==
  /\ flight[k] # None /\ flight[k].stage = "fetch"
  /\ flight' = [flight EXCEPT ![k] =
       Answer(flight[k].op, "error", None, 0, FALSE)]
  /\ UNCHANGED <<cache, recent, approvals, quiet, issuedAgo>>

-----------------------------------------------------------------------------
(* policy-engine.ts and approval-token.ts *)

(* A financial server takes OAuth, or the caller's own token for the child,   *)
(* and the pro tier.                                                         *)
Entitled(o, oauth, tier) ==
  ServerOf[o] \in Financial => oauth /\ tier = "pro"

\* Mutant of Verified: the arguments are not looked at.
VerifiedForAny(a, o) ==
  a # None /\ approvals[a] # None /\ approvals[a].left > 0

(* verify: not expired, and issued for this server, tool and arguments.      *)
Verified(a, o) ==
  /\ a # None /\ approvals[a] # None
  /\ approvals[a].left > 0
  /\ approvals[a].op = o

ToolPolicyMet(o, a, declared) ==
  /\ o \in NeedsApproval => Verified(a, o)
  /\ o \in NeedsDeclaration => declared

(* evaluate, and what its caller does with the decision. A request within    *)
(* the window is refused and not counted; one the tool's policy refuses has  *)
(* been counted.                                                             *)
Evaluate(k, o, oauth, tier, a, declared) ==
  \/ /\ ~Entitled(o, oauth, tier) \/ o \notin Listed \/ recent[ServerOf[o]] > 0
     /\ flight' = [flight EXCEPT ![k] = Refused(o)]
     /\ UNCHANGED <<cache, recent, approvals, quiet>>
  \/ /\ Entitled(o, oauth, tier) /\ o \in Listed /\ recent[ServerOf[o]] = 0
     /\ recent' = [recent EXCEPT ![ServerOf[o]] = Window]
     /\ IF ToolPolicyMet(o, a, declared)
        THEN Proxy(k, o)
        ELSE /\ flight' = [flight EXCEPT ![k] = Refused(o)]
             /\ UNCHANGED <<cache, quiet>>
     /\ UNCHANGED approvals

-----------------------------------------------------------------------------
(* The tools *)

(* issue_approval_token, for the pro tier and the tools that need one.       *)
IssueApproval(a, o) ==
  /\ o \in NeedsApproval
  /\ approvals' = [approvals EXCEPT ![a] = [op |-> o, left |-> ApprovalTTL + 1]]
  /\ issuedAgo' = [issuedAgo EXCEPT ![o] = 0]
  /\ UNCHANGED <<cache, recent, flight, quiet>>

(* call_registered_mcp: the mode hides the tool, or the policy decides.      *)
CallRegistered(k, o) ==
  /\ flight[k] = None
  /\ \/ /\ flight' = [flight EXCEPT ![k] = Refused(o)]
        /\ UNCHANGED <<cache, recent, approvals, quiet>>
     \/ \E oauth \in BOOLEAN, tier \in {"free", "pro"}, declared \in BOOLEAN,
           a \in Approval \cup {None} : Evaluate(k, o, oauth, tier, a, declared)
  /\ UNCHANGED issuedAgo

(* search_public_opportunities, and the public part of analyze_funding_fit,   *)
(* call the proxy without the policy engine. The child calls of one tool run *)
(* in parallel and fail one by one; each is a call here.                     *)
SearchPublic(k, o) ==
  /\ flight[k] = None
  /\ o \in PublicSearch
  /\ Proxy(k, o)
  /\ UNCHANGED <<recent, approvals, issuedAgo>>

\* Mutant of ReadAccount: the account is read the way the public sources are.
ReadAccountFreely(k, o) ==
  /\ flight[k] = None
  /\ o \in AccountRead
  /\ Proxy(k, o)
  /\ UNCHANGED <<recent, approvals, issuedAgo>>

(* analyze_funding_fit reads the account with the caller's token.            *)
ReadAccount(k, o) ==
  /\ flight[k] = None
  /\ o \in AccountRead
  /\ \E tier \in {"free", "pro"} : Evaluate(k, o, TRUE, tier, None, FALSE)
  /\ UNCHANGED issuedAgo

(* The response leaves.                                                      *)
Respond(k) ==
  /\ flight[k] # None /\ flight[k].stage = "reply"
  /\ flight' = [flight EXCEPT ![k] = None]
  /\ UNCHANGED <<cache, recent, approvals, quiet, issuedAgo>>

Less(n) == IF n > 0 THEN n - 1 ELSE 0
More(n, top) == IF n < top THEN n + 1 ELSE top

(* Time passes, up to the timeout of every call under way; a reply is made   *)
(* and sent in no time.                                                      *)
Tick ==
  /\ \A k \in Call : flight[k] # None =>
       flight[k].stage = "fetch" /\ flight[k].age < Timeout
  /\ cache' = [i \in DOMAIN cache |->
       [cache[i] EXCEPT !.age = IF cache[i].left > 0 THEN @ + 1 ELSE @,
                        !.left = Less(@)]]
  /\ recent' = [s \in Server |-> Less(recent[s])]
  /\ approvals' = [a \in Approval |->
       IF approvals[a] = None THEN None
       ELSE [approvals[a] EXCEPT !.left = Less(@)]]
  /\ flight' = [k \in Call |->
       IF flight[k] = None THEN None ELSE [flight[k] EXCEPT !.age = @ + 1]]
  /\ quiet' = [s \in Server |-> More(quiet[s], Window)]
  /\ issuedAgo' = [o \in Op |-> More(issuedAgo[o], NeverIssued)]

(* A new Cloud Run instance: the cache, the rate limit and the audit buffer   *)
(* start empty; approval tokens are signed and stay good.                    *)
Restart ==
  /\ cache' = <<>>
  /\ recent' = [s \in Server |-> 0]
  /\ flight' = [k \in Call |-> None]
  /\ quiet' = [s \in Server |-> Window]
  /\ UNCHANGED <<approvals, issuedAgo>>

Next ==
  \/ \E a \in Approval, o \in Op : IssueApproval(a, o)
  \/ \E k \in Call, o \in Op :
       CallRegistered(k, o) \/ SearchPublic(k, o) \/ ReadAccount(k, o)
  \/ \E k \in Call : FetchAnswered(k) \/ FetchFailed(k) \/ Respond(k)
  \/ Tick
  \/ Restart

Spec == Init /\ [][Next]_vars

-----------------------------------------------------------------------------
(* Properties *)

(* An answer was computed by the child no longer ago than the TTL of its     *)
(* server plus one child call, also when a slow call stores its older answer *)
(* over a newer one (mcp-proxy.ts:45-62).                                    *)
AnswersFresh ==
  \A k \in Call :
    flight[k] # None /\ flight[k].stage = "reply" /\ flight[k].outcome = "ok"
    => flight[k].age <= CacheTTL[ServerOf[flight[k].op]] + Timeout

(* A tool that needs approval reaches the child only when an approval of the  *)
(* very operation was issued within the approval's life, whichever tool calls *)
(* the proxy (policy-engine.ts:112-131).                                     *)
WritesApproved ==
  \A k \in Call :
    flight[k] # None /\ flight[k].stage = "fetch" /\ flight[k].op \in NeedsApproval
    => flight[k].issued <= ApprovalTTL

(* "Financial data is never cached" (docs/adr/0018-cache-strategy.md:23): an  *)
(* answer of a financial server comes from the call it answers, so that an    *)
(* approved write is really executed again.                                  *)
FinancialNeverCached ==
  \A k \in Call :
    flight[k] # None /\ flight[k].stage = "reply"
    /\ ServerOf[flight[k].op] \in Financial => ~flight[k].hit

PacedStep(s) ==
  \A k \in Call :
    /\ flight[k] = None
    /\ flight'[k] # None /\ flight'[k].stage = "fetch"
    /\ ServerOf[flight'[k].op] = s
    => quiet[s] >= Window

(* One instance calls a financial server at most once per window, over all    *)
(* the tools that reach it (policy-engine.ts:97-102).                        *)
FinancialPaced == [][\A s \in Financial : PacedStep(s)]_vars

(* The cache key "guarantees that the arguments match exactly"               *)
(* (docs/adr/0018-cache-strategy.md:57).                                     *)
AnswersTheArguments ==
  \A k \in Call :
    flight[k] # None /\ flight[k].stage = "reply" /\ flight[k].outcome = "ok"
    => flight[k].ran = flight[k].op
=============================================================================
