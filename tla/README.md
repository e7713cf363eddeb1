# JP Bids MCP: TLA+ models and proofs

Models of this repository: the JP Bids MCP server (`src/src`) with its MCP Apps, and
the public MCP gateway (`src/gateway/src`). They are checked with TLC on small
instances; parts are also proved with TLAPS for every instance (section 5).

    tlc -workers 2 -config OAuthTokens.cfg MCOAuthTokens     # a run
    tlapm OAuthTokens_proofs.tla                             # proofs

`PROJECT.json` lists the runs, the source lines of every definition, a mutant of the
code for every checked property, the hazards, the findings and the theorems.

## 1. Inventory

Both programs are single-threaded Node.js: a handler runs without interruption from
one `await` to the next. Concurrency comes from overlapping requests or tool calls,
from timers, from several Cloud Run instances on one Firestore, from hosts that send
events to a view, and from clients that retry.

| Component | State | Operations | Hard behaviour | Correct when |
|---|---|---|---|---|
| OAuth tokens (`oauth/store.ts`, `router.ts`, `jwt.ts`) | clients, codes, refresh tokens, families in Firestore or a Map; signed tokens outside | register, authorize, code grant, refresh grant | two requests with one grant, dying between consume and store, replay, expiry, restart | a grant mints once, a login has one live token, reuse ends the login and only reuse does |
| Saved searches (`tools/saved-search-alert.ts`) | a Map per server; a signed state token at the client | `save_search`, `check_saved_search`, `list_saved_searches` | an `await` between read and write back, a token older than the memory, UTC against Japanese dates | the next check skips no notice |
| Watch list (`tools/watch-listed-awards.ts`) | a Map per server; a signed state token | save, check, list | the same, lost responses and cancelled calls | no notice is marked as seen unreported, none is reported twice |
| KKJ client (`api/kkj-client.ts`, `lib/rate-limiter.ts`) | limiter slot, LRU cache, recent bids; shared by every request of the HTTP server | `search`, completion | queueing, late timers, timeouts, retries, old answers after new ones | requests are spaced, results fresh, searches end |
| Search and bid tools (`tools/`, `domain/`) | none of their own | 15 tools over the KKJ client: search, rank, qualify, calendar, questions, packet, past awards, listed companies | dates in several forms or none, UTC days for Japanese deadlines, thresholds, cuts, notices amended or withdrawn between calls | a recommendation is monotone in what is known, tools agree with one another, counts cover the notices they rest on |
| Document extraction (`pdf-fetcher.ts`, `document-extraction.ts`, `vertex-gemini-client.ts`, `sampling-extractor.ts`, `billing.ts`) | the daily budget of Vertex | fetch, meter, read | redirects, one document failing, bodies that stall, midnight, restart | the budget holds, only admitted documents are read, one extraction is metered, calls end |
| J-Quants client (`jquants-client.ts`) | id token and cache per key | catalogue, bars, price impact | several keys, revoked tokens, retries, unordered bars | keys stay apart, prices are the latest, calls end |
| HTTP servers (`transports/http.ts`, `gateway/src/server.ts`, `get-audit-events.ts`) | open requests, signing secret, audit buffer | `POST /mcp` | keys that look like tokens, expiry, the end of a beta, restart with a new secret | Pro tools serve Pro, key holders get in, stale tokens do not |
| Gateway calls (`gateway/src` proxy, policy, approval, cache, filter) | Map cache, request times per server; signed approval tokens outside | `call_registered_mcp`, `search_public_opportunities`, `analyze_funding_fit`, `issue_approval_token` | overlapping misses, several tools on one server, expiry, restart | writes are approved, financial answers never cached, calls paced, answers fresh |
| MCP Apps (`apps/search-results.tsx`, `investor-radar.tsx`, their view models) | React state of one view | host events, searches from the form, selection, buttons | results that cross, cancelled and unreadable results, refused or lost requests, a view left open | one result on show, the form unlocks, messages are true |
| Router, registry, prompts, resources, jobs, scripts | none that matters | advise, format, post once | none | not modelled (section 6) |

**Interaction.** `transports/http.ts` makes an MCP server per request around one
shared `KkjClient`; stdio has one server for the process's life. So memories of saved
searches and watches live for one request over HTTP (only the state token persists)
and for the process over stdio: `stateless` in `SavedSearches`, `transport` in
`WatchList`. `BidTools` takes a search as one step over the portal's notices, which
`KkjClient` justifies as far as it ends; that equal searches of ten minutes share one
result is in `KkjClient` only. `DocumentExtraction` is what the tools do with `fetch_documents`; what it finds
is an input of `BidTools` (`Extractions`). `JquantsClient` gives the investor tools the
catalogue that `BidTools` merges (`Remote`). The view models of `Workspace` read notices
with the operators of `BidRules`, so that cards and rankings are compared on the same
dates. `/mcp` accepts an access token by its signature alone, without the OAuth store:
`HttpServers` has the signed tokens, `OAuthTokens` the store. The gateway calls child
servers, one of which is JP Bids, over HTTP; its only shared state with them is the
answers it caches.

## 2. Modules

| Module | Models | Correspondence |
|---|---|---|
| `OneTimeGrants` | what `docs/oauth.md` promises of codes and refresh tokens | `open`, `closed`, `source`: opened once, redeemed for one token, never again |
| `OAuthTokens` | store, handlers, signed tokens | `status`/`ttl`/`family`/`compromised` are the documents, `jwt`/`access` what was sent, `pc`/`uses`/`makes`/`acc` a request between two awaits; one action per store call or stretch between two |
| `FreshCache` | what a cache of answers promises its readers (`docs/adr/0018-cache-strategy.md`) | `held` is what the cache would answer now, with its age: learnt, aged, forgotten; both caches implement it |
| `SavedSearches` | three tools and their tokens | `memory`, the newest token `held` by the client, `flight` for a check that awaits; a call with no await is one step |
| `WatchList` | one tool, three actions | the same, with the seen keys of a watch |
| `KkjClient` | cache, limiter, retry loop | `backlog` is `nextAvailableAt - now`; `flight` has the stage (waiting, fetching, sleeping) and the timer of each search |
| `BidRules` | the functions over one notice or a ranking: `bid-ranking`, `bid-qualification`, `bid-calendar`, `bid-questions`, `bid-requirements`, `date-range` | operators; no state |
| `BidStatistics` | the functions over a result: cap, past awards, listed companies, the merged catalogue | operators; no state |
| `BidTools` | every search and bid tool | `portal` is KKJ, `known` the notices `getCachedBid` looks through with the half day they are from, `call` a call that awaits its documents, `answer` the structured content of the last call; one action per tool, and `TakeNotice` up to the await |
| `DocumentExtraction` | fetcher, budget, models, meter | `call` has each document's stage and redirects; `spend`/`budgetDay` are the counters of `reserveBudget` |
| `JquantsClient` | tokens, cache, retries, prices | `idTokens`, `cache` by caller's key, item and day (`CachePlace` is `cacheKey`), `flight` a request under way |
| `HttpServers` | the two `POST /mcp` | `open` a request whose tool runs, with the secret that let it in, `tokens` and `secret` the signatures, `audit` the buffer |
| `GatewayCalls` | cache, policy, approvals, proxy | `cache` in insertion order, `recent` the rate-limit window, `approvals` issued tokens, `flight` a child call or its reply |
| `Workspace` | both MCP Apps in a host | the variables are the `useState` cells; `asked` the searches in flight, `act` a button whose promise is pending |
| `MC...` | instances for TLC | values of the function constants, symmetry of slots and ids |
| `..._proofs` | theorems | section 5 |

`HttpServers` and `Workspace` prefix the names that other modules have too (`HttpInit`,
`ViewSpec`), so that one module of proofs can extend `OAuthTokens` and `HttpServers`,
another `BidTools` and `Workspace`.

**Abstractions.** Ids, names, conditions, notices and operations are model values. A
deadline is what is left of it, so that time needs no bound in the OAuth, KKJ, J-Quants
and gateway modules and the code's comparisons are exact: a test that passes at the very
instant of the deadline starts at one more. Payload texts, formatting and logging are
left out. Variables marked `history` are read by properties only.
In `OAuthTokens`, a bearer token that was sent may be presented by anyone, any number
of times; the check results that depend on what else a request carries (PKCE,
redirect URI, client, issuer) are one boolean. The Firestore operations are
transactions, the memory ones synchronous, so each is one action. In `SavedSearches`
a token client uses its newest token or none. There and in `WatchList` an answer may not
reach the client on either transport: a response is lost, or the SDK drops the answer to
a call that was cancelled or timed out, after the handler has written its memory. In
`WatchList` a KKJ answer is any part of the matching notices. In `GatewayCalls` an operation is a tool with its
arguments, `KeyOf` says which operations share a cache key, and the model is of one
instance, whose `Restart` loses memory; approval tokens survive it. In `KkjClient` a
timer fires up to `Late` ticks after it is due. In `BidRules` a date is a day and the
form its text has, of which the parser reads three; a notice's words are the keywords
it contains, and `names` the company names its text contains, with every name that is
part of another. Lists whose order no property sees are sets
(what is missing from a notice, its questions, its calendar), and a sort into an order that
fixes one list is that list (`Sortings`, `InOrder`, `Distinct`, `ByCount`). In `BidTools` time goes by half days, because Japan is half a day
(nine hours) ahead of the UTC days the code counts in. The ten minutes of a cached
result lie in one half day or cross into the next, so what is cached may be found in
both (`Usable`), in several versions of one key, or be searched for anew at any time. A call that
awaits `enrichWithDocumentExtraction` (`call`) keeps its notice while notices change,
days pass and searches are answered; one call awaits documents at a time, because calls
share nothing else. A search that the client answers from its cache is not told apart
from one that KKJ answers. In `DocumentExtraction` an
address check is a fact of a URI (`Public`), and money is counted in calls. In
`HttpServers` a credential is what the header looks like and whose it is; the rate
limiter of the OAuth routes is not part of `POST /mcp`. In `Workspace` a host's
events and a promise's settling are actions, and a React render is the state.

## 3. Runs

| Run | Question | Result |
|---|---|---|
| `oauth` | two logins of a client, three refresh tokens, two requests, every failure and expiry, restarts of the memory store | safety of the token endpoint holds; it implements `OneTimeGrants` |
| `oauth_live` | does reuse detection end a session? | yes, access tokens included, once they expire |
| `saved_searches` | stdio and stateless HTTP, two overlapping checks, lost answers, a day and a half | no notice is skipped for conditions that find no more than a check returns |
| `watch_list` | both transports, two watches, two overlapping calls, restarts, lost and cancelled answers | no notice is marked seen that no answer reported, over HTTP none that the client has not had; one call at a time tells each once |
| `kkj_client` | two searches, retries, late timers, one cached result | spacing, completion and the limiter's queue are right; the cache implements `FreshCache`; every search ends |
| `bid_tools` | every tool over one notice that varies field by field and two that stay, amended and withdrawn, in both halves of the UTC day | overdue only after the Japanese day, an approaching deadline never helps, a better profile never hurts, calendar, questions and packet agree, no date is lost silently but an unreadable one, top issuers and companies rest on their notices, over HTTP a call takes no notice that left the portal before the last half day |
| `documents` | two overlapping extractions, redirects, timeouts, a budget of one call, midnight, a restart | the budget and the admission of hosts hold; one document suffices and is metered once; calls end unless a body or Vertex stalls |
| `jquants` | two overlapping calls, two keys, retries, a key or its tokens withdrawn | keys stay apart, prices are the latest, refusals end with the token |
| `http_servers` | every credential at both servers, across expiry, the betas' ends and a restart | Pro tools serve Pro; key holders are never sent to sign in; a token is honoured only in time and with the secret of that moment, not with one from before a restart |
| `workspace` | both apps in two kinds of host, three searches that cross, buttons refused or lost | the form is locked only for a cause, the user's searches come in order, cards agree with the ranking, nothing is claimed that was not done (exemptions below) |
| `gateway_calls` | two calls of all tools to a public and a financial server, approvals, restarts | answers fresh, writes approved, financial answers uncached and calls paced |
| `gateway_nested` | do equal cache keys mean equal arguments? | **violated** (finding) |

The properties of `workspace` exempt what the code does: after a result it cannot read
the form stays locked until the next readable one (`LockedHasCause` names that cause); a
host event that meets a search from the form may put an older answer on show
(`crossed` in `SearchesSerial`); a message that says blocked or unsupported may be wrong
the other way, when the host acted and its reply was lost (`ToldTruly` holds the view to
what it says it sent or copied, and to a clipboard it says it did not reach).
`CardsAgreeWithRanking` lets the count of a view left open go stale but for `overdue`.
`DatesAgree` compares the dates of the calendar, the questions and the packet; the
question about the question deadline is always asked and compared with nothing.

### Bounds, and why they are enough

- OAuth: two requests are what a race needs; three tokens give a token, its
  successor and the successor's, or a second login's; lifetimes of one clock
  step (a signed token is accepted one step longer) put every expiry before, between
  and after any two awaits. The proofs cover every lifetime and number of ids. `Durable = FALSE` adds
  restarts to the behaviours of the Firestore store and removes none. An id pool that
  runs out only stops minting; `EndlessSpec` recycles dead ids so that the liveness
  run has behaviours without end (with the Firestore store, one login, and no
  symmetry, which is unsound for liveness).
- Saved searches: `MaxClock` is 3 half days, which covers the edges of the UTC and the
  Japanese day in both orders; `Page` is 2 for two notices. A check that is under way
  sees at most one clock step: its timeouts, retries and the cache add up to minutes.
- Watch list: one query with two notices, of which an answer brings any part, and one
  that KKJ has nothing on, to which a watch may be saved anew so that a key seen for one
  query could be marked for the other; two watches and two calls.
- KKJ: `MaxRetries` 2 as in the code, an interval of 2, a fetch of at most 1 tick,
  delays of 1 and 2, a timer late by one: a retry can come back before and after its
  slot, and a slow answer after a newer one. The cache has one result and completion
  two bids, so that both evict. `Remember` is TRUE, as for stdio; the shared client of
  the HTTP server differs by remembering nothing.
- Bid tools: the rules look at one notice at a time, each field on its own or with the
  deadline, so the notice that varies takes every value that a rule tells apart in one
  field, or in two of which one is the deadline; the second and third notice give
  rankings, counts and cuts something to order. `Limits` 2 and 3, `Cap` 2 and `TopLimit` 2
  cut three notices and leave some uncut. `HalfDays` 3 passes both edges of a day.
  `Remember` is FALSE, as over HTTP. Only the notice that varies is asked for by its key
  (`MCKey`): the others are the same in every version. Scores and thresholds are the code's numbers.
- Documents: two documents of up to three (`MaxDocuments` 2, in the code 3), one redirect
  (5): a chain has a first, a last and a forbidden hop; a budget of one call is contended
  by two; one midnight and one restart.
- J-Quants: lifetimes of one tick, one retry (2 in the code), one withdrawal: each can
  fall before, between and after any two requests of two calls. Two days a notice may
  be of, whose windows hold different bars, so that one cached window could stand for
  the other; bars that J-Quants lists out of order, one of them without a price.
- HTTP: one request at a time reads only what was fixed at its start; the betas end at
  different times, a token lives one tick, the audit buffer has one event (1000).
- Workspace: three searches are a result on show, one in flight and one that crosses;
  lists of two, one and no notices; a host that can do everything and one that can only
  open links.
- Gateway: one cache entry, a window and lives of 2, a child call of up to 1: an
  answer can outlive a window, a cache entry a call, an approval a call. One approval
  token at a time; a newly issued one may replace it. `amended` is a tool that the
  allowlist hides, for which an approval may still be issued. `gateway_nested` takes only
  the operations it is about.

### Fairness

Safety runs assume none. `OAuthTokens!EndlessSpec` assumes that a request whose store
call can settle goes on (`WF(Handle(r))`: Node runs every settled promise) and that
time passes; nobody has to send, retry or fail. `KkjClient!FairSpec` assumes that time
passes and that a due timer fires or an outstanding fetch answers or fails
(`WF(Settle(r))`: `AbortSignal.timeout` bounds each fetch); nobody has to search.
`DocumentExtraction!Spec` assumes that an address lookup ends, that the abort of a
request fires, that settled fetches are gone on with, and that the MCP SDK gives up on a
sampling request; it assumes nothing of a body or of Vertex, which nothing bounds.
`JquantsClient!Spec` assumes that a request ends (`fetchWithTimeout` covers its body),
that the search between them ends (`SearchesSettle`), that the host takes its answers
and that time passes; J-Quants need never answer well.

### Deadlock

TLC checks deadlock in every run but `bid_tools` and `workspace`, whose bounded clock,
portal and searches may be used up; none of the systems may stop.

## 4. Findings

One sentence of the repository that a run shows the code does not keep: the gateway's
cache key leaves out nested arguments (`gateway_nested`; `PROJECT.json` quotes
`docs/adr/0018-cache-strategy.md:57`).

Divergences met while modelling, visible in the models and without a run of their own:

- The token `check_saved_search` returns keeps the entry it came with
  (`dedupeSavedSearches` lets the later entry win), so a stateless client is told of
  the same notices at every check, and its second `save_search` of a name keeps the
  old conditions.
- A check that a stdio client cancels or gives up waiting for still marks what it found as
  seen (`watch-listed-awards.ts:117`) or moves its date (`saved-search-alert.ts:194`), and
  its answer is dropped: the notices are not reported again. Over HTTP the mark is in the
  token of that answer and is lost with it.
- A check in flight writes the old conditions over a `save_search` of its name.
- A check moves its date past notices it found but did not return.
- An approval token passes every call with its arguments until it expires
  (`docs/adr/0019`, line 95, calls it one-time).
- The gateway caches tools that write, by server and not by tool (`docs/adr/0018`,
  line 23).
- When J-Quants has a longer name for a bundled company, the merge drops the bundled
  name, so the key does not only extend the catalogue (`docs/adr/0025`, line 72).
- The public tools are not rate limited (`docs/public-mcp-hub/architecture.md:187`), and
  the audit buffer records refused calls as allowed.

## 5. Proofs

Each component's theorems are in a `_proofs` module, for every value of its constants
that its assumptions admit: any number of ids, calls, names, notices and searches, any
lifetimes and limits.

| Module | Theorem | Statement |
|---|---|---|
| `OAuthTokens_proofs`: the token service | `TypeCorrect` | `[]TypeOK` |
| | `GrantsMintOnce` | `[]MintedOnce` |
| | `OneLiveTokenPerFamily` | `[]OneLiveToken` |
| | `RefusedCodesStayBurnt` | `[]RefusedCodeIsBurnt` |
| | `NoFalseCompromise` | `[]CompromiseNeedsReplay` |
| | `SignatureOutlivesRecord` | `[]JwtOutlivesRecord` |
| | `CompromisedFamilyStops` | `CompromisedFamilyWindsDown` |
| | `CompromiseStays` | `CompromiseIsPermanent` |
| | `TokensAreOneTimeGrants` | the specification implements `OneTimeGrants` |
| | `InductiveInvariant` | `[]IInv`, the conjunction of the invariants |
| the HTTP fronts | `ProServedToPro`, `KeysNeverSentToSignIn` | `[]ProToolsForPro`, `[]SignInAskedRightly` |
| | `FrontTypes` | requests and answers keep their types, the audit buffer its length |
| `BidAdvice_proofs`: the bid tools | `OverdueAfterJapanDay`, `WaitingHelpsNobody` | `[]OverdueOnlyAfterJapanDay`, `WaitingNeverHelps` |
| | `BetterProfileIsNoWorse` | `[]BetterProfileNeverHurts` |
| | `DatesNeverDisagree`, `OmissionsHaveReasons` | `[]DatesAgree`, `[]SilentOnlyIfUnreadable` |
| | `NoticesAreRecent` | `AnswersRecent` |
| | `TopIssuersCounted`, `FactsRestOnNotices` | `[]TopIssuersAreTop`, `[]FactsCoverNotices` |
| the apps | `LockHasCause`, `NewestShown` | `[]LockedHasCause`, `[]SearchesSerial` |
| | `CardsMatchRanking`, `MessagesTrue` | `[]CardsAgreeWithRanking`, `[]ToldTruly` |
| `SavedSearches_proofs` | `NothingMissed`, `TypeCorrect` | `[]NothingSkipped`, `[]TypeOK` |
| `WatchList_proofs` | `SeenNoticesReported`, `Once`, `TypeCorrect` | `[]SeenWasReported`, `[]ReportedOnce`, `[]TypeOK` |
| `KkjClient_proofs` | `Spacing` | `FetchesSpaced` |
| | `Backlog`, `Freshness`, `TypeCorrect` | `[]BacklogIsWaiting`, `[]ResultsFresh`, `[]TypeOK` |
| | `CacheIsFresh` | the specification implements `FreshCache` (`ImplementsFreshCache`) |
| | `SearchesBounded`, `NeverPutOff` | `[]EndsInTime`, `[][NotPutOff]_vars` |
| `JquantsClient_proofs` | `KeysApart`, `LatestPrices`, `TypeCorrect` | `[]KeysSeparate`, `[]PricesAreLatest`, `[]TypeOK` |
| | `RefusalsOnlyWane`, `NoneRefusedUnprovoked` | `[][RefusalsWane]_vars`, `[]Unprovoked` |
| `DocumentExtraction_proofs` | `AdmittedOnly` | `[]DocumentsAdmitted` |
| | `BudgetRespected`, `OneSuffices`, `TypeCorrect` | `[]BudgetHolds`, `[]OneDocumentSuffices`, `[]TypeOK` |
| | `CallsComeNearer` | `[][CallsAdvance]_vars` |
| `GatewayCalls_proofs` | `Freshness`, `Approved`, `NeverCached` | `[]AnswersFresh`, `[]WritesApproved`, `[]FinancialNeverCached` |
| | `Pacing`, `TypeCorrect` | `FinancialPaced`, `[]TypeOK` |
| | `CacheIsFresh` | the specification implements `FreshCache` |

**Assumptions.** They are the named ASSUMEs of the modules, which TLC evaluates in the
runs. Three say more than a type: `RegistryAssumption` of `GatewayCalls`, that tools with
`required_approval` belong to financial servers and the public tools ask none
(`WritesApproved` and `FinancialPaced` would be false of a registry that says otherwise,
because the public tools call the proxy without the policy engine); `IdsAssumption` of
`OAuthTokens`, that ids of different kinds differ; and `BarsAssumption` of
`JquantsClient`, that J-Quants has one bar for a day. The others give constants their
types: a text of a form the parser reads names a day, a list of the portal has a notice
once and its issue date is a number (`NoticesAssumption`, `ListsAssumption`), the bundled
and the bought catalogue are lists of companies (`BundledAssumption`,
`RemoteAssumption`), keywords are finite lists and a profile has its four lists
(`InputsAssumption`), the marks for uncertain points of a document are not dates of the
calendar (`ExtractionsAssumption`); `Uri`, `Notice` and `Call` are finite where a proof
counts.

**The arguments.** Few of the properties are inductive as they stand.

*OAuth.* Two requests that both consumed one grant and have not minted yet satisfy
`MintedOnce`. So `GrantInv` adds what a request owes between two awaits (`FlightOK`:
what it consumed is spent and nothing was minted from it yet; what it is about to store
was generated and nothing was minted from it), that no two requests hold the same id
(`FlightApart`), and that a token has a family and a source from the moment its id is
generated (`LineageOK`). `OneLiveToken` needs in addition that a family is held either
by one unspent token or by one request between consuming and storing, never by two
(`HeldApart`, together `LeafInv`). `RefusedInv` says that a refused code was consumed
and its consumer is gone, `ReplayInv` that a spent token was sent, and twice if it is
being consumed again, and `ExpiryInv` that no record has more than its lifetime left.
The action properties follow from `GrantInv` and one case per action. For the
refinement, `Open` is the commit of a store call, `Redeem` the mint, `Close` every loss:
a refused exchange, a request that died, a restart. `GrantInv` gives each its guard.

*HTTP fronts.* An answer tells of a credential that was checked some time before, with
other secrets and tokens than now. `FrontInv` keeps for a request what it was admitted
on (`AdmissionOK`: the tier its credential had at the moment it was let in, and for a
token that the secret of that moment had signed it) until it is answered (`AnswerOK`),
while time passes, betas end and secrets change.

*Bid tools.* A half day is split into two quotients, of the UTC day and of the Japanese
one (`OverdueDays`). A score is a sum that is clamped: only the deadline's part depends on
the day, and every other part, a count of keywords among them, is a number that stays
(`ClampKeepsOrder`, `HitCount`). An assessment is a sum of outcomes, none of which an
added entry makes worse, and a gap that goes takes its penalty along. What a tool
answered is what the rules make of its notice (`AssessedProfile`, `DateAnswers`), though
the notice is amended afterwards; what is listed is held in
this half day, and what is known was in the half day it is marked with (`HeldInv`), also
while calls await their documents and the clock goes on; so a cached notice that is still
usable was on the portal in this half day or the last. A cap leaves a list that has each notice once (`ListAnswers`), so the
notices of an issuer are counted by a bijection with their positions, the latest is the
one no other is after, and a list sorted by count (`ByCount`) has every issuer once
because it has them all and no more places. A merged catalogue has every company of
its parts once, whatever order they come in.

*The apps.* With no crossing, a search in flight is the only one, the form is locked for
it, and its number is above every answer's (`SearchInv`): `SearchesSerial` alone says
nothing of the answer that is still to come. A press has not been at the clipboard
while it is at work (`PressInv`). The cards on show are those of a list of the host's, made no
later than now (`ViewInv`), from which the urgency in half days rounded up and the status
in UTC days are compared.

*Saved searches.* The rule must also hold of the entries that checks under way read
before their await, since they write them back, and of each check: what it found, with
what was reported before, is every match dated before the UTC day half a day after its
search (`CheckOK`). A notice published meanwhile is dated no earlier (`Days`), which is
where the Japanese and the UTC calendar meet.

*Watch list.* The same for `SeenWasReported`. A lost answer over HTTP leaves no memory and
no token that its reports would have to account for; a cancelled one on stdio leaves the
memory, with what it reported. `ReportedOnce` needs that wherever a
watch is kept (memory, newest token, the call under way) it knows what its name has
reported since it was saved, and that one call is under way (`OnceInv`).

*KKJ limiter.* The slots of waiting searches lie an interval apart, before the next
free one (`SlotsApart`), and the next slot an interval after the newest fetch, less
lateness (`SlotsPaced`). For the queue, what lies behind the slot of a waiting search
is no more than an interval for each search that waits behind it (`Queue`). The types
rest on that queue, which bounds the backlog, on the delays that a retry may have
(`DelayBounded`: a doubled delay stays below that of the last retry), and on the list of
recent keys having no key twice when one is added or evicted (`RecentType`). The time a
search has left at most (`TimeLeft`: its stage, its slot, and a `Round` for every attempt
it may still make) never grows and loses one with every tick (`NotPutOff`); as it starts
below a bound that does not depend on other searches, so does the wait (`EndsInTime`).

*Caches.* In both caches the age of an entry and what is left of its life add up to
the TTL and one call (`Good`, `EntryOK`), whatever slow calls store over newer ones.
The refinements map a cache to the entries it would answer with (`Views`): a hit or a
miss leaves them (`StartHolds`), a stored answer takes the place of the one with its key
and may cost another its place (`PutMembers`, `AnswerLearnt`), a tick ages them and drops
those whose life is over (`ResultsAge`, `AnswersAge`), a restart forgets them.
`FreshCache` needs the invariants of both caches: without `OnePerQuery` a hit could
bring back an older answer, without `Good` an answer could outlive its life.
J-Quants' entries carry the key they were bought with and hold, in order, bars of the
window they are kept for (`CacheOK`); in a list in order the last bar up to a day is
the latest.

*J-Quants' refusals.* A token that was withdrawn stays withdrawn and only ages, and a
call is doomed only by such a token or by a key that is not accepted (`RefusalsWane`, one
case per action): from there it is one more invariant that nobody is refused before
J-Quants has withdrawn anything (`Unprovoked`).

*Gateway.* Every tool either passes the policy engine or asks nothing that it guards
(`Starts`); an approval that is still good was issued when its operation was last
approved, or before (`ApprovalsFresh`); what a server's window still waits for and the
time it was left alone make up the window (`Paced`).

*Documents.* What is fetched passed the checks of its last redirect (`Guarded`); a call
to Vertex was charged before it started (`SpendInv`); a call's outcome follows from the
stages of its documents (`OutcomeInv`). The steps a document is from its end are a number
(`StepsLeft`) that every step of its own lowers and no other document's changes
(`CallsAdvance`).

**Model-checked only.** Liveness under fairness, which the prover does not reach:
`CompromisedFamilyDies`, `SearchesSettle`, `CallsEnd` and `RefusalsEnd`. Their safety
halves are proved: a compromised family only winds down (`CompromisedFamilyWindsDown`), a
search is bounded in time (`EndsInTime`), a call only comes nearer to its end
(`CallsAdvance`), refusals only wane (`RefusalsWane`). That the gateway's cache implements
`FreshCache` is proved and is no property of `gateway_calls`, whose run it would make too
long; the KKJ cache's is in `kkj_client`. `AnswersTheArguments` is the one that fails
(section 4).

## 6. Not modelled, and why

- The OAuth rate-limit counters: fixed windows of which nothing is promised.
- The smart router and its LLM fallback: a pure score of keywords that suggests a server
  and an optional model; its answer is advice, and `GatewayCalls` models calls to any
  server whatever was suggested.
- The cache's hit counters are read by its statistics
  only; the registry is loaded once.
- XML parsing, parameter mapping, JSON-RPC framing, CSV, Markdown and ICS rendering,
  prompts, resources, markup: data conversions on which no property here depends.
- Clock skew between instances, and the lifetime of state tokens (30 days): all
  clocks of a module are one.
- The Slack briefing and export jobs: a search, a format and a write, once per start.
- Build, release and deployment scripts, and the child servers: outside the program.

## 7. Plan

What a next step would add: an abstract remembered watch for both transports, with its
refinement proved; the router's scoring as an operator beside `BidRules`.
