----------------------------- MODULE OAuthTokens -----------------------------
(***************************************************************************)
(* The OAuth 2.1 token life cycle of the JP Bids server:                    *)
(*   src/src/oauth/store.ts   (the documents and their transactions)        *)
(*   src/src/oauth/router.ts  (the /oauth/register, /authorize, /token      *)
(*                             handlers that read and write them)           *)
(*   src/src/oauth/jwt.ts     (the signed tokens that leave the server)     *)
(*                                                                         *)
(* A handler is a request slot r that runs from one `await` to the next:    *)
(* the store's operations are atomic (a synchronous Map update or one       *)
(* Firestore transaction), everything between two of them interleaves with  *)
(* the other requests, with the clock and with failures.                    *)
(*                                                                         *)
(* Time is kept as what is left of every deadline: `ttl` is                 *)
(* record.expiresAt - now and `jwt` is payload.exp - now + 1, both floored   *)
(* at 0, so that `record.expiresAt <= now` is ttl = 0 and                   *)
(* `payload.exp < now` is jwt = 0.                                          *)
(***************************************************************************)
EXTENDS Naturals, FiniteSets

CONSTANTS
  Client,     \* client ids generateId() can return to /oauth/register
  Code,       \* jtis of authorization codes
  Refresh,    \* jtis of refresh tokens; names its sibling access token too
  Family,     \* ids of refresh token families
  Request,    \* request slots: HTTP requests being served at one time
  None,       \* `no such id`
  ClientTTL, CodeTTL, RefreshTTL, AccessTTL,  \* lifetimes, in clock steps
  Durable     \* TRUE: FirestoreOAuthStore; FALSE: MemoryOAuthStore

Grant == Code \cup Refresh          \* what the token endpoint redeems
Doc   == Client \cup Grant          \* every id a stored document can have

ASSUME IdsAssumption ==
  /\ Client \cap Grant = {}
  /\ Code \cap Refresh = {}
  /\ None \notin Doc \cup Family
ASSUME TTLAssumption ==
  /\ ClientTTL \in Nat \ {0}
  /\ CodeTTL \in Nat \ {0}
  /\ RefreshTTL \in Nat \ {0}
  /\ AccessTTL \in Nat \ {0}
ASSUME DurableAssumption == Durable \in BOOLEAN

VARIABLES
  \* the store
  status,       \* [Doc -> Status]
  ttl,          \* [Doc -> Nat]: expiresAt - now of the (prepared) record
  family,       \* [Refresh -> Family or None]: familyId of the record
  compromised,  \* families marked compromised
  \* what has left the server
  jwt,          \* [Grant -> Nat]: validity left of the signed code or token
  access,       \* [Refresh -> Nat]: validity left of the sibling access token
  \* the requests in flight
  pc,           \* [Request -> Step]
  uses,         \* [Request -> Doc or None]: the id the request was sent with
  passes,       \* [Request -> BOOLEAN]: would PKCE, redirect_uri, ... match?
  makes,        \* [Request -> Grant or None]: the id the request creates
  acc,          \* [Request -> Nat]: validity left of its unsent access token
  \* history, read by no action
  source,       \* [Refresh -> Grant or None]: what a token was minted from
  refused,      \* codes whose exchange failed a check after consumption
  presented,    \* refresh tokens sent to /oauth/token at least once
  replayed      \* refresh tokens sent at least twice

store   == <<status, ttl, family, compromised>>
sent    == <<jwt, access>>
flight  == <<pc, uses, passes, makes, acc>>
history == <<source, refused, presented, replayed>>
vars    == <<store, sent, flight, history>>

\* "generated": the id exists, no document has it (not stored yet, never
\* will be, or lost with the memory store); "spent": consumedAt # null.
Status == {"unused", "generated", "stored", "spent"}
Step   == {"idle", "consume", "mint", "store", "respond"}

\* The variables keep their types; every deadline stays a natural number.
TypeOK ==
  /\ status \in [Doc -> Status]
  /\ ttl \in [Doc -> Nat]
  /\ family \in [Refresh -> Family \cup {None}]
  /\ compromised \subseteq Family
  /\ jwt \in [Grant -> Nat]
  /\ access \in [Refresh -> Nat]
  /\ pc \in [Request -> Step]
  /\ uses \in [Request -> Doc \cup {None}]
  /\ passes \in [Request -> BOOLEAN]
  /\ makes \in [Request -> Grant \cup {None}]
  /\ acc \in [Request -> Nat]
  /\ source \in [Refresh -> Grant \cup {None}]
  /\ refused \subseteq Code
  /\ presented \subseteq Refresh
  /\ replayed \subseteq Refresh

Init ==
  /\ status = [d \in Doc |-> "unused"]
  /\ ttl = [d \in Doc |-> 0]
  /\ family = [t \in Refresh |-> None]
  /\ compromised = {}
  /\ jwt = [g \in Grant |-> 0]
  /\ access = [t \in Refresh |-> 0]
  /\ pc = [r \in Request |-> "idle"]
  /\ uses = [r \in Request |-> None]
  /\ passes = [r \in Request |-> FALSE]
  /\ makes = [r \in Request |-> None]
  /\ acc = [r \in Request |-> 0]
  /\ source = [t \in Refresh |-> None]
  /\ refused = {}
  /\ presented = {}
  /\ replayed = {}

\* A document that is there and not expired (`expiresAt <= now` is a miss).
Present(d) == status[d] \in {"stored", "spent"} /\ ttl[d] > 0

\* Mutant of Redeemable: consumedAt is not looked at.
RedeemableTwice(g) == Present(g) /\ (g \in Refresh => family[g] \notin compromised)

\* Mutant of Redeemable: the family is not looked at.
RedeemableCompromised(g) == Present(g) /\ status[g] = "stored"

\* consumeAuthorizationCode / consumeRefreshToken would succeed on g.
Redeemable(g) ==
  /\ Present(g)
  /\ status[g] = "stored"
  /\ g \in Refresh => family[g] \notin compromised

\* Mutant of Reused: an expired token counts as a reused one.
ReusedOrExpired(g) == g \in Refresh /\ family[g] \notin compromised /\ ~Redeemable(g)

\* consumeRefreshToken would answer "reused" for g.
Reused(g) ==
  /\ g \in Refresh
  /\ Present(g)
  /\ family[g] \notin compromised
  /\ status[g] = "spent"

\* Families that already have a token, stored or about to be.
UsedFamilies == {family[t] : t \in Refresh} \ {None}

LifetimeOf(g) == IF g \in Code THEN CodeTTL ELSE RefreshTTL

\* Mutant of SignedFor: verifyJwt would refuse at exp = now.
SignedUntil(seconds) == seconds

\* What is left of a JWT signed now: verifyJwt takes it while exp >= now.
SignedFor(seconds) == seconds + 1

\* The request ends: answered, refused, failed or killed.
Finish(r) ==
  /\ pc' = [pc EXCEPT ![r] = "idle"]
  /\ uses' = [uses EXCEPT ![r] = None]
  /\ passes' = [passes EXCEPT ![r] = FALSE]
  /\ makes' = [makes EXCEPT ![r] = None]
  /\ acc' = [acc EXCEPT ![r] = 0]

-----------------------------------------------------------------------------
(* /oauth/register and /oauth/authorize *)

RegisterClient(p) ==
  /\ status[p] = "unused"
  /\ status' = [status EXCEPT ![p] = "stored"]
  /\ ttl' = [ttl EXCEPT ![p] = ClientTTL]
  /\ UNCHANGED <<family, compromised, sent, flight, history>>

\* POST /oauth/authorize, approved: the client is looked up, then the code's
\* record is built and handed to storeAuthorizationCode.
Authorize(r, p, c) ==
  /\ pc[r] = "idle"
  /\ Present(p)
  /\ status[c] = "unused"
  /\ status' = [status EXCEPT ![c] = "generated"]
  /\ ttl' = [ttl EXCEPT ![c] = CodeTTL]
  /\ pc' = [pc EXCEPT ![r] = "store"]
  /\ uses' = [uses EXCEPT ![r] = p]
  /\ makes' = [makes EXCEPT ![r] = c]
  /\ UNCHANGED <<family, compromised, sent, passes, acc, history>>

-----------------------------------------------------------------------------
(* /oauth/token *)

\* A request arrives with a code or refresh token whose signature and exp are
\* good. Tokens are bearer strings: any one that was sent out may come back,
\* any number of times. `ok` is whether code_verifier, redirect_uri, client_id,
\* iss and aud will match; for a refresh token those checks come first, and
\* one that fails them changes nothing.
PresentGrant(r, g, ok) ==
  /\ pc[r] = "idle"
  /\ jwt[g] > 0
  /\ g \in Refresh => ok
  /\ pc' = [pc EXCEPT ![r] = "consume"]
  /\ uses' = [uses EXCEPT ![r] = g]
  /\ passes' = [passes EXCEPT ![r] = ok]
  /\ presented' = presented \cup ({g} \cap Refresh)
  /\ replayed' = replayed \cup ({g} \cap presented)
  /\ UNCHANGED <<store, sent, makes, acc, source, refused>>

\* consumeAuthorizationCode returns null; consumeRefreshToken returns
\* "missing" or "compromised". The request is answered 400.
ConsumeRefused(r) ==
  /\ pc[r] = "consume"
  /\ ~Redeemable(uses[r])
  /\ ~Reused(uses[r])
  /\ Finish(r)
  /\ UNCHANGED <<store, sent, history>>

\* consumeRefreshToken finds consumedAt set: the family is compromised.
ConsumeReused(r) ==
  /\ pc[r] = "consume"
  /\ Reused(uses[r])
  /\ compromised' = compromised \cup {family[uses[r]]}
  /\ Finish(r)
  /\ UNCHANGED <<status, ttl, family, sent, history>>

\* The code or token is consumed. For a refresh token the Firestore transaction
\* also writes compromised: false to the family's document.
ConsumeOk(r) ==
  /\ pc[r] = "consume"
  /\ Redeemable(uses[r])
  /\ status' = [status EXCEPT ![uses[r]] = "spent"]
  /\ compromised' = compromised \ (IF uses[r] \in Refresh THEN {family[uses[r]]} ELSE {})
  /\ pc' = [pc EXCEPT ![r] = "mint"]
  /\ UNCHANGED <<ttl, family, sent, uses, passes, makes, acc, history>>

\* The code is consumed, then PKCE, redirect_uri, client_id, iss or aud fails.
RefuseExchange(r) ==
  /\ pc[r] = "mint"
  /\ ~passes[r]
  /\ refused' = refused \cup {uses[r]}
  /\ Finish(r)
  /\ UNCHANGED <<store, sent, source, presented, replayed>>

\* generateId() twice or three times, sign the access token, build the refresh
\* token's record and hand it to storeRefreshToken. A code starts a family.
Mint(r, t, f) ==
  /\ pc[r] = "mint"
  /\ passes[r]
  /\ status[t] = "unused"
  /\ IF uses[r] \in Code THEN f \notin UsedFamilies ELSE f = family[uses[r]]
  /\ status' = [status EXCEPT ![t] = "generated"]
  /\ ttl' = [ttl EXCEPT ![t] = RefreshTTL]
  /\ family' = [family EXCEPT ![t] = f]
  /\ source' = [source EXCEPT ![t] = uses[r]]
  /\ makes' = [makes EXCEPT ![r] = t]
  /\ acc' = [acc EXCEPT ![r] = SignedFor(AccessTTL)]
  /\ pc' = [pc EXCEPT ![r] = "store"]
  /\ UNCHANGED <<compromised, sent, uses, passes, refused, presented, replayed>>

\* storeAuthorizationCode or storeRefreshToken commits.
Store(r) ==
  /\ pc[r] = "store"
  /\ status' = [status EXCEPT ![makes[r]] = "stored"]
  /\ pc' = [pc EXCEPT ![r] = "respond"]
  /\ UNCHANGED <<ttl, family, compromised, sent, uses, passes, makes, acc, history>>

\* The code or refresh token is signed, with a later clock than its record, and
\* the response (or redirect) reaches the client.
Respond(r) ==
  /\ pc[r] = "respond"
  /\ jwt' = [jwt EXCEPT ![makes[r]] = SignedFor(LifetimeOf(makes[r]))]
  /\ access' = IF makes[r] \in Refresh
               THEN [access EXCEPT ![makes[r]] = acc[r]]
               ELSE access
  /\ Finish(r)
  /\ UNCHANGED <<store, history>>

-----------------------------------------------------------------------------
(* Failures and time *)

\* The instance dies, the store rejects the call before it commits, or the
\* response is lost: the request ends where it is.
Abort(r) ==
  /\ pc[r] # "idle"
  /\ Finish(r)
  /\ UNCHANGED <<store, sent, history>>

\* The process of a MemoryOAuthStore restarts: the documents and the requests
\* are gone, the signed tokens outside are not.
Restart ==
  /\ ~Durable
  /\ \E d \in Doc : status[d] \in {"stored", "spent"}
  /\ status' = [d \in Doc |-> IF status[d] = "unused" THEN "unused" ELSE "generated"]
  /\ compromised' = {}
  /\ pc' = [r \in Request |-> "idle"]
  /\ uses' = [r \in Request |-> None]
  /\ passes' = [r \in Request |-> FALSE]
  /\ makes' = [r \in Request |-> None]
  /\ acc' = [r \in Request |-> 0]
  /\ UNCHANGED <<ttl, family, sent, history>>

Less(n) == IF n > 0 THEN n - 1 ELSE 0

\* The clock moves: every deadline comes one step closer.
Tick ==
  /\ ttl' = [d \in Doc |-> Less(ttl[d])]
  /\ jwt' = [g \in Grant |-> Less(jwt[g])]
  /\ access' = [t \in Refresh |-> Less(access[t])]
  /\ acc' = [r \in Request |-> Less(acc[r])]
  /\ UNCHANGED <<status, family, compromised, pc, uses, passes, makes, history>>

\* What the server does by itself once a request is under way.
Handle(r) ==
  \/ ConsumeRefused(r)
  \/ ConsumeReused(r)
  \/ ConsumeOk(r)
  \/ RefuseExchange(r)
  \/ \E t \in Refresh, f \in Family : Mint(r, t, f)
  \/ Store(r)
  \/ Respond(r)

Next ==
  \/ \E p \in Client : RegisterClient(p)
  \/ \E r \in Request, p \in Client, c \in Code : Authorize(r, p, c)
  \/ \E r \in Request, g \in Grant, ok \in BOOLEAN : PresentGrant(r, g, ok)
  \/ \E r \in Request : Handle(r)
  \/ \E r \in Request : Abort(r)
  \/ Restart
  \/ Tick

Spec == Init /\ [][Next]_vars

\* generateId() never runs out of ids. For behaviours without end an id nobody
\* can present, read or mint from any more stands for a new one.
Recycle(t) ==
  /\ status[t] # "unused"
  /\ ttl[t] = 0 /\ jwt[t] = 0 /\ access[t] = 0
  /\ \A r \in Request : t \notin {uses[r], makes[r]}
  /\ status' = [status EXCEPT ![t] = "unused"]
  /\ family' = [family EXCEPT ![t] = None]
  /\ source' = [u \in Refresh |-> IF t \in {u, source[u]} THEN None ELSE source[u]]
  /\ presented' = presented \ {t}
  /\ replayed' = replayed \ {t}
  /\ UNCHANGED <<ttl, compromised, sent, flight, refused>>

\* Sessions that may go on for ever. The store's calls settle (or the request is
\* aborted) and the clock moves; nobody has to send, retry or abort anything.
EndlessSpec ==
  /\ Init
  /\ [][Next \/ \E t \in Refresh : Recycle(t)]_vars
  /\ \A r \in Request : WF_vars(Handle(r))
  /\ WF_vars(Tick)

-----------------------------------------------------------------------------
(* Properties *)

\* At most one refresh token is ever minted from a code or a refresh token,
\* whatever the interleaving of two exchanges of it (store.ts consumes it in one
\* transaction, router.ts mints after an await).
MintedOnce ==
  \A t1, t2 \in Refresh : source[t1] # None /\ source[t1] = source[t2] => t1 = t2

\* A family has at most one unspent refresh token in the store: rotation never
\* leaves two tokens of one login usable, however requests interleave or fail.
OneLiveToken ==
  \A t1, t2 \in Refresh :
    /\ status[t1] = "stored"
    /\ status[t2] = "stored"
    /\ family[t1] = family[t2]
    => t1 = t2

\* A code whose exchange once failed PKCE, redirect_uri or client_id is burnt: no
\* later or concurrent exchange with the right verifier mints from it.
RefusedCodeIsBurnt ==
  \A t \in Refresh : source[t] \notin refused

\* A family is only ever compromised after one of its tokens was sent twice: a
\* client that sends each token once is never logged out by reuse detection.
CompromiseNeedsReplay ==
  \A f \in compromised : \E t \in replayed : family[t] = f

\* A signed code or token that is still worth anything in the store is accepted
\* by verifyJwt: exp is computed after, and compared looser than, expiresAt.
JwtOutlivesRecord ==
  \A g \in Grant : jwt[g] > 0 => jwt[g] > ttl[g]

\* Requests that consumed a token of family f and will mint its successor.
Minting(f) ==
  {r \in Request : pc[r] = "mint" /\ uses[r] \in Refresh /\ family[uses[r]] = f}

\* Once a family is compromised no further request gets past consumeRefreshToken
\* with one of its tokens, also a token stored after the compromise by a request
\* that was already minting (store.ts:110, store.ts:200).
CompromisedFamilyWindsDown ==
  [][\A f \in compromised : Minting(f)' \subseteq Minting(f)]_vars

\* The mark stays until the store itself is lost: the `compromised: false` that a
\* successful rotation writes never erases it (store.ts:212).
CompromiseIsPermanent ==
  [][\A f \in compromised \ compromised' :
       \A t \in Refresh : family[t] = f => status'[t] \notin {"stored", "spent"}]_vars

\* Reuse detection ends the session: some time after it, access tokens of the
\* family (which /mcp accepts by signature alone) have all expired for good,
\* those of requests that were minting at that moment included.
CompromisedFamilyDies ==
  \A f \in Family :
    f \in compromised ~> [](\A t \in Refresh : family[t] = f => access[t] = 0)

-----------------------------------------------------------------------------
(* The abstract specification: a grant is open from the commit that stores it   *)
(* until its consumer mints from it or gives up.                                *)

Consumed == {uses[r] : r \in {q \in Request : pc[q] = "mint"}}

OpenGrants   == {g \in Grant : status[g] = "stored"} \cup Consumed
ToBeStored   == {makes[r] : r \in {q \in Request : pc[q] = "store"}}
ClosedGrants == {g \in Grant : status[g] # "unused"} \ (OpenGrants \cup ToBeStored)

OneTime == INSTANCE OneTimeGrants WITH open <- OpenGrants, closed <- ClosedGrants

\* Every step of the handlers, failures and restarts included, is one step of
\* the one-time grants or none.
ImplementsOneTimeGrants == OneTime!Spec

-----------------------------------------------------------------------------
(* The inductive invariants behind MintedOnce, OneLiveToken and the others:     *)
(* what the requests in flight owe to the store (proved in OAuthTokens_proofs). *)

\* A request between two awaits owns the id it consumed or is creating.
FlightOK ==
  \A r \in Request :
    /\ pc[r] = "consume" => uses[r] \in Grant /\ (uses[r] \in Refresh => passes[r])
    /\ pc[r] = "mint" => /\ uses[r] \in Refresh => passes[r]
                         /\ uses[r] \in Grant
                         /\ status[uses[r]] = "spent"
                         /\ \A t \in Refresh : source[t] # uses[r]
    /\ pc[r] = "store" => /\ makes[r] \in Grant
                          /\ status[makes[r]] = "generated"
                          /\ \A t \in Refresh : source[t] # makes[r]
    /\ pc[r] = "respond" => makes[r] \in Grant /\ status[makes[r]] # "unused"

\* No two requests consumed the same id or create the same one.
FlightApart ==
  \A r1, r2 \in Request :
    r1 # r2 =>
      /\ pc[r1] = "mint" /\ pc[r2] = "mint" => uses[r1] # uses[r2]
      /\ pc[r1] = "store" /\ pc[r2] = "store" => makes[r1] # makes[r2]

\* A token has a family and a source from the moment its id is generated, and
\* what it was minted from can be consumed no more.
LineageOK ==
  \A t \in Refresh :
    /\ status[t] = "unused" <=> source[t] = None
    /\ source[t] = None <=> family[t] = None
    /\ source[t] # None => status[source[t]] \in {"generated", "spent"}

GrantInv == TypeOK /\ FlightOK /\ FlightApart /\ LineageOK /\ MintedOnce

\* The token through which request r holds its family: the one it consumed and
\* has not replaced, or the replacement it has not stored. None if it has none.
Held(r) ==
  IF pc[r] = "mint" /\ uses[r] \in Refresh THEN uses[r]
  ELSE IF pc[r] = "store" /\ makes[r] \in Refresh THEN makes[r]
  ELSE None

\* A family is held by one unspent token or by one request, never by two.
HeldApart ==
  /\ \A r \in Request, t \in Refresh :
       Held(r) # None /\ status[t] = "stored" => family[t] # family[Held(r)]
  /\ \A r1, r2 \in Request :
       Held(r1) # None /\ Held(r2) # None /\ r1 # r2
         => family[Held(r1)] # family[Held(r2)]

LeafInv == GrantInv /\ OneLiveToken /\ HeldApart

\* A refused code was consumed, and its consumer is gone.
RefusedInv ==
  \A c \in refused :
    /\ status[c] \in {"generated", "spent"}
    /\ \A t \in Refresh : source[t] # c
    /\ \A r \in Request : /\ pc[r] = "mint" => uses[r] # c
                          /\ pc[r] = "store" => makes[r] # c

\* A spent token was sent once; one being consumed after that, or by two
\* requests, was sent twice.
ReplayInv ==
  /\ \A t \in Refresh : status[t] = "spent" => t \in presented
  /\ \A r \in Request : pc[r] = "consume" /\ uses[r] \in Refresh =>
       /\ uses[r] \in presented
       /\ status[uses[r]] = "spent" => uses[r] \in replayed
       /\ \A q \in Request : q # r /\ pc[q] = "consume" /\ uses[q] = uses[r]
            => uses[r] \in replayed

\* No record has more than its lifetime left, and no unused id a signed token.
ExpiryInv ==
  \A g \in Grant :
    /\ ttl[g] <= LifetimeOf(g)
    /\ status[g] = "unused" => jwt[g] = 0

IInv ==
  /\ LeafInv
  /\ RefusedInv
  /\ ReplayInv /\ CompromiseNeedsReplay
  /\ ExpiryInv /\ JwtOutlivesRecord
=============================================================================
