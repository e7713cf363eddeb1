-------------------------- MODULE OAuthTokens_proofs --------------------------
(***************************************************************************)
(* Proofs about OAuthTokens, for any number of clients, codes, tokens,      *)
(* families, concurrent requests and any lifetimes, and for both stores; and *)
(* about HttpServers, where the tokens are presented.                       *)
(***************************************************************************)
EXTENDS OAuthTokens, HttpServers, SequenceTheorems, TLAPS

-----------------------------------------------------------------------------
(* Type correctness *)

\* Before the first request every variable has its type.
LEMMA TypeInit == Init => TypeOK
  BY IdsAssumption DEF Init, TypeOK, Status, Step

\* Every action keeps the state variables within their types.
LEMMA TypeStep == TypeOK /\ FlightOK /\ LineageOK /\ [Next]_vars => TypeOK'
<1> SUFFICES ASSUME TypeOK, FlightOK, LineageOK, [Next]_vars PROVE TypeOK'
  OBVIOUS
<1> USE DEF TypeOK, Status, Step, Finish, store, sent, flight, history, Doc, Grant
<1>1. ASSUME NEW p \in Client, RegisterClient(p) PROVE TypeOK'
  BY <1>1, TTLAssumption DEF RegisterClient
<1>2. ASSUME NEW r \in Request, NEW p \in Client, NEW c \in Code, Authorize(r, p, c)
      PROVE  TypeOK'
  BY <1>2, TTLAssumption DEF Authorize
<1>3. ASSUME NEW r \in Request, NEW g \in Grant, NEW ok \in BOOLEAN, PresentGrant(r, g, ok)
      PROVE  TypeOK'
  BY <1>3 DEF PresentGrant
<1>4. ASSUME NEW r \in Request, Handle(r) PROVE TypeOK'
  <2>1. CASE ConsumeRefused(r)
    BY <2>1 DEF ConsumeRefused
  <2>2. CASE ConsumeReused(r)
    BY <2>2 DEF ConsumeReused, Reused, LineageOK
  <2>3. CASE ConsumeOk(r)
    BY <2>3 DEF ConsumeOk
  <2>4. CASE RefuseExchange(r)
    BY <2>4 DEF RefuseExchange, FlightOK
  <2>5. ASSUME NEW t \in Refresh, NEW f \in Family, Mint(r, t, f) PROVE TypeOK'
    BY <2>5, TTLAssumption DEF Mint, SignedFor, FlightOK
  <2>6. CASE Store(r)
    BY <2>6 DEF Store
  <2>7. CASE Respond(r)
    <3>1. SignedFor(LifetimeOf(makes[r])) \in Nat
      BY TTLAssumption DEF SignedFor, LifetimeOf
    <3>2. jwt' \in [Grant -> Nat]
      BY <2>7, <3>1 DEF Respond
    <3>3. access' \in [Refresh -> Nat]
      BY <2>7 DEF Respond
    <3>. QED
      BY <2>7, <3>2, <3>3 DEF Respond
  <2>. QED
    BY <1>4, <2>1, <2>2, <2>3, <2>4, <2>5, <2>6, <2>7 DEF Handle
<1>5. ASSUME NEW r \in Request, Abort(r) PROVE TypeOK'
  BY <1>5 DEF Abort
<1>6. CASE Restart
  BY <1>6 DEF Restart
<1>7. CASE Tick
  BY <1>7 DEF Tick, Less
<1>8. CASE UNCHANGED vars
  BY <1>8 DEF vars
<1>. QED
  BY <1>1, <1>2, <1>3, <1>4, <1>5, <1>6, <1>7, <1>8 DEF Next

-----------------------------------------------------------------------------
(* GrantInv: what was consumed once is minted from once *)

\* Before the first request nothing is consumed, minted or in flight.
LEMMA GrantInit == Init => GrantInv
<1> SUFFICES ASSUME Init PROVE GrantInv
  OBVIOUS
<1>1. TypeOK
  BY TypeInit
<1>2. FlightOK /\ FlightApart
  BY DEF Init, FlightOK, FlightApart
<1>3. LineageOK /\ MintedOnce
  BY IdsAssumption DEF Init, LineageOK, MintedOnce, Doc, Grant
<1>. QED
  BY <1>1, <1>2, <1>3 DEF GrantInv

\* Steps that only end request r change nothing GrantInv speaks of.
LEMMA FinishStep ==
  ASSUME GrantInv, NEW r \in Request, Finish(r), UNCHANGED <<status, family, source>>
  PROVE  (FlightOK /\ FlightApart /\ LineageOK /\ MintedOnce)'
<1> USE DEF GrantInv, TypeOK, Finish
<1>1. FlightOK'
  BY DEF FlightOK
<1>2. FlightApart'
  BY DEF FlightApart
<1>3. LineageOK' /\ MintedOnce'
  BY DEF LineageOK, MintedOnce
<1>. QED
  BY <1>1, <1>2, <1>3

\* Every action keeps grants in one hand: requests own what they consumed
\* or create, and nothing minted from is ever consumable again.
LEMMA GrantStep == GrantInv /\ [Next]_vars => GrantInv'
<1> SUFFICES ASSUME GrantInv, [Next]_vars
             PROVE  (FlightOK /\ FlightApart /\ LineageOK /\ MintedOnce)'
  BY TypeStep DEF GrantInv
<1> DEFINE Goal == (FlightOK /\ FlightApart /\ LineageOK /\ MintedOnce)'
<1> USE DEF GrantInv, TypeOK, store, sent, flight, history, Doc, Grant
<1>1. ASSUME NEW p \in Client, RegisterClient(p) PROVE Goal
  <2>1. FlightOK' /\ FlightApart'
    BY <1>1, IdsAssumption DEF RegisterClient, FlightOK, FlightApart
  <2>2. LineageOK' /\ MintedOnce'
    BY <1>1, IdsAssumption DEF RegisterClient, LineageOK, MintedOnce
  <2>. QED
    BY <2>1, <2>2
<1>2. ASSUME NEW r \in Request, NEW p \in Client, NEW c \in Code, Authorize(r, p, c)
      PROVE  Goal
  <2>1. \A t \in Refresh : source[t] # c
    BY <1>2, IdsAssumption DEF Authorize, LineageOK
  <2>2. FlightOK'
    BY <1>2, <2>1, IdsAssumption DEF Authorize, FlightOK
  <2>3. FlightApart'
    BY <1>2, IdsAssumption DEF Authorize, FlightOK, FlightApart
  <2>4. LineageOK' /\ MintedOnce'
    BY <1>2, <2>1, IdsAssumption DEF Authorize, LineageOK, MintedOnce
  <2>. QED
    BY <2>2, <2>3, <2>4
<1>3. ASSUME NEW r \in Request, NEW g \in Grant, NEW ok \in BOOLEAN, PresentGrant(r, g, ok)
      PROVE  Goal
  <2>1. FlightOK' /\ FlightApart'
    BY <1>3 DEF PresentGrant, FlightOK, FlightApart
  <2>2. LineageOK' /\ MintedOnce'
    BY <1>3 DEF PresentGrant, LineageOK, MintedOnce
  <2>. QED
    BY <2>1, <2>2
<1>4. ASSUME NEW r \in Request, Handle(r) PROVE Goal
  <2>1. CASE ConsumeRefused(r)
    BY <2>1, FinishStep DEF ConsumeRefused
  <2>2. CASE ConsumeReused(r)
    BY <2>2, FinishStep DEF ConsumeReused
  <2>3. CASE ConsumeOk(r)
    <3>1. uses[r] \in Grant /\ status[uses[r]] = "stored"
      BY <2>3 DEF ConsumeOk, Redeemable, FlightOK
    <3>2. \A t \in Refresh : source[t] # uses[r]
      BY <3>1, IdsAssumption DEF LineageOK
    <3>3. FlightOK'
      BY <2>3, <3>1, <3>2 DEF ConsumeOk, FlightOK
    <3>4. FlightApart'
      BY <2>3, <3>1 DEF ConsumeOk, FlightOK, FlightApart
    <3>5. LineageOK' /\ MintedOnce'
      BY <2>3, <3>1, <3>2, IdsAssumption DEF ConsumeOk, LineageOK, MintedOnce
    <3>. QED
      BY <3>3, <3>4, <3>5
  <2>4. CASE RefuseExchange(r)
    BY <2>4, FinishStep DEF RefuseExchange
  <2>5. ASSUME NEW t \in Refresh, NEW f \in Family, Mint(r, t, f) PROVE Goal
    <3>1. uses[r] \in Grant /\ status[uses[r]] = "spent" /\ uses[r] # t
      BY <2>5 DEF Mint, FlightOK
    <3>2. \A u \in Refresh : source[u] # t
      BY <2>5, IdsAssumption DEF Mint, LineageOK
    <3>3. \A u \in Refresh : source[u] # uses[r]
      BY <2>5 DEF Mint, FlightOK
    <3>4. FlightOK'
      BY <2>5, <3>1, <3>2 DEF Mint, FlightOK, FlightApart
    <3>5. FlightApart'
      BY <2>5, <3>1 DEF Mint, FlightOK, FlightApart
    <3>6. LineageOK'
      BY <2>5, <3>1, <3>2, IdsAssumption DEF Mint, LineageOK
    <3>7. MintedOnce'
      BY <2>5, <3>3 DEF Mint, MintedOnce
    <3>. QED
      BY <3>4, <3>5, <3>6, <3>7
  <2>6. CASE Store(r)
    <3>1. makes[r] \in Grant /\ status[makes[r]] = "generated"
      BY <2>6 DEF Store, FlightOK
    <3>2. \A t \in Refresh : source[t] # makes[r]
      BY <2>6 DEF Store, FlightOK
    <3>3. FlightOK'
      BY <2>6, <3>1, <3>2 DEF Store, FlightOK, FlightApart
    <3>4. FlightApart'
      BY <2>6 DEF Store, FlightApart
    <3>5. LineageOK' /\ MintedOnce'
      BY <2>6, <3>1, <3>2, IdsAssumption DEF Store, LineageOK, MintedOnce
    <3>. QED
      BY <3>3, <3>4, <3>5
  <2>7. CASE Respond(r)
    BY <2>7, FinishStep DEF Respond
  <2>. QED
    BY <1>4, <2>1, <2>2, <2>3, <2>4, <2>5, <2>6, <2>7 DEF Handle
<1>5. ASSUME NEW r \in Request, Abort(r) PROVE Goal
  BY <1>5, FinishStep DEF Abort
<1>6. CASE Restart
  <2>1. FlightOK' /\ FlightApart'
    BY <1>6 DEF Restart, FlightOK, FlightApart
  <2>2. LineageOK' /\ MintedOnce'
    BY <1>6, IdsAssumption DEF Restart, LineageOK, MintedOnce, Status
  <2>. QED
    BY <2>1, <2>2
<1>7. CASE Tick
  BY <1>7 DEF Tick, FlightOK, FlightApart, LineageOK, MintedOnce
<1>8. CASE UNCHANGED vars
  BY <1>8 DEF vars, FlightOK, FlightApart, LineageOK, MintedOnce
<1>. QED
  BY <1>1, <1>2, <1>3, <1>4, <1>5, <1>6, <1>7, <1>8 DEF Next

\* Between the requests in flight and the store, no grant is ever in two hands.
THEOREM GrantInvariant == Spec => []GrantInv
  BY GrantInit, GrantStep, PTL DEF Spec

\* The state variables always have their types.
THEOREM TypeCorrect == Spec => []TypeOK
  BY GrantInvariant, PTL DEF GrantInv

\* Concurrent or repeated exchanges of one code or refresh token mint at most
\* one refresh token from it, for any number of requests and failures.
THEOREM GrantsMintOnce == Spec => []MintedOnce
  BY GrantInvariant, PTL DEF GrantInv

-----------------------------------------------------------------------------
(* LeafInv: one holder per family *)

\* Before the first request no family has a token or a holder.
LEMMA LeafInit == Init => OneLiveToken /\ HeldApart
  BY DEF Init, OneLiveToken, HeldApart, Held, Doc, Grant

\* What a request holds is a token, with a family, that is not in the store.
LEMMA HeldToken ==
  ASSUME GrantInv, NEW r \in Request, Held(r) # None
  PROVE  /\ Held(r) \in Refresh
         /\ status[Held(r)] \in {"generated", "spent"}
         /\ family[Held(r)] \in Family
<1>1. Held(r) \in Refresh /\ status[Held(r)] \in {"generated", "spent"}
  BY DEF Held, GrantInv, FlightOK
<1>2. source[Held(r)] # None /\ family[Held(r)] # None
  BY <1>1 DEF GrantInv, LineageOK
<1>. QED
  BY <1>1, <1>2 DEF GrantInv, TypeOK

\* A step that neither stores nor takes up a token keeps its families apart.
LEMMA LeafFrame ==
  ASSUME LeafInv, UNCHANGED family,
         \A t \in Refresh : status'[t] = "stored" => status[t] = "stored",
         \A r \in Request : Held(r)' \in {Held(r), None}
  PROVE  (OneLiveToken /\ HeldApart)'
<1>1. OneLiveToken'
  BY DEF LeafInv, OneLiveToken
<1>2. HeldApart'
  BY DEF LeafInv, HeldApart
<1>. QED
  BY <1>1, <1>2

\* Every action keeps each family with one unspent token or one holder: a
\* rotation passes it from the token to the request to the next token.
LEMMA LeafStep == LeafInv /\ [Next]_vars => (OneLiveToken /\ HeldApart)'
<1> SUFFICES ASSUME LeafInv, [Next]_vars PROVE (OneLiveToken /\ HeldApart)'
  OBVIOUS
<1> DEFINE Goal == (OneLiveToken /\ HeldApart)'
<1>t. GrantInv
  BY DEF LeafInv
<1> USE <1>t DEF GrantInv, TypeOK, store, sent, flight, history, Doc, Grant
<1>f. ASSUME NEW r \in Request, Finish(r), UNCHANGED <<status, family>> PROVE Goal
  <2>1. \A q \in Request : Held(q)' \in {Held(q), None}
    BY <1>f DEF Finish, Held
  <2>. QED
    BY <1>f, <2>1, LeafFrame
<1>1. ASSUME NEW p \in Client, RegisterClient(p) PROVE Goal
  <2>1. \A q \in Request : Held(q)' = Held(q)
    BY <1>1 DEF RegisterClient, Held
  <2>. QED
    BY <1>1, <2>1, LeafFrame, IdsAssumption DEF RegisterClient
<1>2. ASSUME NEW r \in Request, NEW p \in Client, NEW c \in Code, Authorize(r, p, c)
      PROVE  Goal
  <2>1. \A q \in Request : Held(q)' = Held(q)
    BY <1>2, IdsAssumption DEF Authorize, Held
  <2>. QED
    BY <1>2, <2>1, LeafFrame, IdsAssumption DEF Authorize
<1>3. ASSUME NEW r \in Request, NEW g \in Grant, NEW ok \in BOOLEAN, PresentGrant(r, g, ok)
      PROVE  Goal
  <2>1. \A q \in Request : Held(q)' = Held(q)
    BY <1>3 DEF PresentGrant, Held
  <2>. QED
    BY <1>3, <2>1, LeafFrame DEF PresentGrant
<1>4. ASSUME NEW r \in Request, Handle(r) PROVE Goal
  <2>1. CASE ConsumeRefused(r)
    BY <2>1, <1>f DEF ConsumeRefused
  <2>2. CASE ConsumeReused(r)
    BY <2>2, <1>f DEF ConsumeReused
  <2>3. CASE ConsumeOk(r)
    <3>1. uses[r] \in Grant /\ status[uses[r]] = "stored"
      BY <2>3 DEF ConsumeOk, Redeemable, FlightOK
    <3>2. \A q \in Request \ {r} : Held(q)' = Held(q)
      BY <2>3 DEF ConsumeOk, Held
    <3>3. Held(r)' = (IF uses[r] \in Refresh THEN uses[r] ELSE None)
      BY <2>3 DEF ConsumeOk, Held
    <3>4. OneLiveToken'
      BY <2>3 DEF ConsumeOk, LeafInv, OneLiveToken
    <3>5. \A q \in Request, t \in Refresh :
            Held(q)' # None /\ status'[t] = "stored" => family[t] # family[Held(q)']
      <4> SUFFICES ASSUME NEW q \in Request, NEW t \in Refresh,
                          Held(q)' # None, status'[t] = "stored"
                   PROVE  family[t] # family[Held(q)']
        OBVIOUS
      <4>1. status[t] = "stored" /\ t # uses[r]
        BY <2>3, <3>1 DEF ConsumeOk
      <4>2. CASE q = r
        BY <3>1, <3>3, <4>1, <4>2 DEF LeafInv, OneLiveToken
      <4>3. CASE q # r
        BY <3>2, <4>1, <4>3 DEF LeafInv, HeldApart
      <4>. QED
        BY <4>2, <4>3
    <3>6. \A q1, q2 \in Request :
            Held(q1)' # None /\ Held(q2)' # None /\ q1 # q2
              => family[Held(q1)'] # family[Held(q2)']
      BY <3>1, <3>2, <3>3 DEF LeafInv, HeldApart
    <3>7. UNCHANGED family
      BY <2>3 DEF ConsumeOk
    <3>. QED
      BY <3>4, <3>5, <3>6, <3>7 DEF HeldApart
  <2>4. CASE RefuseExchange(r)
    BY <2>4, <1>f DEF RefuseExchange
  <2>5. ASSUME NEW t \in Refresh, NEW f \in Family, Mint(r, t, f) PROVE Goal
    <3>1. /\ status[t] = "unused" /\ status'[t] = "generated"
          /\ \A u \in Refresh \ {t} : status'[u] = status[u] /\ family'[u] = family[u]
          /\ family'[t] = f
      BY <2>5 DEF Mint
    <3>2. \A q \in Request \ {r} : Held(q)' = Held(q) /\ Held(q) # t
      <4> SUFFICES ASSUME NEW q \in Request \ {r} PROVE Held(q)' = Held(q) /\ Held(q) # t
        OBVIOUS
      <4>1. Held(q)' = Held(q)
        BY <2>5 DEF Mint, Held
      <4>2. Held(q) # t
        BY <3>1, HeldToken, IdsAssumption
      <4>. QED
        BY <4>1, <4>2
    <3>3. Held(r)' = t
      BY <2>5 DEF Mint, Held
    <3>4. uses[r] \in Grant
      BY <2>5 DEF Mint, FlightOK
    <3>5. \A u \in Refresh : status[u] = "stored" => family[u] # f
      <4> SUFFICES ASSUME NEW u \in Refresh, status[u] = "stored" PROVE family[u] # f
        OBVIOUS
      <4>1. CASE uses[r] \in Code
        BY <2>5, <4>1, IdsAssumption DEF Mint, UsedFamilies, LineageOK
      <4>2. CASE uses[r] \in Refresh
        <5>1. Held(r) = uses[r] /\ f = family[uses[r]] /\ uses[r] # None
          BY <2>5, <4>2, IdsAssumption DEF Mint, Held
        <5>. QED
          BY <5>1 DEF LeafInv, HeldApart
      <4>. QED
        BY <3>4, <4>1, <4>2
    <3>6. \A q \in Request \ {r} : Held(q) # None => family[Held(q)] # f
      <4> SUFFICES ASSUME NEW q \in Request \ {r}, Held(q) # None PROVE family[Held(q)] # f
        OBVIOUS
      <4>1. CASE uses[r] \in Code
        <5>1. f \notin UsedFamilies
          BY <2>5, <4>1 DEF Mint
        <5>2. family[Held(q)] \in UsedFamilies
          BY HeldToken, IdsAssumption DEF UsedFamilies
        <5>. QED
          BY <5>1, <5>2
      <4>2. CASE uses[r] \in Refresh
        <5>1. Held(r) = uses[r] /\ f = family[uses[r]] /\ uses[r] # None
          BY <2>5, <4>2, IdsAssumption DEF Mint, Held
        <5>. QED
          BY <5>1 DEF LeafInv, HeldApart
      <4>. QED
        BY <3>4, <4>1, <4>2
    <3>7. OneLiveToken'
      BY <3>1 DEF LeafInv, OneLiveToken
    <3>8. \A q \in Request, u \in Refresh :
            Held(q)' # None /\ status'[u] = "stored" => family'[u] # family'[Held(q)']
      BY <3>1, <3>2, <3>3, <3>5, HeldToken DEF LeafInv, HeldApart
    <3>9. \A q1, q2 \in Request :
            Held(q1)' # None /\ Held(q2)' # None /\ q1 # q2
              => family'[Held(q1)'] # family'[Held(q2)']
      BY <3>1, <3>2, <3>3, <3>6, HeldToken DEF LeafInv, HeldApart
    <3>. QED
      BY <3>7, <3>8, <3>9 DEF HeldApart
  <2>6. CASE Store(r)
    <3>1. makes[r] \in Grant /\ status[makes[r]] = "generated"
      BY <2>6 DEF Store, FlightOK
    <3>2. \A q \in Request \ {r} : Held(q)' = Held(q)
      BY <2>6 DEF Store, Held
    <3>3. Held(r)' = None
      BY <2>6 DEF Store, Held
    <3>4. \A t \in Refresh : status'[t] = "stored" => status[t] = "stored" \/ t = Held(r)
      BY <2>6, <3>1 DEF Store, Held
    <3>5. makes[r] \in Code => Held(r) = None
      BY <2>6, IdsAssumption DEF Store, Held
    <3>6. UNCHANGED family
      BY <2>6 DEF Store
    <3>7. \A t \in Refresh : t # None
      BY IdsAssumption
    <3>8. OneLiveToken'
      BY <3>4, <3>6, <3>7 DEF LeafInv, OneLiveToken, HeldApart
    <3>9. HeldApart'
      BY <3>2, <3>3, <3>4, <3>6, <3>7 DEF LeafInv, HeldApart
    <3>. QED
      BY <3>8, <3>9
  <2>7. CASE Respond(r)
    BY <2>7, <1>f DEF Respond
  <2>. QED
    BY <1>4, <2>1, <2>2, <2>3, <2>4, <2>5, <2>6, <2>7 DEF Handle
<1>5. ASSUME NEW r \in Request, Abort(r) PROVE Goal
  BY <1>5, <1>f DEF Abort
<1>6. CASE Restart
  <2>1. \A q \in Request : Held(q)' = None
    BY <1>6 DEF Restart, Held
  <2>. QED
    BY <1>6, <2>1, LeafFrame DEF Restart
<1>7. CASE Tick
  <2>1. \A q \in Request : Held(q)' = Held(q)
    BY <1>7 DEF Tick, Held
  <2>. QED
    BY <1>7, <2>1, LeafFrame DEF Tick
<1>8. CASE UNCHANGED vars
  <2>1. \A q \in Request : Held(q)' = Held(q)
    BY <1>8 DEF vars, Held
  <2>. QED
    BY <1>8, <2>1, LeafFrame DEF vars
<1>. QED
  BY <1>1, <1>2, <1>3, <1>4, <1>5, <1>6, <1>7, <1>8 DEF Next

\* A family always has at most one unspent token or one request holding it.
THEOREM LeafInvariant == Spec => []LeafInv
<1>1. Init => LeafInv
  BY GrantInit, LeafInit DEF LeafInv
<1>2. LeafInv /\ [Next]_vars => LeafInv'
  BY GrantStep, LeafStep DEF LeafInv
<1>. QED
  BY <1>1, <1>2, PTL DEF Spec

\* Rotation never leaves a family with two unspent refresh tokens in the store.
THEOREM OneLiveTokenPerFamily == Spec => []OneLiveToken
  BY LeafInvariant, PTL DEF LeafInv

-----------------------------------------------------------------------------
(* RefusedInv: a failed exchange burns its code *)

\* Every action keeps the codes of failed exchanges consumed and unminted.
LEMMA RefusedStep == GrantInv /\ RefusedInv /\ [Next]_vars => RefusedInv'
<1> SUFFICES ASSUME GrantInv, RefusedInv, [Next]_vars PROVE RefusedInv'
  OBVIOUS
<1> USE DEF GrantInv, TypeOK, store, sent, flight, history, Doc, Grant, RefusedInv
<1>f. ASSUME NEW r \in Request, Finish(r), UNCHANGED <<status, source, refused>>
      PROVE  RefusedInv'
  BY <1>f DEF Finish
<1>1. ASSUME NEW p \in Client, RegisterClient(p) PROVE RefusedInv'
  BY <1>1, IdsAssumption DEF RegisterClient
<1>2. ASSUME NEW r \in Request, NEW p \in Client, NEW c \in Code, Authorize(r, p, c)
      PROVE  RefusedInv'
  BY <1>2, IdsAssumption DEF Authorize
<1>3. ASSUME NEW r \in Request, NEW g \in Grant, NEW ok \in BOOLEAN, PresentGrant(r, g, ok)
      PROVE  RefusedInv'
  BY <1>3 DEF PresentGrant
<1>4. ASSUME NEW r \in Request, Handle(r) PROVE RefusedInv'
  <2>1. CASE ConsumeRefused(r)
    BY <2>1, <1>f DEF ConsumeRefused
  <2>2. CASE ConsumeReused(r)
    BY <2>2, <1>f DEF ConsumeReused
  <2>3. CASE ConsumeOk(r)
    BY <2>3 DEF ConsumeOk, Redeemable, FlightOK
  <2>4. CASE RefuseExchange(r)
    <3>1. /\ uses[r] \in Code
          /\ status[uses[r]] = "spent"
          /\ \A t \in Refresh : source[t] # uses[r]
      BY <2>4 DEF RefuseExchange, FlightOK
    <3>2. \A q \in Request \ {r} : /\ pc[q] = "mint" => uses[q] # uses[r]
                                   /\ pc[q] = "store" => makes[q] # uses[r]
      BY <2>4, <3>1 DEF RefuseExchange, FlightOK, FlightApart
    <3>3. UNCHANGED <<status, source>> /\ refused' = refused \cup {uses[r]}
      BY <2>4 DEF RefuseExchange
    <3>4. /\ pc'[r] = "idle"
          /\ \A q \in Request \ {r} : /\ pc'[q] = pc[q]
                                      /\ uses'[q] = uses[q]
                                      /\ makes'[q] = makes[q]
      BY <2>4 DEF RefuseExchange, Finish
    <3>. QED
      BY <3>1, <3>2, <3>3, <3>4
  <2>5. ASSUME NEW t \in Refresh, NEW f \in Family, Mint(r, t, f) PROVE RefusedInv'
    BY <2>5, IdsAssumption DEF Mint
  <2>6. CASE Store(r)
    BY <2>6 DEF Store, FlightOK
  <2>7. CASE Respond(r)
    BY <2>7, <1>f DEF Respond
  <2>. QED
    BY <1>4, <2>1, <2>2, <2>3, <2>4, <2>5, <2>6, <2>7 DEF Handle
<1>5. ASSUME NEW r \in Request, Abort(r) PROVE RefusedInv'
  BY <1>5, <1>f DEF Abort
<1>6. CASE Restart
  BY <1>6 DEF Restart, Status
<1>7. CASE Tick
  BY <1>7 DEF Tick
<1>8. CASE UNCHANGED vars
  BY <1>8 DEF vars
<1>. QED
  BY <1>1, <1>2, <1>3, <1>4, <1>5, <1>6, <1>7, <1>8 DEF Next

\* No exchange mints from a code that once failed PKCE or another check.
THEOREM RefusedCodesStayBurnt == Spec => []RefusedCodeIsBurnt
<1>1. Init => RefusedInv
  BY DEF Init, RefusedInv
<1>2. RefusedInv => RefusedCodeIsBurnt
  BY DEF RefusedInv, RefusedCodeIsBurnt
<1>. QED
  BY <1>1, <1>2, RefusedStep, GrantInvariant, PTL DEF Spec

-----------------------------------------------------------------------------
(* ReplayInv: reuse detection has no false positives *)

\* Every action keeps the count of sendings behind each consumption.
LEMMA ReplayStep == GrantInv /\ ReplayInv /\ [Next]_vars => ReplayInv'
<1> SUFFICES ASSUME GrantInv, ReplayInv, [Next]_vars PROVE ReplayInv'
  OBVIOUS
<1> USE DEF GrantInv, TypeOK, store, sent, flight, history, Doc, Grant, ReplayInv
<1>f. ASSUME NEW r \in Request, Finish(r), UNCHANGED <<status, presented, replayed>>
      PROVE  ReplayInv'
  BY <1>f DEF Finish
<1>1. ASSUME NEW p \in Client, RegisterClient(p) PROVE ReplayInv'
  BY <1>1, IdsAssumption DEF RegisterClient
<1>2. ASSUME NEW r \in Request, NEW p \in Client, NEW c \in Code, Authorize(r, p, c)
      PROVE  ReplayInv'
  BY <1>2, IdsAssumption DEF Authorize
<1>3. ASSUME NEW r \in Request, NEW g \in Grant, NEW ok \in BOOLEAN, PresentGrant(r, g, ok)
      PROVE  ReplayInv'
  BY <1>3 DEF PresentGrant
<1>4. ASSUME NEW r \in Request, Handle(r) PROVE ReplayInv'
  <2>1. CASE ConsumeRefused(r)
    BY <2>1, <1>f DEF ConsumeRefused
  <2>2. CASE ConsumeReused(r)
    BY <2>2, <1>f DEF ConsumeReused
  <2>3. CASE ConsumeOk(r)
    BY <2>3 DEF ConsumeOk, FlightOK
  <2>4. CASE RefuseExchange(r)
    BY <2>4, <1>f DEF RefuseExchange
  <2>5. ASSUME NEW t \in Refresh, NEW f \in Family, Mint(r, t, f) PROVE ReplayInv'
    BY <2>5 DEF Mint
  <2>6. CASE Store(r)
    BY <2>6 DEF Store
  <2>7. CASE Respond(r)
    BY <2>7, <1>f DEF Respond
  <2>. QED
    BY <1>4, <2>1, <2>2, <2>3, <2>4, <2>5, <2>6, <2>7 DEF Handle
<1>5. ASSUME NEW r \in Request, Abort(r) PROVE ReplayInv'
  BY <1>5, <1>f DEF Abort
<1>6. CASE Restart
  BY <1>6 DEF Restart
<1>7. CASE Tick
  BY <1>7 DEF Tick
<1>8. CASE UNCHANGED vars
  BY <1>8 DEF vars
<1>. QED
  BY <1>1, <1>2, <1>3, <1>4, <1>5, <1>6, <1>7, <1>8 DEF Next

\* The only step that compromises a family answers a token sent twice.
LEMMA CompromiseStep ==
  GrantInv /\ ReplayInv /\ CompromiseNeedsReplay /\ [Next]_vars => CompromiseNeedsReplay'
<1> SUFFICES ASSUME GrantInv, ReplayInv, CompromiseNeedsReplay, [Next]_vars,
                    NEW f \in compromised'
             PROVE  \E t \in replayed' : family'[t] = f
  BY DEF CompromiseNeedsReplay
<1> USE DEF GrantInv, TypeOK, store, sent, flight, history
<1>1. replayed \subseteq replayed'
  BY DEF Next, vars, RegisterClient, Authorize, PresentGrant, Handle, ConsumeRefused,
         ConsumeReused, ConsumeOk, RefuseExchange, Mint, Store, Respond, Abort,
         Restart, Tick
<1>2. CASE f \in compromised
  <2>1. PICK t \in replayed : family[t] = f
    BY <1>2 DEF CompromiseNeedsReplay
  <2>2. status[t] # "unused"
    BY <1>2, <2>1, IdsAssumption DEF LineageOK
  <2>3. family'[t] = family[t]
    BY <2>2 DEF Next, vars, RegisterClient, Authorize, PresentGrant, Handle,
                ConsumeRefused, ConsumeReused, ConsumeOk, RefuseExchange, Mint, Store,
                Respond, Abort, Restart, Tick
  <2>. QED
    BY <1>1, <2>1, <2>3
<1>3. CASE f \notin compromised
  <2>1. PICK r \in Request : ConsumeReused(r) /\ f = family[uses[r]]
    BY <1>3 DEF Next, vars, RegisterClient, Authorize, PresentGrant, Handle,
                ConsumeRefused, ConsumeReused, ConsumeOk, RefuseExchange, Mint, Store,
                Respond, Abort, Restart, Tick
  <2>2. uses[r] \in replayed
    BY <2>1 DEF ConsumeReused, Reused, ReplayInv
  <2>. QED
    BY <1>1, <2>1, <2>2 DEF ConsumeReused
<1>. QED
  BY <1>2, <1>3

\* Reuse detection only ever hits a family one of whose tokens was sent twice.
THEOREM NoFalseCompromise == Spec => []CompromiseNeedsReplay
<1>1. Init => ReplayInv /\ CompromiseNeedsReplay
  BY DEF Init, ReplayInv, CompromiseNeedsReplay, Doc, Grant
<1>. QED
  BY <1>1, ReplayStep, CompromiseStep, GrantInvariant, PTL DEF Spec

-----------------------------------------------------------------------------
(* ExpiryInv: the signature outlives the record *)

\* Every action, the clock's included, keeps signatures ahead of records.
LEMMA ExpiryStep ==
  GrantInv /\ ExpiryInv /\ JwtOutlivesRecord /\ [Next]_vars
    => ExpiryInv' /\ JwtOutlivesRecord'
<1> SUFFICES ASSUME GrantInv, ExpiryInv, JwtOutlivesRecord, [Next]_vars
             PROVE  ExpiryInv' /\ JwtOutlivesRecord'
  OBVIOUS
<1> DEFINE Goal == ExpiryInv' /\ JwtOutlivesRecord'
<1> USE DEF GrantInv, TypeOK, store, sent, flight, history, Doc, Grant, ExpiryInv,
            JwtOutlivesRecord
<1>1. \A g \in Grant : LifetimeOf(g) \in Nat
  BY TTLAssumption DEF LifetimeOf
<1>f. ASSUME UNCHANGED <<ttl, jwt>>,
             \A g \in Grant : status'[g] = "unused" => status[g] = "unused"
      PROVE  Goal
  BY <1>f
<1>2. ASSUME NEW p \in Client, RegisterClient(p) PROVE Goal
  BY <1>2, IdsAssumption DEF RegisterClient
<1>3. ASSUME NEW r \in Request, NEW p \in Client, NEW c \in Code, Authorize(r, p, c)
      PROVE  Goal
  <2>1. LifetimeOf(c) = CodeTTL /\ jwt[c] = 0 /\ ~(0 > 0)
    BY <1>3 DEF Authorize, LifetimeOf
  <2>2. \A g \in Grant \ {c} : ttl'[g] = ttl[g] /\ status'[g] = status[g]
    BY <1>3 DEF Authorize
  <2>3. ttl'[c] = CodeTTL /\ jwt' = jwt /\ status'[c] = "generated"
    BY <1>3 DEF Authorize
  <2>. QED
    BY <2>1, <2>2, <2>3, TTLAssumption
<1>4. ASSUME NEW r \in Request, NEW g \in Grant, NEW ok \in BOOLEAN, PresentGrant(r, g, ok)
      PROVE  Goal
  BY <1>4, <1>f DEF PresentGrant
<1>5. ASSUME NEW r \in Request, Handle(r) PROVE Goal
  <2>1. CASE ConsumeRefused(r)
    BY <2>1, <1>f DEF ConsumeRefused
  <2>2. CASE ConsumeReused(r)
    BY <2>2, <1>f DEF ConsumeReused
  <2>3. CASE ConsumeOk(r)
    BY <2>3, <1>f DEF ConsumeOk
  <2>4. CASE RefuseExchange(r)
    BY <2>4, <1>f DEF RefuseExchange
  <2>5. ASSUME NEW t \in Refresh, NEW f \in Family, Mint(r, t, f) PROVE Goal
    <3>1. LifetimeOf(t) = RefreshTTL /\ jwt[t] = 0 /\ ~(0 > 0)
      BY <2>5, IdsAssumption DEF Mint, LifetimeOf
    <3>2. \A g \in Grant \ {t} : ttl'[g] = ttl[g] /\ status'[g] = status[g]
      BY <2>5 DEF Mint
    <3>3. ttl'[t] = RefreshTTL /\ jwt' = jwt /\ status'[t] = "generated"
      BY <2>5 DEF Mint
    <3>. QED
      BY <3>1, <3>2, <3>3, TTLAssumption
  <2>6. CASE Store(r)
    BY <2>6, <1>f DEF Store
  <2>7. CASE Respond(r)
    <3>1. makes[r] \in Grant /\ status[makes[r]] # "unused"
      BY <2>7 DEF Respond, FlightOK
    <3>2. jwt'[makes[r]] = LifetimeOf(makes[r]) + 1
      BY <2>7, <3>1 DEF Respond, SignedFor
    <3>3. /\ \A g \in Grant \ {makes[r]} : jwt'[g] = jwt[g]
          /\ UNCHANGED <<ttl, status>>
      BY <2>7 DEF Respond
    <3>. QED
      BY <1>1, <3>1, <3>2, <3>3
  <2>. QED
    BY <1>5, <2>1, <2>2, <2>3, <2>4, <2>5, <2>6, <2>7 DEF Handle
<1>6. ASSUME NEW r \in Request, Abort(r) PROVE Goal
  BY <1>6, <1>f DEF Abort
<1>7. CASE Restart
  BY <1>7, <1>f DEF Restart
<1>8. CASE Tick
  <2>1. \A g \in Grant : ttl'[g] = Less(ttl[g]) /\ jwt'[g] = Less(jwt[g])
    BY <1>8 DEF Tick
  <2>. QED
    BY <1>1, <1>8, <2>1 DEF Tick, Less
<1>9. CASE UNCHANGED vars
  BY <1>9, <1>f DEF vars
<1>. QED
  BY <1>2, <1>3, <1>4, <1>5, <1>6, <1>7, <1>8, <1>9 DEF Next

\* verifyJwt never turns away a code or token the store would still redeem.
THEOREM SignatureOutlivesRecord == Spec => []JwtOutlivesRecord
<1>1. Init => ExpiryInv /\ JwtOutlivesRecord
  BY TTLAssumption DEF Init, ExpiryInv, JwtOutlivesRecord, LifetimeOf, Doc, Grant
<1>. QED
  BY <1>1, ExpiryStep, GrantInvariant, PTL DEF Spec

-----------------------------------------------------------------------------
(* Action properties: what a compromised family may never do again *)

\* After reuse detection no request passes consumeRefreshToken for the family.
THEOREM CompromisedFamilyStops == Spec => CompromisedFamilyWindsDown
<1>1. GrantInv /\ [Next]_vars
        => [\A f \in compromised : Minting(f)' \subseteq Minting(f)]_vars
  <2> SUFFICES ASSUME GrantInv, Next, NEW f \in compromised, NEW q \in Minting(f)'
               PROVE  q \in Minting(f)
    OBVIOUS
  <2> USE DEF GrantInv, TypeOK, store, sent, flight, history, Doc, Grant, Minting
  <2>1. ASSUME NEW r \in Request, Finish(r), UNCHANGED family PROVE q \in Minting(f)
    BY <2>1 DEF Finish
  <2>2. ASSUME NEW r \in Request, ConsumeOk(r) PROVE q \in Minting(f)
    BY <2>2 DEF ConsumeOk, Redeemable
  <2>3. ASSUME NEW r \in Request, NEW t \in Refresh, NEW h \in Family, Mint(r, t, h)
        PROVE  q \in Minting(f)
    <3>1. q # r /\ pc[q] = "mint" /\ uses'[q] = uses[q] /\ status[uses[q]] = "spent"
      BY <2>3 DEF Mint, FlightOK
    <3>. QED
      BY <2>3, <3>1 DEF Mint
  <2>4. ASSUME NEW r \in Request, Handle(r) PROVE q \in Minting(f)
    <3>1. CASE ConsumeRefused(r) \/ ConsumeReused(r) \/ RefuseExchange(r) \/ Respond(r)
      BY <3>1, <2>1 DEF ConsumeRefused, ConsumeReused, RefuseExchange, Respond
    <3>2. CASE Store(r)
      BY <3>2 DEF Store
    <3>. QED
      BY <2>2, <2>3, <2>4, <3>1, <3>2 DEF Handle
  <2>5. ASSUME NEW r \in Request, Abort(r) PROVE q \in Minting(f)
    BY <2>1, <2>5 DEF Abort
  <2>6. ASSUME \/ \E p \in Client : RegisterClient(p)
               \/ \E r \in Request, p \in Client, c \in Code : Authorize(r, p, c)
               \/ \E r \in Request, g \in Grant, ok \in BOOLEAN : PresentGrant(r, g, ok)
               \/ Restart
               \/ Tick
        PROVE  q \in Minting(f)
    BY <2>6 DEF RegisterClient, Authorize, PresentGrant, Restart, Tick
  <2>. QED
    BY <2>4, <2>5, <2>6 DEF Next
<1>. QED
  BY <1>1, GrantInvariant, PTL DEF Spec, CompromisedFamilyWindsDown

\* The compromised mark disappears only together with the family's documents.
THEOREM CompromiseStays == Spec => CompromiseIsPermanent
<1>1. GrantInv /\ [Next]_vars
        => [\A f \in compromised \ compromised' :
              \A t \in Refresh : family[t] = f => status'[t] \notin {"stored", "spent"}]_vars
  <2> SUFFICES ASSUME GrantInv, Next, NEW f \in compromised, f \notin compromised',
                      NEW t \in Refresh
               PROVE  status'[t] \notin {"stored", "spent"}
    OBVIOUS
  <2>1. Restart
    BY DEF Next, RegisterClient, Authorize, PresentGrant, Handle, ConsumeRefused,
           ConsumeReused, ConsumeOk, Redeemable, RefuseExchange, Mint, Store, Respond,
           Abort, Tick, store
  <2>. QED
    BY <2>1 DEF Restart, Doc, Grant
<1>. QED
  BY <1>1, GrantInvariant, PTL DEF Spec, CompromiseIsPermanent

-----------------------------------------------------------------------------
(* Refinement: the token endpoint implements OneTimeGrants *)

USE DEF OneTime!Grant

\* The pieces of the mapping are grants, kept apart by GrantInv.
LEMMA MappingTypes ==
  ASSUME GrantInv
  PROVE  /\ Consumed \subseteq Grant /\ ToBeStored \subseteq Grant
         /\ \A g \in Consumed : status[g] = "spent"
         /\ \A g \in ToBeStored : status[g] = "generated"
  BY DEF GrantInv, FlightOK, Consumed, ToBeStored

\* Ending request r closes the grant it holds, if it holds one.
LEMMA FinishMaps ==
  ASSUME GrantInv, NEW r \in Request, Finish(r), UNCHANGED <<status, source>>
  PROVE  [OneTime!Next]_OneTime!vars
<1> USE DEF GrantInv, TypeOK, Finish, Grant
<1> DEFINE mine == IF pc[r] = "mint" THEN {uses[r]}
                   ELSE IF pc[r] = "store" THEN {makes[r]} ELSE {}
<1>1. mine \subseteq Grant
  BY DEF FlightOK
<1>2. Consumed' = Consumed \ mine
  <2>1. \A q \in Request \ {r} : pc[q] = "mint" => uses[q] \notin mine
    BY DEF FlightOK, FlightApart
  <2>. QED
    BY <2>1 DEF Consumed
<1>3. ToBeStored' = ToBeStored \ mine
  <2>1. \A q \in Request \ {r} : pc[q] = "store" => makes[q] \notin mine
    BY DEF FlightOK, FlightApart
  <2>. QED
    BY <2>1 DEF ToBeStored
<1>4. \A g \in mine : status[g] \in {"generated", "spent"} /\ g \in Consumed \cup ToBeStored
  BY DEF FlightOK, Consumed, ToBeStored
<1>5. OpenGrants' = OpenGrants \ mine
  BY <1>2, <1>4 DEF OpenGrants
<1>6. ClosedGrants' = ClosedGrants \cup mine
  BY <1>1, <1>3, <1>4, <1>5, MappingTypes DEF ClosedGrants
<1>7. mine \cap ClosedGrants = {}
  BY <1>4 DEF ClosedGrants, OpenGrants
<1>8. CASE mine = {}
  BY <1>5, <1>6, <1>8 DEF OneTime!vars
<1>9. CASE mine # {}
  <2>1. OneTime!Close(mine)
    BY <1>5, <1>6, <1>7, <1>9 DEF OneTime!Close
  <2>. QED
    BY <1>1, <2>1 DEF OneTime!Next
<1>. QED
  BY <1>8, <1>9

\* Initially no grant is open, closed or minted from in either specification.
LEMMA OneTimeInit == Init => OneTime!Init
  BY IdsAssumption
     DEF Init, OneTime!Init, OpenGrants, ClosedGrants, Consumed, ToBeStored, Doc, Grant

\* A step that leaves the pieces of the mapping alone is a stutter.
LEMMA MapFrame ==
  ASSUME \A g \in Grant : status'[g] = status[g],
         UNCHANGED <<source, Consumed, ToBeStored>>
  PROVE  UNCHANGED OneTime!vars
  BY DEF OneTime!vars, OpenGrants, ClosedGrants

\* Every action of the handlers opens, redeems or closes grants, or stutters.
LEMMA OneTimeStep == GrantInv /\ [Next]_vars => [OneTime!Next]_OneTime!vars
<1> SUFFICES ASSUME GrantInv, [Next]_vars PROVE [OneTime!Next]_OneTime!vars
  OBVIOUS
<1> DEFINE Goal == [OneTime!Next]_OneTime!vars
<1> USE DEF GrantInv, TypeOK, store, sent, flight, history, Doc, Grant
<1>1. ASSUME NEW p \in Client, RegisterClient(p) PROVE Goal
  BY <1>1, IdsAssumption, MapFrame DEF RegisterClient, Consumed, ToBeStored
<1>2. ASSUME NEW r \in Request, NEW p \in Client, NEW c \in Code, Authorize(r, p, c)
      PROVE  Goal
  <2>1. Consumed' = Consumed /\ ToBeStored' = ToBeStored \cup {c}
    BY <1>2 DEF Authorize, Consumed, ToBeStored
  <2>2. /\ status[c] = "unused" /\ status'[c] = "generated"
        /\ \A g \in Grant \ {c} : status'[g] = status[g]
    BY <1>2 DEF Authorize
  <2>3. OpenGrants' = OpenGrants
    BY <2>1, <2>2 DEF OpenGrants
  <2>4. ClosedGrants' = ClosedGrants
    BY <2>1, <2>2, <2>3 DEF ClosedGrants
  <2>. QED
    BY <1>2, <2>3, <2>4 DEF Authorize, OneTime!vars
<1>3. ASSUME NEW r \in Request, NEW g \in Grant, NEW ok \in BOOLEAN, PresentGrant(r, g, ok)
      PROVE  Goal
  BY <1>3, MapFrame DEF PresentGrant, Consumed, ToBeStored
<1>4. ASSUME NEW r \in Request, Handle(r) PROVE Goal
  <2>1. CASE ConsumeRefused(r) \/ ConsumeReused(r) \/ RefuseExchange(r) \/ Respond(r)
    BY <2>1, FinishMaps DEF ConsumeRefused, ConsumeReused, RefuseExchange, Respond
  <2>2. CASE ConsumeOk(r)
    <3>1. uses[r] \in Grant /\ status[uses[r]] = "stored"
      BY <2>2 DEF ConsumeOk, Redeemable, FlightOK
    <3>2. Consumed' = Consumed \cup {uses[r]} /\ ToBeStored' = ToBeStored
      BY <2>2 DEF ConsumeOk, Consumed, ToBeStored
    <3>3. /\ status'[uses[r]] = "spent"
          /\ \A g \in Grant \ {uses[r]} : status'[g] = status[g]
      BY <2>2, <3>1 DEF ConsumeOk
    <3>4. OpenGrants' = OpenGrants
      BY <3>1, <3>2, <3>3 DEF OpenGrants
    <3>5. ClosedGrants' = ClosedGrants
      BY <3>1, <3>2, <3>3, <3>4 DEF ClosedGrants
    <3>. QED
      BY <2>2, <3>4, <3>5 DEF ConsumeOk, OneTime!vars
  <2>3. ASSUME NEW t \in Refresh, NEW f \in Family, Mint(r, t, f) PROVE Goal
    <3>1. /\ uses[r] \in Grant /\ status[uses[r]] = "spent"
          /\ status[t] = "unused" /\ status'[t] = "generated"
          /\ \A g \in Grant \ {t} : status'[g] = status[g]
      BY <2>3 DEF Mint, FlightOK
    <3>2. \A q \in Request \ {r} : pc[q] = "mint" => uses[q] # uses[r]
      BY <2>3 DEF Mint, FlightApart
    <3>3. Consumed' = Consumed \ {uses[r]}
      BY <2>3, <3>2 DEF Mint, Consumed
    <3>4. ToBeStored' = ToBeStored \cup {t}
      BY <2>3 DEF Mint, ToBeStored
    <3>5. OpenGrants' = OpenGrants \ {uses[r]}
      BY <3>1, <3>3 DEF OpenGrants
    <3>6. uses[r] \in OpenGrants /\ uses[r] \notin ToBeStored /\ t # uses[r]
      BY <2>3, <3>1, MappingTypes DEF Mint, OpenGrants, Consumed
    <3>7. ClosedGrants' = ClosedGrants \cup {uses[r]}
      BY <3>1, <3>4, <3>5, <3>6 DEF ClosedGrants
    <3>8. t \notin OpenGrants \cup ClosedGrants
      BY <3>1, MappingTypes DEF OpenGrants, ClosedGrants
    <3>9. source[t] = None /\ source' = [source EXCEPT ![t] = uses[r]]
      BY <2>3 DEF Mint, LineageOK
    <3>10. OneTime!Redeem(uses[r], t)
      BY <3>5, <3>6, <3>7, <3>8, <3>9 DEF OneTime!Redeem
    <3>. QED
      BY <3>1, <3>10 DEF OneTime!Next
  <2>4. CASE Store(r)
    <3>1. /\ makes[r] \in Grant /\ status[makes[r]] = "generated"
          /\ status'[makes[r]] = "stored"
          /\ \A g \in Grant \ {makes[r]} : status'[g] = status[g]
      BY <2>4 DEF Store, FlightOK
    <3>2. \A q \in Request \ {r} : pc[q] = "store" => makes[q] # makes[r]
      BY <2>4 DEF Store, FlightApart
    <3>3. Consumed' = Consumed
      BY <2>4 DEF Store, Consumed
    <3>4. ToBeStored' = ToBeStored \ {makes[r]} /\ makes[r] \in ToBeStored
      BY <2>4, <3>2 DEF Store, ToBeStored
    <3>5. OpenGrants' = OpenGrants \cup {makes[r]}
      BY <3>1, <3>3 DEF OpenGrants
    <3>6. ClosedGrants' = ClosedGrants
      BY <3>1, <3>4, <3>5 DEF ClosedGrants
    <3>7. makes[r] \notin OpenGrants \cup ClosedGrants
      BY <3>1, <3>4, MappingTypes DEF OpenGrants, ClosedGrants
    <3>8. makes[r] \in Refresh => source[makes[r]] # None
      BY <3>1 DEF LineageOK
    <3>9. OneTime!Open(makes[r])
      BY <2>4, <3>5, <3>6, <3>7, <3>8 DEF Store, OneTime!Open
    <3>. QED
      BY <3>1, <3>9 DEF OneTime!Next
  <2>. QED
    BY <1>4, <2>1, <2>2, <2>3, <2>4 DEF Handle
<1>5. ASSUME NEW r \in Request, Abort(r) PROVE Goal
  BY <1>5, FinishMaps DEF Abort
<1>6. CASE Restart
  <2> DEFINE lost == OpenGrants \cup ToBeStored
  <2>1. Consumed' = {} /\ ToBeStored' = {} /\ UNCHANGED source
    BY <1>6 DEF Restart, Consumed, ToBeStored
  <2>2. \A g \in Grant : /\ status'[g] # "stored"
                         /\ status'[g] = "unused" <=> status[g] = "unused"
    BY <1>6 DEF Restart
  <2>3. OpenGrants' = {}
    BY <2>1, <2>2 DEF OpenGrants
  <2>4. lost \subseteq {g \in Grant : status[g] # "unused"}
    BY MappingTypes DEF OpenGrants
  <2>5. ClosedGrants' = ClosedGrants \cup lost /\ lost \cap ClosedGrants = {}
    BY <2>1, <2>2, <2>3, <2>4 DEF ClosedGrants
  <2>6. CASE lost = {}
    BY <2>1, <2>3, <2>5, <2>6 DEF OneTime!vars
  <2>7. CASE lost # {}
    <3>1. OneTime!Close(lost)
      BY <2>1, <2>3, <2>5, <2>7 DEF OneTime!Close
    <3>. QED
      BY <2>4, <3>1 DEF OneTime!Next
  <2>. QED
    BY <2>6, <2>7
<1>7. CASE Tick
  BY <1>7, MapFrame DEF Tick, Consumed, ToBeStored
<1>8. CASE UNCHANGED vars
  BY <1>8, MapFrame DEF vars, Consumed, ToBeStored
<1>. QED
  BY <1>1, <1>2, <1>3, <1>4, <1>5, <1>6, <1>7, <1>8 DEF Next

\* Codes and refresh tokens are one-time grants, for both stores, under every
\* interleaving, failure and restart.
THEOREM TokensAreOneTimeGrants == Spec => ImplementsOneTimeGrants
  BY OneTimeInit, OneTimeStep, GrantInvariant, PTL
     DEF Spec, ImplementsOneTimeGrants, OneTime!Spec

\* The whole inductive invariant, as the model checker also checks it.
THEOREM InductiveInvariant == Spec => []IInv
<1>1. Init => RefusedInv /\ ReplayInv /\ CompromiseNeedsReplay
  BY DEF Init, RefusedInv, ReplayInv, CompromiseNeedsReplay, Doc, Grant
<1>2. Init => ExpiryInv /\ JwtOutlivesRecord
  BY TTLAssumption DEF Init, ExpiryInv, JwtOutlivesRecord, LifetimeOf, Doc, Grant
<1>. QED
  BY <1>1, <1>2, RefusedStep, ReplayStep, CompromiseStep, ExpiryStep, GrantInvariant,
     LeafInvariant, PTL DEF Spec, IInv

-----------------------------------------------------------------------------
(* The HTTP fronts the tokens are presented to: the proofs about HttpServers,  *)
(* for any requests, secrets, betas, lifetimes, clock and audit buffer. The     *)
(* state below is the fronts'; they share nothing but the tokens' form with     *)
(* the token service.                                                        *)

\* What an admitted request remembers of its credential and of the moment.
Admission == [server : Server, by : Credential, tool : Tool,
              tier : Tool, at : 0..MaxTime, secret : 0..MaxRestarts]

(* An admitted request had the right to its tier, and to be admitted, when it   *)
(* was: with these keys configured, no later than time t.                     *)
AdmissionOK(o, keys, t) ==
  /\ o \in Admission /\ o.at <= t
  /\ o.tier = "pro" /\ o.at >= BetaEnd[o.server] =>
       \/ IsKey(o.by) /\ o.server \in keys
       \/ o.server = "jpbids" /\ "jpbids" \notin keys
       \/ o.server = "gateway" /\ Honoured(o)
  /\ o.server = "jpbids" /\ "jpbids" \in keys /\ o.by.kind = "jwt"
     /\ o.at >= BetaEnd["jpbids"] => Honoured(o)

(* What is asked of the answers, one by one.                                  *)
AnswerOK(a, keys) ==
  /\ a \in Answer
  /\ a.served /\ a.tool = "pro" /\ a.at >= BetaEnd[a.server] =>
       \/ IsKey(a.by) /\ a.server \in keys
       \/ a.server = "jpbids" /\ "jpbids" \notin keys
       \/ a.server = "gateway" /\ Honoured(a)
  /\ a.server \in keys =>
       /\ IsKey(a.by) => a.status # 401
       /\ a.server = "jpbids" /\ a.status = 200 /\ a.by.kind = "jwt" /\ a.at >= BetaEnd["jpbids"] =>
            Honoured(a)

\* What the audit buffer holds.
AuditEvent == [tool : Tool, decision : {"allowed"}]

\* Between admission and answer a request keeps what it had the right to, while time
\* passes, tokens expire and secrets change.
FrontInv ==
  /\ now \in 0..MaxTime /\ secret \in [Server -> 0..MaxRestarts] /\ tokens \subseteq Jwt
  /\ open \in [HttpRequest -> Admission \cup {Idle}]
  /\ answer \in [HttpRequest -> Answer \cup {NoValue}]
  /\ keysSet \subseteq Server /\ betaPro \in BOOLEAN
  /\ audit \in Seq(AuditEvent) /\ Len(audit) <= MaxAudit
  /\ \A r \in HttpRequest : open[r] # Idle => AdmissionOK(open[r], keysSet, now)
  /\ \A r \in HttpRequest : answer[r] # NoValue => AnswerOK(answer[r], keysSet)

\* A request that is not refused had the right to what it gets.
LEMMA Admitted ==
  ASSUME FrontInv, NEW s \in Server, NEW tool \in Tool,
         NEW c \in {NoCredential} \cup Words \cup tokens, ~Unauthorized(s, c)
  PROVE  AdmissionOK([server |-> s, by |-> c, tool |-> tool, tier |-> TierOf(s, c), at |-> now,
                      secret |-> secret[s]], keysSet, now)
<1>1. c \in Credential
  BY DEF FrontInv, Credential
<1>2. TierOf(s, c) \in Tool
  BY DEF TierOf, Tier, Tool
<1>3. now \in Nat /\ BetaEnd[s] \in Nat /\ secret[s] \in 0..MaxRestarts
  BY ServersAssumption DEF FrontInv
<1>4. PICK o : o = [server |-> s, by |-> c, tool |-> tool, tier |-> TierOf(s, c), at |-> now,
                    secret |-> secret[s]]
  OBVIOUS
<1>5. ASSUME SignedIn(s, c) PROVE Honoured(o)
  BY <1>4, <1>5 DEF SignedIn, Verified, Honoured
<1>6. ASSUME TierOf(s, c) = "pro", now >= BetaEnd[s]
      PROVE  \/ IsKey(c) /\ s \in keysSet
             \/ s = "jpbids" /\ "jpbids" \notin keysSet
             \/ s = "gateway" /\ Honoured(o)
  <2>1. ~InBeta(s)
    BY <1>3, <1>6 DEF InBeta
  <2>2. ~IsKey(NoCredential)
    BY DEF IsKey, NoCredential, Plain
  <2>3. CASE s = "gateway" /\ SignedIn(s, c)
    BY <1>5, <2>3
  <2>4. CASE s = "jpbids" /\ SignedIn(s, c)
    BY <1>6, <2>1, <2>2, <2>4 DEF TierOf, Tier
  <2>5. CASE ~SignedIn(s, c)
    BY <1>6, <2>1, <2>5 DEF TierOf, Tier
  <2>. QED
    BY <2>3, <2>4, <2>5 DEF Server
<1>7. ASSUME s = "jpbids", "jpbids" \in keysSet, c.kind = "jwt", now >= BetaEnd["jpbids"]
      PROVE  Honoured(o)
  <2>1. SignedIn(s, c)
    BY <1>3, <1>7 DEF Unauthorized, Tier, InBeta, IsKey, Dotted
  <2>. QED
    BY <1>5, <2>1
<1>8. o \in Admission
  BY <1>1, <1>2, <1>3, <1>4 DEF Admission, FrontInv
<1>9. AdmissionOK(o, keysSet, now)
  <2>1. /\ o.server = s /\ o.by = c /\ o.tier = TierOf(s, c) /\ o.at = now
    BY <1>4
  <2>2. o.at <= now
    BY <1>3, <2>1
  <2>. QED
    BY <1>6, <1>7, <1>8, <2>1, <2>2 DEF AdmissionOK
<1>. QED
  BY <1>4, <1>9

\* A configured key is never refused, whether or not it looks like a JWT.
LEMMA KeysPass ==
  ASSUME NEW s \in Server, NEW c, s \in keysSet, IsKey(c)
  PROVE  ~Unauthorized(s, c)
<1>1. NoCredential.kind = "none"
  BY DEF NoCredential, Plain
<1>2. c.kind # "jwt" /\ c.kind # "none"
  BY DEF IsKey
<1>3. ~Verified(s, c) /\ Tier(s, c) = "pro"
  BY <1>2 DEF Verified, Tier
<1>. QED
  BY <1>1, <1>2, <1>3 DEF Unauthorized

\* The buffer drops its oldest event when it is full.
LEMMA RecordedFits ==
  ASSUME FrontInv, NEW e \in AuditEvent
  PROVE  Recorded(e) \in Seq(AuditEvent) /\ Len(Recorded(e)) <= MaxAudit
<1>1. /\ audit \in Seq(AuditEvent) /\ Len(audit) \in Nat /\ Len(audit) <= MaxAudit
      /\ MaxAudit \in Nat \ {0}
  BY ServersAssumption DEF FrontInv
<1>2. <<e>> \in Seq(AuditEvent) /\ Len(<<e>>) = 1
  OBVIOUS
<1>3. CASE Len(audit) = MaxAudit
  <2>1. Front(audit) \in Seq(AuditEvent) /\ Len(Front(audit)) = Len(audit) - 1
    BY <1>1, <1>3 DEF Front
  <2>2. Recorded(e) = <<e>> \o Front(audit)
    BY <1>3 DEF Recorded
  <2>. QED
    BY <1>1, <1>2, <1>3, <2>1, <2>2
<1>4. CASE Len(audit) # MaxAudit
  <2>1. Recorded(e) = <<e>> \o audit
    BY <1>4 DEF Recorded
  <2>. QED
    BY <1>1, <1>2, <1>4, <2>1
<1>. QED
  BY <1>3, <1>4

-----------------------------------------------------------------------------
LEMMA FrontInit ==
  ASSUME HttpInit
  PROVE  FrontInv
<1>1. MaxTime \in Nat /\ MaxRestarts \in Nat /\ MaxAudit \in Nat
  BY ServersAssumption
<1>. QED
  BY <1>1 DEF HttpInit, FrontInv

LEMMA PostStep ==
  ASSUME FrontInv, NEW r \in HttpRequest, NEW s \in Server,
         NEW fault \in Fault, NEW tool \in Tool,
         NEW c \in {NoCredential} \cup Words \cup tokens, Post(r, s, fault, c, tool)
  PROVE  FrontInv'
<1>1. /\ UNCHANGED <<keysSet, betaPro, now, secret, tokens>> /\ open[r] = Idle
  BY DEF Post, config
<1>2. CASE StatusOf(s, fault, c) = 200
  <2>1. PICK o : o = [server |-> s, by |-> c, tool |-> tool, tier |-> TierOf(s, c), at |-> now,
                      secret |-> secret[s]]
    OBVIOUS
  <2>2. /\ open' = [open EXCEPT ![r] = o] /\ answer' = [answer EXCEPT ![r] = NoValue]
        /\ IF s = "gateway"
           THEN audit' = Recorded([tool |-> tool, decision |-> "allowed"])
           ELSE UNCHANGED audit
    BY <1>2, <2>1 DEF Post
  <2>3. ~Unauthorized(s, c)
    BY <1>2 DEF StatusOf
  <2>4. AdmissionOK(o, keysSet, now)
    BY <2>1, <2>3, Admitted
  <2>5. audit' \in Seq(AuditEvent) /\ Len(audit') <= MaxAudit
    <3>1. PICK e \in AuditEvent : e = [tool |-> tool, decision |-> "allowed"]
      BY DEF AuditEvent
    <3>2. Recorded(e) \in Seq(AuditEvent) /\ Len(Recorded(e)) <= MaxAudit
      BY RecordedFits
    <3>3. audit' = Recorded(e) \/ audit' = audit
      BY <2>2, <3>1
    <3>. QED
      BY <3>2, <3>3 DEF FrontInv
  <2>6. \A q \in HttpRequest : open'[q] = IF q = r THEN o ELSE open[q]
    BY <2>2 DEF FrontInv
  <2>7. \A q \in HttpRequest : answer'[q] = IF q = r THEN NoValue ELSE answer[q]
    BY <2>2 DEF FrontInv
  <2>8. \A q \in HttpRequest : open'[q] # Idle => AdmissionOK(open'[q], keysSet, now)
    BY <2>4, <2>6 DEF FrontInv
  <2>9. \A q \in HttpRequest : answer'[q] # NoValue => AnswerOK(answer'[q], keysSet')
    BY <1>1, <2>7 DEF FrontInv
  <2>10. \A q \in HttpRequest : open'[q] # Idle => AdmissionOK(open'[q], keysSet', now')
    BY <1>1, <2>8 DEF AdmissionOK
  <2>11. /\ open' \in [HttpRequest -> Admission \cup {Idle}]
         /\ answer' \in [HttpRequest -> Answer \cup {NoValue}]
    BY <2>2, <2>4 DEF FrontInv, AdmissionOK
  <2>. QED
    BY <1>1, <2>5, <2>9, <2>10, <2>11 DEF FrontInv
<1>3. CASE StatusOf(s, fault, c) # 200
  <2>1. PICK refusal : refusal = StatusOf(s, fault, c)
    OBVIOUS
  <2>2. refusal \in {400, 401, 403}
    BY <1>3, <2>1 DEF StatusOf
  <2>3. PICK by : by = IF refusal = 401 THEN c ELSE NoCredential
    OBVIOUS
  <2>4. PICK a : a = Answered(s, refusal, by, "free", FALSE, 0, 0)
    OBVIOUS
  <2>5. answer' = [answer EXCEPT ![r] = a] /\ UNCHANGED <<open, audit>>
    BY <1>3, <2>1, <2>3, <2>4 DEF Post
  <2>6. a = [server |-> s, status |-> refusal, by |-> by, tool |-> "free", served |-> FALSE, at |-> 0,
             secret |-> 0]
    BY <2>4 DEF Answered
  <2>7. by \in Credential
    BY <2>3 DEF Credential, FrontInv
  <2>8. a \in Answer
    <3>1. 0 \in 0..MaxTime /\ 0 \in 0..MaxRestarts
      BY ServersAssumption
    <3>. QED
      BY <2>2, <2>6, <2>7, <3>1 DEF Answer, Tool
  <2>9. refusal = 401 => Unauthorized(s, c)
    BY <2>1 DEF StatusOf
  <2>10. s \in keysSet /\ IsKey(by) => refusal # 401
    BY <2>3, <2>9, KeysPass
  <2>11. AnswerOK(a, keysSet)
    BY <2>2, <2>6, <2>8, <2>10 DEF AnswerOK
  <2>12. \A q \in HttpRequest : answer'[q] = IF q = r THEN a ELSE answer[q]
    BY <2>5 DEF FrontInv
  <2>13. \A q \in HttpRequest : answer'[q] # NoValue => AnswerOK(answer'[q], keysSet')
    BY <1>1, <2>11, <2>12 DEF FrontInv
  <2>14. \A q \in HttpRequest : open'[q] # Idle => AdmissionOK(open'[q], keysSet', now')
    BY <1>1, <2>5 DEF FrontInv, AdmissionOK
  <2>15. answer' \in [HttpRequest -> Answer \cup {NoValue}]
    BY <2>5, <2>8 DEF FrontInv
  <2>. QED
    BY <1>1, <2>5, <2>13, <2>14, <2>15 DEF FrontInv
<1>. QED
  BY <1>2, <1>3

LEMMA AnswersStep ==
  ASSUME FrontInv, NEW r \in HttpRequest, Answers(r)
  PROVE  FrontInv'
<1>1. /\ UNCHANGED <<keysSet, betaPro, now, secret, tokens, audit>> /\ open[r] # Idle
      /\ open' = [open EXCEPT ![r] = Idle]
  BY DEF Answers, config
<1>2. PICK o : o = open[r]
  OBVIOUS
<1>3. AdmissionOK(o, keysSet, now)
  BY <1>1, <1>2 DEF FrontInv
<1>4. PICK a : a = [server |-> o.server, status |-> 200, by |-> o.by, tool |-> o.tool,
                    served |-> (o.tool = "free" \/ o.tier = "pro"), at |-> o.at,
                    secret |-> o.secret]
  OBVIOUS
<1>5. answer' = [answer EXCEPT ![r] = a]
  BY <1>2, <1>4 DEF Answers, Answered
<1>6. a \in Answer
  BY <1>3, <1>4 DEF AdmissionOK, Admission, Answer, Tool
<1>7. AnswerOK(a, keysSet)
  <2>1. a.served /\ a.tool = "pro" => o.tier = "pro"
    BY <1>4
  <2>2. a.status = 200 /\ a.by = o.by /\ a.server = o.server /\ a.at = o.at /\ a.secret = o.secret
    BY <1>4
  <2>. QED
    BY <1>3, <1>6, <2>1, <2>2 DEF AnswerOK, AdmissionOK, Honoured
<1>8. \A q \in HttpRequest : answer'[q] = IF q = r THEN a ELSE answer[q]
  BY <1>5 DEF FrontInv
<1>9. \A q \in HttpRequest : open'[q] = IF q = r THEN Idle ELSE open[q]
  BY <1>1 DEF FrontInv
<1>10. \A q \in HttpRequest : answer'[q] # NoValue => AnswerOK(answer'[q], keysSet')
  BY <1>1, <1>7, <1>8 DEF FrontInv
<1>11. \A q \in HttpRequest : open'[q] # Idle => AdmissionOK(open'[q], keysSet', now')
  BY <1>1, <1>9 DEF FrontInv, AdmissionOK
<1>12. /\ open' \in [HttpRequest -> Admission \cup {Idle}]
       /\ answer' \in [HttpRequest -> Answer \cup {NoValue}]
  BY <1>1, <1>5, <1>6 DEF FrontInv
<1>. QED
  BY <1>1, <1>10, <1>11, <1>12 DEF FrontInv

LEMMA FrontStep ==
  ASSUME FrontInv, [HttpNext]_httpVars
  PROVE  FrontInv'
<1>0. /\ MaxTime \in Nat /\ MaxRestarts \in Nat /\ Lifetime \in Nat
      /\ now \in 0..MaxTime /\ secret \in [Server -> 0..MaxRestarts]
  BY ServersAssumption DEF FrontInv
<1>1. ASSUME NEW r \in HttpRequest, Closes(r) PROVE FrontInv'
  <2>1. \A q \in HttpRequest : open'[q] = IF q = r THEN Idle ELSE open[q]
    BY <1>1 DEF Closes, FrontInv
  <2>. QED
    BY <1>1, <2>1 DEF Closes, config, FrontInv, AdmissionOK, AnswerOK
<1>2. ASSUME NEW s \in Server, RestartServer(s) PROVE FrontInv'
  <2>1. /\ secret["jpbids"] + secret["gateway"] < MaxRestarts
        /\ secret' = IF s \in SecretSet THEN secret ELSE [secret EXCEPT ![s] = @ + 1]
        /\ UNCHANGED <<keysSet, betaPro, now, tokens, answer>>
    BY <1>2 DEF RestartServer, config
  <2>2. secret' \in [Server -> 0..MaxRestarts]
    BY <1>0, <2>1 DEF Server
  <2>3. audit' \in Seq(AuditEvent) /\ Len(audit') <= MaxAudit
    <3>1. <<>> \in Seq(AuditEvent) /\ Len(<<>>) = 0 /\ 0 <= MaxAudit
      BY ServersAssumption
    <3>2. audit' = <<>> \/ audit' = audit
      BY <1>2 DEF RestartServer
    <3>3. audit \in Seq(AuditEvent) /\ Len(audit) <= MaxAudit
      BY DEF FrontInv
    <3>. QED
      BY <3>1, <3>2, <3>3
  <2>4. open' = [r \in HttpRequest |-> IF open[r] # Idle /\ open[r].server = s THEN Idle ELSE open[r]]
    BY <1>2 DEF RestartServer
  <2>5. \A r \in HttpRequest : open'[r] # Idle => AdmissionOK(open'[r], keysSet', now')
    BY <2>1, <2>4 DEF FrontInv, AdmissionOK
  <2>6. \A r \in HttpRequest : answer'[r] # NoValue => AnswerOK(answer'[r], keysSet')
    BY <2>1 DEF FrontInv, AnswerOK
  <2>. QED
    BY <2>1, <2>2, <2>3, <2>4, <2>5, <2>6 DEF FrontInv
<1>3. ASSUME NEW s \in Server, NEW type \in {"access_token", "refresh_token"},
             Issue(s, type)
      PROVE  FrontInv'
  <2>1. now + Lifetime \in 0..(MaxTime + Lifetime)
    BY <1>0
  <2>2. tokens' \subseteq Jwt
    BY <1>0, <1>3, <2>1 DEF Issue, Jwt
  <2>. QED
    BY <1>3, <2>2 DEF Issue, config, FrontInv, AdmissionOK, AnswerOK
<1>4. CASE HttpTick
  <2>1. /\ now' \in 0..MaxTime /\ now' >= now
        /\ UNCHANGED <<keysSet, betaPro, secret, tokens, open, answer, audit>>
    BY <1>0, <1>4 DEF HttpTick, config
  <2>2. \A r \in HttpRequest : open'[r] # Idle => AdmissionOK(open'[r], keysSet', now')
    BY <1>0, <2>1 DEF FrontInv, AdmissionOK, Admission
  <2>3. \A r \in HttpRequest : answer'[r] # NoValue => AnswerOK(answer'[r], keysSet')
    BY <2>1 DEF FrontInv, AnswerOK
  <2>. QED
    BY <2>1, <2>2, <2>3 DEF FrontInv
<1>5. CASE UNCHANGED httpVars
  BY <1>5 DEF httpVars, config, FrontInv, AdmissionOK, AnswerOK
<1>6. "jpbids" \in Server
  BY DEF Server
<1>7. HttpNext \/ UNCHANGED httpVars
  OBVIOUS
<1>8. CASE \E r \in HttpRequest, s \in Server, fault \in Fault, tool \in Tool,
           c \in {NoCredential} \cup Words \cup tokens : Post(r, s, fault, c, tool)
  BY <1>8, PostStep
<1>9. CASE \E r \in HttpRequest : Answers(r) \/ Closes(r)
  BY <1>1, <1>9, AnswersStep
<1>10. CASE \E s \in Server : RestartServer(s) \/ Issue(s, "access_token")
  BY <1>2, <1>3, <1>10
<1>11. CASE Issue("jpbids", "refresh_token")
  BY <1>3, <1>6, <1>11
<1>. QED
  BY <1>4, <1>5, <1>7, <1>8, <1>9, <1>10, <1>11 DEF HttpNext

\* Credentials, requests and answers have their types, and the gateway keeps no more
\* events than its audit buffer is long (addToAuditBuffer).
THEOREM FrontTypes == HttpSpec => []HttpTypeOK
<1>1. FrontInv => HttpTypeOK
  BY DEF FrontInv, HttpTypeOK, AdmissionOK, Admission, AnswerOK
<1>2. HttpInit => FrontInv
  BY FrontInit
<1>3. FrontInv /\ [HttpNext]_httpVars => FrontInv'
  BY FrontStep
<1>. QED
  BY <1>1, <1>2, <1>3, PTL DEF HttpSpec

\* After the betas a Pro tool serves only those who may have it, whatever expires,
\* restarts or is answered late (parseTier, parseOAuthTier, registerTools).
THEOREM ProServedToPro == HttpSpec => []ProToolsForPro
<1>1. FrontInv => ProToolsForPro
  BY DEF FrontInv, AnswerOK, ProToolsForPro
<1>2. HttpInit => FrontInv
  BY FrontInit
<1>3. FrontInv /\ [HttpNext]_httpVars => FrontInv'
  BY FrontStep
<1>. QED
  BY <1>1, <1>2, <1>3, PTL DEF HttpSpec

\* The holder of a configured key is never sent to sign in, and no JWT is served that
\* is not an access token of this server, in time and signed with the secret it
\* has had since its last restart, once the beta is over.
THEOREM KeysNeverSentToSignIn == HttpSpec => []SignInAskedRightly
<1>1. FrontInv => SignInAskedRightly
  BY DEF FrontInv, AnswerOK, SignInAskedRightly
<1>2. HttpInit => FrontInv
  BY FrontInit
<1>3. FrontInv /\ [HttpNext]_httpVars => FrontInv'
  BY FrontStep
<1>. QED
  BY <1>1, <1>2, <1>3, PTL DEF HttpSpec
=========================================================================
