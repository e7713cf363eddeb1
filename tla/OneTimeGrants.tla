---------------------------- MODULE OneTimeGrants ----------------------------
(***************************************************************************)
(* What the token endpoint promises about authorization codes and refresh   *)
(* tokens (docs/oauth.md: "One-time", "Consumed on use and replaced"),       *)
(* with no store, no requests and no clock: a grant is opened once, is       *)
(* redeemed for at most one refresh token, and is never open again.          *)
(***************************************************************************)
CONSTANTS Code, Refresh, None

VARIABLES
  open,    \* grants that may still be redeemed
  closed,  \* grants that never will be (again)
  source   \* [Refresh -> Grant or None]: the grant a token was made from

Grant == Code \cup Refresh
vars == <<open, closed, source>>

Init ==
  /\ open = {}
  /\ closed = {}
  /\ source = [t \in Refresh |-> None]

\* A code, or a token made from a grant, becomes redeemable for the first time.
Open(g) ==
  /\ g \notin open \cup closed
  /\ g \in Refresh => source[g] # None
  /\ open' = open \cup {g}
  /\ UNCHANGED <<closed, source>>

\* An open grant is exchanged for a token no grant was exchanged for before.
Redeem(g, t) ==
  /\ g \in open
  /\ source[t] = None
  /\ t \notin open \cup closed
  /\ open' = open \ {g}
  /\ closed' = closed \cup {g}
  /\ source' = [source EXCEPT ![t] = g]

\* Grants are lost, before or after they opened: a refused exchange, a request
\* that died before storing or after consuming one, a store that was lost.
Close(S) ==
  /\ S # {}
  /\ S \cap closed = {}
  /\ open' = open \ S
  /\ closed' = closed \cup S
  /\ UNCHANGED source

Next ==
  \/ \E g \in Grant : Open(g)
  \/ \E g \in Grant, t \in Refresh : Redeem(g, t)
  \/ \E S \in SUBSET Grant : Close(S)

Spec == Init /\ [][Next]_vars
=============================================================================
