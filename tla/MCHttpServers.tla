---------------------------- MODULE MCHttpServers -----------------------------
(* The beta of the gateway ends first, as its BETA_UNTIL does.                *)
EXTENDS HttpServers

MCBetaEnd == [jpbids |-> 2, gateway |-> 1]
=============================================================================
