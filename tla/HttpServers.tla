----------------------------- MODULE HttpServers -----------------------------
(***************************************************************************)
(* The HTTP fronts of the JP Bids server (src/src/transports/http.ts) and of  *)
(* the gateway (src/gateway/src/server.ts): what a POST /mcp is checked for,   *)
(* the tier it gets, the tools its own MCP server then offers, and the audit   *)
(* trail of the gateway, while tokens expire, beta periods end and processes   *)
(* restart.                                                                 *)
(***************************************************************************)
EXTENDS Naturals, Sequences, SequencesExt, FiniteSets

CONSTANTS
  HttpRequest, \* requests being served at one time
  SecretSet,   \* the servers whose signing secret is configured
  BetaEnd,     \* [Server -> BETA_UNTIL]
  Lifetime,    \* of an access token
  MaxAudit,    \* events the audit buffer keeps (1000)
  MaxTime,     \* bound: time
  MaxRestarts, \* bound: restarts, of both servers together
  Idle, NoValue

Server == {"jpbids", "gateway"}

ASSUME ServersAssumption ==
  /\ SecretSet \subseteq Server
  /\ BetaEnd \in [Server -> Nat]
  /\ {Lifetime, MaxAudit} \subseteq Nat \ {0} /\ {MaxTime, MaxRestarts} \subseteq Nat

VARIABLES
  keysSet,    \* the servers whose PRO_API_KEYS is set
  betaPro,    \* GATEWAY_ENABLE_BETA_PRO
  now,
  secret,     \* [Server -> the generation of its signing secret]
  tokens,     \* the JWTs issued so far
  open,       \* [HttpRequest -> a request admitted whose tool runs, or Idle]
  answer,     \* [HttpRequest -> the answer of the last one, or NoValue]
  audit       \* auditBuffer of the gateway, newest first

config == <<keysSet, betaPro>>
httpVars == <<config, now, secret, tokens, open, answer, audit>>

(* What the Authorization header holds: nothing, an API key that is configured *)
(* or not, with a "." in it or not, or a JWT.                                 *)
Plain(kind) == [kind |-> kind, of |-> NoValue, secret |-> 0, type |-> NoValue, expires |-> 0]
NoCredential == Plain("none")
Words == {Plain(kind) : kind \in {"key", "dotted key", "word", "dotted word"}}
Jwt == [kind : {"jwt"}, of : Server, secret : 0..MaxRestarts,
        type : {"access_token", "refresh_token"}, expires : 0..(MaxTime + Lifetime)]
Credential == {NoCredential} \cup Words \cup Jwt
IsKey(credential) == credential.kind \in {"key", "dotted key"}

Tool == {"free", "pro"}
Fault == {"none", "origin", "request"}
Answer == [server : Server, status : {200, 400, 401, 403}, by : Credential,
           tool : Tool, served : BOOLEAN, at : 0..MaxTime, secret : 0..MaxRestarts]

(* Credentials, requests and answers have their types; the audit buffer holds *)
(* at most MaxAudit events.                                                  *)
HttpTypeOK ==
  /\ now \in 0..MaxTime /\ secret \in [Server -> 0..MaxRestarts] /\ tokens \subseteq Jwt
  /\ \A r \in HttpRequest :
       /\ open[r] # Idle => open[r].by \in Credential /\ open[r].tier \in Tool
       /\ answer[r] # NoValue => answer[r] \in Answer
  /\ Len(audit) <= MaxAudit

(* resolveOAuthSecret, resolveGatewaySecret and the checks of createHttpApp:   *)
(* in production (K_SERVICE) both secrets and the keys of the gateway are set. *)
HttpInit ==
  /\ betaPro \in BOOLEAN
  /\ keysSet \in SUBSET Server
  /\ now = 0 /\ secret = [s \in Server |-> 0] /\ tokens = {}
  /\ open = [r \in HttpRequest |-> Idle] /\ answer = [r \in HttpRequest |-> NoValue]
  /\ audit = <<>>

-----------------------------------------------------------------------------
(* Who asks *)

Dotted(credential) == credential.kind \in {"jwt", "dotted key", "dotted word"}

\* Mutant of Verified: signed with any secret the server has had.
VerifiedByAnySecret(s, credential) ==
  credential.kind = "jwt" /\ credential.of = s /\ now <= credential.expires

\* verifyJwt: signed with the secret there is now, and not expired.
Verified(s, credential) ==
  /\ credential.kind = "jwt"
  /\ credential.of = s /\ credential.secret = secret[s] /\ now <= credential.expires

InBeta(s) == now < BetaEnd[s] /\ (s = "gateway" => betaPro)

\* Mutant of Tier: the beta has no end.
TierForever(s, credential) ==
  IF betaPro \/ s = "jpbids" \/ (IsKey(credential) /\ s \in keysSet) THEN "pro" ELSE "free"

(* parseTier of both: without keys everyone is Pro at JP Bids, no one at the  *)
(* gateway.                                                                  *)
Tier(s, credential) ==
  IF \/ InBeta(s)
     \/ s \notin keysSet /\ s = "jpbids"
     \/ s \in keysSet /\ IsKey(credential)
  THEN "pro" ELSE "free"

\* validateMcpAccessTokenClaims, and the type check of the gateway.
SignedIn(s, credential) == Verified(s, credential) /\ credential.type = "access_token"

(* JP Bids refuses no credential at all, a JWT whose claims are wrong, and     *)
(* what looks like a JWT and does not verify unless its tier is Pro. The       *)
(* gateway refuses nobody.                                                   *)
Unauthorized(s, credential) ==
  /\ s = "jpbids"
  /\ \/ credential = NoCredential
     \/ Verified(s, credential) /\ ~SignedIn(s, credential)
     \/ Dotted(credential) /\ ~Verified(s, credential) /\ Tier(s, credential) = "free"

(* An access token is Pro at the gateway; at JP Bids it has the tier of a      *)
(* caller without a key (parseOAuthTier).                                    *)
TierOf(s, credential) ==
  IF ~SignedIn(s, credential) THEN Tier(s, credential)
  ELSE IF s = "gateway" THEN "pro" ELSE Tier(s, NoCredential)

-----------------------------------------------------------------------------
(* A request *)

\* validateOrigin is JP Bids' only; then the protocol version and routable headers.
StatusOf(s, fault, credential) ==
  IF fault = "origin" /\ s = "jpbids" THEN 403 ELSE
  IF fault = "request" THEN 400 ELSE
  IF Unauthorized(s, credential) THEN 401 ELSE 200

Answered(s, status, credential, tool, served, at, key) ==
  [server |-> s, status |-> status, by |-> credential, tool |-> tool, served |-> served,
   at |-> at, secret |-> key]

\* addToAuditBuffer.
Recorded(event) ==
  IF Len(audit) = MaxAudit THEN <<event>> \o Front(audit) ELSE <<event>> \o audit

(* app.post("/mcp") up to handleRequest, and the event it then records: with   *)
(* decision "allowed" for every tools/call.                                  *)
Post(r, s, fault, credential, tool) ==
  LET status == StatusOf(s, fault, credential) IN
  /\ open[r] = Idle
  /\ IF status = 200
     THEN /\ open' = [open EXCEPT ![r] = [server |-> s, by |-> credential, tool |-> tool,
                                          tier |-> TierOf(s, credential), at |-> now,
                                          secret |-> secret[s]]]
          /\ answer' = [answer EXCEPT ![r] = NoValue]
          /\ IF s = "gateway"
             THEN audit' = Recorded([tool |-> tool, decision |-> "allowed"])
             ELSE UNCHANGED audit
     ELSE /\ answer' = [answer EXCEPT ![r] =
               Answered(s, status, IF status = 401 THEN credential ELSE NoCredential,
                        "free", FALSE, 0, 0)]
          /\ UNCHANGED <<open, audit>>
  /\ UNCHANGED <<config, now, secret, tokens>>

(* registerTools has given the request's own server the tools of its tier;     *)
(* another name is an error in the answer.                                   *)
Answers(r) ==
  /\ open[r] # Idle
  /\ answer' = [answer EXCEPT ![r] =
       Answered(open[r].server, 200, open[r].by, open[r].tool,
                open[r].tool = "free" \/ open[r].tier = "pro", open[r].at, open[r].secret)]
  /\ open' = [open EXCEPT ![r] = Idle]
  /\ UNCHANGED <<config, now, secret, tokens, audit>>

\* The connection closes, and with it the request's server.
Closes(r) ==
  /\ open[r] # Idle
  /\ open' = [open EXCEPT ![r] = Idle]
  /\ UNCHANGED <<config, now, secret, tokens, answer, audit>>

-----------------------------------------------------------------------------
(* The environment *)

Issue(s, type) ==
  /\ tokens' = {[kind |-> "jwt", of |-> s, secret |-> secret[s], type |-> type, expires |-> now + Lifetime]}
  /\ UNCHANGED <<config, now, secret, open, answer, audit>>

HttpTick ==
  /\ now < MaxTime /\ now' = now + 1
  /\ UNCHANGED <<config, secret, tokens, open, answer, audit>>

(* A process restarts: a secret that is not configured is a new one, and the   *)
(* audit buffer of the gateway is empty.                                     *)
RestartServer(s) ==
  /\ secret["jpbids"] + secret["gateway"] < MaxRestarts
  /\ secret' = IF s \in SecretSet THEN secret ELSE [secret EXCEPT ![s] = @ + 1]
  /\ open' = [r \in HttpRequest |-> IF open[r] # Idle /\ open[r].server = s THEN Idle ELSE open[r]]
  /\ IF s = "gateway" THEN audit' = <<>> ELSE UNCHANGED audit
  /\ UNCHANGED <<config, now, tokens, answer>>

HttpNext ==
  \/ \E r \in HttpRequest, s \in Server, fault \in Fault, tool \in Tool,
        credential \in {NoCredential} \cup Words \cup tokens : Post(r, s, fault, credential, tool)
  \/ \E r \in HttpRequest : Answers(r) \/ Closes(r)
  \/ \E s \in Server : RestartServer(s) \/ Issue(s, "access_token")
  \/ Issue("jpbids", "refresh_token")
  \/ HttpTick

HttpSpec == HttpInit /\ [][HttpNext]_httpVars

-----------------------------------------------------------------------------
(* Properties *)

(* The caller a was signed in: with an access token of that server, in time and  *)
(* signed with the secret the server had when it admitted the request.         *)
Honoured(a) ==
  /\ a.by.kind = "jwt" /\ a.by.type = "access_token" /\ a.by.of = a.server
  /\ a.by.secret = a.secret /\ a.at <= a.by.expires

(* After the betas, a Pro tool serves only the holder of a configured key, an  *)
(* honoured token at the gateway, or anyone at a JP Bids server without keys; *)
(* a request admitted before keeps its tier. README and docs: Free/Pro tiers.  *)
ProToolsForPro ==
  \A r \in HttpRequest :
    LET a == answer[r] IN
    a # NoValue /\ a.served /\ a.tool = "pro" /\ a.at >= BetaEnd[a.server] =>
      \/ IsKey(a.by) /\ a.server \in keysSet
      \/ a.server = "jpbids" /\ "jpbids" \notin keysSet
      \/ a.server = "gateway" /\ Honoured(a)

(* JP Bids, with keys set and after the beta, serves a JWT only while it is an   *)
(* access token of its own, in time and signed with the present secret: whoever *)
(* presents a refresh token, one that has expired or one from before a restart  *)
(* that changed the secret is sent to sign in. And the holder of a configured   *)
(* key never is, whether or not the key looks like a JWT.                      *)
SignInAskedRightly ==
  \A r \in HttpRequest :
    LET a == answer[r] IN
    a # NoValue /\ a.server \in keysSet =>
      /\ IsKey(a.by) => a.status # 401
      /\ a.server = "jpbids" /\ a.status = 200 /\ a.by.kind = "jwt" /\ a.at >= BetaEnd["jpbids"] =>
           Honoured(a)
=============================================================================
