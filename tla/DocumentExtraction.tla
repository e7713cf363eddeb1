------------------------- MODULE DocumentExtraction --------------------------
(***************************************************************************)
(* fetch_documents: the tools that take it fetch up to three documents of a   *)
(* notice at once (src/src/api/pdf-fetcher.ts), meter the extraction          *)
(* (src/src/lib/billing.ts) and have Vertex or the client's own model read    *)
(* them (src/src/tools/document-extraction.ts). Calls overlap at each await;  *)
(* the daily budget of Vertex is one counter of the process, kept per UTC day.*)
(***************************************************************************)
EXTENDS Naturals, FiniteSets

CONSTANTS
  Call, Uri,
  Sampling,      \* the calls whose client has the sampling capability
  Billing,       \* STRIPE_SECRET_KEY and a customer are set
  Targets,       \* [Call -> the sets of URIs it may be asked to fetch]
  Allowed,       \* the URIs whose host JP_BIDS_PDF_ALLOWED_HOSTS admits
  Public,        \* the URIs whose host resolves to public addresses only
  MaxDocuments,  \* documents fetched per call (3)
  MaxRedirects,  \* defaultMaxRedirects (5)
  Budget,        \* dailyBudgetUsd, in calls of estimatedCostPerCallUsd
  MaxDays,       \* bound: UTC days
  MaxRestarts,   \* bound: restarts of the process per behaviour
  Idle, NoResult

ASSUME ExtractionAssumption ==
  /\ Sampling \subseteq Call /\ Billing \in BOOLEAN
  /\ IsFiniteSet(Uri) /\ Targets \in [Call -> SUBSET SUBSET Uri]
  /\ Allowed \subseteq Uri /\ Public \subseteq Uri
  /\ MaxDocuments \in Nat \ {0} /\ MaxRedirects \in Nat /\ Budget \in Nat
  /\ MaxDays \in Nat /\ MaxRestarts \in Nat

VARIABLES
  vertexEnabled, \* JP_BIDS_VERTEX_AI
  call,          \* [Call -> a call under way, or Idle]
  result,        \* [Call -> how its last call ended, or NoResult]
  today,         \* the UTC day
  budgetDay,     \* currentBudgetDate
  spend,         \* estimatedSpendUsd
  requested,     \* history: the calls of Vertex made today
  started,       \* history: the times the process started today
  restarts       \* history: restarts so far

budget == <<budgetDay, spend, requested>>
clock == <<today, started, restarts>>
vars == <<vertexEnabled, call, result, budget, clock>>

\* A document being fetched: where it was redirected to and how often.
Document == [stage : {"resolve", "request", "body", "done", "failed"},
             at : Uri, hops : 0..MaxRedirects]

Documents(c) == call[c].documents
Fetched(documents) == {u \in DOMAIN documents : documents[u].stage = "done"}
Settled(documents) == \A u \in DOMAIN documents : documents[u].stage \in {"done", "failed"}

(* Every call under way fetches a set it may be asked for, of at most         *)
(* MaxDocuments, and waits for a model only once its documents are settled.   *)
TypeOK ==
  /\ \A c \in Call : call[c] # Idle =>
       /\ DOMAIN Documents(c) \in SUBSET Uri
       /\ Cardinality(DOMAIN Documents(c)) \in 1..MaxDocuments
       /\ \A u \in DOMAIN Documents(c) : Documents(c)[u] \in Document
       /\ call[c].stage \in {"fetch", "vertex", "sampling"}
       /\ call[c].stage # "fetch" => Settled(Documents(c)) /\ Fetched(Documents(c)) # {}
  /\ budgetDay \in 0..today /\ today \in 0..MaxDays
  /\ spend \in Nat /\ requested \in Nat /\ restarts \in 0..MaxRestarts

Init ==
  /\ vertexEnabled \in BOOLEAN
  /\ call = [c \in Call |-> Idle]
  /\ result = [c \in Call |-> NoResult]
  /\ today = 0 /\ budgetDay = 0 /\ spend = 0
  /\ requested = 0 /\ started = 1 /\ restarts = 0

-----------------------------------------------------------------------------
(* The outcome of a call *)

\* recordMeterEvent: one event for a call that fetched a document.
Meter(documents) == IF Billing /\ Fetched(documents) # {} THEN 1 ELSE 0

Outcome(kind, mode, documents, extracted) ==
  [kind |-> kind, mode |-> mode, documents |-> Fetched(documents),
   extracted |-> extracted, metered |-> Meter(documents)]

Ends(c, outcome) ==
  /\ call' = [call EXCEPT ![c] = Idle]
  /\ result' = [result EXCEPT ![c] = outcome]

-----------------------------------------------------------------------------
(* Fetching documents: fetchDocument *)

At(stage, uri, hops) == [stage |-> stage, at |-> uri, hops |-> hops]

\* parseHttpUrl and assertAllowedHost, before the first await.
Start(uri, hops) ==
  IF uri \in Allowed THEN At("resolve", uri, hops) ELSE At("failed", uri, 0)

\* The documents fetched: all of them, or MaxDocuments in the notice's order.
Chosen(all) ==
  {uris \in SUBSET all : Cardinality(uris) = IF Cardinality(all) < MaxDocuments
                                             THEN Cardinality(all) ELSE MaxDocuments}

(* enrichWithDocumentExtraction up to Promise.allSettled; without a URI the    *)
(* call ends with a warning.                                                 *)
Begin(c) ==
  /\ call[c] = Idle
  /\ \E all \in Targets[c] :
       \E uris \in Chosen(all) :
         IF uris = {}
         THEN Ends(c, Outcome("answer", "none", <<>>, FALSE))
         ELSE /\ call' = [call EXCEPT ![c] =
                   [stage |-> "fetch", documents |-> [u \in uris |-> Start(u, 0)]]]
              /\ result' = [result EXCEPT ![c] = NoResult]
  /\ UNCHANGED <<vertexEnabled, budget, clock>>

Fetching(c, u, stage) ==
  /\ call[c] # Idle /\ call[c].stage = "fetch"
  /\ u \in DOMAIN Documents(c) /\ Documents(c)[u].stage = stage

Becomes(c, u, document) ==
  /\ call' = [call EXCEPT ![c].documents[u] = document]
  /\ UNCHANGED <<vertexEnabled, result, budget, clock>>

Fails(c, u) == Becomes(c, u, At("failed", u, 0))

\* assertPublicHttpTarget, then fetchWithTimeout sends the request.
Resolve(c, u) ==
  /\ Fetching(c, u, "resolve")
  /\ IF Documents(c)[u].at \in Public
     THEN Becomes(c, u, [Documents(c)[u] EXCEPT !.stage = "request"])
     ELSE Fails(c, u)

\* Mutant of Redirect: the host that a redirect leads to is not checked.
RedirectUnchecked(c, u, location) ==
  LET d == Documents(c)[u] IN
  IF d.hops = MaxRedirects THEN Fails(c, u)
  ELSE Becomes(c, u, At("resolve", location, d.hops + 1))

(* A redirect is followed up to MaxRedirects times, its host checked anew.     *)
Redirect(c, u, location) ==
  LET d == Documents(c)[u] IN
  IF d.hops = MaxRedirects THEN Fails(c, u)
  ELSE Becomes(c, u, Start(location, d.hops + 1))

(* The headers of a response: a redirect, a body of a type that is admitted,   *)
(* or a reason to fail: no Location, an error status, type or length.         *)
Respond(c, u) ==
  /\ Fetching(c, u, "request")
  /\ \/ \E location \in Uri : Redirect(c, u, location)
     \/ Becomes(c, u, [Documents(c)[u] EXCEPT !.stage = "body"])
     \/ Fails(c, u)

\* Mutant of Timeout: the request does not listen to the signal.
TimeoutUnheard(c, u) == Fetching(c, u, "request") /\ UNCHANGED vars

\* The abort of fetchWithTimeout; its timer is cleared once headers arrive.
Timeout(c, u) == Fetching(c, u, "request") /\ Fails(c, u)

\* readResponseBytes: the last chunk, one too many bytes, or a broken connection.
EndBody(c, u) ==
  /\ Fetching(c, u, "body")
  /\ \/ Becomes(c, u, [Documents(c)[u] EXCEPT !.stage = "done"])
     \/ Fails(c, u)

-----------------------------------------------------------------------------
(* Reading them *)

SpentToday == IF today = budgetDay THEN spend ELSE 0

\* Mutant of ReserveBudget: only a call that Vertex answers is charged.
ReserveBudgetLate ==
  /\ budgetDay' = today /\ spend' = SpentToday
  /\ requested' = requested + 1

(* reserveBudget: the day's spend starts at 0; a refused call throws.          *)
ReserveBudget ==
  /\ budgetDay' = today
  /\ IF SpentToday + 1 > Budget
     THEN spend' = SpentToday /\ UNCHANGED requested
     ELSE spend' = SpentToday + 1 /\ requested' = requested + 1

(* All fetches have settled. With no document the call ends on metadata only;  *)
(* else (the Meter event sent) it is read: Vertex, the client's model or nobody reads.        *)
Settle(c) ==
  /\ call[c] # Idle /\ call[c].stage = "fetch" /\ Settled(Documents(c))
  /\ LET none == Fetched(Documents(c)) = {}
         waits(stage) == /\ call' = [call EXCEPT ![c].stage = stage]
                         /\ UNCHANGED result
     IN CASE none -> /\ Ends(c, Outcome("answer", "none", Documents(c), FALSE))
                        /\ UNCHANGED budget
             [] ~none /\ vertexEnabled ->
                  /\ ReserveBudget
                  /\ IF requested' > requested THEN waits("vertex")
                     ELSE Ends(c, Outcome("error", "none", Documents(c), FALSE))
             [] ~none /\ ~vertexEnabled /\ c \in Sampling ->
                  waits("sampling") /\ UNCHANGED budget
             [] OTHER -> /\ Ends(c, Outcome("answer", "none", Documents(c), FALSE))
                         /\ UNCHANGED budget
  /\ UNCHANGED <<vertexEnabled, clock>>

Reading(c, stage) == call[c] # Idle /\ call[c].stage = stage

\* Mutant of ModelAnswers: an answer that cannot be parsed is an answer of no one.
ModelAnswersNone(c, stage, mode) ==
  /\ Reading(c, stage)
  /\ \/ Ends(c, Outcome("answer", mode, Documents(c), TRUE))
     \/ Ends(c, Outcome("answer", "none", Documents(c), FALSE))
  /\ UNCHANGED <<vertexEnabled, budget, clock>>

(* generateContent or createMessage: requirements, an answer that does not     *)
(* parse, which becomes a warning, or an exception, which fails the tool call. *)
ModelAnswers(c, stage, mode) ==
  /\ Reading(c, stage)
  /\ \/ \E parsed \in BOOLEAN : Ends(c, Outcome("answer", mode, Documents(c), parsed))
     \/ Ends(c, Outcome("error", "none", Documents(c), FALSE))
  /\ UNCHANGED <<vertexEnabled, budget, clock>>

VertexAnswers(c) == ModelAnswers(c, "vertex", "vertex_ai")
SamplingAnswers(c) == ModelAnswers(c, "sampling", "sampling")

-----------------------------------------------------------------------------
(* The environment *)

NextDay ==
  /\ today < MaxDays
  /\ today' = today + 1
  /\ requested' = 0 /\ started' = 1
  /\ UNCHANGED <<vertexEnabled, call, result, budgetDay, spend, restarts>>

(* The process restarts: calls under way are lost, and so is the spend.        *)
Restart ==
  /\ restarts < MaxRestarts
  /\ restarts' = restarts + 1 /\ started' = started + 1
  /\ call' = [c \in Call |-> Idle]
  /\ result' = [c \in Call |-> NoResult]
  /\ budgetDay' = today /\ spend' = 0
  /\ UNCHANGED <<vertexEnabled, today, requested>>

-----------------------------------------------------------------------------
Next ==
  \/ \E c \in Call : Begin(c) \/ Settle(c) \/ VertexAnswers(c) \/ SamplingAnswers(c)
  \/ \E c \in Call, u \in Uri :
       Resolve(c, u) \/ Respond(c, u) \/ Timeout(c, u) \/ EndBody(c, u)
  \/ NextDay \/ Restart

(* A lookup ends and a timeout fires; the client's SDK gives up on a model     *)
(* that does not answer. Nothing bounds the wait for a body or for Vertex.     *)
Fairness ==
  \A c \in Call :
    /\ WF_vars(Settle(c)) /\ WF_vars(SamplingAnswers(c))
    /\ \A u \in Uri : WF_vars(Resolve(c, u)) /\ WF_vars(Timeout(c, u))

Spec == Init /\ [][Next]_vars /\ Fairness

-----------------------------------------------------------------------------
(* Properties *)

(* Vertex is asked at most Budget times a UTC day by each start of the        *)
(* process, with calls waiting for it at the same time (reserveBudget).       *)
BudgetHolds == requested <= Budget * started

(* Every document read came from a host that is admitted and public, however   *)
(* many redirects led there.                                                 *)
DocumentsAdmitted ==
  \A c \in Call : call[c] # Idle =>
    \A u \in DOMAIN Documents(c) :
      Documents(c)[u].stage \in {"request", "body", "done"} =>
        Documents(c)[u].at \in Allowed \cap Public

(* A document that fails leaves the others to be read and metered, once, and   *)
(* only a model fails a call; the mode says which model had the documents,     *)
(* parsed or not, and none had them when none arrived.                        *)
OneDocumentSuffices ==
  \A c \in Call : result[c] # NoResult =>
    /\ result[c].metered = IF Billing /\ result[c].documents # {} THEN 1 ELSE 0
    /\ result[c].kind = "error" => result[c].documents # {} /\ (vertexEnabled \/ c \in Sampling)
    /\ result[c].kind = "answer" =>
         result[c].mode = CASE result[c].documents = {} -> "none"
                            [] result[c].documents # {} /\ vertexEnabled -> "vertex_ai"
                            [] result[c].documents # {} /\ ~vertexEnabled /\ c \in Sampling -> "sampling"
                            [] OTHER -> "none"
    /\ result[c].extracted => result[c].mode # "none"

\* What nothing in the code gives up waiting for.
Stalled(c) ==
  /\ call[c] # Idle
  /\ \/ call[c].stage = "vertex"
     \/ \E u \in DOMAIN Documents(c) : Documents(c)[u].stage = "body"

(* A call ends, or comes to wait for a body that stalls or for Vertex          *)
(* (fetchWithTimeout clears its timer when the headers arrive).               *)
CallsEnd == \A c \in Call : (call[c] # Idle) ~> (call[c] = Idle \/ Stalled(c))
=============================================================================
