---------------------- MODULE DocumentExtraction_proofs -----------------------
(***************************************************************************)
(* Proofs about DocumentExtraction, for any calls, URIs, hosts, budget and    *)
(* bounds.                                                                  *)
(***************************************************************************)
EXTENDS DocumentExtraction, FiniteSetTheorems, TLAPS

Running == [stage : {"fetch", "vertex", "sampling"},
            documents : UNION {[uris -> Document] : uris \in SUBSET Uri}]

\* A call is a record of its stage and its documents, however far it has come.
CallsOK == call \in [Call -> Running \cup {Idle}]

(* The invariant behind DocumentsAdmitted: the host a document is about to be *)
(* resolved at has been admitted, and one that is asked is public too.        *)
Guarded ==
  \A c \in Call : call[c] # Idle =>
    \A u \in DOMAIN Documents(c) :
      /\ Documents(c)[u].stage \in {"resolve", "request", "body", "done"} =>
           Documents(c)[u].at \in Allowed
      /\ Documents(c)[u].stage \in {"request", "body", "done"} =>
           Documents(c)[u].at \in Public

FetchInv == CallsOK /\ Guarded

(* The invariant behind BudgetHolds. What was spent since the last start      *)
(* covers the requests since, and each earlier start of the day was good for  *)
(* one Budget; before the first reservation of a day there are no requests.   *)
SpendInv ==
  /\ today \in Nat /\ budgetDay \in Nat /\ budgetDay <= today
  /\ spend \in Nat /\ spend <= Budget
  /\ requested \in Nat /\ started \in Nat \ {0}
  /\ budgetDay < today => requested = 0
  /\ budgetDay = today => requested <= Budget * (started - 1) + spend

-----------------------------------------------------------------------------
(* The documents *)

\* At first no call is under way.
LEMMA FetchInit == Init => FetchInv
  BY DEF Init, FetchInv, CallsOK, Guarded

\* A document that is started or redirected has an admitted host, or has failed.
LEMMA StartOK ==
  ASSUME NEW uri \in Uri, NEW hops \in 0..MaxRedirects
  PROVE  /\ Start(uri, hops) \in Document
         /\ Start(uri, hops).stage \in {"resolve", "failed"}
         /\ Start(uri, hops).stage = "resolve" => Start(uri, hops).at \in Allowed
  BY ExtractionAssumption DEF Start, At, Document

\* A document that becomes another one that keeps the rule keeps it for its call.
LEMMA BecomesOK ==
  ASSUME FetchInv, NEW c \in Call, NEW u \in Uri, NEW stage, Fetching(c, u, stage),
         NEW document \in Document, Becomes(c, u, document),
         document.stage \in {"resolve", "request", "body", "done"} => document.at \in Allowed,
         document.stage \in {"request", "body", "done"} => document.at \in Public
  PROVE  FetchInv'
<1>1. call[c] \in Running /\ u \in DOMAIN call[c].documents
  BY DEF FetchInv, CallsOK, Fetching, Documents
<1>2. call' = [call EXCEPT ![c].documents[u] = document]
  BY DEF Becomes
<1>3. PICK uris \in SUBSET Uri : call[c].documents \in [uris -> Document]
  BY <1>1 DEF Running
<1>4. u \in uris
  BY <1>1, <1>3
<1>5. call'[c].documents = [call[c].documents EXCEPT ![u] = document]
  BY <1>1, <1>2 DEF FetchInv, CallsOK, Running
<1>6. call'[c].documents \in [uris -> Document]
  BY <1>3, <1>4, <1>5
<1>7. call'[c] \in Running
  BY <1>1, <1>2, <1>6 DEF FetchInv, CallsOK, Running
<1>8. CallsOK'
  BY <1>2, <1>7 DEF FetchInv, CallsOK
<1>9. Guarded'
  <2> SUFFICES ASSUME NEW d \in Call, call'[d] # Idle, NEW v \in DOMAIN call'[d].documents
               PROVE  LET e == call'[d].documents[v] IN
                      /\ e.stage \in {"resolve", "request", "body", "done"} => e.at \in Allowed
                      /\ e.stage \in {"request", "body", "done"} => e.at \in Public
    BY DEF Guarded, Documents
  <2>1. CASE d = c /\ v = u
    BY <2>1, <1>3, <1>4, <1>5
  <2>2. CASE d = c /\ v # u
    BY <2>2, <1>3, <1>4, <1>5, <1>1 DEF FetchInv, Guarded, Documents, Fetching
  <2>3. CASE d # c
    BY <2>3, <1>2 DEF FetchInv, CallsOK, Guarded, Documents
  <2>. QED
    BY <2>1, <2>2, <2>3
<1>. QED
  BY <1>8, <1>9 DEF FetchInv

\* A call that ends leaves the other calls as they were.
LEMMA EndsOK ==
  ASSUME FetchInv, NEW c \in Call, NEW outcome, Ends(c, outcome)
  PROVE  FetchInv'
  BY DEF FetchInv, CallsOK, Guarded, Documents, Ends

\* A call that goes on to a model takes its documents with it.
LEMMA WaitsOK ==
  ASSUME FetchInv, NEW c \in Call, call[c] # Idle, NEW stage \in {"vertex", "sampling"},
         call' = [call EXCEPT ![c].stage = stage]
  PROVE  FetchInv'
<1>1. call[c] \in Running
  BY DEF FetchInv, CallsOK
<1>2. call'[c] \in Running /\ call'[c].documents = call[c].documents
  BY <1>1 DEF FetchInv, CallsOK, Running
<1>3. \A d \in Call : d # c => call'[d] = call[d]
  BY DEF FetchInv, CallsOK
<1>4. CallsOK'
  BY <1>2, <1>3 DEF FetchInv, CallsOK
<1>5. Guarded'
  BY <1>2, <1>3 DEF FetchInv, Guarded, Documents
<1>. QED
  BY <1>4, <1>5 DEF FetchInv

\* Every action of a call, of a document or of the process keeps the rule.
LEMMA FetchStep == FetchInv /\ [Next]_vars => FetchInv'
<1> SUFFICES ASSUME FetchInv, [Next]_vars PROVE FetchInv'
  OBVIOUS
<1>1. ASSUME NEW c \in Call, Begin(c) PROVE FetchInv'
  <2>a. PICK all \in Targets[c] : \E uris \in Chosen(all) :
          \/ uris = {} /\ Ends(c, Outcome("answer", "none", <<>>, FALSE))
          \/ call' = [call EXCEPT ![c] =
               [stage |-> "fetch", documents |-> [u \in uris |-> Start(u, 0)]]]
    BY <1>1 DEF Begin
  <2>1. PICK uris \in Chosen(all) :
          \/ uris = {} /\ Ends(c, Outcome("answer", "none", <<>>, FALSE))
          \/ call' = [call EXCEPT ![c] =
               [stage |-> "fetch", documents |-> [u \in uris |-> Start(u, 0)]]]
    BY <2>a
  <2>2. CASE Ends(c, Outcome("answer", "none", <<>>, FALSE))
    BY <2>2, EndsOK
  <2>3. CASE call' = [call EXCEPT ![c] =
               [stage |-> "fetch", documents |-> [u \in uris |-> Start(u, 0)]]]
    <3>1. uris \in SUBSET Uri
      BY ExtractionAssumption DEF Chosen
    <3>2. \A u \in uris : /\ Start(u, 0) \in Document
                          /\ Start(u, 0).stage \in {"resolve", "failed"}
                          /\ Start(u, 0).stage = "resolve" => Start(u, 0).at \in Allowed
      BY <3>1, StartOK, ExtractionAssumption
    <3>3. [u \in uris |-> Start(u, 0)] \in [uris -> Document]
      BY <3>2
    <3>4. call'[c] \in Running /\ call'[c].documents = [u \in uris |-> Start(u, 0)]
      BY <2>3, <3>1, <3>3 DEF FetchInv, CallsOK, Running
    <3>5. CallsOK'
      BY <2>3, <3>4 DEF FetchInv, CallsOK
    <3>6. Guarded'
      BY <2>3, <3>2, <3>4 DEF FetchInv, CallsOK, Guarded, Documents
    <3>. QED
      BY <3>5, <3>6 DEF FetchInv
  <2>. QED
    BY <2>1, <2>2, <2>3
<1>2. ASSUME NEW c \in Call, Settle(c) PROVE FetchInv'
  BY <1>2, EndsOK, WaitsOK DEF Settle
<1>3. ASSUME NEW c \in Call, NEW stage, NEW mode, ModelAnswers(c, stage, mode) PROVE FetchInv'
  BY <1>3, EndsOK DEF ModelAnswers
<1>4. ASSUME NEW c \in Call, NEW u \in Uri, NEW stage, Fetching(c, u, stage)
      PROVE  /\ Documents(c)[u] \in Document /\ Documents(c)[u].stage = stage
             /\ stage \in {"resolve", "request", "body", "done"} =>
                  Documents(c)[u].at \in Allowed
             /\ stage \in {"request", "body", "done"} => Documents(c)[u].at \in Public
  BY <1>4 DEF FetchInv, CallsOK, Guarded, Fetching, Documents, Running
<1>5. ASSUME NEW c \in Call, NEW u \in Uri, NEW stage, Fetching(c, u, stage), Fails(c, u)
      PROVE  FetchInv'
  BY <1>5, BecomesOK, ExtractionAssumption DEF Fails, At, Document
<1>6. ASSUME NEW c \in Call, NEW u \in Uri, Resolve(c, u) PROVE FetchInv'
  <2>1. Fetching(c, u, "resolve")
    BY <1>6 DEF Resolve
  <2>2. CASE Documents(c)[u].at \in Public
    <3> DEFINE document == [Documents(c)[u] EXCEPT !.stage = "request"]
    <3>1. document \in Document /\ document.at \in Allowed \cap Public
      BY <2>1, <2>2, <1>4 DEF Document
    <3>2. Becomes(c, u, document)
      BY <1>6, <2>2 DEF Resolve
    <3>. QED
      BY <2>1, <3>1, <3>2, BecomesOK
  <2>3. CASE Documents(c)[u].at \notin Public
    BY <1>6, <2>1, <2>3, <1>5 DEF Resolve
  <2>. QED
    BY <2>2, <2>3
<1>7. ASSUME NEW c \in Call, NEW u \in Uri, Respond(c, u) PROVE FetchInv'
  <2>1. Fetching(c, u, "request")
    BY <1>7 DEF Respond
  <2>2. ASSUME NEW location \in Uri, Redirect(c, u, location) PROVE FetchInv'
    <3>1. CASE Documents(c)[u].hops = MaxRedirects
      BY <2>1, <2>2, <3>1, <1>5 DEF Redirect
    <3>2. CASE Documents(c)[u].hops # MaxRedirects
      <4>1. Documents(c)[u].hops + 1 \in 0..MaxRedirects
        BY <2>1, <1>4, <3>2, ExtractionAssumption DEF Document
      <4>2. Becomes(c, u, Start(location, Documents(c)[u].hops + 1))
        BY <2>2, <3>2 DEF Redirect
      <4>. QED
        BY <2>1, <4>1, <4>2, StartOK, BecomesOK
    <3>. QED
      BY <3>1, <3>2
  <2>3. ASSUME Becomes(c, u, [Documents(c)[u] EXCEPT !.stage = "body"]) PROVE FetchInv'
    <3> DEFINE document == [Documents(c)[u] EXCEPT !.stage = "body"]
    <3>1. document \in Document /\ document.at \in Allowed \cap Public
      BY <2>1, <1>4 DEF Document
    <3>. QED
      BY <2>1, <2>3, <3>1, BecomesOK
  <2>. QED
    BY <1>7, <2>1, <2>2, <2>3, <1>5 DEF Respond
<1>8. ASSUME NEW c \in Call, NEW u \in Uri, Timeout(c, u) PROVE FetchInv'
  BY <1>8, <1>5 DEF Timeout
<1>9. ASSUME NEW c \in Call, NEW u \in Uri, EndBody(c, u) PROVE FetchInv'
  <2>1. Fetching(c, u, "body")
    BY <1>9 DEF EndBody
  <2>2. ASSUME Becomes(c, u, [Documents(c)[u] EXCEPT !.stage = "done"]) PROVE FetchInv'
    <3> DEFINE document == [Documents(c)[u] EXCEPT !.stage = "done"]
    <3>1. document \in Document /\ document.at \in Allowed \cap Public
      BY <2>1, <1>4 DEF Document
    <3>. QED
      BY <2>1, <2>2, <3>1, BecomesOK
  <2>. QED
    BY <1>9, <2>1, <2>2, <1>5 DEF EndBody
<1>10. CASE Restart
  BY <1>10 DEF Restart, FetchInv, CallsOK, Guarded
<1>11. CASE NextDay \/ UNCHANGED vars
  BY <1>11 DEF NextDay, vars, FetchInv, CallsOK, Guarded, Documents
<1>. QED
  BY <1>1, <1>2, <1>3, <1>6, <1>7, <1>8, <1>9, <1>10, <1>11
    DEF Next, VertexAnswers, SamplingAnswers

\* Every document read came from a host that is admitted and public, through
\* any number of redirects (fetchDocument, assertPublicHttpTarget).
THEOREM AdmittedOnly == Spec => []DocumentsAdmitted
<1>1. FetchInv => DocumentsAdmitted
  BY DEF FetchInv, Guarded, DocumentsAdmitted
<1>. QED
  BY FetchInit, FetchStep, <1>1, PTL DEF Spec

-----------------------------------------------------------------------------
(* The budget *)

\* What one more start of the process is good for.
LEMMA OneMoreStart ==
  ASSUME NEW n \in Nat \ {0} PROVE Budget * (n - 1) + Budget = Budget * n
  BY ExtractionAssumption

\* Every action keeps the account of the requests of the day.
LEMMA SpendStep == SpendInv /\ [Next]_vars => SpendInv'
<1> SUFFICES ASSUME SpendInv, [Next]_vars PROVE SpendInv'
  OBVIOUS
<1> USE ExtractionAssumption
<1>1. ASSUME UNCHANGED <<budget, clock>> PROVE SpendInv'
  BY <1>1 DEF SpendInv, budget, clock
<1>2. ASSUME ReserveBudget, UNCHANGED clock PROVE SpendInv'
  <2>1. CASE budgetDay = today
    BY <1>2, <2>1 DEF SpendInv, ReserveBudget, SpentToday, clock
  <2>2. CASE budgetDay # today
    <3>1. requested = 0 /\ SpentToday = 0
      BY <2>2 DEF SpendInv, SpentToday
    <3>2. Budget * (started - 1) \in Nat
      BY DEF SpendInv
    <3>. QED
      BY <1>2, <3>1, <3>2 DEF SpendInv, ReserveBudget, clock
  <2>. QED
    BY <2>1, <2>2
<1>3. ASSUME NEW c \in Call, Settle(c) PROVE SpendInv'
  BY <1>1, <1>2, <1>3 DEF Settle
<1>4. CASE NextDay
  BY <1>4 DEF NextDay, SpendInv
<1>5. CASE Restart
  <2>1. requested <= Budget * (started - 1) + Budget
    <3>1. Budget * (started - 1) \in Nat
      BY DEF SpendInv
    <3>. QED
      BY <3>1 DEF SpendInv
  <2>2. requested <= Budget * started
    BY <2>1, OneMoreStart DEF SpendInv
  <2>. QED
    BY <1>5, <2>2 DEF Restart, SpendInv
<1>6. ASSUME NEW c \in Call, NEW u \in Uri,
             Resolve(c, u) \/ Respond(c, u) \/ Timeout(c, u) \/ EndBody(c, u)
      PROVE  SpendInv'
  BY <1>1, <1>6 DEF Resolve, Respond, Redirect, Timeout, EndBody, Fails, Becomes
<1>7. ASSUME NEW c \in Call, Begin(c) \/ VertexAnswers(c) \/ SamplingAnswers(c) PROVE SpendInv'
  BY <1>1, <1>7 DEF Begin, VertexAnswers, SamplingAnswers, ModelAnswers
<1>8. CASE UNCHANGED vars
  BY <1>1, <1>8 DEF vars
<1>. QED
  BY <1>3, <1>4, <1>5, <1>6, <1>7, <1>8 DEF Next

\* However many calls reserve at the same time and however often the process
\* restarts, Vertex is asked at most Budget times a day by each start
\* (reserveBudget).
THEOREM BudgetRespected == Spec => []BudgetHolds
<1>1. Init => SpendInv
  BY ExtractionAssumption DEF Init, SpendInv
<1>2. SpendInv => BudgetHolds
  <2> SUFFICES ASSUME SpendInv PROVE requested <= Budget * started
    BY DEF BudgetHolds
  <2>1. Budget * (started - 1) \in Nat /\ Budget * (started - 1) + Budget = Budget * started
    BY OneMoreStart, ExtractionAssumption DEF SpendInv
  <2>2. requested <= Budget * (started - 1) + Budget
    BY <2>1, ExtractionAssumption DEF SpendInv
  <2>. QED
    BY <2>1, <2>2
<1>. QED
  BY <1>1, <1>2, SpendStep, PTL DEF Spec

-----------------------------------------------------------------------------
(* Type correctness *)

(* What TypeOK says of the calls beyond their being records of the right kind. *)
Sized ==
  \A c \in Call : call[c] # Idle =>
    /\ Cardinality(DOMAIN Documents(c)) \in 1..MaxDocuments
    /\ call[c].stage # "fetch" => Settled(Documents(c)) /\ Fetched(Documents(c)) # {}

Counters == today \in 0..MaxDays /\ restarts \in 0..MaxRestarts

\* The documents chosen for a call are at least one and at most MaxDocuments.
LEMMA ChosenSized ==
  ASSUME NEW all \in SUBSET Uri, NEW uris \in Chosen(all), uris # {}
  PROVE  Cardinality(uris) \in 1..MaxDocuments
<1>1. IsFiniteSet(all) /\ IsFiniteSet(uris) /\ Cardinality(all) \in Nat
  BY FS_Subset, FS_CardinalityType, ExtractionAssumption DEF Chosen
<1>2. Cardinality(uris) \in Nat /\ Cardinality(uris) # 0
  BY <1>1, FS_CardinalityType, FS_EmptySet
<1>. QED
  BY <1>1, <1>2, ExtractionAssumption DEF Chosen

\* A document that becomes another leaves its call fetching the same set.
LEMMA BecomesSized ==
  ASSUME CallsOK, Sized, NEW c \in Call, NEW u \in Uri, NEW stage, Fetching(c, u, stage),
         NEW document, Becomes(c, u, document)
  PROVE  Sized'
<1>1. call[c] \in Running /\ call[c].stage = "fetch"
  BY DEF CallsOK, Fetching
<1>2. call' = [call EXCEPT ![c].documents[u] = document]
  BY DEF Becomes
<1>3. call'[c].stage = "fetch" /\ DOMAIN call'[c].documents = DOMAIN call[c].documents
  BY <1>1, <1>2 DEF CallsOK, Running
<1>4. \A d \in Call : d # c => call'[d] = call[d]
  BY <1>2 DEF CallsOK
<1>5. ASSUME NEW d \in Call, call'[d] # Idle
      PROVE  /\ Cardinality(DOMAIN call'[d].documents) \in 1..MaxDocuments
             /\ call'[d].stage # "fetch" =>
                  Settled(call'[d].documents) /\ Fetched(call'[d].documents) # {}
  BY <1>1, <1>3, <1>4, <1>5 DEF Sized, Documents, Fetching
<1>. QED
  BY <1>5 DEF Sized, Documents

\* Every action keeps the sizes of the calls and their order of work.
LEMMA SizedStep == FetchInv /\ Sized /\ [Next]_vars => Sized'
<1> SUFFICES ASSUME FetchInv, Sized, [Next]_vars PROVE Sized'
  OBVIOUS
<1>0. CallsOK
  BY DEF FetchInv
<1>1. ASSUME NEW c \in Call, Begin(c) PROVE Sized'
  <2>1. PICK all \in Targets[c] : \E uris \in Chosen(all) :
          IF uris = {} THEN Ends(c, Outcome("answer", "none", <<>>, FALSE))
          ELSE call' = [call EXCEPT ![c] =
                 [stage |-> "fetch", documents |-> [u \in uris |-> Start(u, 0)]]]
    BY <1>1 DEF Begin
  <2>2. PICK uris \in Chosen(all) :
          IF uris = {} THEN Ends(c, Outcome("answer", "none", <<>>, FALSE))
          ELSE call' = [call EXCEPT ![c] =
                 [stage |-> "fetch", documents |-> [u \in uris |-> Start(u, 0)]]]
    BY <2>1
  <2>3. CASE uris = {}
    BY <1>0, <2>2, <2>3 DEF Ends, Sized, CallsOK, Documents
  <2>4. CASE uris # {}
    <3>1. Cardinality(uris) \in 1..MaxDocuments
      BY <2>4, ChosenSized, ExtractionAssumption
    <3> DEFINE documents == [u \in uris |-> Start(u, 0)]
    <3>2. call' = [call EXCEPT ![c] = [stage |-> "fetch", documents |-> documents]]
      BY <2>2, <2>4
    <3>3. DOMAIN documents = uris
      OBVIOUS
    <3> HIDE DEF documents
    <3>4. /\ call'[c].stage = "fetch" /\ DOMAIN call'[c].documents = uris
          /\ \A d \in Call : d # c => call'[d] = call[d]
      BY <1>0, <3>2, <3>3 DEF CallsOK
    <3>. QED
      BY <3>1, <3>4 DEF Sized, Documents
  <2>. QED
    BY <2>3, <2>4
<1>2. ASSUME NEW c \in Call, NEW outcome, Ends(c, outcome) PROVE Sized'
  BY <1>0, <1>2 DEF Ends, Sized, CallsOK, Documents
<1>3. ASSUME NEW c \in Call, Settle(c) PROVE Sized'
  <2>1. ASSUME NEW stage \in {"vertex", "sampling"}, Fetched(Documents(c)) # {},
               call' = [call EXCEPT ![c].stage = stage]
        PROVE  Sized'
    <3>1. call[c] \in Running /\ Settled(call[c].documents)
      BY <1>0, <1>3 DEF CallsOK, Settle, Documents
    <3>2. call'[c].documents = call[c].documents
      BY <1>0, <2>1, <3>1 DEF CallsOK, Running
    <3>3. \A d \in Call : d # c => call'[d] = call[d]
      BY <1>0, <2>1 DEF CallsOK
    <3>4. call[c] # Idle
      BY <1>3 DEF Settle
    <3>. QED
      BY <2>1, <3>1, <3>2, <3>3, <3>4 DEF Sized, Documents
  <2>. QED
    BY <1>2, <1>3, <2>1 DEF Settle
<1>4. ASSUME NEW c \in Call, NEW stage, NEW mode, ModelAnswers(c, stage, mode) PROVE Sized'
  BY <1>2, <1>4 DEF ModelAnswers
<1>5. ASSUME NEW c \in Call, NEW u \in Uri,
             Resolve(c, u) \/ Respond(c, u) \/ Timeout(c, u) \/ EndBody(c, u)
      PROVE  Sized'
  BY <1>0, <1>5, BecomesSized DEF Resolve, Respond, Redirect, Timeout, EndBody, Fails
<1>6. CASE Restart
  BY <1>6 DEF Restart, Sized
<1>7. CASE NextDay \/ UNCHANGED vars
  BY <1>7 DEF NextDay, vars, Sized, Documents
<1>. QED
  BY <1>1, <1>3, <1>4, <1>5, <1>6, <1>7 DEF Next, VertexAnswers, SamplingAnswers

\* The days and the restarts stay within their bounds.
LEMMA CountersStep == Counters /\ [Next]_vars => Counters'
<1> SUFFICES ASSUME Counters, [Next]_vars PROVE Counters'
  OBVIOUS
<1>1. CASE UNCHANGED clock
  BY <1>1 DEF Counters, clock
<1>2. CASE NextDay \/ Restart
  BY <1>2, ExtractionAssumption DEF Counters, NextDay, Restart
<1>. QED
  BY <1>1, <1>2 DEF Next, Begin, Settle, VertexAnswers, SamplingAnswers, ModelAnswers,
     Resolve, Respond, Redirect, Timeout, EndBody, Fails, Becomes, vars

\* The variables keep their types: a call under way fetches at most MaxDocuments
\* documents and waits for a model only with some of them there.
THEOREM TypeCorrect == Spec => []TypeOK
<1>1. Init => FetchInv /\ SpendInv /\ Sized /\ Counters
  BY FetchInit, ExtractionAssumption DEF Init, SpendInv, Sized, Counters
<1>2. FetchInv /\ SpendInv /\ Sized /\ Counters => TypeOK
  <2> SUFFICES ASSUME FetchInv, SpendInv, Sized, Counters PROVE TypeOK
    OBVIOUS
  <2>1. ASSUME NEW c \in Call, call[c] # Idle
        PROVE  /\ DOMAIN Documents(c) \in SUBSET Uri
               /\ \A u \in DOMAIN Documents(c) : Documents(c)[u] \in Document
               /\ call[c].stage \in {"fetch", "vertex", "sampling"}
    BY <2>1 DEF FetchInv, CallsOK, Running, Documents
  <2>. QED
    BY <2>1 DEF TypeOK, SpendInv, Sized, Counters
<1>. QED
  BY <1>1, <1>2, FetchStep, SpendStep, SizedStep, CountersStep, PTL DEF Spec

-----------------------------------------------------------------------------
(* Outcomes *)

\* Who waits for a model may.
StagesOK ==
  \A c \in Call : call[c] # Idle =>
    /\ call[c].stage = "vertex" => vertexEnabled
    /\ call[c].stage = "sampling" => ~vertexEnabled /\ c \in Sampling

\* What OneDocumentSuffices says of the outcome r of a call c.
Sound(c, r) ==
  /\ r.metered = IF Billing /\ r.documents # {} THEN 1 ELSE 0
  /\ r.kind = "error" => r.documents # {} /\ (vertexEnabled \/ c \in Sampling)
  /\ r.kind = "answer" =>
       /\ r.documents = {} => r.mode = "none"
       /\ r.documents # {} /\ vertexEnabled => r.mode = "vertex_ai"
       /\ r.documents # {} /\ ~vertexEnabled /\ c \in Sampling => r.mode = "sampling"
       /\ r.documents # {} /\ ~vertexEnabled /\ c \notin Sampling => r.mode = "none"
  /\ r.extracted => r.mode # "none"

OutcomesOK ==
  /\ result = [c \in Call |-> result[c]]
  /\ \A c \in Call : result[c] # NoResult => Sound(c, result[c])

OutcomeInv == StagesOK /\ OutcomesOK /\ vertexEnabled \in BOOLEAN

\* A call that ends with a sound outcome keeps the rule.
LEMMA EndsSound ==
  ASSUME CallsOK, OutcomeInv, NEW c \in Call, NEW outcome, Ends(c, outcome), Sound(c, outcome),
         UNCHANGED vertexEnabled
  PROVE  OutcomeInv'
<1>1. /\ \A d \in Call : d # c => call'[d] = call[d] /\ result'[d] = result[d]
      /\ call'[c] = Idle /\ result'[c] = outcome
      /\ result' = [d \in Call |-> result'[d]]
  BY DEF CallsOK, OutcomeInv, OutcomesOK, Ends
<1>2. StagesOK'
  BY <1>1 DEF OutcomeInv, StagesOK
<1>3. \A d \in Call : \A r : Sound(d, r)' <=> Sound(d, r)
  BY DEF Sound
<1>4. ASSUME NEW d \in Call, result'[d] # NoResult PROVE Sound(d, result'[d])
  BY <1>1, <1>4 DEF OutcomeInv, OutcomesOK
<1>. QED
  BY <1>1, <1>2, <1>3, <1>4 DEF OutcomeInv, OutcomesOK

\* An outcome of which the kind, the mode and the documents agree is sound.
LEMMA OutcomeSound ==
  ASSUME NEW c \in Call, NEW kind, NEW mode, NEW documents, NEW extracted \in BOOLEAN,
         kind = "error" => Fetched(documents) # {} /\ (vertexEnabled \/ c \in Sampling),
         Fetched(documents) = {} => mode = "none",
         kind = "answer" /\ Fetched(documents) # {} =>
           /\ vertexEnabled => mode = "vertex_ai"
           /\ ~vertexEnabled /\ c \in Sampling => mode = "sampling"
           /\ ~vertexEnabled /\ c \notin Sampling => mode = "none",
         extracted => mode # "none"
  PROVE  Sound(c, Outcome(kind, mode, documents, extracted))
  BY ExtractionAssumption DEF Sound, Outcome, Meter

\* Nothing but the stage of a call changes when a document becomes another.
LEMMA BecomesOutcome ==
  ASSUME CallsOK, OutcomeInv, NEW c \in Call, NEW u \in Uri, NEW stage, Fetching(c, u, stage),
         NEW document, Becomes(c, u, document)
  PROVE  OutcomeInv'
<1>1. call' = [call EXCEPT ![c].documents[u] = document]
  BY DEF Becomes
<1>2. call[c] \in Running /\ call[c].stage = "fetch"
  BY DEF CallsOK, Fetching
<1>3. call'[c].stage = "fetch" /\ \A d \in Call : d # c => call'[d] = call[d]
  BY <1>1, <1>2 DEF CallsOK, Running
<1>4. StagesOK'
  BY <1>3 DEF OutcomeInv, StagesOK, Becomes
<1>. QED
  BY <1>4 DEF OutcomeInv, OutcomesOK, Sound, Becomes

\* Every action ends calls with sound outcomes only.
LEMMA OutcomeStep == FetchInv /\ Sized /\ OutcomeInv /\ [Next]_vars => OutcomeInv'
<1> SUFFICES ASSUME FetchInv, Sized, OutcomeInv, [Next]_vars PROVE OutcomeInv'
  OBVIOUS
<1>0. CallsOK
  BY DEF FetchInv
<1>1. ASSUME NEW c \in Call, Begin(c) PROVE OutcomeInv'
  <2>1. \/ Ends(c, Outcome("answer", "none", <<>>, FALSE))
        \/ \E documents : /\ call' = [call EXCEPT ![c] =
                                [stage |-> "fetch", documents |-> documents]]
                          /\ result' = [result EXCEPT ![c] = NoResult]
    BY <1>1 DEF Begin
  <2>2. CASE Ends(c, Outcome("answer", "none", <<>>, FALSE))
    <3>1. Fetched(<<>>) = {}
      BY DEF Fetched
    <3>2. Sound(c, Outcome("answer", "none", <<>>, FALSE))
      BY <3>1, OutcomeSound
    <3>. QED
      BY <1>0, <1>1, <2>2, <3>2, EndsSound DEF Begin
  <2>3. ASSUME NEW documents, call' = [call EXCEPT ![c] =
                 [stage |-> "fetch", documents |-> documents]],
               result' = [result EXCEPT ![c] = NoResult]
        PROVE  OutcomeInv'
    <3>1. vertexEnabled' = vertexEnabled
      BY <1>1 DEF Begin
    <3>2. call'[c].stage = "fetch" /\ \A d \in Call : d # c => call'[d] = call[d]
      BY <1>0, <2>3 DEF CallsOK
    <3>3. StagesOK'
      BY <3>1, <3>2 DEF OutcomeInv, StagesOK
    <3>4. OutcomesOK'
      BY <3>1, <2>3 DEF OutcomeInv, OutcomesOK, Sound
    <3>. QED
      BY <3>1, <3>3, <3>4 DEF OutcomeInv
  <2>. QED
    BY <2>1, <2>2, <2>3
<1>2. ASSUME NEW c \in Call, Settle(c) PROVE OutcomeInv'
  <2>1. vertexEnabled' = vertexEnabled /\ call[c] \in Running
    BY <1>0, <1>2 DEF Settle, CallsOK
  <2>2. ASSUME NEW stage \in {"vertex", "sampling"},
               call' = [call EXCEPT ![c].stage = stage], UNCHANGED result,
               stage = "vertex" => vertexEnabled,
               stage = "sampling" => ~vertexEnabled /\ c \in Sampling
        PROVE  OutcomeInv'
    <3>1. call'[c].stage = stage /\ \A d \in Call : d # c => call'[d] = call[d]
      BY <1>0, <2>1, <2>2 DEF CallsOK, Running
    <3>2. StagesOK'
      BY <3>1, <2>1, <2>2 DEF OutcomeInv, StagesOK
    <3>. QED
      BY <3>2, <2>1, <2>2 DEF OutcomeInv, OutcomesOK, Sound
  <2>3. CASE Fetched(Documents(c)) = {}
    <3>1. Sound(c, Outcome("answer", "none", Documents(c), FALSE))
      BY <2>3, OutcomeSound
    <3>. QED
      BY <1>0, <1>2, <2>1, <2>3, <3>1, EndsSound DEF Settle
  <2>4. CASE Fetched(Documents(c)) # {} /\ vertexEnabled
    <3>1. Sound(c, Outcome("error", "none", Documents(c), FALSE))
      BY <2>4, OutcomeSound
    <3>. QED
      BY <1>0, <1>2, <2>1, <2>2, <2>4, <3>1, EndsSound DEF Settle
  <2>5. CASE Fetched(Documents(c)) # {} /\ ~vertexEnabled /\ c \in Sampling
    BY <1>2, <2>2, <2>5 DEF Settle
  <2>6. CASE Fetched(Documents(c)) # {} /\ ~vertexEnabled /\ c \notin Sampling
    <3>1. Sound(c, Outcome("answer", "none", Documents(c), FALSE))
      BY <2>6, OutcomeSound
    <3>. QED
      BY <1>0, <1>2, <2>1, <2>6, <3>1, EndsSound DEF Settle
  <2>. QED
    BY <2>3, <2>4, <2>5, <2>6
<1>3. ASSUME NEW c \in Call, VertexAnswers(c) \/ SamplingAnswers(c) PROVE OutcomeInv'
  <2>1. Fetched(Documents(c)) # {}
    BY <1>3 DEF VertexAnswers, SamplingAnswers, ModelAnswers, Reading, Sized
  <2>2. ASSUME NEW parsed \in BOOLEAN, NEW mode \in {"vertex_ai", "sampling"},
               vertexEnabled => mode = "vertex_ai",
               ~vertexEnabled => c \in Sampling /\ mode = "sampling"
        PROVE  /\ Sound(c, Outcome("answer", mode, Documents(c), parsed))
               /\ Sound(c, Outcome("error", "none", Documents(c), FALSE))
    BY <2>1, <2>2, OutcomeSound
  <2>3. CASE VertexAnswers(c)
    <3>1. vertexEnabled
      BY <2>3 DEF VertexAnswers, ModelAnswers, Reading, OutcomeInv, StagesOK
    <3>. QED
      BY <1>0, <2>2, <2>3, <3>1, EndsSound DEF VertexAnswers, ModelAnswers
  <2>4. CASE SamplingAnswers(c)
    <3>1. ~vertexEnabled /\ c \in Sampling
      BY <2>4 DEF SamplingAnswers, ModelAnswers, Reading, OutcomeInv, StagesOK
    <3>. QED
      BY <1>0, <2>2, <2>4, <3>1, EndsSound DEF SamplingAnswers, ModelAnswers
  <2>. QED
    BY <1>3, <2>3, <2>4
<1>4. ASSUME NEW c \in Call, NEW u \in Uri,
             Resolve(c, u) \/ Respond(c, u) \/ Timeout(c, u) \/ EndBody(c, u)
      PROVE  OutcomeInv'
  BY <1>0, <1>4, BecomesOutcome DEF Resolve, Respond, Redirect, Timeout, EndBody, Fails
<1>5. CASE Restart
  BY <1>5 DEF Restart, OutcomeInv, StagesOK, OutcomesOK
<1>6. CASE NextDay \/ UNCHANGED vars
  BY <1>6 DEF NextDay, vars, OutcomeInv, StagesOK, OutcomesOK, Sound
<1>. QED
  BY <1>1, <1>2, <1>3, <1>4, <1>5, <1>6 DEF Next

\* A document that fails leaves the others to be read and metered once; only a
\* model fails a call, and the mode says who had the documents
\* (enrichWithDocumentExtraction).
THEOREM OneSuffices == Spec => []OneDocumentSuffices
<1>1. Init => FetchInv /\ Sized /\ OutcomeInv
  BY FetchInit DEF Init, Sized, OutcomeInv, StagesOK, OutcomesOK
<1>2. OutcomeInv => OneDocumentSuffices
  BY DEF OutcomeInv, OutcomesOK, Sound, OneDocumentSuffices
<1>. QED
  BY <1>1, <1>2, FetchStep, SizedStep, OutcomeStep, PTL DEF Spec
-----------------------------------------------------------------------------
(* The work a call has left *)

\* The steps a document is away from its end at most: each request of it may
\* still be redirected, and the body of the last one is read.
StepsLeft(d) ==
  CASE d.stage = "resolve" -> 3 * (MaxRedirects - d.hops) + 3
    [] d.stage = "request" -> 3 * (MaxRedirects - d.hops) + 2
    [] d.stage = "body"    -> 3 * (MaxRedirects - d.hops) + 1
    [] OTHER -> 0

\* One document of the call, and no other, has come nearer to its end.
DocumentAdvances(c) ==
  /\ call'[c].stage = call[c].stage
  /\ DOMAIN call'[c].documents = DOMAIN Documents(c)
  /\ \E u \in DOMAIN Documents(c) :
       /\ StepsLeft(call'[c].documents[u]) < StepsLeft(Documents(c)[u])
       /\ \A v \in DOMAIN Documents(c) \ {u} : call'[c].documents[v] = Documents(c)[v]

\* All of them are settled, and a model is asked to read what was fetched.
TurnsToModel(c) ==
  /\ call[c].stage = "fetch" /\ call'[c].stage \in {"vertex", "sampling"}
  /\ call'[c].documents = Documents(c)
  /\ \A u \in DOMAIN Documents(c) : StepsLeft(Documents(c)[u]) = 0

(* What a step may do to a call under way: nothing, end it, have it turn to a  *)
(* model, or bring one of its documents nearer to its end. No redirect,       *)
(* timeout or answer sends it back (fetchDocument).                           *)
CallsAdvance ==
  \A c \in Call : call[c] # Idle /\ call'[c] # call[c] =>
    call'[c] = Idle \/ TurnsToModel(c) \/ DocumentAdvances(c)

\* A document as the code makes it has a natural number of steps left.
LEMMA StepsAreNat == \A d \in Document : StepsLeft(d) \in Nat
  BY ExtractionAssumption DEF Document, StepsLeft

\* A document that becomes one with fewer steps left advances its call.
LEMMA BecomesNearer ==
  ASSUME CallsOK, NEW c \in Call, NEW u \in Uri, NEW stage, Fetching(c, u, stage),
         NEW document, Becomes(c, u, document),
         StepsLeft(document) < StepsLeft(Documents(c)[u])
  PROVE  CallsAdvance
<1>1. call[c] \in Running /\ u \in DOMAIN call[c].documents
  BY DEF CallsOK, Fetching, Documents
<1>2. call' = [call EXCEPT ![c].documents[u] = document]
  BY DEF Becomes
<1>3. /\ call'[c].stage = call[c].stage
      /\ call'[c].documents = [call[c].documents EXCEPT ![u] = document]
      /\ \A d \in Call : d # c => call'[d] = call[d]
  BY <1>1, <1>2 DEF CallsOK, Running
<1>4. PICK uris \in SUBSET Uri : call[c].documents \in [uris -> Document]
  BY <1>1 DEF Running
<1>5. /\ DOMAIN call'[c].documents = DOMAIN call[c].documents
      /\ call'[c].documents[u] = document
      /\ \A v \in DOMAIN call[c].documents \ {u} : call'[c].documents[v] = call[c].documents[v]
  BY <1>1, <1>3, <1>4
<1>6. DocumentAdvances(c)
  BY <1>1, <1>3, <1>5 DEF DocumentAdvances, Documents
<1>. QED
  BY <1>3, <1>6 DEF CallsAdvance

\* A call that ends is Idle, and the others stay as they were.
LEMMA EndsAdvances ==
  ASSUME CallsOK, NEW c \in Call, NEW outcome, Ends(c, outcome)
  PROVE  CallsAdvance
  BY DEF CallsOK, Ends, CallsAdvance

\* Every action that touches a call under way brings it forward.
LEMMA AdvanceStep == FetchInv /\ [Next]_vars => CallsAdvance
<1> SUFFICES ASSUME FetchInv, [Next]_vars PROVE CallsAdvance
  OBVIOUS
<1>0. CallsOK
  BY DEF FetchInv
<1>1. ASSUME NEW c \in Call, Begin(c) PROVE CallsAdvance
  <2>1. call[c] = Idle /\ \A d \in Call : d # c => call'[d] = call[d]
    BY <1>0, <1>1 DEF Begin, Ends, CallsOK
  <2>. QED
    BY <2>1 DEF CallsAdvance
<1>2. ASSUME NEW c \in Call, Settle(c) PROVE CallsAdvance
  <2>1. /\ call[c] \in Running /\ call[c].stage = "fetch"
        /\ Settled(Documents(c))
    BY <1>0, <1>2 DEF Settle, CallsOK
  <2>2. ASSUME NEW stage \in {"vertex", "sampling"}, call' = [call EXCEPT ![c].stage = stage]
        PROVE  CallsAdvance
    <3>1. /\ call'[c].stage = stage /\ call'[c].documents = Documents(c)
          /\ \A d \in Call : d # c => call'[d] = call[d]
      BY <1>0, <2>1, <2>2 DEF CallsOK, Running, Documents
    <3>2. \A u \in DOMAIN Documents(c) : StepsLeft(Documents(c)[u]) = 0
      BY <2>1 DEF Settled, StepsLeft
    <3>. QED
      BY <2>1, <3>1, <3>2 DEF CallsAdvance, TurnsToModel
  <2>. QED
    BY <1>0, <1>2, <2>2, EndsAdvances DEF Settle
<1>3. ASSUME NEW c \in Call, NEW stage, NEW mode, ModelAnswers(c, stage, mode)
      PROVE  CallsAdvance
  BY <1>0, <1>3, EndsAdvances DEF ModelAnswers
<1>4. ASSUME NEW c \in Call, NEW u \in Uri, NEW stage, Fetching(c, u, stage)
      PROVE  /\ Documents(c)[u] \in Document /\ Documents(c)[u].stage = stage
             /\ Documents(c)[u].hops \in 0..MaxRedirects
  BY <1>0, <1>4 DEF CallsOK, Fetching, Documents, Running, Document
<1>5. ASSUME NEW c \in Call, NEW u \in Uri, NEW stage \in {"resolve", "request", "body"},
             Fetching(c, u, stage), Fails(c, u)
      PROVE  CallsAdvance
  <2>1. StepsLeft(At("failed", u, 0)) = 0
    BY DEF StepsLeft, At
  <2>2. StepsLeft(Documents(c)[u]) > 0
    BY <1>4, <1>5, ExtractionAssumption DEF StepsLeft
  <2>. QED
    BY <1>0, <1>5, <2>1, <2>2, BecomesNearer DEF Fails
<1>6. ASSUME NEW c \in Call, NEW u \in Uri, Resolve(c, u) PROVE CallsAdvance
  <2> DEFINE d == Documents(c)[u]
             next == [d EXCEPT !.stage = "request"]
  <2>1. Fetching(c, u, "resolve")
    BY <1>6 DEF Resolve
  <2>2. next.stage = "request" /\ next.hops = d.hops /\ d.stage = "resolve"
        /\ d.hops \in 0..MaxRedirects
    BY <2>1, <1>4 DEF Document
  <2>3. StepsLeft(next) < StepsLeft(d)
    BY <2>2, ExtractionAssumption DEF StepsLeft
  <2>. QED
    BY <1>0, <1>5, <1>6, <2>1, <2>3, BecomesNearer DEF Resolve
<1>7. ASSUME NEW c \in Call, NEW u \in Uri, Respond(c, u) PROVE CallsAdvance
  <2> DEFINE d == Documents(c)[u]
  <2>1. Fetching(c, u, "request")
    BY <1>7 DEF Respond
  <2>2. d.stage = "request" /\ d.hops \in 0..MaxRedirects
    BY <2>1, <1>4
  <2>3. ASSUME NEW location \in Uri, Redirect(c, u, location) PROVE CallsAdvance
    <3>1. CASE d.hops = MaxRedirects
      BY <1>5, <2>1, <2>3, <3>1 DEF Redirect
    <3>2. CASE d.hops # MaxRedirects
      <4> DEFINE next == Start(location, d.hops + 1)
      <4>1. \/ next.stage = "resolve" /\ next.hops = d.hops + 1
            \/ next.stage = "failed"
        BY DEF Start, At
      <4>2. Becomes(c, u, next)
        BY <2>3, <3>2 DEF Redirect
      <4> HIDE DEF next
      <4>3. StepsLeft(next) < StepsLeft(d)
        BY <2>2, <3>2, <4>1, ExtractionAssumption DEF StepsLeft
      <4>. QED
        BY <1>0, <2>1, <4>2, <4>3, BecomesNearer
    <3>. QED
      BY <3>1, <3>2
  <2>4. ASSUME Becomes(c, u, [d EXCEPT !.stage = "body"]) PROVE CallsAdvance
    <3> DEFINE next == [d EXCEPT !.stage = "body"]
    <3>1. next.stage = "body" /\ next.hops = d.hops
      BY <2>1, <1>4 DEF Document
    <3>2. StepsLeft(next) < StepsLeft(d)
      BY <2>2, <3>1, ExtractionAssumption DEF StepsLeft
    <3>. QED
      BY <1>0, <2>1, <2>4, <3>2, BecomesNearer
  <2>. QED
    BY <1>5, <1>7, <2>1, <2>3, <2>4 DEF Respond
<1>8. ASSUME NEW c \in Call, NEW u \in Uri, Timeout(c, u) PROVE CallsAdvance
  BY <1>5, <1>8 DEF Timeout
<1>9. ASSUME NEW c \in Call, NEW u \in Uri, EndBody(c, u) PROVE CallsAdvance
  <2> DEFINE d == Documents(c)[u]
             next == [d EXCEPT !.stage = "done"]
  <2>1. Fetching(c, u, "body")
    BY <1>9 DEF EndBody
  <2>2. d.stage = "body" /\ d.hops \in 0..MaxRedirects /\ next.stage = "done"
    BY <2>1, <1>4 DEF Document
  <2>3. StepsLeft(next) < StepsLeft(d)
    BY <2>2, ExtractionAssumption DEF StepsLeft
  <2>. QED
    BY <1>0, <1>5, <1>9, <2>1, <2>3, BecomesNearer DEF EndBody
<1>10. CASE Restart
  BY <1>10 DEF Restart, CallsAdvance
<1>11. CASE NextDay \/ UNCHANGED vars
  BY <1>11 DEF NextDay, vars, CallsAdvance
<1>. QED
  BY <1>1, <1>2, <1>3, <1>6, <1>7, <1>8, <1>9, <1>10, <1>11
    DEF Next, VertexAnswers, SamplingAnswers

\* Whatever redirects, failures and other calls come in between, a call under
\* way only comes nearer to its end: what CallsEnd needs beside fairness
\* (fetchDocument, enrichWithDocumentExtraction).
THEOREM CallsComeNearer == Spec => [][CallsAdvance]_vars
  BY FetchInit, FetchStep, AdvanceStep, PTL DEF Spec
=============================================================================
