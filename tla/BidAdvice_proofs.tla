-------------------------- MODULE BidAdvice_proofs ---------------------------
(***************************************************************************)
(* Proofs about what the server advises of a notice (BidTools, with the rules *)
(* of BidRules) and about what the apps make of it (Workspace), for any       *)
(* notices, portals, profiles, options, limits and bounds.                   *)
(***************************************************************************)
EXTENDS BidTools, Workspace, FiniteSetTheorems, SequenceTheorems, WellFoundedInduction, TLAPS

-----------------------------------------------------------------------------
(* Numbers and lists *)

\* The smaller of two numbers.
LEMMA MinOfTwo ==
  ASSUME NEW m \in Int, NEW n \in Int
  PROVE  Min({m, n}) = IF m <= n THEN m ELSE n
<1>1. PICK low \in {m, n} : \A y \in {m, n} : low <= y
  <2>1. CASE m <= n
    BY <2>1
  <2>2. CASE n <= m
    BY <2>2
  <2>. QED
    BY <2>1, <2>2
<1>2. Min({m, n}) \in {m, n} /\ \A y \in {m, n} : Min({m, n}) <= y
  BY <1>1 DEF Min
<1>. QED
  BY <1>2

\* The larger of two numbers, as the view models and Math.max pick it.
LEMMA MaxOfTwo ==
  ASSUME NEW m \in Int, NEW n \in Int
  PROVE  Max({m, n}) = IF m >= n THEN m ELSE n
<1>1. PICK top \in {m, n} : \A y \in {m, n} : top >= y
  <2>1. CASE m >= n
    BY <2>1
  <2>2. CASE n >= m
    BY <2>2
  <2>. QED
    BY <2>1, <2>2
<1>2. Max({m, n}) \in {m, n} /\ \A y \in {m, n} : Max({m, n}) >= y
  BY <1>1 DEF Max
<1>. QED
  BY <1>2

\* Some of the positions of a list: there is a last one.
LEMMA LastPosition ==
  ASSUME NEW n \in Nat, NEW at \in SUBSET (1..n), at # {}
  PROVE  Max(at) \in at
<1>1. PICK less : less = {ss \in Nat \X Nat : ss[1] < ss[2]}
  OBVIOUS
<1>2. IsWellFoundedOn(less, Nat)
  BY <1>1, NatLessThanWellFounded DEF OpToRel
<1>3. PICK rest : rest = {n - i : i \in at}
  OBVIOUS
<1>4. rest \subseteq Nat /\ rest # {}
  <2>1. \A i \in at : i \in 1..n
    OBVIOUS
  <2>2. \A i \in at : n - i \in Nat
    BY <2>1
  <2>. QED
    BY <1>3, <2>2
<1>5. PICK x \in rest : \A y \in rest : ~ (<<y, x>> \in less)
  BY <1>2, <1>4, WFMin
<1>6. PICK last \in at : x = n - last
  BY <1>3, <1>5
<1>7. \A i \in at : last >= i
  <2>1. TAKE i \in at
  <2>2. n - i \in rest /\ <<n - i, x>> \in Nat \X Nat
    BY <1>3, <1>4, <1>5
  <2>3. ~(n - i < x)
    BY <1>1, <1>5, <2>2
  <2>. QED
    BY <1>6, <2>3
<1>. QED
  BY <1>7 DEF Max

\* What is cut off a list leaves a list of the same notices.
LEMMA FirstNSeq ==
  ASSUME NEW S, NEW list \in Seq(S), NEW n \in Nat
  PROVE  FirstN(list, n) \in Seq(S)
<1>1. Len(list) \in Nat
  OBVIOUS
<1>2. PICK m \in Nat : m = Min({n, Len(list)}) /\ m <= Len(list)
  BY <1>1, MinOfTwo
<1>3. SubSeq(list, 1, m) \in Seq(S)
  <2>1. \A i \in 1..m : list[i] \in S
    BY <1>1, <1>2
  <2>. QED
    BY <2>1, SubSeqProperties
<1>4. FirstN(list, n) = SubSeq(list, 1, m)
  BY <1>2 DEF FirstN
<1>. QED
  BY <1>3, <1>4

\* So does a search that some of the notices satisfy.
LEMMA ListedInOrder ==
  ASSUME NEW S, portal \in Seq(S), NEW at \in SUBSET DOMAIN portal, NEW list \in InOrder(at)
  PROVE  list \in Seq(S)
<1>1. IsFiniteSet(at) /\ Cardinality(at) \in Nat
  <2>1. Len(portal) \in Nat /\ at \subseteq 1..Len(portal)
    OBVIOUS
  <2>2. IsFiniteSet(1..Len(portal))
    BY <2>1, FS_Interval
  <2>3. IsFiniteSet(at)
    BY <2>1, <2>2, FS_Subset
  <2>. QED
    BY <2>3, FS_CardinalityType
<1>2. PICK f \in [1..Cardinality(at) -> at] : list = [i \in DOMAIN f |-> portal[f[i]]]
  BY DEF InOrder
<1>3. \A i \in 1..Cardinality(at) : portal[f[i]] \in S
  BY <1>2
<1>. QED
  BY <1>1, <1>2, <1>3

-----------------------------------------------------------------------------
(* The tools *)

\* The portal lists notices of its own, at a time that is a number.
PortalInv == now \in Nat /\ portal \in Seq(Versions)

(* What is listed was on the portal in this half day, and what is known in the   *)
(* half day in which it was learnt.                                          *)
HeldInv ==
  /\ now \in 0..HalfDays
  /\ held \in [0..HalfDays -> SUBSET Versions]
  /\ Listed(portal) \subseteq held[now]
  /\ \A e \in known : e.at \in 0..now /\ e.bid \in held[e.at]

\* The tools that answer about a list, and those that answer about one notice.
ListTool ==
  \/ SearchBids \/ ListRecentBids \/ RankTool \/ SummarizeBidsByOrg \/ AnalyzePastAwards
  \/ MapAwardsToListed \/ GetListedAwardHistory
KeyTool ==
  \/ GetBidDetail \/ TakeNotice \/ ExplainBidFit \/ AssessBidQualification
  \/ CreateBidCalendar \/ CreateBidReviewPacket \/ ExtractBidRequirements
  \/ DraftBidQuestions

\* A tool leaves the portal alone.
LEMMA ToolQuiet == ListTool \/ KeyTool => UNCHANGED <<now, portal, held>>
  BY DEF ListTool, KeyTool, SearchBids, ListRecentBids, RankTool, SummarizeBidsByOrg,
         AnalyzePastAwards, MapAwardsToListed, GetListedAwardHistory, GetBidDetail,
         TakeNotice, AnswersCall, ExplainBidFit, AssessBidQualification, CreateBidCalendar,
         CreateBidReviewPacket, ExtractBidRequirements, DraftBidQuestions

\* A search has no notice to await documents with.
LEMMA ListToolCalls == ListTool => call' = call
  BY DEF ListTool, SearchBids, ListRecentBids, RankTool, SummarizeBidsByOrg,
         AnalyzePastAwards, MapAwardsToListed, GetListedAwardHistory

\* What a search brings is on the portal.
LEMMA ListToolFinds ==
  ASSUME NEW S, portal \in Seq(S), ListTool
  PROVE  \E bids \in Seq(S) : known' = Remembered(bids)
<1>1. \A list \in Seq(S), limit \in Limits :
        Found(list, limit).bids \in Seq(S)
  BY FirstNSeq, ToolsAssumption DEF Found
<1>2. CASE SearchBids
  BY <1>1, <1>2 DEF SearchBids
<1>3. CASE ListRecentBids
  <2>1. PICK at \in SUBSET DOMAIN portal, limit \in Limits : \E list \in InOrder(at) :
          known' = Remembered(Found(list, limit).bids)
    BY <1>3 DEF ListRecentBids
  <2>. QED
    BY <1>1, <2>1, ListedInOrder
<1>4. CASE RankTool
  BY <1>1, <1>4 DEF RankTool
<1>5. CASE SummarizeBidsByOrg
  <2>1. PICK at \in SUBSET DOMAIN portal, limit \in Limits : \E list \in InOrder(at) :
          known' = Remembered(Found(list, limit).bids)
    BY <1>5 DEF SummarizeBidsByOrg
  <2>. QED
    BY <1>1, <2>1, ListedInOrder
<1>6. CASE AnalyzePastAwards
  BY <1>1, <1>6 DEF AnalyzePastAwards
<1>7. CASE MapAwardsToListed
  BY <1>1, <1>7 DEF MapAwardsToListed
<1>8. CASE GetListedAwardHistory
  <2>1. PICK at \in SUBSET DOMAIN portal, limit \in Limits : \E list \in InOrder(at) :
          known' = Remembered(Found(list, limit).bids)
    BY <1>8 DEF GetListedAwardHistory
  <2>. QED
    BY <1>1, <2>1, ListedInOrder
<1>. QED
  BY <1>2, <1>3, <1>4, <1>5, <1>6, <1>7, <1>8 DEF ListTool

\* What a search brings is remembered with the half day it is from.
LEMMA LearntNow ==
  ASSUME HeldInv, NEW bids \in Seq(held[now]), known' = Remembered(bids),
         UNCHANGED <<now, portal, held>>
  PROVE  HeldInv'
<1>1. ASSUME NEW e \in known' PROVE e.at \in 0..now /\ e.bid \in held[e.at]
  <2>1. CASE e \in known
    BY <2>1 DEF HeldInv
  <2>2. CASE e \notin known
    <3>1. PICK b \in Listed(bids) : e = [bid |-> b, at |-> now]
      BY <1>1, <2>2 DEF Remembered
    <3>2. b \in held[now]
      BY DEF Listed
    <3>. QED
      BY <3>1, <3>2 DEF HeldInv
  <2>. QED
    BY <2>1, <2>2
<1>. QED
  BY <1>1 DEF HeldInv, Listed

LEMMA OneSeq == ASSUME NEW S, NEW b \in S PROVE <<b>> \in Seq(S)
  OBVIOUS

\* What is found by its key is a recent notice of the portal, and stays one when it is
\* remembered.
LEMMA LookupFinds ==
  ASSUME HeldInv, NEW k \in Key, NEW bid, Lookup(k, bid)
  PROVE  /\ ~Remember => bid \in Lately
         /\ known' = known \/ \E bids \in Seq(held[now]) : known' = Remembered(bids)
<1>1. CASE bid \in CachedBids(k) /\ UNCHANGED known
  <2>1. PICK e \in known : e.bid = bid /\ Usable(e)
    BY <1>1 DEF CachedBids
  <2>2. e.at \in 0..now /\ bid \in held[e.at] /\ now \in Nat
    BY <2>1 DEF HeldInv
  <2>3. ~Remember => now <= e.at + 1
    BY <2>1 DEF Usable
  <2>4. ~Remember => e.at = now \/ (now # 0 /\ e.at = now - 1)
    BY <2>2, <2>3
  <2>. QED
    BY <1>1, <2>2, <2>4 DEF Lately
<1>2. CASE (\E i \in Holds(k) : bid = portal[i]) /\ known' = Remembered(<<bid>>)
  <2>1. bid \in held[now]
    BY <1>2 DEF Holds, HeldInv, Listed
  <2>2. <<bid>> \in Seq(held[now])
    BY <2>1, OneSeq
  <2>. QED
    BY <1>2, <2>1, <2>2 DEF Lately
<1>. QED
  BY <1>1, <1>2 DEF Lookup

\* A tool about one notice learns what it looks up, or nothing.
LEMMA KeyToolFinds ==
  ASSUME HeldInv, KeyTool
  PROVE  known' = known \/ \E bids \in Seq(held[now]) : known' = Remembered(bids)
<1>1. CASE GetBidDetail \/ TakeNotice
  <2>1. PICK k \in Key : \E bid \in Findable(k) : Lookup(k, bid)
    BY <1>1 DEF GetBidDetail, TakeNotice
  <2>. QED
    BY <2>1, LookupFinds
<1>2. CASE ~(GetBidDetail \/ TakeNotice)
  BY <1>2 DEF KeyTool, AnswersCall, ExplainBidFit, AssessBidQualification,
         CreateBidCalendar, CreateBidReviewPacket, ExtractBidRequirements, DraftBidQuestions
<1>. QED
  BY <1>1, <1>2

\* The portal after any step.
LEMMA PortalStep == PortalInv /\ [Next]_vars => PortalInv'
<1> SUFFICES ASSUME PortalInv, [Next]_vars PROVE PortalInv'
  OBVIOUS
<1> USE DEF PortalInv
<1>1. CASE Tick
  BY <1>1 DEF Tick
<1>2. CASE Amend
  BY <1>2 DEF Amend, Versions
<1>3. CASE Withdraw
  BY <1>3 DEF Withdraw
<1>4. CASE CallFails \/ TakeAnswer
  BY <1>4 DEF CallFails, TakeAnswer
<1>5. CASE ListTool \/ KeyTool
  BY <1>5, ToolQuiet
<1>6. CASE UNCHANGED vars
  BY <1>6 DEF vars
<1>. QED
  BY <1>1, <1>2, <1>3, <1>4, <1>5, <1>6 DEF Next, ListTool, KeyTool

\* What was held when, after any step.
LEMMA HeldStep == PortalInv /\ HeldInv /\ [Next]_vars => HeldInv'
<1> SUFFICES ASSUME PortalInv, HeldInv, [Next]_vars PROVE HeldInv'
  OBVIOUS
<1>0. HalfDays \in Nat
  BY ToolsAssumption
<1>1. CASE Tick
  <2>1. /\ now < HalfDays /\ now' = now + 1 /\ UNCHANGED <<portal, known>>
        /\ held' = [held EXCEPT ![now + 1] = Listed(portal)]
    BY <1>1 DEF Tick
  <2>2. now' \in 0..HalfDays /\ now + 1 \in 0..HalfDays
    BY <1>0, <2>1 DEF HeldInv
  <2>3. Listed(portal) \subseteq Versions
    BY DEF PortalInv, Listed
  <2>4. held' \in [0..HalfDays -> SUBSET Versions] /\ held'[now'] = Listed(portal)
    BY <2>1, <2>2, <2>3 DEF HeldInv
  <2>5. ASSUME NEW e \in known PROVE e.at \in 0..now' /\ e.bid \in held'[e.at]
    <3>1. e.at \in 0..now /\ e.bid \in held[e.at] /\ now \in Nat
      BY DEF HeldInv
    <3>2. e.at # now + 1 /\ e.at \in 0..HalfDays
      BY <1>0, <2>1, <3>1
    <3>3. held'[e.at] = held[e.at]
      BY <2>1, <3>2 DEF HeldInv
    <3>. QED
      BY <2>1, <3>1, <3>3
  <2>. QED
    BY <2>1, <2>2, <2>4, <2>5 DEF HeldInv, Listed
<1>2. CASE Amend
  <2>1. PICK i \in DOMAIN portal, n \in Amendments :
          /\ portal' = [portal EXCEPT ![i] = n] /\ held' = [held EXCEPT ![now] = @ \cup {n}]
          /\ UNCHANGED <<now, known>>
    BY <1>2 DEF Amend
  <2>2. Listed(portal)' \subseteq Listed(portal) \cup {n}
    BY <2>1 DEF Listed, PortalInv
  <2>3. n \in Versions
    BY DEF Versions
  <2>4. /\ held' \in [0..HalfDays -> SUBSET Versions] /\ held'[now] = held[now] \cup {n}
        /\ \A t \in 0..HalfDays : held[t] \subseteq held'[t]
    BY <2>1, <2>3 DEF HeldInv
  <2>5. \A e \in known : e.at \in 0..HalfDays
    BY <1>0 DEF HeldInv
  <2>. QED
    BY <2>1, <2>2, <2>4, <2>5 DEF HeldInv
<1>3. CASE Withdraw
  <2>1. portal' = Tail(portal) /\ portal # <<>> /\ UNCHANGED <<now, known, held>>
    BY <1>3 DEF Withdraw
  <2>2. Listed(portal)' \subseteq Listed(portal)
    BY <2>1, HeadTailProperties DEF Listed, PortalInv
  <2>. QED
    BY <2>1, <2>2 DEF HeldInv
<1>4. CASE CallFails \/ TakeAnswer \/ UNCHANGED vars
  BY <1>4 DEF CallFails, TakeAnswer, vars, HeldInv, Listed
<1>5. CASE ListTool \/ KeyTool
  <2>1. UNCHANGED <<now, portal, held>>
    BY <1>5, ToolQuiet
  <2>2. CASE known' = known
    BY <2>1, <2>2 DEF HeldInv, Listed
  <2>3. CASE \E bids \in Seq(held[now]) : known' = Remembered(bids)
    BY <2>1, <2>3, LearntNow
  <2>4. CASE ListTool
    <3>1. portal \in Seq(held[now])
      BY DEF PortalInv, HeldInv, Listed
    <3>. QED
      BY <2>3, <2>4, <3>1, ListToolFinds
  <2>5. CASE KeyTool
    BY <2>2, <2>3, <2>5, KeyToolFinds
  <2>. QED
    BY <1>5, <2>4, <2>5
<1>. QED
  BY <1>1, <1>2, <1>3, <1>4, <1>5 DEF Next, ListTool, KeyTool

-----------------------------------------------------------------------------
(* What the answers say *)

\* An answer is of one of five tools that the properties are about, or of another.
Elsewhere ==
  answer'.tool \in {"error", "search_bids", "list_recent_bids", "rank_bids", "analyze_past_awards",
                    "summarize_bids_by_org", "map_awards_to_listed", "get_listed_award_history",
                    "get_bid_detail", "explain_bid_fit"}

\* Answers names the tool.
LEMMA AnswersOf ==
  /\ \A tool, key, content : Answers(tool, key, content) => answer'.tool = tool
  /\ \A tool, content : AnswersCall(tool, content) => answer'.tool = tool
  BY DEF Answers, AnswersCall

\* Where an answer comes from.
LEMMA AnswerComes ==
  ASSUME [Next]_vars
  PROVE  \/ answer' = answer \/ answer' = NoAnswer \/ Elsewhere
         \/ AssessBidQualification \/ CreateBidCalendar \/ CreateBidReviewPacket
         \/ ExtractBidRequirements \/ DraftBidQuestions
<1>1. CASE Tick \/ Amend \/ Withdraw \/ TakeAnswer \/ TakeNotice \/ UNCHANGED vars
  BY <1>1 DEF Tick, Amend, Withdraw, TakeAnswer, TakeNotice, vars
<1>2. CASE CallFails
  BY <1>2 DEF CallFails, Elsewhere
<1>3. CASE SearchBids \/ ListRecentBids \/ RankTool
  BY AnswersOf, <1>3 DEF SearchBids, ListRecentBids, RankTool, Elsewhere
<1>4. CASE SummarizeBidsByOrg \/ AnalyzePastAwards
  BY AnswersOf, <1>4 DEF SummarizeBidsByOrg, AnalyzePastAwards, Elsewhere
<1>5. CASE MapAwardsToListed
  BY AnswersOf, <1>5 DEF MapAwardsToListed, Elsewhere
<1>6. CASE GetListedAwardHistory
  BY AnswersOf, <1>6 DEF GetListedAwardHistory, Elsewhere
<1>7. CASE GetBidDetail \/ ExplainBidFit
  BY AnswersOf, <1>7 DEF GetBidDetail, ExplainBidFit, Elsewhere
<1>. QED
  BY <1>1, <1>2, <1>3, <1>4, <1>5, <1>6, <1>7 DEF Next

\* Only get_bid_detail answers with what it looked up at once.
LEMMA DetailComes ==
  ASSUME [Next]_vars, answer' # answer, answer' # NoAnswer, answer'.tool = "get_bid_detail"
  PROVE  GetBidDetail
<1>1. CASE Tick \/ Amend \/ Withdraw \/ TakeAnswer \/ TakeNotice \/ CallFails \/ UNCHANGED vars
  BY <1>1 DEF Tick, Amend, Withdraw, TakeAnswer, TakeNotice, CallFails, vars
<1>2. CASE SearchBids \/ ListRecentBids \/ RankTool \/ SummarizeBidsByOrg
  BY AnswersOf, <1>2 DEF SearchBids, ListRecentBids, RankTool, SummarizeBidsByOrg
<1>3. CASE AnalyzePastAwards
  BY AnswersOf, <1>3 DEF AnalyzePastAwards
<1>4. CASE MapAwardsToListed
  BY AnswersOf, <1>4 DEF MapAwardsToListed
<1>5. CASE GetListedAwardHistory
  BY AnswersOf, <1>5 DEF GetListedAwardHistory
<1>6. CASE ExplainBidFit \/ AssessBidQualification \/ CreateBidCalendar
  BY AnswersOf, <1>6 DEF ExplainBidFit, AssessBidQualification, CreateBidCalendar
<1>7. CASE CreateBidReviewPacket \/ ExtractBidRequirements \/ DraftBidQuestions
  BY AnswersOf, <1>7 DEF CreateBidReviewPacket, ExtractBidRequirements, DraftBidQuestions
<1>. QED
  BY <1>1, <1>2, <1>3, <1>4, <1>5, <1>6, <1>7 DEF Next

\* Only a call that takes its notice comes to await documents.
LEMMA CallComes ==
  ASSUME [Next]_vars, call' # call, Given(call')
  PROVE  TakeNotice
<1>1. CASE Tick \/ Amend \/ Withdraw \/ TakeAnswer \/ CallFails \/ UNCHANGED vars
  BY <1>1 DEF Tick, Amend, Withdraw, TakeAnswer, CallFails, Given, vars
<1>2. CASE ListTool
  BY <1>2, ListToolCalls
<1>3. CASE KeyTool /\ ~TakeNotice
  BY <1>3 DEF KeyTool, GetBidDetail, AnswersCall, ExplainBidFit, AssessBidQualification,
              CreateBidCalendar, CreateBidReviewPacket, ExtractBidRequirements,
              DraftBidQuestions, Given
<1>. QED
  BY <1>1, <1>2, <1>3 DEF Next, ListTool, KeyTool

-----------------------------------------------------------------------------
(* The ranking *)

\* A score that is cut to 0..100 keeps its order.
LEMMA ClampKeepsOrder ==
  ASSUME NEW m \in Int, NEW n \in Int, m <= n
  PROVE  Clamp(m) <= Clamp(n) /\ {Clamp(m), Clamp(n)} \subseteq 0..100
<1>1. \A i \in Int : Clamp(i) = IF i >= 100 THEN 100 ELSE IF i >= 0 THEN i ELSE 0
  <2>1. TAKE i \in Int
  <2>2. Min({100, i}) \in Int /\ Min({100, i}) = IF 100 <= i THEN 100 ELSE i
    BY MinOfTwo
  <2>. QED
    BY <2>2, MaxOfTwo DEF Clamp
<1>. QED
  BY <1>1

\* What scoreDeadline says of a day, and of a text without one.
LEMMA StatusOfDay ==
  ASSUME NEW bid, Readable(bid.deadline) => bid.deadline.day \in Int, NEW due \in Int,
         NEW today \in Int
  PROVE  LET status == DeadlineStatus(bid, due, today)
             left == bid.deadline.day - today
         IN /\ ~Readable(bid.deadline) => status = "unread"
            /\ Readable(bid.deadline) =>
                 /\ status \in {"overdue", "rushed", "due", "far"}
                 /\ status = "overdue" <=> left < 0
                 /\ status = "rushed" <=> left \in 0..3
                 /\ status = "due" <=> left > 3 /\ left <= due
<1>1. CASE ~Readable(bid.deadline)
  BY <1>1 DEF DeadlineStatus
<1>2. CASE Readable(bid.deadline)
  <2>1. PICK left \in Int : left = bid.deadline.day - today
    BY <1>2
  <2>2. PICK status : status = DeadlineStatus(bid, due, today)
    OBVIOUS
  <2>3. status = IF left < 0 THEN "overdue" ELSE IF left <= 3 THEN "rushed"
                 ELSE IF left <= due THEN "due" ELSE "far"
    BY <1>2, <2>1, <2>2 DEF DeadlineStatus
  <2>4. /\ status \in {"overdue", "rushed", "due", "far"}
        /\ status = "overdue" <=> left < 0
        /\ status = "rushed" <=> left \in 0..3
        /\ status = "due" <=> left > 3 /\ left <= due
    BY <2>3
  <2>. QED
    BY <1>2, <2>1, <2>2, <2>4
<1>. QED
  BY <1>1, <1>2

\* A deadline in days of Japan against the UTC days of a ranking.
LEMMA OverdueDays ==
  ASSUME NEW day \in Int, NEW time \in Nat
  PROVE  /\ day - UtcDay(time) < 0 => JapanDay(time) > day
         /\ JapanDay(time) > day + 1 => day - UtcDay(time) < 0
  BY DEF UtcDay, JapanDay

\* What scoreDeadline adds: no more the day after, unless the window opens.
LEMMA PointsFall ==
  ASSUME NEW bid, Readable(bid.deadline) => bid.deadline.day \in Int, NEW due \in Int,
         NEW today \in Int, bid.deadline.day - (today + 1) # due
  PROVE  LET points(t) == DeadlinePoints[DeadlineStatus(bid, due, t)] IN
         /\ points(today) \in Int /\ points(today + 1) \in Int
         /\ points(today + 1) <= points(today)
<1>1. PICK now1, next1 : /\ now1 = DeadlineStatus(bid, due, today)
                         /\ next1 = DeadlineStatus(bid, due, today + 1)
  OBVIOUS
<1>2. CASE ~Readable(bid.deadline)
  <2>1. now1 = "unread" /\ next1 = "unread"
    BY <1>1, <1>2 DEF DeadlineStatus
  <2>. QED
    BY <1>1, <2>1 DEF DeadlinePoints
<1>3. CASE Readable(bid.deadline)
  <2>1. PICK left \in Int : left = bid.deadline.day - today
    BY <1>3
  <2>2. bid.deadline.day - (today + 1) = left - 1
    BY <1>3, <2>1
  <2>3. /\ now1 \in {"overdue", "rushed", "due", "far"}
        /\ now1 = "overdue" <=> left < 0
        /\ now1 = "rushed" <=> left \in 0..3
        /\ now1 = "due" <=> left > 3 /\ left <= due
    BY <1>1, <1>3, <2>1, StatusOfDay
  <2>4. today + 1 \in Int
    OBVIOUS
  <2>5. /\ next1 \in {"overdue", "rushed", "due", "far"}
        /\ next1 = "overdue" <=> left - 1 < 0
        /\ next1 = "rushed" <=> left - 1 \in 0..3
        /\ next1 = "due" <=> left - 1 > 3 /\ left - 1 <= due
    BY <1>1, <1>3, <2>2, <2>4, StatusOfDay
  <2>6. \/ now1 = next1
        \/ now1 = "rushed" /\ next1 = "overdue"
        \/ now1 \in {"due", "far"} /\ next1 = "rushed"
    BY <2>2, <2>3, <2>5
  <2>. QED
    BY <1>1, <2>3, <2>5, <2>6 DEF DeadlinePoints
<1>. QED
  BY <1>2, <1>3

\* The keywords that hit are counted, and there are finitely many.
LEMMA HitsCounted ==
  ASSUME NEW bid, NEW keywords, IsFiniteSet(DOMAIN keywords)
  PROVE  HitCount(bid, keywords) \in Nat
<1>1. PICK hits : hits = {i \in DOMAIN keywords : keywords[i] \in Haystack(bid) \ {Absent}}
  OBVIOUS
<1>2. IsFiniteSet(hits)
  BY <1>1, FS_Subset
<1>. QED
  BY <1>1, <1>2, FS_CardinalityType DEF HitCount

\* A notice's score the day after (rankBid).
LEMMA ScoreFalls ==
  ASSUME NEW bid, Readable(bid.deadline) => bid.deadline.day \in Int, NEW options \in Options,
         NEW today \in Int, bid.deadline.day - (today + 1) # options.dueWithin
  PROVE  Score(bid, options, today + 1) <= Score(bid, options, today)
<1>1. options.dueWithin \in Int
  BY InputsAssumption
<1>2. PICK p, q : /\ p = DeadlinePoints[DeadlineStatus(bid, options.dueWithin, today)]
                  /\ q = DeadlinePoints[DeadlineStatus(bid, options.dueWithin, today + 1)]
  OBVIOUS
<1>3. p \in Int /\ q \in Int /\ q <= p
  BY <1>1, <1>2, PointsFall
<1>4. PICK wins, losses : /\ wins = HitCount(bid, options.prefer)
                          /\ losses = HitCount(bid, options.avoid)
  OBVIOUS
<1>5. wins \in Nat /\ losses \in Nat
  BY <1>4, HitsCounted, InputsAssumption
<1>6. PICK head, procedure, tail :
        /\ head = 45 + (IF bid.page THEN 8 ELSE -12)
                  + (IF Given(bid.organization) THEN 5 ELSE 0)
                  + (IF Given(bid.prefecture) THEN 4 ELSE 0)
                  + (IF Given(bid.category) THEN 4 ELSE 0) + 7 * wins - 15 * losses
        /\ procedure = ProcedurePoints(bid) /\ tail = (IF Given(bid.deadline) THEN 0 ELSE -10)
  OBVIOUS
<1>7. head \in Int /\ procedure \in Int /\ tail \in Int
  BY <1>5, <1>6 DEF ProcedurePoints
<1>8. /\ Score(bid, options, today) = Clamp(head + p + procedure + tail)
      /\ Score(bid, options, today + 1) = Clamp(head + q + procedure + tail)
  BY <1>2, <1>4, <1>6 DEF Score
<1>9. head + q + procedure + tail <= head + p + procedure + tail
  BY <1>3, <1>7
<1>. QED
  BY <1>3, <1>7, <1>8, <1>9, ClampKeepsOrder

(* Ranking by UTC days (scoreDeadline) calls a notice overdue only after its day   *)
(* ended in Japan, and no later than a day after that: the two calendars differ   *)
(* by half a day.                                                            *)
THEOREM OverdueAfterJapanDay == Spec => []OverdueOnlyAfterJapanDay
<1>1. Init => PortalInv
  BY NoticesAssumption DEF Init, PortalInv
<1>2. PortalInv => OverdueOnlyAfterJapanDay
  <2> SUFFICES ASSUME PortalInv, NEW bid \in Listed(portal), NEW options \in Options,
                      Readable(bid.deadline)
               PROVE  LET overdue ==
                            DeadlineStatus(bid, options.dueWithin, UtcDay(now)) = "overdue"
                      IN /\ overdue => JapanDay(now) > bid.deadline.day
                         /\ JapanDay(now) > bid.deadline.day + 1 => overdue
    BY DEF OverdueOnlyAfterJapanDay
  <2>1. bid.deadline.day \in Int
    BY NoticesAssumption DEF PortalInv, Listed
  <2>2. options.dueWithin \in Int /\ UtcDay(now) \in Int
    BY InputsAssumption DEF UtcDay, PortalInv
  <2>3. DeadlineStatus(bid, options.dueWithin, UtcDay(now)) = "overdue"
          <=> bid.deadline.day - UtcDay(now) < 0
    BY <2>1, <2>2, StatusOfDay
  <2>4. now \in Nat
    BY DEF PortalInv
  <2>. QED
    BY <2>1, <2>3, <2>4, OverdueDays
<1>. QED
  BY <1>1, <1>2, PortalStep, PTL DEF Spec

(* rankBid: time lowers a score or leaves it, but on the day the deadline comes    *)
(* within due_within_days, whatever the notice and the options.               *)
THEOREM WaitingHelpsNobody == Spec => WaitingNeverHelps
<1>1. Init => PortalInv
  BY NoticesAssumption DEF Init, PortalInv
<1>2. ASSUME PortalInv, [Next]_vars, UtcDay(now') # UtcDay(now),
             NEW bid \in Listed(portal) \cap Listed(portal'), NEW options \in Options
      PROVE  \/ Score(bid, options, UtcDay(now')) <= Score(bid, options, UtcDay(now))
             \/ bid.deadline.day - UtcDay(now') = options.dueWithin
  <2>1. now' = now + 1
    <3>1. CASE Tick
      BY <3>1 DEF Tick
    <3>2. ~Tick => now' = now
      BY <1>2, ToolQuiet DEF Next, ListTool, KeyTool, Amend, Withdraw, CallFails, TakeAnswer, vars
    <3>. QED
      BY <1>2, <3>1, <3>2
  <2>2. UtcDay(now) \in Int /\ UtcDay(now') = UtcDay(now) + 1
    BY <1>2, <2>1 DEF UtcDay, PortalInv
  <2>3. Readable(bid.deadline) => bid.deadline.day \in Int
    BY <1>2, NoticesAssumption DEF PortalInv, Listed
  <2>. QED
    BY <2>2, <2>3, ScoreFalls
<1>3. PortalInv /\ [Next]_vars =>
        [UtcDay(now') # UtcDay(now) =>
           \A bid \in Listed(portal) \cap Listed(portal'), options \in Options :
             \/ Score(bid, options, UtcDay(now')) <= Score(bid, options, UtcDay(now))
             \/ bid.deadline.day - UtcDay(now') = options.dueWithin]_vars
  BY <1>2
<1>. QED
  BY <1>1, <1>3, PortalStep, PTL DEF Spec, WaitingNeverHelps

-----------------------------------------------------------------------------
(* The qualification check *)

\* A list that is longer, where something was stated, turns no match into a gap.
LEMMA ListOutcomeGrows ==
  ASSUME NEW value, NEW more, NEW less, Extends(more, less)
  PROVE  \/ ListOutcome(value, more) = ListOutcome(value, less)
         \/ ListOutcome(value, less) = Gap /\ ListOutcome(value, more) = Match
  BY DEF Extends, ListOutcome

\* The same for the certifications a company states.
LEMMA CertificationGrows ==
  ASSUME NEW bid, NEW x, NEW more, NEW less, Extends(more, less)
  PROVE  \/ CertificationOutcome(bid, x, more) = CertificationOutcome(bid, x, less)
         \/ CertificationOutcome(bid, x, less) = Gap /\ CertificationOutcome(bid, x, more) = Match
  BY DEF Extends, CertificationOutcome

\* More keywords, where some were stated, earn no fewer points.
LEMMA KeywordsGrow ==
  ASSUME NEW bid, NEW more, NEW less, Extends(more, less), IsFiniteSet(more)
  PROVE  /\ KeywordPoints(bid, more) \in Int /\ KeywordPoints(bid, less) \in Int
         /\ KeywordPoints(bid, more) >= KeywordPoints(bid, less)
<1>1. PICK all, some :
        /\ all = {w \in more : w \in bid.words \cup {bid.category, bid.procedure}}
        /\ some = {w \in less : w \in bid.words \cup {bid.category, bid.procedure}}
  OBVIOUS
<1>2. some \subseteq all /\ IsFiniteSet(all)
  BY <1>1, FS_Subset DEF Extends
<1>3. /\ Cardinality(all) \in Nat /\ Cardinality(some) \in Nat
      /\ Cardinality(some) <= Cardinality(all)
  BY <1>2, FS_Subset, FS_CardinalityType
<1>4. \A n \in Nat : Min({20, 7 * n}) = IF 20 <= 7 * n THEN 20 ELSE 7 * n
  BY MinOfTwo
<1>5. /\ KeywordPoints(bid, more) = IF more = {} THEN 0 ELSE IF Cardinality(all) = 0 THEN -5
                                    ELSE Min({20, 7 * Cardinality(all)})
      /\ KeywordPoints(bid, less) = IF less = {} THEN 0 ELSE IF Cardinality(some) = 0 THEN -5
                                    ELSE Min({20, 7 * Cardinality(some)})
  BY <1>1 DEF KeywordPoints
<1>6. less = {} => more = {}
  BY DEF Extends
<1>7. more = {} => less = {}
  BY DEF Extends
<1>. QED
  BY <1>3, <1>4, <1>5, <1>6, <1>7

\* The outcomes under a longer profile, and what they are worth.
LEMMA OutcomesGrow ==
  ASSUME NEW bid, NEW x, NEW more \in Profiles, NEW less \in Profiles,
         \A f \in DOMAIN more : Extends(more[f], less[f])
  PROVE  /\ Confidence(bid, more, x) \in 0..100 /\ Confidence(bid, less, x) \in 0..100
         /\ Confidence(bid, more, x) >= Confidence(bid, less, x)
         /\ Gaps(bid, more, x) \subseteq Gaps(bid, less, x)
         /\ IsFiniteSet(Gaps(bid, less, x))
<1>1. /\ Extends(more.prefectures, less.prefectures) /\ Extends(more.categories, less.categories)
      /\ Extends(more.certifications, less.certifications)
      /\ Extends(more.keywords, less.keywords) /\ IsFiniteSet(more.keywords)
  BY InputsAssumption
<1>2. PICK m, l : m = Outcomes(bid, more, x) /\ l = Outcomes(bid, less, x)
  OBVIOUS
<1>3. \A f \in {"prefecture", "category", "certification"} :
        \/ m[f] = l[f]
        \/ l[f] = Gap /\ m[f] = Match
  BY <1>1, <1>2, ListOutcomeGrows, CertificationGrows DEF Outcomes
<1>4. \A f \in {"prefecture", "category", "certification"} :
        {m[f], l[f]} \subseteq {Unknown, Unstated, Match, Gap}
  BY <1>2 DEF Outcomes, ListOutcome, CertificationOutcome
<1>5. /\ {RegionPoints[m.prefecture], RegionPoints[l.prefecture]} \subseteq Int
      /\ RegionPoints[m.prefecture] >= RegionPoints[l.prefecture]
  BY <1>3, <1>4 DEF RegionPoints, Unknown, Unstated, Match, Gap
<1>6. \A f \in {"category", "certification"} :
        {OtherPoints[m[f]], OtherPoints[l[f]]} \subseteq Int /\ OtherPoints[m[f]] >= OtherPoints[l[f]]
  BY <1>3, <1>4 DEF OtherPoints, Unknown, Unstated, Match, Gap
<1>7. PICK k1, k0 : k1 = KeywordPoints(bid, more.keywords) /\ k0 = KeywordPoints(bid, less.keywords)
  OBVIOUS
<1>8. k1 \in Int /\ k0 \in Int /\ k1 >= k0
  BY <1>1, <1>7, KeywordsGrow
<1>9. PICK d \in Int : d = DocumentPoints(x)
  BY DEF DocumentPoints
<1>10. PICK a, b : /\ a = 50 + RegionPoints[m.prefecture] + OtherPoints[m.category]
                         + OtherPoints[m.certification] + k1 + d
                   /\ b = 50 + RegionPoints[l.prefecture] + OtherPoints[l.category]
                         + OtherPoints[l.certification] + k0 + d
  OBVIOUS
<1>11. a \in Int /\ b \in Int /\ b <= a
  BY <1>5, <1>6, <1>8, <1>9, <1>10
<1>12. Confidence(bid, more, x) = Clamp(a) /\ Confidence(bid, less, x) = Clamp(b)
  BY <1>2, <1>7, <1>9, <1>10 DEF Confidence
<1>13. Gaps(bid, more, x) \subseteq Gaps(bid, less, x)
  BY <1>2, <1>3 DEF Gaps, Gap, Match
<1>14. IsFiniteSet(Gaps(bid, less, x))
  <2>1. IsFiniteSet({"prefecture", "category", "certification"})
    <3>1. IsFiniteSet({"prefecture"})
      BY FS_Singleton
    <3>2. IsFiniteSet({"prefecture"} \cup {"category"})
      BY <3>1, FS_AddElement
    <3>3. IsFiniteSet({"prefecture", "category"} \cup {"certification"})
      BY <3>2, FS_AddElement
    <3>. QED
      BY <3>3
  <2>. QED
    BY <2>1, FS_Subset DEF Gaps
<1>. QED
  BY <1>11, <1>12, <1>13, <1>14, ClampKeepsOrder

\* Hence toStatus judges the longer profile no worse.
LEMMA WorthGrows ==
  ASSUME NEW bid, NEW x, NEW more \in Profiles, NEW less \in Profiles,
         \A f \in DOMAIN more : Extends(more[f], less[f])
  PROVE  Worth[Qualification(bid, more, x)] >= Worth[Qualification(bid, less, x)]
<1>1. PICK g1, g0, c1, c0 :
        /\ g1 = Gaps(bid, more, x) /\ g0 = Gaps(bid, less, x)
        /\ c1 = Confidence(bid, more, x) /\ c0 = Confidence(bid, less, x)
  OBVIOUS
<1>2. c1 \in Int /\ c0 \in Int /\ c1 >= c0 /\ g1 \subseteq g0 /\ IsFiniteSet(g0)
  BY <1>1, OutcomesGrow
<1>3. Cardinality(g1) \in Nat /\ Cardinality(g0) \in Nat /\ Cardinality(g1) <= Cardinality(g0)
  BY <1>2, FS_Subset, FS_CardinalityType
<1>4. PICK s1, s0 : s1 = Qualification(bid, more, x) /\ s0 = Qualification(bid, less, x)
  OBVIOUS
<1>5. /\ s1 = IF Cardinality(g1) >= 2 \/ c1 < 40 THEN "not_eligible"
              ELSE IF c1 >= 75 /\ g1 = {} THEN "eligible" ELSE "needs_review"
      /\ s0 = IF Cardinality(g0) >= 2 \/ c0 < 40 THEN "not_eligible"
              ELSE IF c0 >= 75 /\ g0 = {} THEN "eligible" ELSE "needs_review"
  BY <1>1, <1>4 DEF Qualification
<1>6. \/ s1 = s0 /\ s1 \in {"not_eligible", "needs_review", "eligible"}
      \/ s0 = "not_eligible" /\ s1 \in {"needs_review", "eligible"}
      \/ s0 = "needs_review" /\ s1 = "eligible"
  BY <1>2, <1>3, <1>5
<1>. QED
  BY <1>4, <1>6 DEF Worth

\* The assessment that is answered is one of a profile of this size (assessBidQualification).
AssessedProfile ==
  answer # NoAnswer /\ answer.tool = "assess_bid_qualification" =>
    /\ answer.content.profile \in Profiles
    /\ answer.content.status
         = Qualification(answer.content.bid, answer.content.profile, answer.content.extracted)

\* It stays so after any step.
LEMMA AssessedStep == AssessedProfile /\ [Next]_vars => AssessedProfile'
<1> SUFFICES ASSUME AssessedProfile, [Next]_vars PROVE AssessedProfile'
  OBVIOUS
<1>1. CASE AssessBidQualification
  BY <1>1 DEF AssessBidQualification, AnswersCall, Answers, AssessedProfile
<1>2. CASE CreateBidCalendar \/ CreateBidReviewPacket \/ ExtractBidRequirements \/ DraftBidQuestions
  <2>1. answer'.tool # "assess_bid_qualification"
    BY <1>2, AnswersOf DEF CreateBidCalendar, CreateBidReviewPacket, ExtractBidRequirements,
                           DraftBidQuestions
  <2>. QED
    BY <2>1 DEF AssessedProfile
<1>3. CASE answer' = answer \/ answer' = NoAnswer \/ Elsewhere
  BY <1>3 DEF AssessedProfile, Elsewhere
<1>. QED
  BY <1>1, <1>2, <1>3, AnswerComes

(* assess_bid_qualification: no entry that a company adds to a list it has stated  *)
(* lowers its confidence or its status.                                      *)
THEOREM BetterProfileIsNoWorse == Spec => []BetterProfileNeverHurts
<1>1. Init => AssessedProfile
  BY DEF Init, AssessedProfile
<1>2. AssessedProfile => BetterProfileNeverHurts
  <2> SUFFICES ASSUME AssessedProfile, answer # NoAnswer, answer.tool = "assess_bid_qualification",
                      NEW more \in Profiles,
                      \A f \in DOMAIN more : Extends(more[f], answer.content.profile[f])
               PROVE  LET c == answer.content IN
                      /\ Confidence(c.bid, more, c.extracted)
                           >= Confidence(c.bid, c.profile, c.extracted)
                      /\ Worth[Qualification(c.bid, more, c.extracted)] >= Worth[c.status]
    BY DEF BetterProfileNeverHurts
  <2>1. PICK bid, less, x :
          bid = answer.content.bid /\ less = answer.content.profile /\ x = answer.content.extracted
    OBVIOUS
  <2>2. less \in Profiles /\ answer.content.status = Qualification(bid, less, x)
    BY <2>1 DEF AssessedProfile
  <2>3. \A f \in DOMAIN more : Extends(more[f], less[f])
    BY <2>1
  <2>4. Confidence(bid, more, x) >= Confidence(bid, less, x)
    BY <2>2, <2>3, OutcomesGrow
  <2>5. Worth[Qualification(bid, more, x)] >= Worth[Qualification(bid, less, x)]
    BY <2>2, <2>3, WorthGrows
  <2>. QED
    BY <2>1, <2>2, <2>4, <2>5
<1>. QED
  BY <1>1, <1>2, AssessedStep, PTL DEF Spec

-----------------------------------------------------------------------------
(* Dates *)

\* The fields whose date a notice's calendar shows.
LEMMA EventOf ==
  ASSUME NEW bid, NEW x
  PROVE  /\ HasEvent(bid, x, "submission")
              <=> Readable(bid.deadline) \/ Readable(Said(x, "submission"))
         /\ HasEvent(bid, x, "opening")
              <=> Readable(bid.opening) \/ Readable(Said(x, "opening"))
         /\ HasEvent(bid, x, "period") <=> Readable(bid.periodEnd)
<1>1. \A first, second :
        ReadDays(first, second) # {} <=> Readable(first) \/ Readable(second)
  BY DEF ReadDays
<1>2. ~Readable(Absent)
  BY DEF Readable, Given
<1>3. \A kind, days, field : \A e \in Event(kind, days, field) : e.field = field
  BY DEF Event
<1>4. \A kind, days, field : (\E e \in Event(kind, days, field) : TRUE) <=> days # {}
  BY DEF Event
<1>5. PICK submission, opening, period, briefing :
        /\ submission = ReadDays(bid.deadline, Said(x, "submission"))
        /\ opening = ReadDays(bid.opening, Said(x, "opening"))
        /\ period = ReadDays(bid.periodEnd, Absent)
        /\ briefing = ReadDays(Said(x, "briefing"), Absent)
  OBVIOUS
<1>6. CalendarEvents(bid, x)
        = Event("internal_review", {d - 2 : d \in submission}, "submission")
          \cup Event("submission_deadline", submission, "submission")
          \cup Event("opening", opening, "opening")
          \cup Event("period_end", period, "period")
          \cup Event("internal_review", briefing, "briefing")
  BY <1>5 DEF CalendarEvents
<1>7. PICK review, deadline, open, end, brief :
        /\ review = Event("internal_review", {d - 2 : d \in submission}, "submission")
        /\ deadline = Event("submission_deadline", submission, "submission")
        /\ open = Event("opening", opening, "opening")
        /\ end = Event("period_end", period, "period")
        /\ brief = Event("internal_review", briefing, "briefing")
  OBVIOUS
<1>8. /\ \A e \in review \cup deadline : e.field = "submission"
      /\ \A e \in open : e.field = "opening"
      /\ \A e \in end : e.field = "period"
      /\ \A e \in brief : e.field = "briefing"
  BY <1>3, <1>7
<1>9. /\ (\E e \in deadline : TRUE) <=> submission # {}
      /\ (\E e \in open : TRUE) <=> opening # {}
      /\ (\E e \in end : TRUE) <=> period # {}
      /\ submission = {} => review = {}
  <2>1. submission = {} => {d - 2 : d \in submission} = {}
    OBVIOUS
  <2>. QED
    BY <1>4, <1>7, <2>1
<1>10. \A f : HasEvent(bid, x, f)
         <=> \E e \in review \cup deadline \cup open \cup end \cup brief : e.field = f
  BY <1>6, <1>7 DEF HasEvent
<1>11. /\ HasEvent(bid, x, "submission") <=> submission # {}
       /\ HasEvent(bid, x, "opening") <=> opening # {}
       /\ HasEvent(bid, x, "period") <=> period # {}
  BY <1>8, <1>9, <1>10
<1>. QED
  BY <1>1, <1>2, <1>5, <1>11

\* A packet's calendar, made without what was extracted, shows no date of its own.
LEMMA PacketShowsNoMore ==
  ASSUME NEW bid, NEW x
  PROVE  PacketCalendar(bid, x) \subseteq CalendarEvents(bid, x)
<1>1. \A text : Said(Unextracted, text) = Absent
  BY DEF Said
<1>2. ~Readable(Absent)
  BY DEF Readable, Given
<1>3. \A first, second : ReadDays(first, Absent) \subseteq ReadDays(first, second)
  BY <1>2 DEF ReadDays
<1>4. ReadDays(Absent, Absent) = {}
  BY <1>2 DEF ReadDays
<1>5. \A kind, some, all, field :
        some \subseteq all => Event(kind, some, field) \subseteq Event(kind, all, field)
  BY DEF Event
<1>6. \A some, all : some \subseteq all => {d - 2 : d \in some} \subseteq {d - 2 : d \in all}
  OBVIOUS
<1>7. PICK s0, s1, o0, o1, b1 :
        /\ s0 = ReadDays(bid.deadline, Absent)
        /\ s1 = ReadDays(bid.deadline, Said(x, "submission"))
        /\ o0 = ReadDays(bid.opening, Absent)
        /\ o1 = ReadDays(bid.opening, Said(x, "opening"))
        /\ b1 = ReadDays(Said(x, "briefing"), Absent)
  OBVIOUS
<1>8. s0 \subseteq s1 /\ o0 \subseteq o1 /\ {} \subseteq b1
  BY <1>3, <1>7
<1>9. /\ CalendarEvents(bid, Unextracted)
           = Event("internal_review", {d - 2 : d \in s0}, "submission")
             \cup Event("submission_deadline", s0, "submission")
             \cup Event("opening", o0, "opening")
             \cup Event("period_end", ReadDays(bid.periodEnd, Absent), "period")
             \cup Event("internal_review", {}, "briefing")
      /\ CalendarEvents(bid, x)
           = Event("internal_review", {d - 2 : d \in s1}, "submission")
             \cup Event("submission_deadline", s1, "submission")
             \cup Event("opening", o1, "opening")
             \cup Event("period_end", ReadDays(bid.periodEnd, Absent), "period")
             \cup Event("internal_review", b1, "briefing")
  BY <1>1, <1>4, <1>7 DEF CalendarEvents
<1>10. PICK r0, r1 : r0 = {d - 2 : d \in s0} /\ r1 = {d - 2 : d \in s1} /\ r0 \subseteq r1
  BY <1>6, <1>8
<1>. QED
  BY <1>5, <1>8, <1>9, <1>10 DEF PacketCalendar

\* The calendar misses a date only where none of the texts is there (findMissingDates).
LEMMA MissingOf ==
  ASSUME NEW bid, NEW x
  PROVE  /\ "submission" \in MissingDates(bid, x)
              <=> ~Given(bid.deadline) /\ ~Given(Said(x, "submission"))
         /\ "opening" \in MissingDates(bid, x)
              <=> ~Given(bid.opening) /\ ~Given(Said(x, "opening"))
         /\ "period" \in MissingDates(bid, x)
              <=> ~Given(bid.periodEnd) /\ ~Given(Said(x, "delivery"))
  BY DEF MissingDates

\* What is asked about dates (deriveQuestionTopics, toQuestion).
LEMMA AskedOf ==
  ASSUME NEW bid, NEW x \in Extractions \cup {Unextracted}
  PROVE  /\ "submission" \in Questions(bid, x)
              <=> ~Given(bid.deadline) /\ ~Given(Said(x, "submission"))
         /\ "opening" \in Questions(bid, x)
              <=> ~Given(bid.opening) /\ ~Given(Said(x, "opening"))
         /\ "period" \in Questions(bid, x)
              <=> /\ ~Given(bid.periodEnd) /\ ~Given(Said(x, "delivery"))
                  /\ ~(x # Unextracted /\ x.contract)
         /\ "question_deadline" \in Questions(bid, x)
<1>1. \A t : Question(t) \in {"submission", "opening", "period"} => Question(t) = t
  BY DEF Question
<1>2. \A f \in {"submission", "opening", "period", "question_deadline"} : Question(f) = f
  BY DEF Question
<1>3. /\ "submission" \in MissingRequirements(bid) <=> ~Given(bid.deadline)
      /\ "opening" \in MissingRequirements(bid) <=> ~Given(bid.opening)
      /\ "period" \in MissingRequirements(bid) <=> ~Given(bid.periodEnd)
      /\ "question_deadline" \in MissingRequirements(bid)
  BY DEF MissingRequirements
<1>4. \A f \in {"submission", "opening", "period"} :
        f \in Questions(bid, x) <=> f \in QuestionTopics(bid, x)
  BY <1>1, <1>2 DEF Questions
<1>5. "question_deadline" \in QuestionTopics(bid, x) => "question_deadline" \in Questions(bid, x)
  BY <1>2 DEF Questions
<1>6. CASE x = Unextracted
  <2>1. QuestionTopics(bid, x) = MissingRequirements(bid)
    BY <1>6 DEF QuestionTopics
  <2>2. \A f : ~Given(Said(x, f))
    BY <1>6 DEF Said, Given
  <2>. QED
    BY <1>3, <1>4, <1>5, <1>6, <2>1, <2>2
<1>7. CASE x # Unextracted
  <2>1. x.ambiguous \cap {"submission", "opening", "period"} = {}
    BY <1>7, ExtractionsAssumption
  <2>2. QuestionTopics(bid, x) = (MissingRequirements(bid) \ Answered(x)) \cup x.ambiguous
    BY <1>7 DEF QuestionTopics
  <2>3. \A f \in {"submission", "opening", "period"} :
          f \in QuestionTopics(bid, x) <=> f \in MissingRequirements(bid) /\ f \notin Answered(x)
    BY <2>1, <2>2
  <2>4. /\ "submission" \in Answered(x) <=> Given(x.submission)
        /\ "opening" \in Answered(x) <=> Given(x.opening)
        /\ "period" \in Answered(x) <=> Given(x.delivery) \/ x.contract
        /\ "question_deadline" \notin Answered(x)
    BY DEF Answered
  <2>5. /\ Said(x, "submission") = x.submission /\ Said(x, "opening") = x.opening
        /\ Said(x, "delivery") = x.delivery
    BY <1>7 DEF Said
  <2>. QED
    BY <1>3, <1>4, <1>5, <1>7, <2>2, <2>3, <2>4, <2>5
<1>. QED
  BY <1>6, <1>7

\* The answers about dates hold what the rules make of the notice and the documents.
DateAnswers ==
  /\ answer # NoAnswer /\ answer.tool = "draft_bid_questions" =>
       /\ answer.content.extracted \in Extractions
       /\ answer.content.questions = Questions(answer.content.bid, answer.content.extracted)
  /\ answer # NoAnswer /\ answer.tool = "create_bid_calendar" =>
       /\ answer.content.events = CalendarEvents(answer.content.bid, answer.content.extracted)
       /\ answer.content.missing = MissingDates(answer.content.bid, answer.content.extracted)
  /\ answer # NoAnswer /\ answer.tool = "create_bid_review_packet" =>
       answer.content.events = PacketCalendar(answer.content.bid, answer.content.extracted)

\* They hold it after any step.
LEMMA DateAnswersStep == DateAnswers /\ [Next]_vars => DateAnswers'
<1> SUFFICES ASSUME DateAnswers, [Next]_vars PROVE DateAnswers'
  OBVIOUS
<1>1. CASE DraftBidQuestions
  BY <1>1 DEF DraftBidQuestions, AnswersCall, Answers, DateAnswers
<1>2. CASE CreateBidReviewPacket
  <2>1. PICK rank, missing, bid, x, k : answer' =
          [tool |-> "create_bid_review_packet", key |-> k, content |->
            [bid |-> bid, extracted |-> x, rank |-> rank, missing |-> missing,
             events |-> PacketCalendar(bid, x)]]
    BY <1>2 DEF CreateBidReviewPacket, AnswersCall, Answers
  <2>. QED
    BY <2>1 DEF DateAnswers
<1>3. CASE AssessBidQualification \/ ExtractBidRequirements
  <2>1. answer'.tool
          \notin {"draft_bid_questions", "create_bid_review_packet", "create_bid_calendar"}
    BY <1>3, AnswersOf DEF AssessBidQualification, ExtractBidRequirements
  <2>. QED
    BY <2>1 DEF DateAnswers
<1>5. CASE CreateBidCalendar
  <2>1. PICK bid, x, k : answer' =
          [tool |-> "create_bid_calendar", key |-> k, content |->
            [bid |-> bid, extracted |-> x, events |-> CalendarEvents(bid, x),
             missing |-> MissingDates(bid, x)]]
    BY <1>5 DEF CreateBidCalendar, AnswersCall, Answers
  <2>. QED
    BY <2>1 DEF DateAnswers
<1>4. CASE answer' = answer \/ answer' = NoAnswer \/ Elsewhere
  BY <1>4 DEF DateAnswers, Elsewhere
<1>. QED
  BY <1>1, <1>2, <1>3, <1>4, <1>5, AnswerComes

(* draft_bid_questions, create_bid_calendar and create_bid_review_packet agree on   *)
(* which dates of a notice are known.                                        *)
THEOREM DatesNeverDisagree == Spec => []DatesAgree
<1>1. Init => DateAnswers
  BY DEF Init, DateAnswers
<1>2. DateAnswers => DatesAgree
  <2> SUFFICES ASSUME DateAnswers PROVE DatesAgree
    OBVIOUS
  <2>1. \A text : Readable(text) => Given(text)
    BY DEF Readable
  <2>2. ASSUME answer # NoAnswer, answer.tool = "draft_bid_questions",
               NEW bid, bid = answer.content.bid, NEW x, x = answer.content.extracted,
               NEW topics, topics = answer.content.questions
        PROVE  /\ \A f \in Dates : HasEvent(bid, x, f) => f \notin topics
               /\ \A f \in MissingDates(bid, x) \cap Dates :
                    \/ f \in topics
                    \/ f = "period" /\ x # Unextracted /\ x.contract
    <3>1. x \in Extractions \cup {Unextracted} /\ topics = Questions(bid, x)
      BY <2>2 DEF DateAnswers
    <3>. QED
      BY <2>1, <3>1, EventOf, MissingOf, AskedOf DEF Dates
  <2>3. answer # NoAnswer /\ answer.tool = "create_bid_review_packet" =>
          answer.content.events
            \subseteq CalendarEvents(answer.content.bid, answer.content.extracted)
    BY PacketShowsNoMore DEF DateAnswers
  <2>. QED
    BY <2>2, <2>3 DEF DatesAgree
<1>. QED
  BY <1>1, <1>2, DateAnswersStep, PTL DEF Spec

\* A calendar that leaves a date out names it as missing, or has its reason.
LEMMA OmissionsExplained ==
  ASSUME NEW bid, NEW x, NEW f \in Dates, f \notin MissingDates(bid, x), ~HasEvent(bid, x, f)
  PROVE  \/ \E t \in Texts(bid, x, f) : Given(t) /\ ~Readable(t)
         \/ f = "period" /\ Given(Said(x, "delivery"))
<1>1. CASE f = "submission"
  <2>1. Texts(bid, x, f) = {bid.deadline, Said(x, "submission")}
    BY <1>1 DEF Texts
  <2>. QED
    BY <1>1, <2>1, EventOf, MissingOf
<1>2. CASE f = "opening"
  <2>1. Texts(bid, x, f) = {bid.opening, Said(x, "opening")}
    BY <1>2 DEF Texts
  <2>. QED
    BY <1>2, <2>1, EventOf, MissingOf
<1>3. CASE f = "period"
  <2>1. Texts(bid, x, f) = {bid.periodEnd}
    BY <1>3 DEF Texts
  <2>. QED
    BY <1>3, <2>1, EventOf, MissingOf
<1>. QED
  BY <1>1, <1>2, <1>3 DEF Dates

(* create_bid_calendar leaves a date out silently only over a text it cannot read, *)
(* or a delivery deadline.                                                   *)
THEOREM OmissionsHaveReasons == Spec => []SilentOnlyIfUnreadable
<1>1. Init => DateAnswers
  BY DEF Init, DateAnswers
<1>2. DateAnswers => SilentOnlyIfUnreadable
  <2> SUFFICES ASSUME DateAnswers, answer # NoAnswer, answer.tool = "create_bid_calendar",
                      NEW f \in Dates, f \notin answer.content.missing,
                      \A e \in answer.content.events : e.field # f
               PROVE  LET c == answer.content IN
                      \/ \E t \in Texts(c.bid, c.extracted, f) : Given(t) /\ ~Readable(t)
                      \/ f = "period" /\ Given(Said(c.extracted, "delivery"))
    BY DEF SilentOnlyIfUnreadable
  <2>1. PICK bid, x : bid = answer.content.bid /\ x = answer.content.extracted
    OBVIOUS
  <2>2. f \notin MissingDates(bid, x) /\ ~HasEvent(bid, x, f)
    BY <2>1 DEF DateAnswers, HasEvent
  <2>. QED
    BY <2>1, <2>2, OmissionsExplained
<1>. QED
  BY <1>1, <1>2, DateAnswersStep, PTL DEF Spec

(* In the HTTP server, where rememberRecentBids is off, a tool takes for a bid_key a *)
(* version that was on the portal in that half day or the one before.         *)
THEOREM NoticesAreRecent == Spec => AnswersRecent
<1>1. Init => PortalInv /\ HeldInv
  <2> SUFFICES ASSUME Init PROVE PortalInv /\ HeldInv
    OBVIOUS
  <2>1. PortalInv
    BY NoticesAssumption DEF Init, PortalInv
  <2>2. Listed(portal) \subseteq Versions
    BY <2>1 DEF PortalInv, Listed
  <2>3. HalfDays \in Nat /\ now = 0 /\ known = {}
        /\ held = [t \in 0..HalfDays |-> IF t = 0 THEN Listed(portal) ELSE {}]
    BY ToolsAssumption DEF Init
  <2>4. HeldInv
    BY <2>2, <2>3 DEF HeldInv
  <2>. QED
    BY <2>1, <2>4
<1>2. ASSUME HeldInv, [Next]_vars, ~Remember
      PROVE  /\ call' # call /\ Given(call') => call'.bid \in Lately
             /\ answer' # answer /\ answer' # NoAnswer /\ answer'.tool = "get_bid_detail" =>
                  answer'.content \in Lately
  <2>1. ASSUME call' # call, Given(call') PROVE call'.bid \in Lately
    <3>1. PICK k \in Key : \E bid \in Findable(k) :
            Lookup(k, bid) /\ call' = [bid |-> bid, day |-> UtcDay(now)]
      BY <1>2, <2>1, CallComes DEF TakeNotice
    <3>. QED
      BY <1>2, <3>1, LookupFinds
  <2>2. ASSUME answer' # answer, answer' # NoAnswer, answer'.tool = "get_bid_detail"
        PROVE  answer'.content \in Lately
    <3>1. PICK k \in Key : \E bid \in Findable(k) :
            Lookup(k, bid) /\ Answers("get_bid_detail", k, bid)
      BY <1>2, <2>2, DetailComes DEF GetBidDetail
    <3>. QED
      BY <1>2, <3>1, LookupFinds DEF Answers
  <2>. QED
    BY <2>1, <2>2
<1>3. HeldInv /\ [Next]_vars =>
        [~Remember =>
           /\ call' # call /\ Given(call') => call'.bid \in Lately
           /\ answer' # answer /\ answer' # NoAnswer /\ answer'.tool = "get_bid_detail" =>
                answer'.content \in Lately]_vars
  BY <1>2
<1>4. PortalInv /\ HeldInv /\ [Next]_vars => (PortalInv /\ HeldInv)'
  BY PortalStep, HeldStep
<1>. QED
  BY <1>1, <1>3, <1>4, PTL DEF Spec, AnswersRecent

-----------------------------------------------------------------------------
(* Counts and lists of what was counted *)

\* The first of some positions of a list.
LEMMA FirstPosition ==
  ASSUME NEW n \in Nat, NEW at \in SUBSET (1..n), at # {}
  PROVE  Min(at) \in at
<1>1. PICK less : less = {ss \in Nat \X Nat : ss[1] < ss[2]}
  OBVIOUS
<1>2. IsWellFoundedOn(less, Nat)
  BY <1>1, NatLessThanWellFounded DEF OpToRel
<1>3. at \subseteq Nat
  OBVIOUS
<1>4. PICK first \in at : \A y \in at : ~ (<<y, first>> \in less)
  BY <1>2, <1>3, WFMin
<1>5. \A i \in at : first <= i
  <2>1. TAKE i \in at
  <2>2. <<i, first>> \in Nat \X Nat
    BY <1>3
  <2>3. ~(i < first)
    BY <1>1, <1>4, <2>2
  <2>. QED
    BY <1>3, <2>3
<1>. QED
  BY <1>5 DEF Min

\* Of the notices at some positions, one is issued last.
LEMMA LatestExists ==
  ASSUME NEW S, NEW bids \in Seq(S), \A b \in S : Issued(b) \in Int,
         NEW own \in SUBSET DOMAIN bids, own # {}
  PROVE  \E i \in own : \A j \in own : Issued(bids[j]) <= Issued(bids[i])
<1>1. PICK n \in Nat : n = Len(bids) /\ own \subseteq 1..n
  OBVIOUS
<1>2. \A i \in own : bids[i] \in S /\ Issued(bids[i]) \in Int
  OBVIOUS
<1>3. PICK upTo : upTo = [m \in Nat |-> {i \in own : i <= m}]
  OBVIOUS
<1>4. PICK bad : bad = {m \in Nat : upTo[m] # {}
                         /\ \A i \in upTo[m] : \E j \in upTo[m] :
                              ~(Issued(bids[j]) <= Issued(bids[i]))}
  OBVIOUS
<1>5. PICK less : less = {ss \in Nat \X Nat : ss[1] < ss[2]}
  OBVIOUS
<1>6. IsWellFoundedOn(less, Nat)
  BY <1>5, NatLessThanWellFounded DEF OpToRel
<1>7. bad = {}
  <2> SUFFICES ASSUME bad # {} PROVE FALSE
    OBVIOUS
  <2>1. PICK m \in bad : \A y \in bad : ~ (<<y, m>> \in less)
    <3>1. bad \subseteq Nat
      BY <1>4
    <3>. QED
      BY <1>6, <3>1, WFMin
  <2>2. m \in Nat /\ upTo[m] # {}
    BY <1>4, <2>1
  <2>3. m # 0
    BY <1>1, <1>3, <2>2
  <2>4. PICK p \in Nat : p = m - 1
    BY <2>2, <2>3
  <2>5. p \notin bad
    <3>1. <<p, m>> \in less
      BY <1>5, <2>2, <2>4
    <3>. QED
      BY <2>1, <3>1
  <2>6. upTo[m] \subseteq upTo[p] \cup {m} /\ upTo[p] \subseteq upTo[m]
    BY <1>1, <1>3, <2>2, <2>4
  <2>7. CASE upTo[p] = {}
    <3>1. upTo[m] = {m} /\ m \in own
      BY <1>3, <2>2, <2>6, <2>7
    <3>2. Issued(bids[m]) <= Issued(bids[m])
      BY <1>2, <3>1
    <3>. QED
      BY <1>4, <2>1, <3>1, <3>2
  <2>8. CASE upTo[p] # {}
    <3>1. PICK i \in upTo[p] : \A j \in upTo[p] : Issued(bids[j]) <= Issued(bids[i])
      BY <1>4, <2>5, <2>8
    <3>2. i \in upTo[m] /\ i \in own
      BY <1>3, <2>6, <3>1
    <3>3. CASE m \notin own \/ Issued(bids[m]) <= Issued(bids[i])
      <4>1. \A j \in upTo[m] : Issued(bids[j]) <= Issued(bids[i])
        BY <1>3, <2>2, <2>6, <3>1, <3>3
      <4>. QED
        BY <1>4, <2>1, <3>2, <4>1
    <3>4. CASE m \in own /\ ~(Issued(bids[m]) <= Issued(bids[i]))
      <4>1. m \in upTo[m]
        BY <1>3, <2>2, <3>4
      <4>2. \A j \in upTo[m] : Issued(bids[j]) <= Issued(bids[m])
        <5>1. TAKE j \in upTo[m]
        <5>2. j \in own /\ (j = m \/ j \in upTo[p])
          BY <1>3, <2>2, <2>6
        <5>. QED
          BY <1>2, <3>1, <3>2, <3>4, <5>2
      <4>. QED
        BY <1>4, <2>1, <4>1, <4>2
    <3>. QED
      BY <3>3, <3>4
  <2>. QED
    BY <2>7, <2>8
<1>8. upTo[n] = own
  BY <1>1, <1>3
<1>. QED
  BY <1>1, <1>4, <1>7, <1>8

\* Latest finds it.
LEMMA LatestFound ==
  ASSUME NEW S, NEW bids \in Seq(S), \A b \in S : Issued(b) \in Int,
         NEW own \in SUBSET DOMAIN bids, own # {}
  PROVE  \E i \in own : /\ Latest(bids, own) = bids[i]
                        /\ \A j \in own : Issued(bids[j]) <= Issued(bids[i])
<1>1. PICK last : last = {i \in own : \A j \in own : Issued(bids[j]) <= Issued(bids[i])}
  OBVIOUS
<1>2. last # {} /\ last \subseteq own
  BY <1>1, LatestExists
<1>3. Min(last) \in last
  <2>1. Len(bids) \in Nat /\ last \in SUBSET (1..Len(bids))
    BY <1>2
  <2>. QED
    BY <1>2, <2>1, FirstPosition
<1>4. Latest(bids, own) = bids[Min(last)]
  BY <1>1 DEF Latest
<1>. QED
  BY <1>1, <1>3, <1>4

\* The values of a list are finitely many.
LEMMA FiniteRange ==
  ASSUME NEW n \in Nat, NEW f, DOMAIN f = 1..n, NEW at \in SUBSET (1..n)
  PROVE  IsFiniteSet({f[i] : i \in at})
<1>1. IsFiniteSet(at)
  <2>1. IsFiniteSet(1..n)
    BY FS_Interval
  <2>. QED
    BY <2>1, FS_Subset
<1>2. PICK T : T = {f[i] : i \in at}
  OBVIOUS
<1>3. [i \in at |-> f[i]] \in Surjection(at, T)
  BY <1>2 DEF Surjection
<1>. QED
  BY <1>1, <1>2, <1>3, FS_Surjection

\* A notice is in the list once.
ListedOnce(bids) == \A i, j \in DOMAIN bids : bids[i].key = bids[j].key => i = j

\* The notices at some positions are as many as the positions.
LEMMA CountedOnce ==
  ASSUME NEW S, NEW bids \in Seq(S), ListedOnce(bids), NEW own \in SUBSET DOMAIN bids
  PROVE  Cardinality(own) = Cardinality({bids[i] : i \in own})
<1>1. IsFiniteSet(own)
  <2>1. Len(bids) \in Nat /\ own \in SUBSET (1..Len(bids)) /\ IsFiniteSet(1..Len(bids))
    BY FS_Interval
  <2>. QED
    BY <2>1, FS_Subset
<1>2. PICK T : T = {bids[i] : i \in own}
  OBVIOUS
<1>3. \A i, j \in own : bids[i] = bids[j] => i = j
  BY DEF ListedOnce
<1>4. [i \in own |-> bids[i]] \in Bijection(own, T)
  BY <1>2, <1>3 DEF Bijection, Injection, IsInjective, Surjection
<1>5. Cardinality(T) = Cardinality(own)
  BY <1>1, <1>4, FS_Bijection DEF ExistsBijection
<1>. QED
  BY <1>2, <1>5

\* A list by count lists every entry once, and none before one of a higher count.
LEMMA ByCountLists ==
  ASSUME NEW entries, IsFiniteSet(entries), NEW f, NEW list \in ByCount(entries, f),
         \A e \in entries : e.count \in Nat
  PROVE  /\ list \in Seq(entries) /\ {list[i] : i \in DOMAIN list} = entries
         /\ \A i, j \in DOMAIN list : list[i] = list[j] => i = j
         /\ \A i, j \in DOMAIN list : i < j => list[i].count >= list[j].count
<1>1. PICK n \in Nat : n = Cardinality(entries)
  BY FS_CardinalityType
<1>2. list \in [1..n -> entries] /\ {list[i] : i \in DOMAIN list} = entries
  BY <1>1 DEF ByCount
<1>3. list \in Surjection(1..n, entries)
  BY <1>2 DEF Surjection
<1>4. IsFiniteSet(1..n) /\ Cardinality(1..n) = n
  <2>1. Cardinality(1..n) = IF 1 > n THEN 0 ELSE n - 1 + 1
    BY FS_Interval
  <2>2. Cardinality(1..n) = n
    BY <2>1
  <2>. QED
    BY <2>2, FS_Interval
<1>5. list \in Injection(1..n, entries)
  BY <1>1, <1>3, <1>4, FS_SurjSameCardinalityImpliesInj
<1>6. \A i, j \in DOMAIN list : i < j => list[i].count >= list[j].count
  <2>1. \A i, j \in DOMAIN list : i < j =>
          list[i].count > list[j].count \/ list[i].count = list[j].count
    BY DEF ByCount
  <2>2. \A i \in DOMAIN list : list[i].count \in Nat
    BY <1>2
  <2>. QED
    BY <2>1, <2>2
<1>. QED
  BY <1>2, <1>5, <1>6 DEF Injection, IsInjective

\* What is kept of a list when it is cut.
LEMMA FirstNKeeps ==
  ASSUME NEW S, NEW list \in Seq(S), NEW n \in Nat
  PROVE  \E m \in Nat : /\ m <= Len(list) /\ DOMAIN FirstN(list, n) = 1..m
                        /\ \A i \in 1..m : FirstN(list, n)[i] = list[i]
<1>1. Len(list) \in Nat
  OBVIOUS
<1>2. PICK m \in Nat : m = Min({n, Len(list)}) /\ m <= Len(list)
  BY <1>1, MinOfTwo
<1>3. FirstN(list, n) = SubSeq(list, 1, m)
  BY <1>2 DEF FirstN
<1>4. \A i \in 1..m : list[i] \in S
  BY <1>1, <1>2
<1>5. DOMAIN SubSeq(list, 1, m) = 1..m /\ \A i \in 1..m : SubSeq(list, 1, m)[i] = list[i]
  OBVIOUS
<1>. QED
  BY <1>2, <1>3, <1>5

\* A date of issue is a number, and none counts as the earliest.
LEMMA IssuedIsInt == \A bid \in Versions : Issued(bid) \in Int
  BY NoticesAssumption DEF Issued

\* The notices of one issuer.
OfIssuer(bids, name) == {b \in Listed(bids) : OrganizationOf(b) = name}

\* An entry counts an issuer's notices and names the latest.
EntryOK(bids, name, e) ==
  /\ e.count = Cardinality(OfIssuer(bids, name))
  /\ \E b \in OfIssuer(bids, name) : b.key = e.recentKey
  /\ \A b \in OfIssuer(bids, name) : Issued(b) <= e.recentDay

\* So does the entry that the summary makes for an issuer of the list.
LEMMA EntryOfIssuer ==
  ASSUME NEW bids \in Seq(Versions), ListedOnce(bids), NEW k \in DOMAIN bids,
         NEW name, name = OrganizationOf(bids[k]), NEW e, e = OrganizationEntry(bids, name)
  PROVE  e.organization = name /\ e.count \in Nat /\ EntryOK(bids, name, e)
<1>1. PICK own \in SUBSET DOMAIN bids : own = {i \in DOMAIN bids : OrganizationOf(bids[i]) = name}
  OBVIOUS
<1>2. PICK theirs : theirs = OfIssuer(bids, name)
  OBVIOUS
<1>3. own # {} /\ theirs = {bids[i] : i \in own}
  BY <1>1, <1>2 DEF Listed, OfIssuer
<1>4. PICK last \in own : /\ Latest(bids, own) = bids[last]
                          /\ \A j \in own : Issued(bids[j]) <= Issued(bids[last])
  BY <1>3, IssuedIsInt, LatestFound
<1>5. Cardinality(own) = Cardinality(theirs)
  BY <1>3, CountedOnce
<1>6. Cardinality(own) \in Nat
  <2>1. Len(bids) \in Nat /\ own \in SUBSET (1..Len(bids)) /\ IsFiniteSet(1..Len(bids))
    BY FS_Interval
  <2>2. IsFiniteSet(own)
    BY <2>1, FS_Subset
  <2>. QED
    BY <2>2, FS_CardinalityType
<1>7. /\ e.organization = name /\ e.count = Cardinality(own)
      /\ e.recentKey = Latest(bids, own).key /\ e.recentDay = Issued(Latest(bids, own))
  BY <1>1 DEF OrganizationEntry
<1>8. \E b \in theirs : b.key = Latest(bids, own).key
  BY <1>3, <1>4
<1>9. \A b \in theirs : Issued(b) <= Issued(Latest(bids, own))
  BY <1>3, <1>4
<1>. QED
  BY <1>2, <1>5, <1>6, <1>7, <1>8, <1>9 DEF EntryOK

\* The issuers of a list that are at its top.
LEMMA TopCounts ==
  ASSUME NEW bids \in Seq(Versions), ListedOnce(bids), NEW top \in TopOrganizations(bids),
         NEW k \in DOMAIN bids, NEW name, name = OrganizationOf(bids[k])
  PROVE  /\ \A i \in DOMAIN top : top[i].organization = name => EntryOK(bids, name, top[i])
         /\ (\A i \in DOMAIN top : top[i].organization # name)
              => \A i \in DOMAIN top : top[i].count >= Cardinality(OfIssuer(bids, name))
<1>1. PICK entry : entry = [i \in DOMAIN bids |-> OrganizationEntry(bids, OrganizationOf(bids[i]))]
  OBVIOUS
<1>2. PICK entries : entries = {entry[i] : i \in DOMAIN bids}
  OBVIOUS
<1>3. IsFiniteSet(entries)
  <2>1. Len(bids) \in Nat /\ DOMAIN bids = 1..Len(bids) /\ DOMAIN entry = 1..Len(bids)
    BY <1>1
  <2>. QED
    BY <1>2, <2>1, FiniteRange
<1>4. \A i \in DOMAIN bids : /\ entry[i].organization = OrganizationOf(bids[i])
                             /\ entry[i].count \in Nat
                             /\ EntryOK(bids, OrganizationOf(bids[i]), entry[i])
  <2>1. TAKE i \in DOMAIN bids
  <2>2. entry[i] = OrganizationEntry(bids, OrganizationOf(bids[i]))
    BY <1>1
  <2>. QED
    BY <2>2, EntryOfIssuer
<1>5. PICK list \in ByCount(entries, "organization") : top = FirstN(list, TopLimit)
  <2>1. entries = {OrganizationEntry(bids, OrganizationOf(bids[i])) : i \in DOMAIN bids}
    BY <1>1, <1>2
  <2>. QED
    BY <2>1 DEF TopOrganizations
<1>6. /\ list \in Seq(entries) /\ {list[i] : i \in DOMAIN list} = entries
      /\ \A i, j \in DOMAIN list : i < j => list[i].count >= list[j].count
  <2>1. \A e \in entries : e.count \in Nat
    BY <1>2, <1>4
  <2>. QED
    BY <1>3, <1>5, <2>1, ByCountLists
<1>7. PICK m \in Nat : /\ m <= Len(list) /\ DOMAIN top = 1..m
                       /\ \A i \in 1..m : top[i] = list[i]
  BY <1>5, <1>6, FirstNKeeps, ToolsAssumption
<1>8. PICK j \in DOMAIN list : list[j] = entry[k]
  <2>1. entry[k] \in {list[i] : i \in DOMAIN list}
    BY <1>2, <1>6
  <2>. QED
    BY <2>1
<1>9. entry[k].count = Cardinality(OfIssuer(bids, name)) /\ entry[k].organization = name
  BY <1>4 DEF EntryOK
<1>10. ASSUME NEW i \in DOMAIN top, top[i].organization = name
       PROVE  EntryOK(bids, name, top[i])
  <2>1. top[i] \in entries
    BY <1>6, <1>7
  <2>2. PICK h \in DOMAIN bids : top[i] = entry[h]
    BY <1>2, <2>1
  <2>. QED
    BY <1>4, <1>10, <2>2
<1>11. ASSUME \A i \in DOMAIN top : top[i].organization # name
       PROVE  \A i \in DOMAIN top : top[i].count >= Cardinality(OfIssuer(bids, name))
  <2>1. j \notin 1..m
    BY <1>7, <1>8, <1>9, <1>11
  <2>2. \A i \in 1..m : i \in DOMAIN list /\ i < j
    BY <1>6, <1>7, <1>8, <2>1
  <2>. QED
    BY <1>6, <1>7, <1>8, <1>9, <2>2
<1>. QED
  BY <1>10, <1>11

-----------------------------------------------------------------------------
(* Listed companies *)

CodesIn(catalog) == {catalog[j].code : j \in DOMAIN catalog}
CodeNames(catalog, code) ==
  UNION {NamesOf(catalog[i]) : i \in {j \in DOMAIN catalog : catalog[j].code = code}}
About(bids, catalog, code) == {b \in Listed(bids) : b.names \cap CodeNames(catalog, code) # {}}

\* A notice matches the companies of which it has a name.
LEMMA MatchesByName ==
  ASSUME NEW bid, NEW catalog, NEW code
  PROVE  code \in {m.code : m \in Matches(bid, catalog)}
           <=> bid.names \cap CodeNames(catalog, code) # {}
<1>1. ASSUME code \in {m.code : m \in Matches(bid, catalog)}
      PROVE  bid.names \cap CodeNames(catalog, code) # {}
  <2>1. PICK m \in Matches(bid, catalog) : m.code = code
    BY <1>1
  <2>2. PICK i \in DOMAIN catalog : NamesOf(catalog[i]) \cap bid.names # {} /\ m.code = catalog[i].code
    BY <2>1 DEF Matches
  <2>. QED
    BY <2>1, <2>2 DEF CodeNames
<1>2. ASSUME bid.names \cap CodeNames(catalog, code) # {}
      PROVE  code \in {m.code : m \in Matches(bid, catalog)}
  <2>1. PICK i \in DOMAIN catalog : catalog[i].code = code /\ NamesOf(catalog[i]) \cap bid.names # {}
    BY <1>2 DEF CodeNames
  <2>2. PICK text : [code |-> catalog[i].code, text |-> text] \in Matches(bid, catalog)
    BY <2>1 DEF Matches
  <2>. QED
    BY <2>1, <2>2
<1>. QED
  BY <1>1, <1>2

\* The notices whose codes have a company's.
OfCode(bids, codesOf, code) == {bids[i] : i \in {j \in DOMAIN bids : code \in codesOf[j]}}

\* Facts rest on some notices: they count them and have their keys, with the latest.
FactsOK(theirs, e) ==
  /\ e.keys = {b.key : b \in theirs}
  /\ e.count = Cardinality(theirs)
  /\ \E b \in theirs : b.key = e.latestKey /\ \A c \in theirs : Issued(c) <= Issued(b)

\* What the facts of a company say of the notices whose codes have its.
LEMMA FactsOfCode ==
  ASSUME NEW bids \in Seq(Versions), ListedOnce(bids), NEW codesOf, NEW code,
         NEW e, e = Facts(bids, codesOf, code)
  PROVE  /\ e.code = code /\ e.count \in Nat
         /\ OfCode(bids, codesOf, code) # {} => FactsOK(OfCode(bids, codesOf, code), e)
<1>1. PICK own \in SUBSET DOMAIN bids : own = {i \in DOMAIN bids : code \in codesOf[i]}
  OBVIOUS
<1>2. PICK theirs : theirs = OfCode(bids, codesOf, code)
  OBVIOUS
<1>3. theirs = {bids[i] : i \in own}
  BY <1>1, <1>2 DEF OfCode
<1>4. Cardinality(own) = Cardinality(theirs)
  BY <1>3, CountedOnce
<1>5. Cardinality(own) \in Nat
  <2>1. Len(bids) \in Nat /\ own \in SUBSET (1..Len(bids)) /\ IsFiniteSet(1..Len(bids))
    BY FS_Interval
  <2>2. IsFiniteSet(own)
    BY <2>1, FS_Subset
  <2>. QED
    BY <2>2, FS_CardinalityType
<1>6. /\ e.code = code /\ e.count = Cardinality(own)
      /\ e.latestKey = Latest(bids, own).key /\ e.keys = {bids[i].key : i \in own}
  BY <1>1 DEF Facts
<1>7. {bids[i].key : i \in own} = {b.key : b \in theirs}
  BY <1>3
<1>8. ASSUME theirs # {}
      PROVE  \E b \in theirs : b.key = e.latestKey /\ \A c \in theirs : Issued(c) <= Issued(b)
  <2>1. own # {}
    BY <1>3, <1>8
  <2>2. PICK last \in own : /\ Latest(bids, own) = bids[last]
                            /\ \A j \in own : Issued(bids[j]) <= Issued(bids[last])
    BY <2>1, IssuedIsInt, LatestFound
  <2>3. bids[last] \in theirs /\ \A c \in theirs : Issued(c) <= Issued(bids[last])
    BY <1>3, <2>2
  <2>. QED
    BY <1>6, <2>2, <2>3
<1>. QED
  BY <1>2, <1>4, <1>5, <1>6, <1>7, <1>8 DEF FactsOK

EntriesOf(facts, code) == {i \in DOMAIN facts : facts[i].code = code}

\* The facts of the companies that the notices of a list name.
LEMMA FactsCounted ==
  ASSUME NEW bids \in Seq(Versions), ListedOnce(bids),
         NEW n \in Nat, NEW catalog, DOMAIN catalog = 1..n, NEW mapping \in MapAwards(bids, catalog),
         NEW code \in CodesIn(catalog), NEW facts, facts = mapping.companies
  PROVE  /\ Cardinality(EntriesOf(facts, code)) = (IF About(bids, catalog, code) = {} THEN 0 ELSE 1)
         /\ \A i \in EntriesOf(facts, code) : FactsOK(About(bids, catalog, code), facts[i])
<1> DEFINE theirs == About(bids, catalog, code)
<1>1. PICK codesOf : codesOf = [i \in DOMAIN bids |-> {m.code : m \in Matches(bids[i], catalog)}]
  OBVIOUS
<1>2. facts \in ListedFacts(bids, codesOf)
  <2>1. PICK companies \in ListedFacts(bids, codesOf) : \E count :
          mapping = [returned |-> Len(bids), mapped |-> count, unmapped |-> Len(bids) - count,
                     companies |-> companies]
    BY <1>1 DEF MapAwards
  <2>. QED
    BY <2>1
<1>3. PICK codes : codes = UNION {codesOf[i] : i \in DOMAIN bids}
  OBVIOUS
<1>4. \A c, i : i \in DOMAIN bids =>
        (c \in codesOf[i] <=> bids[i].names \cap CodeNames(catalog, c) # {})
  BY <1>1, MatchesByName
<1>5. \A c \in codes : c \in CodesIn(catalog)
  <2>1. TAKE c \in codes
  <2>2. PICK i \in DOMAIN bids : bids[i].names \cap CodeNames(catalog, c) # {}
    BY <1>3, <1>4
  <2>. QED
    BY <2>2 DEF CodeNames, CodesIn
<1>6. IsFiniteSet(codes)
  <2>1. PICK codeAt : codeAt = [j \in 1..n |-> catalog[j].code]
    OBVIOUS
  <2>2. IsFiniteSet({codeAt[j] : j \in 1..n})
    <3>1. 1..n \in SUBSET (1..n) /\ DOMAIN codeAt = 1..n
      BY <2>1
    <3>. QED
      BY <3>1, FiniteRange
  <2>3. {codeAt[j] : j \in 1..n} = CodesIn(catalog)
    BY <2>1 DEF CodesIn
  <2>. QED
    BY <1>5, <2>2, <2>3, FS_Subset
<1>7. PICK entry : entry = [c \in codes |-> Facts(bids, codesOf, c)]
  OBVIOUS
<1>8. PICK all : all = {entry[c] : c \in codes}
  OBVIOUS
<1>9. IsFiniteSet(all)
  <2>1. entry \in Surjection(codes, all)
    BY <1>7, <1>8 DEF Surjection
  <2>. QED
    BY <1>6, <2>1, FS_Surjection
<1>10. \A c \in codes : entry[c].code = c /\ entry[c].count \in Nat
  <2>1. TAKE c \in codes
  <2>2. entry[c] = Facts(bids, codesOf, c)
    BY <1>7
  <2>. QED
    BY <2>2, FactsOfCode
<1>11. facts \in Seq(all) /\ {facts[i] : i \in DOMAIN facts} = all
       /\ \A i, j \in DOMAIN facts : facts[i] = facts[j] => i = j
  <2>1. facts \in ByCount(all, "code")
    <3>1. all = {Facts(bids, codesOf, c) : c \in UNION {codesOf[i] : i \in DOMAIN bids}}
      BY <1>3, <1>7, <1>8
    <3>. QED
      BY <1>2, <3>1 DEF ListedFacts
  <2>2. \A e \in all : e.count \in Nat
    BY <1>8, <1>10
  <2>. QED
    BY <1>9, <2>1, <2>2, ByCountLists
<1>12. \A i \in DOMAIN facts : facts[i].code \in codes /\ facts[i] = entry[facts[i].code]
  <2>1. TAKE i \in DOMAIN facts
  <2>2. PICK c \in codes : facts[i] = entry[c]
    <3>1. facts[i] \in all
      BY <1>11
    <3>. QED
      BY <1>8, <3>1
  <2>. QED
    BY <1>10, <2>2
<1>13. PICK entries : entries = {i \in DOMAIN facts : facts[i].code = code}
  OBVIOUS
<1>14. theirs = OfCode(bids, codesOf, code)
  BY <1>4 DEF About, Listed, OfCode
<1>15. theirs # {} <=> code \in codes
  BY <1>3, <1>14 DEF OfCode
<1>16. Cardinality(entries) = (IF theirs = {} THEN 0 ELSE 1)
  <2>1. CASE theirs = {}
    <3>1. entries = {}
      BY <1>12, <1>13, <1>15, <2>1
    <3>. QED
      BY <2>1, <3>1, FS_EmptySet
  <2>2. CASE theirs # {}
    <3>1. PICK i \in DOMAIN facts : facts[i] = entry[code]
      <4>1. entry[code] \in {facts[i] : i \in DOMAIN facts}
        BY <1>8, <1>11, <1>15, <2>2
      <4>. QED
        BY <4>1
    <3>2. i \in entries
      BY <1>10, <1>13, <1>15, <2>2, <3>1
    <3>3. \A j \in entries : j = i
      BY <1>11, <1>12, <1>13, <3>1
    <3>4. entries = {i}
      BY <3>2, <3>3
    <3>. QED
      BY <2>2, <3>4, FS_Singleton
  <2>. QED
    BY <2>1, <2>2
<1>17. ASSUME NEW i \in DOMAIN facts, facts[i].code = code
       PROVE  FactsOK(theirs, facts[i])
  <2>1. facts[i] = Facts(bids, codesOf, code) /\ code \in codes
    BY <1>7, <1>12, <1>17
  <2>. QED
    BY <1>14, <1>15, <2>1, FactsOfCode
<1>. QED
  BY <1>13, <1>16, <1>17 DEF EntriesOf

\* A catalog is a list.
LEMMA CatalogListed ==
  ASSUME NEW catalog \in {Bundled, WithRemote}
  PROVE  \E n \in Nat : DOMAIN catalog = 1..n
<1>1. CASE catalog = Bundled
  BY <1>1, BundledAssumption
<1>2. CASE catalog = WithRemote
  <2>1. PICK all : all = Bundled \o Remote
    OBVIOUS
  <2>2. PICK n \in Nat : DOMAIN all = 1..n
    <3>1. PICK T : T = {Bundled[i] : i \in DOMAIN Bundled} \cup {Remote[i] : i \in DOMAIN Remote}
      OBVIOUS
    <3>2. Bundled \in Seq(T) /\ Remote \in Seq(T)
      BY <3>1, BundledAssumption, RemoteAssumption
    <3>3. all \in Seq(T)
      BY <2>1, <3>2
    <3>. QED
      BY <3>3
  <2>3. IsFiniteSet(FirstOfCode(all))
    <3>1. IsFiniteSet(1..n) /\ FirstOfCode(all) \subseteq 1..n
      BY <2>2, FS_Interval DEF FirstOfCode
    <3>. QED
      BY <3>1, FS_Subset
  <2>4. Cardinality(FirstOfCode(all)) \in Nat
    BY <2>3, FS_CardinalityType
  <2>5. catalog = [k \in 1..Cardinality(FirstOfCode(all)) |-> Merged(all, Nth(FirstOfCode(all), k))]
    BY <1>2, <2>1 DEF WithRemote, MergeCatalog
  <2>. QED
    BY <2>4, <2>5
<1>. QED
  BY <1>1, <1>2

-----------------------------------------------------------------------------
(* What the tools that count answer *)

(* The portal lists a notice once, and an answer about a list holds what is counted *)
(* of the notices it shows.                                                  *)
ListAnswers ==
  /\ ListedOnce(portal)
  /\ answer # NoAnswer /\ answer.tool = "analyze_past_awards" =>
       /\ answer.content.bids \in Seq(Versions) /\ ListedOnce(answer.content.bids)
       /\ answer.content.summary.top \in TopOrganizations(answer.content.bids)
  /\ answer # NoAnswer /\ answer.tool = "map_awards_to_listed" =>
       /\ answer.content.bids \in Seq(Versions) /\ ListedOnce(answer.content.bids)
       /\ answer.content.catalog \in {Bundled, WithRemote}
       /\ answer.content.mapping \in MapAwards(answer.content.bids, answer.content.catalog)

\* A list that is cut lists a notice once.
LEMMA CutOnce ==
  ASSUME NEW bids \in Seq(Versions), ListedOnce(bids), NEW n \in Nat
  PROVE  FirstN(bids, n) \in Seq(Versions) /\ ListedOnce(FirstN(bids, n))
<1>1. PICK m \in Nat : /\ m <= Len(bids) /\ DOMAIN FirstN(bids, n) = 1..m
                       /\ \A i \in 1..m : FirstN(bids, n)[i] = bids[i]
  BY FirstNKeeps
<1>2. \A i \in 1..m : i \in DOMAIN bids
  BY <1>1
<1>. QED
  BY <1>1, <1>2, FirstNSeq DEF ListedOnce

\* The portal goes on to list a notice once.
LEMMA PortalListsOnce ==
  ASSUME PortalInv, ListedOnce(portal), [Next]_vars
  PROVE  ListedOnce(portal)'
<1> USE DEF PortalInv
<1>1. CASE Amend
  <2>1. PICK i \in DOMAIN portal, n \in Amendments :
          n.key = portal[i].key /\ portal' = [portal EXCEPT ![i] = n]
    BY <1>1 DEF Amend
  <2>2. DOMAIN portal' = DOMAIN portal /\ \A j \in DOMAIN portal : portal'[j].key = portal[j].key
    BY <2>1
  <2>. QED
    BY <2>2 DEF ListedOnce
<1>2. CASE Withdraw
  <2>1. portal' = Tail(portal) /\ portal # <<>>
    BY <1>2 DEF Withdraw
  <2>2. \A i \in DOMAIN portal' : i + 1 \in DOMAIN portal /\ portal'[i] = portal[i + 1]
    BY <2>1
  <2>3. \A i \in DOMAIN portal' : i \in Int
    BY <2>1
  <2>4. \A i, j \in DOMAIN portal' : portal'[i].key = portal'[j].key => i + 1 = j + 1
    BY <2>2 DEF ListedOnce
  <2>. QED
    BY <2>3, <2>4 DEF ListedOnce
<1>3. CASE Tick \/ CallFails \/ TakeAnswer \/ ListTool \/ KeyTool \/ UNCHANGED vars
  <2>1. portal' = portal
    BY <1>3, ToolQuiet DEF Tick, CallFails, TakeAnswer, vars
  <2>. QED
    BY <2>1 DEF ListedOnce
<1>. QED
  BY <1>1, <1>2, <1>3 DEF Next, ListTool, KeyTool

\* The tools that answer neither of issuers nor of listed companies.
OtherTools ==
  {"error", "search_bids", "list_recent_bids", "rank_bids", "summarize_bids_by_org",
   "get_listed_award_history", "get_bid_detail", "explain_bid_fit",
   "assess_bid_qualification", "create_bid_calendar", "create_bid_review_packet",
   "extract_bid_requirements", "draft_bid_questions"}

\* Which answers a step may give.
LEMMA AnswerGiven ==
  ASSUME [Next]_vars
  PROVE  \/ answer' = answer \/ answer' = NoAnswer \/ answer'.tool \in OtherTools
         \/ AnalyzePastAwards \/ MapAwardsToListed
<1>1. CASE Tick \/ Amend \/ Withdraw \/ TakeAnswer \/ TakeNotice \/ UNCHANGED vars
  BY <1>1 DEF Tick, Amend, Withdraw, TakeAnswer, TakeNotice, vars
<1>2. CASE CallFails
  BY <1>2 DEF CallFails, OtherTools
<1>3. CASE SearchBids \/ ListRecentBids \/ RankTool \/ SummarizeBidsByOrg
  BY AnswersOf, <1>3 DEF SearchBids, ListRecentBids, RankTool, SummarizeBidsByOrg, OtherTools
<1>4. CASE GetListedAwardHistory
  BY AnswersOf, <1>4 DEF GetListedAwardHistory, OtherTools
<1>5. CASE GetBidDetail \/ ExplainBidFit \/ AssessBidQualification
  BY AnswersOf, <1>5 DEF GetBidDetail, ExplainBidFit, AssessBidQualification, OtherTools
<1>6. CASE CreateBidCalendar \/ CreateBidReviewPacket
  BY AnswersOf, <1>6 DEF CreateBidCalendar, CreateBidReviewPacket, OtherTools
<1>7. CASE ExtractBidRequirements \/ DraftBidQuestions
  BY AnswersOf, <1>7 DEF ExtractBidRequirements, DraftBidQuestions, OtherTools
<1>. QED
  BY <1>1, <1>2, <1>3, <1>4, <1>5, <1>6, <1>7 DEF Next

\* The answers hold it after any step.
LEMMA ListAnswersStep == PortalInv /\ ListAnswers /\ [Next]_vars => ListAnswers'
<1> SUFFICES ASSUME PortalInv, ListAnswers, [Next]_vars PROVE ListAnswers'
  OBVIOUS
<1>1. ListedOnce(portal) /\ ListedOnce(portal)' /\ portal \in Seq(Versions)
  BY PortalListsOnce DEF ListAnswers, PortalInv
<1>2. \A limit \in Limits : /\ Found(portal, limit).bids \in Seq(Versions)
                            /\ ListedOnce(Found(portal, limit).bids)
  BY <1>1, CutOnce, ToolsAssumption DEF Found
<1>3. CASE AnalyzePastAwards
  <2>1. PICK bids, hits, top :
          /\ bids \in Seq(Versions) /\ ListedOnce(bids) /\ top \in TopOrganizations(bids)
          /\ answer' = [tool |-> "analyze_past_awards", key |-> Absent,
               content |-> [bids |-> bids, summary |-> SummarizePastAwards(bids, hits, top)]]
    BY <1>2, <1>3 DEF AnalyzePastAwards, Answers
  <2>2. SummarizePastAwards(bids, hits, top).top = top
    BY DEF SummarizePastAwards
  <2>. QED
    BY <1>1, <2>1, <2>2 DEF ListAnswers
<1>4. CASE MapAwardsToListed
  <2>1. PICK limit \in Limits, withKey \in BOOLEAN :
          LET shown == FirstN(Found(portal, limit).bids, Cap) IN
          \E mapping \in MapAwards(shown, Catalog(withKey)) :
            answer' = [tool |-> "map_awards_to_listed", key |-> Absent,
              content |-> [bids |-> shown, catalog |-> Catalog(withKey), mapping |-> mapping]]
    BY <1>4 DEF MapAwardsToListed, Answers
  <2>2. PICK shown : shown = FirstN(Found(portal, limit).bids, Cap)
    OBVIOUS
  <2>3. PICK mapping \in MapAwards(shown, Catalog(withKey)) :
          answer' = [tool |-> "map_awards_to_listed", key |-> Absent,
            content |-> [bids |-> shown, catalog |-> Catalog(withKey), mapping |-> mapping]]
    BY <2>1, <2>2
  <2>4. shown \in Seq(Versions) /\ ListedOnce(shown)
    BY <1>2, <2>2, CutOnce, ToolsAssumption
  <2>5. Catalog(withKey) \in {Bundled, WithRemote}
    BY DEF Catalog
  <2>. QED
    BY <1>1, <2>3, <2>4, <2>5 DEF ListAnswers
<1>5. CASE answer' = answer \/ answer' = NoAnswer \/ answer'.tool \in OtherTools
  <2>1. CASE answer' = answer
    BY <1>1, <2>1 DEF ListAnswers
  <2>2. CASE answer' = NoAnswer
    BY <1>1, <2>2 DEF ListAnswers
  <2>3. CASE answer'.tool \in OtherTools
    <3>1. answer'.tool # "analyze_past_awards" /\ answer'.tool # "map_awards_to_listed"
      BY <2>3 DEF OtherTools
    <3>. QED
      BY <1>1, <3>1 DEF ListAnswers
  <2>. QED
    BY <1>5, <2>1, <2>2, <2>3
<1>. QED
  BY <1>3, <1>4, <1>5, AnswerGiven

\* The answers hold it always.
LEMMA ListAnswersHold == Spec => [](PortalInv /\ ListAnswers)
<1>1. Init => PortalInv /\ ListAnswers
  BY NoticesAssumption DEF Init, PortalInv, ListAnswers, ListedOnce
<1>2. PortalInv /\ ListAnswers /\ [Next]_vars => (PortalInv /\ ListAnswers)'
  BY PortalStep, ListAnswersStep
<1>. QED
  BY <1>1, <1>2, PTL DEF Spec

(* analyze_past_awards ranks the issuers by how many notices they really have in the *)
(* list, with the latest of each, and leaves out none that has more.          *)
THEOREM TopIssuersCounted == Spec => []TopIssuersAreTop
<1>1. PortalInv /\ ListAnswers => TopIssuersAreTop
  <2> SUFFICES ASSUME ListAnswers, answer # NoAnswer, answer.tool = "analyze_past_awards"
               PROVE  TopIssuersAreTop
    BY DEF TopIssuersAreTop
  <2>1. PICK bids, top : bids = answer.content.bids /\ top = answer.content.summary.top
    OBVIOUS
  <2>2. bids \in Seq(Versions) /\ ListedOnce(bids) /\ top \in TopOrganizations(bids)
    BY <2>1 DEF ListAnswers
  <2>3. ASSUME NEW name \in ToSet(Named(bids, "organization"))
        PROVE  /\ \A i \in DOMAIN top :
                    top[i].organization = name => EntryOK(bids, name, top[i])
               /\ (\A i \in DOMAIN top : top[i].organization # name)
                    => \A i \in DOMAIN top : top[i].count >= Cardinality(OfIssuer(bids, name))
    <3>1. PICK k \in DOMAIN bids : name = OrganizationOf(bids[k])
      BY DEF ToSet, Named, OrganizationOf
    <3>. QED
      BY <2>2, <3>1, TopCounts
  <2>. QED
    BY <2>1, <2>3 DEF TopIssuersAreTop, OfIssuer, EntryOK
<1>. QED
  BY <1>1, ListAnswersHold, PTL

(* map_awards_to_listed rests the facts of a listed company on exactly the notices  *)
(* that name it, and lists every company that a notice names once.            *)
THEOREM FactsRestOnNotices == Spec => []FactsCoverNotices
<1>1. PortalInv /\ ListAnswers => FactsCoverNotices
  <2> SUFFICES ASSUME ListAnswers, answer # NoAnswer, answer.tool = "map_awards_to_listed"
               PROVE  FactsCoverNotices
    BY DEF FactsCoverNotices
  <2> DEFINE bids == answer.content.bids
             catalog == answer.content.catalog
             facts == answer.content.mapping.companies
  <2>1. /\ bids \in Seq(Versions) /\ ListedOnce(bids)
        /\ catalog \in {Bundled, WithRemote} /\ answer.content.mapping \in MapAwards(bids, catalog)
    BY DEF ListAnswers
  <2>2. PICK n \in Nat : DOMAIN catalog = 1..n
    BY <2>1, CatalogListed
  <2>3. ASSUME NEW code \in CodesIn(catalog)
        PROVE  /\ Cardinality(EntriesOf(facts, code))
                    = (IF About(bids, catalog, code) = {} THEN 0 ELSE 1)
               /\ \A i \in EntriesOf(facts, code) : FactsOK(About(bids, catalog, code), facts[i])
    BY <2>1, <2>2, FactsCounted
  <2>. QED
    BY <2>3 DEF FactsCoverNotices, CodesIn, CodeNames, About, FactsOK, EntriesOf
<1>. QED
  BY <1>1, ListAnswersHold, PTL

-----------------------------------------------------------------------------
(* The apps *)

(* A search in flight has been sent, and no answer newer than it came; with no  *)
(* crossing it is the only one, the form is locked for it and what it brings    *)
(* will be the newest.                                                       *)
SearchInv ==
  /\ searches \in Nat /\ newest \in 0..searches
  /\ \A s \in asked : s.number \in 1..searches
  /\ ~crossed =>
       /\ asked # {} => searching
       /\ \A s, t \in asked : s = t
       /\ \A s \in asked : s.number > newest
       /\ result # Nothing => result.number = newest

\* A pressed button has not been at the clipboard while it is at work.
PressInv == act # Nothing => act.reached \subseteq {"host"}

(* The result on show is a list of the host's, read no later than now.         *)
ViewInv ==
  /\ clock \in Nat
  /\ result # Nothing =>
       /\ result.bids \in Lists /\ result.made \in 0..clock
       /\ result.cards = Cards(result.bids, result.made)

\* The form's lock after any step.
LEMMA LockStep == LockedHasCause /\ [ViewNext]_viewVars => LockedHasCause'
<1> SUFFICES ASSUME LockedHasCause, [ViewNext]_viewVars PROVE LockedHasCause'
  OBVIOUS
<1> USE DEF LockedHasCause, searchVars, actVars
<1>1. CASE ClockRuns
  BY <1>1 DEF ClockRuns
<1>2. CASE ToolInput
  BY <1>2 DEF ToolInput
<1>3. ASSUME NEW search \in asked, ToolResult(search) PROVE LockedHasCause'
  BY <1>3 DEF ToolResult, HostEnds, Show, Reject
<1>4. ASSUME NEW search \in asked, ToolCancelled(search) PROVE LockedHasCause'
  BY <1>4 DEF ToolCancelled
<1>5. ASSUME NEW search \in asked, SearchAnswers(search) PROVE LockedHasCause'
  BY <1>5 DEF SearchAnswers, Show, Reject, SearchFails
<1>6. CASE SearchWorkspace \/ SearchRadar
  BY <1>6 DEF SearchWorkspace, SearchRadar, CanSubmit, Ask
<1>7. CASE Select
  BY <1>7 DEF Select
<1>8. CASE HostContextChanged \/ Press
  BY <1>8 DEF HostContextChanged, Press
<1>9. CASE Working(HostAccepts) \/ Working(HostRefuses) \/ Working(HostThrows)
           \/ Working(Copied) \/ Working(NotCopied)
  BY <1>9 DEF Working
<1>10. CASE UNCHANGED viewVars
  BY <1>10 DEF viewVars
<1>. QED
  BY <1>1, <1>2, <1>3, <1>4, <1>5, <1>6, <1>7, <1>8, <1>9, <1>10 DEF ViewNext

\* A result that is shown takes the newest number.
LEMMA ShowsNewest ==
  ASSUME SearchInv, NEW search \in asked, NEW bids, Show(search, bids)
  PROVE  /\ newest' = IF newest >= search.number THEN newest ELSE search.number
         /\ result' # Nothing => result'.number = search.number
<1>1. newest \in Int /\ search.number \in Int
  BY DEF SearchInv
<1>. QED
  BY <1>1, MaxOfTwo DEF Show

\* An answer to a search, of whichever side, keeps the others' numbers in order.
LEMMA AnswerSearchInv ==
  ASSUME SearchInv, NEW search \in asked, asked' = asked \ {search}, searches' = searches,
         ~crossed' => ~crossed,
         \/ \E bids : Show(search, bids)
         \/ newest' = newest /\ result' = result
  PROVE  SearchInv'
<1>1. /\ searches' \in Nat /\ newest' \in 0..searches'
      /\ \A s \in asked' : s.number \in 1..searches'
  BY ShowsNewest DEF SearchInv
<1>2. ASSUME ~crossed' PROVE asked' = {} /\ (result' # Nothing => result'.number = newest')
  <2>1. ~crossed
    BY <1>2
  <2>2. asked' = {} /\ search.number > newest /\ (result # Nothing => result.number = newest)
    BY <2>1 DEF SearchInv
  <2>. QED
    BY <2>2, ShowsNewest DEF SearchInv
<1>. QED
  BY <1>1, <1>2 DEF SearchInv

\* A new search has the highest number; without a crossing it is the only one.
LEMMA NewSearchInv ==
  ASSUME SearchInv, NEW who, asked' = asked \cup {[number |-> searches + 1, by |-> who]},
         searches' = searches + 1, searching', UNCHANGED <<newest, result>>,
         ~crossed' => ~crossed /\ asked = {}
  PROVE  SearchInv'
<1>1. PICK new : new = [number |-> searches + 1, by |-> who]
  OBVIOUS
<1>2. asked' = asked \cup {new} /\ new.number = searches + 1
  BY <1>1
<1>. QED
  BY <1>2 DEF SearchInv

\* The numbers of the searches after any step.
LEMMA SearchStep == SearchInv /\ [ViewNext]_viewVars => SearchInv'
<1> SUFFICES ASSUME SearchInv, [ViewNext]_viewVars PROVE SearchInv'
  OBVIOUS
<1> USE DEF searchVars, actVars
<1>1. CASE ClockRuns
  BY <1>1 DEF ClockRuns, SearchInv
<1>2. CASE ToolInput
  <2>1. /\ searches' = searches + 1 /\ searching' /\ UNCHANGED <<newest, result>>
        /\ asked' = asked \cup {[number |-> searches + 1, by |-> "host"]}
        /\ ~crossed' => ~crossed /\ ~UsersSearch
        /\ \A s \in asked : s.by = "user"
    BY <1>2 DEF ToolInput
  <2>2. ~crossed' => asked = {}
    BY <2>1 DEF UsersSearch
  <2>. QED
    BY <2>1, <2>2, NewSearchInv
<1>3. ASSUME NEW search \in asked, ToolResult(search) PROVE SearchInv'
  <2>1. /\ asked' = asked \ {search} /\ searches' = searches
        /\ ~crossed' => ~crossed
    BY <1>3 DEF ToolResult, HostEnds
  <2>2. \/ \E bids : Show(search, bids)
        \/ newest' = newest /\ result' = result
    BY <1>3 DEF ToolResult, Reject
  <2>. QED
    BY <2>1, <2>2, AnswerSearchInv
<1>4. ASSUME NEW search \in asked, ToolCancelled(search) PROVE SearchInv'
  <2>1. /\ asked' = asked \ {search} /\ searches' = searches
        /\ (~crossed' => ~crossed) /\ newest' = newest /\ result' = result
    BY <1>4 DEF ToolCancelled, HostEnds
  <2>. QED
    BY <2>1, AnswerSearchInv
<1>5. ASSUME NEW search \in asked, SearchAnswers(search) PROVE SearchInv'
  <2>1. asked' = asked \ {search} /\ searches' = searches /\ crossed' = crossed
    BY <1>5 DEF SearchAnswers
  <2>2. \/ \E bids : Show(search, bids)
        \/ newest' = newest /\ result' = result
    BY <1>5 DEF SearchAnswers, Reject, SearchFails
  <2>. QED
    BY <2>1, <2>2, AnswerSearchInv
<1>6. CASE SearchWorkspace \/ SearchRadar
  <2>1. CASE Ask
    <3>1. /\ ~searching /\ searches' = searches + 1 /\ searching'
          /\ UNCHANGED <<newest, result, crossed>>
          /\ asked' = asked \cup {[number |-> searches + 1, by |-> "user"]}
      BY <1>6, <2>1 DEF Ask, SearchWorkspace, SearchRadar, CanSubmit
    <3>2. ~crossed => asked = {}
      BY <3>1 DEF SearchInv
    <3>. QED
      BY <3>1, <3>2, NewSearchInv
  <2>2. CASE UNCHANGED <<searches, asked, result, searching, crossed, newest>>
    BY <2>2 DEF SearchInv
  <2>. QED
    BY <1>6, <2>1, <2>2 DEF SearchWorkspace, SearchRadar
<1>7. CASE Select
  BY <1>7 DEF Select, SearchInv
<1>8. CASE HostContextChanged \/ Press
  BY <1>8 DEF HostContextChanged, Press, SearchInv
<1>9. CASE Working(HostAccepts) \/ Working(HostRefuses) \/ Working(HostThrows)
           \/ Working(Copied) \/ Working(NotCopied)
  BY <1>9 DEF Working, SearchInv
<1>10. CASE UNCHANGED viewVars
  BY <1>10 DEF viewVars, SearchInv
<1>. QED
  BY <1>1, <1>2, <1>3, <1>4, <1>5, <1>6, <1>7, <1>8, <1>9, <1>10 DEF ViewNext

\* What a press has reached, and what it says, after any step.
LEMMA PressStep ==
  PressInv /\ ToldTruly /\ [ViewNext]_viewVars => PressInv' /\ ToldTruly'
<1> SUFFICES ASSUME PressInv, ToldTruly, [ViewNext]_viewVars PROVE PressInv' /\ ToldTruly'
  OBVIOUS
<1> USE DEF PressInv, ToldTruly, actVars
<1>1. CASE UNCHANGED <<act, message>>
  BY <1>1
<1>2. CASE ClockRuns \/ ToolInput \/ SearchWorkspace \/ SearchRadar \/ Select
  BY <1>1, <1>2 DEF ClockRuns, ToolInput, SearchWorkspace, SearchRadar, Ask, Select
<1>3. CASE \E search \in asked :
             ToolResult(search) \/ ToolCancelled(search) \/ SearchAnswers(search)
  BY <1>1, <1>3 DEF ToolResult, ToolCancelled, SearchAnswers, HostEnds
<1>4. CASE HostContextChanged \/ UNCHANGED viewVars
  BY <1>1, <1>4 DEF HostContextChanged, viewVars
<1>5. CASE Press
  <2>1. \/ \E what, how : how \in {"refused", "empty"} /\ Tells(what, how)
        \/ \E what, step : Goes(what, step)
    BY <1>5 DEF Press, WorkspaceDock, RadarDock, Toggle, ToolAction, DownloadIcs, DownloadMemo,
                DownloadCsv, SyncModelContext, OpenOfficialLink, GoesTo
  <2>2. ASSUME NEW what, NEW how, how \in {"refused", "empty"}, Tells(what, how)
        PROVE  PressInv' /\ ToldTruly'
    BY <2>2 DEF Tells, Says
  <2>3. ASSUME NEW what, NEW step, Goes(what, step) PROVE PressInv' /\ ToldTruly'
    BY <2>3 DEF Goes, At
  <2>. QED
    BY <2>1, <2>2, <2>3
<1>6. CASE Working(HostAccepts)
  BY <1>6 DEF Working, HostAccepts, Says
<1>7. CASE Working(HostRefuses)
  BY <1>7 DEF Working, HostRefuses, Falls, At
<1>8. CASE Working(HostThrows)
  BY <1>8 DEF Working, HostThrows, Falls, At, Says
<1>9. CASE Working(Copied)
  BY <1>9 DEF Working, Copied, Says
<1>10. CASE Working(NotCopied)
  BY <1>10 DEF Working, NotCopied, Falls, At, Says
<1>. QED
  BY <1>2, <1>3, <1>4, <1>5, <1>6, <1>7, <1>8, <1>9, <1>10 DEF ViewNext

\* The result on show after any step, and the cards made from it.
LEMMA ViewStep == ViewInv /\ [ViewNext]_viewVars => ViewInv'
<1> SUFFICES ASSUME ViewInv, [ViewNext]_viewVars PROVE ViewInv'
  OBVIOUS
<1> USE DEF searchVars, actVars
<1>1. ASSUME UNCHANGED <<ui, result>>, clock' = clock \/ clock' = clock + 1 PROVE ViewInv'
  <2>1. clock' \in Nat /\ 0..clock \subseteq 0..clock'
    BY <1>1 DEF ViewInv
  <2>2. result # Nothing => Cards(result.bids, result.made)' = Cards(result.bids, result.made)
    BY <1>1 DEF Cards
  <2>. QED
    BY <1>1, <2>1, <2>2 DEF ViewInv
<1>2. ASSUME UNCHANGED <<ui, clock>>, NEW search \in asked, NEW bids \in Lists, Show(search, bids)
      PROVE  ViewInv'
  <2>1. PICK cards : cards = Cards(bids, clock)
    OBVIOUS
  <2>2. /\ result'.bids = bids /\ result'.made = clock /\ result'.cards = cards
    BY <1>2, <2>1 DEF Show
  <2>3. Cards(result.bids, result.made)' = cards
    BY <1>2, <2>1, <2>2 DEF Cards
  <2>. QED
    BY <1>2, <2>2, <2>3 DEF ViewInv
<1>3. CASE ClockRuns \/ ToolInput \/ SearchWorkspace \/ SearchRadar \/ Select
  BY <1>1, <1>3 DEF ClockRuns, ToolInput, SearchWorkspace, SearchRadar, Ask, Select
<1>4. ASSUME NEW search \in asked, ToolResult(search) \/ ToolCancelled(search) PROVE ViewInv'
  BY <1>1, <1>2, <1>4 DEF ToolResult, ToolCancelled, HostEnds, Reject
<1>5. ASSUME NEW search \in asked, SearchAnswers(search) PROVE ViewInv'
  BY <1>1, <1>2, <1>5 DEF SearchAnswers, Reject, SearchFails
<1>6. CASE HostContextChanged \/ Press \/ UNCHANGED viewVars
  BY <1>1, <1>6 DEF HostContextChanged, Press, viewVars
<1>7. CASE Working(HostAccepts) \/ Working(HostRefuses) \/ Working(HostThrows)
           \/ Working(Copied) \/ Working(NotCopied)
  BY <1>1, <1>7 DEF Working
<1>. QED
  BY <1>3, <1>4, <1>5, <1>6, <1>7 DEF ViewNext

\* The cards call overdue what the ranking of that day does, and unknown what it cannot
\* read; what was overdue stays so.
LEMMA UrgencyIsStatus ==
  ASSUME NEW bid, Readable(bid.deadline) => bid.deadline.day \in Int, NEW made \in Nat,
         NEW later \in Nat, made <= later
  PROVE  LET urgency == Urgency(DaysLeft(bid, made))
             rank(time) == DeadlineStatus(bid, 7, time \div 2)
         IN /\ (urgency = "overdue") = (rank(made) = "overdue")
            /\ (urgency = "unknown") = (rank(made) = "unread")
            /\ urgency = "overdue" => rank(later) = "overdue"
<1>1. CASE ~Readable(bid.deadline)
  BY <1>1 DEF Urgency, DaysLeft, DeadlineStatus
<1>2. CASE Readable(bid.deadline)
  <2>1. PICK day \in Int : day = bid.deadline.day
    BY <1>2
  <2>2. PICK left \in Int : left = CeilHalf(2 * day - made)
    BY DEF CeilHalf
  <2>3. DaysLeft(bid, made) = {left}
    BY <1>2, <2>1, <2>2 DEF DaysLeft
  <2>4. /\ (Urgency({left}) = "overdue") = (left < 0)
        /\ Urgency({left}) # "unknown"
    BY DEF Urgency
  <2>5. \A time \in Nat :
          /\ DeadlineStatus(bid, 7, time \div 2) # "unread"
          /\ (DeadlineStatus(bid, 7, time \div 2) = "overdue") <=> day - time \div 2 < 0
    <3>1. TAKE time \in Nat
    <3>2. PICK days \in Int : days = day - time \div 2
      OBVIOUS
    <3>3. DeadlineStatus(bid, 7, time \div 2)
            = IF days < 0 THEN "overdue" ELSE IF days <= 3 THEN "rushed"
              ELSE IF days <= 7 THEN "due" ELSE "far"
      BY <1>2, <2>1, <3>2 DEF DeadlineStatus
    <3>4. PICK status : status = DeadlineStatus(bid, 7, time \div 2)
      OBVIOUS
    <3>5. status # "unread" /\ (status = "overdue" <=> days < 0)
      BY <3>3, <3>4
    <3>. QED
      BY <3>2, <3>4, <3>5
  <2>6. (left < 0) = (day - made \div 2 < 0)
    BY <2>2 DEF CeilHalf
  <2>7. day - made \div 2 < 0 => day - later \div 2 < 0
    OBVIOUS
  <2>. QED
    BY <2>3, <2>4, <2>5, <2>6, <2>7
<1>. QED
  BY <1>1, <1>2

(* A search that failed or was cancelled never leaves the form locked without a *)
(* word: handleInAppSearch, toolresult and toolcancelled, in any order.         *)
THEOREM LockHasCause == ViewSpec => []LockedHasCause
<1>1. ViewInit => LockedHasCause
  BY DEF ViewInit, LockedHasCause
<1>. QED
  BY <1>1, LockStep, PTL DEF ViewSpec

(* However long the view is open and however many searches it makes: by the     *)
(* user's own searches no late answer replaces a newer one (CanSubmit).         *)
THEOREM NewestShown == ViewSpec => []SearchesSerial
<1>1. ViewInit => SearchInv
  BY DEF ViewInit, SearchInv
<1>2. SearchInv => SearchesSerial
  <2> SUFFICES ASSUME SearchInv, ~crossed
               PROVE  Cardinality(asked) <= 1 /\ (result # Nothing => result.number = newest)
    BY DEF SearchesSerial
  <2>1. asked = {} \/ \E s : asked = {s}
    BY DEF SearchInv
  <2>2. Cardinality(asked) <= 1
    <3>1. CASE asked = {}
      BY <3>1, FS_EmptySet
    <3>2. ASSUME NEW s, asked = {s} PROVE Cardinality(asked) <= 1
      <4>1. Cardinality({s}) = 1
        BY FS_Singleton
      <4>. QED
        BY <3>2, <4>1
    <3>. QED
      BY <2>1, <3>1, <3>2
  <2>. QED
    BY <2>2 DEF SearchInv
<1>. QED
  BY <1>1, <1>2, SearchStep, PTL DEF ViewSpec

(* For any lists of notices and any time: a card's urgency (half days, rounded   *)
(* up: computeDaysUntilDeadline) and rank_bids (UTC days: scoreDeadline) agree.  *)
THEOREM CardsMatchRanking == ViewSpec => []CardsAgreeWithRanking
<1>1. ViewInit => ViewInv
  BY DEF ViewInit, ViewInv
<1>2. ViewInv => CardsAgreeWithRanking
  <2> SUFFICES ASSUME ViewInv, ui = "workspace", NEW i \in DOMAIN Shown
               PROVE  LET rank(time) == DeadlineStatus(Shown[i], 7, time \div 2) IN
                      /\ (Shown[i].urgency = "overdue") = (rank(result.made) = "overdue")
                      /\ (Shown[i].urgency = "unknown") = (rank(result.made) = "unread")
                      /\ Shown[i].urgency = "overdue" => rank(clock) = "overdue"
    BY DEF CardsAgreeWithRanking
  <2>1. result # Nothing /\ Shown = Cards(result.bids, result.made)
    BY DEF Shown, ViewInv
  <2>2. PICK bid : bid = result.bids[i]
    OBVIOUS
  <2>3. i \in DOMAIN result.bids /\ Shown[i] = BidCard(bid, result.made)
    BY <2>1, <2>2 DEF Cards
  <2>4. /\ Shown[i].deadline = bid.deadline
        /\ Shown[i].urgency = Urgency(DaysLeft(bid, result.made))
    BY <2>3 DEF BidCard
  <2>5. \A time : DeadlineStatus(Shown[i], 7, time \div 2) = DeadlineStatus(bid, 7, time \div 2)
    BY <2>4 DEF DeadlineStatus
  <2>6. /\ Readable(bid.deadline) => bid.deadline.day \in Int
        /\ result.made \in Nat /\ clock \in Nat /\ result.made <= clock
    BY <2>1, <2>2, <2>3, ListsAssumption DEF ViewInv
  <2>. QED
    BY <2>4, <2>5, <2>6, UrgencyIsStatus
<1>. QED
  BY <1>1, <1>2, ViewStep, PTL DEF ViewSpec

(* Whatever the host refuses, loses or answers late, what the message says of a  *)
(* press is so (handleToolAction, requestFileDownload, copyText).               *)
THEOREM MessagesTrue == ViewSpec => []ToldTruly
<1>1. ViewInit => PressInv /\ ToldTruly
  BY DEF ViewInit, PressInv, ToldTruly
<1>. QED
  BY <1>1, PressStep, PTL DEF ViewSpec
=============================================================================
