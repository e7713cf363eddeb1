------------------------------ MODULE BidTools ------------------------------
(***************************************************************************)
(* The search and bid tools of src/src/tools over one KKJ client. The portal  *)
(* holds a list of notices that issuers amend and withdraw; a search answers  *)
(* from it and is remembered; a tool that takes a bid_key takes the notice    *)
(* from what is remembered, else from a search for the key, and answers when  *)
(* the documents it awaits have come. Each answer is kept until the clock,    *)
(* the portal or the next call moves on.                                     *)
(*                                                                         *)
(* Time passes in half days: in the second half of a UTC day it is already    *)
(* the next day in Japan. The ten minutes a result stays in the cache lie in   *)
(* one half day or in two; the cache itself is KkjClient.                     *)
(***************************************************************************)
EXTENDS BidStatistics

CONSTANTS
  Key,          \* the keys that are asked for
  Portals,      \* the lists of notices the portal may hold at the start
  Amendments,   \* the notices an issuer may publish in place of another
  Options,      \* [prefer, avoid, dueWithin] of a ranking
  Profiles,     \* [prefectures, categories, certifications, keywords]
  Extractions,  \* what documents may be found to say, or Unextracted
  Remote,       \* the companies of the J-Quants master
  Limits,       \* Count and shortlist_limit
  Remember,     \* rememberRecentBids: FALSE in the HTTP server
  HalfDays,     \* bound: the half days a behaviour lasts
  NoAnswer

ASSUME ToolsAssumption ==
  /\ Remember \in BOOLEAN
  /\ HalfDays \in Nat /\ Cap \in Nat \ {0} /\ TopLimit \in Nat \ {0}
  /\ Limits \subseteq Nat \ {0}

Listed(bids) == {bids[i] : i \in DOMAIN bids}
Versions == Amendments \cup UNION {Listed(p) : p \in Portals}

\* The portal's answers are lists, which list a notice once; a text that can be read
\* names a day, and an issue date is one.
ASSUME NoticesAssumption ==
  /\ \A p \in Portals : /\ p \in Seq(Versions)
                        /\ \A i, j \in DOMAIN p : p[i].key = p[j].key => i = j
  /\ \A bid \in Versions : Given(bid.issued) => bid.issued \in Nat
  /\ \A bid \in Versions : Readable(bid.deadline) => bid.deadline.day \in Int
\* The input schemas: lists of keywords, a number of days, the lists of a profile.
ASSUME InputsAssumption ==
  /\ \A o \in Options : /\ o.dueWithin \in Int
                        /\ IsFiniteSet(DOMAIN o.prefer) /\ IsFiniteSet(DOMAIN o.avoid)
  /\ \A p \in Profiles :
       /\ DOMAIN p = {"prefectures", "categories", "certifications", "keywords"}
       /\ IsFiniteSet(p.keywords)
\* A point that documents leave open is no topic of findMissingRequirements: it is
\* marked as such.
ASSUME ExtractionsAssumption ==
  \A x \in Extractions \ {Unextracted} : x.ambiguous \cap {"submission", "opening", "period"} = {}

\* The master is a list of companies.
ASSUME RemoteAssumption == Remote \in Seq({Remote[i] : i \in DOMAIN Remote})

VARIABLES
  now,     \* half days since a UTC midnight
  portal,  \* the notices of the portal, in the order it lists them
  known,   \* the notices recentBids or the results in the cache hold, and since when
  call,    \* a call that has its notice and awaits its documents, or Absent
  answer,  \* the structured content of the last call, or NoAnswer
  held     \* history: [half day -> the notices the portal held in it]

vars == <<now, portal, known, call, answer, held>>

UtcDay(time) == time \div 2
JapanDay(time) == (time + 1) \div 2

Holds(key) == {i \in DOMAIN portal : portal[i].key = key}

(* The clock stays within its bound; the portal holds one notice per key;     *)
(* what is known was published, and recentBids has one notice per key.        *)
TypeOK ==
  /\ now \in 0..HalfDays
  /\ \A k \in Key : Cardinality(Holds(k)) <= 1
  /\ known \subseteq [bid : Versions, at : 0..now]
  /\ Remember => \A e, f \in known : e.bid.key = f.bid.key => e = f
  /\ Given(call) => call.bid \in Versions /\ call.day \in 0..UtcDay(now)
  /\ held \in [0..HalfDays -> SUBSET Versions]
  /\ answer # NoAnswer => answer.key \in Key \cup {Absent}

Init ==
  /\ now = 0
  /\ portal \in Portals
  /\ known = {}
  /\ call = Absent
  /\ answer = NoAnswer
  /\ held = [t \in 0..HalfDays |-> IF t = 0 THEN Listed(portal) ELSE {}]

-----------------------------------------------------------------------------
(* The environment *)

\* Half a day passes, also for a call that awaits its documents.
Tick ==
  /\ now < HalfDays
  /\ now' = now + 1
  /\ answer' = NoAnswer
  /\ held' = [held EXCEPT ![now + 1] = Listed(portal)]
  /\ UNCHANGED <<portal, known, call>>

\* An issuer replaces one of the notices of Amendments by another.
Amend ==
  /\ \E i \in DOMAIN portal, n \in Amendments :
       /\ portal[i] \in Amendments \ {n} /\ n.key = portal[i].key
       /\ portal' = [portal EXCEPT ![i] = n]
       /\ held' = [held EXCEPT ![now] = @ \cup {n}]
  /\ answer' = NoAnswer
  /\ UNCHANGED <<now, known, call>>

Withdraw ==
  /\ portal # <<>> /\ Head(portal) \in Amendments
  /\ portal' = Tail(portal)
  /\ answer' = NoAnswer
  /\ UNCHANGED <<now, known, call, held>>

-----------------------------------------------------------------------------
(* The client: what it finds, and what it remembers of that. A call starts    *)
(* once the last answer was taken.                                           *)

TakeAnswer ==
  /\ answer # NoAnswer
  /\ answer' = NoAnswer
  /\ UNCHANGED <<now, portal, known, call, held>>

\* The notices the portal holds at these positions, listed in its order: one list.
InOrder(positions) ==
  {[i \in DOMAIN at |-> portal[at[i]]] : at \in
     {f \in [1..Cardinality(positions) -> positions] : \A i, j \in DOMAIN f : i < j => f[i] < f[j]}}

\* A search with Count = limit, which all the notices in matching satisfy.
Found(matching, limit) ==
  [bids |-> FirstN(matching, limit), hits |-> Len(matching)]

(* rememberBidKeys keeps the last notice of a key. Without it the cache keeps   *)
(* the results as they came, and with them versions of different ages.        *)
Remembered(bids) ==
  LET new == {[bid |-> b, at |-> now] : b \in {b \in Listed(bids) : b.key \in Key}} IN
  {e \in known : \A n \in new : IF Remember THEN n.bid.key # e.bid.key ELSE n.bid # e.bid} \cup new

Answers(tool, key, content) ==
  /\ answer = NoAnswer
  /\ answer' = [tool |-> tool, key |-> key, content |-> content]

\* Any call may end in toolError: its search failed, its input was refused, or the
\* documents it awaits could not be had.
CallFails ==
  /\ answer = NoAnswer
  /\ answer' = [tool |-> "error", key |-> Absent, content |-> NoAnswer]
  /\ call' \in {call, Absent}
  /\ UNCHANGED <<now, portal, known, held>>

-----------------------------------------------------------------------------
(* Tools that search *)

\* search_bids, and list_recent_bids with a window of days.
SearchBids ==
  /\ \E limit \in Limits :
       LET result == Found(portal, limit) IN
       /\ known' = Remembered(result.bids)
       /\ Answers("search_bids", Absent, CapSearchResult(result.bids, result.hits))
  /\ UNCHANGED <<now, portal, call, held>>

\* Between daysAgoDate(days) and todayDate(), UTC days.
ListRecentBids ==
  /\ \E limit \in Limits, days \in 1..2 :
     \E matching \in InOrder({i \in DOMAIN portal :
          Given(portal[i].issued)
          /\ portal[i].issued \in (UtcDay(now) - days)..UtcDay(now)}) :
       LET result == Found(matching, limit) IN
       /\ known' = Remembered(result.bids)
       /\ Answers("list_recent_bids", Absent, CapSearchResult(result.bids, result.hits))
  /\ UNCHANGED <<now, portal, call, held>>

\* rank_bids, and export_bid_shortlist, which writes the same ranking as CSV.
RankTool ==
  /\ \E limit \in Limits, short \in Limits, options \in Options :
       LET result == Found(portal, limit) IN
       /\ known' = Remembered(result.bids)
       /\ Answers("rank_bids", Absent,
            [options |-> options, bids |-> result.bids, limit |-> short,
             ranked |-> RankBids(result.bids, options, short, UtcDay(now))])
  /\ UNCHANGED <<now, portal, call, held>>

\* summarize_bids_by_org
SummarizeBidsByOrg ==
  /\ \E limit \in Limits, name \in {OrganizationOf(b) : b \in Listed(portal)} \ {Nameless} :
     \E matching \in InOrder({i \in DOMAIN portal : portal[i].organization = name}) :
       LET result == Found(matching, limit) IN
       /\ known' = Remembered(result.bids)
       /\ Answers("summarize_bids_by_org", Absent,
            [hits |-> result.hits, returned |-> Len(result.bids),
             categories |-> CountBy(Named(result.bids, "category")),
             procedures |-> CountBy(Named(result.bids, "procedure"))])
  /\ UNCHANGED <<now, portal, call, held>>

\* analyze_past_awards, under some filter: without one the call fails.
AnalyzePastAwards ==
  /\ \E limit \in Limits :
     LET result == Found(portal, limit) IN
     \E top \in TopOrganizations(result.bids) :
       /\ known' = Remembered(result.bids)
       /\ Answers("analyze_past_awards", Absent,
            [bids |-> result.bids,
             summary |-> SummarizePastAwards(result.bids, result.hits, top)])
  /\ UNCHANGED <<now, portal, call, held>>

\* loadCatalog: the bundled companies, merged with the master's under a key.
WithRemote == MergeCatalog(Bundled, Remote)
Catalog(withKey) == IF withKey THEN WithRemote ELSE Bundled

MapAwardsToListed ==
  /\ \E limit \in Limits, withKey \in BOOLEAN :
     LET result == Found(portal, limit)
         shown == FirstN(result.bids, Cap)
     IN \E mapping \in MapAwards(shown, Catalog(withKey)) :
          /\ known' = Remembered(result.bids)
          /\ Answers("map_awards_to_listed", Absent,
               [bids |-> shown, catalog |-> Catalog(withKey), mapping |-> mapping])
  /\ UNCHANGED <<now, portal, call, held>>

(* get_listed_award_history: every notice of a search for the company's name  *)
(* counts as one of the company's.                                           *)
GetListedAwardHistory ==
  /\ \E limit \in Limits, withKey \in BOOLEAN, i \in DOMAIN Bundled :
     \E company \in FindListedCompany(Bundled[i].name, Catalog(withKey)) :
     \E matching \in InOrder({j \in DOMAIN portal : company.name \in portal[j].names}) :
     LET result == Found(matching, limit)
         shown == FirstN(result.bids, Cap)
     IN \E companies \in ListedFacts(shown, [j \in DOMAIN shown |-> {company.code}]) :
          /\ known' = Remembered(result.bids)
          /\ Answers("get_listed_award_history", Absent,
               [bids |-> shown, companies |-> companies])
  /\ UNCHANGED <<now, portal, call, held>>

-----------------------------------------------------------------------------
(* Tools that take a bid_key *)

\* Mutant of Usable: a result is used whatever its age (allowStale).
UsableForever(e) == TRUE

(* recentBids keeps what it has; a result leaves the cache ten minutes after it *)
(* was stored, which is in the same half day or in the next.                  *)
Usable(e) == Remember \/ now <= e.at + 1

CachedBids(key) == {e.bid : e \in {e \in known : e.bid.key = key /\ Usable(e)}}
Findable(key) == CachedBids(key) \cup {portal[i] : i \in Holds(key)}

(* getCachedBid: one of the results in the cache that have the key, in the order *)
(* of their last use; a find makes none of them younger. Else findBidByKey: a  *)
(* search for the key, which the portal matches as text and may answer without *)
(* the notice; then the call fails.                                          *)
Lookup(key, bid) ==
  \/ bid \in CachedBids(key) /\ UNCHANGED known
  \/ /\ Remember => CachedBids(key) = {}
     /\ \E i \in Holds(key) : bid = portal[i]
     /\ known' = Remembered(<<bid>>)

GetBidDetail ==
  /\ \E k \in Key : \E bid \in Findable(k) :
       Lookup(k, bid) /\ Answers("get_bid_detail", k, bid)
  /\ UNCHANGED <<now, portal, call, held>>

(* The other tools take the notice, and with fetch_documents await              *)
(* enrichWithDocumentExtraction before they answer: the portal, the clock and   *)
(* other calls move on meanwhile.                                            *)
TakeNotice ==
  /\ answer = NoAnswer /\ ~Given(call)
  /\ \E k \in Key : \E bid \in Findable(k) :
       Lookup(k, bid) /\ call' = [bid |-> bid, day |-> UtcDay(now)]
  /\ UNCHANGED <<now, portal, answer, held>>

AnswersCall(tool, content) ==
  /\ Given(call) /\ Answers(tool, call.bid.key, content)
  /\ call' = Absent
  /\ UNCHANGED <<now, portal, known, held>>

\* explain_bid_fit ranks before it awaits the documents.
ExplainBidFit ==
  \E options \in Options :
    AnswersCall("explain_bid_fit", RankBid(call.bid, options, call.day))

AssessBidQualification ==
  \E profile \in Profiles, extracted \in Extractions :
    AnswersCall("assess_bid_qualification",
      [bid |-> call.bid, profile |-> profile, extracted |-> extracted,
       status |-> Qualification(call.bid, profile, extracted),
       gaps |-> Gaps(call.bid, profile, extracted)])

CreateBidCalendar ==
  \E extracted \in Extractions :
    AnswersCall("create_bid_calendar",
      [bid |-> call.bid, extracted |-> extracted,
       events |-> CalendarEvents(call.bid, extracted),
       missing |-> MissingDates(call.bid, extracted)])

\* createBidReviewPacket makes its calendar without what was extracted.
PacketCalendar(bid, extracted) == CalendarEvents(bid, Unextracted)

\* It ranks when the documents have come.
CreateBidReviewPacket ==
  \E options \in Options, extracted \in Extractions :
    AnswersCall("create_bid_review_packet",
      [bid |-> call.bid, extracted |-> extracted,
       rank |-> RankBid(call.bid, options, UtcDay(now)),
       missing |-> MissingRequirements(call.bid),
       events |-> PacketCalendar(call.bid, extracted)])

ExtractBidRequirements ==
  \E extracted \in Extractions :
    AnswersCall("extract_bid_requirements",
      [bid |-> call.bid, extracted |-> extracted, targets |-> DocumentTargets(call.bid),
       missing |-> MissingRequirements(call.bid)])

DraftBidQuestions ==
  \E extracted \in Extractions :
    AnswersCall("draft_bid_questions",
      [bid |-> call.bid, extracted |-> extracted, questions |-> Questions(call.bid, extracted)])

-----------------------------------------------------------------------------
Next ==
  \/ Tick \/ Amend \/ Withdraw \/ CallFails \/ TakeAnswer
  \/ SearchBids \/ ListRecentBids \/ RankTool \/ SummarizeBidsByOrg \/ AnalyzePastAwards
  \/ MapAwardsToListed \/ GetListedAwardHistory
  \/ GetBidDetail \/ TakeNotice \/ ExplainBidFit \/ AssessBidQualification
  \/ CreateBidCalendar \/ CreateBidReviewPacket \/ ExtractBidRequirements
  \/ DraftBidQuestions

Spec == Init /\ [][Next]_vars
-----------------------------------------------------------------------------
(* Properties *)

(* A ranking counts days of UTC, a deadline is a day in Japan: a notice is     *)
(* called overdue only when its day has ended in Japan, and always when the   *)
(* day after it has (scoreDeadline).                                         *)
OverdueOnlyAfterJapanDay ==
  \A bid \in Listed(portal), options \in Options : Readable(bid.deadline) =>
    LET overdue == DeadlineStatus(bid, options.dueWithin, UtcDay(now)) = "overdue" IN
    /\ overdue => JapanDay(now) > bid.deadline.day
    /\ JapanDay(now) > bid.deadline.day + 1 => overdue

(* As days pass a notice's score never rises, but on the day its deadline     *)
(* comes within due_within_days (rankBid).                                   *)
WaitingNeverHelps ==
  [][UtcDay(now') # UtcDay(now) =>
     \A bid \in Listed(portal) \cap Listed(portal'), options \in Options :
       \/ Score(bid, options, UtcDay(now')) <= Score(bid, options, UtcDay(now))
       \/ bid.deadline.day - UtcDay(now') = options.dueWithin]_vars

Extends(more, less) ==
  /\ less \subseteq more
  /\ less = {} => more = {}

Worth == [not_eligible |-> 0, needs_review |-> 1, eligible |-> 2]

(* A company that adds to the lists it has stated is never assessed worse.    *)
BetterProfileNeverHurts ==
  answer # NoAnswer /\ answer.tool = "assess_bid_qualification" =>
    LET c == answer.content IN
    \A more \in Profiles :
      (\A f \in DOMAIN more : Extends(more[f], c.profile[f])) =>
        /\ Confidence(c.bid, more, c.extracted) >= Confidence(c.bid, c.profile, c.extracted)
        /\ Worth[Qualification(c.bid, more, c.extracted)] >= Worth[c.status]

Dates == {"submission", "opening", "period"}
HasEvent(bid, x, f) == \E e \in CalendarEvents(bid, x) : e.field = f

(* The calendar, the questions and the review packet about one notice agree:   *)
(* nobody is asked for a date the calendar shows; what the calendar misses is  *)
(* asked for, but for a period the documents describe otherwise; the packet    *)
(* shows no date that the calendar would not.                                *)
DatesAgree ==
  /\ answer # NoAnswer /\ answer.tool = "draft_bid_questions" =>
       LET bid == answer.content.bid
           x == answer.content.extracted
           asked == answer.content.questions
       IN /\ \A f \in Dates : HasEvent(bid, x, f) => f \notin asked
          /\ \A f \in MissingDates(bid, x) \cap Dates :
               \/ f \in asked
               \/ f = "period" /\ x # Unextracted /\ x.contract
  /\ answer # NoAnswer /\ answer.tool = "create_bid_review_packet" =>
       answer.content.events
         \subseteq CalendarEvents(answer.content.bid, answer.content.extracted)

Texts(bid, x, f) ==
  CASE f = "submission" -> {bid.deadline, Said(x, "submission")}
    [] f = "opening"    -> {bid.opening, Said(x, "opening")}
    [] f = "period"     -> {bid.periodEnd}

(* A date is left out of the calendar without being reported missing only     *)
(* when a text is there that cannot be read, or when the documents give a     *)
(* delivery deadline, for which there is no event (findMissingDates).         *)
SilentOnlyIfUnreadable ==
  answer # NoAnswer /\ answer.tool = "create_bid_calendar" =>
    LET c == answer.content IN
    \A f \in Dates \ c.missing : (\A e \in c.events : e.field # f) =>
      \/ \E t \in Texts(c.bid, c.extracted, f) : Given(t) /\ ~Readable(t)
      \/ f = "period" /\ Given(Said(c.extracted, "delivery"))

(* The radar's issuers: each entry counts the issuer's notices and names one  *)
(* that none of them is later than; whoever is left out has no more notices.  *)
TopIssuersAreTop ==
  answer # NoAnswer /\ answer.tool = "analyze_past_awards" =>
    LET bids == answer.content.bids
        top == answer.content.summary.top
        of(name) == {b \in Listed(bids) : OrganizationOf(b) = name}
    IN \A name \in ToSet(Named(bids, "organization")) :
         LET shown == {i \in DOMAIN top : top[i].organization = name} IN
         IF shown = {}
         THEN \A i \in DOMAIN top : top[i].count >= Cardinality(of(name))
         ELSE \A i \in shown :
                /\ top[i].count = Cardinality(of(name))
                /\ \E b \in of(name) : b.key = top[i].recentKey
                /\ \A b \in of(name) : Issued(b) <= top[i].recentDay

(* The facts of a listed company rest on exactly the notices that name it,    *)
(* its latest among them, and no company is left out or listed twice.         *)
FactsCoverNotices ==
  answer # NoAnswer /\ answer.tool = "map_awards_to_listed" =>
    LET facts == answer.content.mapping.companies
        names(code) == UNION {NamesOf(answer.content.catalog[i]) :
          i \in {j \in DOMAIN answer.content.catalog : answer.content.catalog[j].code = code}}
        about(code) == {b \in Listed(answer.content.bids) : b.names \cap names(code) # {}}
    IN \A code \in {answer.content.catalog[j].code : j \in DOMAIN answer.content.catalog} :
         LET entries == {i \in DOMAIN facts : facts[i].code = code} IN
         /\ Cardinality(entries) = (IF about(code) = {} THEN 0 ELSE 1)
         /\ \A i \in entries :
              /\ facts[i].keys = {b.key : b \in about(code)}
              /\ facts[i].count = Cardinality(about(code))
              /\ \E b \in about(code) : b.key = facts[i].latestKey
                   /\ \A c \in about(code) : Issued(c) <= Issued(b)

\* What the portal held in this half day or in the one before.
Lately == held[now] \cup (IF now = 0 THEN {} ELSE held[now - 1])

(* Without rememberRecentBids the notice a call takes for its key was on the    *)
(* portal in that half day or the one before, whatever was cached, amended and *)
(* withdrawn until then (getCachedBid). How long the call then awaits its       *)
(* documents, and how old its answer is when it comes, nothing bounds.         *)
AnswersRecent ==
  [][~Remember =>
       /\ call' # call /\ Given(call') => call'.bid \in Lately
       /\ answer' # answer /\ answer' # NoAnswer /\ answer'.tool = "get_bid_detail" =>
            answer'.content \in Lately]_vars
=============================================================================
