------------------------------ MODULE BidRules ------------------------------
(***************************************************************************)
(* The rules of src/src/domain that turn one notice, and what was extracted  *)
(* from its documents, into advice: the ranking, the qualification check,    *)
(* the calendar, the missing requirements and the questions to the issuer.   *)
(*                                                                         *)
(* A notice is a record; an optional field that KKJ did not fill is Absent.  *)
(* A date is a text: a form and the day it names. Texts, names and keywords   *)
(* are values: a text mentions a set of words.                               *)
(***************************************************************************)
EXTENDS Integers, Sequences, SequencesExt, FiniteSets, FiniteSetsExt

CONSTANTS
  Absent,       \* a field that is missing, empty or null
  Unextracted   \* no requirements were extracted from documents

Given(x) == x # Absent

\* <<label>> when the condition holds: an entry of a list that is built up.
Entry(condition, label) == IF condition THEN <<label>> ELSE <<>>

Clamp(n) == Max({0, Min({100, n})})

-----------------------------------------------------------------------------
(* Dates. A text names a day in ISO or slash form, in a Reiwa year written in *)
(* digits ("reiwa"), in the first Reiwa year ("gannen"), or in a western year  *)
(* with kanji ("western_kanji").                                             *)

(* extractDateComponents and parseJapaneseDateToDate: the forms with a date.  *)
Readable(text) == Given(text) /\ text.form \in {"iso", "slash", "reiwa"}

\* The first text that can be read: normalizeDate(a) ?? normalizeDate(b).
ReadDays(first, second) ==
  IF Readable(first) THEN {first.day} ELSE IF Readable(second) THEN {second.day} ELSE {}

-----------------------------------------------------------------------------
(* rankBid *)

\* The words of the joined, lower-cased text fields.
Haystack(bid) ==
  bid.words \cup {bid.organization, bid.category, bid.procedure}

Hits(bid, keywords) ==
  SelectSeq(keywords, LAMBDA w : w \in Haystack(bid) \ {Absent})

\* How many of the keywords hit, one that is listed twice twice.
HitCount(bid, keywords) ==
  Cardinality({i \in DOMAIN keywords : keywords[i] \in Haystack(bid) \ {Absent}})

\* Mutant of DeadlineStatus: the day of the deadline is past already.
DeadlineStatusEarly(bid, dueWithin, today) ==
  IF ~Readable(bid.deadline) THEN "unread" ELSE
  LET left == bid.deadline.day - today IN
  IF left <= 0 THEN "overdue" ELSE IF left <= 3 THEN "rushed"
  ELSE IF left <= dueWithin THEN "due" ELSE "far"

\* Mutant of DeadlineStatus: the last day counts as due, not as rushed.
DeadlineStatusLastDay(bid, dueWithin, today) ==
  IF ~Readable(bid.deadline) THEN "unread" ELSE
  LET left == bid.deadline.day - today IN
  IF left < 0 THEN "overdue" ELSE IF left \in 1..3 THEN "rushed"
  ELSE IF left = 0 \/ left <= dueWithin THEN "due" ELSE "far"

(* scoreDeadline: days are counted between UTC midnights.                     *)
DeadlineStatus(bid, dueWithin, today) ==
  IF ~Readable(bid.deadline) THEN "unread" ELSE
  LET left == bid.deadline.day - today IN
  IF left < 0 THEN "overdue" ELSE IF left <= 3 THEN "rushed"
  ELSE IF left <= dueWithin THEN "due" ELSE "far"

DeadlinePoints ==
  [unread |-> 0, overdue |-> -35, rushed |-> -12, due |-> 12, far |-> -2]

\* scoreProcedure
ProcedurePoints(bid) ==
  CASE bid.procedure = "open"      -> 8
    [] bid.procedure = "nominated" -> -8
    [] OTHER                       -> 0

Risks(bid, options, today) ==
  LET status == DeadlineStatus(bid, options.dueWithin, today) IN
  Entry(~bid.page, "page") \o Entry(~Given(bid.organization), "organization")
  \o Entry(~Given(bid.prefecture), "prefecture") \o Hits(bid, options.avoid)
  \o Entry(status \in {"overdue", "rushed", "far"}, status)
  \o Entry(~Given(bid.deadline), "deadline")

(* The score of rankBid, kept within 0..100.                                  *)
Score(bid, options, today) ==
  Clamp(45
    + (IF bid.page THEN 8 ELSE -12)
    + (IF Given(bid.organization) THEN 5 ELSE 0)
    + (IF Given(bid.prefecture) THEN 4 ELSE 0)
    + (IF Given(bid.category) THEN 4 ELSE 0)
    + 7 * HitCount(bid, options.prefer) - 15 * HitCount(bid, options.avoid)
    + DeadlinePoints[DeadlineStatus(bid, options.dueWithin, today)]
    + ProcedurePoints(bid)
    + (IF Given(bid.deadline) THEN 0 ELSE -10))

(* toPriority: the number of risks before the list is cut to six.             *)
Priority(bid, options, today) ==
  LET score == Score(bid, options, today) IN
  CASE score >= 72 /\ Len(Risks(bid, options, today)) <= 2 -> "pursue"
    [] score <= 39 -> "skip"
    [] OTHER       -> "review"

FirstN(list, n) == SubSeq(list, 1, Min({n, Len(list)}))

RankBid(bid, options, today) ==
  [key      |-> bid.key,
   score    |-> Score(bid, options, today),
   priority |-> Priority(bid, options, today),
   risks    |-> FirstN(Risks(bid, options, today), 6)]

(* rankBidSearchResult: by score, then by the notice's place in the results.  *)
RankBids(bids, options, limit, today) ==
  LET ranked == [i \in DOMAIN bids |->
                   [place |-> i, rank |-> RankBid(bids[i], options, today)]]
      sorted == SortSeq(ranked, LAMBDA a, b :
                  \/ a.rank.score > b.rank.score
                  \/ a.rank.score = b.rank.score /\ a.place < b.place)
  IN [i \in DOMAIN FirstN(sorted, limit) |-> sorted[i].rank]

-----------------------------------------------------------------------------
(* extractBidRequirements *)

\* buildDocumentTargets: the official page and the attachments.
DocumentTargets(bid) == (IF bid.page THEN 1 ELSE 0) + bid.attachments

(* findMissingRequirements, a set: three are missing from every notice.       *)
MissingRequirements(bid) ==
  {"question_deadline", "documents", "disqualification"}
  \cup (IF Given(bid.certification) THEN {} ELSE {"eligibility"})
  \cup (IF Given(bid.deadline) THEN {} ELSE {"submission"})
  \cup (IF Given(bid.opening) THEN {} ELSE {"opening"})
  \cup (IF Given(bid.periodEnd) THEN {} ELSE {"period"})
  \cup (IF DocumentTargets(bid) = 0 THEN {"page"} ELSE {})

-----------------------------------------------------------------------------
(* assessBidQualification *)

\* The outcome of one of its four comparisons.
Unknown == "unknown"
Unstated == "unstated"
Match == "match"
Gap == "gap"

\* assessPrefecture and assessCategory: the notice's value in the profile's list.
ListOutcome(value, list) ==
  IF ~Given(value) THEN Unknown ELSE IF list = {} THEN Unstated
  ELSE IF value \in list THEN Match ELSE Gap

\* assessCertification: the notice's and the documents' conditions joined.
Conditions(bid, extracted) ==
  ({bid.certification} \ {Absent})
  \cup (IF extracted = Unextracted THEN {} ELSE extracted.eligibility)

CertificationOutcome(bid, extracted, certifications) ==
  IF Conditions(bid, extracted) = {} THEN Unknown ELSE IF certifications = {} THEN Unstated
  ELSE IF certifications \cap Conditions(bid, extracted) # {} THEN Match ELSE Gap

\* assessKeywords; its haystack leaves the issuer's name out.
KeywordPoints(bid, keywords) ==
  LET found == Cardinality({w \in keywords :
                 w \in bid.words \cup {bid.category, bid.procedure}})
  IN IF keywords = {} THEN 0 ELSE IF found = 0 THEN -5 ELSE Min({20, 7 * found})

\* assessExtractedDocuments
DocumentPoints(extracted) ==
  IF extracted = Unextracted THEN 0
  ELSE (IF extracted.documents THEN 5 ELSE 0)
       + (IF Given(extracted.submission) THEN 5 ELSE 0)

RegionPoints == [unknown |-> -5, unstated |-> 0, match |-> 15, gap |-> -25]
OtherPoints == [unknown |-> -5, unstated |-> 0, match |-> 15, gap |-> -20]

\* The three comparisons that can find a gap.
Outcomes(bid, profile, extracted) ==
  [prefecture    |-> ListOutcome(bid.prefecture, profile.prefectures),
   category      |-> ListOutcome(bid.category, profile.categories),
   certification |-> CertificationOutcome(bid, extracted, profile.certifications)]

Gaps(bid, profile, extracted) ==
  {f \in {"prefecture", "category", "certification"} :
     Outcomes(bid, profile, extracted)[f] = Gap}

\* Mutant of Confidence: a certification that matches is not rewarded.
ConfidenceNoMatch(bid, profile, extracted) ==
  LET found == Outcomes(bid, profile, extracted) IN
  Clamp(50 + RegionPoints[found.prefecture] + OtherPoints[found.category]
    - OtherPoints[found.certification]
    + KeywordPoints(bid, profile.keywords) + DocumentPoints(extracted))

Confidence(bid, profile, extracted) ==
  LET found == Outcomes(bid, profile, extracted) IN
  Clamp(50 + RegionPoints[found.prefecture] + OtherPoints[found.category]
    + OtherPoints[found.certification]
    + KeywordPoints(bid, profile.keywords) + DocumentPoints(extracted))

\* toStatus
Qualification(bid, profile, extracted) ==
  LET gaps == Gaps(bid, profile, extracted)
      confidence == Confidence(bid, profile, extracted)
  IN IF Cardinality(gaps) >= 2 \/ confidence < 40 THEN "not_eligible" ELSE
     IF confidence >= 75 /\ gaps = {} THEN "eligible" ELSE "needs_review"

-----------------------------------------------------------------------------
(* createBidCalendarExport *)

\* What the documents say of a date; nothing when they were not extracted.
Said(extracted, field) ==
  IF extracted = Unextracted THEN Absent ELSE extracted[field]

Event(kind, days, field) ==
  {[kind |-> kind, day |-> d, field |-> field] : d \in days}

\* Mutant of CalendarEvents: the documents' dates are left out.
CalendarEventsOfNotice(bid, extracted) ==
  LET submission == ReadDays(bid.deadline, Absent) IN
  Event("internal_review", {d - 2 : d \in submission}, "submission")
  \cup Event("submission_deadline", submission, "submission")
  \cup Event("opening", ReadDays(bid.opening, Absent), "opening")
  \cup Event("period_end", ReadDays(bid.periodEnd, Absent), "period")
  \cup Event("internal_review", ReadDays(Said(extracted, "briefing"), Absent), "briefing")

(* buildEvents: the notice's date, else the one the documents give; a review  *)
(* two days before the submission; the end of the period from the notice only.*)
CalendarEvents(bid, extracted) ==
  LET submission == ReadDays(bid.deadline, Said(extracted, "submission")) IN
  Event("internal_review", {d - 2 : d \in submission}, "submission")
  \cup Event("submission_deadline", submission, "submission")
  \cup Event("opening", ReadDays(bid.opening, Said(extracted, "opening")), "opening")
  \cup Event("period_end", ReadDays(bid.periodEnd, Absent), "period")
  \cup Event("internal_review", ReadDays(Said(extracted, "briefing"), Absent), "briefing")

\* findMissingDates: a text that is there is not missing, readable or not.
MissingDates(bid, extracted) ==
  {f \in {"question", "submission", "opening", "period"} :
     CASE f = "question"   -> ~Given(Said(extracted, "question"))
       [] f = "submission" -> ~Given(bid.deadline) /\ ~Given(Said(extracted, "submission"))
       [] f = "opening"    -> ~Given(bid.opening) /\ ~Given(Said(extracted, "opening"))
       [] f = "period"     -> ~Given(bid.periodEnd) /\ ~Given(Said(extracted, "delivery"))}

-----------------------------------------------------------------------------
(* draftBidQuestions *)

\* The topics the documents answer: removeTopics of deriveQuestionTopics.
Answered(extracted) ==
  {t \in {"eligibility", "documents", "submission", "opening", "period",
          "disqualification"} :
     CASE t = "eligibility"      -> extracted.eligibility # {}
       [] t = "documents"        -> extracted.documents
       [] t = "submission"       -> Given(extracted.submission)
       [] t = "opening"          -> Given(extracted.opening)
       [] t = "period"           -> Given(extracted.delivery) \/ extracted.contract
       [] t = "disqualification" -> extracted.disqualification}

\* Mutant of QuestionTopics: the topics that were answered are the ones asked.
QuestionTopicsFlipped(bid, extracted) ==
  IF extracted = Unextracted THEN MissingRequirements(bid)
  ELSE (MissingRequirements(bid) \cap Answered(extracted)) \cup extracted.ambiguous

\* deriveQuestionTopics: a set of topics; the order they come in is left out.
QuestionTopics(bid, extracted) ==
  IF extracted = Unextracted THEN MissingRequirements(bid)
  ELSE (MissingRequirements(bid) \ Answered(extracted)) \cup extracted.ambiguous

\* toQuestion: a topic that mentions the question deadline asks for that, an
\* ambiguous point of the documents included.
Question(topic) ==
  IF topic = "point_on_question_deadline" THEN "question_deadline" ELSE topic

\* draftBidQuestions: what is asked for.
Questions(bid, extracted) == {Question(t) : t \in QuestionTopics(bid, extracted)}
=============================================================================
