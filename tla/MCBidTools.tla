----------------------------- MODULE MCBidTools ------------------------------
(* Three notices: one that varies field by field and is asked for by its key,  *)
(* two that stay.                                                           *)
EXTENDS BidTools

Date(form, day) == [form |-> form, day |-> day]

FullNotice ==
  [key |-> "k1", page |-> TRUE, attachments |-> 1, organization |-> "city",
   prefecture |-> "kagoshima", category |-> "services", procedure |-> "open",
   certification |-> "grade_a", deadline |-> Date("iso", 5), opening |-> Date("slash", 6),
   periodEnd |-> Date("reiwa", 9), issued |-> 0, words |-> {"software"},
   names |-> {"softbank"}]

\* The values each field may take in the notice that varies.
Variants ==
  [page |-> {FALSE}, attachments |-> {0}, organization |-> {Absent, "army"},
   prefecture |-> {Absent, "tokyo"}, category |-> {Absent}, procedure |-> {Absent, "nominated"},
   certification |-> {Absent, "grade_c"},
   deadline |-> {Absent, Date("gannen", 5), Date("western_kanji", 0), Date("reiwa", 1),
                 Date("iso", 0), Date("iso", 4)},
   opening |-> {Absent, Date("gannen", 6)}, periodEnd |-> {Absent, Date("western_kanji", 9)},
   issued |-> {Absent, 2}, words |-> {{}, {"building"}},
   names |-> {{}, {"softbank", "softbank_group"}, {"dnp"}}]

Varied(bid) ==
  UNION {{[bid EXCEPT ![f] = v] : v \in Variants[f]} : f \in DOMAIN Variants}

\* One field changed, or the deadline and one other.
Subjects ==
  {FullNotice} \cup Varied(FullNotice)
  \cup UNION {Varied([FullNotice EXCEPT !.deadline = d]) :
                d \in {Absent, Date("gannen", 5)}}

Second == [FullNotice EXCEPT !.key = "k2", !.organization = "city", !.issued = 1,
             !.deadline = Date("iso", 1), !.names = {}, !.procedure = "nominated"]
Third == [FullNotice EXCEPT !.key = "k3", !.organization = Absent, !.category = "goods",
            !.issued = Absent, !.names = {"dnp", "softbank"}, !.words = {"building"}]

MCKey == {"k1"}
MCPortals == {<<s, Second, Third>> : s \in Subjects}
\* The second is published in place of the first, or the first anew.
MCAmendments == {FullNotice, [FullNotice EXCEPT !.deadline = Date("iso", 8)]}

MCOptions ==
  {[prefer |-> <<"software", "city">>, avoid |-> <<"building", "goods">>, dueWithin |-> 4],
   [prefer |-> <<>>, avoid |-> <<"services">>, dueWithin |-> 6]}

Profile(p, c, g, k) ==
  [prefectures |-> p, categories |-> c, certifications |-> g, keywords |-> k]
MCProfiles ==
  {Profile({}, {}, {}, {}),
   Profile({"tokyo"}, {"goods"}, {"grade_c"}, {"building"}),
   Profile({"tokyo", "kagoshima"}, {"goods"}, {"grade_c", "grade_a"}, {"building", "software"}),
   Profile({"kagoshima"}, {"services"}, {"grade_a"}, {"software", "services", "open"})}

Extraction(eligible, given, dates) ==
  [eligibility |-> eligible, documents |-> given, question |-> dates, submission |-> dates,
   opening |-> dates, briefing |-> dates, delivery |-> dates, contract |-> given,
   disqualification |-> given, ambiguous |-> {"point", "point_on_question_deadline"}]
MCExtractions ==
  {Unextracted, Extraction({}, TRUE, Absent), Extraction({"grade_a"}, FALSE, Date("iso", 4)),
   Extraction({"grade_x"}, TRUE, Date("western_kanji", 4)),
   [Extraction({}, FALSE, Absent) EXCEPT !.delivery = Date("iso", 9)]}

MCCollation == <<"army", "city", "nameless", "0001", "0002", "0003">>
Company(code, name, aliases) == [code |-> code, name |-> name, aliases |-> aliases]
MCBundled ==
  <<Company("0001", "softbank", {}), Company("0002", "softbank_group", {"sbg"}),
    Company("0003", "dnp", {"dai_nippon_printing"})>>
MCRemote == <<Company("0003", "dai_nippon_printing", {})>>
MCNameLength ==
  [softbank |-> 6, softbank_group |-> 10, sbg |-> 3, dnp |-> 3, dai_nippon_printing |-> 5]
=============================================================================
