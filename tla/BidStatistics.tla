--------------------------- MODULE BidStatistics ----------------------------
(***************************************************************************)
(* What src/src/domain and the search tools compute from a list of notices:  *)
(* the cut to a size a client can read, the counts by issuer, and the listed  *)
(* companies that notices name. A list of results is a sequence of notices.   *)
(***************************************************************************)
EXTENDS BidRules

CONSTANTS
  Cap,         \* STRUCTURED_CONTENT_BID_CAP (100)
  TopLimit,    \* TOP_ORG_LIMIT (10)
  Collation,   \* the issuers' names and the codes, in the order they sort in
  Bundled,     \* bundledListedCompanies: a sequence of companies
  NameLength   \* the length of a company's name

ASSUME BundledAssumption == Bundled \in Seq({Bundled[i] : i \in DOMAIN Bundled})

Nameless == "nameless"

\* localeCompare
Precedes(a, b) ==
  \E i, j \in DOMAIN Collation : i < j /\ Collation[i] = a /\ Collation[j] = b

(* capSearchResult with addPaginationMetadata.                                *)
CapSearchResult(bids, hits) ==
  LET shown == FirstN(bids, Cap) IN
  [bids |-> shown, hits |-> hits, returned |-> Len(shown), more |-> hits > Len(shown)]

\* countBy: the values that occur, wherever they stand, and how often.
CountBy(values) ==
  [v \in {values[i] : i \in DOMAIN values} |->
     Cardinality({i \in DOMAIN values : values[i] = v})]

\* The field f of each notice, where an empty one gets a name of its own.
OrNameless(value) == IF Given(value) THEN value ELSE Nameless
Named(bids, f) == [i \in DOMAIN bids |-> OrNameless(bids[i][f])]
OrganizationOf(bid) == OrNameless(bid.organization)

\* A notice without a date sorts before all that have one.
Issued(bid) == IF Given(bid.issued) THEN bid.issued ELSE -1

\* Mutant of Latest: the last notice of the list is taken for the latest.
LatestInList(bids, own) == bids[Max(own)]

(* isLater and isLaterNotice, over the notices at some positions of a list: a   *)
(* later notice replaces the one kept so far, so the first of the latest stays. *)
Latest(bids, own) ==
  bids[Min({i \in own : \A j \in own : Issued(bids[j]) <= Issued(bids[i])})]

(* Array.sort by count, then by the field f: the lists of these entries in which *)
(* none stands behind one that comes after it.                               *)
ByCount(entries, f) ==
  {list \in [1..Cardinality(entries) -> entries] :
     /\ {list[i] : i \in DOMAIN list} = entries
     /\ \A i, j \in DOMAIN list : i < j =>
          \/ list[i].count > list[j].count
          \/ list[i].count = list[j].count /\ ~Precedes(list[j][f], list[i][f])}

-----------------------------------------------------------------------------
(* summarizePastAwards *)

OrganizationEntry(bids, name) ==
  LET own == {i \in DOMAIN bids : OrganizationOf(bids[i]) = name} IN
  [organization |-> name, count |-> Cardinality(own),
   categories |-> {bids[i].category : i \in own} \ {Absent},
   recentKey |-> Latest(bids, own).key, recentDay |-> Issued(Latest(bids, own))]

(* aggregateOrganizations: by count, then by name, up to TOP_ORG_LIMIT.       *)
TopOrganizations(bids) ==
  {FirstN(list, TopLimit) : list \in
     ByCount({OrganizationEntry(bids, OrganizationOf(bids[i])) : i \in DOMAIN bids},
             "organization")}

\* countByMonth: notices without a date in no month.
DaysPerMonth == 2
MonthlyVolume(bids) ==
  CountBy([i \in {j \in DOMAIN bids : Given(bids[j].issued)} |->
             bids[i].issued \div DaysPerMonth])

\* pickDominant: the most frequent value that is named; of equals the one seen
\* first.
Dominant(values) ==
  LET named == {i \in DOMAIN values : values[i] # Nameless}
      counts == CountBy(values)
  IN IF named = {} THEN {}
     ELSE {values[Min({i \in named :
             \A j \in named : counts[values[i]] >= counts[values[j]]})]}

(* buildInsights: which of its sentences are there.                           *)
Insights(bids, top) ==
  LET found ==
        Entry(top # <<>> /\ top[1].count >= 2, "busiest")
        \o Entry(Cardinality({i \in DOMAIN top : top[i].organization # Nameless}) >= 3, "three")
        \o Entry(Dominant(Named(bids, "category")) # {}, "category")
        \o Entry(Dominant(Named(bids, "procedure")) # {}, "procedure")
  IN IF found = <<>> THEN <<"too_few">> ELSE found

SummarizePastAwards(bids, hits, top) ==
  [hits |-> hits, returned |-> Len(bids), top |-> top,
   categories |-> CountBy(Named(bids, "category")),
   procedures |-> CountBy(Named(bids, "procedure")),
   months |-> MonthlyVolume(bids), insights |-> Insights(bids, top)]

-----------------------------------------------------------------------------
(* Listed companies: [code, name, aliases]. A notice's text names a set of    *)
(* names, with every name that is part of another it names.                  *)

NamesOf(company) == {company.name} \cup company.aliases

\* findListedCompany by name: the index keeps the last company of a name.
FindListedCompany(name, catalog) ==
  LET named == {i \in DOMAIN catalog : name \in NamesOf(catalog[i])} IN
  IF named = {} THEN {} ELSE {catalog[Max(named)]}

\* matchListedCompaniesInText: per company the longest of its names.
Matches(bid, catalog) ==
  {[code |-> catalog[i].code,
    text |-> CHOOSE n \in NamesOf(catalog[i]) \cap bid.names :
               \A m \in NamesOf(catalog[i]) \cap bid.names : NameLength[n] >= NameLength[m]] :
   i \in {j \in DOMAIN catalog : NamesOf(catalog[j]) \cap bid.names # {}}}

(* The merge step of mergeCatalog: the longer name; the aliases of both and   *)
(* both names, without the existing one.                                     *)
MergeOne(existing, company) ==
  [code |-> existing.code,
   name |-> IF NameLength[existing.name] >= NameLength[company.name]
            THEN existing.name ELSE company.name,
   aliases |-> (NamesOf(existing) \cup NamesOf(company)) \ {existing.name}]

\* Where a code comes first in a list of companies: the order of the Map byCode.
FirstOfCode(all) == {i \in DOMAIN all : \A j \in 1..(i - 1) : all[j].code # all[i].code}
Nth(positions, n) == CHOOSE i \in positions : Cardinality({j \in positions : j <= i}) = n

\* The company at i with the later ones of its code merged into it, one by one.
Merged(all, i) ==
  FoldLeft(MergeOne, all[i],
           SelectSeq(SubSeq(all, i + 1, Len(all)), LAMBDA c : c.code = all[i].code))

(* mergeCatalog: the bundled companies in their order, then the new ones.     *)
MergeCatalog(bundled, remote) ==
  LET all == bundled \o remote IN
  [n \in 1..Cardinality(FirstOfCode(all)) |-> Merged(all, Nth(FirstOfCode(all), n))]

\* The facts of one company, from the notices whose codes have its.
Facts(bids, codesOf, code) ==
  LET own == {i \in DOMAIN bids : code \in codesOf[i]} IN
  [code |-> code, count |-> Cardinality(own), latestKey |-> Latest(bids, own).key,
   keys |-> {bids[i].key : i \in own},
   prefectures |-> CountBy([i \in own |-> OrNameless(bids[i].prefecture)])]

\* Mutant of ListedFacts: a notice counts for the first company it names.
ListedFactsFirst(bids, codesOf) ==
  LET first == [i \in DOMAIN codesOf |->
                  IF codesOf[i] = {} THEN {} ELSE {CHOOSE c \in codesOf[i] : TRUE}]
  IN ByCount({Facts(bids, first, c) : c \in UNION {first[i] : i \in DOMAIN bids}}, "code")

(* summarizeListedAwards: the facts of every company named, by count.         *)
ListedFacts(bids, codesOf) ==
  ByCount({Facts(bids, codesOf, c) : c \in UNION {codesOf[i] : i \in DOMAIN bids}}, "code")

(* mapAwardsToListedResult, from the capped results and a catalog.            *)
MapAwards(bids, catalog) ==
  LET codesOf == [i \in DOMAIN bids |-> {m.code : m \in Matches(bids[i], catalog)}]
      mapped == Cardinality({i \in DOMAIN bids : codesOf[i] # {}})
  IN {[returned |-> Len(bids), mapped |-> mapped, unmapped |-> Len(bids) - mapped,
       companies |-> companies] : companies \in ListedFacts(bids, codesOf)}
=============================================================================
