------------------------------ MODULE Workspace ------------------------------
(***************************************************************************)
(* The two MCP Apps of src/src/apps, the bid workspace and the investor       *)
(* radar: one view in a host. The host tells the view of its own tool calls   *)
(* (toolinput, then toolresult or toolcancelled); the user searches from the  *)
(* view's form, picks a card and presses the buttons of the card on show.     *)
(* The two apps share their events and differ in the buttons and in what a    *)
(* press does.                                                               *)
(***************************************************************************)
EXTENDS BidRules

CONSTANTS
  Lists,         \* the lists of notices an answer may hold
  Capabilities,  \* the sets of things a host may be able to do
  Searches,      \* bound: the searches of one view
  ViewHalfDays,  \* bound: how long the view stays open
  Nothing        \* no result, no selection, no error

ASSUME WorkspaceAssumption == Searches \in Nat /\ ViewHalfDays \in Nat
ASSUME ListsAssumption ==
  \A bids \in Lists : \A i \in DOMAIN bids :
    Readable(bids[i].deadline) => bids[i].deadline.day \in Int

VARIABLES
  ui,         \* "workspace" or "radar"
  can,        \* what the host can do
  clock,      \* half days since a UTC midnight
  searches,   \* the searches so far, the host's and the user's
  asked,      \* the searches in flight: [number, by]
  result,     \* the result on show and its view: [number, bids, cards, made]
  selected,   \* selectedKey
  searching,  \* isSearching
  error,      \* the error on show
  mode,       \* displayMode and availableDisplayModes
  act,        \* the pressed button that is still at work, or Nothing
  message,    \* actionMessage, with where its text had got to
  crossed,    \* history: a host's event met a search of the user in flight
  newest      \* history: the last search that had a valid answer

searchVars == <<searches, asked, result, selected, searching, error, crossed, newest>>
actVars == <<act, message, mode>>
viewVars == <<ui, can, clock, searchVars, actVars>>

-----------------------------------------------------------------------------
(* The view models *)

\* computeDaysUntilDeadline: the part of a day that has begun is not counted.
CeilHalf(n) == (n + 1) \div 2

\* Mutant of DaysLeft: the days are rounded down.
DaysLeftFloor(bid, time) ==
  IF Readable(bid.deadline) THEN {(2 * bid.deadline.day - time) \div 2} ELSE {}

DaysLeft(bid, time) ==
  IF Readable(bid.deadline) THEN {CeilHalf(2 * bid.deadline.day - time)} ELSE {}

Urgency(days) ==
  IF days = {} THEN "unknown" ELSE
  IF \E d \in days : d < 0 THEN "overdue" ELSE
  IF \E d \in days : d \in 0..7 THEN "urgent" ELSE "normal"

QuickScore(bid, days) ==
  Clamp(40
    + (IF bid.page THEN 10 ELSE 0) + (IF Given(bid.organization) THEN 5 ELSE 0)
    + (IF Given(bid.deadline) THEN 10 ELSE 0) + (IF Given(bid.opening) THEN 5 ELSE 0)
    + (IF Given(bid.certification) THEN 5 ELSE 0)
    + (IF \E d \in days : d \in 1..30 THEN 10 ELSE 0)
    + (IF bid.pdf = "page" THEN 5 ELSE 0))

PriorityLabel(score) ==
  IF score >= 70 THEN "pursue" ELSE IF score >= 45 THEN "review" ELSE "skip"

\* toBidCardViewModel; an attachment makes a PDF that the score leaves out.
BidCard(bid, time) ==
  [key |-> bid.key, deadline |-> bid.deadline, hasPdf |-> Given(bid.pdf),
   urgency |-> Urgency(DaysLeft(bid, time)),
   label |-> PriorityLabel(QuickScore(bid, DaysLeft(bid, time)))]

\* toInvestorWorkspaceViewModel: a notice's first company stands for all.
RadarCard(bid) == [key |-> bid.key, ticker |-> bid.matches[1]]

Mapped(bids) == SelectSeq(bids, LAMBDA b : b.matches # <<>>)

\* toWorkspaceViewModel, with the clock of the moment the result came.
Cards(bids, time) ==
  IF ui = "workspace" THEN [i \in DOMAIN bids |-> BidCard(bids[i], time)]
  ELSE [i \in DOMAIN Mapped(bids) |-> RadarCard(Mapped(bids)[i])]

FirstKey(cards) == IF cards = <<>> THEN Nothing ELSE cards[1].key

Shown == IF result = Nothing THEN <<>> ELSE result.cards

\* selectedBid and selectedCard
SelectedBids ==
  IF result = Nothing THEN {}
  ELSE {result.bids[i] : i \in {j \in DOMAIN result.bids :
          result.bids[j].key = selected /\ \E c \in DOMAIN Shown : Shown[c].key = selected}}

-----------------------------------------------------------------------------
ViewInit ==
  /\ ui \in {"workspace", "radar"}
  /\ can \in Capabilities
  /\ clock = 0 /\ searches = 0 /\ newest = 0
  /\ asked = {} /\ searching = FALSE /\ crossed = FALSE
  /\ result = Nothing /\ selected = Nothing /\ error = Nothing
  /\ act = Nothing /\ message = Nothing
  /\ mode = Nothing

(* The clock runs on; nothing in the view follows it.                          *)
ClockRuns ==
  /\ clock < ViewHalfDays
  /\ clock' = clock + 1
  /\ UNCHANGED <<ui, can, searchVars, actVars>>

-----------------------------------------------------------------------------
(* Searches *)

UsersSearch == \E s \in asked : s.by = "user"

(* applySearchResult with a result that can be read.                           *)
Show(search, bids) ==
  /\ result' = [number |-> search.number, bids |-> bids, cards |-> Cards(bids, clock), made |-> clock]
  /\ selected' = FirstKey(Cards(bids, clock))
  /\ error' = Nothing /\ searching' = FALSE
  /\ newest' = Max({newest, search.number})

(* applySearchResult with one that cannot: only the error is set. A host's      *)
(* tool call that failed is such a result.                                     *)
Reject ==
  /\ error' = "unreadable"
  /\ UNCHANGED <<result, selected, searching, newest>>

ToolInput ==
  /\ searches < Searches
  /\ \A s \in asked : s.by = "user"
  /\ searches' = searches + 1
  /\ asked' = asked \cup {[number |-> searches + 1, by |-> "host"]}
  /\ searching' = TRUE /\ error' = Nothing
  /\ crossed' = (crossed \/ UsersSearch)
  /\ UNCHANGED <<ui, can, clock, result, selected, newest, actVars>>

HostEnds(search) ==
  /\ search \in asked /\ search.by = "host"
  /\ asked' = asked \ {search}
  /\ crossed' = (crossed \/ UsersSearch)
  /\ UNCHANGED <<ui, can, clock, searches, actVars>>

ToolResult(search) ==
  /\ HostEnds(search)
  /\ Reject \/ \E bids \in Lists : Show(search, bids)

ToolCancelled(search) ==
  /\ HostEnds(search)
  /\ searching' = FALSE
  /\ UNCHANGED <<result, selected, error, newest>>

\* Mutant of CanSubmit: the form is never locked.
CanSubmitAlways == TRUE

\* The form of both apps is locked while a search is on.
CanSubmit == ~searching

Ask ==
  /\ searches < Searches
  /\ searches' = searches + 1
  /\ asked' = asked \cup {[number |-> searches + 1, by |-> "user"]}
  /\ searching' = TRUE
  /\ UNCHANGED <<ui, can, clock, result, selected, error, crossed, newest, actVars>>

(* handleInAppSearch up to its await: the workspace asks the host first        *)
(* whether it may call a tool, the radar does not.                             *)
SearchWorkspace ==
  /\ ui = "workspace" /\ CanSubmit
  /\ \/ "serverTools" \in can /\ Ask
     \/ /\ "serverTools" \notin can
        /\ error' = "unsupported"
        /\ UNCHANGED <<ui, can, clock, searches, asked, result, selected, searching,
                       crossed, newest, actVars>>

SearchRadar == ui = "radar" /\ CanSubmit /\ Ask

\* Mutant of SearchFails: the form stays locked.
SearchFailsLocked ==
  /\ error' = "failed"
  /\ UNCHANGED <<result, selected, searching, newest>>

\* An answer with isError, or a call that was rejected or timed out.
SearchFails ==
  /\ error' = "failed" /\ searching' = FALSE
  /\ UNCHANGED <<result, selected, newest>>

(* handleInAppSearch after its await.                                          *)
SearchAnswers(search) ==
  /\ search \in asked /\ search.by = "user"
  /\ asked' = asked \ {search}
  /\ \/ "serverTools" \in can /\ \E bids \in Lists : Show(search, bids)
     \/ "serverTools" \in can /\ Reject
     \/ SearchFails
  /\ UNCHANGED <<ui, can, clock, searches, crossed, actVars>>

\* A card is clicked.
Select ==
  /\ \E c \in DOMAIN Shown : selected' = Shown[c].key
  /\ UNCHANGED <<ui, can, clock, searches, asked, result, searching, error, crossed,
                 newest, actVars>>

-----------------------------------------------------------------------------
(* Buttons. A press is at the host, then perhaps at the clipboard; "reached"    *)
(* is a history of where its text has got to.                                 *)

Says(what, how, reached) == [of |-> what, how |-> how, reached |-> reached]

At(what, step, reached) == [what |-> what, step |-> step, reached |-> reached]

\* The press needs no await: only the message changes.
Tells(what, how) == message' = Says(what, how, {}) /\ act' = Nothing /\ UNCHANGED mode

Goes(what, step) == act' = At(what, step, {}) /\ UNCHANGED <<message, mode>>

\* To the host when it can, else to the clipboard.
GoesTo(what, capability) ==
  Goes(what, IF capability \in can THEN "host" ELSE "clipboard")

(* handleToolAction, up to its first await *)
ToolAction(bid) ==
  \/ ~bid.safeKey /\ Tells("prompt", "refused")
  \/ bid.safeKey /\ GoesTo("prompt", "message")

(* handleDownloadIcs: no file without a date that can be read.                 *)
DownloadIcs(bid) ==
  \/ CalendarEvents(bid, Unextracted) = {} /\ Tells("file", "empty")
  \/ CalendarEvents(bid, Unextracted) # {} /\ GoesTo("file", "downloadFile")

\* handleDownloadMemo
DownloadMemo == GoesTo("file", "downloadFile")

\* handleDownloadCsv: the header alone when the result is empty.
DownloadCsv == GoesTo("file", "downloadFile")

\* handleSyncModelContext
SyncModelContext ==
  \/ SelectedBids = {} /\ Tells("context", "empty")
  \/ SelectedBids # {} /\ "updateModelContext" \notin can /\ Tells("context", "refused")
  \/ SelectedBids # {} /\ "updateModelContext" \in can /\ Goes("context", "host")

\* isAllowedOfficialLink of the two apps.
WorkspaceOrigins == {"kkj"}
RadarOrigins == {"kkj", "edinet", "tdnet", "jquants"}

\* handleOpenOfficialLink
OpenOfficialLink(bid) ==
  \/ bid.origin \notin WorkspaceOrigins /\ Tells("link", "refused")
  \/ bid.origin \in WorkspaceOrigins /\ GoesTo("link", "openLinks")

(* The buttons of the workspace, over the list and over the selected notice.   *)
WorkspaceDock ==
  \/ result # Nothing /\ (DownloadCsv \/ SyncModelContext)
  \/ \E bid \in SelectedBids :
       \/ ToolAction(bid) \/ DownloadIcs(bid) \/ DownloadMemo
       \/ bid.page /\ OpenOfficialLink(bid)

(* The buttons of the radar: two prompts, and the page when it may be opened.  *)
RadarDock ==
  \E bid \in SelectedBids :
    \/ GoesTo("prompt", "message")
    \/ bid.page /\ bid.origin \in RadarOrigins /\ Goes("link", "host")

\* handleToggleDisplayMode, offered when the host has a full screen.
Toggle == mode # Nothing /\ Goes("mode", "host")

Press ==
  /\ act = Nothing
  /\ \/ ui = "workspace" /\ WorkspaceDock
     \/ ui = "radar" /\ RadarDock
     \/ Toggle
  /\ UNCHANGED <<ui, can, clock, searchVars>>

\* What a host may show; it answers with the one it chose, whichever was asked for.
Modes == {"inline", "fullscreen"}

\* hostcontextchanged: the mode, known only where the host has a full screen.
HostContextChanged ==
  /\ mode' \in Modes \cup {Nothing}
  /\ UNCHANGED <<ui, can, clock, searchVars, act, message>>

(* The host did what it was asked and says so; a link that opens needs no word.*)
HostAccepts ==
  /\ act.step = "host"
  /\ act' = Nothing
  /\ message' = CASE act.what \in {"link", "mode"} -> message
                  [] OTHER -> Says(act.what, "sent", {"host"})
  /\ IF act.what = "mode" THEN mode' \in Modes ELSE UNCHANGED mode

\* Where a press goes on when the host refuses: its text to the clipboard.
Falls(step, reached) ==
  /\ act' = At(act.what, step, reached)
  /\ UNCHANGED <<message, mode>>

RadarLink == ui = "radar" /\ act.what = "link"

\* Mutant of HostRefuses: isError is not looked at.
HostRefusesUnseen ==
  /\ act.step = "host" /\ act.what \notin {"mode", "context"}
  /\ act' = Nothing
  /\ message' = Says(act.what, "sent", {})
  /\ UNCHANGED mode

(* The host answers with isError: requestFileDownload, handleToolAction,       *)
(* handleOpenOfficialLink and the radar's openOfficial.                        *)
HostRefuses ==
  /\ act.step = "host" /\ act.what \notin {"mode", "context"}
  /\ Falls("clipboard", {})

(* The request throws: it never got to the host, or its answer never came back.*)
HostThrows ==
  /\ act.step = "host"
  /\ \E reached \in {{}, {"host"}} :
       \/ /\ act.what \notin {"mode", "context"}
          /\ Falls(IF RadarLink THEN "again" ELSE "clipboard", reached)
       \/ /\ act.what \in {"mode", "context"}
          /\ message' = Says(act.what, "refused", reached)
          /\ act' = Nothing /\ UNCHANGED mode

\* copyText, copyActionPrompt and copyToClipboard
Copied ==
  /\ act.step \in {"clipboard", "again"}
  /\ message' = Says(act.what, "copied", act.reached \cup {"clipboard"})
  /\ act' = Nothing /\ UNCHANGED mode

(* The clipboard refuses: the message tells what is left to do. The radar's    *)
(* link, once refused by the host, is written a second time, from its catch.   *)
NotCopied ==
  \/ /\ act.step = "clipboard" /\ RadarLink
     /\ Falls("again", act.reached)
  \/ /\ act.step = "again" \/ (act.step = "clipboard" /\ ~RadarLink)
     /\ message' = Says(act.what, "told", act.reached)
     /\ act' = Nothing /\ UNCHANGED mode

Working(step) == act # Nothing /\ step /\ UNCHANGED <<ui, can, clock, searchVars>>

ViewNext ==
  \/ ClockRuns \/ ToolInput
  \/ \E search \in asked :
       ToolResult(search) \/ ToolCancelled(search) \/ SearchAnswers(search)
  \/ SearchWorkspace \/ SearchRadar \/ Select
  \/ HostContextChanged \/ Press
  \/ Working(HostAccepts) \/ Working(HostRefuses) \/ Working(HostThrows)
  \/ Working(Copied) \/ Working(NotCopied)

ViewSpec == ViewInit /\ [][ViewNext]_viewVars

-----------------------------------------------------------------------------
(* The view is that of one result: its cards were made from its notices, and    *)
(* the card selected is one of them, whichever result replaced which: none is   *)
(* selected only when there are no cards.                                      *)
ViewTypeOK ==
  /\ asked \subseteq [number : 1..searches, by : {"host", "user"}]
  /\ searches \in 0..Searches /\ newest \in 0..searches /\ clock \in 0..ViewHalfDays
  /\ error \in {Nothing, "unreadable", "unsupported", "failed"}
  /\ mode \in Modes \cup {Nothing}
  /\ searching \in BOOLEAN /\ crossed \in BOOLEAN
  /\ IF Shown = <<>> THEN selected = Nothing
     ELSE \E c \in DOMAIN Shown : Shown[c].key = selected
  /\ result # Nothing => result.cards = Cards(result.bids, result.made)

(* The form is locked for a reason: a search is still in flight, or a result    *)
(* that could not be read is reported. However the host's calls and the user's   *)
(* searches cross, no failed or cancelled search leaves the form locked and      *)
(* silent. (An unreadable result does leave it locked: applySearchResult.)      *)
LockedHasCause == searching => asked # {} \/ error = "unreadable"

(* Unless an event of the host meets a search of the user in flight, searches    *)
(* come one at a time and what is shown is the newest that had an answer: a late *)
(* answer never replaces a newer one by the user's searches alone.              *)
SearchesSerial ==
  ~crossed => /\ Cardinality(asked) <= 1
              /\ result # Nothing => result.number = newest

(* A card and rank_bids read a deadline alike: on the day the view was made they *)
(* agree on whether it is over and on whether it can be read, and a card that    *)
(* says it is over stays right however long the view is open.                   *)
CardsAgreeWithRanking ==
  ui = "workspace" => \A i \in DOMAIN Shown :
    LET rank(time) == DeadlineStatus(Shown[i], 7, time \div 2) IN
    /\ (Shown[i].urgency = "overdue") = (rank(result.made) = "overdue")
    /\ (Shown[i].urgency = "unknown") = (rank(result.made) = "unread")
    /\ Shown[i].urgency = "overdue" => rank(clock) = "overdue"

(* What the user is told of a press is so: what is said to be with the host or   *)
(* on the clipboard got there, and what is said to be on neither is not on the   *)
(* clipboard, through every refusal, lost answer and fallback.                  *)
ToldTruly ==
  message # Nothing =>
    /\ message.how = "sent" => "host" \in message.reached
    /\ message.how = "copied" => "clipboard" \in message.reached
    /\ message.how = "told" => "clipboard" \notin message.reached

=============================================================================
