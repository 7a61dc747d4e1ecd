---------------------------- MODULE AdminConsole ----------------------------
(***************************************************************************)
(* The administrators' application in one tab: the dashboard, or a list    *)
(* and the page of the request or the survey that is opened from it.  The  *)
(* list knows nothing of what it opens but that it has a row, and a page   *)
(* nothing of the list; what has happened to a request or a survey before  *)
(* it is opened makes no difference.                                       *)
(***************************************************************************)
EXTENDS AdminList, AdminDetails, SurveyReview, Dashboard

VARIABLE screen     \* what is on the screen

consoleVars == <<listVars, row, detailsVars, reviewVars, dashboardVars, screen>>

\* One type invariant for everything.
ConsoleTypeOK ==
  /\ ListTypeOK /\ DetailsTypeOK /\ ReviewTypeOK /\ DashboardTypeOK
  /\ screen \in {"dashboard", "list", "request", "survey"}

ConsoleInit ==
  /\ ListInit /\ DetailsInit
  /\ ReviewInit /\ DashboardInit
  /\ screen \in {"dashboard", "list"}
  \* Which widget is followed is of no matter to a list.
  /\ screen = "list" => widget = "HealthWidget"

\* The list is unmounted, and nothing of it is kept.
LeaveList ==
  /\ TableShown
  /\ params' = Bare
  /\ typed' = NoSearch
  /\ url' = Bare
  /\ list' = Loading(NoRows)
  /\ fetches' = [f \in Fetches |-> NoFetch]
  /\ overtaken' = FALSE

\* The link of a row.
Open ==
  /\ screen = "list"
  /\ LeaveList
  /\ \/ OpenPage /\ screen' = "request" /\ UNCHANGED reviewVars
     \/ OpenSurvey /\ screen' = "survey" /\ UNCHANGED <<row, detailsVars>>
  /\ UNCHANGED dashboardVars

ConsoleNext ==
  \/ screen = "dashboard" /\ DashboardNext
       /\ UNCHANGED <<listVars, row, detailsVars, reviewVars, screen>>
  \/ screen = "list" /\ ListNext
       /\ UNCHANGED <<row, detailsVars, reviewVars, dashboardVars, screen>>
  \/ screen = "request" /\ DetailsNext
       /\ UNCHANGED <<listVars, reviewVars, dashboardVars, screen>>
  \/ screen = "survey" /\ ReviewNext
       /\ UNCHANGED <<listVars, row, detailsVars, dashboardVars, screen>>
  \/ Open

ConsoleSpec == ConsoleInit /\ [][ConsoleNext]_consoleVars

-----------------------------------------------------------------------------
\* The rows on the screen answer the query the filters show, however late the
\* answers to earlier queries come.  Only a refresh may put other rows there,
\* and only one the administrator changed the query under.
RowsMatchFilters ==
  screen = "list" /\ TableShown /\ ~overtaken => list.shown = params

\* A list shows what its filters ask for, and the dashboard what the backend had
\* when it was last asked or later.
ScreensAnswerLastQuestion == RowsMatchFilters /\ WidgetsAreCurrent

\* An administrator who changed the request or reviewed the survey sees the
\* change, or a later one, once the page is at rest without an error, unless
\* reads overlapped: then the answer that came last is shown, which need not be
\* the newest.
AcknowledgedChangesAreShown ==
  /\ ~ReadUnderWay /\ ~isError /\ ~overlapping => shown.version >= own
  /\ ReviewsAreShown

\* What the page offers is what the backend takes: a change of status, or a
\* review, is refused by the state machine, or an assignment takes the request
\* from another vendor, only when the request or the survey has changed since
\* the page was told of it.  The exception is the form of a request that has no
\* way on: it offers nothing, and still sends the target it was left with.
PostsMisfireOnlyWhenStale ==
  /\ [][ \A p \in Posts :
           /\ posts[p].at = "posted"
           /\ \/ posts[p].action = "status" /\ posts'[p].at = "refused"
                                               /\ UiTransitions[posts[p].seen.status] # {}
              \/ posts[p].action = "assign" /\ posts'[p].at = "done"
                                               /\ vendor \in Vendors
           => posts[p].seen # RowNow ]_consoleVars
  /\ ReviewsMisfireOnlyWhenStale

=============================================================================
