------------------------------ MODULE Reports -------------------------------
(***************************************************************************)
(* The dashboards' summaries and the analytics.                            *)
(*                                                                         *)
(* A report is put together from statements, each of which counts, or adds *)
(* up, the rows of a kind whose status it names; a groupBy does so status  *)
(* by status in one statement.  Each row is counted for itself, so one row *)
(* is followed.  The statements of one Promise.all may be executed in any  *)
(* order, and each sees what is committed when it starts: a transaction    *)
(* around them is one at READ COMMITTED, the database's default, and gives *)
(* them no snapshot in common.                                             *)
(***************************************************************************)
EXTENDS Listings, Naturals, Sequences, FiniteSets

CONSTANT MaxMoves   \* bound: steps of the row while the report is made

VARIABLES
  kind,      \* what the row is
  entry,     \* the row: its status, whose it is, whether it is of the period
  making,    \* the report, the group of statements it is at, what is to be read
  counted,   \* the statements that counted the row
  had        \* auxiliary: what the row was, in turn, while the report was made

reportVars == <<kind, entry, making, counted, had>>

-----------------------------------------------------------------------------
Statement(does, of, scope, shows) ==
  [ does |-> does, of |-> of, scope |-> scope, shows |-> shows ]

Totals(of, scope) == {Statement("count", of, scope, Statuses(of))}
Sum(of, scope, shows) == {Statement("sum", of, scope, shows)}
GroupBy(column, of, shows) == {Statement(column, of, "all", shows)}
Counts(of, scope, statuses) == {Statement("count", of, scope, {s}) : s \in statuses}

\* A report: the groups of statements it issues, each when the one before is
\* answered, and whether it does without a statement that fails.
Report(groups, partial) == [ groups |-> groups, partial |-> partial ]

getAdminDashboardSummary == Report(
  << Totals("request", "all") \cup Counts("request", "all",
       {"CREATED", "ASSIGNED", "IN_PROGRESS", "COMPLETED", "CANCELLED"}),
     Counts("survey", "all", {"DRAFT", "SUBMITTED", "APPROVED", "SUPERSEDED"}),
     Counts("estimate", "all", {"DRAFT", "PENDING_APPROVAL", "APPROVED", "REJECTED"}),
     Totals("order", "all") \cup
       Counts("order", "all", {"IN_PROGRESS", "COMPLETED", "CANCELLED"}),
     Counts("payment", "all", {"SUCCESS", "FAILED"})
       \cup Sum("payment", "all", {"SUCCESS"}) \cup Sum("invoice", "all", {"ISSUED"}),
     Counts("invoice", "all", {"ISSUED"}) \cup Counts("notification", "all", {"UNREAD"}) >>,
  FALSE)

getVendorDashboardSummary == Report(
  << Totals("request", "assigned")
       \cup Counts("order", "own", {"ASSIGNED", "COMPLETED", "IN_PROGRESS"}),
     Sum("payment", "assigned", {"SUCCESS"}),
     Totals("invoice", "assigned") \cup Counts("notification", "own", {"UNREAD"}) >>,
  FALSE)

getCustomerDashboardSummary == Report(
  << Totals("request", "own") \cup Counts("request", "own", {"COMPLETED"})
       \cup Counts("estimate", "own", {"PENDING_APPROVAL"}),
     Sum("payment", "own", {"SUCCESS"}),
     Totals("invoice", "own") \cup Counts("notification", "own", {"UNREAD"}) >>,
  FALSE)

getRevenueAnalytics == Report(
  << Sum("payment", "all", {"SUCCESS"}),
     GroupBy("paymentMethod", "payment", {"SUCCESS"}),
     Sum("invoice", "all", {"ISSUED"}) >>,
  TRUE)

getServiceAnalytics == Report(
  << GroupBy("status", "request", RequestStatuses),
     GroupBy("status", "survey", SurveyStatuses),
     GroupBy("status", "estimate", EstimateStatuses) >>,
  TRUE)

getPaymentAnalytics == Report(
  << GroupBy("status", "payment", PaymentStatuses)
       \cup GroupBy("gateway", "payment", PaymentStatuses) >>,
  FALSE)

getWorkOrderAnalytics == Report(
  << GroupBy("status", "order", WorkOrderStatuses) >>,
  FALSE)

AllReports ==
  { getAdminDashboardSummary, getVendorDashboardSummary, getCustomerDashboardSummary,
    getRevenueAnalytics, getServiceAnalytics, getPaymentAnalytics,
    getWorkOrderAnalytics }

-----------------------------------------------------------------------------
\* The statements of a group that are about the row.
About(group) == { s \in group : s.of = kind }

Asking(report, n) ==
  [ report |-> report, at |-> n, todo |-> About(report.groups[n]), lost |-> {} ]

NoEntry == [ status |-> "NONE", mine |-> FALSE, inPeriod |-> FALSE ]
Entries ==
  [ status : Statuses(kind), mine : BOOLEAN, inPeriod : BOOLEAN ] \cup {NoEntry}

Reported == making.at > Len(making.report.groups)

\* One type invariant.
ReportsTypeOK ==
  /\ kind \in DOMAIN Machines \ {"event"}
  /\ entry \in Entries
  /\ making.report \in AllReports
  /\ making.at \in 1..(Len(making.report.groups) + 1)
  /\ making.todo \cup making.lost \cup counted
       \subseteq UNION { making.report.groups[n] : n \in DOMAIN making.report.groups }
  /\ had \in Seq(Entries)

ReportBegins ==
  /\ counted = {}
  /\ had = <<entry>>

ReportsInit ==
  /\ kind \in DOMAIN Machines \ {"event"}
  /\ entry \in Entries
  /\ \E report \in AllReports : making = Asking(report, 1)
  /\ ReportBegins

\* The row is created, moves on, or changes hands with its request.
EntryChanges ==
  /\ ~Reported /\ Len(had) <= MaxMoves
  /\ \/ entry = NoEntry
        /\ entry' \in [ status : Fresh[kind], mine : BOOLEAN, inPeriod : BOOLEAN ]
     \/ entry # NoEntry
        /\ \E to \in Machines[kind][entry.status] : entry' = [entry EXCEPT !.status = to]
     \/ entry # NoEntry
        /\ entry' = [entry EXCEPT !.mine = ~@]
  /\ had' = Append(had, entry')
  /\ UNCHANGED <<kind, making, counted>>

\* The period is compared with createdAt; notifications are counted at any age.
getDateRange(statement, row) == statement.of # "notification" => row.inPeriod

\* Whether a statement counts the row when the row is like this.
Matches(statement, row) ==
  /\ row.status \in statement.shows
  /\ InScope(statement.scope, row)
  /\ getDateRange(statement, row)

Execute(statement) ==
  /\ statement \in making.todo
  /\ making' = [making EXCEPT !.todo = @ \ {statement}]
  /\ counted' = IF Matches(statement, entry) THEN counted \cup {statement} ELSE counted
  /\ UNCHANGED <<kind, entry, had>>

\* A statement that fails is left out, where the report does without it.
Lose(statement) ==
  /\ statement \in making.todo
  /\ making.report.partial
  /\ making' = [making EXCEPT !.todo = @ \ {statement}, !.lost = @ \cup {statement}]
  /\ UNCHANGED <<kind, entry, counted, had>>

\* The next group is issued when the last one has been answered, and the report
\* is given when there is none.
NotAwaited == TRUE
Awaited == making.todo = {}

NextGroup ==
  LET n == making.at + 1
  IN /\ ~Reported /\ Awaited
     /\ making' = [making EXCEPT
                     !.at = n,
                     !.todo = IF n > Len(making.report.groups) THEN {}
                              ELSE About(making.report.groups[n])]
     /\ UNCHANGED <<kind, entry, counted, had>>

ReportsNext ==
  \/ EntryChanges \/ NextGroup
  \/ \E statement \in making.todo : Execute(statement) \/ Lose(statement)
  \/ Reported /\ UNCHANGED reportVars

ReportsSpec == ReportsInit /\ [][ReportsNext]_reportVars

-----------------------------------------------------------------------------
\* What the comment at the summary says: its numbers are those of one moment, so
\* that no row is counted at two statuses.
SummaryIsSnapshot ==
  Reported /\ making.report = getAdminDashboardSummary =>
    \A s, t \in counted :
      {s.does, t.does} = {"count"} /\ s.shows \cap t.shows = {} => FALSE

\* What is left of it, for every report: each of its numbers counts the row if the
\* row answered to it all the time, and only if it did at some time, or the number
\* is missing.
NumbersAreOfTheirTime ==
  Reported =>
    \A n \in DOMAIN making.report.groups :
      \A s \in About(making.report.groups[n]) \ making.lost :
        /\ (\A i \in DOMAIN had : Matches(s, had[i])) => s \in counted
        /\ s \in counted => \E i \in DOMAIN had : Matches(s, had[i])

=============================================================================
