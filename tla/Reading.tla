------------------------------ MODULE Reading -------------------------------
(***************************************************************************)
(* What only reads: the lists whose pages are turned, and the reports.  A  *)
(* behaviour is one of the two; neither knows of the other.                *)
(***************************************************************************)
EXTENDS PageWalk, Reports

VARIABLE reader   \* which of the two the behaviour is

readingVars == <<walkVars, reportVars, reader>>

\* One type invariant for the two.
ReadingTypeOK == WalkTypeOK /\ ReportsTypeOK /\ reader \in {"walk", "report"}

NoWalk ==
  /\ query = CHOOSE q \in Walks : TRUE
  /\ table = [r \in Rows |-> Absent]
  /\ WalkBegins

NoReport ==
  /\ kind = "notification"
  /\ entry = NoEntry
  /\ making = Asking(getWorkOrderAnalytics, 1)
  /\ ReportBegins

ReadingInit ==
  \/ reader = "walk" /\ WalkInit /\ NoReport
  \/ reader = "report" /\ ReportsInit /\ NoWalk

ReadingNext ==
  \/ reader = "walk" /\ WalkNext /\ UNCHANGED <<reportVars, reader>>
  \/ reader = "report" /\ ReportsNext /\ UNCHANGED <<walkVars, reader>>

ReadingSpec == ReadingInit /\ [][ReadingNext]_readingVars

=============================================================================
