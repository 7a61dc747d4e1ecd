----------------------------- MODULE Dashboard ------------------------------
(***************************************************************************)
(* The administrators' dashboard.  Its widgets and the health of the       *)
(* platform in the sidebar each fetch for themselves what they show, by    *)
(* the same two handlers: a load, which an effect starts and whose answer  *)
(* is ignored once the effect has been cleaned up, and a fetch by hand,    *)
(* whose answer nothing ignores.  They have no state in common but the     *)
(* count of refreshes, so one widget is followed.                          *)
(*                                                                         *)
(* What the backend answers is told apart by how often it has changed.     *)
(***************************************************************************)
EXTENDS Naturals

CONSTANTS
  Probes,    \* bound: requests the widget may have under way
  MaxNews    \* bound: changes of what the backend answers

ASSUME MaxNewsAssumption == MaxNews \in Nat

VARIABLES
  widget,    \* the widget that is followed
  news,      \* what the backend would answer now
  panel,     \* what the widget shows, its spinner and its error
  probes,    \* requests under way
  asked,     \* auxiliary: the news when the widget last asked
  crossed    \* auxiliary: ... beside a request whose answer is shown as well

dashboardVars == <<widget, news, panel, probes, asked, crossed>>

\* Those that are refreshed together; a health check repeats itself.
RefreshedTogether == {"KpiCards", "RecentRequestsTable", "NeedsAttention",
                      "StatusChart", "RevenueChart", "ActivityFeed"}
Widgets == RefreshedTogether \cup {"HealthWidget"}

ProbeStates == [ kind : {"none", "load", "late", "fetch"}, answered : BOOLEAN,
                 told : 0..MaxNews ]

NoProbe == [ kind |-> "none", answered |-> FALSE, told |-> 0 ]
Probe(kind) == [NoProbe EXCEPT !.kind = kind]

DashboardTypeOK ==
  /\ widget \in Widgets
  /\ news \in 0..MaxNews
  /\ panel \in [ told : 0..MaxNews, isLoading : BOOLEAN, isError : BOOLEAN ]
  /\ probes \in [Probes -> ProbeStates]
  /\ asked \in 0..MaxNews
  /\ crossed \in BOOLEAN

DashboardInit ==
  /\ widget \in Widgets
  /\ news = 0
  /\ panel = [ told |-> 0, isLoading |-> TRUE, isError |-> FALSE ]
  /\ \E p \in Probes : probes = [q \in Probes |-> IF q = p THEN Probe("load") ELSE NoProbe]
  /\ asked = 0
  /\ crossed = FALSE

-----------------------------------------------------------------------------
\* Either handler begins: the spinner turns and the error goes.
BeginProbe(before, kind) ==
  /\ \E p \in Probes :
       /\ probes[p].kind = "none"
       /\ probes' = [before EXCEPT ![p] = Probe(kind)]
  /\ panel' = [panel EXCEPT !.isLoading = TRUE, !.isError = FALSE]
  /\ asked' = news
  /\ crossed' = \E p \in Probes : before[p].kind \in {"load", "fetch"}
  /\ UNCHANGED <<widget, news>>

\* The cleanup of the effect.
CleanedUp ==
  [p \in Probes |-> IF probes[p].kind = "load" THEN [probes[p] EXCEPT !.kind = "late"]
                    ELSE probes[p]]

\* The Refresh button counts refreshTrigger, on which the effects depend.
handleManualRefresh ==
  /\ widget \in RefreshedTogether
  /\ BeginProbe(CleanedUp, "load")

\* The interval of the health check.
Poll ==
  /\ widget = "HealthWidget"
  /\ BeginProbe(probes, "load")

\* Retry, where the widget shows an error; Check is always there.
fetchMetrics ==
  /\ widget \in RefreshedTogether => panel.isError /\ ~panel.isLoading
  /\ BeginProbe(probes, "fetch")

-----------------------------------------------------------------------------
\* The backend answers.
AnswerProbe(p) ==
  /\ probes[p].kind # "none" /\ ~probes[p].answered
  /\ probes' = [probes EXCEPT ![p].answered = TRUE, ![p].told = news]
  /\ UNCHANGED <<widget, news, panel, asked, crossed>>

\* Only the load of an effect looks whether it is late.
isMounted(p) == probes[p].kind # "late"

ShowData(p) ==
  /\ probes[p].answered
  /\ panel' = IF isMounted(p)
                THEN [panel EXCEPT !.told = probes[p].told, !.isLoading = FALSE]
                ELSE panel
  /\ probes' = [probes EXCEPT ![p] = NoProbe]
  /\ UNCHANGED <<widget, news, asked, crossed>>

ShowFailure(p) ==
  /\ probes[p].kind # "none"
  /\ panel' = IF isMounted(p)
                THEN [panel EXCEPT !.isError = TRUE, !.isLoading = FALSE]
                ELSE panel
  /\ probes' = [probes EXCEPT ![p] = NoProbe]
  /\ UNCHANGED <<widget, news, asked, crossed>>

\* The rest of the platform goes on.
News ==
  /\ news < MaxNews
  /\ news' = news + 1
  /\ UNCHANGED <<widget, panel, probes, asked, crossed>>

DashboardNext ==
  \/ handleManualRefresh \/ Poll \/ fetchMetrics \/ News
  \/ \E p \in Probes : AnswerProbe(p) \/ ShowData(p) \/ ShowFailure(p)

-----------------------------------------------------------------------------
\* A widget that shows data at rest shows none from before it last asked, unless
\* a request that nothing ignores was under way beside it.
WidgetsAreCurrent ==
  ~panel.isLoading /\ ~panel.isError /\ ~crossed => panel.told >= asked

=============================================================================
