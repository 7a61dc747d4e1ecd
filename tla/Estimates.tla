----------------------------- MODULE Estimates -----------------------------
(***************************************************************************)
(* EstimatesService: the revisions of the quotation of one service request,*)
(* composed with the surveys they rest on and the request they move.       *)
(*                                                                         *)
(* An estimate's "version" is its revision number and never changes, as a  *)
(* survey's; EstimateStateService's comparison of it never fails.          *)
(*                                                                         *)
(* Line items, totals and the date of expiry are left out: they decide     *)
(* only whether a submission or an approval is refused (Abort).            *)
(***************************************************************************)
EXTENDS RequestRow, FiniteSets

CONSTANTS
  Surveys, NoSurvey,   \* as in Surveys
  SurveyCalls,         \* survey handlers that may be in flight at once
  Estimates,           \* bound: estimates ever created for the request
  NoEstimate,          \* a handler that works on no estimate yet
  Calls                \* estimate handlers that may be in flight at once

VARIABLES
  surveys,       \* the surveys rows of the request
  surveyCalls,   \* what each survey handler holds
  estimates,     \* the estimates rows of the request
  calls          \* what each estimate handler has read and is about to do

surveyVars == <<surveys, surveyCalls>>
estimateVars == <<estimates, calls>>
vars == <<status, vendor, version, held,
          surveys, surveyCalls, estimates, calls>>

S == INSTANCE Surveys WITH Calls <- SurveyCalls, calls <- surveyCalls

EstimateRows == [ status : EstimateStatuses \cup {"NONE"}, revision : Nat ]

Unused == [ status |-> "NONE", revision |-> 0 ]

CallStates ==
  [ op       : {"none", "creating", "surveyed", "create", "transition"},
    estimate : Estimates \cup {NoEstimate},
    from     : EstimateStatuses,
    to       : EstimateStatuses,
    revision : Nat ]                      \* revision it read, 0: none

NoCall == [ op |-> "none", estimate |-> NoEstimate, from |-> "DRAFT",
            to |-> "DRAFT", revision |-> 0 ]

\* One type invariant: surveys, estimates, the row and what handlers hold.
TypeOK ==
  /\ S!TypeOK
  /\ estimates \in [Estimates -> EstimateRows]
  /\ calls \in [Calls -> CallStates]

Init ==
  /\ S!Init
  /\ estimates = [e \in Estimates |-> Unused]
  /\ calls = [c \in Calls |-> NoCall]

Exists(e) == estimates[e].status # "NONE"

Drafts == {e \in Estimates : estimates[e].status = "DRAFT"}

\* The first estimate by descending version.
Latest(e) ==
  /\ Exists(e)
  /\ \A x \in Estimates : estimates[x].revision <= estimates[e].revision

-----------------------------------------------------------------------------
Hold(c, op, e, from, to, revision) ==
  /\ calls' = [calls EXCEPT ![c] =
                 [ op |-> op, estimate |-> e, from |-> from, to |-> to,
                   revision |-> revision ]]
  /\ UNCHANGED <<row, surveyVars, estimates>>

Finish(c) == calls' = [calls EXCEPT ![c] = NoCall]

\* createOrVersionEstimateVendor: the request, assigned and not cancelled.
ReadForCreate(c) ==
  /\ calls[c].op = "none"
  /\ vendor # NoVendor
  /\ status # "CANCELLED"
  /\ Hold(c, "creating", NoEstimate, "DRAFT", "DRAFT", 0)

\* ... then an approved survey of the request (given or found).
SurveyNotChecked == TRUE
ApprovedSurvey == \E s \in Surveys : surveys[s].status = "APPROVED"

CheckSurvey(c) ==
  /\ calls[c].op = "creating"
  /\ ApprovedSurvey
  /\ Hold(c, "surveyed", NoEstimate, "DRAFT", "DRAFT", 0)

\* ... then the estimates: no draft, and the latest.
DraftsAllowed == TRUE
NoDraft == Drafts = {}

ReadLatest(c) ==
  /\ calls[c].op = "surveyed"
  /\ NoDraft
  /\ \/ /\ \A e \in Estimates : ~Exists(e)
        /\ Hold(c, "create", NoEstimate, "DRAFT", "SUPERSEDED", 0)
     \/ \E e \in Estimates :
          /\ Latest(e)
          /\ Hold(c, "create", e, estimates[e].status, "SUPERSEDED",
                  estimates[e].revision)

\* ... then the transaction: the latest one read is superseded, by its own
\* transition, and the next revision starts as a draft.
Superseded == {"PENDING_APPROVAL", "APPROVED", "REJECTED"}

CommitCreate(c) ==
  /\ calls[c].op = "create"
  /\ \E new \in Estimates :
       /\ ~Exists(new)
       /\ estimates' =
            [e \in Estimates |->
               IF e = new
                 THEN [ status |-> "DRAFT", revision |-> calls[c].revision + 1 ]
               ELSE IF e = calls[c].estimate /\ calls[c].from \in Superseded
                 THEN [ status |-> "SUPERSEDED",
                        revision |-> estimates[e].revision ]
               ELSE estimates[e]]
  /\ Finish(c)
  /\ UNCHANGED <<row, surveyVars>>

\* submitEstimateVendor, up to the transaction: the request still has a vendor.
ReadForSubmit(c, e) ==
  /\ calls[c].op = "none"
  /\ vendor # NoVendor
  /\ estimates[e].status = "DRAFT"
  /\ Hold(c, "transition", e, "DRAFT", "PENDING_APPROVAL",
          estimates[e].revision)

\* approveEstimateCustomer and rejectEstimateCustomer, up to the transaction.
\* (They read the version apart from the status; it never changes.)
AnyEstimate(e) == Exists(e)
Answerable(e) == estimates[e].status = "PENDING_APPROVAL"

ReadForAnswer(c, e, answer) ==
  /\ calls[c].op = "none"
  /\ Answerable(e)
  /\ Hold(c, "transition", e, "PENDING_APPROVAL", answer,
          estimates[e].revision)

\* The request's status after an estimate's transition.
ApprovalSchedules(to) ==
  IF to = "APPROVED" THEN DocumentSync("SCHEDULED") ELSE UNCHANGED row
SyncRequest(to) ==
  IF to = "APPROVED" THEN DocumentSync("AWAITING_APPROVAL") ELSE UNCHANGED row

\* The WHERE clause of the estimate's UPDATE, besides the id.
RevisionMatches(e, expected) == estimates[e].revision = expected

\* EstimateStateService.transitionStatus.
CommitTransition(c) ==
  LET e == calls[c].estimate
  IN /\ calls[c].op = "transition"
     /\ calls[c].to \in EstimateTransitions[calls[c].from]
     /\ RevisionMatches(e, calls[c].revision)
     /\ estimates' = [estimates EXCEPT ![e] =
                        [ status |-> calls[c].to, revision |-> @.revision ]]
     /\ SyncRequest(calls[c].to)
     /\ Finish(c)
     /\ UNCHANGED surveyVars

\* An invocation ends without writing: a check or a validation threw, the
\* database failed, the process stopped.
Abort(c) ==
  /\ calls[c].op # "none"
  /\ Finish(c)
  /\ UNCHANGED <<row, surveyVars, estimates>>

EstimateStep(c) ==
  \/ ReadForCreate(c) \/ CheckSurvey(c) \/ ReadLatest(c) \/ CommitCreate(c)
  \/ CommitTransition(c) \/ Abort(c)
  \/ \E e \in Estimates :
       \/ ReadForSubmit(c, e)
       \/ ReadForAnswer(c, e, "APPROVED")
       \/ ReadForAnswer(c, e, "REJECTED")

\* The rest of the backend: versioned writes.
Outside ==
  /\ Transition \/ Unassign
  /\ UNCHANGED <<surveyVars, estimateVars>>

Next ==
  \/ \E c \in Calls : EstimateStep(c)
  \/ \E c \in SurveyCalls : S!SurveyStep(c) /\ UNCHANGED estimateVars
  \/ Outside

Spec == Init /\ [][Next]_vars

-----------------------------------------------------------------------------
\* A quotation rests on a survey: before a survey of the request was submitted
\* there is no estimate and the request is in no status of the survey or the
\* quotation, whatever documents, admins and other handlers write in between.
DocumentPhase ==
  {"SURVEY_SUBMITTED", "SURVEY_APPROVED", "ESTIMATE_CREATED",
   "AWAITING_APPROVAL"}

QuotationsRestOnSurveys ==
  (\E e \in Estimates : Exists(e)) \/ status \in DocumentPhase
    => \E s \in Surveys : S!PastDraft(s)

\* A draft can only be sent: no answer of the customer and no supersession by
\* the next revision reaches it, however old the snapshot they were decided on.
DraftsAreOnlySent ==
  [][ \A e \in Estimates :
        estimates[e].status = "DRAFT"
          => estimates'[e].status \in {"DRAFT", "PENDING_APPROVAL"} ]_vars

=============================================================================
