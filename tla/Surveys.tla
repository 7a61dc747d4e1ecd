------------------------------ MODULE Surveys ------------------------------
(***************************************************************************)
(* SurveysService: the revisions of the survey of one service request, and *)
(* the status they force on the request.                                   *)
(*                                                                         *)
(* The column "version" of a survey is its revision number.  It never      *)
(* changes, so comparing it, as SurveyStateService does, never fails, and  *)
(* a transition overwrites whatever the survey has become since the        *)
(* handler read it.  Handlers are split as in ServiceRequests.             *)
(*                                                                         *)
(* Inspection items and photos are in Inspections: here they decide only   *)
(* whether a submission is refused, which every submission may be (Abort). *)
(***************************************************************************)
EXTENDS RequestRow, FiniteSets

CONSTANTS
  Surveys,    \* bound: surveys ever created for the request
  NoSurvey,   \* a handler that works on no survey yet
  Calls       \* handler invocations that may be in flight at once

ASSUME SurveysAssumption == NoSurvey \notin Surveys /\ IsFiniteSet(Surveys)
ASSUME CallsAssumption == IsFiniteSet(Calls)

VARIABLES
  surveys,    \* the surveys rows of the request
  calls       \* what each invocation has read and is about to do

surveyVars == <<surveys, calls>>
vars == <<status, vendor, version, held, surveys, calls>>

SurveyRows == [ status : SurveyStatuses \cup {"NONE"}, revision : Nat ]

Unused == [ status |-> "NONE", revision |-> 0 ]

CallStates ==
  [ op       : {"none", "creating", "create", "transition"},
    survey   : Surveys \cup {NoSurvey},
    from     : SurveyStatuses,
    to       : SurveyStatuses,
    revision : Nat ]                      \* revision it read, 0: none

NoCall == [ op |-> "none", survey |-> NoSurvey, from |-> "DRAFT",
            to |-> "DRAFT", revision |-> 0 ]

\* One type invariant: the row, the surveys and what every invocation holds.
TypeOK ==
  /\ RowTypeOK
  /\ surveys \in [Surveys -> SurveyRows]
  /\ calls \in [Calls -> CallStates]

Init ==
  /\ RowInit
  /\ surveys = [s \in Surveys |-> Unused]
  /\ calls = [c \in Calls |-> NoCall]

Exists(s) == surveys[s].status # "NONE"

\* The survey has been submitted at some time.
PastDraft(s) == surveys[s].status \notin {"NONE", "DRAFT"}

Drafts == {s \in Surveys : surveys[s].status = "DRAFT"}

\* The first survey by descending version.
Latest(s) ==
  /\ Exists(s)
  /\ \A x \in Surveys : surveys[x].revision <= surveys[s].revision

-----------------------------------------------------------------------------
Hold(c, op, s, from, to, revision) ==
  /\ calls' = [calls EXCEPT ![c] =
                 [ op |-> op, survey |-> s, from |-> from, to |-> to,
                   revision |-> revision ]]
  /\ UNCHANGED <<row, surveys>>

Finish(c) == calls' = [calls EXCEPT ![c] = NoCall]

\* createOrVersionSurveyVendor: the request, assigned and not cancelled.
ReadForCreate(c) ==
  /\ calls[c].op = "none"
  /\ vendor # NoVendor
  /\ status # "CANCELLED"
  /\ Hold(c, "creating", NoSurvey, "DRAFT", "DRAFT", 0)

\* ... then, in a query of its own, the surveys: no draft, and the latest.
DraftsAllowed == TRUE
NoDraft == Drafts = {}

ReadLatest(c) ==
  /\ calls[c].op = "creating"
  /\ NoDraft
  /\ \/ /\ \A s \in Surveys : ~Exists(s)
        /\ Hold(c, "create", NoSurvey, "DRAFT", "SUPERSEDED", 0)
     \/ \E s \in Surveys :
          /\ Latest(s)
          /\ Hold(c, "create", s, surveys[s].status, "SUPERSEDED",
                  surveys[s].revision)

\* ... then the transaction: the latest one read is superseded, by its own
\* transition, and the next revision starts as a draft.
Superseded == {"SUBMITTED", "APPROVED", "REJECTED"}

RevisionSkipped(latest) == latest + 2
NextRevision(latest) == latest + 1

CommitCreate(c) ==
  /\ calls[c].op = "create"
  /\ \E new \in Surveys :
       /\ ~Exists(new)
       /\ surveys' =
            [s \in Surveys |->
               IF s = new
                 THEN [ status |-> "DRAFT",
                        revision |-> NextRevision(calls[c].revision) ]
               ELSE IF s = calls[c].survey /\ calls[c].from \in Superseded
                 THEN [ status |-> "SUPERSEDED",
                        revision |-> surveys[s].revision ]
               ELSE surveys[s]]
  /\ Finish(c)
  /\ UNCHANGED row

\* submitSurveyVendor, up to the transaction.
ReadForSubmit(c, s) ==
  /\ calls[c].op = "none"
  /\ surveys[s].status = "DRAFT"
  /\ Hold(c, "transition", s, "DRAFT", "SUBMITTED", surveys[s].revision)

\* reviewSurveyAdmin, up to the transaction.  The decision may be any status
\* the table has a way to from SUBMITTED.
AnySurvey(s) == Exists(s)
Reviewable(s) == surveys[s].status = "SUBMITTED"

ReadForReview(c, s, decision) ==
  /\ calls[c].op = "none"
  /\ Reviewable(s)
  /\ Hold(c, "transition", s, "SUBMITTED", decision, surveys[s].revision)

\* The request's status after a survey's transition.
RejectedReopens(to) ==
  IF to = "REJECTED" THEN status' = "ASSIGNED" /\ held' = held \cup {status'}
                          /\ UNCHANGED <<vendor, version>>
  ELSE UNCHANGED row
SyncRequest(to) ==
  IF to = "SUBMITTED" THEN DocumentSync("SURVEY_SUBMITTED")
  ELSE IF to = "APPROVED" THEN DocumentSync("SURVEY_APPROVED")
  ELSE UNCHANGED row

\* The WHERE clause of the survey's UPDATE, besides the id.
RevisionMatches(s, expected) == surveys[s].revision = expected

\* The status the UPDATE stores.
StatusKept(from, to) == from
NewStatus(from, to) == to

\* SurveyStateService.transitionStatus.
CommitTransition(c) ==
  LET s == calls[c].survey
  IN /\ calls[c].op = "transition"
     /\ calls[c].to \in SurveyTransitions[calls[c].from]
     /\ RevisionMatches(s, calls[c].revision)
     /\ surveys' = [surveys EXCEPT ![s] =
                      [ status |-> NewStatus(calls[c].from, calls[c].to),
                        revision |-> @.revision ]]
     /\ SyncRequest(calls[c].to)
     /\ Finish(c)

\* An invocation ends without writing: a check or a validation threw, the
\* database failed, the process stopped.
Abort(c) ==
  /\ calls[c].op # "none"
  /\ Finish(c)
  /\ UNCHANGED <<row, surveys>>

SurveyStep(c) ==
  \/ ReadForCreate(c) \/ ReadLatest(c) \/ CommitCreate(c)
  \/ CommitTransition(c) \/ Abort(c)
  \/ \E s \in Surveys :
       \/ ReadForSubmit(c, s)
       \/ \E decision \in SurveyStatuses : ReadForReview(c, s, decision)

\* The rest of the backend: versioned writes and the estimates' status.
Outside ==
  /\ Transition \/ Unassign \/ DocumentSync("AWAITING_APPROVAL")
  /\ UNCHANGED surveyVars

Next == (\E c \in Calls : SurveyStep(c)) \/ Outside

Spec == Init /\ [][Next]_vars

-----------------------------------------------------------------------------
\* The revisions of a request's surveys have no gap, also when two creations
\* take the same number: every revision above 1 has a predecessor.
RevisionsHaveNoGaps ==
  \A s \in Surveys :
    Exists(s) => \/ surveys[s].revision = 1
                 \/ \E x \in Surveys :
                      /\ Exists(x)
                      /\ surveys[x].revision + 1 = surveys[s].revision

\* Two drafts at once come only from creations that raced: each draft but the
\* first takes a creation that looked before the first one existed, so drafts
\* and creations under way are never more than the invocations there can be.
DraftsOnlyByRacing ==
  Cardinality(Drafts) + Cardinality({c \in Calls : calls[c].op = "create"})
    <= Cardinality(Calls)

\* A draft can only be submitted: no review, and no supersession by the next
\* revision, reaches it, however old the snapshot they were decided on.
DraftsAreOnlySubmitted ==
  [][ \A s \in Surveys :
        surveys[s].status = "DRAFT"
          => surveys'[s].status \in {"DRAFT", "SUBMITTED"} ]_vars

\* A request is in a survey status only once a survey of it was submitted,
\* although documents, admins and the other handlers all move it.
SurveyedRequestsHaveSurvey ==
  status \in {"SURVEY_SUBMITTED", "SURVEY_APPROVED", "ESTIMATE_CREATED"}
    => \E s \in Surveys : PastDraft(s)

=============================================================================
