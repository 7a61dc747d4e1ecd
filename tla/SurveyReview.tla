---------------------------- MODULE SurveyReview ----------------------------
(***************************************************************************)
(* The page of one technical survey in the administrators' application,    *)
(* above the survey's row: it reads the survey, offers to review it while  *)
(* it is submitted, posts decisions and notes, and reads the survey again  *)
(* when a post is acknowledged, as the page of a request does.             *)
(*                                                                         *)
(* The review is confirmed in a dialog that stays open until the survey    *)
(* and its versions have been read again, whatever the page is told        *)
(* meanwhile.  A post names no version; the backend looks at the status    *)
(* before it writes, and never at a version that would change.             *)
(***************************************************************************)
EXTENDS StatusMachines, Naturals

CONSTANTS
  SurveyReads,  \* bound: reads of the survey under way at once
  Decisions,    \* bound: posts under way at once
  NoDecision,   \* a read no post waits for
  MaxChanges    \* bound: changes of the survey's status

ASSUME MaxChangesAssumption == MaxChanges \in Nat

VARIABLES
  survey,         \* the survey's status, and how often it has changed
  told,           \* the survey the page shows
  failed,         \* the page shows an error instead
  dialog,         \* the review dialog: what was shown when it was opened
  queries,        \* reads under way
  decisions,      \* posts under way, until the page has read the survey again
  acknowledged,   \* auxiliary: the newest change acknowledged to this page
  doubled         \* auxiliary: the last read was begun beside another one

reviewVars ==
  <<survey, told, failed, dialog, queries, decisions, acknowledged, doubled>>

Surveyed == [ status : SurveyStatuses, changes : 0..MaxChanges ]

\* survey = null; a dialog that is not open.
Unread == [ status |-> "NONE", changes |-> 0 ]

QueryStates == [ at : {"none", "sent", "answered"}, row : Surveyed \cup {Unread},
                 post : Decisions \cup {NoDecision} ]
NoQuery == [ at |-> "none", row |-> Unread, post |-> NoDecision ]

DecisionStates ==
  [ at       : {"idle", "posted", "checked", "done", "refused", "refetching", "closing"},
    form     : {"none", "review", "note"},   \* whose button it keeps disabled
    decision : {"APPROVED", "REJECTED", "NONE"},
    seen     : Surveyed \cup {Unread},       \* auxiliary: what the dialog is about
    wrote    : 0..MaxChanges ]               \* the change that is done
Unposted == [ at |-> "idle", form |-> "none", decision |-> "NONE", seen |-> Unread,
              wrote |-> 0 ]

ReviewTypeOK ==
  /\ {survey, told, dialog} \subseteq Surveyed \cup {Unread}
  /\ failed \in BOOLEAN
  /\ queries \in [SurveyReads -> QueryStates]
  /\ decisions \in [Decisions -> DecisionStates]
  /\ acknowledged \in 0..MaxChanges
  /\ doubled \in BOOLEAN

\* The page is not open.
ReviewInit ==
  /\ survey = Unread /\ told = Unread /\ dialog = Unread
  /\ failed = FALSE
  /\ queries = [q \in SurveyReads |-> NoQuery]
  /\ decisions = [d \in Decisions |-> Unposted]
  /\ acknowledged = 0
  /\ doubled = FALSE

-----------------------------------------------------------------------------
QueryUnderWay == \E q \in SurveyReads : queries[q].at # "none"

fetchSurvey(post) ==
  /\ \E q \in SurveyReads :
       /\ queries[q].at = "none"
       /\ queries' = [queries EXCEPT ![q] = [NoQuery EXCEPT !.at = "sent", !.post = post]]
  /\ failed' = FALSE
  /\ doubled' = QueryUnderWay

\* The page of one survey is opened.
OpenSurvey ==
  /\ fetchSurvey(NoDecision)
  /\ survey' \in [ status : SurveyStatuses, changes : {0} ]
  /\ UNCHANGED <<told, dialog, decisions, acknowledged>>

RetrySurvey ==
  /\ failed
  /\ fetchSurvey(NoDecision)
  /\ UNCHANGED <<survey, told, dialog, decisions, acknowledged>>

ServeSurvey(q) ==
  /\ queries[q].at = "sent"
  /\ queries' = [queries EXCEPT ![q].at = "answered", ![q].row = survey]
  /\ UNCHANGED <<survey, told, failed, dialog, decisions, acknowledged, doubled>>

\* The post that waited for this read: a note is over, a review also waits for
\* the versions, which are read beside the survey.
Waited(q) ==
  [d \in Decisions |->
     IF queries[q].post # d THEN decisions[d]
     ELSE IF decisions[d].form = "note" THEN Unposted
     ELSE [decisions[d] EXCEPT !.at = "closing"]]

ShowSurvey(q) ==
  /\ queries[q].at = "answered"
  /\ told' = queries[q].row
  /\ decisions' = Waited(q)
  /\ queries' = [queries EXCEPT ![q] = NoQuery]
  /\ UNCHANGED <<survey, failed, dialog, acknowledged, doubled>>

\* An error takes the place of the page.  The dialog comes back with it, if it
\* was open, but not the button it had disabled; the notes' flag is the page's.
Forgotten(post) == IF post.form = "review" THEN [post EXCEPT !.form = "none"] ELSE post

ShowSurveyError(q) ==
  /\ queries[q].at # "none"
  /\ failed' = TRUE
  /\ decisions' = [d \in Decisions |-> Forgotten(Waited(q)[d])]
  /\ queries' = [queries EXCEPT ![q] = NoQuery]
  /\ UNCHANGED <<survey, told, dialog, acknowledged, doubled>>

-----------------------------------------------------------------------------
Shown == told # Unread /\ ~failed

\* The header's buttons.
handleOpenReviewModal ==
  /\ Shown /\ dialog = Unread
  /\ told.status = "SUBMITTED"
  /\ dialog' = told
  /\ UNCHANGED <<survey, told, failed, queries, decisions, acknowledged, doubled>>

\* The dialog is dismissed; its cross does so even while its post is under way.
CloseDialog ==
  /\ Shown /\ dialog # Unread
  /\ dialog' = Unread
  /\ UNCHANGED <<survey, told, failed, queries, decisions, acknowledged, doubled>>

PostDecision(form, decision) ==
  /\ Shown
  /\ \A d \in Decisions : decisions[d].form # form
  /\ \E d \in Decisions :
       /\ decisions[d].at = "idle"
       /\ decisions' = [decisions EXCEPT ![d] =
            [ at |-> "posted", form |-> form, decision |-> decision,
              seen |-> IF form = "review" THEN dialog ELSE Unread, wrote |-> 0 ]]
  /\ UNCHANGED <<survey, told, failed, dialog, queries, acknowledged, doubled>>

handleConfirmReview ==
  /\ dialog # Unread
  /\ \E decision \in {"APPROVED", "REJECTED"} : PostDecision("review", decision)

\* The notes lie under the dialog.
handleAddSurveyNote ==
  /\ dialog = Unread
  /\ PostDecision("note", "NONE")

-----------------------------------------------------------------------------
IsReview(d) == decisions[d].decision # "NONE"

\* reviewSurveyAdmin: the check, before the transaction ...
CheckReview(d) ==
  /\ decisions[d].at = "posted" /\ IsReview(d)
  /\ decisions' = [decisions EXCEPT ![d].at =
                     IF survey.status = "SUBMITTED" THEN "checked" ELSE "refused"]
  /\ UNCHANGED <<survey, told, failed, dialog, queries, acknowledged, doubled>>

\* ... and the write, for which the status need no longer be the same.
CommitReview(d) ==
  /\ decisions[d].at = "checked" /\ survey.changes < MaxChanges
  /\ survey' = [ status |-> decisions[d].decision, changes |-> survey.changes + 1 ]
  /\ decisions' = [decisions EXCEPT ![d].at = "done", ![d].wrote = survey.changes + 1]
  /\ UNCHANGED <<told, failed, dialog, queries, acknowledged, doubled>>

addSurveyCommentAdmin(d) ==
  /\ decisions[d].at = "posted" /\ ~IsReview(d)
  /\ decisions' = [decisions EXCEPT ![d].at = "done"]
  /\ UNCHANGED <<survey, told, failed, dialog, queries, acknowledged, doubled>>

\* The post is acknowledged, and the survey read again.
AcknowledgeReview(d) ==
  /\ decisions[d].at = "done"
  /\ fetchSurvey(d)
  /\ decisions' = [decisions EXCEPT ![d].at = "refetching"]
  /\ acknowledged' = IF decisions[d].wrote > acknowledged THEN decisions[d].wrote
                     ELSE acknowledged
  /\ UNCHANGED <<survey, told, dialog>>

\* The versions are there too: the dialog is closed, whatever it is about by now.
VersionsRead(d) ==
  /\ decisions[d].at = "closing"
  /\ decisions' = [decisions EXCEPT ![d] = Unposted]
  /\ dialog' = Unread
  /\ UNCHANGED <<survey, told, failed, queries, acknowledged, doubled>>

\* A refusal, or an error on the way, is shown in the form; nothing is read again.
FailDecision(d) ==
  /\ decisions[d].at \in {"posted", "checked", "done", "refused"}
  /\ decisions' = [decisions EXCEPT ![d] = Unposted]
  /\ UNCHANGED <<survey, told, failed, dialog, queries, acknowledged, doubled>>

\* The vendor submits and revises, and other administrators review: as the table
\* says, or on what they saw earlier.
OutsideReview ==
  /\ survey.changes < MaxChanges
  /\ \E to \in SurveyTransitions[survey.status]
                 \cup (IF survey.status = "DRAFT" THEN {} ELSE {"APPROVED", "REJECTED"}) :
       survey' = [ status |-> to, changes |-> survey.changes + 1 ]
  /\ UNCHANGED <<told, failed, dialog, queries, decisions, acknowledged, doubled>>

ReviewNext ==
  \/ RetrySurvey \/ handleOpenReviewModal \/ CloseDialog
  \/ handleConfirmReview \/ handleAddSurveyNote \/ OutsideReview
  \/ \E q \in SurveyReads : ServeSurvey(q) \/ ShowSurvey(q) \/ ShowSurveyError(q)
  \/ \E d \in Decisions :
       \/ CheckReview(d) \/ CommitReview(d) \/ addSurveyCommentAdmin(d)
       \/ AcknowledgeReview(d) \/ VersionsRead(d) \/ FailDecision(d)

-----------------------------------------------------------------------------
\* What the page of a request promises: an acknowledged review is shown once the
\* page is at rest, unless reads overlapped,
ReviewsAreShown ==
  ~QueryUnderWay /\ ~failed /\ ~doubled => told.changes >= acknowledged

\* and a review is refused only if the survey has changed since the page that
\* offered the review was told of it.
RefusedReviews(d) == decisions[d].at = "posted" /\ decisions'[d].at = "refused"
ReviewsMisfireOnlyWhenStale ==
  [][ \A d \in Decisions : RefusedReviews(d) => decisions[d].seen # survey ]_reviewVars

=============================================================================
