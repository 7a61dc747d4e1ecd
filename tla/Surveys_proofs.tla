--------------------------- MODULE Surveys_proofs ---------------------------
(***************************************************************************)
(* Surveys, the inspections submitted with them and the quotations that    *)
(* rest on them, for any number of vendors, surveys, estimates, items and  *)
(* invocations.                                                            *)
(*                                                                         *)
(* The comparison of versions proves nothing here, since it never fails.   *)
(* What holds in spite of it rests on two facts that no later step undoes: *)
(* a survey that was submitted never becomes a draft again, and its        *)
(* revision number never changes.  A snapshot of them stays true however   *)
(* old it is (SnapshotHolds).                                              *)
(***************************************************************************)
EXTENDS Documents, QuotedSurveys, RequestRow_proofs, FiniteSetTheorems

USE SurveysAssumption, CallsAssumption

LEMMA SurveyTableTyped ==
  /\ SurveyStatuses = {"DRAFT", "SUBMITTED", "APPROVED", "REJECTED", "SUPERSEDED"}
  /\ \A s \in SurveyStatuses : SurveyTransitions[s] \subseteq SurveyStatuses
  /\ SurveyTransitions["DRAFT"] = {"SUBMITTED"}
  /\ SurveyTransitions["SUBMITTED"] = {"APPROVED", "REJECTED", "SUPERSEDED"}
<1>1. SurveyStatuses = {"DRAFT", "SUBMITTED", "APPROVED", "REJECTED", "SUPERSEDED"}
  BY DEF SurveyStatuses, SurveyTransitions
<1> QED
  BY <1>1 DEF SurveyTransitions

\* What stays true of the survey an invocation has read.
SnapshotHolds(call) ==
  /\ call.op = "transition" =>
       /\ call.survey \in Surveys
       /\ Exists(call.survey)
       /\ call.from \in {"DRAFT", "SUBMITTED"}
       /\ call.from = "SUBMITTED" => PastDraft(call.survey)
  /\ call.op = "create" =>
       \/ call.survey = NoSurvey /\ call.revision = 0
       \/ /\ call.survey \in Surveys
          /\ PastDraft(call.survey)
          /\ call.revision = surveys[call.survey].revision

\* The statuses from which, or in which, a request is being surveyed.
SurveyPhase ==
  {"SURVEY_PENDING", "SURVEY_SUBMITTED", "SURVEY_APPROVED", "ESTIMATE_CREATED"}

\* A request has been surveyed at the present version only after a submission.
PhaseHolds ==
  /\ "SURVEY_PENDING" \notin held
  /\ held \cap SurveyPhase # {} => \E s \in Surveys : PastDraft(s)

\* The inductive invariant.
IInv ==
  /\ TypeOK
  /\ \A c \in Calls : SnapshotHolds(calls[c])
  /\ PhaseHolds
  /\ RevisionsHaveNoGaps

-----------------------------------------------------------------------------
LEMMA InitIInv == Init => IInv
BY RequestTableTyped, SurveyTableTyped, MaxVersionAssumption
   DEF Init, RowInit, IInv, TypeOK, RowTypeOK, Assignable, SurveyRows, Unused,
       CallStates, NoCall, SnapshotHolds, PhaseHolds, SurveyPhase,
       RevisionsHaveNoGaps, Exists

\* What no step undoes.
Kept(s) ==
  /\ Exists(s) => /\ Exists(s)'
                  /\ surveys'[s].revision = surveys[s].revision
  /\ PastDraft(s) => PastDraft(s)'
  /\ surveys[s].status = "DRAFT" => surveys'[s].status \in {"DRAFT", "SUBMITTED"}

\* A survey that appears has the number 1 or the successor of another's.
Numbered(s) ==
  ~Exists(s) /\ Exists(s)' =>
    \/ surveys'[s].revision = 1
    \/ \E x \in Surveys : /\ Exists(x)
                          /\ surveys'[s].revision = surveys[x].revision + 1

SurveysMove ==
  /\ surveys' \in [Surveys -> SurveyRows]
  /\ \A s \in Surveys : Kept(s) /\ Numbered(s)

LEMMA CreationMovesSurveys ==
  ASSUME IInv, NEW c \in Calls, CommitCreate(c)
  PROVE  SurveysMove
<1>1. PICK new \in Surveys :
        /\ ~Exists(new)
        /\ surveys' =
             [s \in Surveys |->
                IF s = new
                  THEN [ status |-> "DRAFT",
                         revision |-> NextRevision(calls[c].revision) ]
                ELSE IF s = calls[c].survey /\ calls[c].from \in Superseded
                  THEN [ status |-> "SUPERSEDED",
                         revision |-> surveys[s].revision ]
                ELSE surveys[s]]
  BY DEF CommitCreate
<1>2. /\ calls[c].op = "create"
      /\ SnapshotHolds(calls[c])
      /\ calls[c].revision \in Nat
  BY DEF CommitCreate, IInv, TypeOK, CallStates
<1>3. surveys \in [Surveys -> SurveyRows]
  BY DEF IInv, TypeOK
<1>4. surveys' \in [Surveys -> SurveyRows]
  BY <1>1, <1>2, <1>3, SurveyTableTyped DEF SurveyRows, NextRevision
<1>5. ASSUME NEW s \in Surveys
      PROVE  Kept(s)
  BY <1>1, <1>2, <1>3 DEF Kept, Exists, PastDraft, SnapshotHolds
<1>6. ASSUME NEW s \in Surveys
      PROVE  Numbered(s)
  BY <1>1, <1>2, <1>3
     DEF Numbered, Exists, PastDraft, SnapshotHolds, NextRevision
<1> QED
  BY <1>4, <1>5, <1>6 DEF SurveysMove

LEMMA TransitionMovesSurveys ==
  ASSUME IInv, NEW c \in Calls, CommitTransition(c)
  PROVE  /\ SurveysMove
         /\ calls[c].survey \in Surveys
         /\ surveys'[calls[c].survey].status \notin {"NONE", "DRAFT"}
         /\ \A s \in Surveys : Exists(s)' => Exists(s)
<1> DEFINE s == calls[c].survey
           to == calls[c].to
<1>1. /\ s \in Surveys
      /\ Exists(s)
      /\ calls[c].from \in {"DRAFT", "SUBMITTED"}
      /\ calls[c].from = "SUBMITTED" => PastDraft(s)
      /\ to \in SurveyTransitions[calls[c].from]
  BY DEF CommitTransition, IInv, SnapshotHolds
<1>2. /\ to \in SurveyStatuses \ {"DRAFT"}
      /\ calls[c].from = "DRAFT" => to = "SUBMITTED"
  BY <1>1, SurveyTableTyped
<1>3. surveys' = [surveys EXCEPT ![s] =
                    [ status |-> to, revision |-> surveys[s].revision ]]
  BY <1>1 DEF CommitTransition, NewStatus, IInv, TypeOK
<1>4. surveys \in [Surveys -> SurveyRows]
  BY DEF IInv, TypeOK
<1>5. surveys' \in [Surveys -> SurveyRows]
  BY <1>1, <1>2, <1>3, <1>4 DEF SurveyRows
<1>6. /\ surveys'[s].status \notin {"NONE", "DRAFT"}
      /\ \A x \in Surveys : Exists(x)' => Exists(x)
  BY <1>1, <1>2, <1>3, <1>4, SurveyTableTyped DEF PastDraft, Exists
<1>7. ASSUME NEW x \in Surveys
      PROVE  Kept(x)
  BY <1>1, <1>2, <1>3, <1>4, SurveyTableTyped DEF Kept, Exists, PastDraft
<1> QED
  BY <1>1, <1>5, <1>6, <1>7 DEF SurveysMove, Numbered

LEMMA OtherStepsKeepSurveys ==
  ASSUME IInv, [Next]_vars,
         \A c \in Calls : ~CommitCreate(c) /\ ~CommitTransition(c)
  PROVE  surveys' = surveys
BY DEF Next, vars, SurveyStep, ReadForCreate, ReadLatest, ReadForSubmit,
       ReadForReview, Abort, Hold, Outside, surveyVars

LEMMA SurveysMoveForward == IInv /\ [Next]_vars => SurveysMove
<1> SUFFICES ASSUME IInv, [Next]_vars
             PROVE  SurveysMove
  OBVIOUS
<1>1. CASE surveys' = surveys
  BY <1>1 DEF SurveysMove, Kept, Numbered, Exists, PastDraft, IInv, TypeOK
<1> QED
  BY <1>1, CreationMovesSurveys, TransitionMovesSurveys, OtherStepsKeepSurveys

-----------------------------------------------------------------------------
\* Every step on the request is a step of the abstract row.
LEMMA StepsImplementRow == IInv /\ [Next]_vars => [RowNext]_row
<1> SUFFICES ASSUME IInv, [Next]_vars
             PROVE  [RowNext]_row
  OBVIOUS
<1>1. ASSUME NEW c \in Calls, CommitTransition(c)
      PROVE  [RowNext]_row
  BY <1>1 DEF CommitTransition, SyncRequest, RowNext, DocumentStatuses
<1>2. ASSUME Outside
      PROVE  RowNext
  BY <1>2 DEF Outside, RowNext, DocumentStatuses
<1> QED
  BY <1>1, <1>2 DEF Next, SurveyStep, vars, row, Hold, ReadForCreate, ReadLatest,
                    CommitCreate, ReadForSubmit, ReadForReview, Abort

LEMMA NextPhaseHolds == IInv /\ [Next]_vars => PhaseHolds'
<1> SUFFICES ASSUME IInv, [Next]_vars
             PROVE  PhaseHolds'
  OBVIOUS
<1> USE DEF IInv, PhaseHolds, SurveyPhase
<1>1. (\E s \in Surveys : PastDraft(s)) => \E s \in Surveys : PastDraft(s)'
  BY SurveysMoveForward DEF SurveysMove, Kept
<1>2. held \subseteq RequestStatuses /\ status \in held
  BY DEF TypeOK, RowTypeOK
<1>3. ASSUME NEW from \in held, NEW to,
             CanTransition(from, to), held' = {to}
      PROVE  PhaseHolds'
  <2>1. /\ to # "SURVEY_PENDING"
        /\ to \in SurveyPhase => from \in SurveyPhase
    BY <1>2, <1>3, RequestTableTyped DEF CanTransition, RequestTransitions
  <2> QED
    BY <1>1, <1>3, <2>1
<1>4. CASE Transition
  BY <1>3, <1>4 DEF Transition, VersionedWrite
<1>5. CASE Unassign
  BY <1>5 DEF Unassign, VersionedWrite
<1>6. CASE DocumentSync("AWAITING_APPROVAL")
  BY <1>1, <1>6 DEF DocumentSync
<1>7. ASSUME NEW c \in Calls, CommitTransition(c)
      PROVE  PhaseHolds'
  <2>1. \E s \in Surveys : PastDraft(s)'
    BY <1>7, TransitionMovesSurveys DEF PastDraft
  <2>2. "SURVEY_PENDING" \notin held'
    BY <1>7 DEF CommitTransition, SyncRequest, DocumentSync, row
  <2> QED
    BY <2>1, <2>2
<1>8. CASE UNCHANGED row
  BY <1>1, <1>8 DEF row
<1> QED
  BY <1>4, <1>5, <1>6, <1>7, <1>8
     DEF Next, SurveyStep, Outside, vars, row, Hold, ReadForCreate, ReadLatest,
         CommitCreate, ReadForSubmit, ReadForReview, Abort

LEMMA NextRevisionsHaveNoGaps == IInv /\ [Next]_vars => RevisionsHaveNoGaps'
<1> SUFFICES ASSUME IInv, [Next]_vars, NEW s \in Surveys, Exists(s)'
             PROVE  \/ surveys'[s].revision = 1
                    \/ \E x \in Surveys :
                         /\ Exists(x)'
                         /\ surveys'[x].revision + 1 = surveys'[s].revision
  BY DEF RevisionsHaveNoGaps
<1>1. SurveysMove /\ RevisionsHaveNoGaps
  BY SurveysMoveForward DEF IInv
<1>2. CASE Exists(s)
  BY <1>1, <1>2 DEF SurveysMove, Kept, RevisionsHaveNoGaps
<1>3. CASE ~Exists(s)
  BY <1>1, <1>3 DEF SurveysMove, Kept, Numbered
<1> QED
  BY <1>2, <1>3

-----------------------------------------------------------------------------
\* The steps in which an invocation only reads: what it then holds is true.
Reads(c) ==
  \/ ReadForCreate(c) \/ ReadLatest(c)
  \/ \E s \in Surveys :
       \/ ReadForSubmit(c, s)
       \/ \E decision \in SurveyStatuses : ReadForReview(c, s, decision)

LEMMA ReadsHold ==
  ASSUME IInv, NEW c \in Calls, Reads(c)
  PROVE  /\ UNCHANGED <<row, surveys>>
         /\ \A d \in Calls \ {c} : calls'[d] = calls[d]
         /\ calls' \in [Calls -> CallStates]
         /\ SnapshotHolds(calls'[c])
<1> DEFINE Goal == /\ UNCHANGED <<row, surveys>>
                   /\ \A d \in Calls \ {c} : calls'[d] = calls[d]
                   /\ calls' \in [Calls -> CallStates]
                   /\ SnapshotHolds(calls'[c])
<1> USE SurveyTableTyped
    DEF IInv, TypeOK, CallStates, SurveyRows, SnapshotHolds, Hold, Exists,
        PastDraft
<1>1. CASE ReadForCreate(c)
  BY <1>1 DEF ReadForCreate
<1>2. CASE ReadLatest(c)
  <2>1. CASE Hold(c, "create", NoSurvey, "DRAFT", "SUPERSEDED", 0)
    BY <2>1
  <2>2. ASSUME NEW s \in Surveys, Latest(s), NoDraft,
               Hold(c, "create", s, surveys[s].status, "SUPERSEDED",
                    surveys[s].revision)
        PROVE  Goal
    <3>1. surveys[s].status \in SurveyStatuses \ {"DRAFT"}
      BY <2>2 DEF Latest, NoDraft, Drafts
    <3> QED
      BY <2>2, <3>1
  <2> QED
    BY <1>2, <2>1, <2>2 DEF ReadLatest
<1>3. ASSUME NEW s \in Surveys, ReadForSubmit(c, s)
      PROVE  Goal
  BY <1>3 DEF ReadForSubmit
<1>4. ASSUME NEW s \in Surveys, NEW decision \in SurveyStatuses,
             ReadForReview(c, s, decision)
      PROVE  Goal
  BY <1>4 DEF ReadForReview, Reviewable
<1> QED
  BY <1>1, <1>2, <1>3, <1>4 DEF Reads

\* A snapshot that holds goes on holding.
LEMMA SnapshotsKept ==
  ASSUME IInv, SurveysMove, NEW c \in Calls, calls'[c] = calls[c]
  PROVE  SnapshotHolds(calls[c])'
BY DEF IInv, SnapshotHolds, SurveysMove, Kept, Exists, PastDraft

LEMMA NextCallsHold ==
  IInv /\ [Next]_vars
    => /\ calls' \in [Calls -> CallStates]
       /\ \A c \in Calls : SnapshotHolds(calls[c])'
<1> SUFFICES ASSUME IInv, [Next]_vars
             PROVE  /\ calls' \in [Calls -> CallStates]
                    /\ \A c \in Calls : SnapshotHolds(calls[c])'
  OBVIOUS
<1>1. SurveysMove
  BY SurveysMoveForward
<1>2. CASE UNCHANGED calls
  BY <1>1, <1>2, SnapshotsKept DEF IInv, TypeOK
<1>3. ASSUME NEW c \in Calls, Reads(c)
      PROVE  /\ calls' \in [Calls -> CallStates]
             /\ \A d \in Calls : SnapshotHolds(calls[d])'
  <2>1. SnapshotHolds(calls[c])'
    BY <1>3, ReadsHold DEF SnapshotHolds, Exists, PastDraft
  <2>2. ASSUME NEW d \in Calls \ {c}
        PROVE  SnapshotHolds(calls[d])'
    BY <1>1, <1>3, ReadsHold, SnapshotsKept
  <2> QED
    BY <1>3, <2>1, <2>2, ReadsHold
<1>4. ASSUME NEW c \in Calls, Finish(c)
      PROVE  /\ calls' \in [Calls -> CallStates]
             /\ \A d \in Calls : SnapshotHolds(calls[d])'
  <2>1. NoCall \in CallStates
    BY SurveyTableTyped DEF NoCall, CallStates
  <2>2. SnapshotHolds(calls[c])'
    BY <1>4 DEF Finish, SnapshotHolds, NoCall, IInv, TypeOK
  <2>3. ASSUME NEW d \in Calls \ {c}
        PROVE  SnapshotHolds(calls[d])'
    BY <1>1, <1>4, SnapshotsKept DEF Finish, IInv, TypeOK
  <2> QED
    BY <1>4, <2>1, <2>2, <2>3 DEF Finish, IInv, TypeOK
<1> QED
  BY <1>2, <1>3, <1>4
     DEF Next, SurveyStep, Reads, Outside, surveyVars, vars, CommitCreate,
         CommitTransition, Abort

LEMMA IInvInductive == IInv /\ [Next]_vars => IInv'
BY NextCallsHold, NextPhaseHolds, NextRevisionsHaveNoGaps, SurveysMoveForward,
   StepsImplementRow, RowStepTyped
   DEF IInv, TypeOK, SurveysMove

LEMMA Invariance == Spec => []IInv
BY InitIInv, IInvInductive, PTL DEF Spec

-----------------------------------------------------------------------------
\* Type correctness of the surveys, the request and what every invocation holds.
THEOREM TypeCorrect == Spec => []TypeOK
<1>1. IInv => TypeOK
  BY DEF IInv
<1> QED
  BY Invariance, <1>1, PTL

\* The revisions of a request's surveys have no gap, duplicates or not.
THEOREM NoGaps == Spec => []RevisionsHaveNoGaps
<1>1. IInv => RevisionsHaveNoGaps
  BY DEF IInv
<1> QED
  BY Invariance, <1>1, PTL

\* A request is in a survey status only once a survey of it was submitted.
THEOREM SurveyedHaveSurvey == Spec => []SurveyedRequestsHaveSurvey
<1>1. IInv => SurveyedRequestsHaveSurvey
  BY DEF IInv, TypeOK, RowTypeOK, PhaseHolds, SurveyPhase,
         SurveyedRequestsHaveSurvey
<1> QED
  BY Invariance, <1>1, PTL

\* A draft can only be submitted: no review and no supersession reaches it.
THEOREM DraftsOnlySubmitted == Spec => DraftsAreOnlySubmitted
<1>1. IInv /\ [Next]_vars
        => [ \A s \in Surveys :
               surveys[s].status = "DRAFT"
                 => surveys'[s].status \in {"DRAFT", "SUBMITTED"} ]_vars
  BY SurveysMoveForward DEF SurveysMove, Kept
<1> QED
  BY Invariance, <1>1, PTL DEF Spec, DraftsAreOnlySubmitted

\* Surveys implement the abstract row.
THEOREM SurveysImplementRow == Spec => RowSpec
<1>1. Init => RowInit
  BY DEF Init
<1> QED
  BY Invariance, <1>1, StepsImplementRow, PTL DEF Spec, RowSpec

-----------------------------------------------------------------------------
\* The invocations about to create a draft.
Creating == {c \in Calls : calls[c].op = "create"}

LEMMA SetsFinite ==
  /\ IsFiniteSet(Drafts) /\ IsFiniteSet(Drafts')
  /\ IsFiniteSet(Creating) /\ IsFiniteSet(Creating')
  /\ Cardinality(Drafts) \in Nat /\ Cardinality(Drafts') \in Nat
  /\ Cardinality(Creating) \in Nat /\ Cardinality(Creating') \in Nat
  /\ Cardinality(Calls) \in Nat
<1>1. /\ IsFiniteSet(Drafts) /\ IsFiniteSet(Drafts')
      /\ IsFiniteSet(Creating) /\ IsFiniteSet(Creating')
  BY FS_Subset DEF Drafts, Creating
<1> QED
  BY <1>1, FS_CardinalityType

\* Where neither set grows, neither does their sum.
LEMMA NeitherGrows ==
  ASSUME Drafts' \subseteq Drafts, Creating' \subseteq Creating, DraftsOnlyByRacing
  PROVE  DraftsOnlyByRacing'
<1>1. /\ Cardinality(Drafts') <= Cardinality(Drafts)
      /\ Cardinality(Creating') <= Cardinality(Creating)
  BY SetsFinite, FS_Subset
<1> QED
  BY <1>1, SetsFinite DEF DraftsOnlyByRacing, Creating

\* A creation was announced: its draft takes the place of the invocation.
LEMMA CreationTradesPlaces ==
  ASSUME IInv, DraftsOnlyByRacing, NEW c \in Calls, CommitCreate(c)
  PROVE  DraftsOnlyByRacing'
<1>1. c \in Creating /\ Creating' = Creating \ {c}
  BY DEF CommitCreate, Finish, NoCall, Creating, IInv, TypeOK
<1>2. Cardinality(Creating') = Cardinality(Creating) - 1
  BY <1>1, SetsFinite, FS_RemoveElement
<1>3. PICK new \in Surveys : Drafts' \subseteq Drafts \cup {new}
  BY DEF CommitCreate, Drafts
<1>4. /\ IsFiniteSet(Drafts \cup {new})
      /\ Cardinality(Drafts \cup {new}) \in Nat
      /\ Cardinality(Drafts \cup {new}) <= Cardinality(Drafts) + 1
  <2>1. /\ IsFiniteSet(Drafts \cup {new})
        /\ \/ Cardinality(Drafts \cup {new}) = Cardinality(Drafts)
           \/ Cardinality(Drafts \cup {new}) = Cardinality(Drafts) + 1
    BY SetsFinite, FS_AddElement
  <2> QED
    BY <2>1, SetsFinite
<1>5. Cardinality(Drafts') <= Cardinality(Drafts) + 1
  BY <1>3, <1>4, SetsFinite, FS_Subset
<1> QED
  BY <1>2, <1>5, SetsFinite DEF DraftsOnlyByRacing, Creating

\* An invocation that found no draft makes the sum a number of invocations.
LEMMA LookingStartsAnew ==
  ASSUME IInv, NEW c \in Calls, ReadLatest(c)
  PROVE  DraftsOnlyByRacing'
<1>1. Drafts' = {}
  BY DEF ReadLatest, NoDraft, Hold, Drafts
<1>2. Cardinality(Drafts') = 0
  BY <1>1, FS_EmptySet
<1>3. Cardinality(Creating') <= Cardinality(Calls)
  BY FS_Subset DEF Creating
<1> QED
  BY <1>2, <1>3, SetsFinite DEF DraftsOnlyByRacing, Creating

LEMMA NextDraftsOnlyByRacing ==
  IInv /\ DraftsOnlyByRacing /\ [Next]_vars => DraftsOnlyByRacing'
<1> SUFFICES ASSUME IInv, DraftsOnlyByRacing, [Next]_vars
             PROVE  DraftsOnlyByRacing'
  OBVIOUS
<1>1. ASSUME NEW c \in Calls, CommitTransition(c)
      PROVE  DraftsOnlyByRacing'
  <2>1. Drafts' \subseteq Drafts
    <3>1. \A s \in Surveys : PastDraft(s) => PastDraft(s)'
      BY <1>1, TransitionMovesSurveys DEF SurveysMove, Kept
    <3>2. \A s \in Surveys : Exists(s)' => Exists(s)
      BY <1>1, TransitionMovesSurveys
    <3> QED
      BY <3>1, <3>2 DEF Drafts, PastDraft, Exists
  <2>2. Creating' \subseteq Creating
    BY <1>1 DEF CommitTransition, Finish, NoCall, Creating, IInv, TypeOK
  <2> QED
    BY <2>1, <2>2, NeitherGrows
<1>2. ASSUME NEW c \in Calls,
             \/ ReadForCreate(c) \/ Abort(c)
             \/ \E s \in Surveys :
                  \/ ReadForSubmit(c, s)
                  \/ \E decision \in SurveyStatuses :
                       ReadForReview(c, s, decision)
      PROVE  DraftsOnlyByRacing'
  <2>1. surveys' = surveys /\ Creating' \subseteq Creating
    BY <1>2 DEF ReadForCreate, Abort, ReadForSubmit, ReadForReview, Hold, Finish,
                NoCall, Creating, IInv, TypeOK
  <2> QED
    BY <2>1, NeitherGrows DEF Drafts
<1>3. CASE UNCHANGED surveyVars
  BY <1>3, NeitherGrows DEF surveyVars, Drafts, Creating
<1> QED
  BY <1>1, <1>2, <1>3, CreationTradesPlaces, LookingStartsAnew
     DEF Next, SurveyStep, Outside, vars, surveyVars

\* Two drafts at once come only from creations that raced.
THEOREM RacingDrafts == Spec => []DraftsOnlyByRacing
<1>1. Init => DraftsOnlyByRacing
  <2> SUFFICES ASSUME Init
               PROVE  DraftsOnlyByRacing
    OBVIOUS
  <2>1. Drafts = {} /\ Creating = {}
    BY DEF Init, Unused, NoCall, Drafts, Creating
  <2> QED
    BY <2>1, FS_EmptySet, SetsFinite DEF DraftsOnlyByRacing, Creating
<1> QED
  BY Invariance, <1>1, NextDraftsOnlyByRacing, PTL DEF Spec

-----------------------------------------------------------------------------
(***************************************************************************)
(* Inspections.  While nothing was written to a draft after a submission   *)
(* had validated it, the validation still holds: a submission is held only *)
(* by the handler that validated, and a draft's content changes only in a  *)
(* write.                                                                  *)
(***************************************************************************)
ValidationsHold ==
  \A c \in Calls :
    Submitting(c) => \/ c \in outdated
                     \/ PastDraft(calls[c].survey)
                     \/ content[calls[c].survey] = "complete"

\* The inductive invariant of the surveys and what they contain.
InspectionIInv == IInv /\ InspectionTypeOK /\ ValidationsHold

LEMMA InspectionStepsSurveys == [InspectionNext]_inspectionVars => [Next]_vars
BY DEF InspectionNext, inspectionVars, SurveysStep, CreateSurveyItem,
       UpdateSurveyItem, DeleteSurveyItem, UploadPhoto, DeletePhoto, Write

\* What is proved of the surveys holds of them with what they contain.
LEMMA InspectionsAreSurveys == InspectionSpec => Spec
<1>1. InspectionInit => Init
  BY DEF InspectionInit
<1> QED
  BY <1>1, InspectionStepsSurveys, PTL DEF InspectionSpec, Spec

\* A submission under way was decided on before, or is decided on now by an
\* invocation that held none.
LEMMA SubmissionsBegin ==
  ASSUME IInv, Next, NEW c \in Calls, Submitting(c)'
  PROVE  calls'[c] = calls[c] \/ ~Submitting(c)
<1>1. ASSUME NEW d \in Calls, Reads(d)
      PROVE  calls'[c] = calls[c] \/ ~Submitting(c)
  <2>1. CASE d = c
    BY <1>1, <2>1 DEF Reads, ReadForCreate, ReadLatest, ReadForSubmit,
                      ReadForReview, Submitting
  <2> QED
    BY <1>1, <2>1, ReadsHold
<1>2. ASSUME NEW d \in Calls, Finish(d)
      PROVE  calls'[c] = calls[c]
  BY <1>2 DEF Finish, NoCall, Submitting, IInv, TypeOK
<1> QED
  BY <1>1, <1>2
     DEF Next, SurveyStep, Reads, Outside, surveyVars, CommitCreate,
         CommitTransition, Abort

LEMMA SurveysStepValidates ==
  ASSUME InspectionIInv, SurveysStep
  PROVE  InspectionTypeOK' /\ ValidationsHold'
<1> USE DEF InspectionIInv
<1>1. IInv' /\ SurveysMove
  BY IInvInductive, SurveysMoveForward DEF SurveysStep
<1>2. InspectionTypeOK'
  BY <1>1 DEF SurveysStep, InspectionTypeOK, IInv, Contents
<1>3. ASSUME NEW c \in Calls, Submitting(c)', c \notin outdated'
      PROVE  \/ PastDraft(calls[c].survey)'
             \/ content'[calls'[c].survey] = "complete"
  <2>1. PICK s \in Surveys : s = calls'[c].survey /\ Exists(s)'
    BY <1>1, <1>3 DEF IInv, SnapshotHolds, Submitting
  <2>2. \/ Submittable(s)
        \/ calls'[c] = calls[c] /\ PastDraft(s)
    <3>1. CASE calls'[c] = calls[c]
      BY <1>3, <2>1, <3>1
         DEF SurveysStep, Submitting, ValidationsHold, Submittable
    <3>2. CASE ~Submitting(c)
      BY <1>3, <2>1, <3>2 DEF SurveysStep
    <3> QED
      BY <1>3, <3>1, <3>2, SubmissionsBegin DEF SurveysStep
  <2>3. PastDraft(s) => PastDraft(s)'
    BY <1>1 DEF SurveysMove, Kept
  <2>4. surveys'[s].status = "DRAFT" => content'[s] = content[s]
    BY DEF SurveysStep
  <2> QED
    BY <2>1, <2>2, <2>3, <2>4 DEF Submittable, PastDraft, Exists
<1> QED
  BY <1>2, <1>3 DEF ValidationsHold

LEMMA WritesOutdate ==
  ASSUME InspectionIInv, NEW s \in Surveys, NEW contents \in SUBSET Contents,
         Write(s, contents)
  PROVE  InspectionTypeOK' /\ ValidationsHold'
<1> USE DEF InspectionIInv, Write
<1>1. InspectionTypeOK'
  BY DEF InspectionTypeOK, TypeOK, RowTypeOK, CallStates, vars
<1>2. ASSUME NEW c \in Calls, Submitting(c)', c \notin outdated'
      PROVE  \/ PastDraft(calls[c].survey)'
             \/ content'[calls'[c].survey] = "complete"
  <2>1. calls' = calls /\ surveys' = surveys /\ Submitting(c)
    BY <1>2 DEF vars, Submitting
  <2>2. calls[c].survey # s /\ c \notin outdated
    BY <1>2, <2>1
  <2> QED
    BY <2>1, <2>2 DEF ValidationsHold, PastDraft, InspectionTypeOK
<1> QED
  BY <1>1, <1>2 DEF ValidationsHold

LEMMA InspectionInvariance == InspectionSpec => []InspectionIInv
<1>1. InspectionInit => InspectionIInv
  BY InitIInv
     DEF InspectionInit, InspectionIInv, InspectionTypeOK, ValidationsHold,
         Contents, Submitting, Init, NoCall, IInv
<1>2. InspectionIInv /\ [InspectionNext]_inspectionVars => InspectionIInv'
  <2> SUFFICES ASSUME InspectionIInv, [InspectionNext]_inspectionVars
               PROVE  InspectionIInv'
    OBVIOUS
  <2>1. IInv'
    BY InspectionStepsSurveys, IInvInductive DEF InspectionIInv
  <2>2. CASE SurveysStep
    BY <2>1, <2>2, SurveysStepValidates DEF InspectionIInv
  <2>3. ASSUME NEW s \in Surveys, NEW contents \in SUBSET Contents,
               Write(s, contents)
        PROVE  InspectionIInv'
    BY <2>1, <2>3, WritesOutdate DEF InspectionIInv
  <2>4. CASE UNCHANGED inspectionVars
    BY <2>1, <2>4
       DEF inspectionVars, vars, InspectionIInv, InspectionTypeOK, IInv,
           ValidationsHold, Submitting, PastDraft
  <2> QED
    BY <2>2, <2>3, <2>4
       DEF InspectionNext, CreateSurveyItem, UpdateSurveyItem,
           DeleteSurveyItem, UploadPhoto, DeletePhoto, Contents
<1> QED
  BY <1>1, <1>2, PTL DEF InspectionSpec

\* Type correctness of the surveys together with what they contain.
THEOREM InspectionTypeCorrect == InspectionSpec => []InspectionTypeOK
<1>1. InspectionIInv => InspectionTypeOK
  BY DEF InspectionIInv
<1> QED
  BY InspectionInvariance, <1>1, PTL

\* No incomplete inspection is submitted, unless it was written to between the
\* validation and the commit.
THEOREM SurveysSubmittedComplete == InspectionSpec => SurveysAreSubmittedComplete
<1> DEFINE Excused(s) == \/ content[s] = "complete"
                         \/ \E c \in outdated :
                              calls[c].survey = s /\ calls'[c].op = "none"
           A == \A s \in Surveys :
                  surveys[s].status = "DRAFT" /\ surveys'[s].status = "SUBMITTED"
                    => Excused(s)
<1>1. InspectionIInv /\ [InspectionNext]_inspectionVars => [A]_inspectionVars
  <2> SUFFICES ASSUME InspectionIInv, [InspectionNext]_inspectionVars,
                      NEW s \in Surveys,
                      surveys[s].status = "DRAFT",
                      surveys'[s].status = "SUBMITTED"
               PROVE  Excused(s)
    OBVIOUS
  <2>1. IInv /\ [Next]_vars
    BY InspectionStepsSurveys DEF InspectionIInv
  <2>2. ASSUME NEW c \in Calls, CommitCreate(c)
        PROVE  FALSE
    BY <2>1, <2>2 DEF CommitCreate, Exists, IInv, TypeOK
  <2>3. ASSUME NEW c \in Calls, CommitTransition(c)
        PROVE  Excused(s)
    <3>1. calls[c].survey = s /\ calls[c].to = "SUBMITTED"
      BY <2>1, <2>3 DEF CommitTransition, NewStatus, IInv, TypeOK
    <3>2. Submitting(c) /\ ~PastDraft(s)
      BY <2>3, <3>1 DEF CommitTransition, Submitting, PastDraft
    <3>3. calls'[c].op = "none"
      BY <2>1, <2>3 DEF CommitTransition, Finish, NoCall, IInv, TypeOK
    <3> QED
      BY <3>1, <3>2, <3>3 DEF InspectionIInv, ValidationsHold
  <2> QED
    BY <2>1, <2>2, <2>3, OtherStepsKeepSurveys
<1> QED
  BY InspectionInvariance, <1>1, PTL
     DEF InspectionSpec, SurveysAreSubmittedComplete

-----------------------------------------------------------------------------
(***************************************************************************)
(* The quotation.  A submission that no commit has disturbed since it was  *)
(* checked may still rely on the check.                                    *)
(***************************************************************************)
QuotationChecksHold ==
  \A c \in QuotationCalls :
    quotationCalls[c].op = "submit" /\ quotationCalls[c].undisturbed
      => Quotation!Submittable

\* The inductive invariant of the quotation's submissions.  Which fields a
\* handler's state has is all that matters of the others.
QuotationIInv ==
  /\ DOMAIN quotationCalls = QuotationCalls
  /\ \A c \in QuotationCalls : {"op", "undisturbed"} \subseteq DOMAIN quotationCalls[c]
  /\ QuotationChecksHold

\* A handler that begins with a read holds a submission only if it has checked.
LEMMA QuotationReadsCheck ==
  ASSUME QuotationIInv, NEW c \in QuotationCalls, NEW op, NEW i, NEW given, NEW new,
         Quotation!Hold(c, op, i, given, new),
         op = "submit" => Quotation!Submittable
  PROVE  QuotationIInv'
<1>1. /\ UNCHANGED <<items, totals>>
      /\ DOMAIN quotationCalls' = QuotationCalls
      /\ {"op", "undisturbed"} \subseteq DOMAIN quotationCalls'[c]
      /\ quotationCalls'[c].op = op
      /\ \A d \in QuotationCalls \ {c} : quotationCalls'[d] = quotationCalls[d]
  BY DEF Quotation!Hold, Quotation!NoCall, QuotationIInv
<1> QED
  BY <1>1 DEF QuotationIInv, QuotationChecksHold, Quotation!Submittable

\* A handler that commits disturbs every other one.
LEMMA QuotationCommitsDisturb ==
  ASSUME QuotationIInv, NEW c \in QuotationCalls, Quotation!FinishCommitted(c)
  PROVE  QuotationIInv'
BY DEF Quotation!FinishCommitted, Quotation!NoCall, Quotation!Idle,
       QuotationIInv, QuotationChecksHold

LEMMA QuotationStepsCheck ==
  QuotationIInv /\ [Quotation!Next]_Quotation!vars => QuotationIInv'
<1> SUFFICES ASSUME QuotationIInv, [Quotation!Next]_Quotation!vars
             PROVE  QuotationIInv'
  OBVIOUS
<1>1. ASSUME NEW c \in QuotationCalls, Quotation!ReadForUpdate(c)
      PROVE  QuotationIInv'
  <2>1. \/ Quotation!Hold(c, "terms", NoItem, "none", Quotation!NoRow)
        \/ \E new : Quotation!Hold(c, "discount", NoItem, "none", new)
    <3>1. ASSUME NEW d \in Discounts,
                 Quotation!Hold(c, "discount", NoItem, "none",
                                [Quotation!NoRow EXCEPT !.disc = d])
          PROVE  \E new : Quotation!Hold(c, "discount", NoItem, "none", new)
      BY <3>1, Zenon
    <3> QED
      BY <1>1, <3>1 DEF Quotation!ReadForUpdate
  <2> QED
    BY <2>1, QuotationReadsCheck
<1>2. ASSUME NEW c \in QuotationCalls, Quotation!ReadForSubmit(c)
      PROVE  QuotationIInv'
  BY <1>2, QuotationReadsCheck DEF Quotation!ReadForSubmit
<1>3. ASSUME NEW c \in QuotationCalls, NEW i \in Items,
             \/ Quotation!ReadForCreateItem(c, i)
             \/ Quotation!ReadForUpdateItem(c, i)
             \/ Quotation!ReadForDeleteItem(c, i)
      PROVE  QuotationIInv'
  BY <1>3, QuotationReadsCheck
     DEF Quotation!ReadForCreateItem, Quotation!ReadForUpdateItem,
         Quotation!ReadForDeleteItem
<1>4. ASSUME NEW c \in QuotationCalls, Quotation!Recalculate(c)
      PROVE  QuotationIInv'
  <2>1. /\ UNCHANGED <<items, totals>>
        /\ quotationCalls[c].op # "submit"
        /\ \E new, amounts :
             quotationCalls' = [quotationCalls EXCEPT ![c] =
               [quotationCalls[c] EXCEPT !.written = TRUE, !.given = "none",
                                         !.row = new, !.totals = amounts]]
    BY <1>4 DEF Quotation!Recalculate
  <2> QED
    BY <2>1 DEF QuotationIInv, QuotationChecksHold, Quotation!Submittable
<1>5. ASSUME NEW c \in QuotationCalls, Quotation!Abort(c)
      PROVE  QuotationIInv'
  BY <1>5 DEF Quotation!Abort, Quotation!Finish, Quotation!NoCall,
              QuotationIInv, QuotationChecksHold, Quotation!Submittable
<1>6. CASE UNCHANGED Quotation!vars
  BY <1>6 DEF Quotation!vars, QuotationIInv, QuotationChecksHold,
              Quotation!Submittable
<1> QED
  BY <1>1, <1>2, <1>3, <1>4, <1>5, <1>6, QuotationCommitsDisturb
     DEF Quotation!Next, Quotation!Commit, Quotation!CommitSubmit

LEMMA QuotationInvariance == Quotation!Spec => []QuotationIInv
<1>1. Quotation!Init => QuotationIInv
  BY DEF Quotation!Init, Quotation!NoCall, QuotationIInv, QuotationChecksHold
<1> QED
  BY <1>1, QuotationStepsCheck, PTL DEF Quotation!Spec

\* A quotation is submitted with something in it and a price above zero, unless
\* a change is committed between the check and the submission.
THEOREM SubmissionsArePriced == Quotation!Spec => UndisturbedSubmissionsArePriced
<1> DEFINE A == \A c \in QuotationCalls :
                  draft /\ ~draft' /\ quotationCalls[c].op = "submit"
                    /\ quotationCalls'[c].op = "none"
                    /\ quotationCalls[c].undisturbed
                    => (\E i \in Items : items[i].on) /\ totals.total > 0
<1>1. QuotationIInv => [A]_Quotation!vars
  BY DEF QuotationIInv, QuotationChecksHold, Quotation!Submittable
<1> QED
  BY QuotationInvariance, <1>1, PTL
     DEF UndisturbedSubmissionsArePriced,
         Quotation!UndisturbedSubmissionsArePriced

-----------------------------------------------------------------------------
(***************************************************************************)
(* The documents.  A behaviour of both is one of the surveys that may      *)
(* stutter, and one of the quotation that may: each keeps its promises.    *)
(***************************************************************************)
LEMMA DocumentsAreInspections == DocumentsSpec => InspectionSpec
<1>1. DocumentsInit => InspectionInit
  BY DEF DocumentsInit
<1>2. [DocumentsNext]_documentVars => [InspectionNext]_inspectionVars
  BY DEF DocumentsNext, documentVars
<1> QED
  BY <1>1, <1>2, PTL DEF DocumentsSpec, InspectionSpec

LEMMA DocumentsAreQuotations == DocumentsSpec => Quotation!Spec
<1>1. DocumentsInit => Quotation!Init
  BY DEF DocumentsInit
<1>2. [DocumentsNext]_documentVars => [Quotation!Next]_Quotation!vars
  BY DEF DocumentsNext, documentVars, quotationVars, Quotation!vars
<1> QED
  BY <1>1, <1>2, PTL DEF DocumentsSpec, Quotation!Spec

\* Whatever is written at once, no incomplete inspection and no quotation
\* without a price is submitted on a check that still held.
THEOREM DocumentsAreSubmittedChecked ==
  DocumentsSpec => /\ SurveysAreSubmittedComplete
                   /\ UndisturbedSubmissionsArePriced
BY DocumentsAreInspections, DocumentsAreQuotations, SurveysSubmittedComplete,
   SubmissionsArePriced, PTL

-----------------------------------------------------------------------------
(***************************************************************************)
(* The quotation that rests on the surveys.  An estimate's handlers are as *)
(* those of a survey; the surveys of Estimates are these.                  *)
(***************************************************************************)
\* The steps of the surveys, seen from the quotation and from the surveys.
LEMMA SameCreation ==
  ASSUME NEW c \in Calls
  PROVE  Quotes!S!CommitCreate(c) <=> CommitCreate(c)
BY DEF Quotes!S!CommitCreate, CommitCreate, Quotes!S!Exists, Exists,
       Quotes!S!NextRevision, NextRevision, Quotes!S!Superseded, Superseded,
       Quotes!S!Finish, Finish, Quotes!S!NoCall, NoCall, Quotes!S!row, row

LEMMA SameTransition ==
  ASSUME NEW c \in Calls
  PROVE  Quotes!S!CommitTransition(c) <=> CommitTransition(c)
BY DEF Quotes!S!CommitTransition, CommitTransition, Quotes!S!RevisionMatches,
       RevisionMatches, Quotes!S!NewStatus, NewStatus, Quotes!S!SyncRequest, SyncRequest,
       Quotes!S!DocumentSync, DocumentSync, Quotes!S!SurveyTransitions, SurveyTransitions,
       Quotes!S!Finish, Finish, Quotes!S!NoCall, NoCall, Quotes!S!row, row

LEMMA SameReads ==
  ASSUME NEW c \in Calls
  PROVE  /\ Quotes!S!ReadForCreate(c) <=> ReadForCreate(c)
         /\ Quotes!S!ReadLatest(c) <=> ReadLatest(c)
         /\ Quotes!S!Abort(c) <=> Abort(c)
         /\ \A s \in Surveys :
              /\ Quotes!S!ReadForSubmit(c, s) <=> ReadForSubmit(c, s)
              /\ \A decision : Quotes!S!ReadForReview(c, s, decision)
                                 <=> ReadForReview(c, s, decision)
BY DEF Quotes!S!ReadForCreate, ReadForCreate, Quotes!S!ReadLatest, ReadLatest,
       Quotes!S!Abort, Abort, Quotes!S!ReadForSubmit, ReadForSubmit,
       Quotes!S!ReadForReview, ReadForReview, Quotes!S!Reviewable, Reviewable,
       Quotes!S!NoDraft, NoDraft, Quotes!S!Drafts, Drafts, Quotes!S!Latest, Latest,
       Quotes!S!Exists, Exists, Quotes!S!Hold, Hold, Quotes!S!Finish, Finish,
       Quotes!S!NoCall, NoCall, Quotes!S!row, row

LEMMA SameSurveyStep ==
  ASSUME NEW c \in Calls
  PROVE  Quotes!S!SurveyStep(c) <=> SurveyStep(c)
<1>1. Quotes!S!SurveyStatuses = SurveyStatuses
  BY DEF Quotes!S!SurveyStatuses, SurveyStatuses, Quotes!S!SurveyTransitions,
         SurveyTransitions
<1> QED
  BY <1>1, SameCreation, SameTransition, SameReads DEF Quotes!S!SurveyStep, SurveyStep

LEMMA SameBeginning == Quotes!S!Init <=> Init
BY DEF Quotes!S!Init, Init, Quotes!S!RowInit, RowInit, Quotes!S!Unused, Unused,
       Quotes!S!NoCall, NoCall

-----------------------------------------------------------------------------
LEMMA EstimateTableTyped ==
  /\ EstimateStatuses = {"DRAFT", "PENDING_APPROVAL", "APPROVED", "REJECTED",
                         "REVISED", "SUPERSEDED"}
  /\ Quotes!EstimateStatuses = EstimateStatuses
  /\ Quotes!EstimateTransitions = EstimateTransitions
  /\ \A s \in EstimateStatuses : EstimateTransitions[s] \subseteq EstimateStatuses
  /\ EstimateTransitions["DRAFT"] = {"PENDING_APPROVAL"}
  /\ EstimateTransitions["PENDING_APPROVAL"] =
       {"APPROVED", "REJECTED", "SUPERSEDED", "REVISED"}
<1>1. EstimateStatuses = {"DRAFT", "PENDING_APPROVAL", "APPROVED", "REJECTED",
                          "REVISED", "SUPERSEDED"}
  BY DEF EstimateStatuses, EstimateTransitions
<1>2. /\ Quotes!EstimateStatuses = EstimateStatuses
      /\ Quotes!EstimateTransitions = EstimateTransitions
  BY DEF Quotes!EstimateStatuses, EstimateStatuses, Quotes!EstimateTransitions,
         EstimateTransitions
<1> QED
  BY <1>1, <1>2 DEF EstimateTransitions

\* The estimate has been submitted at some time.
Sent(e) == estimates[e].status \notin {"NONE", "DRAFT"}

\* What stays true of the estimate a handler has read: only one that was sent
\* is answered or superseded.
EstimateHolds(call) ==
  /\ call.op = "transition" =>
       /\ call.estimate \in Estimates
       /\ Quotes!Exists(call.estimate)
       /\ call.from \in {"DRAFT", "PENDING_APPROVAL"}
       /\ call.from = "PENDING_APPROVAL" => Sent(call.estimate)
  /\ (call.op = "create" /\ call.estimate \in Estimates
        /\ call.from \in Quotes!Superseded) => Sent(call.estimate)

\* Some survey of the request was submitted.
Surveyed == \E s \in Surveys : PastDraft(s)

\* What rests on a survey: the estimates, the creations that found one
\* approved, and the request's statuses of the quotation at this version.
RestOnSurveys ==
  /\ (\E e \in Estimates : Quotes!Exists(e)) => Surveyed
  /\ (\E c \in EstimateCalls : estimateCalls[c].op \in {"surveyed", "create"})
       => Surveyed
  /\ "AWAITING_APPROVAL" \in held => Surveyed

EstimatesTyped ==
  /\ estimates \in [Estimates -> Quotes!EstimateRows]
  /\ estimateCalls \in [EstimateCalls -> Quotes!CallStates]

\* The inductive invariant of surveys and quotation.
QuotesIInv ==
  /\ IInv
  /\ EstimatesTyped
  /\ \A c \in EstimateCalls : EstimateHolds(estimateCalls[c])
  /\ RestOnSurveys

LEMMA InitQuotesIInv == Quotes!Init => QuotesIInv
<1>1. Quotes!Init => Init
  BY SameBeginning DEF Quotes!Init
<1>2. Init => "AWAITING_APPROVAL" \notin held
  BY DEF Init, RowInit
<1>3. Quotes!NoCall \in Quotes!CallStates /\ Quotes!Unused \in Quotes!EstimateRows
  BY EstimateTableTyped
     DEF Quotes!NoCall, Quotes!CallStates, Quotes!Unused, Quotes!EstimateRows
<1> QED
  BY <1>1, <1>2, <1>3, InitIInv
     DEF Quotes!Init, QuotesIInv, EstimatesTyped, EstimateHolds, RestOnSurveys,
         Quotes!Exists, Quotes!Unused, Quotes!NoCall

\* Every step of surveys and quotation together is one of the surveys alone: an
\* approved estimate is to them a status forced on the request from outside.
LEMMA QuoteStepsAreSurveySteps == [Quotes!Next]_Quotes!vars => [Next]_vars
<1> SUFFICES ASSUME [Quotes!Next]_Quotes!vars
             PROVE  [Next]_vars
  OBVIOUS
<1>1. ASSUME NEW c \in EstimateCalls, Quotes!EstimateStep(c)
      PROVE  [Next]_vars
  <2>1. CASE Quotes!CommitTransition(c)
    BY <2>1 DEF Quotes!CommitTransition, Quotes!SyncRequest, Quotes!DocumentSync,
                Quotes!row, Quotes!surveyVars, Next, Outside, DocumentSync,
                surveyVars, vars
  <2>2. CASE Quotes!CommitCreate(c) \/ Quotes!Abort(c)
    BY <2>2 DEF Quotes!CommitCreate, Quotes!Abort, Quotes!row,
                Quotes!surveyVars, vars
  <2>3. CASE ~Quotes!CommitTransition(c) /\ ~Quotes!CommitCreate(c)
             /\ ~Quotes!Abort(c)
    BY <1>1, <2>3
       DEF Quotes!EstimateStep, Quotes!ReadForCreate, Quotes!CheckSurvey,
           Quotes!ReadLatest, Quotes!ReadForSubmit, Quotes!ReadForAnswer,
           Quotes!Hold, Quotes!row, Quotes!surveyVars, vars
  <2> QED
    BY <2>1, <2>2, <2>3
<1>2. ASSUME NEW c \in Calls, Quotes!S!SurveyStep(c)
      PROVE  Next
  BY <1>2, SameSurveyStep DEF Next
<1>3. ASSUME Quotes!Outside
      PROVE  Next
  BY <1>3 DEF Quotes!Outside, Quotes!Transition, Quotes!Unassign,
              Quotes!VersionedWrite, Quotes!CanTransition,
              Quotes!VersionMatches, Quotes!NewVersion, Quotes!NewVendor,
              Quotes!RequestStatuses, Quotes!RequestTransitions,
              Quotes!surveyVars, Next, Outside, Transition, Unassign,
              VersionedWrite, CanTransition, VersionMatches, NewVersion,
              NewVendor, RequestStatuses, RequestTransitions, surveyVars
<1>4. CASE UNCHANGED Quotes!vars
  BY <1>4 DEF Quotes!vars, vars
<1> QED
  BY <1>1, <1>2, <1>3, <1>4 DEF Quotes!Next

LEMMA SurveyedForGood ==
  IInv /\ [Next]_vars => IInv' /\ (Surveyed => Surveyed')
BY IInvInductive, SurveysMoveForward DEF SurveysMove, Kept, Surveyed

-----------------------------------------------------------------------------
\* What no step undoes.
EstimatesMove ==
  /\ estimates' \in [Estimates -> Quotes!EstimateRows]
  /\ \A e \in Estimates :
       /\ Quotes!Exists(e) => Quotes!Exists(e)'
       /\ Sent(e) => Sent(e)'
       /\ estimates[e].status = "DRAFT"
            => estimates'[e].status \in {"DRAFT", "PENDING_APPROVAL"}

LEMMA CreationMovesEstimates ==
  ASSUME QuotesIInv, NEW c \in EstimateCalls, Quotes!CommitCreate(c)
  PROVE  EstimatesMove
<1>1. PICK new \in Estimates :
        /\ ~Quotes!Exists(new)
        /\ estimates' =
             [e \in Estimates |->
                IF e = new
                  THEN [ status |-> "DRAFT",
                         revision |-> estimateCalls[c].revision + 1 ]
                ELSE IF /\ e = estimateCalls[c].estimate
                        /\ estimateCalls[c].from \in Quotes!Superseded
                  THEN [ status |-> "SUPERSEDED",
                         revision |-> estimates[e].revision ]
                ELSE estimates[e]]
  BY DEF Quotes!CommitCreate
<1>2. /\ estimateCalls[c].op = "create"
      /\ EstimateHolds(estimateCalls[c])
      /\ estimateCalls[c].revision \in Nat
      /\ estimates \in [Estimates -> Quotes!EstimateRows]
  BY DEF Quotes!CommitCreate, QuotesIInv, EstimatesTyped, Quotes!CallStates
<1>3. estimates' \in [Estimates -> Quotes!EstimateRows]
  BY <1>1, <1>2, EstimateTableTyped DEF Quotes!EstimateRows
<1>4. ASSUME NEW e \in Estimates
      PROVE  /\ Quotes!Exists(e) => Quotes!Exists(e)'
             /\ Sent(e) => Sent(e)'
             /\ estimates[e].status = "DRAFT"
                  => estimates'[e].status \in {"DRAFT", "PENDING_APPROVAL"}
  BY <1>1, <1>2 DEF EstimateHolds, Sent, Quotes!Exists
<1> QED
  BY <1>3, <1>4 DEF EstimatesMove

LEMMA TransitionMovesEstimates ==
  ASSUME QuotesIInv, NEW c \in EstimateCalls, Quotes!CommitTransition(c)
  PROVE  /\ EstimatesMove
         /\ \A e \in Estimates : Quotes!Exists(e)' => Quotes!Exists(e)
         /\ \E e \in Estimates : Quotes!Exists(e)
<1> DEFINE e == estimateCalls[c].estimate
           to == estimateCalls[c].to
<1>1. /\ e \in Estimates
      /\ Quotes!Exists(e)
      /\ estimateCalls[c].from \in {"DRAFT", "PENDING_APPROVAL"}
      /\ estimateCalls[c].from = "PENDING_APPROVAL" => Sent(e)
      /\ to \in EstimateTransitions[estimateCalls[c].from]
  BY EstimateTableTyped
     DEF Quotes!CommitTransition, QuotesIInv, EstimateHolds
<1>2. /\ to \in EstimateStatuses \ {"DRAFT"}
      /\ estimateCalls[c].from = "DRAFT" => to = "PENDING_APPROVAL"
  BY <1>1, EstimateTableTyped
<1>3. estimates \in [Estimates -> Quotes!EstimateRows]
  BY DEF QuotesIInv, EstimatesTyped
<1>4. estimates' = [estimates EXCEPT ![e] =
                      [ status |-> to, revision |-> estimates[e].revision ]]
  BY <1>1, <1>3 DEF Quotes!CommitTransition
<1>5. estimates' \in [Estimates -> Quotes!EstimateRows]
  BY <1>1, <1>2, <1>3, <1>4, EstimateTableTyped DEF Quotes!EstimateRows
<1>6. ASSUME NEW x \in Estimates
      PROVE  /\ Quotes!Exists(x) <=> Quotes!Exists(x)'
             /\ Sent(x) => Sent(x)'
             /\ estimates[x].status = "DRAFT"
                  => estimates'[x].status \in {"DRAFT", "PENDING_APPROVAL"}
  BY <1>1, <1>2, <1>3, <1>4, EstimateTableTyped DEF Quotes!Exists, Sent
<1> QED
  BY <1>1, <1>5, <1>6 DEF EstimatesMove

LEMMA OtherStepsKeepEstimates ==
  ASSUME [Quotes!Next]_Quotes!vars,
         \A c \in EstimateCalls : ~Quotes!CommitCreate(c)
                                    /\ ~Quotes!CommitTransition(c)
  PROVE  estimates' = estimates
BY DEF Quotes!Next, Quotes!vars, Quotes!EstimateStep, Quotes!ReadForCreate,
       Quotes!CheckSurvey, Quotes!ReadLatest, Quotes!ReadForSubmit,
       Quotes!ReadForAnswer, Quotes!Abort, Quotes!Hold, Quotes!Outside,
       Quotes!estimateVars

LEMMA EstimatesMoveForward ==
  QuotesIInv /\ [Quotes!Next]_Quotes!vars => EstimatesMove
<1> SUFFICES ASSUME QuotesIInv, [Quotes!Next]_Quotes!vars
             PROVE  EstimatesMove
  OBVIOUS
<1>1. CASE estimates' = estimates
  BY <1>1 DEF EstimatesMove, Quotes!Exists, Sent, QuotesIInv, EstimatesTyped
<1> QED
  BY <1>1, CreationMovesEstimates, TransitionMovesEstimates,
     OtherStepsKeepEstimates

-----------------------------------------------------------------------------
\* The steps in which a handler of an estimate only reads: what it then holds is
\* true.
QuoteReads(c) ==
  \/ Quotes!ReadForCreate(c) \/ Quotes!CheckSurvey(c) \/ Quotes!ReadLatest(c)
  \/ \E e \in Estimates :
       \/ Quotes!ReadForSubmit(c, e)
       \/ \E answer \in {"APPROVED", "REJECTED"} :
            Quotes!ReadForAnswer(c, e, answer)

LEMMA HeldCall ==
  ASSUME QuotesIInv, NEW c \in EstimateCalls,
         NEW new \in Quotes!CallStates,
         estimateCalls' = [estimateCalls EXCEPT ![c] = new]
  PROVE  /\ estimateCalls' \in [EstimateCalls -> Quotes!CallStates]
         /\ \A d \in EstimateCalls \ {c} : estimateCalls'[d] = estimateCalls[d]
         /\ estimateCalls'[c] = new
BY DEF QuotesIInv, EstimatesTyped

LEMMA QuoteReadsHold ==
  ASSUME QuotesIInv, NEW c \in EstimateCalls, QuoteReads(c)
  PROVE  /\ estimates' = estimates
         /\ \A d \in EstimateCalls \ {c} : estimateCalls'[d] = estimateCalls[d]
         /\ estimateCalls' \in [EstimateCalls -> Quotes!CallStates]
         /\ EstimateHolds(estimateCalls'[c])
         /\ estimateCalls'[c].op \in {"surveyed", "create"} => Surveyed
<1> DEFINE Read(new) ==
             /\ new \in Quotes!CallStates
             /\ EstimateHolds(new)
             /\ new.op \in {"surveyed", "create"} => Surveyed
             /\ estimates' = estimates
             /\ estimateCalls' = [estimateCalls EXCEPT ![c] = new]
<1> USE DEF Quotes!Hold, EstimateHolds, Quotes!CallStates
<1>1. ASSUME Quotes!ReadForCreate(c)
      PROVE  \E new : Read(new)
  BY <1>1, EstimateTableTyped DEF Quotes!ReadForCreate
<1>2. ASSUME Quotes!CheckSurvey(c)
      PROVE  \E new : Read(new)
  <2>1. Surveyed
    BY <1>2 DEF Quotes!CheckSurvey, Quotes!ApprovedSurvey, Surveyed, PastDraft
  <2> QED
    BY <1>2, <2>1, EstimateTableTyped DEF Quotes!CheckSurvey
<1>3. ASSUME Quotes!ReadLatest(c)
      PROVE  \E new : Read(new)
  <2>1. Surveyed
    BY <1>3 DEF Quotes!ReadLatest, QuotesIInv, RestOnSurveys
  <2>2. CASE Quotes!Hold(c, "create", NoEstimate, "DRAFT", "SUPERSEDED", 0)
    BY <2>1, <2>2, EstimateTableTyped DEF Quotes!Superseded
  <2>3. ASSUME NEW e \in Estimates, Quotes!Latest(e), Quotes!NoDraft,
               Quotes!Hold(c, "create", e, estimates[e].status, "SUPERSEDED",
                           estimates[e].revision)
        PROVE  \E new : Read(new)
    <3>1. /\ estimates[e].status \in EstimateStatuses
          /\ estimates[e].revision \in Nat
          /\ Sent(e)
      BY <2>3, EstimateTableTyped
         DEF Quotes!Latest, Quotes!NoDraft, Quotes!Drafts, Quotes!Exists,
             QuotesIInv, EstimatesTyped, Quotes!EstimateRows, Sent
    <3> QED
      BY <2>1, <2>3, <3>1, EstimateTableTyped
  <2> QED
    BY <1>3, <2>2, <2>3 DEF Quotes!ReadLatest
<1>4. ASSUME NEW e \in Estimates, Quotes!ReadForSubmit(c, e)
      PROVE  \E new : Read(new)
  <2>1. Quotes!Exists(e) /\ estimates[e].revision \in Nat
    BY <1>4 DEF Quotes!ReadForSubmit, Quotes!Exists, QuotesIInv, EstimatesTyped,
                Quotes!EstimateRows
  <2> QED
    BY <1>4, <2>1, EstimateTableTyped DEF Quotes!ReadForSubmit
<1>5. ASSUME NEW e \in Estimates, NEW answer \in {"APPROVED", "REJECTED"},
             Quotes!ReadForAnswer(c, e, answer)
      PROVE  \E new : Read(new)
  <2>1. Quotes!Exists(e) /\ Sent(e) /\ estimates[e].revision \in Nat
    BY <1>5 DEF Quotes!ReadForAnswer, Quotes!Answerable, Quotes!Exists, Sent,
                QuotesIInv, EstimatesTyped, Quotes!EstimateRows
  <2> QED
    BY <1>5, <2>1, EstimateTableTyped DEF Quotes!ReadForAnswer
<1>6. PICK new : Read(new)
  BY <1>1, <1>2, <1>3, <1>4, <1>5 DEF QuoteReads
<1> QED
  BY <1>6, HeldCall

\* What a handler holds goes on being true.
LEMMA EstimateHoldsKept ==
  ASSUME QuotesIInv, EstimatesMove, NEW c \in EstimateCalls,
         estimateCalls'[c] = estimateCalls[c]
  PROVE  EstimateHolds(estimateCalls[c])'
BY DEF QuotesIInv, EstimateHolds, EstimatesMove, Sent

LEMMA NextQuoteCallsHold ==
  ASSUME QuotesIInv, [Quotes!Next]_Quotes!vars
  PROVE  /\ estimateCalls' \in [EstimateCalls -> Quotes!CallStates]
         /\ \A c \in EstimateCalls :
              /\ EstimateHolds(estimateCalls[c])'
              /\ estimateCalls'[c].op \in {"surveyed", "create"} => Surveyed
<1> DEFINE Holds(c) ==
             /\ EstimateHolds(estimateCalls[c])'
             /\ estimateCalls'[c].op \in {"surveyed", "create"} => Surveyed
<1>1. EstimatesMove
  BY EstimatesMoveForward
<1>2. ASSUME NEW c \in EstimateCalls, estimateCalls'[c] = estimateCalls[c]
      PROVE  Holds(c)
  BY <1>1, <1>2, EstimateHoldsKept DEF QuotesIInv, RestOnSurveys
<1>3. CASE UNCHANGED estimateCalls
  BY <1>2, <1>3 DEF QuotesIInv, EstimatesTyped
<1>4. ASSUME NEW c \in EstimateCalls, QuoteReads(c)
      PROVE  /\ estimateCalls' \in [EstimateCalls -> Quotes!CallStates]
             /\ \A d \in EstimateCalls : Holds(d)
  <2>1. Holds(c)
    BY <1>4, QuoteReadsHold DEF EstimateHolds, Quotes!Exists, Sent
  <2>2. ASSUME NEW d \in EstimateCalls \ {c}
        PROVE  Holds(d)
    BY <1>2, <1>4, QuoteReadsHold
  <2> QED
    BY <1>4, <2>1, <2>2, QuoteReadsHold
<1>5. ASSUME NEW c \in EstimateCalls, Quotes!Finish(c)
      PROVE  /\ estimateCalls' \in [EstimateCalls -> Quotes!CallStates]
             /\ \A d \in EstimateCalls : Holds(d)
  <2>1. Quotes!NoCall \in Quotes!CallStates
    BY EstimateTableTyped DEF Quotes!NoCall, Quotes!CallStates
  <2>2. /\ estimateCalls' \in [EstimateCalls -> Quotes!CallStates]
        /\ \A d \in EstimateCalls \ {c} : estimateCalls'[d] = estimateCalls[d]
        /\ estimateCalls'[c] = Quotes!NoCall
    BY <1>5, <2>1, HeldCall DEF Quotes!Finish
  <2>3. Holds(c)
    BY <2>2 DEF EstimateHolds, Quotes!NoCall
  <2> QED
    BY <1>2, <2>2, <2>3
<1>6. CASE \E c \in EstimateCalls : Quotes!EstimateStep(c)
  BY <1>4, <1>5, <1>6
     DEF Quotes!EstimateStep, QuoteReads, Quotes!CommitCreate,
         Quotes!CommitTransition, Quotes!Abort
<1> QED
  BY <1>3, <1>6
     DEF Quotes!Next, Quotes!Outside, Quotes!estimateVars, Quotes!vars

-----------------------------------------------------------------------------
\* Of the request: its versioned writes lead to AWAITING_APPROVAL only from a
\* status of the survey, its surveys never do.
LEMMA AwaitingIsSurveyed ==
  ASSUME QuotesIInv, [Quotes!Next]_Quotes!vars, "AWAITING_APPROVAL" \in held'
  PROVE  Surveyed
<1>1. /\ held \subseteq RequestStatuses
      /\ held \cap SurveyPhase # {} => Surveyed
      /\ "AWAITING_APPROVAL" \in held => Surveyed
      /\ (\E e \in Estimates : Quotes!Exists(e)) => Surveyed
  BY DEF QuotesIInv, RestOnSurveys, IInv, TypeOK, RowTypeOK, PhaseHolds, Surveyed
<1>2. CASE held' \subseteq held
  BY <1>1, <1>2
<1>3. ASSUME NEW c \in EstimateCalls, Quotes!CommitTransition(c)
      PROVE  Surveyed
  BY <1>1, <1>3, TransitionMovesEstimates
<1>4. ASSUME NEW c \in Calls, CommitTransition(c)
      PROVE  held' \subseteq held \cup {"SURVEY_SUBMITTED", "SURVEY_APPROVED"}
  BY <1>4 DEF CommitTransition, SyncRequest, DocumentSync, row
<1>5. ASSUME NEW from \in held, CanTransition(from, "AWAITING_APPROVAL")
      PROVE  Surveyed
  <2>1. from = "ESTIMATE_CREATED"
    BY <1>1, <1>5, RequestTableTyped DEF CanTransition, RequestTransitions
  <2> QED
    BY <1>1, <2>1 DEF SurveyPhase
<1>6. CASE Transition \/ Unassign
  BY <1>5, <1>6 DEF Transition, Unassign, VersionedWrite
<1>7. CASE Quotes!Outside
  <2>1. Transition \/ Unassign
    BY <1>7 DEF Quotes!Outside, Quotes!Transition, Quotes!Unassign,
                Quotes!VersionedWrite, Quotes!CanTransition,
                Quotes!VersionMatches, Quotes!NewVersion, Quotes!NewVendor,
                Quotes!RequestStatuses, Quotes!RequestTransitions, Transition,
                Unassign, VersionedWrite, CanTransition, VersionMatches,
                NewVersion, NewVendor, RequestStatuses, RequestTransitions
  <2> QED
    BY <1>6, <2>1
<1>8. ASSUME NEW c \in EstimateCalls, Quotes!EstimateStep(c)
      PROVE  Quotes!CommitTransition(c) \/ held' = held
  BY <1>8 DEF Quotes!EstimateStep, Quotes!ReadForCreate, Quotes!CheckSurvey,
              Quotes!ReadLatest, Quotes!ReadForSubmit, Quotes!ReadForAnswer,
              Quotes!CommitCreate, Quotes!Abort, Quotes!Hold, Quotes!row
<1>9. ASSUME NEW c \in Calls, SurveyStep(c)
      PROVE  CommitTransition(c) \/ held' = held
  BY <1>9 DEF SurveyStep, ReadForCreate, ReadLatest, ReadForSubmit,
              ReadForReview, CommitCreate, Abort, Hold, row
<1> QED
  BY <1>1, <1>2, <1>3, <1>4, <1>7, <1>8, <1>9, SameSurveyStep
     DEF Quotes!Next, Quotes!vars

LEMMA NextRestOnSurveys ==
  ASSUME QuotesIInv, [Quotes!Next]_Quotes!vars
  PROVE  RestOnSurveys'
<1>1. Surveyed => Surveyed'
  BY SurveyedForGood, QuoteStepsAreSurveySteps DEF QuotesIInv
<1>2. ASSUME NEW e \in Estimates, Quotes!Exists(e)'
      PROVE  Surveyed
  <2>1. CASE \E x \in Estimates : Quotes!Exists(x)
    BY <2>1 DEF QuotesIInv, RestOnSurveys
  <2>2. ASSUME NEW c \in EstimateCalls, Quotes!CommitCreate(c)
        PROVE  Surveyed
    BY <2>2 DEF Quotes!CommitCreate, QuotesIInv, RestOnSurveys
  <2>3. CASE estimates' = estimates
    BY <1>2, <2>1, <2>3 DEF Quotes!Exists
  <2> QED
    BY <2>1, <2>2, <2>3, TransitionMovesEstimates, OtherStepsKeepEstimates
<1>3. ASSUME NEW c \in EstimateCalls,
             estimateCalls'[c].op \in {"surveyed", "create"}
      PROVE  Surveyed
  BY <1>3, NextQuoteCallsHold
<1> QED
  BY <1>1, <1>2, <1>3, AwaitingIsSurveyed DEF RestOnSurveys

LEMMA QuotesIInvInductive ==
  QuotesIInv /\ [Quotes!Next]_Quotes!vars => QuotesIInv'
BY EstimatesMoveForward, NextQuoteCallsHold, NextRestOnSurveys, SurveyedForGood,
   QuoteStepsAreSurveySteps
   DEF QuotesIInv, EstimatesTyped, EstimatesMove

LEMMA QuotesInvariance == Quotes!Spec => []QuotesIInv
BY InitQuotesIInv, QuotesIInvInductive, PTL DEF Quotes!Spec

\* Type correctness of surveys, estimates, the request and their handlers.
THEOREM QuotesTypeCorrect == QuotesSpec => []QuotesTypeOK
<1>1. Quotes!S!TypeOK <=> TypeOK
  BY DEF Quotes!S!TypeOK, TypeOK, Quotes!S!RowTypeOK, RowTypeOK,
         Quotes!S!RequestStatuses, RequestStatuses,
         Quotes!S!RequestTransitions, RequestTransitions,
         Quotes!S!Assignable, Assignable, Quotes!S!SurveyRows, SurveyRows,
         Quotes!S!SurveyStatuses, SurveyStatuses, Quotes!S!SurveyTransitions,
         SurveyTransitions, Quotes!S!CallStates, CallStates
<1>2. QuotesIInv => QuotesTypeOK
  BY <1>1 DEF QuotesIInv, IInv, EstimatesTyped, QuotesTypeOK, Quotes!TypeOK
<1> QED
  BY QuotesInvariance, <1>2, PTL DEF QuotesSpec

\* Before a survey of the request was submitted there is no estimate, and the
\* request is in no status of the survey or the quotation.
THEOREM QuotesRestOnSurveys == QuotesSpec => []QuotationsRestOnSurveys
<1>1. QuotesIInv => QuotationsRestOnSurveys
  BY DEF QuotesIInv, RestOnSurveys, IInv, TypeOK, RowTypeOK, PhaseHolds,
         SurveyPhase, Surveyed, PastDraft, QuotationsRestOnSurveys,
         Quotes!QuotationsRestOnSurveys,
         Quotes!DocumentPhase, Quotes!S!PastDraft
<1> QED
  BY QuotesInvariance, <1>1, PTL DEF QuotesSpec

\* A draft of an estimate can only be sent: no answer and no supersession
\* reaches it.
THEOREM EstimatesAreOnlySent == QuotesSpec => DraftsAreOnlySent
<1> DEFINE A == \A e \in Estimates :
                  estimates[e].status = "DRAFT"
                    => estimates'[e].status \in {"DRAFT", "PENDING_APPROVAL"}
<1>1. QuotesIInv /\ [Quotes!Next]_Quotes!vars => [A]_Quotes!vars
  BY EstimatesMoveForward DEF EstimatesMove
<1> QED
  BY QuotesInvariance, <1>1, PTL
     DEF QuotesSpec, Quotes!Spec, DraftsAreOnlySent, Quotes!DraftsAreOnlySent

\* Surveys and quotation together implement the surveys alone, whose theorems
\* therefore hold of both.
THEOREM QuotesKeepSurveys == QuotesSpec => SurveySpec
<1>1. Quotes!Init => Init
  BY SameBeginning DEF Quotes!Init
<1> QED
  BY <1>1, QuoteStepsAreSurveySteps, PTL
     DEF QuotesSpec, Quotes!Spec, SurveySpec, Spec

=============================================================================
