---------------------------- MODULE Inspections -----------------------------
(***************************************************************************)
(* Surveys with what a draft contains: its inspection items and the photos *)
(* they require, which SurveysService and SurveyAttachmentService write    *)
(* and submitSurveyVendor validates before its transaction.                *)
(*                                                                         *)
(* What a survey contains is followed while it is a draft.  A writer looks *)
(* at the survey's status in a query before its write, so a late one may   *)
(* still write after the submission: that changes no draft and is left     *)
(* out, and with it a writer is one step.                                  *)
(***************************************************************************)
EXTENDS Surveys

VARIABLES
  content,    \* of each draft: no items, items lacking something, or complete
  outdated    \* history: submissions in flight whose validation no longer holds

inspectionVars == <<vars, content, outdated>>

Contents == {"empty", "lacking", "complete"}

\* One type invariant for the surveys and what they contain.
InspectionTypeOK ==
  /\ TypeOK
  /\ content \in [Surveys -> Contents]
  /\ outdated \subseteq Calls

InspectionInit ==
  /\ Init
  /\ content = [s \in Surveys |-> "empty"]
  /\ outdated = {}

Submitting(c) == calls[c].op = "transition" /\ calls[c].to = "SUBMITTED"

\* A change of one draft's content, to one of the given.
Write(s, contents) ==
  /\ surveys[s].status = "DRAFT"
  /\ \E new \in contents :
       /\ new # content[s]
       /\ content' = [content EXCEPT ![s] = new]
  /\ outdated' = outdated \cup {c \in Calls : Submitting(c) /\ calls[c].survey = s}
  /\ UNCHANGED vars

-----------------------------------------------------------------------------
\* createSurveyItemVendor: a new item may lack its photo or its observation.
CreateSurveyItem(s) ==
  Write(s, IF content[s] = "lacking" THEN {} ELSE {"lacking", "complete"})

\* updateSurveyItemVendor may require a photo, or no longer.
UpdateSurveyItem(s) ==
  /\ content[s] # "empty"
  /\ Write(s, {"lacking", "complete"})

\* deleteSurveyItemVendor: the last item, or one that lacked something.
DeleteSurveyItem(s) ==
  /\ content[s] # "empty"
  /\ Write(s, {"empty", "complete"})

\* uploadAttachment and deleteAttachment, of a photo an item requires.
UploadPhoto(s) == content[s] = "lacking" /\ Write(s, {"complete"})
DeletePhoto(s) == content[s] = "complete" /\ Write(s, {"lacking"})

\* The validation of submitSurveyVendor.
AnyItems(s) == content[s] # "empty"
Submittable(s) == content[s] = "complete"

\* A step of Surveys, where a submission starts with the validation.
SurveysStep ==
  /\ Next
  /\ \A c \in Calls :
       Submitting(c)' /\ ~Submitting(c) => Submittable(calls'[c].survey)
  /\ content' = [s \in Surveys |->
                   IF surveys'[s].status = "DRAFT" THEN content[s] ELSE "empty"]
  /\ outdated' = {c \in outdated : calls'[c] = calls[c]}

InspectionNext ==
  \/ SurveysStep
  \/ \E s \in Surveys :
       \/ CreateSurveyItem(s) \/ UpdateSurveyItem(s) \/ DeleteSurveyItem(s)
       \/ UploadPhoto(s) \/ DeletePhoto(s)

InspectionSpec == InspectionInit /\ [][InspectionNext]_inspectionVars

-----------------------------------------------------------------------------
\* A survey is submitted with an item and everything its items require, unless
\* an item or a photo was written between the validation and the commit: no
\* revision begun or reviewed meanwhile, and no second submission, lets an
\* incomplete inspection through.
SurveysAreSubmittedComplete ==
  [][ \A s \in Surveys :
        surveys[s].status = "DRAFT" /\ surveys'[s].status = "SUBMITTED"
          => \/ content[s] = "complete"
             \/ \E c \in outdated : calls[c].survey = s /\ calls'[c].op = "none"
     ]_inspectionVars

=============================================================================
