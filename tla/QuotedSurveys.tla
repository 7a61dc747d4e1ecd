--------------------------- MODULE QuotedSurveys ----------------------------
(***************************************************************************)
(* The surveys of a request with the quotation that rests on them: the     *)
(* behaviours are those of Estimates, whose surveys are these.             *)
(***************************************************************************)
EXTENDS Surveys

CONSTANTS Estimates, NoEstimate, EstimateCalls   \* as in Estimates

ASSUME EstimatesAssumption == NoEstimate \notin Estimates

VARIABLES estimates, estimateCalls

Quotes ==
  INSTANCE Estimates WITH SurveyCalls <- Calls, surveyCalls <- calls,
                          Calls <- EstimateCalls, calls <- estimateCalls

\* One type invariant for surveys, estimates and the request.
QuotesTypeOK == Quotes!TypeOK

QuotesSpec == Quotes!Spec

\* No estimate, and no status of the survey or the quotation, before a survey
\* of the request was submitted.
QuotationsRestOnSurveys == Quotes!QuotationsRestOnSurveys

\* A draft of an estimate can only be sent.
DraftsAreOnlySent == Quotes!DraftsAreOnlySent

\* Surveys, estimates and the rest of the backend together keep what the
\* surveys promise alone.
SurveySpec == Spec

=============================================================================
