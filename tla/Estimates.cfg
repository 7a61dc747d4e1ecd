\* Two estimates of one request and a survey, two estimate handlers at a time.
CONSTANTS
  Vendors = {v1}
  NoVendor = NoVendor
  Keep = Keep
  MaxVersion = 4
  Surveys = {s1}
  NoSurvey = NoSurvey
  Calls = {d1}
  Estimates = {e1, e2}
  NoEstimate = NoEstimate
  EstimateCalls = {c1, c2}
SYMMETRY Symmetry
SPECIFICATION QuotesSpec
INVARIANTS QuotationsRestOnSurveys
PROPERTIES DraftsAreOnlySent SurveySpec
\* A request without a vendor whose status no handler moves may stay so.
CHECK_DEADLOCK FALSE
