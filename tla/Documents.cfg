\* Two surveys of one request, or two items of one estimate; two invocations at a
\* time.  A line of the estimate may be worth less than its discount, and the
\* rounded lines add up to more than the rounded estimate.
CONSTANTS
  Vendors = {v1}
  NoVendor = NoVendor
  Keep = Keep
  MaxVersion = 2
  Surveys = {d1, d2}
  NoSurvey = NoSurvey
  Calls = {c1, c2}
  Items = {d1, d2}
  NoItem = NoItem
  Quantities = {25}
  UnitPrice = 1010
  TaxRate = 18
  Discounts = {0, 300}
  MaxDiscount = 600
  QuotationCalls = {c1, c2}
SYMMETRY Symmetry
SPECIFICATION DocumentsSpec
INVARIANTS RevisionsHaveNoGaps SurveyedRequestsHaveSurvey
PROPERTIES DraftsAreOnlySubmitted SurveysAreSubmittedComplete  UndisturbedChangesKeepDiscount UndisturbedSubmissionsArePriced
\* A submitted estimate is not edited any more.
CHECK_DEADLOCK FALSE
