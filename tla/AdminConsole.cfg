\* A list of two pages with one search text; a request and one vendor, two posts at
\* once; a survey that changes twice, two posts at once; three requests of a widget.
CONSTANTS
  Filters = {all, open}
  All = all
  Searches = {none, text}
  NoSearch = none
  Sorts = {newest, oldest}
  DefaultSort = newest
  Limits = {10, 25}
  DefaultLimit = 10
  MaxPage = 2
  NoRows = NoRows
  Fetches = {f1, f2}
  Vendors = {v1}
  NoVendor = NoVendor
  Keep = Keep
  MaxVersion = 2
  Reads = {r1, r2}
  Posts = {p1, p2}
  NoPost = NoPost
  OfferedTargets = {"CANCELLED", "SCHEDULED"}
  OutsideTargets = {"ASSIGNED", "CREATED"}
  SurveyReads = {r1, r2}
  Decisions = {p1, p2}
  NoDecision = NoDecision
  MaxChanges = 2
  Probes = {f1, f2}
  MaxNews = 2
SYMMETRY Symmetry
SPECIFICATION ConsoleSpec
INVARIANTS ScreensAnswerLastQuestion AcknowledgedChangesAreShown
PROPERTIES PostsMisfireOnlyWhenStale
