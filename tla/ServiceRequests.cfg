\* Two invocations race on one request with two vendors.
CONSTANTS
  Vendors = {v1, v2}
  NoVendor = NoVendor
  Keep = Keep
  MaxVersion = 4
  Calls = {c1, c2}
  AdminTargets = {"CREATED", "ASSIGNED"}
SYMMETRY Symmetry
SPECIFICATION Spec
INVARIANTS HistoryNamesStatus
PROPERTIES VersionedStepsFollowTable RowSpec
