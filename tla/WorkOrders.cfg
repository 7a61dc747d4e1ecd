\* Two orders of one request, two invocations at a time.
CONSTANTS
  Vendors = {v1, v2}
  NoVendor = NoVendor
  Keep = Keep
  MaxVersion = 6
  Orders = {w1, w2}
  NoOrder = NoOrder
  Calls = {c1, c2}
  MaxOrderVersion = 4
  OutsideTargets = {"CREATED", "ASSIGNED", "AWAITING_APPROVAL",
                    "CANCELLED", "QUALITY_CHECK"}
SYMMETRY Symmetry
SPECIFICATION CompletionSpec
INVARIANTS AtMostOneActiveOrder
PROPERTIES OrderGoesToAssignedVendor ExecutionMovesTheRequest
           OrdersAreCompletedDone
