\* Two payments of one request, two invocations of each kind at a time.
CONSTANTS
  Vendors = {v1}
  NoVendor = NoVendor
  Keep = Keep
  MaxVersion = 6
  Payments = {p1, p2}
  NoPayment = NoPayment
  Calls = {c1, c2}
  InvoiceCalls = {i1, i2}
  MaxAttempts = 2
  MaxPaymentVersion = 3
  OutsideSteps <- WorksOrEnds
SYMMETRY Symmetry
SPECIFICATION BillingSpec
INVARIANTS InvoicesRestOnPayments PaidTwiceOnlyByRacing
PROPERTIES PaymentFollowsTable SettlementCompletesRequest InvoiceFollowsTable
