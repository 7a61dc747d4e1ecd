\* One payment, one invocation at a time.
CONSTANTS
  Vendors = {v1}
  NoVendor = NoVendor
  Keep = Keep
  MaxVersion = 5
  Payments = {p1}
  NoPayment = NoPayment
  Calls = {c1}
  MaxAttempts = 1
  MaxPaymentVersion = 3
  OutsideSteps <- Works
SPECIFICATION FairSpec
PROPERTIES CapturedPaymentsSettle
