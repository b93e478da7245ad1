CONSTANTS
  p1 = p1
  Shipments = {1, 2}
  BookingTotals = {2}
  RevisedTotals <- MCRevisedTotals
  RequestedFees = {1}
  Payments = {p1}
  PaymentAmount <- MCPaymentAmount
  WriteOffs = {2}
  InitialAdvance = 1
  CreditLimit = 5
  LastPeriod = 4
  LastBooking = 1
  MaxRevisions = 2
SPECIFICATION Spec
INVARIANTS BillingTypeOK TotalsMatchDocuments
INVARIANTS OwedIsBacked StatementsAddUp MoneyKept BilledOnce
PROPERTIES IssuedStatementsOnlyShrink
CHECK_DEADLOCK FALSE
