CONSTANTS
  a1 = a1
  a2 = a2
  a3 = a3
  r1 = r1
  d1 = d1
  Attempts <- TwoAttempts
  Drafts <- OneDraft
  DraftOf <- AllOfOneDraft
  Price <- UnitPrice
  Callers <- MCCallers
  Reconciliations <- MCReconciliations
  RefusalReplyLost = TRUE
  NoHold = NoHold
  Limits = {2}
  Amounts = {1}
  MaxReceived = 0
  MaxSettled = 0
  GracePeriodDays = 0
  MaxOverdueDays = 1
SPECIFICATION BookingSpec
INVARIANTS ReviewKeepsFunds
CHECK_DEADLOCK FALSE
