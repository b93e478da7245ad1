CONSTANTS
  a1 = a1
  a2 = a2
  a3 = a3
  d1 = d1
  d2 = d2
  Attempts <- PairAttempts
  Drafts <- MCDrafts
  DraftOf <- PairDraftOf
  Price <- PairPrice
  Callers = {p1}
  NoHold = NoHold
  Limits = {0, 2}
  Amounts = {1}
  MaxReceived = 1
  MaxSettled = 1
  GracePeriodDays = 0
  MaxOverdueDays = 1
SPECIFICATION Spec
INVARIANTS TypeOK HoldsBacked HoldsConvertible CreditWithinLimit
INVARIANTS ClosedHoldsNothing MoneyConserved
PROPERTIES ImplementsFunds
