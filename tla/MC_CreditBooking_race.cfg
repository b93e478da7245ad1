CONSTANTS
  a1 = a1
  a2 = a2
  a3 = a3
  d1 = d1
  d2 = d2
  Attempts <- MCAttempts
  Drafts <- MCDrafts
  DraftOf <- MCDraftOf
  Price <- MCPrice
  Callers = {p1, p2}
  NoHold = NoHold
  Limits = {1}
  Amounts = {1}
  MaxReceived = 1
  MaxSettled = 1
  GracePeriodDays = 0
  MaxOverdueDays = 1
SPECIFICATION RaceSpec
SYMMETRY Symmetry
INVARIANTS AdvanceCovered ChargeFollowsHold DraftHeldOnce
INVARIANTS LedgerTellsOutcome AnswersAreTrue
