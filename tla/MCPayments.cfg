\* Two workers race with the same key or none on one invoice.
SPECIFICATION FairSpec
CONSTANTS
  Invoices = {i1}
  Workers = {w1, w2}
  Totals <- MCTotals
  Amounts <- MCAmounts
  Keys = {k1}
  EmptyKey = EmptyKey
  NoKey = NoKey
  EditStatuses <- MCEditStatuses
  NoWorker = NoWorker
  NoRequest = NoRequest
  MaxPayments = 2
INVARIANTS
  KeysAreIdempotent
  PaidIsExplained
  BalanceFollows
PROPERTIES
  NoPaymentOnCancelled
  ImplementsKeyedPayments
  PaymentAnswered
\* Every invoice may be deleted and every payment row used up.
CHECK_DEADLOCK FALSE
