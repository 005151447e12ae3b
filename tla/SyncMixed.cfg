SPECIFICATION Spec
CONSTANTS
  btc1 = btc1
  sbx1 = sbx1
  Watcher = watcher
  Ids = {btc1, sbx1}
  Mock = {sbx1}
  Handlers = {h1}
  Amount <- MCAmount
  Required <- MCRequired
  Window = 1
  ChainReports <- MCChainReports
  Payments <- MCPayments
  Reliable = {}
  MaxTime = 2
  MaxMoves = 2
  MaxCrashes = 1
INVARIANTS
  TypeOK
  NoFalsePaid
  NoFalseReceipt
  PaidAtDatesSettlement
  StoryIsComplete
PROPERTIES
  TerminalIsFinal
  NoExpiryWhileCovered
