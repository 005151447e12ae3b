SPECIFICATION FairSpec
CONSTANTS
  btc1 = btc1
  sbx1 = sbx1
  Watcher = watcher
  Ids = {btc1, sbx1}
  Mock = {sbx1}
  Handlers = {h1}
  Amount <- MCAmount
  Required <- MCRequired
  Window = 1
  ChainReports <- FewReports
  Payments <- FewPayments
  Reliable = {sbx1}
  MaxTime = 2
  MaxMoves = 2
  MaxCrashes = 1
INVARIANTS
  FinalWord
PROPERTIES
  ImplementsLifecycle
  Resolves
