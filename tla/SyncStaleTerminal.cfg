SPECIFICATION Spec
CONSTANTS
  btc1 = btc1
  sbx1 = sbx1
  Watcher = watcher
  Ids = {sbx1}
  Mock = {sbx1}
  Handlers = {h1}
  Amount <- MCAmount
  Required <- MCRequired
  Window = 1
  ChainReports <- FewReports
  Payments <- FullPayment
  Reliable = {}
  MaxTime = 2
  MaxMoves = 0
  MaxCrashes = 0
PROPERTIES
  SandboxTerminalIsFinal
