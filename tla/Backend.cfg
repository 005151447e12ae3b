SPECIFICATION Spec
CONSTANTS
  dust = dust
  half = half
  full = full
  Txs = {dust, half, full}
  Value <- MCValue
  Amount = 4
  Required = 2
  MaxTip = 3
INVARIANTS
  TypeOK
PROPERTIES
  ConfirmationsCoverTheTotal
  SettledReportIsFunded
