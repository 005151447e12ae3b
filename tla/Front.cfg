\* One gateway, two starts, one invoice.  It may fail to start and stop there.
SPECIFICATION Spec
CONSTANTS
    Symbols     <- MCSymbols
    Decimals    <- MCDecimals
    AssetOf     <- MCAssetOf
    Generated   <- MCGenerated
    Trials      <- MCTrials
    Headers     <- MCHeaders
    BtcRequired = 2
    Keys        = {"live", "sandbox"}
    Confirmed   = {0}
    FiatAmounts = {100}
    MaxStarts   = 2
    MaxInvoices = 1
INVARIANTS
    TypeOK
    WhoMaySimulate
    KeysInProduction
    ConfiguredKeyOpens
    DefaultPaymentSettles
    AmountsAreExact
    ShownParsesBack
CHECK_DEADLOCK FALSE
