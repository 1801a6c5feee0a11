\* Two terminals, reconfiguration, a shared queue and advance()'s own steps.
SPECIFICATION LoopSpec
CONSTANTS
  DeviceIds = {"d1", "d2"}
  Merchants = {"m1", "m2"}
  AnyMerchant = "any"
  DefaultDevice = "d1"
  DefaultMerchant = "m1"
  Offered <- SharedScenarios
  Profiles <- SetupProfiles
  Amounts = {1}
  Deltas = {1, 2}
  Horizon = 2
  MaxQueue = 2
  MaxRequests = 2
  MaxGeneration = 2
INVARIANTS
  Accounting
  OneOpenPerDevice
  OpenOnReadyDevice
PROPERTIES
  FinalIsFinal
  StrictQueue
  ImplementsLedger
  LoopImplementsEngine
  AdvanceReturns
CHECK_DEADLOCK FALSE
