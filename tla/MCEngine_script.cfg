\* One terminal, every kind of scenario, and a reset, under a ticking clock.
SPECIFICATION LiveSpec
CONSTANTS
  DeviceIds = {"d1"}
  Merchants = {"m1"}
  AnyMerchant = "any"
  DefaultDevice = "d1"
  DefaultMerchant = "m1"
  Offered <- ScriptedScenarios
  Profiles <- UpDown
  Amounts = {0, 2}
  Deltas = {1, 2}
  Horizon = 6
  MaxQueue = 1
  MaxRequests = 1
  MaxGeneration = 2
INVARIANTS
  TypeOK
  NothingOverdue
  DeadlineDecides
  OutcomeHonoured
  ChunkIndependent
PROPERTIES
  EveryPaymentEnds
CHECK_DEADLOCK FALSE
