\* One terminal, every outcome and every delivery, a payment and a reset.
SPECIFICATION RepliesSpec
CONSTANTS
  DeviceIds = {"d1"}
  Merchants = {"m1"}
  AnyMerchant = "any"
  DefaultDevice = "d1"
  DefaultMerchant = "m1"
  Offered <- RepliedScenarios
  Profiles <- Default
  Amounts = {1}
  Deltas = {1}
  Horizon = 3
  MaxQueue = 1
  MaxRequests = 1
  MaxGeneration = 2
INVARIANTS
  ToldTruth
CHECK_DEADLOCK FALSE
