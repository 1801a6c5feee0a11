\* Two terminals, two presses of the client, three things that others do.
SPECIFICATION ClientSpec
CONSTANTS
  DeviceIds = {"d1", "d2"}
  Merchants = {"m1"}
  AnyMerchant = "any"
  DefaultDevice = "d1"
  DefaultMerchant = "m1"
  Offered <- OneArmed
  Profiles <- Default
  Amounts = {1}
  Deltas = {1}
  Horizon = 1
  MaxQueue = 1
  MaxRequests = 2
  MaxGeneration = 2
  Selectable <- SomeChoices
  Tunings <- OneTuning
  NoSnapshot = NoSnapshot
  MaxPresses = 2
  MaxOthers = 3
INVARIANT
  OpenIsCurrent
PROPERTY
  InputHitsItsPayment
CHECK_DEADLOCK FALSE
