\* A purchase between its start and its first look at the payment when a reset comes.
SPECIFICATION ServerSpec
CONSTANTS
  Callers = {c1}
  CommandIds = {"r"}
  Offered <- OneReset
  MaxGeneration = 2
  Clients = {k1}
  DeviceIds = {"d1"}
  Policies = {"normal"}
  MaxPayments = 1
INVARIANT
  ResetInvalidates
CHECK_DEADLOCK FALSE
