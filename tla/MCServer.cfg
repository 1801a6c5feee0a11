\* Two clients for one terminal, and one command: a reset, an action or a purchase.
SPECIFICATION ServerSpec
CONSTANTS
  Callers = {c1}
  CommandIds = {"r", "a", "p"}
  Offered <- ResetAction
  MaxGeneration = 2
  Clients = {k1, k2}
  DeviceIds = {"d1"}
  Policies = {"normal", "partial_response", "hang", "disconnect_after_accept", "disconnect_after_commit"}
  MaxPayments = 2
SYMMETRY Interchangeable
INVARIANTS
  ServerTypeOK
  OwnPayment
  ResetFence
CHECK_DEADLOCK FALSE
