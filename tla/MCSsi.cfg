\* Two clients, two scenarios, a reset, a restart and a disk error.
SPECIFICATION Spec
CONSTANTS
  p1 = p1
  p2 = p2
  Peers = {p1, p2}
  Uids = {"u"}
  Default <- Approved
  Scenarios <- TwoScenarios
  Requests <- TwoClients
  MaxSent <- TwoAndOne
  MaxGeneration = 2
  MaxPurchases = 2
  MaxRestarts = 1
  MaxFailures = 1
  Json <- OneJson
  Messages <- FourMessages
  Tails <- ThreeTails
INVARIANTS
  LatestResult
  Durable
  EndsAsScripted
  StartsInStep
  InOrder
  ChunksDoNotMatter
CHECK_DEADLOCK FALSE
