\* Three requests, any commands.
SPECIFICATION LiveSpec
CONSTANTS
  Callers = {c1, c2, c3}
  CommandIds = {"a", "r", "s"}
  Offered <- AnyCommands
  MaxGeneration = 3
INVARIANTS
  ExecutedOnce
  HonestReply
PROPERTIES
  EveryRequestAnswered
CHECK_DEADLOCK FALSE
