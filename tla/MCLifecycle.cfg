\* A tick, a payment, a command, and the shutdown among them.
SPECIFICATION LifeSpec
CONSTANTS
  Clock = clock
  Connection = connection
  Handler = handler
  Main = main
  Writers = {clock, connection, handler, main}
  Abortable = {clock, connection, handler}
  Nobody = Nobody
  MaxChanges = 2
INVARIANTS
  JournalWhole
  ExportedWhenOk
  FinalExport
PROPERTIES
  ForwardUndisturbed
  ShutdownEnds
CHECK_DEADLOCK FALSE
