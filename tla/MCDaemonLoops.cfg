SPECIFICATION Spec
CONSTANTS
  NoEntry = "none"
  Slots = {"t1"}
  MaxClients = 1
  MaxPending = 1
  MaxTools = 1
  Pieces = 2
  Commands = {"shutdown", "list"}
  Daemons = {"qnetd", "qdevice"}
  NetClients = {"c1", "c2"}
  MaxOut = 1
  MaxWork = 1
  MaxReady = 1
  NetSocks = {"s1", "s2"}
INVARIANTS NoFreedEntryIsUsed LoopHasOpenDescriptors QueuedIsPolled
PROPERTIES LineIsAnswered ClosedSocketEndsDaemon
