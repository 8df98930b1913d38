SPECIFICATION FairSpec
CONSTANTS
  Nodes = {1, 2}
  Starts = {"apart", "settled"}
  MaxRing = 3
  MaxConnects = 2
  MaxEvents = 0
  Rings <- MCRings
  SeqMod = 8
  ConfigLists <- MCNodeLists
  MemberLists <- MCNodeLists
  HeurResults = {"pass"}
  KeepOptions = {FALSE}
  TieBreaker <- MCTieBreaker
  MaxSendBuffers = 6
  MaxDeviceBuffers = 6
  RegularHeuristics = FALSE
  DeviceKeep = FALSE
 
PROPERTIES DevicesResume LosersStopVoting
CHECK_DEADLOCK FALSE
