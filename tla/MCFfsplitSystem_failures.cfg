SPECIFICATION FairSpec
CONSTANTS
  Nodes = {1, 2}
  Starts = {"apart", "settled"}
  MaxRing = 2
  MaxConnects = 3
  MaxEvents = 1
  Rings <- MCRings
  SeqMod = 8
  ConfigLists <- MCNodeLists
  MemberLists <- MCNodeLists
  HeurResults = {"pass", "fail"}
  KeepOptions = {FALSE}
  TieBreaker <- MCTieBreaker
  MaxSendBuffers = 6
  MaxDeviceBuffers = 6
  RegularHeuristics = TRUE
  DeviceKeep = FALSE
 
PROPERTIES NackPhaseEnds
CHECK_DEADLOCK FALSE
