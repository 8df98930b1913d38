SPECIFICATION QnetdSpec
CONSTANTS
  Nodes = {1, 2}
  Rings = {1}
  MaxSendBuffers = 2
  SeqMod = 2
  ConfigLists = {{}, {1, 2}}
  MemberLists = {{1}, {2}, {1, 2}}
  HeurResults = {"undefined", "pass"}
  KeepOptions = {FALSE}
  TieBreaker <- MCTieBreaker
VIEW BuffersInUse
INVARIANTS QnetdTypeOK AckOnlyInQuoratePartition NacksConfirmedBeforeAcks
