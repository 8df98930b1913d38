SPECIFICATION QdeviceSpec
CONSTANTS
  Nodes = {1}
  Rings = {1, 2}
  SeqMod = 1
  ConfigLists = {{1}, {1, 2}}
  MemberLists = {{1}}
  HeurResults = {"pass", "fail"}
  KeepOptions = {TRUE}
  MaxDeviceBuffers = 5
  RegularHeuristics = TRUE
  DeviceKeep = TRUE
VIEW BuffersInUse
INVARIANTS QdeviceTypeOK AckOnlyForReportedRing PauseHasAnEnd
PROPERTIES CastsOnlyForReportedRing
