SPECIFICATION Spec
CONSTANTS
  Pids = {1, 2}
  MaxProcesses = 2
  KillRounds = 1
  Confs <- MCConfs
  MaxExecsConf = 2
  MaxCmdBuffers = 3
  MaxExecs = 2
  MaxChanges = 1
INVARIANTS ProcessesAreCounted SignalsOwnChildren ActiveIsLatestExecution ExitKillsAll 
PROPERTIES KeepsPromise ExecIsAnswered WorkerFollowsDevice
