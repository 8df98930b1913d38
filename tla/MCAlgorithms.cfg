SPECIFICATION Spec
CONSTANTS
    Nodes = {1, 2, 3, 4}
    Results = {"undefined", "pass", "fail"}
    TieBreaker <- MCTieBreaker
    Size = 6
    Intervals = {1, 2}
    Width = 16
    MaxLag = 1
    MaxWork = 9
    MaxTicks = 2
    Receivers = {"qnetd", "qdevice"}
    ToQnetd <- MCToQnetd
    ToQdevice <- MCToQdevice
    MaxMessages = 2
    MaxShort = 1
    ChunkSize = 64
    PipeSize = 100
    MaxEntries = 2
    MaxSend = 190
    MaxReceive = 165
    MemoryFails = FALSE
INVARIANTS
    VoteIsProvided ReportFollowsManPage
    HeapOrderedByTime HeldTimersAreScheduled
      NothingRequiredIsMissing
PROPERTIES FiresInTime
