SPECIFICATION Spec
CONSTANTS
    Devices = {1, 2}
    ClusterOf <- MCClusterOf
    Setups <- MCSetups
    Configs <- MCConfigs
    Slots = {1, 2, 3, 4}
    MaxClients = 2
    Heartbeat = 3
    HeartbeatMax = 3
    DpdCoefficient = 2
    ConnectTimeout = 6
    MaxSleep = 1
    EchoWidth = 2
INVARIANTS  TlsInStep ClustersMatchClients HealthyPeersStay
PROPERTIES EventuallyConnected
