SPECIFICATION LaunchSpec
CONSTANTS
    Directories <- MCDirectories
    Requests <- MCRequests
    Detected <- MCVersions
    FreshIds = {"id1", "id2"}
    ServerEnv <- MCServerEnv
INVARIANTS
    AgentIsTold
    EnvironmentIsOwn
CHECK_DEADLOCK FALSE
