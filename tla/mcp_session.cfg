SPECIFICATION McpSpec
CONSTANTS
    Agents = {"main", "other"}
    ServerAsks = FALSE
    MaxVisits = 2
    MaxRequests = 4
    MaxNoise = 1
    MaxFailures = 1
INVARIANT ServesSession
CHECK_DEADLOCK FALSE
