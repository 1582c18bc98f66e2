SPECIFICATION MachineSpec
CONSTANTS
    p = p
    q = q
    Files = {p, q}
    MaxTurns = 2
    MaxTasks = 2
    MaxPauses = 1
    MaxWrites = 2
    Faults = {"snapshot", "git", "disk", "restart", "crash", "link", "outside"}
    MaxFaults = 1
    Sessions = {p, q}
    a = a
    b = b
    Ports = {a, b}
    MaxServers = 2
    MaxTroubles = 1
    Setups = {p, q}
    MaxReleases = 3
    MaxSlips = 5
SYMMETRY Alike
INVARIANTS RuntimesKept InstallStands
  
CHECK_DEADLOCK FALSE
