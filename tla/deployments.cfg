SPECIFICATION Spec
CONSTANTS
    A = A  B = B  v1 = v1  v2 = v2  p1 = p1  p2 = p2  c1 = c1  c2 = c2
    None = None
    Daemon = Daemon
    Clients = {c1}
    Pids = {p1, p2}
    Deployments = {A, B}
    Binary <- SameBinary
    DnsDeployments = {A}
    RestoresDns = FALSE
    InitialDocuments <- Either
    Events = {"resolve", "gateway", "spawn", "network", "frontend", "missing", "exit", "activate", "select", "settings", "reload", "compile", "lock"}
PROPERTY PendingCleared
INVARIANTS RollbackConsistent NetworkFollowsCore
SYMMETRY PidSymmetry
