SPECIFICATION Spec
CONSTANTS
    A = A  B = B  v1 = v1  v2 = v2  p1 = p1  p2 = p2  c1 = c1  c2 = c2
    None = None
    Daemon = Daemon
    Clients = {c1, c2}
    Pids = {p1, p2}
    Deployments = {A}
    Binary <- OneBinary
    DnsDeployments = {A}
    RestoresDns = FALSE
    InitialDocuments <- OnlySettled
    Events = {"exit", "shutdown", "cleanup"}
INVARIANTS OneCore
PROPERTIES StopWins StopReported
SYMMETRY ClientSymmetry
