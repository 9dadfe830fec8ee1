SPECIFICATION Spec
CONSTANTS
    A = A  B = B  v1 = v1  v2 = v2  p1 = p1  p2 = p2  c1 = c1  c2 = c2
    None = None
    Daemon = Daemon
    Clients = {}
    Pids = {p1, p2}
    Deployments = {A, B}
    Binary <- TwoBinaries
    DnsDeployments = {A}
    RestoresDns = TRUE
    InitialDocuments <- All
    Events = {"resolve", "recover", "terminate", "exit", "activate", "reload", "shutdown", "crash", "cleanup", "network", "frontend"}
INVARIANTS RecordedCore ResolverServed
SYMMETRY PidSymmetry
