SPECIFICATION Spec
CONSTANTS
  i1 = i1  i2 = i2  d1 = d1  d2 = d2  c1 = c1  daemon = daemon  cli = cli
  Threads = {d1, d2, c1}
  Processes = {daemon, cli}
  Process <- TwoProcesses
  Inodes = {i1, i2}
  Unix = TRUE
  FineClock = TRUE
  MaxWrites = 2
  None = None
INVARIANTS AcknowledgedSurvives
PROPERTIES ImplementsAtomicStore
SYMMETRY DaemonThreads
