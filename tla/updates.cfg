SPECIFICATION MCSpec
CONSTANTS
  App = {"resources", "ui"}
  Ui = {"ui"}
  Stores = {}
  File = {"executable", "state"}
  MaxTasks = 2
  Shape = {"s", "t"}
  Settings <- MCSettings
  RuleSet = {"r1", "r2"}
  Domains = {"a", "b"}
  Upstream = {"u", "v"}
  Server = {"x", "y"}
  MaxDnsFaults = 1
  Profile = {"p1", "p2"}
  Source = {"u"}
  Imported = "i"
  Network = {"n1", "n2"}
  CustomNode = {"c1", "c2"}
  MaxRevision = 3
  MaxImports = 1
  Probe = {"ipv4", "ipv6"}
  Socket = {"s"}
  Chain = {"direct"}
  MaxObservations = 2
  Query = {"q1", "q2"}
  Config <- MCConfig
  Remote = "core"
  Datagram = {"core"}
  Connection = {"c1", "c2", "c3"}
  MaxIdle = 1
  MaxStates = 2
CONSTRAINT Bound
INVARIANTS
  DeploymentSafe
  SettingsAgree
  FilesOfProfileAgree
  QueriesAnswered
PROPERTIES
  TaskHonest
  EditsKept
  ReportHonest
CHECK_DEADLOCK FALSE
