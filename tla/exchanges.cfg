SPECIFICATION ExchangeSpec
CONSTANTS
  User = {ann, bob}
  Code = {"c"}
  Tab = {t1, t2}
  Key = {k1, k2}
  MaxAccountEvents = 2
  Editor = {e1, e2}
  Request = {r1, r2}
  Config = {"direct", "relayed"}
  Relayed = {"relayed"}
  NodeContent = {"n"}
  MaxClock = 2
  MaxEgress = 2
  MaxOrigin = 1
  MaxPublicEvents = 2
  Proxy = {"p1","p2"}
  Owner = {"u1", "u2"}
  Admin = {"u1"}
  OwnerOf <- MCOwnerOf
  Content = {"a", "x"}
  Rejected = {"x"}
  LastRevision <- MCLastRevision
  MaxInstances = 1
  MaxDraining = 1
  MaxProxyFaults = 1
  FetchProxy = {"f1", "f2"}
  Source = {"s"}
  Provider = {"r"}
  Host = {"h1", "h2"}
  Job = {"j1"}
  Usable = {"u"}
  Rulebook <- MCRulebook
  MaxRedirects = 1
  MaxFetchEdits = 2
  Site = {"s1", "s2"}
  Relay = "own"
  Documents <- MCDocuments
  Lists <- MCLists
  Routing <- MCRouting
  Attempts = 2
  Hops = 1
  Window = 2
  MaxSourceJobs = 2
  MaxSourceEvents = 1
INVARIANTS AccountsAgree AnswersSound RowsAgree DownloadsKeepTheirWay
PROPERTY EditsBuildOnEachOther
CHECK_DEADLOCK FALSE
