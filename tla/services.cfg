SPECIFICATION ServicesSpec
CONSTANTS
  Proxy = {"p1"}
  Owner = {"u1"}
  Admin = {"u1"}
  OwnerOf <- MCOwnerOf
  Content = {"a", "x"}
  Rejected = {"x"}
  LastRevision <- MCLastRevision
  MaxInstances = 1
  MaxDraining = 1
  MaxProxyFaults = 1
  Tunnel = {"t1"}
  Endpoint = {"a", "b"}
  Worker = {"w1", "w2", "w3"}
  TunnelClient = {"c1"}
  MaxExits = 1
  MaxInterrupts = 1
  Shape = {"s"}
  Settings <- MCSettings
  RuleSet = {"r1"}
  Domains = {"a", "b"}
  Upstream = {"u"}
  Server = {"x"}
  MaxDnsFaults = 1
  Mac = {"m1", "m2"}
  Address = {1, 2}
  Reservations <- MCReservations
  LeaseTime = 2
  MaxStarts = 2
  MaxRevocations = 1
  Profile = {"p1", "p2"}
  Source = {"u"}
  Imported = "i"
  Network = {"n1"}
  CustomNode = {"c1"}
  MaxRevision = 2
  MaxImports = 1
  Prefix = {q1, q2}
  Gateway = {g1, g2}
  None = None
  Snapshots <- OldAndNew
  MaxFaults = 1
INVARIANTS NoStrayProcess
PROPERTIES ProxyServed TunnelServed LocksReleased ScheduleFollowed DriftRepaired
CHECK_DEADLOCK FALSE
