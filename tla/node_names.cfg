SPECIFICATION HostSpec
CONSTANTS
    p1 = p1  p2 = p2  g1 = g1  g2 = g2
    Prefix = {p1, p2}
    Gateway = {g1, g2}
    None = None
    Snapshots <- OldAndNew
    MaxFaults = 2
    Service = {"s1", "s2"}
    Value = {"v1", "v2"}
    Managed = "m"
    MaxDnsFaults = 4
    Conn = {"c1", "c2"}
    MaxBytes = 2
    MaxTime = 2
    Retention = {0, 1}
    Limit = 1
    MaxTrafficFaults = 2
    Rule = {"cn", "ads"}
    Cn = "cn"
    Deployment = {"A", "B"}
    MaxRevision = 2
    MaxRuleFaults = 3
    Profiles <- NumberedProfiles
    Targets <- SmallTargets
    Settings <- SmallSettings
    Width = 4
    Longest = 3
    Pools <- SmallPools
    OtherRoute <- OtherRoutes
    Written <- WrittenRanges
    Unset = Unset
    MaxRouteChanges = 2
    Network = {"Rule", "home", "work"}
    Nowhere = Nowhere
    RuleMode = "Rule"
    MaxMoves = 2
    MaxModeFaults = 1
    Setups <- SmallSetups
    NoObject = NoObject
    Theirs = Theirs
    MaxEdits = 1
    MaxInterceptFaults = 2
    Port = {1, 2}
    NoRules = NoRules
    MaxStarts = 2
    MaxReloads = 1
    MaxLists = 2
    MaxCaptureFaults = 1
    Job = {"j1", "j2", "j3"}
    MaxPackages = 3
    MaxTasks = 3
    MaxPackageFaults = 2
    ArtifactSize = 3
    ExpandedLimit = 2
    Hosts <- SmallHosts
    Wants <- SmallWants
    Stables <- MinorsOfStable
    Documents <- SmallDocuments
    Ports = {1, 2}
    MaxStarted = 3
    MaxCores = 2
    MaxChoiceFaults = 2
INVARIANT NodeNamesUnique
CHECK_DEADLOCK FALSE
