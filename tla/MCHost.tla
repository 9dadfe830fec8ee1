-------------------------------- MODULE MCHost --------------------------------
(***************************************************************************)
(* What the client does beside its core: the reconciliation of CN routes,  *)
(* the takeover of the resolver, the refresh of rule sets, the traffic     *)
(* history, compilation, the network it is in, the capture of traffic, the *)
(* packages that are downloaded and put in place, and the choice of a core.*)
(* They share no state; one run explores each with the others at rest.     *)
(***************************************************************************)
EXTENDS CnRoutes, SystemDns, RuleSets, Traffic, Compilation, FakeIp, NetworkModes,
        Interception, GatewayCapture, Packages, CoreChoice

CONSTANTS p1, p2, g1, g2

VARIABLE focus
hostVars ==
    <<vars, dnsVars, ruleVars, trafficVars, compileVars, fakeVars, modeVars,
      interceptVars, captureVars, packageVars,
      choiceVars, focus>>

OldAndNew == {{p1}, {p2}}

(***************************************************************************)
(* Small profiles, targets and settings for the compilation.  What a user  *)
(* may write into a profile that no compiler checks (a rule or a default   *)
(* that names a group which does not exist, a group with the name of a     *)
(* built-in outbound) is not among them.                                   *)
(***************************************************************************)
Entry(text, type) ==
    [text |-> text, flags |-> <<>>, place |-> "", words |-> {}, type |-> type, domain |-> FALSE,
     reality |-> FALSE, valid |-> TRUE, loopback |-> FALSE, port |-> 443]
A == [Entry("A", "ss") EXCEPT !.domain = TRUE]
Flagged == [Entry("B", "vless") EXCEPT !.flags = <<"fr">>, !.reality = TRUE]
Placed == [Entry("Tokyo", "anytls") EXCEPT !.place = "jp"]
Support == [Entry("help", "trojan") EXCEPT !.words = {"support"}]
Wired == Entry("W", "wireguard")
Notice == [Entry("notice", "ss") EXCEPT !.loopback = TRUE, !.port = 1]
BrokenEntry == [Entry("", "ss") EXCEPT !.valid = FALSE]

Source(prefix, failed, nodesKept) ==
    [enabled |-> TRUE, prefix |-> prefix, failed |-> failed, snapshot |-> nodesKept]
SourceLists ==
    {<<>>, <<Source("", FALSE, <<A, A, Flagged, Notice>>), Source("x", FALSE, <<A, Placed>>)>>,
     <<Source("", FALSE, <<Support, Placed, BrokenEntry>>), Source("", TRUE, <<>>)>>,
     <<Source("", FALSE, <<Wired>>), Source("", TRUE, <<>>)>>,
     <<Source("", TRUE, <<>>)>>, <<Source("", FALSE, <<Notice>>)>>}

SelectGroup(name, members, default) == [Group(name, members) EXCEPT !.default = default]
Fastest == [Group("Fast", <<>>) EXCEPT !.kind = "url-test"]
Fixed == [Group("Ads", <<"DIRECT", "REJECT">>) EXCEPT !.all = FALSE, !.readonly = TRUE]
GroupLists ==
    {<<>>, <<SelectGroup(Foreign, <<"Fast", "DIRECT">>, ""), Fastest,
             SelectGroup(Other, <<Foreign>>, ""), Fixed>>,
     <<SelectGroup("Main", <<"DIRECT">>, "DIRECT"), SelectGroup(PrivateGroup, <<"Main">>, "")>>}

Dns ==
    [system |-> FALSE, fakeip |-> TRUE, cnDomainLocal |-> TRUE, cnIpLocal |-> TRUE,
     cnDomainSet |-> TRUE, cnIpSet |-> TRUE, hkSet |-> TRUE, excludeHk |-> TRUE,
     gfw |-> FALSE, detour |-> "", takeover |-> FALSE, managed |-> FALSE, override |-> {}]
DnsChoices ==
    {Dns, [Dns EXCEPT !.cnIpSet = FALSE, !.hkSet = FALSE],
     [Dns EXCEPT !.fakeip = FALSE, !.cnDomainSet = FALSE, !.detour = "direct", !.system = TRUE],
     [Dns EXCEPT !.takeover = TRUE, !.hkSet = FALSE]}

Wireguard ==
    [tag |-> "home", kind |-> "endpoint", enabled |-> TRUE, complete |-> TRUE, domain |-> TRUE,
     dns |-> {"home-dns"}, routes |-> TRUE, home |-> {"n1"}]
Vmess == [Wireguard EXCEPT !.tag = "lab", !.kind = "outbound", !.dns = {}, !.home = {}]
AccessChoices ==
    {[enabled |-> FALSE, connectors |-> <<Wireguard>>],
     [enabled |-> TRUE, connectors |-> <<Wireguard, [Vmess EXCEPT !.complete = FALSE], Vmess>>]}

Intranet == [on |-> "unset", mode |-> "unset"]
Custom(sources, groups, dns, access) ==
    [manual |-> <<>>, custom |-> IF Len(sources) = 1 THEN <<Entry("C", "socks5")>> ELSE <<>>,
     sources |-> sources, system |-> {}, groups |-> groups,
     providers |-> IF groups = <<>> THEN <<>>
                   ELSE <<[tag |-> "list", outbound |-> groups[1].name],
                          [tag |-> "sempre-geosite-cn", outbound |-> ""]>>,
     filters |-> IF Len(groups) = 2 THEN {} ELSE {"support"},
     rules |-> IF groups = <<>> THEN <<"DIRECT">> ELSE <<groups[1].name, "REJECT">>,
     dns |-> dns, access |-> access, cn |-> "off", intranet |-> Intranet, capture |-> "tun",
     policy |-> [enabled |-> FALSE, direct |-> {}]]
Recommended(sources, groups) ==
    [Custom(sources, groups, Dns, (CHOOSE a \in AccessChoices : a.enabled)) EXCEPT !.rules = <<>>,
        !.system = {"groups", "rules", "filters", "dns"}]
SmallProfiles ==
    {Custom(s, g, d, a) : s \in SourceLists, g \in GroupLists, d \in DnsChoices,
                          a \in AccessChoices}
        \cup {Recommended(s, <<>>) : s \in SourceLists}

\* A source with a name that repeats, and one that already has the number it would get.
NumberedSource == Source("", FALSE, <<A, A, [A EXCEPT !.text = "A (2)"]>>)
NumberedProfiles == {Recommended(<<NumberedSource>>, <<>>)}

SingBox(version, system) ==
    [core |-> "sing-box", format |-> "managed", version |-> version, platform |-> system]
Core(name, format) == [core |-> name, format |-> format, version |-> 0, platform |-> "default"]
SmallTargets ==
    {SingBox(11, "default"), SingBox(12, "windows"), SingBox(12, "openwrt"),
     SingBox(11, "openwrt"), SingBox(14, "macos"), SingBox(14, "default"),
     Core("clash", "published"), Core("clash", "managed"), Core("xray", "managed"),
     Core("v2ray", "managed"), Core("dae", "managed")}

Plain ==
    [cn |-> "off", intranet |-> [on |-> "yes", mode |-> "proxy"], gateway |-> FALSE,
     switching |-> FALSE, direct |-> {}, dns |-> FALSE, ruleSets |-> <<>>,
     remote |-> FALSE]
LocalSettings ==
    {Plain, [Plain EXCEPT !.cn = "proxy", !.intranet.on = "no"],
     [Plain EXCEPT !.cn = "direct", !.intranet.mode = "direct", !.switching = TRUE,
                   !.direct = {"n2"}],
     [Plain EXCEPT !.gateway = TRUE, !.dns = TRUE, !.cn = "proxy",
                   !.ruleSets = <<[name |-> "work", mode |-> "group"],
                                  [name |-> "lan", mode |-> "direct"]>>]}
SmallSettings == LocalSettings \cup {[s EXCEPT !.remote = TRUE] : s \in LocalSettings}

(***************************************************************************)
(* One component at a time: the others rest at one of their states.        *)
(***************************************************************************)
AnyOf(S) == CHOOSE x \in S : TRUE
RoutesAtRest ==
    /\ uplink = AnyOf(Gateway) /\ ~detached /\ published = AnyOf(Snapshots)
DnsAtRest ==
    /\ platform = "linux" /\ setting = [s \in Service |-> AnyOf(Value)]

RulesAtRest == wanted = AnyOf(Deployment) /\ entries = Nothing
TrafficAtRest == kept = AnyOf(Retention)
CompileAtRest ==
    stage = "rest" /\ profile = 0 /\ target = 0 /\ settings = 0 /\ nodes = 0 /\ output = Unwritten

SmallPools == <<[pool |-> <<0, 0>>, minimum |-> 2], [pool |-> <<0, 1>>, minimum |-> 3],
                [pool |-> <<1, 0>>, minimum |-> 3]>>
OtherRoutes == {<<0>>, <<0, 0, 1>>, <<0, 0, 1, 0>>, <<1, 0, 0, 1>>, <<1, 0, 1>>}
WrittenRanges == {<<0, 0>>, <<0, 1, 0>>}
FakeAtRest ==
    /\ foreign = 0 /\ sample = 0 /\ range = 0 /\ key = 0 /\ build = Unset /\ tun = 0
    /\ routeChanges = 0
ModesAtRest ==
    /\ link = 0 /\ neighbour = 0 /\ seen = 0 /\ automatic = 0 /\ saved = 0 /\ core = 0
    /\ watch = [step |-> "off"] /\ routeEvent = 0 /\ moves = 0 /\ modeFaults = 0

PlainGateway ==
    [platform |-> "linux", core |-> "sing-box", mode |-> "tproxy", host |-> TRUE,
     intranet |-> FALSE, autoLocal |-> TRUE, autoVpn |-> TRUE,
     exclusions |-> {{"excluded"}, {"fake"}}, fakeIp |-> TRUE, vpnOverFake |-> FALSE,
     upstreams |-> TRUE, frontend |-> TRUE, pre |-> FALSE, ipv6 |-> TRUE, foreign |-> "none"]

\* Gateways beside other programs, gateways with every exclusion, and desktops.
SmallSetups ==
    {[PlainGateway EXCEPT !.foreign = f, !.core = c] :
        f \in {"none", "table", "rule", "route"}, c \in {"mihomo", "xray"}}
    \cup {[PlainGateway EXCEPT !.core = c, !.mode = m, !.intranet = i, !.autoLocal = a, !.autoVpn = a,
                       !.vpnOverFake = o, !.upstreams = o, !.exclusions = IF a THEN {} ELSE @] :
            c \in {"sing-box", "clash-rs", "v2ray"}, m \in {"tun-router", "tproxy"},
            i \in BOOLEAN, a \in BOOLEAN, o \in BOOLEAN}
    \cup {[PlainGateway EXCEPT !.platform = p, !.intranet = i, !.fakeIp = f, !.upstreams = u,
                       !.frontend = w, !.pre = q, !.ipv6 = x] :
            p \in {"macos", "windows", "divert"}, i \in BOOLEAN, f \in BOOLEAN, u \in BOOLEAN,
            w \in BOOLEAN, q \in BOOLEAN, x \in BOOLEAN}
InterceptionAtRest ==
    /\ setup = 0 /\ capturing = 0 /\ inForce = 0 /\ tables = 0 /\ rules = 0 /\ routes = 0
    /\ trouble = 0 /\ killed = 0 /\ edits = 0 /\ interceptFaults = 0
CaptureAtRest ==
    /\ config = 0 /\ router = 0 /\ proxy = 0 /\ captureJob = 0 /\ held = 0 /\ script = 0
    /\ ruleset = 0 /\ markPolicy = 0 /\ list = 0 /\ include = 0 /\ reapply = 0
    /\ amiss = 0 /\ starts = 0 /\ reloads = 0 /\ captureFaults = 0

PackagesAtRest ==
    /\ part = 0 /\ proposal = 0 /\ prepared = 0 /\ current = 0 /\ backup = 0 /\ jobs = 0
    /\ expected = 0 /\ spoiled = 0 /\ crowded = 0 /\ removed = 0 /\ dashboard = 0 /\ boot = 0
    /\ installers = 0 /\ shown = 0 /\ workers = 0 /\ guard = 0 /\ fetch = 0 /\ removal = 0
    /\ remains = 0 /\ packageFaults = 0

ChoiceAtRest ==
    /\ side = 0 /\ host = 0 /\ want = 0 /\ latest = 0 /\ assets = 0 /\ seenRelease = 0
    /\ coresThere = 0 /\ channel = 0 /\ selection = 0 /\ applying = 0 /\ suited = 0
    /\ compiled = 0 /\ control = 0 /\ runtimeFile = 0 /\ coreRuns = 0 /\ otherPort = 0
    /\ started = 0 /\ choiceFaults = 0

\* Desktops and a gateway of two levels, and a router.
SmallHosts ==
    {[os |-> "linux", arch |-> "amd64", level |-> 3, openwrt |-> FALSE],
     [os |-> "linux", arch |-> "arm64", level |-> 1, openwrt |-> TRUE],
     [os |-> "darwin", arch |-> "arm64", level |-> 1, openwrt |-> FALSE],
     [os |-> "windows", arch |-> "amd64", level |-> 2, openwrt |-> FALSE]}
SmallWants ==
    {[dns |-> d, mode |-> "tun-router", interfaces |-> FALSE, private |-> "off",
      protocols |-> {"ss"}] : d \in BOOLEAN}
    \cup {[dns |-> FALSE, mode |-> "tun-router", interfaces |-> FALSE, private |-> "dns",
           protocols |-> {"anytls"}],
          [dns |-> FALSE, mode |-> "tproxy", interfaces |-> TRUE, private |-> "plain",
           protocols |-> {}]}
MinorsOfStable == <<13, 14, 100>>
SmallDocuments ==
    {[kind |-> "sing-box", openwrt |-> o, published |-> n, secret |-> 9, inbounds |-> <<>>,
      rules |-> <<>>, open |-> {"ui"}] : o \in BOOLEAN, n \in {0, 1}}
    \cup {[kind |-> k, openwrt |-> FALSE, published |-> 1, secret |-> 9,
           inbounds |-> <<"in", "api">>, rules |-> <<"rule">>, open |-> {"tls"}] :
              k \in {"clash", "xray"}}

HostInit ==
    /\ focus \in {"routes", "dns", "rules", "traffic", "compile", "ranges", "modes", "gateway",
                 "router", "packages", "choice"}
    /\ Init /\ (focus = "routes" \/ RoutesAtRest)
    /\ DnsInit /\ (focus = "dns" \/ DnsAtRest)
    /\ RuleInit /\ (focus = "rules" \/ RulesAtRest)
    /\ TrafficInit /\ (focus = "traffic" \/ TrafficAtRest)
    /\ IF focus = "compile" THEN CompileInit ELSE CompileAtRest
    /\ IF focus = "ranges" THEN FakeInit ELSE FakeAtRest
    /\ IF focus = "modes" THEN ModeInit ELSE ModesAtRest
    /\ IF focus = "gateway" THEN InterceptInit ELSE InterceptionAtRest
    /\ IF focus = "router" THEN CaptureInit ELSE CaptureAtRest
    /\ IF focus = "packages" THEN PackageInit ELSE PackagesAtRest
    /\ IF focus = "choice" THEN ChoiceInit ELSE ChoiceAtRest

HostNext ==
    /\ UNCHANGED focus
    /\ \/ focus = "routes" /\ Next
          /\ UNCHANGED <<dnsVars, ruleVars, trafficVars, compileVars, fakeVars,
                         modeVars, interceptVars, captureVars, packageVars,
                         choiceVars>>
       \/ focus = "dns" /\ DnsNext
          /\ UNCHANGED <<vars, ruleVars, trafficVars, compileVars, fakeVars,
                         modeVars, interceptVars, captureVars, packageVars,
                         choiceVars>>
       \/ focus = "rules" /\ RuleNext
          /\ UNCHANGED <<vars, dnsVars, trafficVars, compileVars, fakeVars,
                         modeVars, interceptVars, captureVars, packageVars,
                         choiceVars>>
       \/ focus = "traffic" /\ TrafficNext
          /\ UNCHANGED <<vars, dnsVars, ruleVars, compileVars, fakeVars,
                         modeVars, interceptVars, captureVars, packageVars,
                         choiceVars>>
       \/ focus = "compile" /\ CompileNext
          /\ UNCHANGED <<vars, dnsVars, ruleVars, trafficVars, fakeVars,
                         modeVars, interceptVars, captureVars, packageVars,
                         choiceVars>>
       \/ focus = "ranges" /\ FakeNext
          /\ UNCHANGED <<vars, dnsVars, ruleVars, trafficVars, compileVars,
                         modeVars, interceptVars, captureVars, packageVars,
                         choiceVars>>
       \/ focus = "modes" /\ ModeNext
          /\ UNCHANGED <<vars, dnsVars, ruleVars, trafficVars, compileVars,
                         fakeVars, interceptVars, captureVars, packageVars,
                         choiceVars>>
       \/ focus = "gateway" /\ InterceptNext
          /\ UNCHANGED <<vars, dnsVars, ruleVars, trafficVars, compileVars,
                         fakeVars, modeVars, captureVars, packageVars,
                         choiceVars>>
       \/ focus = "router" /\ CaptureNext
          /\ UNCHANGED <<vars, dnsVars, ruleVars, trafficVars, compileVars,
                         fakeVars, modeVars, interceptVars, packageVars,
                         choiceVars>>
       \/ focus = "packages" /\ PackageNext
          /\ UNCHANGED <<vars, dnsVars, ruleVars, trafficVars, compileVars,
                         fakeVars, modeVars, interceptVars, captureVars,
                         choiceVars>>
       \/ focus = "choice" /\ ChoiceNext
          /\ UNCHANGED <<vars, dnsVars, ruleVars, trafficVars, compileVars,
                         fakeVars, modeVars, interceptVars, captureVars,
                         packageVars>>

HostSpec == HostInit /\ [][HostNext]_hostVars

(***************************************************************************)
(* What the run checks of more than one of them.                           *)
(***************************************************************************)
\* What was taken over of the host, its routes and its resolver, comes back as it was.
HostRestored == RoutesSafe /\ OriginalsKept

\* The range of fake addresses and the mode are those of the network the host is in.
NetworkFollowed == FakeIpSound /\ ModeFollows

\* Packets of the LAN, of the host and of the core go where they are wanted, on a gateway and
\* on a desktop; and on a router whose firewall is reloaded, but for what CaptureHolds says of
\* commands that failed and of reloads that came before, or after, what they put back.
CaptureSound ==
    /\ focus = "gateway" => InterceptionSound
    /\ focus = "router" => CaptureHolds

\* What is downloaded is what was released, and what it replaces is there until it is; the core
\* that is chosen can do what was asked, and the one that runs is Sempre's own to control.
PackagesKept ==
    /\ focus = "packages" => PackagesSound
    /\ focus = "choice" => ChoiceSound

===============================================================================
