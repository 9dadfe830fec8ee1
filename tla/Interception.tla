----------------------------- MODULE Interception -----------------------------
(***************************************************************************)
(* How the traffic of a Linux gateway and of a desktop comes to the core:  *)
(* what is excluded from capture (document, intranet), the tables and the  *)
(* policy routes of TPROXY (nft, policy), put up and taken down command by *)
(* command (host), and the DNS rules of a desktop's TUN (desktop_plan).    *)
(* The daemon may be killed between any two commands, and any may fail.    *)
(* Simplifications: a prefix is the set of the kinds of address in it; a   *)
(* host's addresses, gateways and broadcasts are one kind.                 *)
(***************************************************************************)
EXTENDS Naturals, SequencesExt

CONSTANTS
    Setups,             \* a profile with its host, see MCHost
    NoObject, Theirs,    \* no object, one of another program
    MaxEdits, MaxInterceptFaults

Family == {"ip", "ip6"}
Private == {"private", "lan", "self", "vpn", "upstream"}
Reserved == {{"loopback"}, Private}
Destination == Private \cup {"loopback", "wan", "server", "fake", "excluded", "public"}

\* What a profile and a host may be, and what becomes of them.
GatewaySetups ==
    [platform : {"linux", "macos", "windows", "divert"}, core : STRING,
     mode : {"disabled", "tun-router", "tproxy"}, host : BOOLEAN, intranet : BOOLEAN,
     autoLocal : BOOLEAN, autoVpn : BOOLEAN, exclusions : SUBSET SUBSET Destination,
     fakeIp : BOOLEAN, vpnOverFake : BOOLEAN, upstreams : BOOLEAN, frontend : BOOLEAN,
     pre : BOOLEAN, ipv6 : BOOLEAN, foreign : {"none", "table", "rule", "route"}]
Plans ==
    [mode : {"disabled", "tun-router", "tproxy"}, host : BOOLEAN, marked : BOOLEAN,
     excluded : SUBSET Destination]

ASSUME InterceptionAssumption ==
    Setups \subseteq GatewaySetups /\ NoObject # Theirs /\ {NoObject, Theirs} \cap Plans = {}

VARIABLES
    setup,              \* the profile and the host
    capturing,              \* what is being done, and how far it has come
    inForce,               \* the plan of the core that starts or runs
    tables, rules, routes,        \* what the host has, in either family
    trouble,            \* [pass |-> in this cleanup, left |-> since the last good one]
    killed,             \* the daemon was killed and nothing has been cleaned since
    edits, interceptFaults

interceptVars == <<setup, capturing, inForce, tables, rules, routes, trouble, killed, edits,
                   interceptFaults>>

(***************************************************************************)
(* What is left alone.                                                     *)
(***************************************************************************)
FilterOverlaps(prefixes, blocked) == {p \in prefixes : \A b \in blocked : p \cap b = {}}

\* inventory, fake_ip_prefixes and outbound_server_prefixes.
LocalPrefixes == {{"lan", "self"}, {"wan"}}
VpnPrefixes(s) == {IF s.vpnOverFake THEN {"vpn", "fake"} ELSE {"vpn"}}
FakePrefixes(s) ==
    IF s.fakeIp /\ s.core \in {"sing-box", "mihomo", "clash-rs"} THEN {{"fake"}} ELSE {}
OutboundServers(s) == IF s.core \in {"mihomo", "clash-rs"} THEN {} ELSE {{"server"}}

\* intranet::resolve: nothing that the core itself has to reach.
Resolved(s) ==
    s.exclusions \cup {{"self"}, {"server"}} \cup (IF s.upstreams THEN {{"upstream"}} ELSE {})

\* prepare_tun.  A fake address is never excluded for the sake of the host's routes.
TunExclusions(s) ==
    LET local == IF ~s.autoLocal THEN {}
                 ELSE IF s.intranet THEN FilterOverlaps(LocalPrefixes, {Private})
                 ELSE LocalPrefixes
        vpn == IF s.autoVpn THEN VpnPrefixes(s) ELSE {}
        filtered == FilterOverlaps(s.exclusions \cup local \cup vpn, FakePrefixes(s))
    IN  UNION (filtered \cup IF s.intranet THEN Resolved(s) ELSE {})

\* The core clash-rs has no field for them.
Withheld(s) == IF s.core = "clash-rs" THEN {} ELSE TunExclusions(s)

\* prepare_tproxy.
TproxyExcluded(s) ==
    LET base == Reserved \cup LocalPrefixes
        kept == IF ~s.intranet THEN base
                ELSE FilterOverlaps(base, {Private}) \cup Resolved(s)
                     \cup IF s.autoVpn THEN VpnPrefixes(s) ELSE {}
    IN  UNION (kept \cup OutboundServers(s))

\* effective_mode.
Mode(s) ==
    IF s.mode = "tun-router" /\ s.core = "v2ray" THEN "disabled"
    ELSE IF s.mode \in {"tun-router", "tproxy"} THEN s.mode ELSE "disabled"

Prepared(s) ==
    [mode |-> Mode(s), host |-> s.host, marked |-> Mode(s) = "tproxy",
     excluded |-> CASE Mode(s) = "tproxy" -> TproxyExcluded(s)
                    [] Mode(s) = "tun-router" -> Withheld(s)
                    [] OTHER -> {}]

(***************************************************************************)
(* The chains of the table.  A rule is a match and its verdict.            *)
(***************************************************************************)
ChainRule(match, verdict) == [match |-> match, verdict |-> verdict]
First(hits) == CHOOSE i \in hits : \A j \in hits : i <= j
FirstMatch(chain) ==
    LET hits == {i \in DOMAIN chain : chain[i].match}
    IN  IF hits = {} THEN "return" ELSE chain[First(hits)].verdict

Prerouting(t, p, mark) ==
    <<ChainRule(p.from = "lan" /\ p.port = "dns", "return"),
      ChainRule(p.dst \in t.excluded, "return"),
      ChainRule(mark = "route" \/ p.from = "lan", "tproxy")>>

\* output_rules.  Without the first rule what the core sends comes back to it.
OutputLooping(t, p, mark) ==
    <<ChainRule(p.port = "dns" \/ p.dst \in t.excluded, "return"), ChainRule(TRUE, "mark")>>
Output(t, p, mark) ==
    <<ChainRule(mark = "bypass", "return"),
      ChainRule(p.port = "dns" \/ p.dst \in t.excluded, "return"),
      ChainRule(TRUE, "mark")>>

SelfGuard(p) == <<ChainRule(p.dst = "self" /\ p.port = "tproxy", "reject")>>

DnsPrerouting(p) == <<ChainRule(p.from = "lan" /\ p.port = "dns", "redirect")>>
DnsOutput(mark, p) == <<ChainRule(mark = "bypass", "return"), ChainRule(p.port = "dns", "redirect")>>

Packet == [from : {"core", "host", "lan", "other"}, family : Family, dst : Destination,
           port : {"dns", "tproxy", "other"}]

Ours(object) == object \notin {NoObject, Theirs}

\* Where a packet that has the mark goes: to the core, if the policy route is there.
Delivered(f) == IF Ours(rules[f]) /\ Ours(routes[f]) THEN "core" ELSE "astray"

Forwarded(t, p) ==
    IF p.family = "ip" /\ FirstMatch(DnsPrerouting(p)) = "redirect" THEN "dns"
    ELSE IF FirstMatch(Prerouting(t, p, "none")) = "tproxy" THEN Delivered(p.family)
    ELSE "direct"

Sent(t, p) ==
    LET mark == IF p.from = "core" /\ inForce.marked THEN "bypass" ELSE "none"
        marked == t.host /\ FirstMatch(Output(t, p, mark)) = "mark"
    IN  IF FirstMatch(SelfGuard(p)) = "reject" THEN "reject"
        ELSE IF p.family = "ip" /\ t.host /\ FirstMatch(DnsOutput(mark, p)) = "redirect" THEN "dns"
        ELSE IF marked /\ FirstMatch(Prerouting(t, p, "route")) = "tproxy"
        THEN Delivered(p.family)
        ELSE "direct"

Path(p) ==
    LET t == tables[p.family]
    IN  IF ~Ours(t) THEN "direct"
        ELSE IF p.from \in {"core", "host"} THEN Sent(t, p) ELSE Forwarded(t, p)

(***************************************************************************)
(* Putting the rules up.                                                   *)
(***************************************************************************)
Off == [phase |-> "off", at |-> 0]
Step(phase) == [phase |-> phase, at |-> 0]
Linux == setup.platform = "linux"
Unharmed == [pass |-> FALSE, left |-> FALSE]

InterceptInit ==
    /\ setup \in Setups /\ capturing = Off /\ inForce = Prepared(setup)
    /\ tables = [f \in Family |-> IF setup.foreign = "table" THEN Theirs ELSE NoObject]
    /\ rules = [f \in Family |-> IF setup.foreign = "rule" THEN Theirs ELSE NoObject]
    /\ routes = [f \in Family |-> IF setup.foreign = "route" THEN Theirs ELSE NoObject]
    /\ trouble = Unharmed /\ killed = FALSE /\ edits = 0 /\ interceptFaults = 0

HostKept == UNCHANGED <<tables, rules, routes>>
Uncounted == UNCHANGED <<setup, inForce, edits, interceptFaults>>

\* Controller::prepare and apply.  A plan without interception touches nothing.
StartIntercepting ==
    /\ capturing = Off /\ Linux
    /\ inForce' = Prepared(setup)
    /\ capturing' = Step(IF inForce'.mode = "disabled" THEN "serving" ELSE "check")
    /\ HostKept /\ UNCHANGED <<setup, trouble, killed, edits, interceptFaults>>

\* Both check_collisions: what another program owns ends the start.
CheckOwners ==
    /\ capturing.phase = "check"
    /\ capturing' = Step(IF \E f \in Family : Theirs \in {tables[f], rules[f], routes[f]}
                   THEN "stop" ELSE "clean")
    /\ HostKept /\ UNCHANGED <<trouble, killed>> /\ Uncounted

\* policy::apply: the route of a family, its rule, then the other family.
Object(i) == IF i % 2 = 0 THEN "route" ELSE "rule"
FamilyAt(i) == IF i < 2 THEN "ip" ELSE "ip6"

AddPolicy ==
    /\ capturing.phase = "policy"
    /\ LET f == FamilyAt(capturing.at)
       IN  IF Object(capturing.at) = "route"
           THEN routes' = [routes EXCEPT ![f] = inForce] /\ UNCHANGED rules
           ELSE rules' = [rules EXCEPT ![f] = inForce] /\ UNCHANGED routes
    /\ capturing' = IF capturing.at = 3 THEN Step("load") ELSE [capturing EXCEPT !.at = @ + 1]
    /\ UNCHANGED <<tables, trouble, killed>> /\ Uncounted

\* nft::apply is one transaction over both families.
LoadTables ==
    /\ capturing.phase = "load"
    /\ tables' = [f \in Family |-> inForce] /\ capturing' = Step("serving")
    /\ UNCHANGED <<rules, routes, trouble, killed>> /\ Uncounted

InterceptFault ==
    /\ interceptFaults < MaxInterceptFaults /\ interceptFaults' = interceptFaults + 1
    /\ UNCHANGED <<setup, inForce, edits>>

CommandFails ==
    /\ capturing.phase \in {"policy", "load"} /\ capturing' = Step("undo")
    /\ HostKept /\ UNCHANGED <<trouble, killed>> /\ InterceptFault

\* The phase timed out, or the core ended: the supervisor cleans up.
Abandon ==
    /\ capturing.phase \in {"check", "clean", "policy", "load", "undo"}
    /\ capturing' = Step("stop") /\ trouble' = [trouble EXCEPT !.left = @ \/ trouble.pass, !.pass = FALSE]
    /\ HostKept /\ UNCHANGED killed /\ InterceptFault

(***************************************************************************)
(* Taking them down: cleanup_network, before a plan is put up, after an    *)
(* error, and when a runtime stops.  The tables go first; the policy goes  *)
(* even when they could not be removed.                                    *)
(***************************************************************************)
Cleans == capturing.phase \in {"clean", "undo", "stop"}
Removed(object) == IF Ours(object) THEN NoObject ELSE object

\* What follows a cleanup, good or bad.
AfterCleanup(bad) ==
    CASE capturing.phase = "clean" ->
            Step(IF bad THEN "stop" ELSE IF inForce.mode = "tproxy" THEN "policy" ELSE "serving")
      [] capturing.phase = "undo" -> Step("stop")
      [] OTHER -> Off

EndCleanup(bad) ==
    /\ capturing' = AfterCleanup(bad)
    /\ trouble' = [pass |-> FALSE, left |-> bad]
    /\ killed' = (killed /\ bad)

\* nft::delete_owned removes nothing when a table is not its own.
DeleteTables ==
    /\ Cleans /\ capturing.at = 0
    /\ LET refused == \E f \in Family : tables[f] = Theirs
       IN  /\ tables' = [f \in Family |-> IF refused THEN tables[f] ELSE Removed(tables[f])]
           /\ trouble' = [trouble EXCEPT !.pass = refused]
    /\ capturing' = [capturing EXCEPT !.at = 1]
    /\ UNCHANGED <<rules, routes, killed>> /\ Uncounted

\* policy::delete: the rule of a family, its route, then the other family.
DeletePolicy ==
    /\ Cleans /\ capturing.at \in 1..4
    /\ LET f == FamilyAt(capturing.at - 1)
       IN  IF capturing.at % 2 = 1
           THEN rules' = [rules EXCEPT ![f] = Removed(@)] /\ UNCHANGED routes
           ELSE routes' = [routes EXCEPT ![f] = Removed(@)] /\ UNCHANGED rules
    /\ IF capturing.at = 4 THEN EndCleanup(trouble.pass)
       ELSE capturing' = [capturing EXCEPT !.at = @ + 1] /\ UNCHANGED <<trouble, killed>>
    /\ UNCHANGED tables /\ Uncounted

\* A command that fails is remembered, one whose output is not understood ends the cleanup.
DeleteFails ==
    /\ Cleans
    /\ \/ capturing.at < 4 /\ capturing' = [capturing EXCEPT !.at = @ + 1]
          /\ trouble' = [trouble EXCEPT !.pass = TRUE] /\ UNCHANGED killed
       \/ capturing.at > 0 /\ EndCleanup(TRUE)
    /\ HostKept /\ InterceptFault

StopIntercepting ==
    /\ capturing.phase = "serving" /\ capturing' = Step("stop")
    /\ HostKept /\ UNCHANGED <<trouble, killed>> /\ Uncounted

\* The next daemon finds what is left when it puts up a plan, or stops.
KillGateway ==
    /\ capturing # Off /\ capturing' = Off
    /\ killed' = TRUE /\ trouble' = [pass |-> FALSE, left |-> trouble.left \/ trouble.pass]
    /\ HostKept /\ InterceptFault

CleanIdle ==
    /\ capturing = Off /\ Linux /\ capturing' = Step("stop")
    /\ killed \/ trouble.left
    /\ HostKept /\ UNCHANGED <<trouble, killed>> /\ Uncounted

EditSetup ==
    /\ edits < MaxEdits /\ edits' = edits + 1 /\ Linux
    /\ setup' \in {[setup EXCEPT !.mode = "disabled"], [setup EXCEPT !.host = ~@]}
    /\ HostKept /\ UNCHANGED <<capturing, inForce, trouble, killed, interceptFaults>>

(***************************************************************************)
(* A desktop: the DNS frontend asks the original resolvers itself or the   *)
(* core, and programs ask the frontend.  sing-box follows the first rule   *)
(* that matches.                                                           *)
(***************************************************************************)
Query == [via : {"core-in", "tun"}, dst : {"upstream", "public"}]
RouteRule(inbounds, dsts, action) == [inbounds |-> inbounds, dsts |-> dsts, action |-> action]

CompiledRules ==
    <<RouteRule({"core-in"}, Destination, "hijack"),
      RouteRule({"core-in", "tun"}, Destination, "hijack")>>

\* insert_original_dns_bypass: behind the rules of the core's own DNS inbound, because its
\* queries bear the address of a public resolver, which may be an original one.
WithBypass(s, compiled) ==
    IF ~s.upstreams THEN compiled
    ELSE LET behind == {i \in DOMAIN compiled : compiled[i].inbounds = {"core-in"}}
             position == IF behind = {} THEN 1 ELSE 1 + CHOOSE i \in behind : \A j \in behind : j <= i
         IN  InsertAt(compiled, position, RouteRule({"core-in", "tun"}, {"upstream"}, "direct"))

\* configure_windows_dns_redirect, windows_platform.
DesktopRules(s) ==
    IF ~s.frontend THEN CompiledRules
    ELSE IF s.platform = "windows"
    THEN <<RouteRule({"tun"}, Destination, "frontend")>> \o CompiledRules
    ELSE WithBypass(s, CompiledRules)

\* disable_fake_ipv6: neither addresses that cannot be reached nor routes for them.
FakeTypes(s) ==
    IF s.platform \in {"windows", "divert"} /\ ~s.ipv6 THEN {"A"} ELSE {"A", "AAAA"}
FakeRoutes(s) == {"fake"} \cup IF "AAAA" \in FakeTypes(s) THEN {"fake6"} ELSE {}

\* configure_windows_routes, configure_windows_dns_redirect, intranet::apply.  An address
\* that is not named is captured only when no address is.
Everything == Destination \cup {"fake6", "dns-target"}
RouteAddress(s) ==
    LET fakes == IF s.fakeIp THEN FakeRoutes(s) ELSE {}
        compiled == IF s.pre THEN fakes \cup {"public"} ELSE {}
        target == IF s.platform = "windows" THEN {"dns-target"} ELSE {}
        windows == s.frontend /\ s.platform \in {"windows", "divert"}
        named == IF ~windows \/ s.pre THEN compiled
                 ELSE IF fakes = {} THEN {} ELSE compiled \cup fakes \cup target
    IN  (IF named = {} THEN Everything ELSE named) \cup IF s.intranet THEN Private ELSE {}

RouteExcluded(s) ==
    (IF s.frontend /\ s.platform \in {"windows", "divert"} /\ s.upstreams
     THEN {"upstream"} ELSE {})
        \cup IF s.intranet THEN UNION Resolved(s) ELSE {}

InTun(s) == RouteAddress(s) \ RouteExcluded(s)

Answered(s, q) ==
    LET chain == DesktopRules(s)
        hits == {i \in DOMAIN chain : q.via \in chain[i].inbounds /\ q.dst \in chain[i].dsts}
    IN  chain[First(hits)].action

------------------------------------------------------------------------------
InterceptNext ==
    \/ StartIntercepting \/ CheckOwners \/ AddPolicy \/ LoadTables \/ CommandFails \/ Abandon
    \/ DeleteTables \/ DeletePolicy \/ DeleteFails \/ StopIntercepting \/ KillGateway
    \/ CleanIdle \/ EditSetup

InterceptSpec == InterceptInit /\ [][InterceptNext]_interceptVars

(***************************************************************************)
(* What a packet may rely on, said without chains.                         *)
(***************************************************************************)
\* The addresses that are never proxied.
Spared(s) ==
    {"loopback", "self", "wan"}
      \cup (IF ~s.intranet THEN Private
            ELSE (UNION s.exclusions) \cup {"server"} \cup (IF s.upstreams THEN {"upstream"} ELSE {})
                 \cup IF s.autoVpn THEN UNION VpnPrefixes(s) ELSE {})
      \cup UNION OutboundServers(s)

Wanted(p) ==
    IF p.from \in {"core", "host"} /\ p.dst = "self" /\ p.port = "tproxy" THEN "reject"
    ELSE IF p.from \in {"core", "other"} \/ (p.from = "host" /\ ~inForce.host) THEN "direct"
    ELSE IF p.port = "dns" THEN IF p.family = "ip" THEN "dns" ELSE "direct"
    ELSE IF p.dst \in inForce.excluded THEN "direct" ELSE "core"

\* While a core serves, its packets leave, those of the LAN and, if wanted, of the host
\* come to it, and nothing else is touched.
ServedAsWanted ==
    capturing.phase = "serving" /\ inForce.mode = "tproxy" =>
        \A p \in Packet : Path(p) = Wanted(p)

\* Policy before tables, tables before policy: whatever fails or dies in between, no packet
\* is marked for a route that is not there, unless tables could not be removed.
NoneAstray ==
    ~trouble.pass /\ ~trouble.left => \A p \in Packet : Path(p) # "astray"

\* What other programs own stays, and a good cleanup leaves nothing else.
OwnersKept ==
    \A f \in Family :
        /\ (tables[f] = Theirs) <=> (setup.foreign = "table")
        /\ (rules[f] = Theirs) <=> (setup.foreign = "rule")
        /\ (routes[f] = Theirs) <=> (setup.foreign = "route")
        /\ capturing = Off /\ ~killed /\ ~trouble.left =>
               ~Ours(tables[f]) /\ ~Ours(rules[f]) /\ ~Ours(routes[f])

\* The plans: capture spares exactly what it has to, fake addresses stay captured, and a
\* desktop's query neither comes back to the frontend nor misses the core.
ExclusionsRight ==
    /\ Mode(setup) = "tproxy" => TproxyExcluded(setup) = Spared(setup)
    /\ ~setup.intranet /\ FakePrefixes(setup) # {} => "fake" \notin TunExclusions(setup)
    /\ setup.intranet => {"self", "server"} \subseteq TunExclusions(setup)

DesktopDnsRight ==
    ~Linux =>
        /\ \A q \in Query : q.via = "core-in" => Answered(setup, q) = "hijack"
        /\ setup.frontend /\ setup.upstreams =>
               \/ "upstream" \notin InTun(setup)
               \/ Answered(setup, [via |-> "tun", dst |-> "upstream"]) = "direct"
        /\ setup.fakeIp => FakeRoutes(setup) \subseteq InTun(setup) \cup UNION setup.exclusions

InterceptionSound ==
    ServedAsWanted /\ NoneAstray /\ OwnersKept /\ ExclusionsRight /\ DesktopDnsRight

==============================================================================
