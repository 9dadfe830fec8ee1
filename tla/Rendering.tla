------------------------------ MODULE Rendering ------------------------------
(***************************************************************************)
(* What sempre-converter writes for a core: the outbounds, groups, DNS     *)
(* servers and rules of a configuration as far as they name each other.    *)
(* A document is a record of what it defines and of the names it uses; the *)
(* order of rules, addresses and the wording of a format are left out.     *)
(***************************************************************************)
EXTENDS Integers, Sequences, FiniteSets
LOCAL INSTANCE SequencesExt

DirectName == "Direct"                  \* the name shown for the direct outbound
Foreign == "Foreign"                \* well-known groups: foreign traffic,
Other == "Other"                    \* everything else,
PrivateGroup == "Private"           \* private addresses,
ChinaGroup == "China"               \* and addresses in China
CnGroup == "DNS CN pre-routing"     \* CN_PROXY_GROUP

Normal(n) ==
    IF n \in {"DIRECT", DirectName} THEN "direct" ELSE IF n = "REJECT" THEN "reject" ELSE n
Restored(n) == IF n = "direct" THEN DirectName ELSE n
BuiltIn(n) == Normal(n) \in {"direct", "reject", "dns-out"}

NamesOf(groups) == {groups[i].name : i \in DOMAIN groups}
Merged(s, t) == s \o SelectSeq(t, LAMBDA x : x \notin ToSet(s))
Mapped(s, Op(_)) == [i \in DOMAIN s |-> Op(s[i])]

\* The group of a name, or else the first one.
Preferred(groups, name) ==
    IF name \in NamesOf(groups) THEN name ELSE IF groups = <<>> THEN "proxy" ELSE groups[1].name

Group(name, members) ==
    [name |-> name, kind |-> "select", members |-> members, all |-> TRUE, readonly |-> FALSE,
     default |-> "", dns |-> FALSE]

AppendMissing(groups) ==
    LET members == <<"DIRECT">> \o (IF Foreign \in NamesOf(groups) THEN <<Foreign>> ELSE <<>>)
        Added(name) == [Group(name, members) EXCEPT !.default = "DIRECT"]
    IN  groups \o SelectSeq(<<Added(PrivateGroup), Added(ChinaGroup)>>,
                            LAMBDA g : g.name \notin NamesOf(groups))

IsDesktop(t) == t.platform \in {"windows", "macos"}
IsOpenwrt(t) == t.platform = "openwrt"
Modern(t) == t.version # 11
CnPreRouting(p) == p.cn # "off"
CnThroughProxy(p) == p.cn = "proxy"

\* intranet::outbound: where private addresses go, if it is said at all.
IntranetOutbounds(p) ==
    IF p.intranet.on = "no" THEN {}
    ELSE IF p.intranet.mode = "direct" THEN {"DIRECT"} ELSE {PrivateGroup}

(***************************************************************************)
(* sing-box.                                                               *)
(***************************************************************************)
SingBoxTypes(t) ==
    {"vmess", "vless", "trojan", "ss", "hysteria2", "hysteria", "tuic", "http", "socks5"}
        \cup (IF Modern(t) THEN {"anytls"} ELSE {})

Outbound(tag, kind) ==
    [tag |-> tag, kind |-> kind, members |-> <<>>, default |-> "", resolver |-> "",
     dns |-> FALSE]

\* convert_proxy: servers named by a domain are resolved before they are reached.
ConvertProxy(n, t) ==
    [Outbound(n.name, "node") EXCEPT !.resolver =
        IF Modern(t) /\ n.domain THEN IF IsOpenwrt(t) THEN "local" ELSE "bootstrap" ELSE ""]

SelectorDefault(g, members, t) ==
    IF g.default # "" THEN Normal(g.default)
    ELSE LET nodes == SelectSeq(members, LAMBDA m : ~BuiltIn(m))
         IN  IF ~IsOpenwrt(t) /\ g.name = Foreign /\ nodes # <<>> THEN nodes[1]
             ELSE IF members = <<>> THEN "" ELSE members[1]

Selector(g, names, t) ==
    LET own == Mapped(g.members, Normal)
        members == IF names = <<>> /\ ~g.readonly THEN <<"direct">>
                   ELSE IF ~g.readonly \/ g.all THEN Merged(own, names) ELSE own
        kind == IF g.kind = "url-test" THEN "urltest" ELSE "selector"
    IN  [Outbound(g.name, kind) EXCEPT
            !.members = members, !.dns = g.dns,
            !.default = IF kind = "selector" THEN SelectorDefault(g, members, t) ELSE ""]

\* Private addresses default to the first node if they shall be proxied.
SelectorOutbounds(p, names, t) ==
    LET configured == AppendMissing(IF p.groups = <<>> THEN <<Group("proxy", <<>>)>>
                                    ELSE p.groups)
        Rendered(g) == Selector(g, names, t)
        proxied(o) == p.intranet.mode = "proxy" /\ names # <<>> /\ o.tag = PrivateGroup
        Directed(o) == IF proxied(o) THEN [o EXCEPT !.default = names[1]] ELSE o
    IN  Mapped(Mapped(SelectSeq(configured, LAMBDA g : ~BuiltIn(g.name)), Rendered), Directed)

\* private_access::resolve: the connectors that a modern core can represent.
Connectors(p, t) ==
    IF Modern(t) /\ p.access.enabled
    THEN SelectSeq(p.access.connectors, LAMBDA c : c.enabled /\ c.complete) ELSE <<>>

AccessOutbound(c, t) ==
    [Outbound(c.tag, c.kind) EXCEPT !.resolver =
        IF ~c.domain THEN "" ELSE IF IsDesktop(t) THEN "bootstrap"
        ELSE IF c.kind = "endpoint" THEN "local" ELSE ""]

HomeModes(c, p) == IF p.policy.enabled THEN c.home ELSE {}

Server(tag, detour) == [tag |-> tag, detour |-> detour]
Answer(server, sets) == [server |-> server, sets |-> sets]
RuleTo(outbound, sets) == [outbound |-> outbound, server |-> "", sets |-> sets]

AccessServers(c, p) ==
    UNION {{Server(d, c.tag)} \cup
           (IF HomeModes(c, p) # {} THEN {Server(d \o "-home-direct", "")} ELSE {}) : d \in c.dns}
AccessAnswers(c, p) == {Answer(s.tag, {}) : s \in AccessServers(c, p)}
AccessRoutes(c, p) ==
    IF ~c.routes THEN {}
    ELSE {RuleTo(c.tag, {})} \cup (IF HomeModes(c, p) # {} THEN {RuleTo("direct", {})} ELSE {})

(***************************************************************************)
(* The DNS part of sing-box.                                               *)
(***************************************************************************)
ManagedFrontend(d, t) == d.managed \/ (IsDesktop(t) /\ d.takeover)
UsesFakeip(d, t) == d.fakeip /\ (t.platform # "macos" \/ ManagedFrontend(d, t))

RemoteDetour(p) ==
    LET detour == IF p.dns.detour # "" THEN p.dns.detour ELSE Preferred(p.groups, Foreign)
    IN  IF detour = "direct" THEN "" ELSE detour

When(condition, set) == IF condition THEN set ELSE {}

LocalServers(d, t, detour) ==
    {Server("local", detour)} \cup When(~d.system, {Server("local_v4", detour)})

\* What is domestic is asked for locally.
CnAnswers(d, extra) ==
    When(d.cnDomainLocal /\ d.cnDomainSet, {Answer("local", {"geosite-cn"})}) \cup
    When(d.cnIpLocal /\ d.cnIpSet,
         {Answer("local", {"geoip-cn"} \cup When(d.excludeHk /\ d.hkSet, {"geoip-hk"})
                          \cup extra)})

DesktopDns(p, nodes, t) ==
    LET d == p.dns
        fakeip == When(UsesFakeip(d, t), {"fakeip"})
        frontend == When(ManagedFrontend(d, t), {"remote"} \cup fakeip)
        first == When(\E i \in DOMAIN nodes : nodes[i].domain, {"bootstrap"})
        used == {"local"} \cup fakeip \cup frontend \cup first
                    \cup When(t.version = 14, {"remote"})
    IN  [servers |-> LocalServers(d, t, "") \cup {Server(s, "") : s \in fakeip}
                        \cup {Server("bootstrap", ""), Server("remote", RemoteDetour(p))},
         answers |-> {Answer(s, {}) : s \in used} \cup CnAnswers(d, {}),
         final |-> "remote"]

RouterDns(p, t) ==
    LET d == p.dns
        fakeip == When(d.fakeip, {"fakeip"})
    IN  [servers |-> LocalServers(d, t, IF Modern(t) THEN "" ELSE "direct")
                        \cup {Server(s, "") : s \in fakeip},
         answers |-> {Answer(s, {}) : s \in {"local"} \cup fakeip}
                        \cup CnAnswers(d, When(d.gfw, {"geoip-gfwblack"})),
         final |-> IF Modern(t) THEN "local" ELSE ""]

\* dns::sing_box: what the user wrote for this core replaces everything.
SingBoxDns(p, nodes, t) ==
    IF p.dns.override # {}
    THEN [servers |-> {Server(s, "") : s \in p.dns.override}, answers |-> {}, final |-> ""]
    ELSE IF IsOpenwrt(t) THEN RouterDns(p, t) ELSE DesktopDns(p, nodes, t)

\* ensure_network_local.
NetworkLocal(dns) ==
    IF \E s \in dns.servers : s.tag = "local" THEN "local" ELSE "sempre-network-local"
DirectNetworks(p) == IF p.policy.enabled THEN p.policy.direct ELSE {}

AssembledDns(p, nodes, t) ==
    LET dns == SingBoxDns(p, nodes, t)
        reached == Connectors(p, t)
        aside == When(DirectNetworks(p) # {}, {NetworkLocal(dns)})
        known == {s.tag : s \in dns.servers}
    IN  [dns EXCEPT
            !.servers = @ \cup {Server(s, "") : s \in aside \ known}
                          \cup UNION {AccessServers(c, p) : c \in ToSet(reached)},
            !.answers = @ \cup {Answer(s, {}) : s \in aside}
                          \cup UNION {AccessAnswers(c, p) : c \in ToSet(reached)}
                          \cup When(\E c \in ToSet(reached) : c.domain, {Answer("local", {})})]

\* apply_sing_box_platform_policy: no fake addresses on a Mac whose resolver is not ours.
StripFakeip(dns) ==
    [dns EXCEPT !.servers = {s \in @ : s.tag # "fakeip"},
                !.answers = {a \in @ : a.server # "fakeip"}]
PlatformDns(dns, p, t) ==
    IF t.platform = "macos" /\ ~ManagedFrontend(p.dns, t) THEN StripFakeip(dns) ELSE dns

(***************************************************************************)
(* The route of sing-box.                                                  *)
(***************************************************************************)
FinalOutbound(p) == Preferred(p.groups, Other)

RuleSetsOf(p, t) ==
    LET d == p.dns
    IN  {[tag |-> r.tag, detour |-> "direct"] : r \in ToSet(p.providers)} \cup
        {[tag |-> s, detour |-> "direct"] :
            s \in When(d.cnIpSet, {"geoip-cn"}) \cup When(d.hkSet, {"geoip-hk"})
                    \cup When(d.cnDomainSet, {"geosite-cn"})
                    \cup When(IsOpenwrt(t) /\ d.gfw, {"geoip-gfwblack"})}

ProviderRoutes(p) ==
    {RuleTo(IF r.outbound = "" THEN FinalOutbound(p) ELSE Normal(r.outbound), {r.tag}) :
        r \in ToSet(p.providers)}

\* sing_box_route_policy; a restored domain has no address that GeoIP could look at.
CnRoutesOf(p, t) ==
    When(p.dns.cnDomainSet, {RuleTo(ChinaGroup, {"geosite-cn"})}) \cup
    When(p.dns.cnIpSet,
         {RuleTo(ChinaGroup, {"geoip-cn"})} \cup
         When(Modern(t) /\ ~IsOpenwrt(t),
              {[outbound |-> "", server |-> "remote", sets |-> {}]}))

SingBoxRoute(p, t) ==
    LET reached == ToSet(Connectors(p, t))
        direct == \/ \E c \in reached : c.domain
                  \/ DirectNetworks(p) # {}
                  \/ IsOpenwrt(t)
    IN  [rules |-> When(~Modern(t), {RuleTo("dns-out", {})})
                      \cup When(direct, {RuleTo("direct", {})})
                      \cup UNION {AccessRoutes(c, p) : c \in reached}
                      \cup When(CnThroughProxy(p), {RuleTo(CnGroup, {"geoip-cn"})})
                      \cup {RuleTo(Normal(r), {}) : r \in ToSet(p.rules)}
                      \cup ProviderRoutes(p) \cup CnRoutesOf(p, t),
         sets |-> RuleSetsOf(p, t),
         final |-> FinalOutbound(p),
         resolver |-> IF ~Modern(t) THEN "" ELSE IF IsOpenwrt(t) THEN "local" ELSE "bootstrap"]

(***************************************************************************)
(* Selectors that the client keeps for itself.                             *)
(***************************************************************************)
\* routable: what leads to a node, to the network or to a tunnel, and never in a circle.
RoutableTags(entries) ==
    LET plain == {entries[i].tag : i \in {j \in DOMAIN entries :
                     entries[j].kind \notin {"selector", "urltest", "block", "dns"}}}
        choices == {entries[i] : i \in {j \in DOMAIN entries :
                     entries[j].kind \in {"selector", "urltest"} /\ ~entries[j].dns
                     /\ entries[j].members # <<>>}}
        Round(tags, i) == tags \cup {c.tag : c \in {d \in choices : ToSet(d.members) \subseteq tags}}
    IN  FoldLeft(Round, plain, [i \in 1..Cardinality(choices) |-> i])

\* dns_outbound_members: nodes and tunnels before the network before groups.
DnsOutboundMembers(entries) ==
    LET rank(o) == IF o.kind = "direct" THEN 1 ELSE IF o.kind \in {"selector", "urltest"} THEN 2
                   ELSE 0
        routable == RoutableTags(entries)
        Ranked(r) == SelectSeq(entries, LAMBDA o : rank(o) = r /\ o.tag \in routable)
        TagOf(o) == o.tag
    IN  Mapped(Ranked(0) \o Ranked(1) \o Ranked(2), TagOf)

PopulateDnsSelectors(entries) ==
    LET members == DnsOutboundMembers(entries)
        Populated(o) ==
            IF o.kind # "selector" \/ ~o.dns \/ members = <<>> THEN o
            ELSE [o EXCEPT !.members = members,
                           !.default = IF @ \in ToSet(members) THEN @ ELSE members[1]]
    IN  Mapped(entries, Populated)

\* apply_cn_proxy: a choice that was made before is kept if it still leads somewhere.
WithCnGroup(entries) ==
    LET members == DnsOutboundMembers(entries)
        chosen == {o.default : o \in {e \in ToSet(entries) : e.tag = CnGroup}} \cap ToSet(members)
        group == [Outbound(CnGroup, "selector") EXCEPT
                     !.members = members, !.dns = TRUE,
                     !.default = IF chosen # {} THEN CHOOSE c \in chosen : TRUE
                                 ELSE IF members = <<>> THEN "" ELSE members[1]]
    IN  PopulateDnsSelectors(Append(SelectSeq(entries, LAMBDA o : o.tag # CnGroup), group))

\* restore_direct_name.
RestoreOutbound(o) ==
    [o EXCEPT !.tag = IF o.kind = "direct" THEN Restored(@) ELSE @,
              !.members = Mapped(@, Restored), !.default = Restored(@)]
RestoreRoute(r) == [r EXCEPT !.outbound = Restored(@)]
RestoreDetour(s) == [s EXCEPT !.detour = Restored(@)]

RenderSingBox(p, nodes, t) ==
    LET represented == SelectSeq(nodes, LAMBDA n : n.type \in SingBoxTypes(t))
        Converted(n) == ConvertProxy(n, t)
        NameOf(n) == n.name
        Reached(c) == AccessOutbound(c, t)
        reached == Mapped(Connectors(p, t), Reached)
        entries == <<Outbound("direct", "direct"), Outbound("reject", "block")>>
                      \o (IF Modern(t) THEN <<>> ELSE <<Outbound("dns-out", "dns")>>)
                      \o Mapped(represented, Converted) \o reached
                      \o SelectorOutbounds(p, Mapped(represented, NameOf), t)
        chosen == IF CnThroughProxy(p) THEN WithCnGroup(entries) ELSE entries
        dns == PlatformDns(AssembledDns(p, nodes, t), p, t)
        route == SingBoxRoute(p, t)
    IN  [family |-> "sing-box",
         outbounds |-> Mapped(PopulateDnsSelectors(chosen), RestoreOutbound),
         servers |-> {RestoreDetour(s) : s \in dns.servers},
         answers |-> dns.answers, answerLast |-> dns.final,
         rules |-> {RestoreRoute(r) : r \in route.rules},
         private |-> {Restored(Normal(o)) : o \in IntranetOutbounds(p)},
         sets |-> {RestoreDetour(s) : s \in route.sets},
         final |-> Restored(route.final), resolver |-> route.resolver]

==============================================================================
