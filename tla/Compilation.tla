----------------------------- MODULE Compilation -----------------------------
(***************************************************************************)
(* From a profile to the configuration of a core: the client's own         *)
(* settings laid over the profile (network_settings, dns_routing and       *)
(* domain_policy), then compile_parts of sempre-converter with the         *)
(* renderers of Clash, V2Ray and dae; the one of sing-box is in Rendering. *)
(***************************************************************************)
EXTENDS Rendering, FiniteSets
LOCAL INSTANCE SequencesExt
LOCAL INSTANCE TLC

CONSTANTS
    Profiles,      \* profiles with the snapshots of their sources
    Targets,       \* formats, versions and platforms to compile for
    Settings       \* what the client lays over a profile

VARIABLES
    stage,         \* how far the compilation is
    profile,       \* the profile as it is prepared
    target,
    settings,
    nodes,         \* the nodes collected so far
    output       \* what was rendered, or why nothing was

compileVars == <<stage, profile, target, settings, nodes, output>>

Unwritten == [family |-> "none"]
Failed(why) == [family |-> "error", why |-> why]

CompileInit ==
    /\ stage = "settings" /\ profile \in Profiles /\ target \in Targets
    /\ settings \in Settings /\ nodes = <<>> /\ output = Unwritten

Fail(why) == output' = Failed(why) /\ stage' = "done"

(***************************************************************************)
(* What the client lays over the profile.                                  *)
(***************************************************************************)
\* network_settings: whatever was stored, a router leaves routes and resolvers alone.
OnRouter(s) ==
    [s EXCEPT !.gateway = FALSE, !.switching = FALSE, !.cn = "off",
              !.intranet.mode = "direct", !.dns = FALSE]
InForce(s, t) == IF IsOpenwrt(t) THEN OnRouter(s) ELSE s

\* apply_network_settings: a router keeps what was compiled for private addresses.
Networked(p, s, t) ==
    [p EXCEPT !.cn = s.cn,
              !.intranet = IF IsOpenwrt(t) THEN @ ELSE s.intranet,
              !.capture = IF s.gateway THEN "tproxy"
                          ELSE IF s.cn # "off" \/ (s.intranet.on = "yes"
                                                   /\ s.intranet.mode = "proxy")
                               THEN "tun-router" ELSE @,
              !.policy = [enabled |-> s.switching,
                          direct |-> When(s.switching, s.direct)]]

\* recommended_defaults_for_target, where the profile asks for them.
SystemGroups ==
    <<[Group(Foreign, <<DirectName>>) EXCEPT !.all = TRUE],
      Group("Google", <<Foreign, DirectName>>),
      [Group(DirectName, <<"DIRECT">>) EXCEPT !.all = FALSE, !.readonly = TRUE],
      [Group(Other, <<Foreign, DirectName>>) EXCEPT !.all = FALSE, !.readonly = TRUE]>>
SystemProviders == <<[tag |-> "AI", outbound |-> "Google"]>>
SystemFilters == {"support"}
SystemDnsDefaults(t) ==
    [system |-> FALSE, fakeip |-> TRUE, cnDomainLocal |-> TRUE, cnIpLocal |-> TRUE,
     cnDomainSet |-> TRUE, cnIpSet |-> TRUE, hkSet |-> TRUE, excludeHk |-> TRUE,
     gfw |-> IsOpenwrt(t), detour |-> "", takeover |-> FALSE, managed |-> FALSE,
     override |-> {}]

EffectiveProfile(p, t) ==
    [p EXCEPT !.groups = IF "groups" \in p.system THEN SystemGroups ELSE @,
              !.providers = IF "rules" \in p.system THEN SystemProviders ELSE @,
              !.filters = IF "filters" \in p.system THEN SystemFilters ELSE @,
              !.dns = IF "dns" \in p.system THEN SystemDnsDefaults(t) ELSE @]

\* openwrt::apply: the router's listeners, and the lists that it adds.
RouterProfile(p, t) ==
    IF IsOpenwrt(t) THEN [p EXCEPT !.capture = "tproxy", !.dns.gfw = TRUE] ELSE p
PrepareProfile(p, t) == RouterProfile(EffectiveProfile(p, t), t)

\* domain_policy: the client's own resolver answers in front of the core, and what it
\* routes by country needs the list of that country.
\* Trusting the profile to have it:
FrontendDnsTrusting(p, s) == [p.dns EXCEPT !.takeover = s.dns, !.managed = TRUE]
FrontendDns(p, s) ==
    [p.dns EXCEPT !.takeover = s.dns, !.managed = TRUE, !.cnIpSet = @ \/ CnPreRouting(p)]
WithFrontend(p, s, t) ==
    IF t.core # "sing-box" \/ IsOpenwrt(t) THEN p
    ELSE LET prepared == PrepareProfile(p, t)
         IN  [prepared EXCEPT !.system = IF s.dns THEN @ \ {"dns"} ELSE @,
                              !.dns = FrontendDns(prepared, s)]

\* for_compile: sources that could not be loaded are left out if anything remains.
WithoutFailed(p) ==
    LET Kept(s) == [s EXCEPT !.enabled = @ /\ ~s.failed]
    IN  [p EXCEPT !.sources = Mapped(@, Kept)]
Hopeless(p) ==
    LET loaded == {s \in ToSet(p.sources) : s.enabled}
    IN  /\ \E s \in loaded : s.failed
        /\ \A s \in loaded : s.failed
        /\ p.manual = <<>> /\ p.custom = <<>>

ApplySettings ==
    /\ stage = "settings" /\ ~settings.remote
    /\ LET laid == WithFrontend(Networked(profile, InForce(settings, target), target),
                                InForce(settings, target), target)
       IN  IF Hopeless(laid) THEN Fail("sources") /\ UNCHANGED profile
           ELSE profile' = WithoutFailed(laid) /\ stage' = "prepare" /\ UNCHANGED output
    /\ UNCHANGED <<target, settings, nodes>>

\* routing_overlay: a selector and a rule set for each set of domains that is proxied; what
\* is direct is left to the client's resolver.
OverlayGroup(r) ==
    [Group("DNS " \o r.name, <<>>) EXCEPT !.dns = TRUE]
OverlayProvider(r) ==
    [tag |-> "sempre-dns-rule-set:" \o r.name,
     outbound |-> IF r.mode = "direct" THEN "DIRECT" ELSE "DNS " \o r.name]
Overlay(s, t) ==
    IF s.dns /\ t.core = "sing-box"
    THEN SelectSeq(s.ruleSets, LAMBDA r : r.mode # "direct") ELSE <<>>

Prepare ==
    /\ stage = "prepare"
    /\ LET prepared == PrepareProfile(profile, target)
           overlay == Overlay(InForce(settings, target), target)
           Laid(p) == [p EXCEPT !.groups = Mapped(overlay, OverlayGroup) \o @,
                                !.providers = Mapped(overlay, OverlayProvider) \o @]
       IN  profile' = IF settings.remote THEN prepared ELSE Laid(prepared)
    /\ stage' = "collect" /\ UNCHANGED <<target, settings, nodes, output>>

(***************************************************************************)
(* The nodes.                                                              *)
(***************************************************************************)
\* parse_subscription: invalid entries and placeholders are dropped.
Parsed(snapshot) ==
    SelectSeq(snapshot, LAMBDA e : e.valid /\ ~(e.loopback /\ e.port <= 1))

Prefixed(prefix, e) == IF prefix = "" THEN e ELSE [e EXCEPT !.text = prefix \o " " \o @]
Collected(e, origin) == [e |-> e, origin |-> origin]
FromSource(s) ==
    LET Taken(e) == Collected(Prefixed(s.prefix, e), "source")
    IN  Mapped(Parsed(s.snapshot), Taken)
FromManual(e) == Collected(e, "manual")
FromCustom(e) == Collected(e, "custom")

Collect ==
    /\ stage = "collect"
    /\ LET enabled == SelectSeq(profile.sources, LAMBDA s : s.enabled)
       IN  IF \E i \in DOMAIN enabled : Parsed(enabled[i].snapshot) = <<>>
           THEN Fail("empty source") /\ UNCHANGED nodes
           ELSE /\ nodes' = Mapped(profile.manual, FromManual)
                              \o Mapped(profile.custom, FromCustom)
                              \o FlattenSeq(Mapped(enabled, FromSource))
                /\ stage' = "name" /\ UNCHANGED output
    /\ UNCHANGED <<profile, target, settings>>

\* apply_filters: only what comes from a source.
Filtered(ns, filters) ==
    SelectSeq(ns, LAMBDA n : n.origin # "source" \/ n.e.words \cap filters = {})

\* append_icon: the first flag of a name, or else the one of a place that it names.
AppendIcon(e) ==
    IF e.flags # <<>> THEN e.flags[1] \o " " \o e.text
    ELSE IF e.place # "" THEN e.place \o " " \o e.text ELSE e.text

\* make_names_unique: the second of a name is "name (2)".
MakeNamesUnique(ns) ==
    LET shown == [i \in DOMAIN ns |-> AppendIcon(ns[i].e)]
        count(i) == Cardinality({j \in 1..i : shown[j] = shown[i]})
    IN  [i \in DOMAIN ns |->
            [name |-> IF count(i) > 1 THEN shown[i] \o " (" \o ToString(count(i)) \o ")"
                      ELSE shown[i],
             type |-> ns[i].e.type, domain |-> ns[i].e.domain, reality |-> ns[i].e.reality,
             origin |-> ns[i].origin]]

Name ==
    /\ stage = "name"
    /\ nodes' = MakeNamesUnique(Filtered(nodes, profile.filters))
    /\ IF nodes' = <<>> /\ target.core # "sing-box" THEN Fail("empty profile")
       ELSE stage' = "render" /\ UNCHANGED output
    /\ UNCHANGED <<profile, target, settings>>

(***************************************************************************)
(* Clash.                                                                  *)
(***************************************************************************)
ClashGroup(p, g, names) ==
    LET chosen == IF p.intranet.mode = "proxy" /\ names # <<>> /\ g.name = PrivateGroup
                  THEN names[1] ELSE g.default
        members == IF g.readonly THEN g.members ELSE Merged(g.members, names)
    IN  [name |-> g.name,
         members |-> IF chosen # "" /\ chosen \in ToSet(members)
                     THEN <<chosen>> \o SelectSeq(members, LAMBDA m : m # chosen)
                     ELSE members]

ClashGroups(p, names) ==
    LET fallback == [Group("proxy", <<"DIRECT">>) EXCEPT !.all = FALSE]
        Rendered(g) == ClashGroup(p, g, names)
    IN  Mapped(AppendMissing(IF p.groups = <<>> THEN <<fallback>> ELSE p.groups), Rendered)

\* The list of domains in China gets a name that no provider of the profile has.
ChinaDomains(p) ==
    LET taken == {r.tag : r \in ToSet(p.providers)}
    IN  IF "sempre-geosite-cn" \in taken THEN "sempre-geosite-cn_" ELSE "sempre-geosite-cn"

RenderClash(p, ns, t) ==
    LET names == [i \in DOMAIN ns |-> ns[i].name]
        groups == ClashGroups(p, names)
        final == Preferred(groups, Other)
        managed == t.format = "managed"
        port53 == When(managed /\ p.capture = "tproxy", {"sempre-dns-out"})
        china == ChinaDomains(p)
    IN  [family |-> "clash", proxies |-> ToSet(names) \cup port53, groups |-> groups,
         providers |-> {r.tag : r \in ToSet(p.providers)} \cup {china},
         rules |-> {[target |-> final, provider |-> ""]}
                     \cup {[target |-> o, provider |-> ""] : o \in port53 \cup ToSet(p.rules)}
                     \cup {[target |-> IF r.outbound = "" THEN final ELSE r.outbound,
                            provider |-> r.tag] : r \in ToSet(p.providers)}
                     \cup {[target |-> ChinaGroup, provider |-> china],
                           [target |-> ChinaGroup, provider |-> ""]},
         private |-> IntranetOutbounds(p), final |-> final]

(***************************************************************************)
(* V2Ray and Xray.                                                         *)
(***************************************************************************)
V2Represents(n, t) ==
    /\ n.type \in {"vmess", "vless", "trojan", "ss", "socks5", "http"}
    /\ t.core = "xray" \/ ~n.reality

\* RuntimeModel: a group keeps the nodes that the core can represent, and needs one.
V2Members(g, names) == IF g.readonly /\ ~g.all THEN g.members ELSE Merged(g.members, names)
V2Group(g, names, represented) ==
    LET members == SelectSeq(V2Members(g, names), LAMBDA m : m \in represented)
    IN  [tag |-> g.name,
         members |-> IF g.kind = "url-test" THEN ToSet(members)
                     ELSE IF g.default \in represented THEN {g.default} ELSE {members[1]}]
V2Refuses(g, names, represented) ==
    LET members == V2Members(g, names)
    IN  \/ g.default # "" /\ g.default \notin ToSet(members)
        \/ ToSet(members) \cap represented = {}

RenderV2ray(p, ns, t) ==
    LET names == [i \in DOMAIN ns |-> ns[i].name]
        represented == {ns[i].name : i \in {j \in DOMAIN ns : V2Represents(ns[j], t)}}
        groups == IF p.groups = <<>> THEN <<Group("proxy", <<>>)>> ELSE p.groups
        Balanced(g) == V2Group(g, names, represented)
        final == Preferred(groups, Other)
    IN  IF represented = {} \/ \E g \in ToSet(groups) : V2Refuses(g, names, represented)
        THEN Failed("groups")
        ELSE [family |-> "v2ray",
              outbounds |-> represented \cup {DirectName, "reject", "dns-out"},
              balancers |-> ToSet(Mapped(groups, Balanced)),
              targets |-> {"dns-out"} \cup {Restored(Normal(o)) :
                             o \in {"DIRECT", final} \cup ToSet(p.rules)},
              final |-> Restored(Normal(final))]

(***************************************************************************)
(* dae.                                                                    *)
(***************************************************************************)
DaeTypes ==
    {"vless", "trojan", "vmess", "ss", "socks5", "http", "hysteria2", "anytls", "tuic"}
DaeMembers(g, represented) ==
    SelectSeq(IF g.readonly THEN g.members ELSE Merged(g.members, represented),
              LAMBDA m : m \in ToSet(represented))

RenderDae(p, ns) ==
    LET fit == SelectSeq(ns, LAMBDA n : n.type \in DaeTypes)
        represented == [i \in DOMAIN fit |-> fit[i].name]
        groups == IF p.groups = <<>> THEN <<Group("proxy", represented)>> ELSE p.groups
        kept == SelectSeq(groups, LAMBDA g : DaeMembers(g, represented) # <<>>)
        omitted == NamesOf(groups) \ NamesOf(kept)
    IN  IF fit = <<>> THEN Failed("empty profile")
        ELSE IF groups[1].name \in omitted \/ ToSet(p.rules) \cap omitted # {}
             THEN Failed("groups")
        ELSE [family |-> "dae", nodes |-> ToSet(represented),
              groups |-> {[tag |-> kept[i].name,
                           members |-> ToSet(DaeMembers(kept[i], represented))] :
                             i \in DOMAIN kept},
              targets |-> {"direct"} \cup ToSet(p.rules), final |-> groups[1].name]

\* The nodes that a core can represent are counted; without any, a failed source is an error.
Lost == \E s \in ToSet(profile.sources) : s.failed
Represented(ns, t) ==
    IF t.core = "sing-box" THEN {n \in ToSet(ns) : n.type \in SingBoxTypes(t)} ELSE ToSet(ns)

Rendered ==
    CASE target.core = "sing-box" -> RenderSingBox(profile, nodes, target)
      [] target.core = "clash" -> RenderClash(profile, nodes, target)
      [] target.core \in {"xray", "v2ray"} -> RenderV2ray(profile, nodes, target)
      [] target.core = "dae" -> RenderDae(profile, nodes)

Render ==
    /\ stage = "render"
    /\ output' = IF Lost /\ Represented(nodes, target) = {} THEN Failed("sources")
                   ELSE Rendered
    /\ stage' = IF output'.family = "error" THEN "done" ELSE "rendered"
    /\ UNCHANGED <<profile, target, settings, nodes>>

(***************************************************************************)
(* What the client still changes in a configuration that is compiled: the  *)
(* one of a remote profile gets the client's own selectors and its rule    *)
(* for private addresses, and every one gets the selector of China when    *)
(* the core that is started routes by country.                             *)
(***************************************************************************)
\* A remote profile is compiled by the server, which knows none of the client's settings.
CompileRemotely ==
    /\ stage = "settings" /\ settings.remote
    /\ IF \E s \in ToSet(profile.sources) : s.failed THEN Fail("sources")
       ELSE stage' = "prepare" /\ UNCHANGED output
    /\ UNCHANGED <<profile, target, settings, nodes>>

\* apply_compiled_sing_box_overlay.
WithOverlay(d, sets) ==
    LET members == DnsOutboundMembers(d.outbounds)
        Own(r) == [Outbound("DNS " \o r.name, "selector") EXCEPT
                      !.members = members, !.default = members[1], !.dns = TRUE]
        TagOf(r) == "sempre-dns-rule-set:" \o r.name
    IN  IF sets = <<>> THEN d
        ELSE IF members = <<>> THEN Failed("no destinations")
        ELSE [d EXCEPT !.outbounds = PopulateDnsSelectors(@ \o Mapped(sets, Own)),
                       !.sets = @ \cup {[tag |-> TagOf(r), detour |-> ""] : r \in ToSet(sets)},
                       !.rules = @ \cup {RuleTo("DNS " \o r.name, {TagOf(r)}) : r \in ToSet(sets)}]

\* apply_sing_box: the group for private addresses prefers anything to the direct outbound.
WithPrivateGroup(d) ==
    LET added == IF \E o \in ToSet(d.outbounds) : o.tag = PrivateGroup THEN d.outbounds
                 ELSE Append(d.outbounds, [Outbound(PrivateGroup, "selector") EXCEPT
                                              !.members = DnsOutboundMembers(d.outbounds)])
        Preferring(o) ==
            LET others == SelectSeq(o.members, LAMBDA m : m # DirectName)
            IN  IF o.tag = PrivateGroup /\ others # <<>> THEN [o EXCEPT !.default = others[1]]
                ELSE o
    IN  [d EXCEPT !.outbounds = Mapped(added, Preferring)]

\* apply_intranet_routing.
WithIntranet(d, s) ==
    LET wanted == IntranetOutbounds([intranet |-> s.intranet])
        grouped == PrivateGroup \in wanted
    IN  IF d.family = "sing-box"
        THEN [(IF grouped THEN WithPrivateGroup(d) ELSE d) EXCEPT
                 !.private = {Restored(Normal(o)) : o \in wanted}]
        ELSE IF d.family = "clash"
        THEN [d EXCEPT !.private = wanted,
                       !.groups = IF ~grouped \/ PrivateGroup \in NamesOf(@) THEN @
                                  ELSE Append(@, [name |-> PrivateGroup,
                                                  members |-> SetToSeq(d.proxies \cup {"DIRECT"})])]
        ELSE d

\* render_subscription_for_target: what a server published for a router stays as it is.
Patched(d, s, t) ==
    LET overlaid == IF d.family = "sing-box" THEN WithOverlay(d, Overlay(s, t)) ELSE d
    IN  IF IsOpenwrt(t) \/ overlaid.family = "error" THEN overlaid ELSE WithIntranet(overlaid, s)

Patch ==
    /\ stage = "rendered"
    /\ output' = IF settings.remote THEN Patched(output, InForce(settings, target), target)
                 ELSE output
    /\ stage' = IF output'.family = "sing-box" THEN "start" ELSE "done"
    /\ UNCHANGED <<profile, target, settings, nodes>>

\* configure_cn_runtime.
Started(d, s) ==
    IF s.cn = "off" THEN d
    ELSE IF "geoip-cn" \notin {r.tag : r \in d.sets} THEN Failed("geoip-cn")
    ELSE IF s.cn = "direct" THEN d
    ELSE [d EXCEPT !.outbounds = WithCnGroup(@),
                   !.rules = {r \in @ : r.outbound # CnGroup} \cup {RuleTo(CnGroup, {"geoip-cn"})}]

Start ==
    /\ stage = "start"
    /\ output' = Started(output, InForce(settings, target))
    /\ stage' = "done" /\ UNCHANGED <<profile, target, settings, nodes>>

------------------------------------------------------------------------------
CompileNext ==
    \/ ApplySettings \/ Prepare \/ Collect \/ Name \/ Render
    \/ CompileRemotely \/ Patch \/ Start
CompileSpec == CompileInit /\ [][CompileNext]_compileVars

(***************************************************************************)
(* Every name that a document uses is a name that it defines, and no two   *)
(* things it defines have the same name.                                   *)
(***************************************************************************)
Distinct(things, TagOf(_)) == \A x, y \in things : TagOf(x) = TagOf(y) => x = y
Tag(x) == x.tag
Tags(things) == {x.tag : x \in things}
Selectors(d) == {o \in ToSet(d.outbounds) : o.kind \in {"selector", "urltest"}}

SingBoxResolves(d) ==
    LET outbounds == Tags(ToSet(d.outbounds)) \cup {""}
        servers == Tags(d.servers) \cup {""}
    IN  /\ \A i, j \in DOMAIN d.outbounds : d.outbounds[i].tag = d.outbounds[j].tag => i = j
        /\ Distinct(d.servers, Tag) /\ Distinct(d.sets, Tag)
        /\ \A o \in Selectors(d) : o.members # <<>> /\ ToSet(o.members) \subseteq outbounds \ {""}
        /\ \A o \in Selectors(d) : o.kind = "selector" => o.default \in ToSet(o.members)
        /\ \A s \in d.servers \cup d.sets : s.detour \in outbounds
        /\ \A r \in d.rules : /\ r.outbound \in outbounds /\ r.server \in servers
                              /\ r.sets \subseteq Tags(d.sets)
        /\ \A a \in d.answers : a.server \in servers /\ a.sets \subseteq Tags(d.sets)
        /\ d.private \cup {d.final} \subseteq outbounds /\ {d.answerLast, d.resolver} \subseteq servers
        /\ \A o \in ToSet(d.outbounds) : o.resolver \in servers

\* A selector of the client's own leads somewhere without asking another one of them.
ClientSelectorsLead(d) ==
    LET own == {o \in ToSet(d.outbounds) : o.dns}
    IN  \A o \in own : ToSet(o.members) \cap (Tags(own) \cup {"reject", "dns-out"}) = {}

ClashResolves(d) ==
    LET names == NamesOf(d.groups)
        targets == d.proxies \cup names \cup {"DIRECT", "REJECT"}
    IN  /\ \A i, j \in DOMAIN d.groups : d.groups[i].name = d.groups[j].name => i = j
        /\ names \cap d.proxies = {}
        /\ \A i \in DOMAIN d.groups : /\ d.groups[i].members # <<>>
                                      /\ ToSet(d.groups[i].members) \subseteq targets
        /\ \A r \in d.rules : r.target \in targets /\ r.provider \in d.providers \cup {""}
        /\ d.private \subseteq targets

V2rayResolves(d) ==
    /\ Distinct(d.balancers, Tag)
    /\ \A b \in d.balancers : b.members # {} /\ b.members \subseteq d.outbounds
    /\ d.targets \cup {d.final} \subseteq d.outbounds \cup Tags(d.balancers)

\* Built-in targets are passed on as the user wrote them.
DaeResolves(d) ==
    /\ \A g \in d.groups : g.members # {} /\ g.members \subseteq d.nodes
    /\ d.targets \cup {d.final} \subseteq Tags(d.groups) \cup {"direct", "DIRECT", "REJECT"}

(* A core that loads what was compiled finds everything it refers to: a     *)
(* rule, a resolver or a selector that names what is not there makes the    *)
(* core refuse the whole file, and the client with it its next start.       *)
OutputResolves ==
    /\ output.family = "sing-box" => SingBoxResolves(output) /\ ClientSelectorsLead(output)
    /\ output.family = "clash" => ClashResolves(output)
    /\ output.family = "v2ray" => V2rayResolves(output)
    /\ output.family = "dae" => DaeResolves(output)

(* Where node names repeat, all but the first get a number, so that the     *)
(* names a configuration gives to its nodes are pairwise distinct           *)
(* (toolbox-server-api.md: Sempre adds " (2)" suffixes where others emit    *)
(* duplicate names).  make_names_unique counts the names as they were.      *)
NodeNamesUnique ==
    stage = "render" => \A i, j \in DOMAIN nodes : nodes[i].name = nodes[j].name => i = j

==============================================================================
