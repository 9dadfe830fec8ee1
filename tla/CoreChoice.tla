------------------------------ MODULE CoreChoice ------------------------------
(***************************************************************************)
(* Which core a host gets and how it is started.  What a profile requires  *)
(* is held against what each adapter of the registry says its core can do  *)
(* (sempre-core); the candidate that is taken is resolved to a release and *)
(* an asset (sempre-artifact), installed and selected, while the profile,  *)
(* the releases and the selection change.  A start writes the core's       *)
(* configuration with a control address that was free a moment before.     *)
(* Simplifications: a version of sing-box is its minor, with 0 for what is *)
(* not recognised and 100 for another major; of its features those that a  *)
(* profile can require; a candidate's id is its place among the sorted.    *)
(***************************************************************************)
EXTENDS Integers, FiniteSets, Sequences

CONSTANTS
    Hosts,            \* [os, arch, level, openwrt]
    Wants,            \* what the active profile asks: see Requires
    Stables,          \* the minors that stable may come to name, the first at its head
    Documents,        \* compiled configurations: see RuntimeOf
    Ports,
    MaxCores, MaxStarted, MaxChoiceFaults

\* Stable is at least the release whose compiler it is given: see CompilerVersion.
ASSUME ChoiceAssumption ==
    /\ Hosts # {} /\ Wants # {} /\ Documents # {}
    /\ Stables # <<>> /\ Stables \in Seq(Nat) /\ \A i \in DOMAIN Stables : Stables[i] >= 12
    /\ \A d \in Documents : d.inbounds \in Seq(STRING) /\ d.rules \in Seq(STRING)

VARIABLES
    side,             \* "choose" or "start", each explored by itself
    host, want,
    latest, assets,   \* of sing-box: what stable names, the builds of a release
    seenRelease,      \* the answer that the client of the manager keeps, 0 for none
    coresThere,       \* <<core, minor>> that are installed
    channel, selection, \* core |-> minor; <<core, reference>>
    applying,         \* an application under way
    suited,           \* since it selected, the profile is as it was
    compiled, control, runtimeFile, coreRuns, otherPort, started, \* a start
    choiceFaults

chooseVars ==
    <<host, want, latest, assets, seenRelease, coresThere, channel, selection, applying,
      suited>>
startVars == <<compiled, control, runtimeFile, coreRuns, otherPort, started>>
choiceVars == <<side, chooseVars, startVars, choiceFaults>>

(***************************************************************************)
(* The capabilities.                                                       *)
(***************************************************************************)
\* The reference of the channel, which has no version.
Stable == 0
\* resolve_sing_box_version.
CompilerVersion(minor) ==
    IF minor \in {0, 100} THEN 13 ELSE IF minor < 11 THEN 11 ELSE IF minor > 14 THEN 14 ELSE minor

SingBoxFeatures(minor, h) ==
    LET compiler == CompilerVersion(minor) IN
    {f \in {"tun", "capture", "tproxy", "interfaces", "private"} :
        /\ f = "capture" => h.os \notin {"darwin", "windows"} \/ compiler = 14
        /\ f \in {"tproxy", "interfaces"} => h.os = "linux"
        /\ f = "private" => compiler # 11
        /\ h.openwrt => f = "capture"}
MihomoFeatures(h) ==
    {"tun"} \cup (IF h.os # "darwin" THEN {"capture"} ELSE {})
            \cup (IF h.os = "linux" THEN {"tproxy", "interfaces"} ELSE {})
Features(core, minor, h) ==
    IF core = "sing-box" THEN SingBoxFeatures(minor, h) ELSE MihomoFeatures(h)

\* Both have the eleven of REFERENCE_PROTOCOLS.
Protocols == {"anytls", "http", "hysteria", "hysteria2", "shadowsocks", "shadowtls", "socks5",
              "trojan", "tuic", "vless", "vmess"}
ProtocolCoverage == (Cardinality(Protocols) * 100) \div 11

\* profile_requirements.
NormalProtocol(p) == IF p = "ss" THEN "shadowsocks" ELSE p
Requires(w) ==
    [features |->
        (IF w.dns \/ w.private = "dns" THEN {"capture"} ELSE {})
        \cup (CASE w.mode = "tun-router" -> {"tun"} [] w.mode = "tproxy" -> {"tproxy"}
                [] w.mode = "ebpf-router" -> {"ebpf"} [] OTHER -> {})
        \cup (IF w.interfaces THEN {"interfaces"} ELSE {})
        \cup (IF w.private # "off" THEN {"private"} ELSE {}),
     protocols |-> {NormalProtocol(p) : p \in w.protocols}]
Meets(core, minor, h, required) ==
    /\ required.features \subseteq Features(core, minor, h)
    /\ required.protocols \subseteq Protocols

(***************************************************************************)
(* The candidates and their scores.                                        *)
(***************************************************************************)
Profile(id, core, reference, validation, release, fallback) ==
    [id |-> id, core |-> core, reference |-> reference, validation |-> validation,
     release |-> release, fallback |-> fallback]
CandidateProfiles(h) ==
    {Profile(1, "mihomo", Stable, IF h.os = "darwin" THEN "compatible" ELSE "verified",
             "stable", "external")}
    \cup CASE h.os = "darwin" ->
                {Profile(2, "sing-box", 14, "compatible", "preview", "external"),
                 Profile(3, "sing-box", Stable, "verified", "stable", "external"),
                 Profile(4, "sing-box", 12, "verified", "legacy", "override")}
           [] h.os = "windows" ->
                {Profile(2, "sing-box", 14, "verified", "preview", "external"),
                 Profile(3, "sing-box", Stable, "verified", "stable", "external")}
           [] OTHER -> {Profile(2, "sing-box", Stable, "verified", "stable", "external")}

NativeDns(p, h) == "capture" \in Features(p.core, p.reference, h)
Utility(criterion, p, h) ==
    CASE criterion = "platform" ->
           (CASE p.validation = "verified" -> 100 [] p.validation = "compatible" -> 50)
      [] criterion = "release" ->
           (CASE p.release = "stable" -> 100 [] p.release = "preview" -> 40
              [] p.release = "legacy" -> 60)
      [] criterion = "dns" ->
           (IF NativeDns(p, h) THEN 100 ELSE IF p.fallback = "external" THEN 75 ELSE 40)
      [] criterion = "protocols" -> ProtocolCoverage
Weights == [platform |-> 30, release |-> 25, dns |-> 30, protocols |-> 15]
Points(criterion, p, h) == (Weights[criterion] * Utility(criterion, p, h) + 50) \div 100
Score(p, h) ==
    Points("platform", p, h) + Points("release", p, h) + Points("dns", p, h)
    + Points("protocols", p, h)

Eligible(p, h, required) == Meets(p.core, p.reference, h, required)
\* auto_config_candidates: those without a score are last, equals in the order of their ids.
Precedes(p, q, h, required) ==
    LET rank(r) == IF Eligible(r, h, required) THEN Score(r, h) ELSE -1
    IN  rank(p) > rank(q) \/ (rank(p) = rank(q) /\ p.id < q.id)
\* The report recommends the first that is eligible, where one is.
RecommendedProfile(h, required) ==
    LET fits == {p \in CandidateProfiles(h) : Eligible(p, h, required)}
    IN  CHOOSE p \in fits : \A q \in fits \ {p} : Precedes(p, q, h, required)

(***************************************************************************)
(* The releases.                                                           *)
(***************************************************************************)
NothingInstalled == [c \in {"sing-box", "mihomo"} |-> 0]
NoApply == [step |-> "off", core |-> "mihomo", reference |-> Stable, minor |-> 0,
            asset |-> "none", automatic |-> FALSE, fresh |-> FALSE]
NoControl == [port |-> 0, secret |-> 0]
NoFile == [whole |-> TRUE, port |-> 0, secret |-> 0, inbounds |-> <<>>, rules |-> <<>>,
           open |-> {}]

ChoiceInit ==
    /\ side \in {"choose", "start"} /\ choiceFaults = 0
    /\ IF side = "choose" THEN host \in Hosts /\ want \in Wants
       ELSE host = (CHOOSE h \in Hosts : TRUE) /\ want = (CHOOSE w \in Wants : TRUE)
    /\ latest = Head(Stables) /\ seenRelease = 0
    /\ assets \in IF host.openwrt THEN {{"plain"}, {"plain", "musl"}} ELSE {{"plain"}}
    /\ coresThere = {} /\ channel = NothingInstalled /\ selection = <<>> /\ applying = NoApply
    /\ suited = FALSE
    /\ IF side = "start" THEN compiled \in Documents ELSE compiled = CHOOSE d \in Documents : TRUE
    /\ control = NoControl /\ runtimeFile = NoFile /\ coreRuns = NoFile /\ otherPort = 0
    /\ started = 0

ChoiceFault == choiceFaults < MaxChoiceFaults /\ choiceFaults' = choiceFaults + 1

\* package_assets: the best build that the processor of the host runs, in this order.
AssetNames(core, h) ==
    IF core = "sing-box" THEN IF h.openwrt THEN <<"musl", "plain">> ELSE <<"plain">>
    ELSE IF h.arch = "arm64" THEN <<"arm64">>
    ELSE IF h.level >= 3 THEN <<"v3", "v2", "compatible">>
    ELSE IF h.level = 2 THEN <<"v2", "compatible">> ELSE <<"compatible">>
AssetsOf(core) ==
    IF core = "sing-box" THEN assets ELSE {"v3", "v2", "compatible", "arm64"}
\* package_from_release: the first of the names that the release holds.
Package(core, h) ==
    LET names == AssetNames(core, h)
        held == {i \in DOMAIN names : names[i] \in AssetsOf(core)}
    IN  IF held = {} THEN "none" ELSE names[CHOOSE i \in held : \A j \in held : i <= j]
\* The plain build for Linux links glibc since 1.13.
RunsOn(core, minor, asset, h) ==
    /\ asset = "plain" /\ h.openwrt => minor < 13
    /\ asset = "v3" => h.level >= 3
    /\ asset = "v2" => h.level >= 2

\* A client that goes through the rules is made for one request and remembers nothing.
ReleaseOf(core, reference, routed) ==
    IF core = "mihomo" THEN 1 ELSE IF reference # Stable THEN reference
    ELSE IF ~routed /\ seenRelease # 0 THEN seenRelease ELSE latest

(***************************************************************************)
(* The application of a candidate, and what happens beside it.             *)
(***************************************************************************)
InChoice == side = "choose" /\ UNCHANGED <<side, host, startVars>>
Locked == applying.step = "record"

\* diagnose_core_configuration: the recommendation, or the eligible one that was asked for.
Diagnose ==
    /\ InChoice /\ ~host.openwrt /\ applying = NoApply /\ Cardinality(coresThere) < MaxCores
    /\ \E p \in CandidateProfiles(host) :
         /\ Eligible(p, host, Requires(want))
         /\ applying' = [NoApply EXCEPT !.step = "install", !.core = p.core,
                           !.reference = p.reference, !.automatic = TRUE,
                           !.fresh = TRUE]
    /\ UNCHANGED <<want, latest, assets, seenRelease, coresThere, channel, selection, suited,
                   choiceFaults>>

\* An install that somebody asks for; on a router, of an exact version.
InstallCore ==
    /\ InChoice /\ applying = NoApply /\ Cardinality(coresThere) < MaxCores
    /\ \E core \in {"sing-box", "mihomo"}, reference \in {Stable, 12, 14} :
         /\ core = "mihomo" => reference = Stable
         /\ host.openwrt => core = "sing-box" /\ reference # Stable
         /\ applying' = [NoApply EXCEPT !.step = "install", !.core = core,
                           !.reference = reference]
    /\ UNCHANGED <<want, latest, assets, seenRelease, coresThere, channel, selection, suited,
                   choiceFaults>>

\* update_cores: the channel is installed anew and then selected, if it was before.  It takes
\* the channels that are installed one after another, each as in a call of its own.
SelectionMatches(core, reference) == selection = <<core, reference>>
UpdateChannel ==
    /\ InChoice /\ ~host.openwrt /\ applying = NoApply /\ Cardinality(coresThere) < MaxCores
    /\ \E core \in {"sing-box", "mihomo"} :
         /\ channel[core] # 0
         /\ applying' = [NoApply EXCEPT !.step = "install", !.core = core,
                           !.automatic = SelectionMatches(core, Stable)]
    /\ UNCHANGED <<want, latest, assets, seenRelease, coresThere, channel, selection, suited,
                   choiceFaults>>

\* update_router_core: what stable names now, by its version.
UpdateRouter ==
    /\ InChoice /\ host.openwrt /\ applying = NoApply /\ Cardinality(coresThere) < MaxCores
    /\ \E routed \in BOOLEAN :
         LET minor == ReleaseOf("sing-box", Stable, routed) IN
         /\ applying' = [NoApply EXCEPT !.step = "install", !.core = "sing-box",
                           !.reference = minor,
                           !.automatic = selection # <<>> /\ Head(selection) = "sing-box"]
         /\ seenRelease' = IF routed THEN seenRelease ELSE minor
    /\ UNCHANGED <<want, latest, assets, coresThere, channel, selection, suited, choiceFaults>>

ResolveRelease ==
    /\ InChoice /\ applying.step = "install"
    /\ \E routed \in BOOLEAN :
         LET minor == ReleaseOf(applying.core, applying.reference, routed)
             found == Package(applying.core, host) IN
         /\ applying' = IF found = "none" THEN NoApply
                        ELSE [applying EXCEPT !.step = "record", !.minor = minor,
                                !.asset = found]
         /\ seenRelease' = IF applying.core = "sing-box" /\ applying.reference = Stable /\ ~routed
                           THEN minor ELSE seenRelease
    /\ UNCHANGED <<want, latest, assets, coresThere, channel, selection, suited, choiceFaults>>

\* The version that the channel leaves goes, unless something keeps it: see InstalledCores.
Abandoned ==
    IF applying.reference # Stable \/ selection = <<applying.core, channel[applying.core]>>
    THEN {} ELSE {<<applying.core, channel[applying.core]>>}

\* The downloaded core must say its version, which one that does not run cannot.
Record ==
    /\ InChoice /\ Locked
    /\ IF RunsOn(applying.core, applying.minor, applying.asset, host)
       THEN /\ coresThere' \in {(coresThere \ left) \cup {<<applying.core, applying.minor>>} :
                                 left \in SUBSET Abandoned}
            /\ channel' = IF applying.reference = Stable
                          THEN [channel EXCEPT ![applying.core] = applying.minor] ELSE channel
            /\ applying' = IF applying.automatic THEN [applying EXCEPT !.step = "select"]
                           ELSE NoApply
       ELSE applying' = NoApply /\ UNCHANGED <<coresThere, channel>>
    /\ UNCHANGED <<want, latest, assets, seenRelease, selection, suited, choiceFaults>>
ApplyFails ==
    /\ InChoice /\ applying.step \in {"install", "record"} /\ ChoiceFault /\ applying' = NoApply
    /\ UNCHANGED <<want, latest, assets, seenRelease, coresThere, channel, selection, suited>>

MinorOf(core, reference) == IF reference = Stable THEN channel[core] ELSE reference
Usable(core, reference) == <<core, MinorOf(core, reference)>> \in coresThere

\* select_core takes the lock anew: what was installed may be gone.
SelectChosen ==
    /\ InChoice /\ applying.step = "select"
    /\ IF Usable(applying.core, applying.reference)
       THEN selection' = <<applying.core, applying.reference>> /\ suited' = applying.fresh
       ELSE UNCHANGED <<selection, suited>>
    /\ applying' = NoApply
    /\ UNCHANGED <<want, latest, assets, seenRelease, coresThere, channel, choiceFaults>>

SelectAnother ==
    /\ InChoice /\ ~Locked
    /\ \E installed \in coresThere :
         /\ \E reference \in {Stable, installed[2]} :
              Usable(installed[1], reference) /\ selection' = <<installed[1], reference>>
    /\ suited' = FALSE
    /\ UNCHANGED <<want, latest, assets, seenRelease, coresThere, channel, applying,
                   choiceFaults>>

RemoveCore ==
    /\ InChoice /\ ~Locked
    /\ \E installed \in coresThere :
         /\ selection # <<>> => installed # <<selection[1], MinorOf(selection[1], selection[2])>>
         /\ coresThere' = coresThere \ {installed}
         /\ channel' = IF channel[installed[1]] = installed[2]
                       THEN [channel EXCEPT ![installed[1]] = 0] ELSE channel
    /\ UNCHANGED <<want, latest, assets, seenRelease, selection, applying, suited,
                   choiceFaults>>

EditProfile ==
    /\ InChoice /\ want' \in Wants \ {want} /\ suited' = FALSE
    /\ applying' = [applying EXCEPT !.fresh = FALSE]
    /\ UNCHANGED <<latest, assets, seenRelease, coresThere, channel, selection, choiceFaults>>

Publish ==
    /\ InChoice /\ latest # Stables[Len(Stables)]
    /\ latest' = Stables[CHOOSE i \in 2..Len(Stables) : Stables[i - 1] = latest]
    /\ UNCHANGED <<want, assets, seenRelease, coresThere, channel, selection, applying, suited,
                   choiceFaults>>

(***************************************************************************)
(* A start: prepare_runtime, the launch, and another program.              *)
(***************************************************************************)
InStart == side = "start" /\ UNCHANGED <<side, chooseVars>>

\* published_control, kept on a router; anything else gets a private one.
KeepsController(d) == d.kind = "sing-box" /\ d.openwrt /\ d.published # 0
\* The API of xray and v2ray is an inbound of its own, with a rule before all others: one that
\* has its name goes.  What is kept has the place it had.
WithApi(inbounds) ==
    LET next == Len(inbounds) + 1 IN
    [i \in {j \in DOMAIN inbounds : inbounds[j] # "api"} \cup {next} |->
        IF i = next THEN "api" ELSE inbounds[i]]
\* What else a document opens is closed; a dashboard a router publishes stays, in the core's own
\* directory.
RuntimeOf(d, c) ==
    [whole |-> TRUE, port |-> c.port, secret |-> c.secret,
     inbounds |-> IF d.kind # "xray" THEN d.inbounds ELSE WithApi(d.inbounds),
     rules |-> IF d.kind # "xray" THEN d.rules ELSE <<"api">> \o d.rules,
     open |-> IF KeepsController(d) THEN d.open ELSE {}]

\* private_control: a port is bound and given back, a secret is drawn.
Reserve ==
    /\ InStart /\ control = NoControl /\ started < MaxStarted /\ started' = started + 1
    /\ IF KeepsController(compiled)
       THEN control' = [port |-> compiled.published, secret |-> compiled.secret]
       ELSE \E port \in Ports \ {otherPort} : control' = [port |-> port, secret |-> started']
    /\ runtimeFile' = [runtimeFile EXCEPT !.whole = FALSE]
    /\ UNCHANGED <<compiled, coreRuns, otherPort, choiceFaults>>

WriteRuntime ==
    /\ InStart /\ control # NoControl /\ ~runtimeFile.whole
    /\ runtimeFile' = RuntimeOf(compiled, control)
    /\ UNCHANGED <<compiled, control, coreRuns, otherPort, started, choiceFaults>>

\* A core that cannot bind its controller ends at once.
Launch ==
    /\ InStart /\ control # NoControl /\ runtimeFile.whole /\ coreRuns = NoFile
    /\ IF runtimeFile.port = otherPort THEN control' = NoControl /\ UNCHANGED coreRuns
       ELSE coreRuns' = runtimeFile /\ UNCHANGED control
    /\ UNCHANGED <<compiled, runtimeFile, otherPort, started, choiceFaults>>

ChosenEnds ==
    /\ InStart /\ coreRuns # NoFile /\ coreRuns' = NoFile /\ control' = NoControl
    /\ UNCHANGED <<compiled, runtimeFile, otherPort, started, choiceFaults>>

\* The daemon ends with its start or its core, whatever was written.
EndStart ==
    /\ InStart /\ control # NoControl /\ ChoiceFault /\ control' = NoControl /\ coreRuns' = NoFile
    /\ UNCHANGED <<compiled, runtimeFile, otherPort, started>>

OtherBinds ==
    /\ InStart /\ otherPort' \in (Ports \cup {0}) \ {otherPort, coreRuns.port}
    /\ UNCHANGED <<compiled, control, runtimeFile, coreRuns, started, choiceFaults>>

CompileAnew ==
    /\ InStart /\ control = NoControl /\ compiled' \in Documents \ {compiled}
    /\ UNCHANGED <<control, runtimeFile, coreRuns, otherPort, started, choiceFaults>>

ChoiceNext ==
    \/ Diagnose \/ InstallCore \/ UpdateChannel \/ UpdateRouter \/ ResolveRelease \/ Record
    \/ ApplyFails \/ SelectChosen \/ SelectAnother \/ RemoveCore \/ EditProfile \/ Publish
    \/ Reserve \/ WriteRuntime \/ Launch \/ ChosenEnds \/ EndStart \/ OtherBinds \/ CompileAnew

-----------------------------------------------------------------------------
\* What is recommended is eligible where anything is, and nothing eligible has more of the
\* hundred points.
RecommendationBest ==
    LET required == Requires(want)
        best == RecommendedProfile(host, required) IN
    \A p \in CandidateProfiles(host) :
        /\ Score(p, host) \in 1..100
        /\ Eligible(p, host, required) =>
             /\ best \in CandidateProfiles(host) /\ Eligible(best, host, required)
             /\ Score(best, host) >= Score(p, host)

\* What automatic configuration selected can do what the profile asked, whatever release stable
\* has come to name; what is selected is installed.
PromiseKept ==
    /\ selection # <<>> => Usable(selection[1], selection[2])
    /\ suited =>
         Meets(selection[1], MinorOf(selection[1], selection[2]), host, Requires(want))

\* The core that runs has the control that the daemon holds for it, alone, and nothing else open.
ControlIsOurs ==
    coreRuns # NoFile =>
        /\ control.port = coreRuns.port /\ control.secret = coreRuns.secret
        /\ coreRuns.port # otherPort
        /\ compiled.kind = "xray" =>
             /\ Head(coreRuns.rules) = "api"
             /\ Cardinality({i \in DOMAIN coreRuns.inbounds : coreRuns.inbounds[i] = "api"}) = 1
        /\ coreRuns.open # {} => KeepsController(compiled)

ChoiceSound == RecommendationBest /\ PromiseKept /\ ControlIsOurs
=============================================================================
