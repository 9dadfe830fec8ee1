------------------------------ MODULE MCServices ------------------------------
(***************************************************************************)
(* The parts that go on for ever in one model: the proxies of the server,  *)
(* the tunnels, the DNS settings, the DHCP server, the subscription        *)
(* schedule and the CN routes of the client.  They share no state; a run   *)
(* explores each of them, from its own initial states, while the others    *)
(* are at rest and owe no step.                                            *)
(***************************************************************************)
EXTENDS Proxies, Tunnels, DnsPublication, Dhcp, Profiles, CnRoutes

VARIABLE focus

MCOwnerOf == [p \in Proxy |-> "u1"]
MCLastRevision == [p \in Proxy |-> 2]
MCSettings ==
    {[shape |-> "s", rules |-> [r \in RuleSet |-> d], upstream |-> u] :
       d \in Domains, u \in Upstream}
MCReservations == NoReservation \cup {[m \in {"m1"} |-> 1], [m \in {"m1", "m2"} |-> 2]}

AnyOf(S) == CHOOSE x \in S : TRUE

ProxiesAtRest == ProxiesInit /\ node = AnyOf(Content \ Rejected)
DnsAtRest == DnsInit /\ settings = AnyOf(Settings) /\ servers = AnyOf(Server)
DhcpAtRest == DhcpInit /\ saved = AnyOf(Reservations)

\* The daemon has stopped its tunnels.
TunnelsAtRest ==
    /\ stored = [t \in Tunnel |-> Absent]
    /\ settled = [t \in Tunnel |-> Open]
    /\ live = FALSE /\ operation = "free"
    /\ request = [a \in Actor |-> [pc |-> IF a = Daemon THEN "ended" ELSE "idle"]]
    /\ worker = [w \in Worker |-> NoWorker] /\ workers = [t \in Tunnel |-> "none"]
    /\ exits = 0 /\ interrupts = 0

\* The daemon's scheduler sleeps; or one profile of two is active, and is edited,
\* refreshed and imported into while it runs.
ProfilesAtRest ==
    /\ ProfilesInit /\ catalog = [p \in Profile |-> New({})] /\ activeProfile = "none"
    /\ ~interval /\ ~overdue
    /\ custom = AnyOf(CustomNode) /\ network = AnyOf(Network)
ProfilesBegin ==
    /\ ProfilesInit /\ catalog["p2"] = Unused
    /\ custom = AnyOf(CustomNode) /\ network = AnyOf(Network)
ProfilesStep ==
    \/ OperationStep \/ SchedulerStep \/ PrepareProfile \/ SaveProfile
    \/ BeginImport \/ EditImport \/ ActivateImport \/ SetInterval \/ Elapse

OldAndNew == {{x} : x \in Prefix}
RoutesBegin == Init /\ uplink = AnyOf(Gateway) /\ published = AnyOf(Snapshots)

ProxiesStay == UNCHANGED proxyVars
TunnelsStay == UNCHANGED tunnelVars
DnsStays == UNCHANGED dnsVars
DhcpStays == UNCHANGED dhcpVars
ProfilesStay == UNCHANGED profileVars
RoutesStay == UNCHANGED vars

ServicesInit ==
    /\ focus \in {"proxies", "tunnels", "dns", "dhcp", "profiles", "routes"}
    /\ IF focus = "proxies" THEN ProxiesInit ELSE ProxiesAtRest
    /\ IF focus = "tunnels" THEN TunnelsInit ELSE TunnelsAtRest
    /\ IF focus = "dns" THEN DnsInit ELSE DnsAtRest
    /\ IF focus = "dhcp" THEN DhcpInit ELSE DhcpAtRest
    /\ IF focus = "profiles" THEN ProfilesBegin ELSE ProfilesAtRest
    /\ RoutesBegin /\ (focus = "routes" \/ ~detached)

ServicesNext ==
    /\ UNCHANGED focus
    /\ \/ /\ focus = "proxies" /\ ProxiesNext
          /\ TunnelsStay /\ DnsStays /\ DhcpStays /\ ProfilesStay /\ RoutesStay
       \/ /\ focus = "tunnels" /\ TunnelsNext
          /\ ProxiesStay /\ DnsStays /\ DhcpStays /\ ProfilesStay /\ RoutesStay
       \/ /\ focus = "dns" /\ DnsNext
          /\ ProxiesStay /\ TunnelsStay /\ DhcpStays /\ ProfilesStay /\ RoutesStay
       \/ /\ focus = "dhcp" /\ DhcpNext
          /\ ProxiesStay /\ TunnelsStay /\ DnsStays /\ ProfilesStay /\ RoutesStay
       \/ /\ focus = "profiles" /\ ProfilesStep
          /\ ProxiesStay /\ TunnelsStay /\ DnsStays /\ DhcpStays /\ RoutesStay
       \/ /\ focus = "routes" /\ Next
          /\ ProxiesStay /\ TunnelsStay /\ DnsStays /\ DhcpStays /\ ProfilesStay

servicesVars ==
    <<proxyVars, tunnelVars, dnsVars, dhcpVars, profileVars, vars, focus>>

\* The fairness of two parts whose steps are owed even where they rest here.
ProfilesProceed ==
    /\ WF_profileVars(focus = "profiles" /\ OperationStep)
    /\ WF_profileVars(focus = "profiles" /\ SchedulerStep)
    /\ SF_profileVars(focus = "profiles" /\ ScheduledUpdate)
    /\ WF_profileVars(focus = "profiles" /\ Elapse)
RoutesProceed ==
    /\ WF_vars(focus = "routes" /\ StartCore)
    /\ WF_vars(focus = "routes" /\ StartRoutes)
    /\ WF_vars(focus = "routes" /\ OpenEvents)
    /\ WF_vars(focus = "routes" /\ Monitor)
    /\ WF_vars(focus = "routes" /\ ReconcileStep)

ServicesSpec ==
    /\ ServicesInit /\ [][ServicesNext]_servicesVars
    /\ ProxiesFairness /\ TunnelsFairness /\ DnsFairness
    /\ ProfilesProceed /\ RoutesProceed

===============================================================================
