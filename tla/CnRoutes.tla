------------------------------- MODULE CnRoutes -------------------------------
(***************************************************************************)
(* The journalled reconciliation of CN routes (sempre-transparent:         *)
(* cn_routes.rs) and the three callers that drive it: the start-up of a    *)
(* core, the monitor that follows OS route events, and the refresh of the  *)
(* rule snapshot (sempre-manager: cn_routes.rs, rule_bootstrap/download.rs,*)
(* supervisor/wait.rs).                                                    *)
(*                                                                         *)
(* A plan holds one direct route per CN prefix through the uplink's        *)
(* gateway and one fallback route into the TUN.  The OS table holds one    *)
(* owned route per destination (Linux and macOS replace), and the journal  *)
(* file says which routes may be installed.                                *)
(***************************************************************************)
EXTENDS Integers, FiniteSets

CONSTANTS
    Prefix,       \* destination prefixes of the rule snapshots
    Gateway,      \* gateways the physical default route may have
    None,         \* no physical default route
    Snapshots,    \* the published rule snapshots: sets of prefixes
    MaxFaults     \* bound on the failures, cancellations and network changes

\* No list of a country's networks has a half of the address space, which the fallback routes.
ASSUME RouteAssumption ==
    /\ None \notin Gateway /\ "default" \notin Prefix
    /\ Snapshots \subseteq SUBSET Prefix
    /\ MaxFaults \in Nat

Direct(p, g) == [dst |-> p, via |-> g]
Fallback == [dst |-> "default", via |-> "tun"]
Route == [dst: Prefix, via: Gateway] \cup {Fallback}
IsFallback(r) == r = Fallback

Journal == [routes: SUBSET Route, policy: BOOLEAN]
NoJournal == [routes |-> {}, policy |-> FALSE]

NoWork == [who |-> "none"]
Who == {"start", "monitor", "refresh", "stop"}
Work ==
    [who: Who, mode: {"apply", "cleanup"}, failed: BOOLEAN,
     pc: {"discover", "observe", "add", "policy", "remove"},
     prefixes: SUBSET Prefix, candidate: SUBSET Prefix,
     target: SUBSET Route, adds: SUBSET Route, removes: SUBSET Route,
     journal: Journal, clean: BOOLEAN]

VARIABLES
    table,       \* the owned routes in the OS table
    policy,      \* the owned policy rules are installed
    uplink,      \* gateway of the physical default route, or None
    detached,    \* a batch in flight survives its caller (macOS)
    journal,     \* cn-routes.json; NoJournal when the file is absent
    verified,    \* this process has reconciled the journal with the table
    work,        \* the reconciliation that holds the gates, or NoWork
    phase,       \* "off", "starting", "running", "inactive" or "idle"
    watching,    \* the monitor has its route-event socket open
    event,       \* an unread route event
    refreshed,   \* the permit of cn_rules_changed
    published,   \* the rule snapshot the core reads
    plan,        \* the prefixes of the running core's plan
    orphans,     \* routes a cancelled batch will still install
    dropped,     \* the OS took owned routes since the last clean pass
    faults       \* faults so far

osVars == <<table, policy, uplink, detached>>
memoryVars == <<verified, work, phase, watching, event, refreshed, plan>>
vars == <<osVars, journal, memoryVars, published, orphans, dropped, faults>>

Plan(prefixes, g) ==
    IF g = None THEN {} ELSE {Direct(p, g) : p \in prefixes} \cup {Fallback}

Install(r) == {o \in table : o.dst # r.dst} \cup {r}
Reachable(r) == IF IsFallback(r) THEN phase \in {"starting", "running"} ELSE r.via = uplink

Fault == faults < MaxFaults /\ faults' = faults + 1
Signal(changed) == event' = (event \/ (watching /\ changed))

Init ==
    /\ table = {} /\ policy = FALSE
    /\ uplink \in Gateway /\ detached \in BOOLEAN
    /\ journal = NoJournal /\ verified = FALSE
    /\ work = NoWork /\ phase = "off"
    /\ watching = FALSE /\ event = FALSE /\ refreshed = FALSE
    /\ published \in Snapshots /\ plan = {}
    /\ orphans = {} /\ dropped = FALSE /\ faults = 0

-----------------------------------------------------------------------------
(* Callers. *)

Begin(who, mode, prefixes, candidate) ==
    /\ work = NoWork
    /\ work' = [who |-> who, mode |-> mode, failed |-> FALSE,
                pc |-> IF mode = "apply" THEN "discover" ELSE "observe",
                prefixes |-> prefixes, candidate |-> candidate,
                target |-> {}, adds |-> {}, removes |-> {},
                journal |-> NoJournal, clean |-> FALSE]

(* A core is prepared from the published snapshot and spawned; its TUN     *)
(* comes up.                                                               *)
StartCore ==
    /\ phase \in {"off", "idle"}
    /\ phase' = "starting" /\ plan' = published
    /\ UNCHANGED <<osVars, journal, verified, work, watching, event, refreshed,
                   published, orphans, dropped, faults>>

(* activate_network distrusts the last check and applies the plan. *)
StartRoutes ==
    /\ phase = "starting"
    /\ Begin("start", "apply", plan, {})
    /\ verified' = FALSE
    /\ UNCHANGED <<osVars, journal, phase, watching, event, refreshed, plan,
                   published, orphans, dropped, faults>>

OpenEvents ==
    /\ phase = "running" /\ ~watching
    /\ watching' = TRUE
    /\ UNCHANGED <<osVars, journal, verified, work, phase, event, refreshed, plan,
                   published, orphans, dropped, faults>>

(* The snapshot a wake-up applies: read again, or that of the start-up.    *)
SnapshotOfStart == plan
SnapshotNow == published

(* The monitor wakes on a route event or on a new snapshot, and reads the  *)
(* snapshot again under the runtime gate.                                  *)
Monitor ==
    /\ phase = "running" /\ watching
    /\ \/ event /\ event' = FALSE /\ UNCHANGED refreshed
       \/ refreshed /\ refreshed' = FALSE /\ UNCHANGED event
    /\ Begin("monitor", "apply", SnapshotNow, {})
    /\ UNCHANGED <<osVars, journal, verified, phase, watching, plan,
                   published, orphans, dropped, faults>>

(* A downloaded candidate: both snapshots are bypassed before it is        *)
(* published.                                                              *)
Refresh ==
    /\ phase = "running"
    /\ \E candidate \in Snapshots \ {published} :
        Begin("refresh", "apply", plan \cup candidate \cup published, candidate)
    /\ UNCHANGED <<osVars, journal, verified, phase, watching, event, refreshed, plan,
                   published, orphans, dropped, faults>>

(* The runtime is no longer wanted: cleanup_inactive. *)
Deactivate ==
    /\ phase = "off"
    /\ phase' = "inactive"
    /\ UNCHANGED <<osVars, journal, verified, work, watching, event, refreshed, plan,
                   published, orphans, dropped, faults>>

StopRoutes ==
    /\ phase = "inactive"
    /\ Begin("stop", "cleanup", {}, {})
    /\ UNCHANGED <<osVars, journal, verified, phase, watching, event, refreshed, plan,
                   published, orphans, dropped, faults>>

CoreGone(next) == phase' = next /\ watching' = FALSE /\ event' = FALSE /\ refreshed' = FALSE

(* What the caller does with a reconciliation that succeeded: a start-up   *)
(* makes the core run, a refresh publishes its snapshot unless the         *)
(* deployment is no longer the planned one.                                *)
Succeed(clean) ==
    /\ work' = NoWork
    /\ dropped' = (dropped /\ ~clean)
    /\ \/ /\ work.who = "start" /\ phase' = "running"
          /\ UNCHANGED <<published, watching, event, refreshed>>
       \/ /\ work.who = "refresh"
          /\ published' = work.candidate /\ refreshed' = TRUE
          /\ UNCHANGED <<phase, watching, event>>
       \/ /\ work.who \in {"monitor", "refresh"}
          /\ UNCHANGED <<published, phase, watching, event, refreshed>>
       \/ /\ work.who = "stop" /\ CoreGone("idle")
          /\ UNCHANGED published

(* What the caller does with an error: a failed start-up terminates the    *)
(* core, whose TUN takes its route along; the others only log.             *)
GiveUp ==
    /\ work' = NoWork
    /\ IF work.who = "start"
       THEN CoreGone("off") /\ table' = table \ {Fallback}
       ELSE UNCHANGED <<phase, watching, event, refreshed, table>>

-----------------------------------------------------------------------------
(* One reconciliation. *)

At(pc) == work # NoWork /\ work.pc = pc

Discover ==
    /\ At("discover")
    /\ work' = [work EXCEPT !.pc = "observe", !.target = Plan(work.prefixes, uplink)]
    /\ UNCHANGED <<osVars, journal, verified, phase, watching, event, refreshed, plan,
                   published, orphans, dropped, faults>>

(* No TUN or no readable default route: apply returns before it changes    *)
(* anything.                                                               *)
DiscoverFails ==
    /\ At("discover") /\ Fault /\ GiveUp
    /\ UNCHANGED <<policy, uplink, detached, journal, verified, plan, published, orphans, dropped>>

(* apply audits the live table before it trusts its last reconciliation.   *)
Settled == verified /\ journal.routes = work.target /\ work.target \subseteq table

AlreadyThere ==
    /\ At("observe") /\ work.mode = "apply" /\ Settled
    /\ Succeed(TRUE)
    /\ UNCHANGED <<osVars, journal, verified, plan, orphans, faults>>

WriteAheadSkipped(ahead) == journal
WriteAhead(ahead) == IF work.mode = "apply" THEN ahead ELSE journal

(* reconcile observes which candidates are installed; an apply then writes *)
(* ahead every route that may come to be installed.                        *)
Observe ==
    /\ At("observe") /\ ~(work.mode = "apply" /\ Settled)
    /\ LET installed == table \cap (journal.routes \cup work.target)
           adds      == work.target \ installed
           ahead     == [routes |-> installed \cup adds,
                         policy |-> work.mode = "apply" \/ journal.policy]
       IN  /\ work' = [work EXCEPT !.pc = IF work.mode = "apply" THEN "add" ELSE "policy",
                                   !.adds = adds, !.removes = installed \ work.target,
                                   !.journal = ahead, !.clean = TRUE]
           /\ journal' = WriteAhead(ahead)
    /\ verified' = FALSE
    /\ UNCHANGED <<osVars, phase, watching, event, refreshed, plan,
                   published, orphans, dropped, faults>>

(* Direct routes come first, the fallback last. *)
NextAdds ==
    LET direct == {r \in work.adds : ~IsFallback(r)}
    IN  IF direct # {} THEN direct ELSE work.adds

Add ==
    /\ At("add")
    /\ \E r \in NextAdds :
        /\ table' = Install(r)
        /\ work' = [work EXCEPT !.adds = @ \ {r}]
    /\ Signal(TRUE)
    /\ UNCHANGED <<policy, uplink, detached, journal, verified, phase, watching, refreshed, plan,
                   published, orphans, dropped, faults>>

(* An apply that fails falls back to a cleanup, which disconnects the TUN  *)
(* first; a cleanup that fails leaves the journal for the next one.        *)
FallBack ==
    /\ work' = [work EXCEPT !.mode = "cleanup", !.failed = TRUE, !.pc = "observe",
                            !.target = {}]
    /\ UNCHANGED <<table, phase, watching, event, refreshed>>

Broken == IF work.mode = "apply" THEN FallBack ELSE GiveUp

Unreachable(r) == ~IsFallback(r) /\ r.via # uplink

StepFails ==
    /\ work # NoWork /\ work.pc \in {"add", "policy", "remove"}
    /\ \/ Fault
       \/ At("add") /\ (\E r \in NextAdds : Unreachable(r)) /\ UNCHANGED faults
    /\ Broken
    /\ UNCHANGED <<policy, uplink, detached, journal, verified, plan, published, orphans, dropped>>

AddsDone ==
    /\ At("add") /\ work.adds = {}
    /\ work' = [work EXCEPT !.pc = "policy"]
    /\ UNCHANGED <<osVars, journal, verified, phase, watching, event, refreshed, plan,
                   published, orphans, dropped, faults>>

(* The policy rules go up after the routes and come down before them. *)
Policy ==
    /\ At("policy")
    /\ policy' = IF work.mode = "apply" THEN TRUE
                 ELSE policy /\ ~work.journal.policy
    /\ work' = [work EXCEPT !.pc = "remove", !.journal.policy = work.mode = "apply"]
    /\ UNCHANGED <<table, uplink, detached, journal, verified, phase, watching, event, refreshed,
                   plan, published, orphans, dropped, faults>>

NextRemoves ==
    IF Fallback \in work.removes THEN {Fallback} ELSE work.removes

(* Each removed batch is checkpointed. *)
RemoveRoutes ==
    /\ At("remove")
    /\ \E r \in NextRemoves :
        LET rest == [work.journal EXCEPT !.routes = @ \ {r}]
        IN  /\ table' = table \ {r}
            /\ journal' = rest
            /\ work' = [work EXCEPT !.removes = @ \ {r}, !.journal = rest]
            /\ Signal(r \in table)
    /\ UNCHANGED <<policy, uplink, detached, verified, phase, watching, refreshed, plan,
                   published, orphans, dropped, faults>>

Finish ==
    /\ At("remove") /\ work.removes = {}
    /\ journal' = [work.journal EXCEPT !.routes = work.target]
    /\ verified' = TRUE
    /\ IF work.failed THEN GiveUp /\ UNCHANGED <<published, dropped>>
       ELSE Succeed(work.clean) /\ UNCHANGED table
    /\ UNCHANGED <<policy, uplink, detached, plan, orphans, faults>>

-----------------------------------------------------------------------------
(* What else can happen. *)

(* The routes of the batch a cancelled caller leaves in flight: a blocking *)
(* thread completes it (macOS), a killed child does not.                   *)
InFlight == IF detached /\ At("add") THEN {{}} \cup {{r} : r \in NextAdds} ELSE {{}}

(* A reload, an exit of the core or a stop ends the running or the         *)
(* starting core: the select drops monitor, refresh and start-up, and the  *)
(* TUN goes.  A stalled cleanup is dropped in the same way.                *)
InterruptRoutes ==
    /\ phase \in {"starting", "running", "inactive"}
    /\ phase = "inactive" => work # NoWork
    /\ Fault
    /\ IF phase = "inactive" THEN UNCHANGED <<phase, watching, event, refreshed>>
       ELSE CoreGone("off")
    /\ \E batch \in InFlight : orphans' = orphans \cup batch
    /\ work' = NoWork /\ table' = table \ {Fallback}
    /\ UNCHANGED <<policy, uplink, detached, journal, verified, plan, published, dropped>>

(* The daemon dies and starts again. *)
Crash ==
    /\ Fault
    /\ CoreGone("off")
    /\ work' = NoWork /\ verified' = FALSE /\ orphans' = {}
    /\ table' = table \ {Fallback}
    /\ UNCHANGED <<policy, uplink, detached, journal, plan, published, dropped>>

BatchEnds ==
    /\ \E r \in orphans :
        /\ orphans' = orphans \ {r}
        /\ table' = IF IsFallback(r) THEN table ELSE Install(r)
    /\ Signal(TRUE)
    /\ UNCHANGED <<policy, uplink, detached, journal, verified, work, phase, watching, refreshed, plan,
                   published, dropped, faults>>

(* The default route moves; the kernel takes the routes through the old    *)
(* gateway along when their interface goes.                                *)
UplinkMoves ==
    /\ Fault
    /\ uplink' \in (Gateway \cup {None}) \ {uplink}
    /\ \E lost \in {{}, {r \in table : r.via = uplink}} :
        /\ table' = table \ lost
        /\ dropped' = (dropped \/ lost # {})
        /\ work' = IF work # NoWork /\ lost # {} THEN [work EXCEPT !.clean = FALSE] ELSE work
    /\ Signal(TRUE)
    /\ UNCHANGED <<policy, detached, journal, verified, phase, watching, refreshed, plan,
                   published, orphans>>

CallerStep ==
    \/ StartCore \/ StartRoutes \/ OpenEvents \/ Monitor \/ Refresh
    \/ Deactivate \/ StopRoutes
ReconcileStep ==
    \/ Discover \/ AlreadyThere \/ Observe \/ Add \/ AddsDone \/ Policy \/ RemoveRoutes \/ Finish
FaultStep ==
    \/ DiscoverFails \/ StepFails \/ InterruptRoutes \/ Crash \/ BatchEnds \/ UplinkMoves

Next == CallerStep \/ ReconcileStep \/ FaultStep

Spec == Init /\ [][Next]_vars

(* The daemon's task runs on, the monitor is polled, and a reconciliation  *)
(* that can take a step takes one.                                         *)
Fairness ==
    /\ WF_vars(StartCore) /\ WF_vars(StartRoutes) /\ WF_vars(OpenEvents)
    /\ WF_vars(Monitor) /\ WF_vars(ReconcileStep)
FairSpec == Spec /\ Fairness

-----------------------------------------------------------------------------
(* Properties. *)

TypeOK ==
    /\ table \subseteq Route /\ policy \in BOOLEAN
    /\ uplink \in Gateway \cup {None} /\ detached \in BOOLEAN
    /\ journal \in Journal /\ verified \in BOOLEAN
    /\ work \in Work \cup {NoWork}
    /\ phase \in {"off", "starting", "running", "inactive", "idle"}
    /\ watching \in BOOLEAN /\ event \in BOOLEAN /\ refreshed \in BOOLEAN
    /\ published \in Snapshots /\ plan \subseteq Prefix
    /\ orphans \subseteq Route /\ dropped \in BOOLEAN /\ faults \in 0..MaxFaults

(* "Write ahead: an interrupted batch can always be recovered": whatever   *)
(* is interrupted, cancelled or fails, every owned route in the OS table   *)
(* and the policy rules are in the journal, so that a cleanup finds them;  *)
(* once the runtime is idle nothing is left (where a cancelled batch does  *)
(* not outlive its caller).                                                *)
Recoverable ==
    /\ table \subseteq journal.routes
    /\ policy => journal.policy
    /\ phase = "idle" => table = {} /\ ~policy
RoutesJournaled == ~detached => Recoverable

(* "Disconnect TUN first" and "keep both snapshots bypassed until all      *)
(* cache publication completes": while the fallback route sends everything *)
(* into the TUN, every prefix of the published snapshot has a direct       *)
(* route, unless the OS took one and no pass has completed since (where a  *)
(* cancelled batch does not outlive its caller).                           *)
Exposed == Fallback \in table /\ \E p \in published : \A g \in Gateway : Direct(p, g) \notin table
PublishedStaysDirect == ~dropped /\ ~detached => ~Exposed

\* The routes are recoverable and never expose what is to stay direct.
RoutesSafe == RoutesJournaled /\ PublishedStaysDirect

(* "CN route drift repaired": once the monitor has an unread route event,  *)
(* the direct routes of the published snapshot come to go through the      *)
(* present gateway, unless something fails or changes again meanwhile.     *)
Through(g) == \A p \in published : Direct(p, g) \in table
DriftRepaired ==
    \A g \in Gateway, n \in 0..MaxFaults :
        (event /\ phase = "running" /\ uplink = g /\ faults = n)
            ~> (Through(g) \/ faults # n)

=============================================================================
