----------------------------- MODULE NetworkModes -----------------------------
(***************************************************************************)
(* Which mode a running core is in: that of the known network which the    *)
(* host is connected to, recognised by the hardware address of its         *)
(* gateway (network_automation), looked at through a cache that is up to   *)
(* two seconds old (default_interface).  While the core is down the same   *)
(* events end the wait for another attempt to start it.                    *)
(* Simplifications: a core's settings are read and patched in one request; *)
(* the host forgets a gateway's hardware address when the link changes; a  *)
(* tick is a second; the events' socket does not fail.                     *)
(***************************************************************************)
EXTENDS Naturals, Sequences

CONSTANTS
    Network,       \* networks; the link is one of them
    Nowhere,       \* no link, no cached value, no observation, no process
    RuleMode,          \* the mode of a core in no known network
    MaxMoves,      \* changes of link and settings
    MaxModeFaults

ASSUME ModeAssumption == Nowhere \notin Network

VARIABLES
    link,          \* the network the host is in
    neighbour,     \* the gateway's hardware address is known
    seen,          \* the cache: what was seen, and how old it is
    automatic,     \* the settings
    saved,         \* they were saved since they were looked at
    core,          \* the core: its mode and the modes that it was compiled with
    watch,         \* what follows the network: step, probes made, seconds to sleep, outcome
    routeEvent,         \* an event is waiting in the socket
    moves, modeFaults

modeVars == <<link, neighbour, seen, automatic, saved, core, watch, routeEvent, moves, modeFaults>>

Known == Network \ {RuleMode}
Asleep == [step |-> "off", count |-> 0, timer |-> 0, ok |-> FALSE, moved |-> FALSE,
           wanted |-> Nowhere, initial |-> Nowhere]
TTL == 2
Delays == <<2, 3, 4>>

ModeInit ==
    /\ link \in Network /\ neighbour = TRUE /\ seen = [value |-> Nowhere, age |-> TTL]
    /\ automatic \in BOOLEAN /\ saved = FALSE /\ core = Nowhere /\ watch = Asleep
    /\ routeEvent = FALSE /\ moves = 0 /\ modeFaults = 0

Elsewhere == UNCHANGED <<moves, modeFaults>>

(***************************************************************************)
(* The host.                                                               *)
(***************************************************************************)
MoveTo ==
    /\ moves < MaxMoves /\ moves' = moves + 1
    /\ link' \in (Network \cup {Nowhere}) \ {link} /\ neighbour' = (link' = Nowhere)
    /\ routeEvent' = (watch.step \notin {"off", "activate", "start"})
    /\ watch' = [watch EXCEPT !.moved = routeEvent']
    /\ UNCHANGED <<seen, automatic, saved, core, modeFaults>>

Resolve ==
    /\ ~neighbour /\ neighbour' = TRUE
    /\ UNCHANGED <<link, seen, automatic, saved, core, watch, routeEvent>> /\ Elsewhere

Save ==
    /\ moves < MaxMoves /\ moves' = moves + 1
    /\ automatic' = ~automatic /\ saved' = TRUE
    /\ UNCHANGED <<link, neighbour, seen, core, watch, routeEvent, modeFaults>>

Second ==
    /\ seen.age < TTL \/ watch.timer > 0
    /\ seen' = [seen EXCEPT !.age = IF @ < TTL THEN @ + 1 ELSE @]
    /\ watch' = [watch EXCEPT !.timer = IF @ > 0 THEN @ - 1 ELSE @]
    /\ UNCHANGED <<link, neighbour, automatic, saved, core, routeEvent>> /\ Elsewhere

(***************************************************************************)
(* A look at the network.                                                  *)
(***************************************************************************)
Here == [network |-> link, mac |-> neighbour]
Fresh == seen.age < TTL
Observed == IF Fresh THEN seen.value ELSE Here
Noted == IF Fresh THEN seen ELSE [value |-> Here, age |-> 0]

\* sync_network_mode: the mode that is wanted, and whether it is final.
Desired(o) ==
    IF automatic /\ o.mac /\ o.network \in Known THEN o.network ELSE RuleMode
Final(o) == automatic => o.network = Nowhere \/ o.mac

\* The status that the API shows goes through the same cache.
ShowStatus ==
    /\ ~Fresh /\ seen' = Noted
    /\ UNCHANGED <<link, neighbour, automatic, saved, core, watch, routeEvent>> /\ Elsewhere

Probe(from, to) ==
    /\ watch.step = from /\ watch.timer = 0
    /\ seen' = Noted
    /\ watch' = [watch EXCEPT !.step = to, !.wanted = Desired(Observed), !.ok = Final(Observed)]
    /\ UNCHANGED <<link, neighbour, automatic, saved, core, routeEvent>> /\ Elsewhere

\* What the core was not compiled for is no mode of it.
CorePatched(wanted) ==
    [core EXCEPT !.mode = IF wanted \in core.modes THEN wanted ELSE RuleMode]

\* settle_network_mode stops when the mode is final, but never before the second probe:
\* the first may have seen what was there before the event.  Stopping after the first:
ModeSettledAtOnce(w) == w.count = Len(Delays) + 1 \/ w.ok
ModeSettled(w) == w.count = Len(Delays) + 1 \/ (w.ok /\ w.count > 1)

Continue(w) ==
    IF ModeSettled(w) THEN [w EXCEPT !.step = "waiting", !.count = 0]
    ELSE [w EXCEPT !.step = "probe", !.timer = Delays[w.count]]

(***************************************************************************)
(* activate_network_automation, when a core starts.                        *)
(***************************************************************************)
CoreStarts ==
    /\ core = Nowhere /\ watch.step \in {"off", "retrying"}
    /\ core' \in [mode : Network, modes : {Network, {RuleMode}}]
    /\ watch' = [Asleep EXCEPT !.step = "activate"] /\ routeEvent' = FALSE
    /\ UNCHANGED <<link, neighbour, seen, automatic, saved>> /\ Elsewhere

ProbeAtStart == Probe("activate", "start")
PatchAtStart ==
    /\ watch.step = "start"
    /\ core' = CorePatched(watch.wanted)
    /\ watch' = [Asleep EXCEPT !.step = "activated"]
    /\ UNCHANGED <<link, neighbour, seen, automatic, saved, routeEvent>> /\ Elsewhere

\* The control interface does not answer yet: again, or without a mode.
StartFails ==
    /\ watch.step = "start"
    /\ modeFaults < MaxModeFaults /\ modeFaults' = modeFaults + 1
    /\ watch' \in {[Asleep EXCEPT !.step = s] : s \in {"activate", "activated"}}
    /\ UNCHANGED <<link, neighbour, seen, automatic, saved, core, routeEvent, moves>>

(***************************************************************************)
(* monitor_network_automation.                                             *)
(***************************************************************************)
\* Events count from here on.
OpenSocket ==
    /\ watch.step = "activated"
    /\ watch' = [Asleep EXCEPT !.step = "idle"] /\ routeEvent' = FALSE
    /\ UNCHANGED <<link, neighbour, seen, automatic, saved, core>> /\ Elsewhere

Waits == watch.step \in {"idle", "waiting"}
Settle(made) ==
    watch' = [watch EXCEPT !.step = "probe", !.count = made, !.timer = 0, !.ok = FALSE]

HearEvent ==
    /\ Waits /\ routeEvent /\ routeEvent' = FALSE
    /\ IF automatic THEN Settle(0) ELSE UNCHANGED watch
    /\ UNCHANGED <<link, neighbour, seen, automatic, saved, core>> /\ Elsewhere

HearSettings ==
    /\ Waits /\ saved /\ saved' = FALSE
    /\ Settle(IF automatic THEN 0 ELSE Len(Delays))
    /\ UNCHANGED <<link, neighbour, seen, automatic, core, routeEvent>> /\ Elsewhere

ProbeAgain == Probe("probe", "patch")
PatchMode ==
    /\ watch.step = "patch"
    /\ core' = CorePatched(watch.wanted)
    /\ watch' = Continue([watch EXCEPT !.count = @ + 1])
    /\ UNCHANGED <<link, neighbour, seen, automatic, saved, routeEvent>> /\ Elsewhere

PatchModeFails ==
    /\ watch.step = "patch"
    /\ modeFaults < MaxModeFaults /\ modeFaults' = modeFaults + 1
    /\ watch' = Continue([watch EXCEPT !.count = @ + 1, !.ok = FALSE])
    /\ UNCHANGED <<link, neighbour, seen, automatic, saved, core, routeEvent, moves>>

CoreEnds ==
    /\ core # Nowhere /\ core' = Nowhere
    /\ watch' = Asleep /\ routeEvent' = FALSE
    /\ UNCHANGED <<link, neighbour, seen, automatic, saved>> /\ Elsewhere

(***************************************************************************)
(* wait_for_network_change, until the next attempt to start.               *)
(***************************************************************************)
AwaitChange ==
    /\ core = Nowhere /\ watch.step = "off"
    /\ seen' = Noted /\ routeEvent' = FALSE
    /\ watch' = [Asleep EXCEPT !.step = "retrying", !.initial = Observed]
    /\ UNCHANGED <<link, neighbour, automatic, saved, core>> /\ Elsewhere

\* Networks that differ in nothing but the gateway's hardware address.
Differs(a, b) ==
    /\ a.network # b.network
    /\ Nowhere \in {a.network, b.network} \/ (a.mac /\ b.mac)

NoticeEvent ==
    /\ watch.step = "retrying" /\ routeEvent /\ routeEvent' = FALSE
    /\ watch' = [watch EXCEPT !.step = "compare", !.count = 0, !.timer = 0]
    /\ UNCHANGED <<link, neighbour, seen, automatic, saved, core>> /\ Elsewhere

Compare ==
    /\ watch.step = "compare" /\ watch.timer = 0
    /\ seen' = Noted
    /\ watch' = IF Differs(watch.initial, Observed) THEN Asleep
                ELSE IF watch.count = 0 THEN [watch EXCEPT !.count = 1, !.timer = TTL]
                ELSE [watch EXCEPT !.step = "retrying", !.ok = Observed.mac]
    /\ UNCHANGED <<link, neighbour, automatic, saved, core, routeEvent>> /\ Elsewhere

------------------------------------------------------------------------------
ModeNext ==
    \/ MoveTo \/ Resolve \/ Save \/ Second \/ ShowStatus
    \/ CoreStarts \/ ProbeAtStart \/ PatchAtStart \/ StartFails \/ OpenSocket
    \/ HearEvent \/ HearSettings \/ ProbeAgain \/ PatchMode \/ PatchModeFails \/ CoreEnds
    \/ AwaitChange \/ NoticeEvent \/ Compare

ModeSpec == ModeInit /\ [][ModeNext]_modeVars

(***************************************************************************)
(* When the monitor has settled and nothing is left to be heard, the core  *)
(* is in the mode of the network that the host is in now.  (An address     *)
(* that the gateway reveals after the last probe is not noticed.)          *)
(***************************************************************************)
ModeIsOfNetwork ==
    watch.step = "waiting" /\ watch.ok /\ ~routeEvent /\ ~saved =>
        core.mode = IF automatic /\ link \in Known \cap core.modes THEN link ELSE RuleMode

\* A change that was heard of, with both gateways known, has ended the wait.
ChangeEndsWait ==
    watch.step = "retrying" /\ watch.moved /\ ~routeEvent /\ watch.ok /\ watch.initial.mac =>
        link = watch.initial.network

ModeFollows == ModeIsOfNetwork /\ ChangeEndsWait

==============================================================================
