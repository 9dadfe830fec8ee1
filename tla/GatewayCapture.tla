---------------------------- MODULE GatewayCapture ----------------------------
(***************************************************************************)
(* Capture on an OpenWrt router: rules that outlive the core, so that a    *)
(* restart lets nothing through, and that every reload of the firewall     *)
(* removes and a process of its own puts back from a script (capture,      *)
(* supervisor/capture).  The list of domestic prefixes is part of them and *)
(* is refreshed while a core runs.  Any command of a withdrawal may fail,  *)
(* which ends neither it nor, but for the table, is told to anybody.       *)
(* Simplifications: interfaces and addresses of the host do not change;    *)
(* the DNS port goes with the other; the status file goes with the script; *)
(* two reloads do not overlap.                                             *)
(***************************************************************************)
EXTENDS Naturals, Sequences

CONSTANTS
    Port,            \* of a configuration
    NoRules,          \* no core, no rules, no list, no text
    MaxStarts, MaxReloads, MaxLists, MaxCaptureFaults

\* What is not there is neither a text nor a core.
ASSUME CaptureAssumption ==
    /\ NoRules \notin [port : Port, list : Nat, offload : BOOLEAN]
    /\ NoRules \notin [port : Port, listens : BOOLEAN, enabled : BOOLEAN]

VARIABLES
    config,          \* the port that was compiled, and whether capture is enabled
    router,          \* the daemon is up; its kernel has flowtables; somebody has our priority
    proxy,           \* the core: its port, whether it listens, whether capture is enabled
    captureJob,      \* what the daemon does to the rules: see NoJob
    held,            \* "kept", "applied" or "withdrawn", when no job disturbs it
    script, ruleset, \* the text that a reload puts back, and the table
    markPolicy,          \* the local route, the rule of the mark
    list,            \* the domestic prefixes on disk, numbered
    include,         \* the firewall runs the script after a reload
    reapply,         \* the process that the firewall ran: step, text, whether it came late
    amiss,           \* history: what went wrong and has not been put right
    starts, reloads, captureFaults

captureVars == <<config, router, proxy, captureJob, held, script, ruleset, markPolicy, list,
                 include, reapply, amiss, starts, reloads, captureFaults>>

NoJob ==
    [doing |-> "none", step |-> "rest", text |-> NoRules, before |-> NoRules, failed |-> FALSE]
Resting == [step |-> "rest", text |-> NoRules, late |-> FALSE]
NoPolicy == [route |-> FALSE, rule |-> FALSE]
Working == captureJob.doing # "none"

CaptureInit ==
    /\ config \in [port : Port, enabled : BOOLEAN]
    /\ router \in [up : {TRUE}, flowtables : BOOLEAN, taken : BOOLEAN]
    /\ proxy = NoRules /\ captureJob = NoJob /\ held = "kept"
    /\ script = NoRules /\ ruleset = NoRules /\ markPolicy = NoPolicy /\ list = 0
    /\ include = FALSE
    /\ reapply = Resting /\ amiss = {}
    /\ starts = 0 /\ reloads = 0 /\ captureFaults = 0

(***************************************************************************)
(* The rules.                                                              *)
(***************************************************************************)
\* A packet that the router forwards.
Flow == [lan : BOOLEAN, tcp : BOOLEAN, dns : BOOLEAN, established : BOOLEAN, original : BOOLEAN,
         changed : BOOLEAN, to : {"local", "reserved", "domestic", "abroad"},
         bypass : BOOLEAN, known : BOOLEAN]

\* The chain "proxy": known is a sender in one of the host's networks, changed a packet with
\* a mark or another destination.
Proxied(f) ==
    /\ ~(f.dns /\ ~f.tcp) /\ f.to = "abroad" /\ ~f.bypass /\ f.lan

\* The chain "accelerate"; without its last condition it takes what is not to be proxied
\* and what is.
AcceleratedAll(f) ==
    f.tcp /\ f.established /\ f.original /\ ~f.changed /\ ~f.dns /\ f.lan /\ f.known
Accelerated(f) ==
    /\ f.tcp /\ f.established /\ f.original /\ ~f.changed /\ ~f.dns /\ f.lan /\ f.known
    /\ f.to # "local" /\ (f.to \in {"reserved", "domestic"} \/ f.bypass)

\* build, and the check that the kernel takes a flowtable.
Ruleset == [port |-> proxy.port, list |-> list, offload |-> router.flowtables]

(***************************************************************************)
(* Jobs.                                                                   *)
(***************************************************************************)
BeginJob(doing, step) == captureJob' = [NoJob EXCEPT !.doing = doing, !.step = step]
EndJob(outcome) == captureJob' = NoJob /\ held' = outcome

Advance(from, to) ==
    /\ captureJob.doing \in {"sync", "refresh"} /\ captureJob.step = from
    /\ captureJob' = [captureJob EXCEPT !.step = to] /\ UNCHANGED held

HostAlone == UNCHANGED <<script, ruleset, markPolicy, list, include, amiss>>
World == UNCHANGED <<config, router, proxy, starts, reloads>>

\* A reload that is under way has read what this changes.
Overtakes == reapply' = IF reapply = Resting THEN reapply ELSE [reapply EXCEPT !.late = TRUE]

\* sync_capture.
StartProxy ==
    /\ router.up /\ proxy = NoRules /\ ~Working /\ starts < MaxStarts /\ starts' = starts + 1
    /\ proxy' = [port |-> config.port, listens |-> FALSE, enabled |-> config.enabled]
    /\ held' = "kept"
    /\ IF config.enabled THEN BeginJob("sync", "build") ELSE BeginJob("withdraw", "files")
    /\ HostAlone /\ UNCHANGED <<config, router, reapply, reloads, captureFaults>>

Listen ==
    /\ proxy # NoRules /\ ~proxy.listens /\ proxy' = [proxy EXCEPT !.listens = TRUE]
    /\ HostAlone /\ UNCHANGED <<config, router, captureJob, held, reapply, starts, reloads,
                                captureFaults>>

\* maintain_cn_list: another list was fetched; the one before is read again if it fails.
RefreshList ==
    /\ held = "applied" /\ proxy # NoRules /\ ~Working /\ list < MaxLists
    /\ captureJob' = [NoJob EXCEPT !.doing = "refresh", !.step = "build", !.before = list]
    /\ list' = list + 1
    /\ UNCHANGED <<held, script, ruleset, markPolicy, include, amiss, reapply, captureFaults>>
    /\ World

BuildRules ==
    /\ captureJob.doing \in {"sync", "refresh"} /\ captureJob.step = "build" /\ proxy.listens
    /\ captureJob' = [captureJob EXCEPT !.step = "route", !.text = Ruleset]
    /\ UNCHANGED <<held, reapply, captureFaults>> /\ HostAlone /\ World

\* ensure_routes: the route is there before the priority is looked at.
EnsureRoute ==
    /\ Advance("route", "rule") /\ markPolicy' = [markPolicy EXCEPT !.route = TRUE]
    /\ UNCHANGED <<script, ruleset, list, include, amiss, reapply, captureFaults>> /\ World
EnsureRule ==
    /\ Advance("rule", "load") /\ ~router.taken
    /\ markPolicy' = [markPolicy EXCEPT !.rule = TRUE]
    /\ UNCHANGED <<script, ruleset, list, include, amiss, reapply, captureFaults>> /\ World

LoadRuleset ==
    /\ Advance("load", "script") /\ ruleset' = captureJob.text
    /\ amiss' = amiss \ {"stale", "lost"}
    /\ UNCHANGED <<script, markPolicy, list, include, reapply, captureFaults>> /\ World
WriteScript ==
    /\ Advance("script", "include") /\ script' = captureJob.text
    /\ amiss' = amiss \ {"script"} /\ Overtakes
    /\ UNCHANGED <<ruleset, markPolicy, list, include, captureFaults>> /\ World
RegisterInclude ==
    /\ captureJob.doing \in {"sync", "refresh"} /\ captureJob.step = "include"
    /\ include' = TRUE /\ EndJob("applied")
    /\ UNCHANGED <<script, ruleset, markPolicy, list, amiss, reapply, captureFaults>> /\ World

CaptureFault ==
    /\ captureFaults < MaxCaptureFaults /\ captureFaults' = captureFaults + 1
    /\ UNCHANGED <<config, router, reapply, starts, reloads>>

\* A start that fails ends the core; a refresh that fails gives the list back.
SyncFails ==
    /\ captureJob.doing = "sync" /\ EndJob("kept") /\ proxy' = NoRules
    /\ HostAlone
    /\ IF captureJob.step = "rule" /\ router.taken
       THEN UNCHANGED <<config, router, reapply, starts, reloads, captureFaults>>
       ELSE CaptureFault
ListRefreshFails ==
    /\ captureJob.doing = "refresh"
    /\ list' = IF captureJob.before = 0 THEN list ELSE captureJob.before
    /\ captureJob' = NoJob /\ UNCHANGED <<held, proxy>>
    /\ UNCHANGED <<script, ruleset, markPolicy, include, amiss>> /\ CaptureFault

(***************************************************************************)
(* The end of a core, and of capture.                                      *)
(***************************************************************************)
\* It is started again; the rules wait for it, and a job of its start is given up.
ProxyEnds ==
    /\ proxy # NoRules /\ proxy' = NoRules
    /\ EndJob("kept")
    /\ HostAlone /\ UNCHANGED <<config, router, reapply, starts, reloads, captureFaults>>

\* Nothing is to run any more, or the service is stopped: cleanup_inactive,
\* release_capture_on_exit.
Release ==
    /\ router.up /\ captureJob.doing # "withdraw"
    /\ proxy' = NoRules /\ BeginJob("withdraw", "files") /\ held' = "kept"
    /\ HostAlone
    /\ UNCHANGED <<config, router, reapply, starts, reloads, captureFaults>>

\* A command of a withdrawal: it does its work, or fails and leaves something behind.
Withdraw(from, to, work, put, left) ==
    /\ captureJob.doing = "withdraw" /\ captureJob.step = from
    /\ \/ work /\ amiss' = amiss \ put /\ captureJob' = [captureJob EXCEPT !.step = to]
          /\ UNCHANGED captureFaults
       \/ /\ captureFaults < MaxCaptureFaults /\ captureFaults' = captureFaults + 1
          /\ UNCHANGED <<script, ruleset, markPolicy>> /\ amiss' = amiss \cup left
          /\ captureJob' = [captureJob EXCEPT !.step = to, !.failed = @ \/ from = "table"]
    /\ Overtakes /\ UNCHANGED <<held, list, include>> /\ World

RemoveFiles ==
    Withdraw("files", "table", script' = NoRules /\ UNCHANGED <<ruleset, markPolicy>>,
             {"script"}, {"script"})
RemoveTable ==
    Withdraw("table", "rule", ruleset' = NoRules /\ UNCHANGED <<script, markPolicy>>,
             {"stale"}, {"stale"})
RemoveRule ==
    Withdraw("rule", "route",
             markPolicy' = [markPolicy EXCEPT !.rule = FALSE] /\ UNCHANGED <<script, ruleset>>,
             {"policy"}, {"policy"})
RemoveRoute ==
    Withdraw("route", "end",
             markPolicy' = [markPolicy EXCEPT !.route = FALSE] /\ UNCHANGED <<script, ruleset>>,
             {}, {"policy"})

\* Only the table's failure is returned; it ends the start of a core without capture.
EndWithdrawal ==
    /\ captureJob.doing = "withdraw" /\ captureJob.step = "end" /\ EndJob("withdrawn")
    /\ proxy' = IF captureJob.failed THEN NoRules ELSE proxy
    /\ HostAlone /\ UNCHANGED <<config, router, reapply, starts, reloads, captureFaults>>

\* unregister, when the application is removed.
Unregister ==
    /\ held = "withdrawn" /\ ~Working /\ proxy = NoRules /\ include
    /\ include' = FALSE
    /\ UNCHANGED <<captureJob, held, script, ruleset, markPolicy, list, amiss, reapply,
                   captureFaults>>
    /\ World

KillRouterDaemon ==
    /\ router.up /\ router' = [router EXCEPT !.up = FALSE]
    /\ captureFaults < MaxCaptureFaults /\ captureFaults' = captureFaults + 1
    /\ proxy' = NoRules /\ captureJob' = NoJob
    /\ held' = IF Working THEN "kept" ELSE held
    /\ HostAlone /\ UNCHANGED <<config, reapply, starts, reloads>>
RouterDaemonStarts ==
    /\ ~router.up /\ router' = [router EXCEPT !.up = TRUE]
    /\ HostAlone /\ UNCHANGED <<config, proxy, captureJob, held, reapply, starts, reloads,
                                captureFaults>>

\* All but the list and the firewall's settings is in memory.
Reboot ==
    /\ captureFaults < MaxCaptureFaults /\ captureFaults' = captureFaults + 1
    /\ router' = [router EXCEPT !.up = FALSE] /\ proxy' = NoRules /\ captureJob' = NoJob
    /\ held' = "withdrawn" /\ script' = NoRules /\ ruleset' = NoRules /\ markPolicy' = NoPolicy
    /\ reapply' = Resting /\ amiss' = {}
    /\ UNCHANGED <<config, list, include, starts, reloads>>

Recompile ==
    /\ starts < MaxStarts /\ config' \in [port : Port, enabled : BOOLEAN] \ {config}
    /\ starts' = starts + 1
    /\ HostAlone /\ UNCHANGED <<router, proxy, captureJob, held, reapply, reloads,
                                captureFaults>>

(***************************************************************************)
(* A reload of the firewall, and "sempre capture reapply".                 *)
(***************************************************************************)
\* Nobody puts back what a first job has loaded and not yet registered.
FirewallReload ==
    /\ reapply = Resting /\ reloads < MaxReloads /\ reloads' = reloads + 1
    /\ ruleset' = NoRules
    /\ reapply' = IF include THEN [Resting EXCEPT !.step = "read"] ELSE Resting
    /\ amiss' = (amiss \ {"stale"}) \cup
                IF ~include /\ captureJob.step \in {"script", "include"} THEN {"lost"} ELSE {}
    /\ UNCHANGED <<config, router, proxy, captureJob, held, script, markPolicy, list, include,
                   starts, captureFaults>>

DaemonAlone ==
    UNCHANGED <<config, router, proxy, captureJob, held, list, include, script, starts, reloads>>

\* A script that is not there ends it, also when a job has just loaded its first rules.
ReadScript ==
    /\ reapply.step = "read"
    /\ reapply' = IF script = NoRules THEN Resting
                  ELSE [step |-> "route", text |-> script, late |-> FALSE]
    /\ amiss' = IF script = NoRules /\ captureJob.step = "script" THEN amiss \cup {"lost"}
                ELSE amiss
    /\ UNCHANGED <<ruleset, markPolicy, captureFaults>> /\ DaemonAlone

\* What it does now is not what the daemon wants any more.
Overtaken == reapply.late \/ captureJob.step = "script" \/ captureJob.doing = "withdraw"

ReapplyPolicy(from, to) ==
    /\ reapply.step = from /\ reapply' = [reapply EXCEPT !.step = to]
    /\ amiss' = IF Overtaken THEN amiss \cup {"policy"} ELSE amiss
    /\ UNCHANGED <<ruleset, captureFaults>> /\ DaemonAlone
ReapplyRoute ==
    ReapplyPolicy("route", "rule") /\ markPolicy' = [markPolicy EXCEPT !.route = TRUE]
ReapplyRule ==
    /\ ReapplyPolicy("rule", "load") /\ ~router.taken
    /\ markPolicy' = [markPolicy EXCEPT !.rule = TRUE]
ReloadScript ==
    /\ reapply.step = "load" /\ ruleset' = reapply.text /\ reapply' = Resting
    /\ amiss' = IF Overtaken THEN amiss \cup {"stale"} ELSE amiss \ {"stale", "lost"}
    /\ UNCHANGED <<markPolicy, captureFaults>> /\ DaemonAlone
ReapplyFails ==
    /\ reapply.step \in {"route", "rule", "load"} /\ reapply' = Resting
    /\ amiss' = amiss \cup {"lost"}
    /\ IF reapply.step = "rule" /\ router.taken THEN UNCHANGED captureFaults
       ELSE captureFaults < MaxCaptureFaults /\ captureFaults' = captureFaults + 1
    /\ UNCHANGED <<ruleset, markPolicy>> /\ DaemonAlone

------------------------------------------------------------------------------
CaptureNext ==
    \/ StartProxy \/ Listen \/ RefreshList \/ BuildRules \/ EnsureRoute \/ EnsureRule \/ LoadRuleset
    \/ WriteScript \/ RegisterInclude \/ SyncFails \/ ListRefreshFails \/ ProxyEnds \/ Release
    \/ RemoveFiles \/ RemoveTable \/ RemoveRule \/ RemoveRoute \/ EndWithdrawal \/ Unregister
    \/ KillRouterDaemon \/ RouterDaemonStarts \/ Reboot \/ Recompile
    \/ FirewallReload \/ ReadScript \/ ReapplyRoute \/ ReapplyRule \/ ReloadScript \/ ReapplyFails

CaptureSpec == CaptureInit /\ [][CaptureNext]_captureVars

(***************************************************************************)
(* Jobs and reloads do not wait for each other.  What holds all the same,  *)
(* and what a failed command or a reload that came late takes away:        *)
(***************************************************************************)
CaptureSettled == ~Working /\ reapply = Resting
Spoiled(by) == amiss \cap by # {}

\* While a core serves, the table leads to its port, and so does what a reload puts back;
\* unless the last reload failed, put back a text which a job had replaced meanwhile, or came
\* before there was a text or anybody to put it back.
RulesLeadToCore ==
    CaptureSettled /\ held = "applied" /\ proxy # NoRules =>
        /\ script # NoRules /\ script.port = proxy.port /\ include
        /\ markPolicy.route /\ markPolicy.rule
        /\ ~Spoiled({"stale", "lost"}) => ruleset # NoRules /\ ruleset.port = proxy.port

\* After a withdrawal nothing captures and no later reload brings it back, as far as its commands
\* did their work and no reload was under way which had read the script before (reapply does not
\* look again: it does put the rules back after a stop).
WithdrawnStays ==
    CaptureSettled /\ held = "withdrawn" =>
        /\ ~Spoiled({"script"}) => script = NoRules
        /\ ~Spoiled({"script", "stale"}) => ruleset = NoRules
        /\ ~Spoiled({"script", "policy"}) => markPolicy = NoPolicy

\* A packet that is marked finds the way to the core, at every command of a job and of a reload;
\* unless a withdrawal could not remove the table, whose policy it removes all the same, or a
\* reload which had read the script before put the table back.
PolicyBeforeRules ==
    ruleset # NoRules /\ ~Spoiled({"stale"}) => markPolicy.route /\ markPolicy.rule

\* What is accelerated never sees the proxy again: none of it was to be proxied.
OffloadOnlyDirect ==
    ruleset # NoRules /\ ruleset.offload => \A f \in Flow : Accelerated(f) => ~Proxied(f)

CaptureHolds ==
    RulesLeadToCore /\ WithdrawnStays /\ PolicyBeforeRules /\ OffloadOnlyDirect

==============================================================================
