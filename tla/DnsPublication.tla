---------------------------- MODULE DnsPublication ----------------------------
(***************************************************************************)
(* The DNS settings of a client and everything that must follow them: the  *)
(* rule files a running core reads, the snapshot that names what they hold, *)
(* and the DNS frontend in the daemon (dns_settings_update.rs,             *)
(* dns_rule_files.rs, dns_runtime.rs, tunnel.rs of sempre-manager).        *)
(*                                                                         *)
(* Three parties write them: a settings request, which holds the operation *)
(* lease and then the runtime rules gate; a tunnel request, which holds    *)
(* the gate; and the supervisor, which holds the gate from preparing a     *)
(* core until it is healthy, but stops the core and the frontend without   *)
(* it.  A runtime action takes the gate first and the lease second.        *)
(*                                                                         *)
(* A step that fails is undone, and what undoes it may fail as well.  The  *)
(* settings are those the daemon holds in memory (DnsSettingsStore): their *)
(* own file, which replace puts back the same way, is read at its start.   *)
(***************************************************************************)
EXTENDS Integers, FiniteSets

CONSTANTS
    Shape,             \* what only a new core configuration can change
    RuleSet,           \* rule sets the core reads from files of their own
    Domains,           \* contents of a rule set
    Upstream,          \* direct upstreams
    Settings,          \* the settings users choose from
    Server,            \* what the tunnels contribute to the frontend's rules
    MaxDnsFaults       \* bound on steps that fail

ASSUME DnsAssumption ==
    /\ Settings \subseteq [shape: Shape, rules: [RuleSet -> Domains], upstream: Upstream]
    /\ MaxDnsFaults \in Nat

Nothing == [shape |-> "nothing"]     \* a frontend or a snapshot that is not there
ForCore(s) == [shape |-> s.shape, rules |-> s.rules]
Built(s, v) == [shape |-> s.shape, rules |-> s.rules, upstream |-> s.upstream, servers |-> v]

VARIABLES
    settings,      \* the stored DNS settings
    servers,       \* the stored tunnel configuration
    deployed,      \* the settings the core's configuration was compiled with
    owed,          \* the document's pending mark
    core,          \* "down", "starting" or "up"
    files,         \* the rule files of the running core
    snapshot,      \* the settings they were written from, as recorded
    frontend,      \* the configuration the DNS frontend answers with
    gate, lease,   \* runtime_rules_gate and the operation lease
    setter,        \* the settings request
    tunneler,      \* the tunnel request
    starter,       \* the runtime action
    cycle,         \* the supervisor
    reload,        \* the supervisor's reload permit
    apart,         \* history: what a failed request could not put back
    dnsFaults

dnsVars ==
    <<settings, servers, deployed, owed, core, files, snapshot, frontend, gate, lease,
      setter, tunneler, starter, cycle, reload, apart, dnsFaults>>
storeVars == <<settings, servers, deployed, owed, apart>>
coreVars == <<core, files, snapshot, cycle, reload>>

Idle == [pc |-> "idle"]
DnsFault == dnsFaults < MaxDnsFaults /\ dnsFaults' = dnsFaults + 1

DnsInit ==
    /\ settings \in Settings /\ servers \in Server
    /\ deployed = ForCore(settings) /\ owed = FALSE
    /\ core = "down" /\ files = settings.rules
    /\ snapshot = Nothing /\ frontend = Nothing
    /\ gate = "free" /\ lease = "free"
    /\ setter = Idle /\ tunneler = Idle
    /\ starter = "idle" /\ cycle = "down"
    /\ reload = FALSE /\ apart = {} /\ dnsFaults = 0

(***************************************************************************)
(* update_dns_settings.                                                    *)
(***************************************************************************)
TakeLease ==
    /\ setter = Idle /\ lease = "free"
    /\ lease' = "setter"
    /\ \E c \in Settings \ {settings} : setter' = [pc |-> "gate", candidate |-> c]
    /\ UNCHANGED <<storeVars, coreVars, frontend, gate, tunneler, starter, dnsFaults>>

Rebuild(a, b) == ForCore(a) # ForCore(b)

\* prepare_update: the running core reads rule files of this very structure.
Updatable(c) ==
    /\ core = "up" /\ snapshot # Nothing
    /\ {snapshot.shape, settings.shape} = {c.shape}
    /\ files = snapshot.rules

OpenUpdate ==
    /\ setter.pc = "gate" /\ gate = "free"
    /\ gate' = "setter"
    /\ LET c == setter.candidate IN setter' =
           IF c = settings THEN [pc |-> "close"]
           ELSE IF ~Rebuild(settings, c) THEN [setter EXCEPT !.pc = "upstream"]
           ELSE IF ~Updatable(c) THEN [setter EXCEPT !.pc = "replace"]
           ELSE [pc |-> "publish", candidate |-> c, old |-> files, before |-> Nothing,
                 rest |-> {r \in RuleSet : files[r] # c.rules[r]}, published |-> {},
                 committed |-> FALSE]
    /\ UNCHANGED <<storeVars, coreVars, frontend, lease, tunneler, starter, dnsFaults>>

CloseUpdate ==
    /\ setter.pc = "close"
    /\ gate' = "free" /\ lease' = "free" /\ setter' = Idle
    /\ UNCHANGED <<storeVars, coreVars, frontend, tunneler, starter, dnsFaults>>

\* Only upstreams differ: the frontend first, then the store; back if that fails.
UpdateUpstreams ==
    /\ setter.pc = "upstream"
    /\ \/ /\ frontend' = IF frontend = Nothing THEN frontend
                         ELSE [frontend EXCEPT !.upstream = setter.candidate.upstream]
          /\ setter' = [setter EXCEPT !.pc = "saveUpstream"]
          /\ UNCHANGED dnsFaults
       \/ DnsFault /\ setter' = [pc |-> "close"] /\ UNCHANGED frontend
    /\ UNCHANGED <<storeVars, coreVars, gate, lease, tunneler, starter>>

\* Putting the frontend back may fail too.
PutBack(before) ==
    \/ frontend' = before /\ UNCHANGED apart
    \/ frontend # before /\ apart' = apart \cup {"frontend"} /\ UNCHANGED frontend

SaveUpstream ==
    /\ setter.pc = "saveUpstream"
    /\ \/ /\ settings' = setter.candidate
          /\ UNCHANGED <<frontend, apart, dnsFaults>>
       \/ /\ DnsFault
          /\ PutBack(IF frontend = Nothing THEN frontend
                     ELSE [frontend EXCEPT !.upstream = settings.upstream])
          /\ UNCHANGED settings
    /\ setter' = [pc |-> "close"]
    /\ UNCHANGED <<servers, deployed, owed, coreVars, gate, lease, tunneler, starter>>

\* Everything else waits for a restart, which the document then owes; the mark is
\* written second, and nothing takes the settings back when that fails.
ReplaceForRestart ==
    /\ setter.pc = "replace"
    /\ \/ /\ settings' = setter.candidate /\ owed' = TRUE
          /\ UNCHANGED <<apart, dnsFaults>>
       \/ /\ DnsFault /\ settings' = setter.candidate /\ apart' = apart \cup {"mark"}
          /\ UNCHANGED owed
       \/ DnsFault /\ UNCHANGED <<settings, owed, apart>>
    /\ setter' = [pc |-> "close"]
    /\ UNCHANGED <<servers, deployed, coreVars, frontend, gate, lease, tunneler, starter>>

\* RuleFileUpdate::publish: one file after the other.
PublishFile ==
    /\ setter.pc = "publish" /\ (setter.published = {} => core = "up")
    /\ \E r \in setter.rest :
           /\ files' = [files EXCEPT ![r] = setter.candidate.rules[r]]
           /\ setter' = [setter EXCEPT !.rest = @ \ {r}, !.published = @ \cup {r}]
    /\ UNCHANGED <<storeVars, core, snapshot, cycle, reload, frontend, gate, lease, tunneler,
                   starter, dnsFaults>>

\* A write may fail after its rename, so the file counts as published before it.
CountedAfterwards(r) == setter.published
Counted(r) == setter.published \cup {r}

PublishFails ==
    /\ setter.pc = "publish" /\ (setter.published = {} => core = "up")
    /\ DnsFault
    /\ \E r \in setter.rest :
           /\ files' \in {files, [files EXCEPT ![r] = setter.candidate.rules[r]]}
           /\ setter' = [setter EXCEPT !.published = Counted(r), !.pc = "undo"]
    /\ UNCHANGED <<storeVars, core, snapshot, cycle, reload, frontend, gate, lease, tunneler,
                   starter>>

\* The core is found to have exited, before the first file or at the commit.
CoreFoundGone ==
    /\ core # "up"
    /\ \/ setter.pc = "publish" /\ setter.published = {}
       \/ setter.pc = "commit"
    /\ setter' = [setter EXCEPT !.pc = "undo"]
    /\ UNCHANGED <<storeVars, coreVars, frontend, gate, lease, tunneler, starter, dnsFaults>>

Published == setter.pc = "publish" /\ setter.rest = {}

\* update_rules: what the frontend answered with before is kept for a rollback.
UpdateRules ==
    /\ Published
    /\ frontend' = IF frontend = Nothing THEN frontend ELSE Built(setter.candidate, servers)
    /\ setter' = [setter EXCEPT !.before = frontend, !.pc = "commit"]
    /\ UNCHANGED <<storeVars, coreVars, gate, lease, tunneler, starter, dnsFaults>>

UpdateRulesFails ==
    /\ Published /\ DnsFault
    /\ setter' = [setter EXCEPT !.pc = "undo"]
    /\ UNCHANGED <<storeVars, coreVars, frontend, gate, lease, tunneler, starter>>

CommitSnapshot ==
    /\ setter.pc = "commit" /\ core = "up"
    /\ snapshot' = [snapshot EXCEPT !.rules = setter.candidate.rules]
    /\ setter' = [setter EXCEPT !.committed = TRUE, !.pc = "save"]
    /\ UNCHANGED <<storeVars, core, files, cycle, reload, frontend, gate, lease, tunneler,
                   starter, dnsFaults>>

CommitFails ==
    /\ setter.pc = "commit" /\ core = "up" /\ DnsFault
    /\ snapshot' \in {snapshot, [snapshot EXCEPT !.rules = setter.candidate.rules]}
    /\ setter' = [setter EXCEPT !.committed = TRUE, !.pc = "undo"]
    /\ UNCHANGED <<storeVars, core, files, cycle, reload, frontend, gate, lease, tunneler,
                   starter>>

SaveSettings ==
    /\ setter.pc = "save"
    /\ \/ /\ settings' = setter.candidate /\ setter' = [pc |-> "close"]
          /\ UNCHANGED dnsFaults
       \/ DnsFault /\ setter' = [setter EXCEPT !.pc = "undo"] /\ UNCHANGED settings
    /\ UNCHANGED <<servers, deployed, owed, apart, coreVars, frontend, gate, lease, tunneler,
                   starter>>

\* RuleFileUpdate::rollback: each write may fail, and the others are made all the same.
UndoFiles ==
    /\ setter.pc = "undo"
    /\ \E left \in SUBSET setter.published, stays \in {FALSE, setter.committed} :
         /\ files' = [r \in RuleSet |-> IF r \in setter.published \ left THEN setter.old[r]
                                       ELSE files[r]]
         /\ snapshot' = IF setter.committed /\ ~stays
                        THEN [snapshot EXCEPT !.rules = setter.old] ELSE snapshot
         /\ apart' = IF left # {} \/ stays THEN apart \cup {"files"} ELSE apart
    /\ setter' = [setter EXCEPT !.pc = "restore"]
    /\ UNCHANGED <<settings, servers, deployed, owed, core, cycle, reload, frontend, gate,
                   lease, tunneler, starter, dnsFaults>>

\* restore_rules: a frontend that was stopped meanwhile stays stopped.
RulesBefore(before) == IF Nothing \in {before, frontend} THEN frontend ELSE before

RestoreRules ==
    /\ setter.pc = "restore"
    /\ PutBack(RulesBefore(setter.before))
    /\ setter' = [pc |-> "close"]
    /\ UNCHANGED <<settings, servers, deployed, owed, coreVars, gate, lease, tunneler,
                   starter, dnsFaults>>

(***************************************************************************)
(* save_tunnels_with_dns_rules.                                            *)
(***************************************************************************)
OpenTunnels ==
    /\ tunneler = Idle /\ gate = "free"
    /\ gate' = "tunneler"
    /\ \E v \in Server \ {servers} :
           tunneler' = [pc |-> "rules", servers |-> v, before |-> Nothing]
    /\ UNCHANGED <<storeVars, coreVars, frontend, lease, setter, starter, dnsFaults>>

TunnelRules ==
    /\ tunneler.pc = "rules"
    /\ \/ /\ frontend' = IF frontend = Nothing THEN frontend
                         ELSE Built(settings, tunneler.servers)
          /\ tunneler' = [tunneler EXCEPT !.before = frontend, !.pc = "save"]
          /\ UNCHANGED dnsFaults
       \/ DnsFault /\ tunneler' = [pc |-> "close"] /\ UNCHANGED frontend
    /\ UNCHANGED <<storeVars, coreVars, gate, lease, setter, starter>>

\* Controller::update may fail before it has stored the tunnels, or after that, when
\* their workers do not end; the rules are put back in both cases.
SaveTunnels ==
    /\ tunneler.pc = "save"
    /\ \/ /\ servers' = tunneler.servers /\ UNCHANGED <<frontend, apart, dnsFaults>>
       \/ DnsFault /\ PutBack(RulesBefore(tunneler.before)) /\ UNCHANGED servers
       \/ /\ DnsFault /\ servers' = tunneler.servers
          /\ frontend' \in {frontend, RulesBefore(tunneler.before)}
          /\ apart' = apart \cup {"frontend"}
    /\ tunneler' = [pc |-> "close"]
    /\ UNCHANGED <<settings, deployed, owed, coreVars, gate, lease, setter, starter>>

CloseTunnels ==
    /\ tunneler.pc = "close"
    /\ gate' = "free" /\ tunneler' = Idle
    /\ UNCHANGED <<storeVars, coreVars, frontend, lease, setter, starter, dnsFaults>>

(***************************************************************************)
(* prepare_and_run of a start or a restart: the gate, then the lease, each *)
(* for at most ten seconds; it compiles what is stored and asks for a      *)
(* reload.                                                                 *)
(***************************************************************************)
AskRestart ==
    /\ starter = "idle" /\ gate = "free"
    /\ gate' = "starter" /\ starter' = "lease"
    /\ UNCHANGED <<storeVars, coreVars, frontend, lease, setter, tunneler, dnsFaults>>

CompileStored ==
    /\ starter = "lease" /\ lease = "free"
    /\ lease' = "starter" /\ starter' = "compiled"
    /\ deployed' = ForCore(settings)
    /\ UNCHANGED <<settings, servers, owed, apart, coreVars, frontend, gate, setter, tunneler,
                   dnsFaults>>

RestartAsked ==
    /\ starter = "compiled"
    /\ reload' = TRUE
    /\ gate' = "free" /\ lease' = "free" /\ starter' = "idle"
    /\ UNCHANGED <<storeVars, core, files, snapshot, cycle, frontend, setter, tunneler, dnsFaults>>

LeaseForEver == FALSE
LeaseTimesOut == starter = "lease"

GiveUpLease ==
    /\ LeaseTimesOut
    /\ gate' = "free" /\ starter' = "idle"
    /\ UNCHANGED <<storeVars, coreVars, frontend, lease, setter, tunneler, dnsFaults>>

(***************************************************************************)
(* The supervisor.                                                         *)
(***************************************************************************)
BeginRun ==
    /\ cycle = "down" /\ gate = "free"
    /\ gate' = "cycle" /\ cycle' = "prepare" /\ reload' = FALSE
    /\ UNCHANGED <<storeVars, core, files, snapshot, frontend, lease, setter, tunneler, starter,
                   dnsFaults>>

\* resolve_runtime_plan: a frontend that is still running is left as it is; the
\* control directory is emptied, so the last run's snapshot goes.
PreparePlan ==
    /\ cycle = "prepare"
    /\ \/ /\ frontend' = IF frontend = Nothing THEN Built(settings, servers) ELSE frontend
          /\ UNCHANGED dnsFaults
       \/ DnsFault /\ UNCHANGED frontend
    /\ files' = (IF deployed.shape = settings.shape THEN settings ELSE deployed).rules
    /\ snapshot' = Nothing
    /\ apart' = apart \ (IF frontend = Nothing THEN {"files", "frontend"} ELSE {"files"})
    /\ cycle' = "spawn"
    /\ UNCHANGED <<settings, servers, deployed, owed, core, reload, gate, lease, setter, tunneler, starter>>

\* mark_runtime_started: the snapshot of the new run, which may not be written.
SpawnCore ==
    /\ cycle = "spawn"
    /\ core' = "starting" /\ cycle' = "activate"
    /\ \/ snapshot' = [shape |-> deployed.shape, rules |-> files] /\ UNCHANGED dnsFaults
       \/ DnsFault /\ UNCHANGED snapshot
    /\ UNCHANGED <<storeVars, files, reload, frontend, gate, lease, setter, tunneler, starter>>

\* activate_core promotes the plan, whatever the frontend answered with before.
Promote ==
    /\ cycle = "activate"
    /\ frontend' = Built(settings, servers) /\ apart' = apart \ {"frontend"}
    /\ cycle' = "observe"
    /\ UNCHANGED <<settings, servers, deployed, owed, core, files, snapshot, reload, gate,
                   lease, setter, tunneler, starter, dnsFaults>>

\* mark_healthy: what the started configuration was compiled from is not owed.
Healthy ==
    /\ cycle = "observe"
    /\ core' = "up" /\ cycle' = "up"
    /\ owed' = (owed /\ deployed # ForCore(settings))
    /\ apart' = IF deployed = ForCore(settings) THEN apart \ {"mark"} ELSE apart
    /\ gate' = "free"
    /\ UNCHANGED <<settings, servers, deployed, files, snapshot, reload, frontend, lease, setter,
                   tunneler, starter, dnsFaults>>

Starting == {"prepare", "spawn", "activate", "observe"}

\* A step of the start fails, or a reload interrupts it: the frontend is kept.
StartFails ==
    /\ cycle \in Starting
    /\ core' = "down" /\ cycle' = "down" /\ gate' = "free"
    /\ UNCHANGED <<storeVars, files, snapshot, reload, frontend, lease, setter, tunneler, starter,
                   dnsFaults>>

\* The core exits, or is stopped to be started again: the frontend is kept.
CoreEnds ==
    /\ cycle = "up"
    /\ core' = "down" /\ cycle' = "down"
    /\ UNCHANGED <<storeVars, files, snapshot, reload, frontend, gate, lease, setter, tunneler,
                   starter, dnsFaults>>

\* A stop, in whichever state: the frontend goes too.
StopCore ==
    /\ cycle \in {"up", "down"} \cup Starting
    /\ core' = "down" /\ cycle' = "down"
    /\ frontend' = Nothing /\ apart' = apart \ {"frontend"}
    /\ gate' = IF gate = "cycle" THEN "free" ELSE gate
    /\ UNCHANGED <<settings, servers, deployed, owed, files, snapshot, reload, lease, setter, tunneler, starter,
                   dnsFaults>>

SetterStep ==
    \/ OpenUpdate \/ CloseUpdate \/ UpdateUpstreams \/ SaveUpstream \/ ReplaceForRestart
    \/ PublishFile \/ PublishFails \/ CoreFoundGone \/ UpdateRules \/ UpdateRulesFails
    \/ CommitSnapshot \/ CommitFails \/ SaveSettings \/ UndoFiles \/ RestoreRules
TunnelerStep == TunnelRules \/ SaveTunnels \/ CloseTunnels
CycleStep == PreparePlan \/ SpawnCore \/ Promote \/ Healthy \/ StartFails

DnsNext ==
    \/ TakeLease \/ SetterStep
    \/ OpenTunnels \/ TunnelerStep
    \/ AskRestart \/ CompileStored \/ RestartAsked \/ GiveUpLease
    \/ BeginRun \/ CycleStep \/ CoreEnds \/ StopCore

\* The gate is a fair lock, and whoever holds it goes on: every phase of a
\* start has a time limit, and so has a wait for the lease.
DnsFairness ==
    /\ SF_dnsVars(OpenUpdate) /\ WF_dnsVars(SetterStep)
    /\ WF_dnsVars(TunnelerStep) /\ WF_dnsVars(CycleStep)
    /\ WF_dnsVars(RestartAsked) /\ WF_dnsVars(CompileStored \/ GiveUpLease)

DnsSpec == DnsInit /\ [][DnsNext]_dnsVars /\ DnsFairness

(***************************************************************************)
(* Properties.                                                             *)
(***************************************************************************)
\* The document owes a restart, or the request that should have said so failed.
Owes == owed \/ "mark" \in apart

\* When nobody holds the gate, a running frontend answers as the stored settings and
\* tunnels say, or the document owes a restart; also after a publication that failed at
\* any of its steps and was rolled back.
FrontendAgrees ==
    gate = "free" /\ frontend # Nothing /\ "frontend" \notin apart =>
        frontend = Built(settings, servers) \/ (Owes /\ frontend.servers = servers)

\* When nobody holds the gate, the rule files of a running core hold exactly what its
\* snapshot says, which is what is stored unless a restart is owed.
FilesAgree ==
    gate = "free" /\ core = "up" /\ snapshot # Nothing /\ "files" \notin apart =>
        /\ files = snapshot.rules
        /\ Owes \/ files = settings.rules

\* What is stored, what the frontend answers and what the core reads agree whenever a
\* caller could look: the steps of a publication are undone in pairs.  They may differ
\* only after a request that reported an error and could not undo its steps either,
\* and no longer than to the next start of the core (of a compiled one where the mark
\* of the restart could not be written).
SettingsAgree == FrontendAgrees /\ FilesAgree

\* A settings request that waits for the gate with the lease in hand comes to
\* its end: an action takes the two locks in the opposite order, and only the
\* time limit of its second (operation_lease) keeps the two from waiting for
\* each other for ever.
LocksReleased == (setter.pc = "gate") ~> (setter.pc = "idle")

===============================================================================
