----------------------------- MODULE Supervisor -----------------------------
(***************************************************************************)
(* The daemon's supervisor loop (sempre-manager, supervisor/*.rs), which    *)
(* owns the managed core process, together with everything that races it:   *)
(* callers of the runtime API (runtime/action.rs, startup_task.rs), changes *)
(* of the deployment from subscriptions and core selection, the core        *)
(* process itself, service shutdown, and a crash of the daemon.             *)
(*                                                                          *)
(* pc is the point the supervisor's task has reached.  A step ends where    *)
(* the code awaits or touches a lock, the state store or the startup task,  *)
(* because another thread may act there.  Simplifications:                  *)
(*   - write failures of the state store (the only Fatal errors) are left   *)
(*     out: they end the supervisor at once;                                *)
(*   - the host's network state is whether policy rules are installed and   *)
(*     whether the system resolver points at the DNS frontend; gateway, CN  *)
(*     routes and OpenWrt capture are not modelled here;                    *)
(*   - a deployment either uses the DNS frontend and the transparent        *)
(*     network or neither;                                                  *)
(*   - the DNS frontend ends when it is stopped, or with the daemon;        *)
(*   - time: every timer may fire at any moment its wait is pending;        *)
(*   - the host does not reuse a process identifier the document records.   *)
(***************************************************************************)
EXTENDS Document

CONSTANTS
    Clients,            \* concurrent callers of the runtime API
    Daemon,             \* the owner of a task begun by the supervisor's own cycle
    Binary,             \* the executable each deployment runs
    DnsDeployments,     \* deployments whose plan has a DNS frontend
    RestoresDns,        \* recovery restores system DNS (macOS, Windows), or not (Linux)
    InitialDocuments,   \* documents the daemon may find at its first start
    Events              \* the faults and external events a run explores

ASSUME TaskAssumption == Daemon \notin Clients

Actors == Clients \cup {Daemon}

EventKinds ==
    {"recover", "lock", "resolve", "gateway", "spawn", "network", "frontend",
     "terminate", "cleanup", "missing", "compile",            \* an operation fails
     "exit", "crash",                                         \* a process dies
     "hangup",                                                \* a client goes away
     "activate", "select", "settings", "reload", "shutdown"}  \* others act

ASSUME SupervisorAssumption ==
    /\ None \notin Actors
    /\ DnsDeployments \subseteq Deployments
    /\ RestoresDns \in BOOLEAN
    /\ Events \subseteq EventKinds
    /\ InitialDocuments \subseteq Documents
    /\ \A d \in InitialDocuments : RolledBack(d)

(***************************************************************************)
(* The one startup task of the daemon (startup_task.rs): what the user     *)
(* sees of a start, restart or stop in progress, and the mutual exclusion  *)
(* between them.  The task lives behind one mutex, so each operator is one *)
(* atomic step.  A task's identifier is the actor that began it: an actor  *)
(* never has two live tasks.  Logs and the compiled configuration the task *)
(* carries are left out.                                                   *)
(***************************************************************************)
Tasks ==
    [action : {"none", "start", "restart", "stop"},
     state : {"idle", "running", "succeeded", "failed"},
     armed : BOOLEAN, ready : BOOLEAN, by : Actors]

NoTask == [action |-> "none", state |-> "idle", armed |-> FALSE,
           ready |-> FALSE, by |-> Daemon]

InProgress(task) == task.state = "running"
Stopping(task) == InProgress(task) /\ task.action = "stop"

\* A start or restart that a stop may still overtake.
Preparing(task) == InProgress(task) /\ task.action # "stop"

\* with_preparation's guard: the caller's own start has not been replaced.
Holds(task, actor) == Preparing(task) /\ task.by = actor

NewTask(action, actor) ==
    [action |-> action, state |-> "running", armed |-> FALSE, ready |-> FALSE,
     by |-> actor]

StopTask(actor) ==
    [NewTask("stop", actor) EXCEPT !.armed = TRUE, !.ready = TRUE]

\* Mutant of Finish: the outcome lands in the wrong field.
FinishWrongField(task, outcome) == [task EXCEPT !.action = outcome]

Finish(task, outcome) == [task EXCEPT !.state = outcome]

\* begin_cycle: the supervisor adopts a prepared task or begins one of its own.
CycleAllowed(task) == ~InProgress(task) \/ (task.ready /\ task.action # "stop")

BeginCycle(task) ==
    IF ~CycleAllowed(task) THEN task
    ELSE IF InProgress(task) THEN [task EXCEPT !.armed = TRUE]
    ELSE [NewTask("start", Daemon) EXCEPT !.armed = TRUE, !.ready = TRUE]

\* wait_prepared returns unless a task is still being compiled.
Prepared(task) == ~(InProgress(task) /\ ~task.ready)

PreparedFor(task, actor) ==
    IF InProgress(task) /\ task.by = actor /\ task.action # "stop"
    THEN [task EXCEPT !.ready = TRUE] ELSE task

\* interrupt_cycle, failure and healthy end the armed task unless it is a stop.
EndCycle(task, outcome) ==
    IF Preparing(task) /\ task.armed THEN Finish(task, outcome) ELSE task

FailFor(task, actor) ==
    IF Holds(task, actor) THEN Finish(task, "failed") ELSE task

CompleteStop(task, failed) ==
    IF Stopping(task)
    THEN Finish(task, IF failed THEN "failed" ELSE "succeeded") ELSE task

\* supervisor_exited: whatever is in progress when the supervisor ends fails.
SupervisorExited(task) == IF InProgress(task) THEN Finish(task, "failed") ELSE task

------------------------------------------------------------------------------
VARIABLES
    doc,            \* the persisted document
    task,           \* the startup task
    cancelled,      \* actors whose cancellation receiver has seen a stop
    reload,         \* the reload Notify holds a permit
    gate,           \* the holder of the runtime rules gate
    shutdown,       \* the service was asked to stop
    core,           \* what each live process runs
    child,          \* the process whose handle the supervisor holds
    host,           \* installed policy rules, redirected resolver, DNS frontend, its status
    pc,             \* where the supervisor is
    plan,           \* the deployment of the resolved runtime plan
    cleanupNeeded,  \* Machine::cleanup_needed
    stopped,        \* a stopped intent read before an await
    exiting,        \* stop_process was called for a service stop
    failed,         \* the cleanup being awaited, or just awaited, failed
    cleaning,       \* a cleanup has dealt with the frontend, not yet with the resolver
    retry,          \* what the pending backoff resumes and cleans up
    client,         \* the callers of the runtime API
    overtaken,      \* history: callers whose start was accepted before a stop
    proven,         \* history: deployments that ran through the stable window
    faulty          \* history: starting the frontend or restoring the resolver failed last

signals == <<cancelled, reload, gate, shutdown>>
machine == <<core, child, host, faulty>>
cleanup == <<failed, cleaning>>
locals == <<cleanupNeeded, stopped, exiting, cleanup, retry>>
supervisor == <<pc, plan, locals>>
history == <<overtaken, proven>>
others == <<client, history>>
vars == <<doc, task, signals, machine, supervisor, others>>

\* shown is what the frontend's status says: a stop that timed out leaves it as it was.
Hosts == [network : BOOLEAN, dns : BOOLEAN, frontend : BOOLEAN, shown : BOOLEAN]

Starting == {"startup", "activating", "healthy"}
Serving == {"running", "confirmed"}
Subscribed == {"gate", "readDesired", "resolve", "resolving", "gateway"}
Labels ==
    Starting \cup Serving \cup Subscribed \cup
    {"down", "recover", "recovered", "restoring", "recoverFailed", "decide",
     "inactive", "inactiveClean", "inactiveMark", "waitInactive", "await",
     "prepare", "markStarting", "cancelClean", "shutdownClean", "gatewayStop",
     "spawn", "markStarted",
     "failStartup", "failClean", "recordFailure", "rollBack", "recordError",
     "stopMark", "terminate", "stopExit", "stopClean",
     "backoff", "backoffClean", "stop", "stopRecord", "done", "exited"}

Recovering == pc \in {"down", "recover", "recovered", "restoring"}

ClientLabels == {"idle", "begin", "retry", "beginRestart", "spawned", "lock", "compile",
                 "compiled", "stage", "publish", "stopBegin", "stopStage", "stopSignal"}
\* The labels at which a caller's start or restart owns a startup task.
Begun == {"spawned", "lock", "compile", "compiled", "stage", "publish"}
Listening == {"begin", "lock", "compile", "compiled", "stage", "publish"}

Idle == [pc |-> "idle", action |-> "none", target |-> None]
ClientStates == [pc : ClientLabels, action : {"none", "start", "restart", "stop"},
                 target : Option(Deployments)]

TypeOK ==
    /\ doc \in Documents
    /\ task \in Tasks
    /\ cancelled \subseteq Actors
    /\ reload \in BOOLEAN /\ shutdown \in BOOLEAN
    /\ gate \in Option(Actors)
    /\ core \in [Pids -> Option(Deployments)]
    /\ child \in Option(Pids)
    /\ host \in Hosts
    /\ pc \in Labels
    /\ plan \in Option(Deployments)
    /\ cleanupNeeded \in BOOLEAN /\ stopped \in BOOLEAN
    /\ exiting \in BOOLEAN /\ failed \in BOOLEAN /\ cleaning \in BOOLEAN
    /\ retry \in {"none", "recover", "coreFailure", "frontend"}
    /\ client \in [Clients -> ClientStates]
    /\ overtaken \subseteq Clients
    /\ proven \subseteq Deployments
    /\ faulty \in BOOLEAN

Init ==
    /\ doc \in InitialDocuments
    /\ task = NoTask /\ cancelled = {} /\ reload = FALSE /\ gate = None
    /\ shutdown = FALSE
    /\ core = [p \in Pids |-> None] /\ child = None
    /\ host = [network |-> FALSE, dns |-> FALSE, frontend |-> FALSE, shown |-> FALSE]
    /\ pc = "recover" /\ plan = None /\ cleanupNeeded = TRUE
    /\ stopped = FALSE /\ exiting = FALSE /\ retry = "none"
    /\ failed = FALSE /\ cleaning = FALSE
    /\ client = [c \in Clients |-> Idle]
    /\ overtaken = {}
    /\ proven = {doc.lastGood} \ {None}
    /\ faulty = FALSE

\* The outcomes of an operation that fails only when the run explores it.
Failing(kind) == IF kind \in Events THEN BOOLEAN ELSE {FALSE}

Alive == {p \in Pids : core[p] # None}

\* Dropping the gate's guard, if the supervisor holds it.
DropGate == gate' = IF gate = Daemon THEN None ELSE gate
Unsubscribe(actor) == cancelled' = cancelled \ {actor}

(***************************************************************************)
(* cleanup_lifecycle in two steps, because others act at its awaits: the    *)
(* frontend is stopped and the gateway after it, then the policy rules and  *)
(* the resolver are restored.  Each phase may time out or fail, and the     *)
(* next one runs all the same.  Which cleanup it is shows in pc.            *)
(***************************************************************************)
CleanupDue ==
    \/ pc \in {"cancelClean", "shutdownClean", "stopClean", "failClean", "backoffClean"}
    \/ pc \in {"inactiveClean", "stop"} /\ cleanupNeeded

\* A core that failed, or restarts, leaves the resolver to a frontend that runs.
Retained ==
    /\ host.shown
    /\ \/ pc = "failClean"
       \/ pc = "stopClean" /\ ~stopped
       \/ pc = "backoffClean" /\ retry = "coreFailure"

\* Mutant of StopFrontend: a frontend whose resolver is retained is stopped.
StopRetainedFrontend ==
    /\ CleanupDue /\ ~cleaning
    /\ cleaning' = TRUE
    /\ failed' \in Failing("cleanup")
    /\ host' = [host EXCEPT !.frontend = FALSE]
    /\ UNCHANGED <<doc, task, signals, core, child, faulty, pc, plan, cleanupNeeded,
                   stopped, exiting, retry, others>>

StopFrontend ==
    /\ CleanupDue /\ ~cleaning
    /\ cleaning' = TRUE
    /\ \E fails \in Failing("cleanup") :
         /\ failed' = fails
         /\ host' \in IF Retained THEN {host}
                     ELSE {[host EXCEPT !.frontend = FALSE, !.shown = FALSE],
                           [host EXCEPT !.frontend = FALSE, !.shown = fails /\ @]}
    /\ UNCHANGED <<doc, task, signals, core, child, faulty, pc, plan, cleanupNeeded,
                   stopped, exiting, retry, others>>

RestoreHost(keepsNetwork, keepsDns) ==
    /\ cleaning /\ cleaning' = FALSE
    /\ host' = [host EXCEPT !.network = @ /\ keepsNetwork,
                            !.dns = @ /\ (keepsDns \/ Retained)]
    /\ faulty' = (host.dns /\ (keepsDns \/ (Retained /\ faulty)))
-----------------------------------------------------------------------------
(* Recovery of a process an earlier daemon left behind.                     *)

\* recover_stale_process compares the executable with the ACTIVE deployment's.
Owned(pid) ==
    /\ pid # None /\ doc.active # None
    /\ core[pid] # None
    /\ Binary[core[pid]] = Binary[doc.active]

Recover ==
    /\ pc = "recover"
    /\ task' = IF doc.desired = "Running" /\ doc.active # None
               THEN BeginCycle(task) ELSE task
    /\ \E fails \in Failing("recover") :
         IF fails /\ Owned(doc.pid)
         THEN pc' = "recoverFailed" /\ faulty' = host.dns /\ UNCHANGED <<core, cleanupNeeded>>
         ELSE /\ core' = IF Owned(doc.pid) THEN [core EXCEPT ![doc.pid] = None] ELSE core
              /\ cleanupNeeded' = (doc.active # None \/ doc.core)
              /\ pc' = "recovered" /\ UNCHANGED faulty
    /\ UNCHANGED <<doc, signals, child, host, plan, stopped, exiting, cleanup, retry,
                   others>>

Recovered ==
    /\ pc = "recovered"
    /\ doc' = MarkRecovered(doc, doc.pid)
    /\ pc' = "restoring"
    /\ UNCHANGED <<task, signals, machine, plan, locals, others>>

\* recover_stale_system_dns: an error is only logged, a timeout fails the recovery.
RestoreResolver ==
    /\ pc = "restoring"
    /\ \/ /\ host' = [host EXCEPT !.dns = @ /\ ~RestoresDns]
          /\ faulty' = FALSE
          /\ pc' = "decide" /\ UNCHANGED cleanupNeeded
       \/ /\ "recover" \in Events /\ RestoresDns
          /\ faulty' = host.dns
          /\ \/ pc' = "decide" /\ UNCHANGED cleanupNeeded
             \/ pc' = "recoverFailed" /\ cleanupNeeded' = TRUE
          /\ UNCHANGED host
    /\ UNCHANGED <<doc, task, signals, core, child, plan, stopped, exiting, cleanup,
                   retry, others>>

RecoverFailed ==
    /\ pc = "recoverFailed"
    /\ doc' = RecordFailure(doc)
    /\ task' = EndCycle(task, "failed")
    /\ retry' = "recover"
    /\ pc' = "backoff"
    /\ UNCHANGED <<signals, machine, plan, cleanupNeeded, stopped, exiting, cleanup,
                   others>>
-----------------------------------------------------------------------------
(* Deciding, and waiting while there is nothing to run.                     *)

Decide ==
    /\ pc = "decide"
    /\ \/ /\ shutdown
          /\ pc' = "stop" /\ UNCHANGED <<task, cleanupNeeded>>
       \/ /\ ~shutdown
          /\ doc.desired = "Stopped" \/ doc.active = None
          /\ pc' = "inactive" /\ UNCHANGED <<task, cleanupNeeded>>
       \/ /\ ~shutdown /\ doc.desired = "Running" /\ doc.active # None
          /\ ~CycleAllowed(task)
          /\ pc' = "await" /\ UNCHANGED <<task, cleanupNeeded>>
       \/ /\ ~shutdown /\ doc.desired = "Running" /\ doc.active # None
          /\ CycleAllowed(task)
          /\ task' = BeginCycle(task)
          /\ cleanupNeeded' = TRUE
          /\ pc' = "prepare"
    /\ UNCHANGED <<doc, signals, machine, plan, stopped, exiting, cleanup, retry,
                   others>>

Await ==
    /\ pc = "await"
    /\ \/ Prepared(task) /\ pc' = "decide"
       \/ shutdown /\ pc' = "done"
    /\ UNCHANGED <<doc, task, signals, machine, plan, locals, others>>

InactiveRead ==
    /\ pc = "inactive"
    /\ stopped' = (doc.desired = "Stopped")
    /\ pc' = "inactiveClean"
    /\ UNCHANGED <<doc, task, signals, machine, plan, cleanupNeeded, exiting, cleanup,
                   retry, others>>

InactiveClean ==
    /\ pc = "inactiveClean"
    /\ IF cleanupNeeded
       THEN \E network, dns \in Failing("cleanup") :
              RestoreHost(network, dns) /\ failed' = (failed \/ network \/ dns)
       ELSE UNCHANGED <<host, faulty, cleanup>>
    /\ cleanupNeeded' = FALSE
    /\ pc' = "inactiveMark"
    /\ UNCHANGED <<doc, task, signals, core, child, plan, stopped, exiting, retry,
                   others>>

\* Mutant of InactiveMark: an idle daemon forgets the stop task.
InactiveForgetsTask ==
    /\ pc = "inactiveMark"
    /\ doc' = MarkInactive(doc, stopped)
    /\ stopped' = FALSE /\ failed' = FALSE
    /\ pc' = "waitInactive"
    /\ UNCHANGED <<task, signals, machine, plan, cleanupNeeded, cleaning, exiting, retry,
                   others>>

InactiveMark ==
    /\ pc = "inactiveMark"
    /\ doc' = MarkInactive(doc, stopped)
    /\ task' = CompleteStop(task, failed)
    /\ stopped' = FALSE /\ failed' = FALSE
    /\ pc' = "waitInactive"
    /\ UNCHANGED <<signals, machine, plan, cleanupNeeded, cleaning, exiting, retry,
                   others>>

\* Mutant of WaitInactive: an idle daemon waits for a reload only.
InactiveIgnoresShutdown ==
    /\ pc = "waitInactive"
    /\ reload /\ reload' = FALSE /\ pc' = "decide"
    /\ UNCHANGED <<doc, task, cancelled, gate, shutdown, machine, plan, locals, others>>

WaitInactive ==
    /\ pc = "waitInactive"
    /\ \/ reload /\ reload' = FALSE /\ pc' = "decide"
       \/ shutdown /\ pc' = "done" /\ UNCHANGED reload
    /\ UNCHANGED <<doc, task, cancelled, gate, shutdown, machine, plan, locals, others>>
-----------------------------------------------------------------------------
(* Preparing a plan, under the runtime rules gate.                          *)

Prepare ==
    /\ pc = "prepare"
    /\ Unsubscribe(Daemon)
    /\ pc' = "gate"
    /\ UNCHANGED <<doc, task, reload, gate, shutdown, machine, plan, locals, others>>

\* The select is biased, but a flag raised after its poll is seen only at the next one.
PrepareInterrupted ==
    /\ pc \in {"gate", "resolving"}
    /\ Daemon \in cancelled \/ shutdown
    /\ Unsubscribe(Daemon) /\ DropGate
    /\ plan' = None
    /\ pc' = "decide"
    /\ UNCHANGED <<doc, task, reload, shutdown, machine, locals, others>>

\* The failed plan is remembered until the rollback only for the properties.
PrepareFails ==
    /\ Unsubscribe(Daemon) /\ DropGate
    /\ retry' = "coreFailure"
    /\ pc' = "failClean"

AcquireGate ==
    /\ pc = "gate" /\ ~shutdown /\ Daemon \notin cancelled
    /\ \/ /\ gate = None
          /\ gate' = Daemon
          /\ reload' = FALSE                  \* consume_reload
          /\ pc' = "readDesired"
          /\ UNCHANGED <<cancelled, retry>>
       \/ /\ "lock" \in Events
          /\ PrepareFails /\ UNCHANGED reload
    /\ UNCHANGED <<doc, task, shutdown, machine, plan, cleanupNeeded, stopped,
                   exiting, cleanup, others>>

ReadDesired ==
    /\ pc = "readDesired"
    /\ IF doc.desired = "Stopped"
       THEN Unsubscribe(Daemon) /\ DropGate /\ pc' = "decide"
       ELSE pc' = "resolve" /\ UNCHANGED <<cancelled, gate>>
    /\ UNCHANGED <<doc, task, reload, shutdown, machine, plan, locals, others>>

\* start_if_missing; an error is only logged.
StartFrontend(d, fails) ==
    IF d \in DnsDeployments
    THEN /\ host' = [host EXCEPT !.frontend = @ \/ ~fails, !.shown = @ \/ ~fails]
         /\ faulty' = fails
    ELSE UNCHANGED <<host, faulty>>

\* resolve_runtime_plan reads the document again before it starts the frontend.
Resolve ==
    /\ pc = "resolve"
    /\ \/ /\ doc.active = None \/ doc.desired = "Stopped"
          /\ PrepareFails /\ UNCHANGED <<host, faulty, plan>>
       \/ /\ doc.active # None /\ doc.desired = "Running"
          /\ plan' = doc.active
          /\ \E fails \in Failing("frontend") : StartFrontend(doc.active, fails)
          /\ pc' = "resolving" /\ UNCHANGED <<cancelled, gate, retry>>
    /\ UNCHANGED <<doc, task, reload, shutdown, core, child, cleanupNeeded, stopped,
                   exiting, cleanup, others>>

Resolved ==
    /\ pc = "resolving"
    /\ \/ /\ Unsubscribe(Daemon)
          /\ pc' = "markStarting" /\ UNCHANGED <<gate, retry>>
       \/ "resolve" \in Events /\ PrepareFails
    /\ UNCHANGED <<doc, task, reload, shutdown, machine, plan, cleanupNeeded, stopped,
                   exiting, cleanup, others>>

MarkStartingStep ==
    /\ pc = "markStarting"
    /\ doc' = MarkStarting(doc, plan)
    /\ IF StartingAllowed(doc, plan)
       THEN pc' = "gateway" /\ UNCHANGED <<task, gate, plan>>
       ELSE task' = EndCycle(task, "failed") /\ DropGate /\ plan' = None /\ pc' = "decide"
    /\ UNCHANGED <<cancelled, reload, shutdown, machine, locals, others>>
-----------------------------------------------------------------------------
(* Running the plan: gateway, spawn, activation of the host's network.      *)

\* Mutant of Gateway: the reload permit is consumed once more before the spawn.
GatewayConsumesReload ==
    /\ pc = "gateway" /\ ~shutdown /\ Daemon \notin cancelled
    /\ reload' = FALSE
    /\ \/ pc' = "spawn" /\ UNCHANGED retry
       \/ "gateway" \in Events /\ retry' = "frontend" /\ pc' = "recordFailure"
    /\ UNCHANGED <<doc, task, cancelled, gate, shutdown, machine, plan, cleanupNeeded,
                   stopped, exiting, cleanup, others>>

Gateway ==
    /\ pc = "gateway" /\ ~shutdown /\ Daemon \notin cancelled
    /\ \/ pc' = "spawn" /\ UNCHANGED retry
       \/ "gateway" \in Events /\ retry' = "frontend" /\ pc' = "recordFailure"
    /\ UNCHANGED <<doc, task, signals, machine, plan, cleanupNeeded, stopped, exiting,
                   cleanup, others>>

GatewayCancelled ==
    /\ pc = "gateway" /\ Daemon \in cancelled
    /\ Unsubscribe(Daemon)
    /\ pc' = "cancelClean"
    /\ UNCHANGED <<doc, task, reload, gate, shutdown, machine, plan, locals, others>>

GatewayShutdown ==
    /\ pc = "gateway" /\ Daemon \notin cancelled /\ shutdown
    /\ pc' = "shutdownClean"
    /\ UNCHANGED <<doc, task, signals, machine, plan, locals, others>>

\* A cleanup that fails here ends the run as an error of the runtime.
CancelClean ==
    /\ pc = "cancelClean"
    /\ \E network, dns \in Failing("cleanup") :
         /\ RestoreHost(network, dns)
         /\ IF failed \/ network \/ dns
            THEN pc' = "recordError" /\ UNCHANGED <<gate, plan, cleanupNeeded>>
            ELSE pc' = "decide" /\ DropGate /\ plan' = None /\ cleanupNeeded' = FALSE
    /\ failed' = FALSE
    /\ UNCHANGED <<doc, task, cancelled, reload, shutdown, core, child, stopped, exiting,
                   retry, others>>

ShutdownClean ==
    /\ pc = "shutdownClean"
    /\ \E network, dns \in Failing("cleanup") :
         /\ RestoreHost(network, dns)
         /\ pc' = IF failed \/ network \/ dns THEN "recordError" ELSE "gatewayStop"
    /\ failed' = FALSE
    /\ UNCHANGED <<doc, task, signals, core, child, plan, cleanupNeeded, stopped, exiting,
                   retry, others>>

GatewayStop ==
    /\ pc = "gatewayStop"
    /\ doc' = MarkIntentionalExit(doc, TRUE)
    /\ DropGate /\ plan' = None
    /\ pc' = "done"
    /\ UNCHANGED <<task, cancelled, reload, shutdown, machine, locals, others>>

Spawn ==
    /\ pc = "spawn"
    /\ \/ \E p \in Pids \ {doc.pid} :
            /\ core[p] = None
            /\ core' = [core EXCEPT ![p] = plan]
            /\ child' = p
            /\ pc' = "markStarted" /\ UNCHANGED retry
       \/ /\ "spawn" \in Events
          /\ retry' = "frontend" /\ pc' = "failClean" /\ UNCHANGED <<core, child>>
    /\ UNCHANGED <<doc, task, signals, host, faulty, plan, cleanupNeeded, stopped, exiting,
                   cleanup, others>>

MarkStartedStep ==
    /\ pc = "markStarted"
    /\ doc' = MarkStarted(doc, child)
    /\ pc' = "startup"
    /\ UNCHANGED <<task, signals, machine, plan, locals, others>>

\* Mutant of ApplyNetwork: a plan without a frontend leaves the resolver alone.
ApplyKeepsResolver ==
    /\ pc = "startup"
    /\ \E fails \in Failing("network") :
         host' = IF fails \/ plan \notin DnsDeployments THEN host
                 ELSE [host EXCEPT !.network = TRUE, !.dns = TRUE]
    /\ pc' = "activating"
    /\ UNCHANGED <<doc, task, signals, core, child, faulty, plan, locals, others>>

\* activate_network up to the frontend; failures other than timeouts are only logged.
ApplyNetwork ==
    /\ pc = "startup"
    /\ \/ /\ host' = [host EXCEPT !.network = @ \/ plan \in DnsDeployments,
                                  !.dns = plan \in DnsDeployments]
          /\ UNCHANGED faulty
       \/ /\ "network" \in Events
          /\ faulty' = (faulty \/ (host.dns /\ plan \notin DnsDeployments))
          /\ UNCHANGED host
    /\ pc' = "activating"
    /\ UNCHANGED <<doc, task, signals, core, child, plan, locals, others>>

ActivateFrontend ==
    /\ pc = "activating"
    /\ IF plan \in DnsDeployments
       THEN \E fails \in Failing("frontend") : StartFrontend(plan, fails)
       ELSE /\ host' = [host EXCEPT !.frontend = FALSE, !.shown = FALSE]
            /\ UNCHANGED faulty
    /\ pc' = "healthy"
    /\ UNCHANGED <<doc, task, signals, core, child, plan, locals, others>>

\* A phase of activate_network times out.
StartupFailed ==
    /\ pc \in {"startup", "activating"} /\ "network" \in Events
    /\ \/ UNCHANGED host
       \/ /\ pc = "activating" /\ plan \notin DnsDeployments
          /\ host' = [host EXCEPT !.frontend = FALSE]
    /\ pc' = "failStartup"
    /\ UNCHANGED <<doc, task, signals, core, child, faulty, plan, locals, others>>

TerminateFailed ==
    /\ pc = "failStartup"
    /\ \E fails \in Failing("terminate") :
         /\ core' = IF fails THEN core ELSE [core EXCEPT ![child] = None]
         /\ pc' = IF fails THEN "recordError" ELSE "failClean"
    /\ child' = None /\ retry' = "frontend"
    /\ UNCHANGED <<doc, task, signals, host, faulty, plan, cleanupNeeded, stopped, exiting,
                   cleanup, others>>

\* Mutant of MarkHealthyStep: the startup task is not told.
HealthyForgetsTask ==
    /\ pc = "healthy"
    /\ doc' = MarkHealthy(doc, plan)
    /\ DropGate
    /\ pc' = "running"
    /\ UNCHANGED <<task, cancelled, reload, shutdown, machine, plan, locals, others>>

MarkHealthyStep ==
    /\ pc = "healthy"
    /\ doc' = MarkHealthy(doc, plan)
    /\ task' = EndCycle(task, "succeeded")
    /\ DropGate
    /\ pc' = "running"
    /\ UNCHANGED <<cancelled, reload, shutdown, machine, plan, locals, others>>

ConfirmStable ==
    /\ pc = "running"
    /\ doc' = MarkStable(doc, plan)
    /\ proven' = proven \cup {plan}
    /\ pc' = "confirmed"
    /\ UNCHANGED <<task, signals, machine, plan, locals, client, overtaken>>

\* A reload or shutdown ends startup, which interrupts its task, or ends the run.
Interrupt ==
    /\ pc \in {"startup", "activating"} \cup Serving
    /\ \/ reload /\ reload' = FALSE /\ exiting' = FALSE
       \/ shutdown /\ exiting' = TRUE /\ UNCHANGED reload
    /\ IF pc \in Serving THEN UNCHANGED <<task, gate>>
       ELSE task' = EndCycle(task, "failed") /\ DropGate
    /\ pc' = "stopMark"
    /\ UNCHANGED <<doc, cancelled, shutdown, machine, plan, cleanupNeeded, stopped,
                   cleanup, retry, others>>

\* Mutant of Exited: the failure is recorded without the cleanup.
ExitedSkipsCleanup ==
    /\ pc \in {"startup", "activating"} \cup Serving
    /\ core[child] = None
    /\ child' = None /\ retry' = "frontend"
    /\ pc' = "recordFailure"
    /\ UNCHANGED <<doc, task, signals, core, host, faulty, plan, cleanupNeeded, stopped,
                   exiting, cleanup, others>>

Exited ==
    /\ pc \in {"startup", "activating"} \cup Serving
    /\ core[child] = None
    /\ child' = None /\ retry' = "frontend"
    /\ pc' = "failClean"
    /\ UNCHANGED <<doc, task, signals, core, host, faulty, plan, cleanupNeeded, stopped,
                   exiting, cleanup, others>>
-----------------------------------------------------------------------------
(* stop_process: the core is stopped for a reload or for good.              *)

\* Mutant of StopMark: the stop is reported before the core has exited.
StopReportsEarly ==
    /\ pc = "stopMark"
    /\ doc' = MarkStopping(doc)
    /\ task' = CompleteStop(task, FALSE)
    /\ pc' = "terminate"
    /\ UNCHANGED <<signals, machine, plan, locals, others>>

StopMark ==
    /\ pc = "stopMark"
    /\ doc' = MarkStopping(doc)
    /\ pc' = "terminate"
    /\ UNCHANGED <<task, signals, machine, plan, locals, others>>

\* Mutant of Terminate: the core is signalled and nobody waits for its exit.
TerminateWithoutWait ==
    /\ pc = "terminate"
    /\ pc' = "stopExit" /\ child' = None
    /\ UNCHANGED <<doc, task, signals, core, host, faulty, plan, locals, others>>

\* On a timeout the handle is dropped and nothing waits for the process any more.
Terminate ==
    /\ pc = "terminate"
    /\ \E fails \in Failing("terminate") :
         IF fails
         THEN /\ task' = CompleteStop(task, TRUE)
              /\ pc' = "recordError" /\ exiting' = FALSE /\ UNCHANGED core
         ELSE /\ core' = [core EXCEPT ![child] = None]
              /\ pc' = "stopExit" /\ UNCHANGED <<task, exiting>>
    /\ child' = None
    /\ UNCHANGED <<doc, signals, host, faulty, plan, cleanupNeeded, stopped, cleanup, retry,
                   others>>

StopExit ==
    /\ pc = "stopExit"
    /\ doc' = MarkIntentionalExit(doc, exiting)
    /\ stopped' = (exiting \/ doc.desired = "Stopped")
    /\ pc' = "stopClean"
    /\ UNCHANGED <<task, signals, machine, plan, cleanupNeeded, exiting, cleanup, retry,
                   others>>

StopClean ==
    /\ pc = "stopClean"
    /\ \E network, dns \in Failing("cleanup") :
         /\ RestoreHost(network, dns)
         /\ task' = CompleteStop(task, failed \/ network \/ dns)
    /\ IF exiting THEN pc' = "done" /\ UNCHANGED cleanupNeeded
       ELSE pc' = "decide" /\ cleanupNeeded' = FALSE
    /\ stopped' = FALSE /\ exiting' = FALSE /\ failed' = FALSE /\ plan' = None
    /\ UNCHANGED <<doc, signals, core, child, retry, others>>
-----------------------------------------------------------------------------
(* Failure, rollback, backoff and the end of the supervisor.                *)

\* cleanup_after_core_failure keeps a running frontend and the resolver.
FailClean ==
    /\ pc = "failClean"
    /\ \E network, dns \in Failing("cleanup") : RestoreHost(network, dns)
    /\ failed' = FALSE
    /\ pc' = "recordFailure"
    /\ UNCHANGED <<doc, task, signals, core, child, plan, cleanupNeeded, stopped, exiting,
                   retry, others>>

RecordFailureStep ==
    /\ pc \in {"recordFailure", "recordError"}
    /\ doc' = RecordFailure(doc)
    /\ task' = EndCycle(task, "failed")
    /\ Unsubscribe(Daemon) /\ DropGate
    /\ IF pc = "recordFailure"
       THEN pc' = "rollBack" /\ UNCHANGED <<plan, retry>>
       ELSE pc' = "backoff" /\ plan' = None /\ retry' = "frontend"
    /\ UNCHANGED <<reload, shutdown, machine, cleanupNeeded, stopped, exiting, cleanup,
                   others>>

\* The rollback target's files may be gone.
RollBackStep ==
    /\ pc = "rollBack"
    /\ plan' = None
    /\ \E missing \in Failing("missing") :
         IF CanRollBack(doc) /\ ~missing
         THEN doc' = RollBack(doc) /\ retry' = "none" /\ pc' = "decide"
         ELSE pc' = "backoff" /\ UNCHANGED <<doc, retry>>
    /\ UNCHANGED <<task, signals, machine, cleanupNeeded, stopped, exiting, cleanup,
                   others>>

\* The delay elapses, the network changes, or a reload arrives and cleans up first.
Resume == IF retry = "recover" THEN "recover" ELSE "decide"

Backoff ==
    /\ pc = "backoff"
    /\ IF retry = "recover" THEN reload' \in {reload, FALSE} ELSE UNCHANGED reload
    /\ retry' = "none"
    /\ pc' = Resume
    /\ UNCHANGED <<doc, task, cancelled, gate, shutdown, machine, plan, cleanupNeeded,
                   stopped, exiting, cleanup, others>>

BackoffReload ==
    /\ pc = "backoff" /\ retry # "recover"
    /\ reload /\ reload' = FALSE
    /\ pc' = "backoffClean"
    /\ UNCHANGED <<doc, task, cancelled, gate, shutdown, machine, plan, locals, others>>

BackoffClean ==
    /\ pc = "backoffClean"
    /\ \E network, dns \in Failing("cleanup") : RestoreHost(network, dns)
    /\ failed' = FALSE /\ retry' = "none"
    /\ pc' = "decide"
    /\ UNCHANGED <<doc, task, signals, core, child, plan, cleanupNeeded, stopped, exiting,
                   others>>

BackoffShutdown ==
    /\ pc = "backoff" /\ shutdown
    /\ retry' = "none"
    /\ pc' = "stop"
    /\ UNCHANGED <<doc, task, signals, machine, plan, cleanupNeeded, stopped, exiting,
                   cleanup, others>>

Stop ==
    /\ pc = "stop"
    /\ IF cleanupNeeded
       THEN \E network, dns \in Failing("cleanup") :
              RestoreHost(network, dns) /\ failed' = (failed \/ network \/ dns)
       ELSE UNCHANGED <<host, faulty, cleanup>>
    /\ pc' = "stopRecord"
    /\ UNCHANGED <<doc, task, signals, core, child, plan, cleanupNeeded, stopped,
                   exiting, retry, others>>

StopRecord ==
    /\ pc = "stopRecord"
    /\ doc' = MarkIntentionalExit(doc, TRUE)
    /\ task' = CompleteStop(task, failed)
    /\ failed' = FALSE
    /\ pc' = "done"
    /\ UNCHANGED <<signals, machine, plan, cleanupNeeded, cleaning, stopped, exiting,
                   retry, others>>

Done ==
    /\ pc = "done"
    /\ task' = SupervisorExited(task)
    /\ pc' = "exited"
    /\ UNCHANGED <<doc, signals, machine, plan, locals, others>>
-----------------------------------------------------------------------------
(* Callers of the runtime API.                                              *)

Up == pc # "down"
To(c, label) == client' = [client EXCEPT ![c].pc = label]
Leave(c) == /\ client' = [client EXCEPT ![c] = Idle]
            /\ cancelled' = cancelled \ {c}
            /\ overtaken' = overtaken \ {c}
ReleaseGate(c) == gate' = IF gate = c THEN None ELSE gate

\* The caller's task fails and its locks are dropped.
GiveUp(c) == task' = FailFor(task, c) /\ ReleaseGate(c) /\ Leave(c)

\* What runtime_status_value reports: a recorded process that is gone is a failure.
StatusState ==
    IF doc.state = "Idle" /\ doc.desired = "Stopped" THEN "Stopped"
    ELSE IF doc.pid # None /\ doc.state # "Stopping" /\ core[doc.pid] = None THEN "Failed"
    ELSE doc.state

\* The active deployment, or the one compiled for the selected core if there is none.
Targets == IF doc.active = None THEN Deployments ELSE {doc.active}

(* A start of a core that already runs returns at once unless the active    *)
(* profile has edits to compile; those may exist at any time.               *)
RequestStart(c) ==
    /\ Up /\ client[c].pc = "idle"
    /\ ~InProgress(task)
    /\ client' = [client EXCEPT ![c].pc = "begin", ![c].action = "start"]
    /\ UNCHANGED <<doc, task, signals, machine, supervisor, history>>

BeginStart(c) ==
    /\ Up /\ client[c].pc = "begin"
    /\ IF InProgress(task)
       THEN Leave(c) /\ UNCHANGED task
       ELSE task' = NewTask("start", c) /\ To(c, "lock") /\ UNCHANGED <<cancelled, overtaken>>
    /\ UNCHANGED <<doc, reload, gate, shutdown, machine, supervisor, proven>>

\* start_startup_task: the rejected deployment is retried before the task begins.
RequestRestart(c) ==
    /\ Up /\ client[c].pc = "idle"
    /\ ~InProgress(task) /\ StatusState \notin Transitional
    /\ client' = [client EXCEPT ![c].pc = "retry", ![c].action = "restart"]
    /\ UNCHANGED <<doc, task, signals, machine, supervisor, history>>

RetryRejectedStep(c) ==
    /\ Up /\ client[c].pc = "retry"
    /\ doc' = RetryRejected(doc)
    /\ To(c, "beginRestart")
    /\ UNCHANGED <<task, signals, machine, supervisor, history>>

BeginRestart(c) ==
    /\ Up /\ client[c].pc = "beginRestart"
    /\ IF InProgress(task)
       THEN Leave(c) /\ UNCHANGED task
       ELSE task' = NewTask("restart", c) /\ To(c, "spawned")
            /\ UNCHANGED <<cancelled, overtaken>>
    /\ UNCHANGED <<doc, reload, gate, shutdown, machine, supervisor, proven>>

\* The spawned task subscribes to cancellation only now.
CheckRestart(c) ==
    /\ Up /\ client[c].pc = "spawned"
    /\ IF Holds(task, c) /\ StatusState \notin Transitional
       THEN To(c, "lock") /\ Unsubscribe(c) /\ UNCHANGED <<task, gate, overtaken>>
       ELSE GiveUp(c)
    /\ UNCHANGED <<doc, reload, shutdown, machine, supervisor, proven>>

Lock(c) ==
    /\ Up /\ client[c].pc = "lock" /\ c \notin cancelled
    /\ \/ gate = None /\ gate' = c /\ To(c, "compile") /\ UNCHANGED <<task, cancelled, overtaken>>
       \/ "lock" \in Events /\ GiveUp(c)
    /\ UNCHANGED <<doc, reload, shutdown, machine, supervisor, proven>>

\* Compiling the active profile stages its deployment unless that one was rejected.
Compile(c) ==
    /\ Up /\ client[c].pc = "compile" /\ c \notin cancelled
    /\ \/ /\ \/ UNCHANGED doc
             \/ \E d \in Deployments \ {doc.rejected} :
                  "activate" \in Events /\ doc' = Stage(doc, d)
          /\ To(c, "compiled")
          /\ UNCHANGED <<task, gate, cancelled, overtaken>>
       \/ /\ "compile" \in Events
          /\ doc' \in {doc, PreparationFailed(doc)}
          /\ GiveUp(c)
    /\ UNCHANGED <<reload, shutdown, machine, supervisor, proven>>

CancelStart(c) ==
    /\ Up /\ client[c].pc \in {"lock", "compile", "compiled"} /\ c \in cancelled
    /\ GiveUp(c)
    /\ UNCHANGED <<doc, reload, shutdown, machine, supervisor, proven>>

ReadTarget(c) ==
    /\ Up /\ client[c].pc = "compiled"
    /\ \E d \in Targets :
         client' = [client EXCEPT ![c].pc = "stage", ![c].target = d]
    /\ UNCHANGED <<doc, task, signals, machine, supervisor, history>>

\* Mutant of StageAction: the intent is staged although a stop replaced the task.
StageUnchecked(c) ==
    LET d == client[c].target IN
    /\ Up /\ client[c].pc = "stage"
    /\ IF d \in Targets
       THEN /\ doc' = IF client[c].action = "start" THEN StageStart(doc, d)
                      ELSE StageRestart(doc, d)
            /\ To(c, "publish")
            /\ UNCHANGED <<task, gate, cancelled, overtaken>>
       ELSE GiveUp(c) /\ UNCHANGED doc
    /\ UNCHANGED <<reload, shutdown, machine, supervisor, proven>>

\* with_preparation holds the task's mutex over the update of the document.
StageAction(c) ==
    LET d == client[c].target IN
    /\ Up /\ client[c].pc = "stage"
    /\ IF Holds(task, c) /\ d \in Targets
       THEN /\ doc' = IF client[c].action = "start" THEN StageStart(doc, d)
                      ELSE StageRestart(doc, d)
            /\ To(c, "publish")
            /\ UNCHANGED <<task, gate, cancelled, overtaken>>
       ELSE GiveUp(c) /\ UNCHANGED doc
    /\ UNCHANGED <<reload, shutdown, machine, supervisor, proven>>

Publish(c) ==
    /\ Up /\ client[c].pc = "publish"
    /\ task' = PreparedFor(task, c)
    /\ reload' = TRUE
    /\ ReleaseGate(c) /\ Leave(c)
    /\ UNCHANGED <<doc, shutdown, machine, supervisor, proven>>

RequestStop(c) ==
    /\ Up /\ client[c].pc = "idle"
    /\ doc.desired = "Running" \/ Preparing(task)
    /\ client' = [client EXCEPT ![c].pc = "stopBegin", ![c].action = "stop"]
    /\ UNCHANGED <<doc, task, signals, machine, supervisor, history>>

Subscribers ==
    {c \in Clients : client[c].pc \in Listening} \cup
    (IF pc \in Subscribed THEN {Daemon} ELSE {})

BeginStop(c) ==
    /\ Up /\ client[c].pc = "stopBegin"
    /\ task' = StopTask(c)
    /\ cancelled' = cancelled \cup Subscribers
    /\ overtaken' = {b \in Clients : client[b].pc \in Begun}
    /\ To(c, "stopStage")
    /\ UNCHANGED <<doc, reload, gate, shutdown, machine, supervisor, proven>>

StageStopStep(c) ==
    /\ Up /\ client[c].pc = "stopStage"
    /\ doc' = StageStop(doc)
    /\ To(c, "stopSignal")
    /\ UNCHANGED <<task, signals, machine, supervisor, history>>

SignalStop(c) ==
    /\ Up /\ client[c].pc = "stopSignal"
    /\ reload' = TRUE
    /\ Leave(c)
    /\ UNCHANGED <<doc, task, gate, shutdown, machine, supervisor, proven>>
-----------------------------------------------------------------------------
(* Everything else that acts on the same state.                             *)

\* A subscription or profile change compiles to a deployment.
ActivateConfig(d) ==
    /\ Up /\ "activate" \in Events
    /\ d # doc.rejected
    /\ doc' = Stage(doc, d)
    /\ UNCHANGED <<task, signals, machine, supervisor, others>>

\* Selecting a core stages its deployment, a rejected one too.
SelectCore(d) ==
    /\ Up /\ "select" \in Events
    /\ d # doc.active
    /\ doc' = Stage(doc, d)
    /\ UNCHANGED <<task, signals, machine, supervisor, others>>

\* A settings change that only takes effect at the next start.
ChangeSettings ==
    /\ Up /\ "settings" \in Events
    /\ doc' = [doc EXCEPT !.pending = TRUE]
    /\ UNCHANGED <<task, signals, machine, supervisor, others>>

\* The scheduler, tunnels, the gateway, CN routes and rule downloads ask for a new cycle.
RequestReload ==
    /\ Up /\ "reload" \in Events
    /\ reload' = TRUE
    /\ UNCHANGED <<doc, task, cancelled, gate, shutdown, machine, supervisor, others>>

ProcessExit(p) ==
    /\ "exit" \in Events
    /\ core[p] # None
    /\ core' = [core EXCEPT ![p] = None]
    /\ UNCHANGED <<doc, task, signals, child, host, faulty, supervisor, others>>

(* The handler of a start runs inside its request: when the client hangs up *)
(* it is dropped at its next await, its locks with it.  Nothing ends the    *)
(* task.  A restart runs in a task of its own.                              *)
HangUp(c) ==
    /\ Up /\ "hangup" \in Events
    /\ client[c].action = "start" /\ client[c].pc \in {"lock", "compile", "compiled"}
    /\ ReleaseGate(c) /\ Leave(c)
    /\ UNCHANGED <<doc, task, reload, shutdown, machine, supervisor, proven>>

Shutdown ==
    /\ Up /\ "shutdown" \in Events
    /\ shutdown' = TRUE
    /\ UNCHANGED <<doc, task, cancelled, reload, gate, machine, supervisor, others>>

\* What ends with the daemon's process; the core, the document and the host remain.
LoseMemory ==
    /\ task' = NoTask /\ cancelled' = {} /\ reload' = FALSE /\ gate' = None
    /\ shutdown' = FALSE /\ child' = None
    /\ host' = [host EXCEPT !.frontend = FALSE, !.shown = FALSE] /\ faulty' = FALSE
    /\ plan' = None /\ cleanupNeeded' = TRUE /\ stopped' = FALSE /\ exiting' = FALSE
    /\ failed' = FALSE /\ cleaning' = FALSE /\ retry' = "none"
    /\ client' = [c \in Clients |-> Idle]
    /\ overtaken' = {}
    /\ pc' = "down"
    /\ UNCHANGED <<doc, core, proven>>

Leaving == pc = "exited" /\ LoseMemory
Crash == Up /\ "crash" \in Events /\ LoseMemory

\* The service manager starts the daemon again.
Boot ==
    /\ pc = "down"
    /\ pc' = "recover"
    /\ UNCHANGED <<doc, task, signals, machine, plan, locals, others>>
-----------------------------------------------------------------------------
SupervisorStep ==
    \/ Recover \/ Recovered \/ RestoreResolver \/ RecoverFailed \/ Decide \/ Await
    \/ StopFrontend
    \/ InactiveRead \/ InactiveClean \/ InactiveMark \/ WaitInactive
    \/ Prepare \/ PrepareInterrupted \/ AcquireGate \/ ReadDesired \/ Resolve \/ Resolved
    \/ MarkStartingStep \/ Gateway \/ GatewayCancelled \/ GatewayShutdown
    \/ CancelClean \/ ShutdownClean \/ GatewayStop
    \/ Spawn \/ MarkStartedStep \/ ApplyNetwork \/ ActivateFrontend \/ StartupFailed
    \/ TerminateFailed \/ MarkHealthyStep \/ ConfirmStable \/ Interrupt \/ Exited
    \/ StopMark \/ Terminate \/ StopExit \/ StopClean
    \/ FailClean \/ RecordFailureStep \/ RollBackStep
    \/ Backoff \/ BackoffReload \/ BackoffClean \/ BackoffShutdown
    \/ Stop \/ StopRecord \/ Done \/ Leaving \/ Boot

Request(c) == RequestStart(c) \/ RequestRestart(c) \/ RequestStop(c)

ClientStep(c) ==
    \/ BeginStart(c) \/ RetryRejectedStep(c) \/ BeginRestart(c) \/ CheckRestart(c)
    \/ Lock(c) \/ Compile(c) \/ CancelStart(c) \/ ReadTarget(c) \/ StageAction(c)
    \/ Publish(c) \/ BeginStop(c) \/ StageStopStep(c) \/ SignalStop(c)

Environment ==
    \/ \E d \in Deployments : ActivateConfig(d) \/ SelectCore(d)
    \/ \E p \in Pids : ProcessExit(p)
    \/ \E c \in Clients : HangUp(c)
    \/ ChangeSettings \/ RequestReload \/ Shutdown \/ Crash

Next ==
    \/ SupervisorStep
    \/ \E c \in Clients : Request(c) \/ ClientStep(c)
    \/ Environment

Spec == Init /\ [][Next]_vars

(* The runtime polls every ready future, the runtime rules gate is a fair   *)
(* mutex, and the service manager restarts the daemon.  Requests, faults    *)
(* and external events are never owed.                                      *)
FairSpec ==
    /\ Spec
    /\ WF_vars(SupervisorStep)
    /\ \A c \in Clients : WF_vars(ClientStep(c))
-----------------------------------------------------------------------------
(* Safety.                                                                  *)

(* After a rollback the document names the last healthy deployment, keeps   *)
(* another one for an explicit restart, and still shows that restart as     *)
(* owed: no stage, retry, stability or health mark in between may leave     *)
(* half of that behind.                                                     *)
RollbackConsistent == RolledBack(doc)

(* The rollback target is a deployment that ran through the whole stable    *)
(* window, although others are staged while it runs (mark_stable).          *)
LastGoodProven == doc.lastGood \in proven \cup {None}

(* At most one core process is alive: the supervisor ends or loses the old  *)
(* one before it spawns another.                                            *)
OneCore == \A p, q \in Alive : p = q

(* While a core starts or serves, the document names its process; after     *)
(* recovery a live process the document names is the supervisor's child, so *)
(* a stale record never protects a core nobody supervises.                  *)
RecordedCore ==
    /\ pc \in Starting \cup Serving \cup {"stopMark", "terminate"} => doc.pid = child
    /\ pc \notin {"down", "recover", "recovered", "recoverFailed", "recordError"} =>
         doc.pid \notin Alive \/ doc.pid = child

(* The policy rules that route the host through the core are installed only *)
(* while a core is supervised or its cleanup is still ahead: no failure,    *)
(* backoff, stop or idle daemon leaves them behind.                         *)
NetworkFollowsCore ==
    host.network => pc \in Serving \cup
        {"activating", "healthy", "stopMark", "terminate", "stopExit", "stopClean",
         "failStartup", "failClean"}

(* The system resolver points at a DNS frontend that does not run only      *)
(* between the awaits of a cleanup, until a daemon that follows a killed    *)
(* one has recovered, or since starting the frontend or restoring the       *)
(* resolver failed: across starts, retained failures and changes between    *)
(* deployments with and without a frontend.                                 *)
ResolverServed == host.dns => host.frontend \/ cleaning \/ Recovering \/ faulty

(* The pending mark is cleared only by a healthy start of the deployment    *)
(* the document names: one staged while another starts stays pending.       *)
PendingCleared ==
    [][doc.pending /\ ~doc'.pending =>
         /\ doc.pid # None /\ doc.pid = child
         /\ core[child] \in {doc'.active, None}
         /\ plan = doc'.active]_vars

(* A stop overtakes every start or restart accepted before it: only one     *)
(* accepted after the stop may set the intent back to running.              *)
StopWins ==
    [][doc.desired = "Stopped" /\ doc'.desired = "Running" =>
         \E c \in Clients \ overtaken : client[c].pc = "stage"]_vars

(* A stop is reported as succeeded only once no core process is left.       *)
StopReported ==
    [][Stopping(task) /\ task'.state = "succeeded" => Alive = {}]_vars
-----------------------------------------------------------------------------
(* Liveness.                                                                *)

(* A core the user wants stopped is stopped, unless the user starts it again. *)
StopHonoured == doc.desired = "Stopped" ~> Alive = {} \/ doc.desired = "Running"

(* A start or restart task never hangs while the core is wanted: the cycle  *)
(* it waits for ends it as succeeded or failed.  A start whose client hung  *)
(* up before it was prepared does hang, until a stop replaces its task.     *)
Abandoned ==
    /\ Preparing(task) /\ ~task.ready
    /\ task.by \in Clients /\ client[task.by].pc \notin Begun

StartEnds ==
    Preparing(task) ~> ~Preparing(task) \/ doc.desired = "Stopped" \/ Abandoned

(* A stop task never hangs, whatever the supervisor is doing when it comes. *)
StopEnds == Stopping(task) ~> ~Stopping(task)

(* A service shutdown ends the supervisor from wherever it is.              *)
ShutdownEnds == shutdown ~> pc = "exited"
=============================================================================
