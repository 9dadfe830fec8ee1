-------------------------------- MODULE Tunnels --------------------------------
(***************************************************************************)
(* The tunnel controller (sempre-tunnel/src/controller.rs): a file that    *)
(* says which wstunnel processes are wanted, a map with one worker task    *)
(* per wanted tunnel, and requests that bring the map to the file under    *)
(* one asynchronous lock.  A reconciliation asks workers to stop, lets go  *)
(* of the map while it waits for them, and only then starts the missing    *)
(* ones.  The daemon itself reconciles once when it starts and stops every *)
(* worker when it ends, the latter without that lock.                      *)
(***************************************************************************)
EXTENDS Integers, FiniteSets, Functions

CONSTANTS
    Tunnel,
    Endpoint,          \* what an instance's process is started with
    Worker,            \* identities of worker tasks
    TunnelClient,      \* callers of the API
    MaxExits,          \* bound on installs that fail and processes that end
    MaxInterrupts      \* bound on callers that disconnect while they wait

Absent == [desired |-> "absent"]
Open == [desired |-> "open"]
TunnelInstance == [desired: {"running", "stopped"}, endpoint: Endpoint]
Daemon == "daemon"
Actor == TunnelClient \cup {Daemon}
NoWorker == [pc |-> "none"]

VARIABLES
    stored,        \* the configuration file: an instance or Absent per tunnel
    settled,       \* what the map was last brought to; Open while it is not
    live,          \* runtime.running
    operation,     \* the holder of the operation lock
    request,       \* what every actor is doing
    worker,        \* the worker tasks
    workers,       \* runtime.workers: the task of a tunnel
    exits, interrupts

tunnelVars ==
    <<stored, settled, live, operation, request, worker, workers, exits, interrupts>>

ASSUME TunnelAssumption ==
    /\ "none" \notin Worker
    /\ {"free", "map", "nobody", Daemon} \cap TunnelClient = {}
    /\ {MaxExits, MaxInterrupts} \subseteq Nat

IsNone(w) == w = "none"
NoRequest == [pc |-> "idle"]

TunnelsInit ==
    /\ stored \in [Tunnel -> TunnelInstance \cup {Absent}]
    /\ settled = [t \in Tunnel |-> Open]
    /\ live = FALSE /\ operation = "free"
    /\ request = [a \in Actor |-> NoRequest]
    /\ worker = [w \in Worker |-> NoWorker]
    /\ workers = [t \in Tunnel |-> "none"]
    /\ exits = 0 /\ interrupts = 0

(***************************************************************************)
(* Requests.  What a request waiting for the operation lock asks has no    *)
(* effect before it holds the lock, so it is chosen when it gets there.    *)
(***************************************************************************)
MayEnter(c) == request[c].pc = "idle" /\ operation = "free"

\* What update may be given, and what action makes of a tunnel it knows.
Candidates ==
    [Tunnel -> TunnelInstance \cup {Absent}]
        \cup {[stored EXCEPT ![t].desired = d] :
                 t \in {u \in Tunnel : stored[u] # Absent}, d \in {"running", "stopped"}}

\* update, and action with start or stop: the file is written, then reconciled.
WriteStored(c) ==
    /\ MayEnter(c)
    /\ \E config \in Candidates :
           /\ stored' = config
           /\ request' = [request EXCEPT ![c] = [pc |-> "reconcile", config |-> config]]
    /\ operation' = c
    /\ UNCHANGED <<settled, live, worker, workers, exits, interrupts>>

\* The write reports an error although its rename has taken place (an error
\* before it changes nothing, as does a request that is refused).
WriteFails(c) ==
    /\ MayEnter(c)
    /\ stored' \in Candidates
    /\ UNCHANGED <<settled, live, operation, request, worker, workers, exits, interrupts>>

\* `a` takes the workers of `gone` out of the map and tells them to stop.
LetGo(a, gone) ==
    /\ worker' = [w \in Worker |->
           IF \E t \in gone : workers[t] = w
           THEN [worker[w] EXCEPT !.asked = TRUE, !.keeper = a] ELSE worker[w]]
    /\ workers' = [t \in Tunnel |-> IF t \in gone THEN "none" ELSE workers[t]]
    /\ settled' = [t \in Tunnel |-> IF t \in gone THEN Open ELSE settled[t]]

Restart(c) ==
    /\ MayEnter(c)
    /\ operation' = c
    /\ request' = [request EXCEPT ![c] = [pc |-> "restart", config |-> stored]]
    /\ \E t \in {u \in Tunnel : stored[u].desired = "running"} :
           LetGo(c, {u \in {t} : ~IsNone(workers[u])})
    /\ UNCHANGED <<stored, live, exits, interrupts>>

(***************************************************************************)
(* wait_workers and the two halves of reconcile_locked.                    *)
(***************************************************************************)
Ended(a) == \A w \in Worker : worker[w].pc \notin {"none", "done"} => worker[w].keeper # a
Forgotten(a) ==
    [w \in Worker |->
        IF worker[w].pc = "done" /\ worker[w].keeper = a THEN NoWorker ELSE worker[w]]

Restarted(a) ==
    /\ request[a].pc = "restart" /\ Ended(a)
    /\ worker' = Forgotten(a)
    /\ request' = [request EXCEPT ![a].pc = "reconcile"]
    /\ UNCHANGED <<stored, settled, live, operation, workers, exits, interrupts>>

KeepsAny(config, t) == config[t].desired = "running"
Keeps(config, t) ==
    /\ config[t].desired = "running"
    /\ worker[workers[t]].pc # "done"
    /\ worker[workers[t]].endpoint = config[t].endpoint

Surplus(config) == {t \in Tunnel : ~IsNone(workers[t]) /\ ~Keeps(config, t)}

RetireWorkers(a) ==
    /\ request[a].pc = "reconcile" /\ live
    /\ LetGo(a, Surplus(request[a].config))
    /\ request' = [request EXCEPT ![a].pc = "wait"]
    /\ UNCHANGED <<stored, live, operation, exits, interrupts>>

Release(a) ==
    /\ operation' = "free"
    /\ request' = [request EXCEPT ![a] = IF a = Daemon THEN [pc |-> "serve"] ELSE NoRequest]

Missing(config) == {t \in Tunnel : config[t].desired = "running" /\ IsNone(workers[t])}

Started(free, missing) == CHOOSE f \in Injection(missing, free) : TRUE

SpawnAtOnce(a) == request[a].pc = "wait" /\ live
SpawnUnchecked(a) == request[a].pc = "wait" /\ Ended(a)
MaySpawn(a) == request[a].pc = "wait" /\ Ended(a) /\ live

SpawnWorkers(a) ==
    /\ MaySpawn(a)
    /\ LET config == request[a].config
           left == Forgotten(a)
           missing == Missing(config)
           free == {w \in Worker : left[w] = NoWorker}
       IN /\ Injection(missing, free) # {}
          /\ LET task == Started(free, missing) IN
             /\ worker' = [w \in Worker |->
                    IF \E t \in missing : task[t] = w
                    THEN LET t == CHOOSE t \in missing : task[t] = w IN
                         [pc |-> "installing", tunnel |-> t, endpoint |-> config[t].endpoint,
                          asked |-> FALSE, keeper |-> "map"]
                    ELSE left[w]]
             /\ workers' = [t \in Tunnel |-> IF t \in missing THEN task[t] ELSE workers[t]]
          /\ settled' = config
    /\ Release(a)
    /\ UNCHANGED <<stored, live, exits, interrupts>>

\* Either half finds that the daemon is not running its tunnels.
LeaveStopped(a) ==
    /\ ~live
    /\ request[a].pc = "reconcile" \/ (request[a].pc = "wait" /\ Ended(a))
    /\ worker' = Forgotten(a)
    /\ Release(a)
    /\ UNCHANGED <<stored, settled, live, workers, exits, interrupts>>

\* The caller is gone and its future dropped: nobody waits for what it retired.
Interrupt(c) ==
    /\ interrupts < MaxInterrupts
    /\ request[c].pc \in {"restart", "wait"}
    /\ interrupts' = interrupts + 1
    /\ operation' = "free"
    /\ request' = [request EXCEPT ![c] = NoRequest]
    /\ worker' = [w \in Worker |->
           IF worker[w].pc = "none" \/ worker[w].keeper # c THEN worker[w]
           ELSE IF worker[w].pc = "done" THEN NoWorker
           ELSE [worker[w] EXCEPT !.keeper = "nobody"]]
    /\ UNCHANGED <<stored, settled, live, workers, exits>>

(***************************************************************************)
(* run: the daemon's own task.                                             *)
(***************************************************************************)
RunBegins ==
    /\ request[Daemon].pc = "idle"
    /\ live' = TRUE
    /\ request' = [request EXCEPT ![Daemon] = [pc |-> "read"]]
    /\ UNCHANGED <<stored, settled, operation, worker, workers, exits, interrupts>>

ReadStored ==
    /\ request[Daemon].pc = "read"
    /\ request' = [request EXCEPT ![Daemon] = [pc |-> "lock", config |-> stored]]
    /\ UNCHANGED <<stored, settled, live, operation, worker, workers, exits, interrupts>>

FirstReconcile ==
    /\ request[Daemon].pc = "lock" /\ operation = "free"
    /\ operation' = Daemon
    /\ request' = [request EXCEPT ![Daemon].pc = "reconcile"]
    /\ UNCHANGED <<stored, settled, live, worker, workers, exits, interrupts>>

StopAll ==
    /\ request[Daemon].pc = "serve"
    /\ live' = FALSE
    /\ LetGo(Daemon, {t \in Tunnel : ~IsNone(workers[t])})
    /\ request' = [request EXCEPT ![Daemon].pc = "stopping"]
    /\ UNCHANGED <<stored, operation, exits, interrupts>>

RunEnds ==
    /\ request[Daemon].pc = "stopping" /\ Ended(Daemon)
    /\ worker' = Forgotten(Daemon)
    /\ request' = [request EXCEPT ![Daemon].pc = "ended"]
    /\ UNCHANGED <<stored, settled, live, operation, workers, exits, interrupts>>

(***************************************************************************)
(* run_worker: install, run, back off.                                     *)
(***************************************************************************)
HasProcess(w) == worker[w].pc \in {"starting", "running", "terminating"}
Move(w, pc) ==
    /\ worker' = [worker EXCEPT ![w] =
           IF pc = "done" /\ @.keeper = "nobody" THEN NoWorker ELSE [@ EXCEPT !.pc = pc]]
    /\ UNCHANGED <<stored, settled, live, operation, request, workers, interrupts>>

ProcessSpawned(w) == worker[w].pc = "installing" /\ Move(w, "starting") /\ UNCHANGED exits
StartupHeld(w) == worker[w].pc = "starting" /\ Move(w, "running") /\ UNCHANGED exits

\* The install, the spawn or the process fails.
CycleFails(w) ==
    /\ exits < MaxExits
    /\ worker[w].pc \in {"installing", "starting", "running"}
    /\ Move(w, "backoff") /\ exits' = exits + 1

BackoffOver(w) == worker[w].pc = "backoff" /\ Move(w, "installing") /\ UNCHANGED exits

StopSeen(w) ==
    /\ worker[w].pc \in {"starting", "running", "backoff"} /\ worker[w].asked
    /\ Move(w, IF worker[w].pc = "backoff" THEN "done" ELSE "terminating")
    /\ UNCHANGED exits

Terminated(w) == worker[w].pc = "terminating" /\ Move(w, "done") /\ UNCHANGED exits

\* After 12 seconds the waiter aborts the task, which kills the process it owns.
AbortWorker(w) ==
    /\ worker[w].pc \notin {"none", "done"} /\ worker[w].keeper \in Actor
    /\ Move(w, "done") /\ UNCHANGED exits

TunnelStep(a) ==
    \/ Restarted(a) \/ RetireWorkers(a) \/ SpawnWorkers(a) \/ LeaveStopped(a)
ClientStep(c) ==
    WriteStored(c) \/ WriteFails(c) \/ Restart(c) \/ Interrupt(c)
WorkerStep(w) ==
    \/ ProcessSpawned(w) \/ StartupHeld(w) \/ CycleFails(w) \/ BackoffOver(w)
    \/ StopSeen(w) \/ Terminated(w) \/ AbortWorker(w)

TunnelsNext ==
    \/ \E a \in Actor : TunnelStep(a)
    \/ \E c \in TunnelClient : ClientStep(c)
    \/ \E w \in Worker : WorkerStep(w)
    \/ RunBegins \/ ReadStored \/ FirstReconcile \/ StopAll \/ RunEnds

\* The asynchronous lock serves its waiters in order; timers and tasks go on.
WorkerGoesOn(w) ==
    ProcessSpawned(w) \/ StartupHeld(w) \/ BackoffOver(w) \/ StopSeen(w) \/ Terminated(w)
TunnelsFairness ==
    /\ \A a \in Actor : WF_tunnelVars(TunnelStep(a))
    /\ SF_tunnelVars(FirstReconcile) /\ WF_tunnelVars(RunBegins \/ ReadStored \/ RunEnds)
    /\ \A w \in Worker : WF_tunnelVars(WorkerGoesOn(w))

TunnelsSpec == TunnelsInit /\ [][TunnelsNext]_tunnelVars /\ TunnelsFairness

(***************************************************************************)
(* Properties.                                                             *)
(***************************************************************************)
\* Two processes of one tunnel would fight for its ports: they exist together
\* only when the caller that was to wait for the older one has disconnected
\* (wait_workers between the halves of reconcile_locked).
OneProcess ==
    \A v, w \in Worker :
        /\ v # w /\ HasProcess(v) /\ HasProcess(w)
        /\ worker[v].tunnel = worker[w].tunnel
        => "nobody" \in {worker[v].keeper, worker[w].keeper}

\* Once the daemon stops its tunnels no worker is left that was not told to
\* stop, whatever reconciliation was under way (`running` is checked again
\* before workers are started).
StopIsFinal ==
    request[Daemon].pc \in {"stopping", "ended"} =>
        \A w \in Worker : worker[w].pc # "none" => worker[w].asked

\* No process is left that no caller waits for and nothing has told to end.
NoStrayProcess == OneProcess /\ StopIsFinal

Served(t) ==
    IF stored[t].desired = "running"
    THEN /\ ~IsNone(workers[t])
         /\ worker[workers[t]].pc = "running"
         /\ worker[workers[t]].endpoint = stored[t].endpoint
         /\ \A w \in Worker \ {workers[t]} : HasProcess(w) => worker[w].tunnel # t
    ELSE \A w \in Worker : HasProcess(w) => worker[w].tunnel # t

\* A configuration the workers were brought to is served: its process runs
\* with its settings and every other one is gone, through failing installs
\* and processes that end, until it is changed or the daemon stops.
TunnelServed ==
    \A t \in Tunnel :
        (live /\ settled[t] = stored[t])
            ~> (Served(t) \/ ~live \/ settled[t] # stored[t])

===============================================================================
