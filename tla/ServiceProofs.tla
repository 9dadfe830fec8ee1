---------------------------- MODULE ServiceProofs ----------------------------
(***************************************************************************)
(* Proofs about the parts that reconcile what is wanted with what runs:    *)
(* the tunnels of the client (Tunnels), the proxies of the server          *)
(* (Proxies), the DNS settings of the client (DnsPublication), and the     *)
(* resolver that answers while they change (Resolver).                     *)
(***************************************************************************)
EXTENDS Proxies, Tunnels, DnsPublication, Resolver, TLAPS

(***************************************************************************)
(* Tunnels.                                                                *)
(***************************************************************************)
Settled == [Tunnel -> TunnelInstance \cup {Absent}]
Task ==
  [pc : {"installing", "starting", "running", "backoff", "terminating", "done"},
   tunnel : Tunnel, endpoint : Endpoint, asked : BOOLEAN, keeper : Actor \cup {"map", "nobody"}]
Request ==
  [pc : {"idle", "read", "serve", "stopping", "ended"}]
    \cup [pc : {"restart", "reconcile", "wait", "lock"}, config : Settled]
Holding == {"restart", "reconcile", "wait"}

TunnelsTyped ==
  /\ stored \in Settled
  /\ request \in [Actor -> Request]
  /\ worker \in [Worker -> Task \cup {NoWorker}]
  /\ workers \in [Tunnel -> Worker \cup {"none"}]

\* One request at a time reconciles, and the daemon stops its tunnels when it no longer does.
Exclusive ==
  /\ \A a \in Actor : request[a].pc \in Holding => operation = a
  /\ request[Daemon].pc \in {"stopping", "ended"} => ~live

Alive(w) == worker[w].pc \notin {"none", "done"}

\* The map knows exactly its workers, and any other was told to stop.
MapAgrees ==
  /\ \A t \in Tunnel : ~IsNone(workers[t]) =>
       /\ worker[workers[t]].pc # "none" /\ worker[workers[t]].keeper = "map"
       /\ worker[workers[t]].tunnel = t
  /\ \A w \in Worker : worker[w].pc # "none" =>
       IF worker[w].keeper = "map" THEN workers[worker[w].tunnel] = w ELSE worker[w].asked
  /\ request[Daemon].pc \in {"stopping", "ended"} => \A t \in Tunnel : IsNone(workers[t])

\* A worker that was let go is waited for by the request that reconciles, or by the daemon.
Awaited ==
  \A w \in Worker : Alive(w) /\ worker[w].keeper \in Actor =>
    \/ operation = worker[w].keeper /\ request[worker[w].keeper].pc \in {"restart", "wait"}
    \/ worker[w].keeper = Daemon /\ request[Daemon].pc = "stopping"

\* Two workers of a tunnel live together only if nobody waits for one of them.
OneWorker ==
  \A v, w \in Worker :
    v # w /\ Alive(v) /\ Alive(w) /\ worker[v].tunnel = worker[w].tunnel
      => "nobody" \in {worker[v].keeper, worker[w].keeper}

TunnelsInv == TunnelsTyped /\ Exclusive /\ MapAgrees /\ Awaited /\ OneWorker

\* What a request of the daemon or of a caller may be.
LEMMA Requests ==
  ASSUME TunnelsTyped, NEW a \in Actor
  PROVE  /\ request[a].pc \in {"idle", "read", "serve", "stopping", "ended", "restart", "reconcile",
                               "wait", "lock"}
         /\ request[a].pc \in Holding \cup {"lock"} => request[a].config \in Settled
         /\ Daemon \in Actor /\ \A c \in TunnelClient : c \in Actor /\ c # Daemon
BY TunnelAssumption DEF TunnelsTyped, Request, Actor, Holding

\* Taking workers out of the map changes who keeps them, and tells them to stop.
LEMMA WorkersLetGo ==
  ASSUME TunnelsTyped, MapAgrees, NEW a \in Actor,
         NEW gone \in SUBSET {t \in Tunnel : ~IsNone(workers[t])}, LetGo(a, gone)
  PROVE  /\ worker' \in [Worker -> Task \cup {NoWorker}]
         /\ workers' \in [Tunnel -> Worker \cup {"none"}]
         /\ \A w \in Worker :
              IF worker[w].pc # "none" /\ worker[w].keeper = "map" /\ worker[w].tunnel \in gone
                THEN /\ worker'[w] \in Task /\ worker'[w].pc = worker[w].pc
                     /\ worker'[w].tunnel = worker[w].tunnel
                     /\ worker'[w].asked /\ worker'[w].keeper = a
                ELSE worker'[w] = worker[w]
         /\ \A t \in Tunnel : workers'[t] = IF t \in gone THEN "none" ELSE workers[t]
<1>1. \A t \in Tunnel : workers'[t] = IF t \in gone THEN "none" ELSE workers[t] BY DEF LetGo
<1>2. workers' \in [Tunnel -> Worker \cup {"none"}] BY DEF LetGo, TunnelsTyped
<1>3. ASSUME NEW w \in Worker
      PROVE  /\ worker'[w] \in Task \cup {NoWorker}
             /\ IF worker[w].pc # "none" /\ worker[w].keeper = "map" /\ worker[w].tunnel \in gone
                  THEN /\ worker'[w] \in Task /\ worker'[w].pc = worker[w].pc
                       /\ worker'[w].tunnel = worker[w].tunnel
                       /\ worker'[w].asked /\ worker'[w].keeper = a
                  ELSE worker'[w] = worker[w]
  <2>1. worker[w] \in Task \cup {NoWorker} BY DEF TunnelsTyped
  <2>2. (\E t \in gone : workers[t] = w)
          <=> (worker[w].pc # "none" /\ worker[w].keeper = "map" /\ worker[w].tunnel \in gone)
    BY DEF MapAgrees, IsNone
  <2>3. CASE \E t \in gone : workers[t] = w
    <3>1. worker'[w] = [worker[w] EXCEPT !.asked = TRUE, !.keeper = a] BY <2>3 DEF LetGo
    <3>2. worker[w] \in Task BY <2>1, <2>2, <2>3 DEF NoWorker
    <3> QED BY <2>2, <2>3, <3>1, <3>2 DEF Task
  <2>4. CASE ~\E t \in gone : workers[t] = w
    <3>1. worker'[w] = worker[w] BY <2>4 DEF LetGo
    <3> QED BY <2>1, <2>2, <2>4, <3>1
  <2> QED BY <2>3, <2>4
<1>4. worker' \in [Worker -> Task \cup {NoWorker}]
  <2>1. worker' = [w \in Worker |-> worker'[w]] BY DEF LetGo
  <2> QED BY <1>3, <2>1
<1> QED BY <1>1, <1>2, <1>3, <1>4

\* A request lets go of workers while it holds the lock, or the daemon while it stops them.
LEMMA LettingGo ==
  ASSUME TunnelsInv, NEW a \in Actor,
         NEW gone \in SUBSET {t \in Tunnel : ~IsNone(workers[t])}, LetGo(a, gone),
         request'[Daemon].pc \in {"stopping", "ended"} =>
           \/ request[Daemon].pc \in {"stopping", "ended"}
           \/ gone = {t \in Tunnel : ~IsNone(workers[t])}
  PROVE  /\ worker' \in [Worker -> Task \cup {NoWorker}]
         /\ workers' \in [Tunnel -> Worker \cup {"none"}]
         /\ MapAgrees' /\ OneWorker'
         /\ \A w \in Worker : Alive(w)' => worker'[w].keeper = a \/ worker'[w] = worker[w]
<1> DEFINE Given(w) ==
      worker[w].pc # "none" /\ worker[w].keeper = "map" /\ worker[w].tunnel \in gone
<1>1. /\ worker' \in [Worker -> Task \cup {NoWorker}]
      /\ workers' \in [Tunnel -> Worker \cup {"none"}]
      /\ \A w \in Worker :
           IF Given(w)
             THEN /\ worker'[w] \in Task /\ worker'[w].pc = worker[w].pc
                  /\ worker'[w].tunnel = worker[w].tunnel
                  /\ worker'[w].asked /\ worker'[w].keeper = a
             ELSE worker'[w] = worker[w]
      /\ \A t \in Tunnel : workers'[t] = IF t \in gone THEN "none" ELSE workers[t]
  BY WorkersLetGo DEF TunnelsInv
<1>2. a \notin {"map", "nobody"} BY TunnelAssumption DEF Actor, Daemon
<1>3. MapAgrees'
  <2>1. ASSUME NEW t \in Tunnel, ~IsNone(workers'[t])
        PROVE  /\ worker'[workers'[t]].pc # "none" /\ worker'[workers'[t]].keeper = "map"
               /\ worker'[workers'[t]].tunnel = t
    <3>1. t \notin gone /\ workers'[t] = workers[t] /\ ~IsNone(workers[t])
      BY <1>1, <2>1 DEF IsNone
    <3>2. workers[t] \in Worker BY <3>1 DEF TunnelsInv, TunnelsTyped, IsNone
    <3>3. worker[workers[t]].tunnel = t /\ worker[workers[t]].pc # "none"
          /\ worker[workers[t]].keeper = "map"
      BY <3>1 DEF TunnelsInv, MapAgrees
    <3> QED BY <1>1, <3>1, <3>2, <3>3
  <2>2. ASSUME NEW w \in Worker, worker'[w].pc # "none"
        PROVE  IF worker'[w].keeper = "map" THEN workers'[worker'[w].tunnel] = w
               ELSE worker'[w].asked
    <3>1. CASE Given(w) BY <1>1, <1>2, <3>1
    <3>2. CASE ~Given(w)
      <4>1. worker'[w] = worker[w] /\ worker[w].tunnel \in Tunnel
        BY <1>1, <2>2, <3>2 DEF TunnelsInv, TunnelsTyped, Task, NoWorker
      <4> QED BY <1>1, <2>2, <3>2, <4>1 DEF TunnelsInv, MapAgrees
    <3> QED BY <3>1, <3>2
  <2>3. request'[Daemon].pc \in {"stopping", "ended"} => \A t \in Tunnel : IsNone(workers'[t])
    BY <1>1 DEF TunnelsInv, MapAgrees, IsNone
  <2> QED BY <2>1, <2>2, <2>3 DEF MapAgrees
<1>4. OneWorker'
  <2> SUFFICES ASSUME NEW v \in Worker, NEW w \in Worker, v # w, Alive(v)', Alive(w)',
                      worker'[v].tunnel = worker'[w].tunnel,
                      "nobody" \notin {worker'[v].keeper, worker'[w].keeper}
               PROVE  FALSE
    BY DEF OneWorker
  <2>1. /\ Alive(v) /\ Alive(w) /\ worker[v].tunnel = worker[w].tunnel
        /\ "nobody" \notin {worker[v].keeper, worker[w].keeper}
    BY <1>1 DEF Alive
  <2> QED BY <2>1 DEF TunnelsInv, OneWorker
<1>5. \A w \in Worker : Alive(w)' => worker'[w].keeper = a \/ worker'[w] = worker[w] BY <1>1
<1> QED BY <1>1, <1>3, <1>4, <1>5

\* Workers that go on, end or lose the one who waits for them.
GoesOn(w) ==
  \/ worker'[w] = NoWorker /\ (worker[w].pc = "none" \/ worker[w].keeper # "map")
  \/ /\ worker[w].pc # "none" /\ worker'[w] \in Task
     /\ worker'[w].tunnel = worker[w].tunnel /\ worker'[w].asked = worker[w].asked
     /\ \/ worker'[w].keeper = worker[w].keeper
        \/ worker'[w].keeper = "nobody" /\ worker[w].keeper # "map"
     /\ Alive(w)' => Alive(w)

LEMMA GoingOn ==
  ASSUME TunnelsInv, \A w \in Worker : GoesOn(w), UNCHANGED workers,
         request'[Daemon].pc \in {"stopping", "ended"}
           => request[Daemon].pc \in {"stopping", "ended"}
  PROVE  MapAgrees' /\ OneWorker'
<1>1. MapAgrees'
  <2>1. ASSUME NEW t \in Tunnel, ~IsNone(workers[t])
        PROVE  /\ worker'[workers[t]].pc # "none" /\ worker'[workers[t]].keeper = "map"
               /\ worker'[workers[t]].tunnel = t
    <3>1. workers[t] \in Worker BY <2>1 DEF TunnelsInv, TunnelsTyped, IsNone
    <3>2. worker[workers[t]].tunnel = t /\ worker[workers[t]].pc # "none"
          /\ worker[workers[t]].keeper = "map"
      BY <2>1 DEF TunnelsInv, MapAgrees
    <3> QED BY <3>1, <3>2 DEF GoesOn, Task
  <2>2. ASSUME NEW w \in Worker, worker'[w].pc # "none"
        PROVE  IF worker'[w].keeper = "map" THEN workers[worker'[w].tunnel] = w
               ELSE worker'[w].asked
    BY <2>2 DEF TunnelsInv, MapAgrees, GoesOn, NoWorker
  <2> QED BY <2>1, <2>2 DEF TunnelsInv, MapAgrees
<1>2. OneWorker'
  <2> SUFFICES ASSUME NEW v \in Worker, NEW w \in Worker, v # w, Alive(v)', Alive(w)',
                      worker'[v].tunnel = worker'[w].tunnel,
                      "nobody" \notin {worker'[v].keeper, worker'[w].keeper}
               PROVE  FALSE
    BY DEF OneWorker
  <2>1. /\ Alive(v) /\ Alive(w) /\ worker[v].tunnel = worker[w].tunnel
        /\ "nobody" \notin {worker[v].keeper, worker[w].keeper}
    BY DEF GoesOn, Alive, NoWorker
  <2> QED BY <2>1 DEF TunnelsInv, OneWorker
<1> QED BY <1>1, <1>2

\* A worker of run_worker moves.
LEMMA WorkerMoves ==
  ASSUME TunnelsInv, NEW w \in Worker,
         NEW pc \in {"installing", "starting", "running", "backoff", "terminating", "done"},
         Alive(w), Move(w, pc)
  PROVE  TunnelsInv'
<1>1. /\ worker' = [worker EXCEPT ![w] = IF pc = "done" /\ worker[w].keeper = "nobody" THEN NoWorker
                                         ELSE [worker[w] EXCEPT !.pc = pc]]
      /\ UNCHANGED <<stored, live, operation, request, workers>>
  BY DEF Move, TunnelsInv, TunnelsTyped
<1>2. worker[w] \in Task BY DEF TunnelsInv, TunnelsTyped, Alive, NoWorker
<1> DEFINE Moved == [worker[w] EXCEPT !.pc = pc]
<1>3. /\ Moved \in Task /\ Moved.pc = pc /\ Moved.keeper = worker[w].keeper
      /\ Moved.tunnel = worker[w].tunnel /\ Moved.asked = worker[w].asked
  BY <1>2 DEF Task
<1> HIDE DEF Moved
<1>4. /\ worker'[w] = IF pc = "done" /\ worker[w].keeper = "nobody" THEN NoWorker ELSE Moved
      /\ \A v \in Worker : v # w => worker'[v] = worker[v]
      /\ worker' \in [Worker -> Task \cup {NoWorker}]
  BY <1>1, <1>3 DEF Moved, TunnelsInv, TunnelsTyped
<1>5. "nobody" # "map" /\ "nobody" \notin Actor BY TunnelAssumption DEF Actor, Daemon
<1>6. \A v \in Worker : GoesOn(v)
  <2> TAKE v \in Worker
  <2>1. CASE v = w BY <1>2, <1>3, <1>4, <2>1 DEF GoesOn, Alive
  <2>2. CASE v # w
    <3>1. worker'[v] = worker[v] /\ worker[v] \in Task \cup {NoWorker}
      BY <1>4, <2>2 DEF TunnelsInv, TunnelsTyped
    <3> QED BY <3>1 DEF GoesOn, Alive, Task, NoWorker
  <2> QED BY <2>1, <2>2
<1>7. MapAgrees' /\ OneWorker' BY <1>1, <1>6, GoingOn
<1>8. Awaited' BY <1>1, <1>3, <1>4 DEF TunnelsInv, Awaited, Alive, NoWorker
<1> QED BY <1>1, <1>4, <1>7, <1>8 DEF TunnelsInv, TunnelsTyped, Exclusive

\* Ended tasks are forgotten; the others stay.
LEMMA Forgetting ==
  ASSUME TunnelsInv, NEW a \in Actor
  PROVE  /\ Forgotten(a) \in [Worker -> Task \cup {NoWorker}]
         /\ \A w \in Worker : \/ Forgotten(a)[w] = worker[w]
                              \/ /\ Forgotten(a)[w] = NoWorker
                                 /\ worker[w].pc = "done" /\ worker[w].keeper = a
         /\ worker' = Forgotten(a) => \A w \in Worker : GoesOn(w)
<1>1. /\ Forgotten(a) \in [Worker -> Task \cup {NoWorker}]
      /\ \A w \in Worker : \/ Forgotten(a)[w] = worker[w]
                           \/ /\ Forgotten(a)[w] = NoWorker
                              /\ worker[w].pc = "done" /\ worker[w].keeper = a
  BY DEF Forgotten, TunnelsInv, TunnelsTyped
<1>2. a # "map" BY TunnelAssumption DEF Actor, Daemon
<1>3. ASSUME worker' = Forgotten(a), NEW w \in Worker PROVE GoesOn(w)
  <2>1. worker[w] \in Task \cup {NoWorker} BY DEF TunnelsInv, TunnelsTyped
  <2> QED BY <1>1, <1>2, <1>3, <2>1 DEF GoesOn, Alive, Task, NoWorker
<1> QED BY <1>1, <1>3

\* While a request holds the lock nobody else waits for workers, unless the daemon stops.
LEMMA OnlyHolderWaits ==
  ASSUME TunnelsInv, NEW a \in Actor, operation = a, NEW w \in Worker, Alive(w),
         worker[w].keeper \in Actor, Ended(a) \/ request[a].pc = "reconcile"
  PROVE  worker[w].keeper = Daemon /\ request[Daemon].pc = "stopping"
BY DEF TunnelsInv, Awaited, Ended, Alive

LEMMA RestartedKept == ASSUME TunnelsInv, NEW a \in Actor, Restarted(a) PROVE TunnelsInv'
<1>1. /\ request[a].pc = "restart" /\ Ended(a) /\ worker' = Forgotten(a)
      /\ request' = [request EXCEPT ![a] = [request[a] EXCEPT !.pc = "reconcile"]]
      /\ UNCHANGED <<stored, live, operation, workers>>
  BY DEF Restarted, TunnelsInv, TunnelsTyped
<1>2. operation = a BY <1>1 DEF TunnelsInv, Exclusive, Holding
<1>3. request' \in [Actor -> Request]
  <2>1. request[a] \in [pc : {"restart", "reconcile", "wait", "lock"}, config : Settled]
    BY <1>1 DEF TunnelsInv, TunnelsTyped, Request
  <2>2. [request[a] EXCEPT !.pc = "reconcile"] \in Request BY <2>1 DEF Request
  <2> QED BY <1>1, <2>2 DEF TunnelsInv, TunnelsTyped
<1>4. /\ request'[a].pc = "reconcile" /\ \A b \in Actor : b # a => request'[b] = request[b]
  BY <1>1 DEF TunnelsInv, TunnelsTyped, Request
<1>5. Daemon \in Actor BY DEF Actor
<1>6. MapAgrees' /\ OneWorker' BY <1>1, <1>4, <1>5, Forgetting, GoingOn
<1>7. Awaited'
  <2> SUFFICES ASSUME NEW w \in Worker, Alive(w)', worker'[w].keeper \in Actor
               PROVE  worker'[w].keeper = Daemon /\ request'[Daemon].pc = "stopping"
    BY DEF Awaited
  <2>1. worker'[w] = worker[w] BY <1>1, Forgetting DEF Alive, NoWorker
  <2> QED BY <1>1, <1>2, <1>4, <1>5, <2>1, OnlyHolderWaits DEF Alive
<1>8. Exclusive' BY <1>1, <1>2, <1>4, <1>5 DEF TunnelsInv, Exclusive, Holding
<1> QED BY <1>1, <1>3, <1>6, <1>7, <1>8, Forgetting DEF TunnelsInv, TunnelsTyped

LEMMA RetireKept == ASSUME TunnelsInv, NEW a \in Actor, RetireWorkers(a) PROVE TunnelsInv'
<1>1. /\ request[a].pc = "reconcile" /\ live /\ LetGo(a, Surplus(request[a].config))
      /\ request' = [request EXCEPT ![a] = [request[a] EXCEPT !.pc = "wait"]]
      /\ UNCHANGED <<stored, live, operation>>
  BY DEF RetireWorkers, TunnelsInv, TunnelsTyped
<1>2. operation = a /\ request[Daemon].pc \notin {"stopping", "ended"}
  BY <1>1 DEF TunnelsInv, Exclusive, Holding
<1>3. request' \in [Actor -> Request]
  <2>1. request[a] \in [pc : {"restart", "reconcile", "wait", "lock"}, config : Settled]
    BY <1>1 DEF TunnelsInv, TunnelsTyped, Request
  <2>2. [request[a] EXCEPT !.pc = "wait"] \in Request BY <2>1 DEF Request
  <2> QED BY <1>1, <2>2 DEF TunnelsInv, TunnelsTyped
<1>4. /\ request'[a].pc = "wait" /\ \A b \in Actor : b # a => request'[b] = request[b]
  BY <1>1 DEF TunnelsInv, TunnelsTyped, Request
<1>5. Daemon \in Actor BY DEF Actor
<1>6. request'[Daemon].pc \notin {"stopping", "ended"} BY <1>2, <1>4, <1>5
<1>7. Surplus(request[a].config) \in SUBSET {t \in Tunnel : ~IsNone(workers[t])} BY DEF Surplus
<1>8. /\ worker' \in [Worker -> Task \cup {NoWorker}]
      /\ workers' \in [Tunnel -> Worker \cup {"none"}]
      /\ MapAgrees' /\ OneWorker'
      /\ \A w \in Worker : Alive(w)' => worker'[w].keeper = a \/ worker'[w] = worker[w]
  BY <1>1, <1>6, <1>7, LettingGo
<1>9. Awaited'
  <2> SUFFICES ASSUME NEW w \in Worker, Alive(w)', worker'[w].keeper \in Actor
               PROVE  worker'[w].keeper = a
    BY <1>1, <1>2, <1>4 DEF Awaited
  <2>1. CASE worker'[w].keeper # a
    BY <1>1, <1>2, <1>8, <2>1, OnlyHolderWaits DEF Alive
  <2> QED BY <2>1
<1>10. Exclusive' BY <1>1, <1>2, <1>4, <1>6 DEF TunnelsInv, Exclusive, Holding
<1> QED BY <1>1, <1>3, <1>8, <1>9, <1>10 DEF TunnelsInv, TunnelsTyped

LEMMA RestartKept == ASSUME TunnelsInv, NEW c \in TunnelClient, Restart(c) PROVE TunnelsInv'
<1>1. PICK t \in {u \in Tunnel : stored[u].desired = "running"} :
        LetGo(c, {u \in {t} : ~IsNone(workers[u])})
  BY DEF Restart
<1>2. /\ operation = "free" /\ operation' = c /\ UNCHANGED <<stored, live>>
      /\ request' = [request EXCEPT ![c] = [pc |-> "restart", config |-> stored]]
  BY DEF Restart, MayEnter
<1>3. c \in Actor /\ c # Daemon /\ "free" \notin Actor /\ Daemon \in Actor
  BY TunnelAssumption DEF Actor, Daemon
<1>4. request' \in [Actor -> Request] /\ request'[c].pc = "restart"
      /\ \A b \in Actor : b # c => request'[b] = request[b]
  BY <1>2, <1>3 DEF TunnelsInv, TunnelsTyped, Request
<1>5. {u \in {t} : ~IsNone(workers[u])} \in SUBSET {u \in Tunnel : ~IsNone(workers[u])} OBVIOUS
<1>6. /\ worker' \in [Worker -> Task \cup {NoWorker}]
      /\ workers' \in [Tunnel -> Worker \cup {"none"}]
      /\ MapAgrees' /\ OneWorker'
      /\ \A w \in Worker : Alive(w)' => worker'[w].keeper = c \/ worker'[w] = worker[w]
  BY <1>1, <1>3, <1>4, <1>5, LettingGo
<1>7. Awaited' BY <1>2, <1>3, <1>4, <1>6 DEF TunnelsInv, Awaited, Alive
<1>8. Exclusive' BY <1>2, <1>3, <1>4 DEF TunnelsInv, Exclusive, Holding
<1> QED BY <1>2, <1>4, <1>6, <1>7, <1>8 DEF TunnelsInv, TunnelsTyped

LEMMA StopAllKept == ASSUME TunnelsInv, StopAll PROVE TunnelsInv'
<1>1. /\ request[Daemon].pc = "serve" /\ live' = FALSE
      /\ LetGo(Daemon, {t \in Tunnel : ~IsNone(workers[t])})
      /\ request' = [request EXCEPT ![Daemon] = [request[Daemon] EXCEPT !.pc = "stopping"]]
      /\ UNCHANGED <<stored, operation>>
  BY DEF StopAll, TunnelsInv, TunnelsTyped
<1>2. Daemon \in Actor BY DEF Actor
<1>3. /\ request' \in [Actor -> Request] /\ request'[Daemon].pc = "stopping"
      /\ \A b \in Actor : b # Daemon => request'[b] = request[b]
  <2>1. request[Daemon] \in [pc : {"idle", "read", "serve", "stopping", "ended"}]
    BY <1>1, <1>2 DEF TunnelsInv, TunnelsTyped, Request
  <2>2. [request[Daemon] EXCEPT !.pc = "stopping"] \in Request
        /\ [request[Daemon] EXCEPT !.pc = "stopping"].pc = "stopping"
    BY <2>1 DEF Request
  <2> QED BY <1>1, <1>2, <2>2 DEF TunnelsInv, TunnelsTyped
<1>4. /\ worker' \in [Worker -> Task \cup {NoWorker}]
      /\ workers' \in [Tunnel -> Worker \cup {"none"}]
      /\ MapAgrees' /\ OneWorker'
      /\ \A w \in Worker : Alive(w)' => worker'[w].keeper = Daemon \/ worker'[w] = worker[w]
  BY <1>1, <1>2, LettingGo
<1>5. Awaited' BY <1>1, <1>2, <1>3, <1>4 DEF TunnelsInv, Awaited, Alive
<1>6. Exclusive' BY <1>1, <1>2, <1>3 DEF TunnelsInv, Exclusive, Holding
<1> QED BY <1>1, <1>3, <1>4, <1>5, <1>6 DEF TunnelsInv, TunnelsTyped

LEMMA Released ==
  ASSUME TunnelsInv, NEW a \in Actor, request[a].pc \in Holding, Release(a)
  PROVE  /\ request' \in [Actor -> Request] /\ request'[a].pc \in {"idle", "serve"}
         /\ \A b \in Actor : b # a => request'[b] = request[b] /\ request[b].pc \notin Holding
         /\ request'[Daemon].pc \in {"stopping", "ended"}
              => a # Daemon /\ request[Daemon].pc \in {"stopping", "ended"}
<1>1. request' = [request EXCEPT ![a] = IF a = Daemon THEN [pc |-> "serve"] ELSE NoRequest]
  BY DEF Release
<1>2. (IF a = Daemon THEN [pc |-> "serve"] ELSE NoRequest) \in Request BY DEF Request, NoRequest
<1>3. request' \in [Actor -> Request] /\ request'[a].pc \in {"idle", "serve"}
  BY <1>1, <1>2 DEF TunnelsInv, TunnelsTyped, NoRequest
<1>4. \A b \in Actor : b # a => request'[b] = request[b] /\ request[b].pc \notin Holding
  BY <1>1 DEF TunnelsInv, TunnelsTyped, Exclusive
<1>5. Daemon \in Actor BY DEF Actor
<1> QED BY <1>3, <1>4, <1>5

LEMMA SpawnKept == ASSUME TunnelsInv, NEW a \in Actor, SpawnWorkers(a) PROVE TunnelsInv'
<1> DEFINE wanted == request[a].config
           left == Forgotten(a)
           absent == Missing(wanted)
           idle == {w \in Worker : left[w] = NoWorker}
           task == Started(idle, absent)
           Fresh(w) == \E t \in absent : task[t] = w
<1>1. /\ request[a].pc = "wait" /\ Ended(a) /\ live /\ Release(a) /\ UNCHANGED <<stored, live>>
      /\ Injection(absent, idle) # {}
      /\ worker' = [w \in Worker |->
           IF Fresh(w)
             THEN LET t == CHOOSE t \in absent : task[t] = w IN
                  [pc |-> "installing", tunnel |-> t, endpoint |-> wanted[t].endpoint,
                   asked |-> FALSE, keeper |-> "map"]
             ELSE left[w]]
      /\ workers' = [t \in Tunnel |-> IF t \in absent THEN task[t] ELSE workers[t]]
  BY DEF SpawnWorkers, MaySpawn
<1>2. operation = a /\ request[Daemon].pc \notin {"stopping", "ended"}
  BY <1>1 DEF TunnelsInv, Exclusive, Holding
<1>3. wanted \in Settled BY <1>1, Requests DEF TunnelsInv, Holding
<1>4. /\ task \in [absent -> idle] /\ \A t, u \in absent : task[t] = task[u] => t = u
  <2>1. task \in Injection(absent, idle) BY <1>1 DEF Started
  <2> QED BY <2>1 DEF Injection, IsInjective
<1>5. \A t \in absent : t \in Tunnel /\ IsNone(workers[t]) /\ wanted[t].endpoint \in Endpoint
  BY <1>3 DEF Missing, Settled, TunnelInstance, Absent
<1>6. /\ left \in [Worker -> Task \cup {NoWorker}]
      /\ \A w \in Worker : left[w] # NoWorker => left[w] = worker[w]
      /\ \A w \in Worker : worker[w].pc # "none" /\ worker[w].keeper = "map" => left[w] = worker[w]
  BY Forgetting, TunnelAssumption DEF Actor, Daemon
<1>7. \A t \in absent : task[t] \in Worker /\ left[task[t]] = NoWorker BY <1>4
<1> HIDE DEF task, left, idle, absent, wanted
<1>8. ASSUME NEW t \in absent
      PROVE  worker'[task[t]] = [pc |-> "installing", tunnel |-> t, endpoint |-> wanted[t].endpoint,
                                 asked |-> FALSE, keeper |-> "map"]
  <2>1. (CHOOSE u \in absent : task[u] = task[t]) = t BY <1>4
  <2>2. Fresh(task[t]) /\ task[t] \in Worker BY <1>7
  <2> QED BY <1>1, <2>1, <2>2
<1>9. ASSUME NEW t \in absent
      PROVE  /\ worker'[task[t]] \in Task /\ worker'[task[t]].pc = "installing"
             /\ worker'[task[t]].tunnel = t /\ worker'[task[t]].keeper = "map"
  <2> DEFINE first == [pc |-> "installing", tunnel |-> t, endpoint |-> wanted[t].endpoint,
                       asked |-> FALSE, keeper |-> "map"]
  <2>1. t \in Tunnel /\ wanted[t].endpoint \in Endpoint BY <1>5
  <2>2. first \in Task BY <2>1 DEF Task
  <2>3. first.pc = "installing" /\ first.tunnel = t /\ first.keeper = "map" OBVIOUS
  <2>4. worker'[task[t]] = first BY <1>8
  <2> HIDE DEF first
  <2> QED BY <2>2, <2>3, <2>4
<1>10. ASSUME NEW w \in Worker, ~Fresh(w)
       PROVE  worker'[w] = left[w]
  BY <1>1, <1>10
<1>11. ASSUME NEW w \in Worker, Fresh(w)
       PROVE  \E t \in absent : w = task[t]
  BY <1>11
<1> HIDE DEF Fresh
<1>12. worker' \in [Worker -> Task \cup {NoWorker}]
  <2>1. \A w \in Worker : worker'[w] \in Task \cup {NoWorker} BY <1>6, <1>9, <1>10, <1>11
  <2>2. worker' = [w \in Worker |-> worker'[w]] BY <1>1
  <2> QED BY <2>1, <2>2
<1>13. workers' \in [Tunnel -> Worker \cup {"none"}]
  BY <1>1, <1>7 DEF TunnelsInv, TunnelsTyped
<1>14. /\ request' \in [Actor -> Request]
       /\ \A b \in Actor : request'[b].pc \notin Holding
       /\ request'[Daemon].pc \notin {"stopping", "ended"}
  BY <1>1, <1>2, Released DEF Holding
<1>15. \A w \in Worker : ~(Alive(w) /\ worker[w].keeper \in Actor)
  BY <1>1, <1>2, OnlyHolderWaits
<1>16. MapAgrees'
  <2>1. ASSUME NEW t \in Tunnel, ~IsNone(workers'[t])
        PROVE  /\ worker'[workers'[t]].pc # "none" /\ worker'[workers'[t]].keeper = "map"
               /\ worker'[workers'[t]].tunnel = t
    <3>1. CASE t \in absent
      <4>1. workers'[t] = task[t] BY <1>1, <3>1
      <4> QED BY <1>9, <3>1, <4>1
    <3>2. CASE t \notin absent
      <4>1. workers'[t] = workers[t] /\ ~IsNone(workers[t]) /\ workers[t] \in Worker
        BY <1>1, <2>1, <3>2 DEF TunnelsInv, TunnelsTyped, IsNone
      <4>2. worker[workers[t]].tunnel = t /\ worker[workers[t]].pc # "none"
            /\ worker[workers[t]].keeper = "map"
        BY <4>1 DEF TunnelsInv, MapAgrees
      <4>3. left[workers[t]] = worker[workers[t]] BY <1>6, <4>1, <4>2
      <4>4. ~Fresh(workers[t]) BY <1>7, <1>11, <4>1, <4>2, <4>3 DEF NoWorker
      <4> QED BY <1>10, <4>1, <4>2, <4>3, <4>4
    <3> QED BY <3>1, <3>2
  <2>2. ASSUME NEW w \in Worker, worker'[w].pc # "none"
        PROVE  IF worker'[w].keeper = "map" THEN workers'[worker'[w].tunnel] = w
               ELSE worker'[w].asked
    <3>1. CASE Fresh(w) BY <1>1, <1>5, <1>9, <1>11, <3>1
    <3>2. CASE ~Fresh(w)
      <4>1. worker'[w] = worker[w] BY <1>6, <1>10, <2>2, <3>2 DEF NoWorker
      <4>2. worker[w].tunnel \in Tunnel
        BY <2>2, <4>1 DEF TunnelsInv, TunnelsTyped, Task, NoWorker
      <4>3. worker[w].keeper = "map" => worker[w].tunnel \notin absent
        BY <1>5, <2>2, <4>1, TunnelAssumption DEF TunnelsInv, MapAgrees, IsNone
      <4>4. IF worker[w].keeper = "map" THEN workers[worker[w].tunnel] = w ELSE worker[w].asked
        BY <2>2, <4>1 DEF TunnelsInv, MapAgrees
      <4>5. worker[w].keeper = "map" =>
              workers'[worker[w].tunnel] = workers[worker[w].tunnel]
        BY <1>1, <4>2, <4>3
      <4> QED BY <4>1, <4>4, <4>5
    <3> QED BY <3>1, <3>2
  <2> QED BY <1>14, <2>1, <2>2 DEF MapAgrees
<1>17. Awaited'
  <2> SUFFICES ASSUME NEW w \in Worker, Alive(w)', worker'[w].keeper \in Actor PROVE FALSE
    BY DEF Awaited
  <2>1. CASE Fresh(w) BY <1>9, <1>11, <2>1, TunnelAssumption DEF Actor, Daemon
  <2>2. CASE ~Fresh(w)
    <3>1. worker'[w] = worker[w] BY <1>6, <1>10, <2>2 DEF NoWorker, Alive
    <3> QED BY <1>15, <3>1 DEF Alive
  <2> QED BY <2>1, <2>2
<1>18. OneWorker'
  <2>1. \A w \in Worker : ~Fresh(w) /\ Alive(w)' =>
          worker'[w] = worker[w] /\ Alive(w) /\ worker[w].keeper \in {"map", "nobody"}
    <3> SUFFICES ASSUME NEW w \in Worker, ~Fresh(w), Alive(w)'
                 PROVE  worker'[w] = worker[w] /\ Alive(w) /\ worker[w].keeper \in {"map", "nobody"}
      OBVIOUS
    <3>1. worker'[w] = worker[w] /\ Alive(w) BY <1>6, <1>10 DEF NoWorker, Alive
    <3>2. worker[w] \in Task BY <3>1 DEF TunnelsInv, TunnelsTyped, NoWorker, Alive
    <3> QED BY <1>15, <3>1, <3>2 DEF Task
  <2>2. \A w \in Worker : Fresh(w) => worker'[w].tunnel \in absent
                                      /\ w = task[worker'[w].tunnel]
    BY <1>9, <1>11
  <2>3. \A w \in Worker : ~Fresh(w) /\ Alive(w)' /\ worker[w].keeper = "map"
                            => worker'[w].tunnel \notin absent
    <3> SUFFICES ASSUME NEW w \in Worker, ~Fresh(w), Alive(w)', worker[w].keeper = "map"
                 PROVE  worker'[w].tunnel \notin absent
      OBVIOUS
    <3>1. worker'[w] = worker[w] /\ workers[worker[w].tunnel] = w
      BY <2>1 DEF TunnelsInv, MapAgrees, Alive
    <3> QED BY <1>5, <3>1, TunnelAssumption DEF IsNone
  <2> SUFFICES ASSUME NEW v \in Worker, NEW w \in Worker, v # w, Alive(v)', Alive(w)',
                      worker'[v].tunnel = worker'[w].tunnel,
                      "nobody" \notin {worker'[v].keeper, worker'[w].keeper}
               PROVE  FALSE
    BY DEF OneWorker
  <2>4. CASE Fresh(v) /\ Fresh(w) BY <2>2, <2>4
  <2>5. CASE ~Fresh(v) /\ ~Fresh(w) BY <2>1, <2>5 DEF TunnelsInv, OneWorker
  <2>6. CASE Fresh(v) /\ ~Fresh(w) BY <2>1, <2>2, <2>3, <2>6
  <2>7. CASE ~Fresh(v) /\ Fresh(w) BY <2>1, <2>2, <2>3, <2>7
  <2> QED BY <2>4, <2>5, <2>6, <2>7
<1>19. Exclusive' BY <1>14 DEF Exclusive
<1> QED BY <1>1, <1>12, <1>13, <1>14, <1>16, <1>17, <1>18, <1>19 DEF TunnelsInv, TunnelsTyped

LEMMA LeaveKept == ASSUME TunnelsInv, NEW a \in Actor, LeaveStopped(a) PROVE TunnelsInv'
<1>1. /\ request[a].pc \in Holding /\ ~live /\ worker' = Forgotten(a) /\ Release(a)
      /\ UNCHANGED <<stored, live, workers>> /\ (Ended(a) \/ request[a].pc = "reconcile")
  BY DEF LeaveStopped, Holding
<1>2. operation = a BY <1>1 DEF TunnelsInv, Exclusive
<1>3. /\ request' \in [Actor -> Request] /\ request'[a].pc \in {"idle", "serve"}
      /\ \A b \in Actor : b # a => request'[b] = request[b] /\ request[b].pc \notin Holding
      /\ request'[Daemon].pc \in {"stopping", "ended"}
           => a # Daemon /\ request[Daemon].pc \in {"stopping", "ended"}
  BY <1>1, Released
<1>4. MapAgrees' /\ OneWorker' BY <1>1, <1>3, Forgetting, GoingOn
<1>5. Awaited'
  <2> SUFFICES ASSUME NEW w \in Worker, Alive(w)', worker'[w].keeper \in Actor
               PROVE  worker'[w].keeper = Daemon /\ request'[Daemon].pc = "stopping"
    BY DEF Awaited
  <2>1. worker'[w] = worker[w] BY <1>1, Forgetting DEF Alive, NoWorker
  <2>2. worker[w].keeper = Daemon /\ request[Daemon].pc = "stopping"
    BY <1>1, <1>2, <2>1, OnlyHolderWaits DEF Alive
  <2>3. a # Daemon /\ Daemon \in Actor BY <1>1, <2>2 DEF Actor, Holding
  <2> QED BY <1>3, <2>1, <2>2, <2>3
<1>6. Exclusive' BY <1>1, <1>3 DEF TunnelsInv, Exclusive, Holding
<1> QED BY <1>1, <1>3, <1>4, <1>5, <1>6, Forgetting DEF TunnelsInv, TunnelsTyped

LEMMA InterruptKept == ASSUME TunnelsInv, NEW c \in TunnelClient, Interrupt(c) PROVE TunnelsInv'
<1>1. /\ request[c].pc \in {"restart", "wait"} /\ operation' = "free"
      /\ request' = [request EXCEPT ![c] = NoRequest]
      /\ worker' = [w \in Worker |->
           IF worker[w].pc = "none" \/ worker[w].keeper # c THEN worker[w]
           ELSE IF worker[w].pc = "done" THEN NoWorker
           ELSE [worker[w] EXCEPT !.keeper = "nobody"]]
      /\ UNCHANGED <<stored, live, workers>>
  BY DEF Interrupt
<1>2. c \in Actor /\ c # Daemon /\ c \notin {"map", "nobody"} /\ Daemon \in Actor
      /\ "nobody" \notin Actor
  BY TunnelAssumption DEF Actor, Daemon
<1>3. operation = c BY <1>1, <1>2 DEF TunnelsInv, Exclusive, Holding
<1>4. ASSUME NEW w \in Worker
      PROVE  worker'[w] \in Task \cup {NoWorker} /\ GoesOn(w)
             /\ (Alive(w)' /\ worker'[w].keeper \in Actor => Alive(w) /\ worker'[w] = worker[w]
                                                              /\ worker[w].keeper # c)
  <2>1. worker[w] \in Task \cup {NoWorker} BY DEF TunnelsInv, TunnelsTyped
  <2>2. CASE worker[w].pc = "none" \/ worker[w].keeper # c
    <3>1. worker'[w] = worker[w] BY <1>1, <2>2
    <3> QED BY <2>1, <2>2, <3>1 DEF GoesOn, Alive, Task, NoWorker
  <2>3. CASE worker[w].pc = "done" /\ worker[w].keeper = c
    <3>1. worker'[w] = NoWorker BY <1>1, <2>3
    <3> QED BY <1>2, <2>3, <3>1 DEF GoesOn, Alive, NoWorker
  <2>4. CASE worker[w].pc \notin {"none", "done"} /\ worker[w].keeper = c
    <3>1. worker'[w] = [worker[w] EXCEPT !.keeper = "nobody"] BY <1>1, <2>4
    <3>2. worker[w] \in Task BY <2>1, <2>4 DEF NoWorker
    <3> QED BY <1>2, <2>4, <3>1, <3>2 DEF GoesOn, Alive, Task
  <2> QED BY <2>2, <2>3, <2>4
<1>5. request' \in [Actor -> Request] /\ request'[c].pc = "idle"
      /\ \A b \in Actor : b # c => request'[b] = request[b]
  BY <1>1, <1>2 DEF TunnelsInv, TunnelsTyped, Request, NoRequest
<1>6. MapAgrees' /\ OneWorker' BY <1>1, <1>2, <1>4, <1>5, GoingOn
<1>7. worker' \in [Worker -> Task \cup {NoWorker}]
  <2>1. worker' = [w \in Worker |-> worker'[w]] BY <1>1
  <2> QED BY <1>4, <2>1
<1>8. Awaited'
  <2> SUFFICES ASSUME NEW w \in Worker, Alive(w)', worker'[w].keeper \in Actor
               PROVE  worker'[w].keeper = Daemon /\ request'[Daemon].pc = "stopping"
    BY DEF Awaited
  <2>1. Alive(w) /\ worker'[w] = worker[w] /\ worker[w].keeper # c BY <1>4
  <2> QED BY <1>2, <1>3, <1>5, <2>1 DEF TunnelsInv, Awaited
<1>9. Exclusive' BY <1>1, <1>2, <1>3, <1>5 DEF TunnelsInv, Exclusive, Holding
<1> QED BY <1>1, <1>5, <1>6, <1>7, <1>8, <1>9 DEF TunnelsInv, TunnelsTyped

\* Steps that only change what the file says or what a request is about to do.
LEMMA RequestKept ==
  ASSUME TunnelsInv,
         \/ \E c \in TunnelClient : WriteStored(c) \/ WriteFails(c)
         \/ RunBegins \/ ReadStored \/ FirstReconcile
  PROVE  TunnelsInv'
<1>1. Daemon \in Actor /\ "free" \notin Actor /\ \A c \in TunnelClient : c \in Actor /\ c # Daemon
  BY TunnelAssumption DEF Actor, Daemon
<1>2. Candidates \subseteq Settled
  BY DEF Candidates, Settled, TunnelsInv, TunnelsTyped, TunnelInstance
<1>3. stored' \in Settled /\ UNCHANGED <<worker, workers>>
  BY <1>2 DEF WriteStored, WriteFails, RunBegins, ReadStored, FirstReconcile, TunnelsInv,
              TunnelsTyped
<1>4. request' \in [Actor -> Request]
  <2>1. ASSUME NEW c \in TunnelClient, WriteStored(c) PROVE request' \in [Actor -> Request]
    <3>1. PICK config \in Candidates :
            request' = [request EXCEPT ![c] = [pc |-> "reconcile", config |-> config]]
      BY <2>1 DEF WriteStored
    <3>2. [pc |-> "reconcile", config |-> config] \in Request BY <1>2 DEF Request
    <3> QED BY <3>1, <3>2 DEF TunnelsInv, TunnelsTyped
  <2>2. CASE RunBegins
    <3>1. [pc |-> "read"] \in Request BY DEF Request
    <3> QED BY <2>2, <3>1 DEF RunBegins, TunnelsInv, TunnelsTyped
  <2>3. CASE ReadStored
    <3>1. [pc |-> "lock", config |-> stored] \in Request BY DEF Request, TunnelsInv, TunnelsTyped
    <3> QED BY <2>3, <3>1 DEF ReadStored, TunnelsInv, TunnelsTyped
  <2>4. CASE FirstReconcile
    <3>1. request[Daemon] \in [pc : {"restart", "reconcile", "wait", "lock"}, config : Settled]
      BY <1>1, <2>4 DEF FirstReconcile, TunnelsInv, TunnelsTyped, Request
    <3>2. [request[Daemon] EXCEPT !.pc = "reconcile"] \in Request BY <3>1 DEF Request
    <3> QED BY <2>4, <3>2 DEF FirstReconcile, TunnelsInv, TunnelsTyped
  <2> QED BY <2>1, <2>2, <2>3, <2>4 DEF WriteFails, TunnelsInv, TunnelsTyped
<1>5. \/ operation = "free" /\ \A a \in Actor : request[a].pc \notin Holding
      \/ UNCHANGED operation
  BY <1>1 DEF TunnelsInv, Exclusive, WriteStored, WriteFails, MayEnter, RunBegins, ReadStored,
              FirstReconcile
<1>6. PICK a \in Actor :
        /\ \A b \in Actor : b # a => request'[b] = request[b]
        /\ \/ request'[a] = request[a] /\ UNCHANGED operation
           \/ /\ request[a].pc \notin Holding \cup {"stopping", "ended"}
              /\ request'[a].pc \in {"reconcile", "read", "lock"}
              /\ IF request'[a].pc = "reconcile" THEN operation = "free" /\ operation' = a
                 ELSE UNCHANGED operation
  <2>1. ASSUME NEW c \in TunnelClient, WriteStored(c)
        PROVE  /\ request[c].pc = "idle" /\ request'[c].pc = "reconcile"
               /\ operation = "free" /\ operation' = c
               /\ \A b \in Actor : b # c => request'[b] = request[b]
    BY <1>1, <2>1 DEF WriteStored, MayEnter, TunnelsInv, TunnelsTyped
  <2>2. CASE RunBegins
    BY <1>1, <2>2 DEF RunBegins, TunnelsInv, TunnelsTyped, Holding
  <2>3. CASE ReadStored
    BY <1>1, <2>3 DEF ReadStored, TunnelsInv, TunnelsTyped, Holding
  <2>4. CASE FirstReconcile
    <3>1. request[Daemon] \in [pc : {"restart", "reconcile", "wait", "lock"}, config : Settled]
      BY <1>1, <2>4 DEF FirstReconcile, TunnelsInv, TunnelsTyped, Request
    <3>2. /\ request'[Daemon].pc = "reconcile"
          /\ \A b \in Actor : b # Daemon => request'[b] = request[b]
      BY <1>1, <2>4, <3>1 DEF FirstReconcile, TunnelsInv, TunnelsTyped
    <3> QED BY <1>1, <2>4, <3>2 DEF FirstReconcile, Holding
  <2> QED BY <1>1, <2>1, <2>2, <2>3, <2>4 DEF WriteFails, Holding
<1>7. \/ UNCHANGED live
      \/ live' = TRUE /\ request[Daemon].pc = "idle" /\ request'[Daemon].pc = "read"
  <2>1. CASE RunBegins BY <1>1, <2>1 DEF RunBegins, TunnelsInv, TunnelsTyped
  <2>2. CASE ~RunBegins BY <2>2 DEF WriteStored, WriteFails, ReadStored, FirstReconcile
  <2> QED BY <2>1, <2>2
<1>8. Exclusive' BY <1>1, <1>5, <1>6, <1>7 DEF TunnelsInv, Exclusive, Holding
<1>9. request'[Daemon].pc \in {"stopping", "ended"} => request[Daemon].pc \in {"stopping", "ended"}
  BY <1>1, <1>6
<1>10. MapAgrees' /\ OneWorker' BY <1>3, <1>9 DEF TunnelsInv, MapAgrees, OneWorker, Alive
<1>11. Awaited'
  <2> SUFFICES ASSUME NEW w \in Worker, Alive(w), worker[w].keeper \in Actor
               PROVE  \/ /\ operation' = worker[w].keeper
                         /\ request'[worker[w].keeper].pc \in {"restart", "wait"}
                      \/ worker[w].keeper = Daemon /\ request'[Daemon].pc = "stopping"
    BY <1>3 DEF Awaited, Alive
  <2>1. \/ operation = worker[w].keeper /\ request[worker[w].keeper].pc \in {"restart", "wait"}
        \/ worker[w].keeper = Daemon /\ request[Daemon].pc = "stopping"
    BY DEF TunnelsInv, Awaited
  <2> QED BY <1>1, <1>6, <2>1 DEF Holding
<1> QED BY <1>3, <1>4, <1>8, <1>10, <1>11 DEF TunnelsInv, TunnelsTyped

LEMMA RunEndsKept == ASSUME TunnelsInv, RunEnds PROVE TunnelsInv'
<1>1. /\ request[Daemon].pc = "stopping" /\ Ended(Daemon) /\ worker' = Forgotten(Daemon)
      /\ request' = [request EXCEPT ![Daemon] = [request[Daemon] EXCEPT !.pc = "ended"]]
      /\ UNCHANGED <<stored, live, operation, workers>>
  BY DEF RunEnds, TunnelsInv, TunnelsTyped
<1>2. Daemon \in Actor BY DEF Actor
<1>3. /\ request' \in [Actor -> Request] /\ request'[Daemon].pc = "ended"
      /\ \A b \in Actor : b # Daemon => request'[b] = request[b]
  <2>1. request[Daemon] \in [pc : {"idle", "read", "serve", "stopping", "ended"}]
    BY <1>1, <1>2 DEF TunnelsInv, TunnelsTyped, Request
  <2>2. [request[Daemon] EXCEPT !.pc = "ended"] \in Request
        /\ [request[Daemon] EXCEPT !.pc = "ended"].pc = "ended"
    BY <2>1 DEF Request
  <2> QED BY <1>1, <1>2, <2>2 DEF TunnelsInv, TunnelsTyped
<1>4. MapAgrees' /\ OneWorker' BY <1>1, <1>2, <1>3, Forgetting, GoingOn
<1>5. Awaited'
  <2> SUFFICES ASSUME NEW w \in Worker, Alive(w)', worker'[w].keeper \in Actor
               PROVE  /\ operation = worker'[w].keeper
                      /\ request'[worker'[w].keeper].pc \in {"restart", "wait"}
    BY <1>1 DEF Awaited
  <2>1. worker'[w] = worker[w] BY <1>1, <1>2, Forgetting DEF Alive, NoWorker
  <2>2. worker[w].keeper # Daemon BY <1>1, <2>1 DEF Ended, Alive
  <2> QED BY <1>3, <2>1, <2>2 DEF TunnelsInv, Awaited, Alive
<1>6. Exclusive' BY <1>1, <1>2, <1>3 DEF TunnelsInv, Exclusive, Holding
<1> QED BY <1>1, <1>2, <1>3, <1>4, <1>5, <1>6, Forgetting DEF TunnelsInv, TunnelsTyped

LEMMA WorkerStepKept == ASSUME TunnelsInv, NEW w \in Worker, WorkerStep(w) PROVE TunnelsInv'
<1>1. \E pc \in {"installing", "starting", "running", "backoff", "terminating", "done"} :
        Alive(w) /\ Move(w, pc)
  BY DEF WorkerStep, ProcessSpawned, StartupHeld, CycleFails, BackoffOver, StopSeen, Terminated,
         AbortWorker, Alive
<1> QED BY <1>1, WorkerMoves

\* Two processes of a tunnel exist together only when nobody waits for one of them to end, and
\* once the daemon stops its tunnels every worker was told to (reconcile_locked, wait_workers
\* and run).  For any numbers of tunnels, callers and worker tasks.
THEOREM ProcessesNeverStray == TunnelsSpec => []NoStrayProcess
<1>1. TunnelsInit => TunnelsInv
  <2> SUFFICES ASSUME TunnelsInit PROVE TunnelsInv OBVIOUS
  <2>1. TunnelsTyped
    BY DEF TunnelsInit, TunnelsTyped, Settled, Request, NoRequest, Task, NoWorker
  <2>2. Exclusive BY TunnelAssumption DEF TunnelsInit, Exclusive, NoRequest, Holding, Actor, Daemon
  <2>3. MapAgrees BY DEF TunnelsInit, MapAgrees, NoWorker, NoRequest, IsNone, Actor
  <2>4. Awaited /\ OneWorker BY DEF TunnelsInit, Awaited, OneWorker, Alive, NoWorker
  <2> QED BY <2>1, <2>2, <2>3, <2>4 DEF TunnelsInv
<1>2. TunnelsInv /\ [TunnelsNext]_tunnelVars => TunnelsInv'
  <2> SUFFICES ASSUME TunnelsInv, [TunnelsNext]_tunnelVars PROVE TunnelsInv' OBVIOUS
  <2>1. ASSUME NEW a \in Actor, TunnelStep(a) PROVE TunnelsInv'
    BY <2>1, RestartedKept, RetireKept, SpawnKept, LeaveKept DEF TunnelStep
  <2>2. ASSUME NEW c \in TunnelClient, ClientStep(c) PROVE TunnelsInv'
    BY <2>2, RequestKept, RestartKept, InterruptKept DEF ClientStep
  <2>3. CASE UNCHANGED tunnelVars
    BY <2>3 DEF tunnelVars, TunnelsInv, TunnelsTyped, Exclusive, MapAgrees, Awaited, OneWorker,
                Alive
  <2> QED BY <2>1, <2>2, <2>3, WorkerStepKept, RequestKept, StopAllKept, RunEndsKept
        DEF TunnelsNext
<1>3. TunnelsInv => NoStrayProcess
  <2> SUFFICES ASSUME TunnelsInv PROVE NoStrayProcess OBVIOUS
  <2>1. \A w \in Worker : HasProcess(w) => Alive(w) BY DEF HasProcess, Alive
  <2>2. OneProcess BY <2>1 DEF TunnelsInv, OneWorker, OneProcess
  <2>3. StopIsFinal
    <3> SUFFICES ASSUME request[Daemon].pc \in {"stopping", "ended"}, NEW w \in Worker,
                        worker[w].pc # "none"
                 PROVE  worker[w].asked
      BY DEF StopIsFinal
    <3>1. worker[w].tunnel \in Tunnel BY DEF TunnelsInv, TunnelsTyped, Task, NoWorker
    <3> QED BY <3>1, TunnelAssumption DEF TunnelsInv, MapAgrees, IsNone
  <2> QED BY <2>2, <2>3 DEF NoStrayProcess
<1> QED BY <1>1, <1>2, <1>3, PTL DEF TunnelsSpec

(***************************************************************************)
(* Proxies.                                                                *)
(***************************************************************************)
RowShape ==
  [revision : Nat \ {0}, content : Content, bound : BOOLEAN, enabled : BOOLEAN,
   active : Nat, activeContent : Content,
   status : {"starting", "running", "stopping", "stopped", "failed"}]
Edit ==
  [doing : {"edit"}, proxy : Proxy, bound : BOOLEAN, enabled : BOOLEAN, content : Content]
Job ==
  [pc : {"none", "remove", "delete", "status", "stop", "restore", "apply"},
   by : {"none", "editor", "task", "loop"}, reply : {"none", "ok", "error"}]
Call == [revision : Nat \ {0}, content : Content]

ProxiesTyped ==
  /\ row \in [Proxy -> RowShape \cup {NoRow}]
  /\ node \in Content /\ role \in [Owner -> {"admin", "user", "gone"}]
  /\ references \subseteq Proxy /\ used \subseteq Proxy /\ chosen \subseteq Proxy
  /\ edit \in Edit \cup {NoEdit}
  /\ job \in [Proxy -> Job]
  /\ call \in [Proxy -> Call \cup {NoCall}]
  /\ instance \in [Proxy -> [revision : Nat, alive : BOOLEAN]]

\* Who holds a row, and what a policy or an edit that is under way was told.
RowsLocked ==
  /\ \A p \in Proxy : job[p] # NoJob =>
       /\ job[p].pc # "none" /\ Exists(p) /\ p \notin chosen
       /\ job[p].pc \in {"remove", "delete"} => p \notin references \cup used
  /\ \A p \in chosen : Exists(p) /\ role[OwnerOf[p]] = "admin"
  /\ edit.bound => edit.content = node

\* What the runtime was asked, and what it answered, is about the revision the row has.
AnswersMeant ==
  /\ \A p \in Proxy : job[p].pc = "apply" =>
       /\ job[p].reply = "none" => call[p].revision = row[p].revision
       /\ job[p].reply = "ok" => <<p, row[p].revision>> \in accepted
  /\ \A p \in Proxy :
       call[p] # NoCall /\ job[p].pc \in {"restore", "apply"} => job[p].reply = "none"
  /\ \A p \in Proxy : instance[p].alive => <<p, instance[p].revision>> \in accepted
  /\ \A p \in updating : p \in Proxy /\ call[p] # NoCall

ProxiesInv == ProxiesTyped /\ RowsLocked /\ AnswersMeant /\ ReferencesHold /\ ActiveAccepted

\* The answers and the questions that travel between the server and its runtime.
LEMMA Asked ==
  ASSUME ProxiesTyped, NEW p \in Proxy, NEW pc \in {"restore", "apply"},
         NEW revision \in Nat \ {0}, NEW content \in Content, AskRuntime(p, pc, revision, content)
  PROVE  /\ job' \in [Proxy -> Job] /\ call' \in [Proxy -> Call \cup {NoCall}]
         /\ job'[p].pc = pc /\ job'[p].reply = "none" /\ job'[p] # NoJob
         /\ call'[p].revision = revision /\ call'[p] # NoCall
         /\ \A q \in Proxy : q # p => job'[q] = job[q] /\ call'[q] = call[q]
<1> DEFINE asking == [revision |-> revision, content |-> content]
           busy == [job[p] EXCEPT !.pc = pc, !.reply = "none"]
<1>1. asking \in Call /\ asking # NoCall /\ asking.revision = revision BY DEF Call, NoCall
<1>2. busy \in Job /\ busy.pc = pc /\ busy.reply = "none" /\ busy # NoJob
  BY DEF ProxiesTyped, Job, NoJob
<1>3. job' = [job EXCEPT ![p] = busy] /\ call' = [call EXCEPT ![p] = asking]
  BY DEF AskRuntime, ProxiesTyped
<1> HIDE DEF asking, busy
<1> QED BY <1>1, <1>2, <1>3 DEF ProxiesTyped

LEMMA Replied ==
  ASSUME ProxiesTyped, NEW p \in Proxy, NEW answer \in {"ok", "error"}, Reply(p, answer)
  PROVE  job' \in [Proxy -> Job] /\ call' \in [Proxy -> Call \cup {NoCall}]
<1>1. call' \in [Proxy -> Call \cup {NoCall}] BY DEF Reply, ProxiesTyped
<1>2. [job[p] EXCEPT !.reply = answer] \in Job BY DEF ProxiesTyped, Job
<1>3. job' \in {job, [job EXCEPT ![p] = [job[p] EXCEPT !.reply = answer]]}
  BY DEF Reply, ProxiesTyped
<1> QED BY <1>1, <1>2, <1>3 DEF ProxiesTyped

\* A reconciliation asks about the row it holds.
LEMMA StatusAsks ==
  ASSUME ProxiesTyped, RowsLocked, AskStatus
  PROVE  \E p \in Proxy :
           /\ job[p].pc = "status" /\ row[p] \in RowShape /\ call[p] = NoCall
           /\ job' \in [Proxy -> Job] /\ call' \in [Proxy -> Call \cup {NoCall}]
           /\ job'[p].pc \in {"restore", "apply"} /\ job'[p].reply = "none" /\ job'[p] # NoJob
           /\ job'[p].pc = "apply" => call'[p].revision = row[p].revision
           /\ call'[p] # NoCall
           /\ \A q \in Proxy : q # p => job'[q] = job[q] /\ call'[q] = call[q]
<1>1. PICK p \in Proxy, lost \in BOOLEAN :
        /\ job[p].pc = "status" /\ call[p] = NoCall
        /\ IF (lost \/ ~instance[p].alive) /\ row[p].active \notin {0, row[p].revision}
             THEN AskRuntime(p, "restore", row[p].active, row[p].activeContent)
             ELSE AskRuntime(p, "apply", row[p].revision, row[p].content)
  BY DEF AskStatus
<1>2. row[p] \in RowShape
  BY <1>1 DEF ProxiesTyped, RowsLocked, NoJob, Exists, NoRow
<1>3. row[p].revision \in Nat \ {0} /\ row[p].content \in Content
      /\ row[p].active \in Nat /\ row[p].activeContent \in Content
  BY <1>2 DEF RowShape
<1>4. CASE (lost \/ ~instance[p].alive) /\ row[p].active \notin {0, row[p].revision}
  <2>1. row[p].active \in Nat \ {0} BY <1>3, <1>4
  <2>2. AskRuntime(p, "restore", row[p].active, row[p].activeContent) BY <1>1, <1>4
  <2>3. /\ job' \in [Proxy -> Job] /\ call' \in [Proxy -> Call \cup {NoCall}]
        /\ job'[p].pc = "restore" /\ job'[p].reply = "none" /\ job'[p] # NoJob
        /\ call'[p] # NoCall
        /\ \A q \in Proxy : q # p => job'[q] = job[q] /\ call'[q] = call[q]
    BY <1>3, <2>1, <2>2, Asked
  <2> QED BY <1>1, <1>2, <2>3
<1>5. CASE ~((lost \/ ~instance[p].alive) /\ row[p].active \notin {0, row[p].revision})
  <2>1. AskRuntime(p, "apply", row[p].revision, row[p].content) BY <1>1, <1>5
  <2>2. /\ job' \in [Proxy -> Job] /\ call' \in [Proxy -> Call \cup {NoCall}]
        /\ job'[p].pc = "apply" /\ job'[p].reply = "none" /\ job'[p] # NoJob
        /\ call'[p].revision = row[p].revision /\ call'[p] # NoCall
        /\ \A q \in Proxy : q # p => job'[q] = job[q] /\ call'[q] = call[q]
    BY <1>3, <2>1, Asked
  <2> QED BY <1>1, <1>2, <2>2
<1> QED BY <1>4, <1>5

\* An edit gives a row its next revision, and leaves what is recorded as active.
LEMMA Edited ==
  ASSUME ProxiesTyped, UpdateProxy
  PROVE  /\ edit \in Edit /\ job[edit.proxy] = NoJob /\ edit.proxy \notin chosen /\ edit' = NoEdit
         /\ row' \in [Proxy -> RowShape \cup {NoRow}]
         /\ \A p \in Proxy : p # edit.proxy => row'[p] = row[p]
         /\ \/ row' = row
            \/ /\ Exists(edit.proxy) /\ row'[edit.proxy].revision > 0
               /\ row'[edit.proxy].active = row[edit.proxy].active
               /\ row'[edit.proxy].bound = edit.bound /\ row'[edit.proxy].content = edit.content
<1> DEFINE p == edit.proxy
           edited == [row[p] EXCEPT !.revision = row[p].revision + 1, !.content = edit.content,
                                    !.bound = edit.bound, !.enabled = edit.enabled,
                                    !.status = IF edit.enabled THEN "starting" ELSE "stopping"]
<1>1. edit \in Edit /\ p \in Proxy BY DEF ProxiesTyped, UpdateProxy, Edit
<1>2. job[p] = NoJob /\ p \notin chosen /\ edit' = NoEdit BY DEF UpdateProxy, RowFree
<1>3. CASE ~Exists(p) BY <1>1, <1>2, <1>3 DEF UpdateProxy, ProxiesTyped
<1>4. CASE Exists(p)
  <2>1. row' = [row EXCEPT ![p] = edited] BY <1>4, Zenon DEF UpdateProxy
  <2>2. row[p] \in RowShape BY <1>1, <1>4 DEF ProxiesTyped, Exists, NoRow
  <2>a. row[p].revision + 1 \in Nat \ {0} /\ row[p].revision + 1 > 0 BY <2>2 DEF RowShape
  <2>b. edit.bound \in BOOLEAN /\ edit.enabled \in BOOLEAN /\ edit.content \in Content
    BY <1>1 DEF Edit
  <2>3. /\ edited \in RowShape /\ edited.revision > 0 /\ edited.active = row[p].active
        /\ edited.bound = edit.bound /\ edited.content = edit.content
    BY <2>2, <2>a, <2>b DEF RowShape
  <2> HIDE DEF edited
  <2> QED BY <1>1, <1>2, <1>4, <2>1, <2>3 DEF ProxiesTyped, Exists
<1> QED BY <1>3, <1>4

\* A change of the custom node changes the rows bound to it, which nobody holds.
LEMMA NodeEdited ==
  ASSUME ProxiesTyped, UpdateNode
  PROVE  /\ ~edit.bound /\ node' \in Content
         /\ row' \in [Proxy -> RowShape \cup {NoRow}]
         /\ \A p \in Proxy :
              IF Exists(p) /\ row[p].bound
                THEN /\ job[p] = NoJob /\ p \notin chosen /\ Exists(p)'
                     /\ row'[p].active = row[p].active /\ row'[p].content = node'
                ELSE row'[p] = row[p]
<1> DEFINE changed == {p \in Proxy : Exists(p) /\ row[p].bound}
<1>1. PICK content \in Content \ {node} :
        /\ node' = content
        /\ row' = [p \in Proxy |->
             IF p \in changed
             THEN [row[p] EXCEPT !.revision = row[p].revision + 1, !.content = content,
                     !.status = IF row[p].enabled THEN "starting" ELSE "stopped"]
             ELSE row[p]]
  BY DEF UpdateNode
<1>2. ~edit.bound /\ \A p \in changed : job[p] = NoJob /\ p \notin chosen
  BY DEF UpdateNode, NodeFree, RowFree
<1>3. ASSUME NEW p \in Proxy
      PROVE  /\ row'[p] \in RowShape \cup {NoRow}
             /\ IF p \in changed
                  THEN row'[p].revision > 0 /\ row'[p].active = row[p].active
                       /\ row'[p].content = content
                  ELSE row'[p] = row[p]
  <2>1. CASE p \in changed
    <3> DEFINE edited == [row[p] EXCEPT !.revision = row[p].revision + 1, !.content = content,
                            !.status = IF row[p].enabled THEN "starting" ELSE "stopped"]
    <3>1. row'[p] = edited BY <1>1, <2>1
    <3>2. row[p] \in RowShape BY <2>1 DEF ProxiesTyped, Exists, NoRow
    <3>a. row[p].revision + 1 \in Nat \ {0} /\ row[p].revision + 1 > 0 BY <3>2 DEF RowShape
    <3>3. edited \in RowShape /\ edited.revision > 0 /\ edited.active = row[p].active
          /\ edited.content = content
      BY <3>2, <3>a DEF RowShape
    <3> HIDE DEF edited
    <3> QED BY <2>1, <3>1, <3>3
  <2>2. CASE p \notin changed
    <3>1. row'[p] = row[p] BY <1>1, <2>2
    <3> QED BY <2>2, <3>1 DEF ProxiesTyped
  <2> QED BY <2>1, <2>2
<1>4. row' \in [Proxy -> RowShape \cup {NoRow}]
  <2>1. row' = [p \in Proxy |-> row'[p]] BY <1>1
  <2> QED BY <1>3, <2>1
<1> QED BY <1>1, <1>2, <1>3, <1>4 DEF Exists

\* Every step keeps the types of rows, jobs, calls and instances.
LEMMA ProxiesTypesKept ==
  ASSUME ProxiesTyped, RowsLocked, AnswersMeant, ProxiesNext \/ UNCHANGED proxyVars
  PROVE  ProxiesTyped'
<1> USE ProxyAssumption
<1>1. ASSUME CreateProxy PROVE ProxiesTyped'
  BY <1>1 DEF CreateProxy, RowFree, proxyVars, rowVars, serverVars, runtimeVars, ProxiesTyped,
      RowsLocked, NoRow, Edit, NoEdit, Job, NoJob, Call, NoCall, NoInstance, Exists, RowShape
<1>2. ASSUME ReadContent PROVE ProxiesTyped'
  BY <1>2 DEF ReadContent, proxyVars, rowVars, serverVars, runtimeVars, ProxiesTyped, RowsLocked,
      NoRow, Edit, NoEdit, Job, NoJob, Call, NoCall, NoInstance, Exists, RowShape, RowFree
<1>3. ASSUME UpdateProxy PROVE ProxiesTyped'
  <2>1. row' \in [Proxy -> RowShape \cup {NoRow}] /\ edit' = NoEdit BY <1>3, Edited
  <2> QED BY <1>3, <2>1 DEF UpdateProxy, ProxiesTyped, runtimeVars
<1>4. ASSUME Switch PROVE ProxiesTyped'
  <2>1. PICK p \in Proxy :
          /\ Exists(p)
          /\ row' = [row EXCEPT ![p].enabled = ~row[p].enabled,
                                ![p].status = IF row[p].enabled THEN "stopping" ELSE "starting"]
    BY <1>4 DEF Switch, ProxiesTyped
  <2>2. row[p] \in RowShape BY <2>1 DEF ProxiesTyped, Exists, NoRow
  <2> DEFINE switched == [row[p] EXCEPT !.enabled = ~row[p].enabled,
                            !.status = IF row[p].enabled THEN "stopping" ELSE "starting"]
  <2>3. switched \in RowShape
    <3>1. (~row[p].enabled) \in BOOLEAN OBVIOUS
    <3> QED BY <2>2, <3>1 DEF RowShape
  <2>4. row' = [row EXCEPT ![p] = switched] BY <2>1, <2>2 DEF ProxiesTyped, RowShape
  <2> HIDE DEF switched
  <2>5. row' \in [Proxy -> RowShape \cup {NoRow}] BY <2>3, <2>4 DEF ProxiesTyped
  <2> QED BY <1>4, <2>5 DEF Switch, ProxiesTyped, runtimeVars
<1>5. ASSUME UpdateNode PROVE ProxiesTyped'
  <2>1. row' \in [Proxy -> RowShape \cup {NoRow}] /\ node' \in Content BY <1>5, NodeEdited
  <2> QED BY <1>5, <2>1 DEF UpdateNode, ProxiesTyped, runtimeVars
<1>6. ASSUME SaveSource PROVE ProxiesTyped'
  BY <1>6 DEF SaveSource, proxyVars, rowVars, serverVars, runtimeVars, ProxiesTyped, RowsLocked,
      NoRow, Edit, NoEdit, Job, NoJob, Call, NoCall, NoInstance, Exists, RowShape, RowFree
<1>7. ASSUME CheckPolicy PROVE ProxiesTyped'
  BY <1>7 DEF CheckPolicy, proxyVars, rowVars, serverVars, runtimeVars, ProxiesTyped, RowsLocked,
      NoRow, Edit, NoEdit, Job, NoJob, Call, NoCall, NoInstance, Exists, RowShape, RowFree
<1>8. ASSUME SavePolicy PROVE ProxiesTyped'
  BY <1>8 DEF SavePolicy, proxyVars, rowVars, serverVars, runtimeVars, ProxiesTyped, RowsLocked,
      NoRow, Edit, NoEdit, Job, NoJob, Call, NoCall, NoInstance, Exists, RowShape, RowFree
<1>9. ASSUME ClearPolicy PROVE ProxiesTyped'
  BY <1>9 DEF ClearPolicy, proxyVars, rowVars, serverVars, runtimeVars, ProxiesTyped, RowsLocked,
      NoRow, Edit, NoEdit, Job, NoJob, Call, NoCall, NoInstance, Exists, RowShape, RowFree
<1>10. ASSUME ChangeRole PROVE ProxiesTyped'
  BY <1>10 DEF ChangeRole, Owned, OwnerFree, proxyVars, rowVars, serverVars, runtimeVars,
      ProxiesTyped, RowsLocked, NoRow, Edit, NoEdit, Job, NoJob, Call, NoCall, NoInstance, Exists,
      RowShape, RowFree
<1>11. ASSUME DeleteOwner PROVE ProxiesTyped'
  BY <1>11 DEF DeleteOwner, Owned, OwnerFree, proxyVars, rowVars, serverVars, runtimeVars,
      ProxiesTyped, RowsLocked, NoRow, Edit, NoEdit, Job, NoJob, Call, NoCall, NoInstance, Exists,
      RowShape, RowFree
<1>12. ASSUME RemoveProxy PROVE ProxiesTyped'
  BY <1>12 DEF RemoveProxy, RowFree, proxyVars, rowVars, serverVars, runtimeVars, ProxiesTyped,
      RowsLocked, NoRow, Edit, NoEdit, Job, NoJob, Call, NoCall, NoInstance, Exists, RowShape
<1>13. ASSUME TakeScheduled PROVE ProxiesTyped'
  <2>1. job' \in [Proxy -> Job]
    <3>1. PICK p : Take(p, "task") BY <1>13 DEF TakeScheduled
    <3>2. \A pc \in {"status", "stop"} : [pc |-> pc, by |-> "task", reply |-> "none"] \in Job
      BY DEF Job
    <3>3. [pc |-> IF row[p].enabled THEN "status" ELSE "stop", by |-> "task", reply |-> "none"]
            \in Job
      BY <3>2
    <3> QED BY <3>1, <3>3 DEF Take, ProxiesTyped
  <2> QED BY <1>13, <2>1 DEF TakeScheduled, Take, ProxiesTyped, rowVars, runtimeVars
<1>14. ASSUME TakeNext PROVE ProxiesTyped'
  BY <1>14 DEF TakeNext, Visit, Take, proxyVars, rowVars, serverVars, runtimeVars, ProxiesTyped,
      RowsLocked, NoRow, Edit, NoEdit, Job, NoJob, Call, NoCall, NoInstance, Exists, RowShape,
      RowFree
<1>15. ASSUME RemoveStops PROVE ProxiesTyped'
  <2>1. PICK p \in Proxy : job' = [job EXCEPT ![p].pc = "delete"] /\ StopInstance(p)
    BY <1>15 DEF RemoveStops
  <2>2. [job[p] EXCEPT !.pc = "delete"] \in Job BY DEF ProxiesTyped, Job
  <2>3. job' = [job EXCEPT ![p] = [job[p] EXCEPT !.pc = "delete"]] BY <2>1 DEF ProxiesTyped
  <2>4. job' \in [Proxy -> Job] BY <2>2, <2>3 DEF ProxiesTyped
  <2>5. NoInstance \in [revision : Nat, alive : BOOLEAN] BY DEF NoInstance
  <2>6. instance' \in [Proxy -> [revision : Nat, alive : BOOLEAN]]
    BY <2>1, <2>5 DEF StopInstance, ProxiesTyped
  <2> QED BY <1>15, <2>4, <2>6 DEF RemoveStops, ProxiesTyped, rowVars
<1>16. ASSUME DeleteRow PROVE ProxiesTyped'
  BY <1>16 DEF DeleteRow, proxyVars, rowVars, serverVars, runtimeVars, ProxiesTyped, RowsLocked,
      NoRow, Edit, NoEdit, Job, NoJob, Call, NoCall, NoInstance, Exists, RowShape, RowFree
<1>17. ASSUME StopDisabled PROVE ProxiesTyped'
  <2>1. PICK p \in Proxy :
          /\ job[p].pc = "stop" /\ StopInstance(p)
          /\ row' = [row EXCEPT ![p].status = "stopped"] /\ job' = [job EXCEPT ![p] = NoJob]
    BY <1>17 DEF StopDisabled
  <2>2. row[p] \in RowShape BY <2>1 DEF ProxiesTyped, RowsLocked, NoJob, Exists, NoRow
  <2>3. [row[p] EXCEPT !.status = "stopped"] \in RowShape BY <2>2 DEF RowShape
  <2>4. row' = [row EXCEPT ![p] = [row[p] EXCEPT !.status = "stopped"]] BY <2>1 DEF ProxiesTyped
  <2>5. row' \in [Proxy -> RowShape \cup {NoRow}] BY <2>3, <2>4 DEF ProxiesTyped
  <2>6. NoInstance \in [revision : Nat, alive : BOOLEAN] /\ NoJob \in Job
    BY DEF NoInstance, NoJob, Job
  <2>7. /\ instance' \in [Proxy -> [revision : Nat, alive : BOOLEAN]]
        /\ job' \in [Proxy -> Job]
    BY <2>1, <2>6 DEF StopInstance, ProxiesTyped
  <2> QED BY <1>17, <2>5, <2>7 DEF StopDisabled, ProxiesTyped
<1>18. ASSUME AskStatus PROVE ProxiesTyped'
  <2>1. job' \in [Proxy -> Job] /\ call' \in [Proxy -> Call \cup {NoCall}] BY <1>18, StatusAsks
  <2> QED BY <1>18, <2>1 DEF AskStatus, ProxiesTyped, rowVars
<1>19. ASSUME Restored PROVE ProxiesTyped'
  BY <1>19 DEF Restored, AskRuntime, proxyVars, rowVars, serverVars, runtimeVars, ProxiesTyped,
      RowsLocked, NoRow, Edit, NoEdit, Job, NoJob, Call, NoCall, NoInstance, Exists, RowShape,
      RowFree
<1>20. ASSUME Record PROVE ProxiesTyped'
  <2>1. PICK p \in Proxy :
          /\ job[p].pc = "apply" /\ job' = [job EXCEPT ![p] = NoJob]
          /\ row' = IF job[p].reply = "ok"
                    THEN [row EXCEPT ![p].active = row[p].revision,
                                     ![p].activeContent = row[p].content, ![p].status = "running"]
                    ELSE [row EXCEPT ![p].status = "failed"]
    BY <1>20 DEF Record
  <2>2. row[p] \in RowShape BY <2>1 DEF ProxiesTyped, RowsLocked, NoJob, Exists, NoRow
  <2> DEFINE recorded == [row[p] EXCEPT !.active = row[p].revision,
                            !.activeContent = row[p].content, !.status = "running"]
             failed == [row[p] EXCEPT !.status = "failed"]
  <2>3. recorded \in RowShape /\ failed \in RowShape BY <2>2 DEF RowShape
  <2>4. row' \in {[row EXCEPT ![p] = recorded], [row EXCEPT ![p] = failed]}
    BY <2>1, <2>2 DEF ProxiesTyped, RowShape
  <2> HIDE DEF recorded, failed
  <2>5. row' \in [Proxy -> RowShape \cup {NoRow}] BY <2>3, <2>4 DEF ProxiesTyped
  <2>6. job' \in [Proxy -> Job] BY <2>1 DEF ProxiesTyped, Job, NoJob
  <2> QED BY <1>20, <2>5, <2>6 DEF Record, ProxiesTyped, runtimeVars
<1>21. ASSUME Refuse PROVE ProxiesTyped'
  <2>1. \E p \in Proxy : Reply(p, "error") BY <1>21 DEF Refuse
  <2>2. job' \in [Proxy -> Job] /\ call' \in [Proxy -> Call \cup {NoCall}] BY <2>1, Replied
  <2> QED BY <1>21, <2>2 DEF Refuse, ProxiesTyped, rowVars
<1>22. ASSUME AlreadyRunning PROVE ProxiesTyped'
  <2>1. \E p \in Proxy : Reply(p, "ok") BY <1>22 DEF AlreadyRunning
  <2>2. job' \in [Proxy -> Job] /\ call' \in [Proxy -> Call \cup {NoCall}] BY <2>1, Replied
  <2> QED BY <1>22, <2>2 DEF AlreadyRunning, ProxiesTyped, rowVars
<1>23. ASSUME NoRoom PROVE ProxiesTyped'
  <2>1. \E p \in Proxy : Reply(p, "error") BY <1>23 DEF NoRoom
  <2>2. job' \in [Proxy -> Job] /\ call' \in [Proxy -> Call \cup {NoCall}] BY <2>1, Replied
  <2> QED BY <1>23, <2>2 DEF NoRoom, ProxiesTyped, rowVars
<1>24. ASSUME Launch PROVE ProxiesTyped'
  BY <1>24 DEF Launch, NotRefused, Calling, proxyVars, rowVars, serverVars, runtimeVars,
      ProxiesTyped, RowsLocked, NoRow, Edit, NoEdit, Job, NoJob, Call, NoCall, NoInstance, Exists,
      RowShape, RowFree
<1>25. ASSUME Launched PROVE ProxiesTyped'
  <2>1. PICK p \in updating :
          /\ Reply(p, "ok")
          /\ instance' = [instance EXCEPT ![p] = [revision |-> call[p].revision, alive |-> TRUE]]
    BY <1>25 DEF Launched
  <2>2. p \in Proxy /\ call[p] \in Call BY DEF AnswersMeant, ProxiesTyped
  <2>3. job' \in [Proxy -> Job] /\ call' \in [Proxy -> Call \cup {NoCall}]
    BY <2>1, <2>2, Replied
  <2>4. [revision |-> call[p].revision, alive |-> TRUE] \in [revision : Nat, alive : BOOLEAN]
    BY <2>2 DEF Call
  <2>5. instance' \in [Proxy -> [revision : Nat, alive : BOOLEAN]]
    BY <2>1, <2>4 DEF ProxiesTyped
  <2> QED BY <1>25, <2>3, <2>5 DEF Launched, ProxiesTyped, rowVars
<1>26. ASSUME LaunchFails PROVE ProxiesTyped'
  <2>1. \E p \in Proxy : Reply(p, "error") BY <1>26 DEF LaunchFails, AnswersMeant
  <2>2. job' \in [Proxy -> Job] /\ call' \in [Proxy -> Call \cup {NoCall}] BY <2>1, Replied
  <2> QED BY <1>26, <2>2 DEF LaunchFails, ProxiesTyped, rowVars
<1>27. ASSUME Abandon PROVE ProxiesTyped'
  BY <1>27 DEF Abandon, proxyVars, rowVars, serverVars, runtimeVars, ProxiesTyped, RowsLocked,
      NoRow, Edit, NoEdit, Job, NoJob, Call, NoCall, NoInstance, Exists, RowShape, RowFree
<1>28. ASSUME Drained PROVE ProxiesTyped'
  BY <1>28 DEF Drained, proxyVars, rowVars, serverVars, runtimeVars, ProxiesTyped, RowsLocked,
      NoRow, Edit, NoEdit, Job, NoJob, Call, NoCall, NoInstance, Exists, RowShape, RowFree
<1>29. ASSUME BackoffEnds PROVE ProxiesTyped'
  BY <1>29 DEF BackoffEnds, proxyVars, rowVars, serverVars, runtimeVars, ProxiesTyped, RowsLocked,
      NoRow, Edit, NoEdit, Job, NoJob, Call, NoCall, NoInstance, Exists, RowShape, RowFree
<1>30. ASSUME JobFails PROVE ProxiesTyped'
  BY <1>30 DEF JobFails, proxyVars, rowVars, serverVars, runtimeVars, ProxiesTyped, RowsLocked,
      NoRow, Edit, NoEdit, Job, NoJob, Call, NoCall, NoInstance, Exists, RowShape, RowFree
<1>31. ASSUME ServerRestarts PROVE ProxiesTyped'
  BY <1>31 DEF ServerRestarts, proxyVars, rowVars, serverVars, runtimeVars, ProxiesTyped,
      RowsLocked, NoRow, Edit, NoEdit, Job, NoJob, Call, NoCall, NoInstance, Exists, RowShape,
      RowFree
<1>32. ASSUME InstanceExits PROVE ProxiesTyped'
  <2>1. PICK p \in Proxy : instance' = [instance EXCEPT ![p].alive = FALSE]
    BY <1>32 DEF InstanceExits
  <2>2. [instance[p] EXCEPT !.alive = FALSE] \in [revision : Nat, alive : BOOLEAN]
    BY DEF ProxiesTyped
  <2>3. instance' = [instance EXCEPT ![p] = [instance[p] EXCEPT !.alive = FALSE]]
    BY <2>1 DEF ProxiesTyped
  <2>4. instance' \in [Proxy -> [revision : Nat, alive : BOOLEAN]] BY <2>2, <2>3 DEF ProxiesTyped
  <2> QED BY <1>32, <2>4 DEF InstanceExits, ProxiesTyped, rowVars, serverVars
<1>33. ASSUME RuntimeRestarts PROVE ProxiesTyped'
  BY <1>33 DEF RuntimeRestarts, proxyVars, rowVars, serverVars, runtimeVars, ProxiesTyped,
      RowsLocked, NoRow, Edit, NoEdit, Job, NoJob, Call, NoCall, NoInstance, Exists, RowShape,
      RowFree
<1>34. ASSUME UNCHANGED proxyVars PROVE ProxiesTyped'
  BY <1>34 DEF proxyVars, rowVars, serverVars, runtimeVars, ProxiesTyped, RowsLocked, NoRow, Edit,
      NoEdit, Job, NoJob, Call, NoCall, NoInstance, Exists, RowShape, RowFree
<1> QED BY <1>1, <1>2, <1>3, <1>4, <1>5, <1>6, <1>7, <1>8, <1>9, <1>10, <1>11, <1>12, <1>13,
    <1>14, <1>15, <1>16, <1>17, <1>18, <1>19, <1>20, <1>21, <1>22, <1>23, <1>24, <1>25, <1>26,
    <1>27, <1>28, <1>29, <1>30, <1>31, <1>32, <1>33, <1>34 DEF ProxiesNext, EditorStep,
    ServerStep, RuntimeStep, ProxyFaultStep

\* A row is given away and taken back by one job, policy or edit at a time.
LEMMA LocksKept ==
  ASSUME ProxiesTyped, RowsLocked, ProxiesNext \/ UNCHANGED proxyVars
  PROVE  RowsLocked'
<1> USE ProxyAssumption
<1>1. ASSUME CreateProxy PROVE RowsLocked'
  BY <1>1 DEF CreateProxy, RowFree, proxyVars, rowVars, serverVars, runtimeVars, ProxiesTyped,
      RowsLocked, Exists, NoRow, NoJob, NoEdit
<1>2. ASSUME ReadContent PROVE RowsLocked'
  BY <1>2 DEF ReadContent, proxyVars, rowVars, serverVars, runtimeVars, ProxiesTyped, RowsLocked,
      Exists, RowFree, NoRow, NoJob, NoEdit
<1>3. ASSUME UpdateProxy PROVE RowsLocked'
  BY <1>3 DEF UpdateProxy, RowFree, proxyVars, rowVars, serverVars, runtimeVars, ProxiesTyped,
      RowsLocked, Exists, NoRow, NoJob, NoEdit
<1>4. ASSUME Switch PROVE RowsLocked'
  BY <1>4 DEF Switch, RowFree, proxyVars, rowVars, serverVars, runtimeVars, ProxiesTyped,
      RowsLocked, Exists, NoRow, NoJob, NoEdit
<1>5. ASSUME UpdateNode PROVE RowsLocked'
  BY <1>5 DEF UpdateNode, NodeFree, proxyVars, rowVars, serverVars, runtimeVars, ProxiesTyped,
      RowsLocked, Exists, RowFree, NoRow, NoJob, NoEdit
<1>6. ASSUME SaveSource PROVE RowsLocked'
  BY <1>6 DEF SaveSource, proxyVars, rowVars, serverVars, runtimeVars, ProxiesTyped, RowsLocked,
      Exists, RowFree, NoRow, NoJob, NoEdit
<1>7. ASSUME CheckPolicy PROVE RowsLocked'
  BY <1>7 DEF CheckPolicy, proxyVars, rowVars, serverVars, runtimeVars, ProxiesTyped, RowsLocked,
      Exists, RowFree, NoRow, NoJob, NoEdit
<1>8. ASSUME SavePolicy PROVE RowsLocked'
  BY <1>8 DEF SavePolicy, proxyVars, rowVars, serverVars, runtimeVars, ProxiesTyped, RowsLocked,
      Exists, RowFree, NoRow, NoJob, NoEdit
<1>9. ASSUME ClearPolicy PROVE RowsLocked'
  BY <1>9 DEF ClearPolicy, proxyVars, rowVars, serverVars, runtimeVars, ProxiesTyped, RowsLocked,
      Exists, RowFree, NoRow, NoJob, NoEdit
<1>10. ASSUME ChangeRole PROVE RowsLocked'
  BY <1>10 DEF ChangeRole, Owned, OwnerFree, proxyVars, rowVars, serverVars, runtimeVars,
      ProxiesTyped, RowsLocked, Exists, RowFree, NoRow, NoJob, NoEdit
<1>11. ASSUME DeleteOwner PROVE RowsLocked'
  BY <1>11 DEF DeleteOwner, Owned, OwnerFree, proxyVars, rowVars, serverVars, runtimeVars,
      ProxiesTyped, RowsLocked, Exists, RowFree, NoRow, NoJob, NoEdit
<1>12. ASSUME RemoveProxy PROVE RowsLocked'
  BY <1>12 DEF RemoveProxy, RowFree, proxyVars, rowVars, serverVars, runtimeVars, ProxiesTyped,
      RowsLocked, Exists, NoRow, NoJob, NoEdit
<1>13. ASSUME TakeScheduled PROVE RowsLocked'
  BY <1>13 DEF TakeScheduled, Take, proxyVars, rowVars, serverVars, runtimeVars, ProxiesTyped,
      RowsLocked, Exists, RowFree, NoRow, NoJob, NoEdit
<1>14. ASSUME TakeNext PROVE RowsLocked'
  BY <1>14 DEF TakeNext, Visit, Take, proxyVars, rowVars, serverVars, runtimeVars, ProxiesTyped,
      RowsLocked, Exists, RowFree, NoRow, NoJob, NoEdit
<1>15. ASSUME RemoveStops PROVE RowsLocked'
  BY <1>15 DEF RemoveStops, StopInstance, proxyVars, rowVars, serverVars, runtimeVars, ProxiesTyped,
      RowsLocked, Exists, RowFree, NoRow, NoJob, NoEdit
<1>16. ASSUME DeleteRow PROVE RowsLocked'
  BY <1>16 DEF DeleteRow, proxyVars, rowVars, serverVars, runtimeVars, ProxiesTyped, RowsLocked,
      Exists, RowFree, NoRow, NoJob, NoEdit
<1>17. ASSUME StopDisabled PROVE RowsLocked'
  BY <1>17 DEF StopDisabled, StopInstance, proxyVars, rowVars, serverVars, runtimeVars,
      ProxiesTyped, RowsLocked, Exists, RowFree, NoRow, NoJob, NoEdit
<1>18. ASSUME AskStatus PROVE RowsLocked'
  <2>1. PICK p \in Proxy :
          /\ job[p].pc = "status" /\ job'[p].pc \in {"restore", "apply"} /\ job'[p] # NoJob
          /\ \A q \in Proxy : q # p => job'[q] = job[q]
    BY <1>18, StatusAsks
  <2> QED BY <1>18, <2>1 DEF AskStatus, RowsLocked, NoJob, Exists, rowVars
<1>19. ASSUME Restored PROVE RowsLocked'
  BY <1>19 DEF Restored, AskRuntime, proxyVars, rowVars, serverVars, runtimeVars, ProxiesTyped,
      RowsLocked, Exists, RowFree, NoRow, NoJob, NoEdit
<1>20. ASSUME Record PROVE RowsLocked'
  BY <1>20 DEF Record, proxyVars, rowVars, serverVars, runtimeVars, ProxiesTyped, RowsLocked,
      Exists, RowFree, NoRow, NoJob, NoEdit
<1>21. ASSUME Refuse PROVE RowsLocked'
  BY <1>21 DEF Refuse, Reply, Calling, proxyVars, rowVars, serverVars, runtimeVars, ProxiesTyped,
      RowsLocked, Exists, RowFree, NoRow, NoJob, NoEdit
<1>22. ASSUME AlreadyRunning PROVE RowsLocked'
  BY <1>22 DEF AlreadyRunning, Reply, NotRefused, Calling, Current, proxyVars, rowVars, serverVars,
      runtimeVars, ProxiesTyped, RowsLocked, Exists, RowFree, NoRow, NoJob, NoEdit
<1>23. ASSUME NoRoom PROVE RowsLocked'
  BY <1>23 DEF NoRoom, Reply, NotRefused, Calling, proxyVars, rowVars, serverVars, runtimeVars,
      ProxiesTyped, RowsLocked, Exists, RowFree, NoRow, NoJob, NoEdit
<1>24. ASSUME Launch PROVE RowsLocked'
  BY <1>24 DEF Launch, NotRefused, Calling, proxyVars, rowVars, serverVars, runtimeVars,
      ProxiesTyped, RowsLocked, Exists, RowFree, NoRow, NoJob, NoEdit
<1>25. ASSUME Launched PROVE RowsLocked'
  BY <1>25 DEF Launched, Reply, proxyVars, rowVars, serverVars, runtimeVars, ProxiesTyped,
      RowsLocked, Exists, RowFree, NoRow, NoJob, NoEdit
<1>26. ASSUME LaunchFails PROVE RowsLocked'
  BY <1>26 DEF LaunchFails, Reply, proxyVars, rowVars, serverVars, runtimeVars, ProxiesTyped,
      RowsLocked, Exists, RowFree, NoRow, NoJob, NoEdit
<1>27. ASSUME Abandon PROVE RowsLocked'
  BY <1>27 DEF Abandon, proxyVars, rowVars, serverVars, runtimeVars, ProxiesTyped, RowsLocked,
      Exists, RowFree, NoRow, NoJob, NoEdit
<1>28. ASSUME Drained PROVE RowsLocked'
  BY <1>28 DEF Drained, proxyVars, rowVars, serverVars, runtimeVars, ProxiesTyped, RowsLocked,
      Exists, RowFree, NoRow, NoJob, NoEdit
<1>29. ASSUME BackoffEnds PROVE RowsLocked'
  BY <1>29 DEF BackoffEnds, proxyVars, rowVars, serverVars, runtimeVars, ProxiesTyped, RowsLocked,
      Exists, RowFree, NoRow, NoJob, NoEdit
<1>30. ASSUME JobFails PROVE RowsLocked'
  BY <1>30 DEF JobFails, proxyVars, rowVars, serverVars, runtimeVars, ProxiesTyped, RowsLocked,
      Exists, RowFree, NoRow, NoJob, NoEdit
<1>31. ASSUME ServerRestarts PROVE RowsLocked'
  BY <1>31 DEF ServerRestarts, proxyVars, rowVars, serverVars, runtimeVars, ProxiesTyped,
      RowsLocked, Exists, RowFree, NoRow, NoJob, NoEdit
<1>32. ASSUME InstanceExits PROVE RowsLocked'
  BY <1>32 DEF InstanceExits, proxyVars, rowVars, serverVars, runtimeVars, ProxiesTyped, RowsLocked,
      Exists, RowFree, NoRow, NoJob, NoEdit
<1>33. ASSUME RuntimeRestarts PROVE RowsLocked'
  BY <1>33 DEF RuntimeRestarts, proxyVars, rowVars, serverVars, runtimeVars, ProxiesTyped,
      RowsLocked, Exists, RowFree, NoRow, NoJob, NoEdit
<1>34. ASSUME UNCHANGED proxyVars PROVE RowsLocked'
  BY <1>34 DEF proxyVars, rowVars, serverVars, runtimeVars, ProxiesTyped, RowsLocked, Exists,
      RowFree, NoRow, NoJob, NoEdit
<1> QED BY <1>1, <1>2, <1>3, <1>4, <1>5, <1>6, <1>7, <1>8, <1>9, <1>10, <1>11, <1>12, <1>13,
    <1>14, <1>15, <1>16, <1>17, <1>18, <1>19, <1>20, <1>21, <1>22, <1>23, <1>24, <1>25, <1>26,
    <1>27, <1>28, <1>29, <1>30, <1>31, <1>32, <1>33, <1>34 DEF ProxiesNext, EditorStep,
    ServerStep, RuntimeStep, ProxyFaultStep

\* No answer is taken for a revision it was not given for.
LEMMA AnswersKept ==
  ASSUME ProxiesTyped, RowsLocked, AnswersMeant, ProxiesNext \/ UNCHANGED proxyVars
  PROVE  AnswersMeant'
<1> USE ProxyAssumption
<1>1. ASSUME CreateProxy PROVE AnswersMeant'
  BY <1>1 DEF CreateProxy, RowFree, proxyVars, rowVars, serverVars, runtimeVars, ProxiesTyped,
      RowsLocked, AnswersMeant, Exists, NoRow, NoJob, NoCall, NoInstance
<1>2. ASSUME ReadContent PROVE AnswersMeant'
  BY <1>2 DEF ReadContent, proxyVars, rowVars, serverVars, runtimeVars, ProxiesTyped, RowsLocked,
      AnswersMeant, Exists, RowFree, NoRow, NoJob, NoCall, NoInstance
<1>3. ASSUME UpdateProxy PROVE AnswersMeant'
  BY <1>3 DEF UpdateProxy, RowFree, proxyVars, rowVars, serverVars, runtimeVars, ProxiesTyped,
      RowsLocked, AnswersMeant, Exists, NoRow, NoJob, NoCall, NoInstance
<1>4. ASSUME Switch PROVE AnswersMeant'
  BY <1>4 DEF Switch, RowFree, proxyVars, rowVars, serverVars, runtimeVars, ProxiesTyped,
      RowsLocked, AnswersMeant, Exists, NoRow, NoJob, NoCall, NoInstance
<1>5. ASSUME UpdateNode PROVE AnswersMeant'
  <2>1. \A p \in Proxy : job[p].pc = "apply" => row'[p] = row[p] BY <1>5, NodeEdited DEF NoJob
  <2> QED BY <1>5, <2>1 DEF UpdateNode, AnswersMeant, runtimeVars
<1>6. ASSUME SaveSource PROVE AnswersMeant'
  BY <1>6 DEF SaveSource, proxyVars, rowVars, serverVars, runtimeVars, ProxiesTyped, RowsLocked,
      AnswersMeant, Exists, RowFree, NoRow, NoJob, NoCall, NoInstance
<1>7. ASSUME CheckPolicy PROVE AnswersMeant'
  BY <1>7 DEF CheckPolicy, proxyVars, rowVars, serverVars, runtimeVars, ProxiesTyped, RowsLocked,
      AnswersMeant, Exists, RowFree, NoRow, NoJob, NoCall, NoInstance
<1>8. ASSUME SavePolicy PROVE AnswersMeant'
  BY <1>8 DEF SavePolicy, proxyVars, rowVars, serverVars, runtimeVars, ProxiesTyped, RowsLocked,
      AnswersMeant, Exists, RowFree, NoRow, NoJob, NoCall, NoInstance
<1>9. ASSUME ClearPolicy PROVE AnswersMeant'
  BY <1>9 DEF ClearPolicy, proxyVars, rowVars, serverVars, runtimeVars, ProxiesTyped, RowsLocked,
      AnswersMeant, Exists, RowFree, NoRow, NoJob, NoCall, NoInstance
<1>10. ASSUME ChangeRole PROVE AnswersMeant'
  BY <1>10 DEF ChangeRole, Owned, OwnerFree, proxyVars, rowVars, serverVars, runtimeVars,
      ProxiesTyped, RowsLocked, AnswersMeant, Exists, RowFree, NoRow, NoJob, NoCall, NoInstance
<1>11. ASSUME DeleteOwner PROVE AnswersMeant'
  BY <1>11 DEF DeleteOwner, Owned, OwnerFree, proxyVars, rowVars, serverVars, runtimeVars,
      ProxiesTyped, RowsLocked, AnswersMeant, Exists, RowFree, NoRow, NoJob, NoCall, NoInstance
<1>12. ASSUME RemoveProxy PROVE AnswersMeant'
  BY <1>12 DEF RemoveProxy, RowFree, proxyVars, rowVars, serverVars, runtimeVars, ProxiesTyped,
      RowsLocked, AnswersMeant, Exists, NoRow, NoJob, NoCall, NoInstance
<1>13. ASSUME TakeScheduled PROVE AnswersMeant'
  BY <1>13 DEF TakeScheduled, Take, proxyVars, rowVars, serverVars, runtimeVars, ProxiesTyped,
      RowsLocked, AnswersMeant, Exists, RowFree, NoRow, NoJob, NoCall, NoInstance
<1>14. ASSUME TakeNext PROVE AnswersMeant'
  BY <1>14 DEF TakeNext, Visit, Take, proxyVars, rowVars, serverVars, runtimeVars, ProxiesTyped,
      RowsLocked, AnswersMeant, Exists, RowFree, NoRow, NoJob, NoCall, NoInstance
<1>15. ASSUME RemoveStops PROVE AnswersMeant'
  BY <1>15 DEF RemoveStops, StopInstance, proxyVars, rowVars, serverVars, runtimeVars, ProxiesTyped,
      RowsLocked, AnswersMeant, Exists, RowFree, NoRow, NoJob, NoCall, NoInstance
<1>16. ASSUME DeleteRow PROVE AnswersMeant'
  BY <1>16 DEF DeleteRow, proxyVars, rowVars, serverVars, runtimeVars, ProxiesTyped, RowsLocked,
      AnswersMeant, Exists, RowFree, NoRow, NoJob, NoCall, NoInstance
<1>17. ASSUME StopDisabled PROVE AnswersMeant'
  BY <1>17 DEF StopDisabled, StopInstance, proxyVars, rowVars, serverVars, runtimeVars,
      ProxiesTyped, RowsLocked, AnswersMeant, Exists, RowFree, NoRow, NoJob, NoCall, NoInstance
<1>18. ASSUME AskStatus PROVE AnswersMeant'
  <2>1. PICK p \in Proxy :
          /\ job'[p].pc \in {"restore", "apply"} /\ job'[p].reply = "none"
          /\ job'[p].pc = "apply" => call'[p].revision = row[p].revision
          /\ call'[p] # NoCall
          /\ \A q \in Proxy : q # p => job'[q] = job[q] /\ call'[q] = call[q]
    BY <1>18, StatusAsks
  <2> QED BY <1>18, <2>1 DEF AskStatus, AnswersMeant, rowVars
<1>19. ASSUME Restored PROVE AnswersMeant'
  BY <1>19 DEF Restored, AskRuntime, proxyVars, rowVars, serverVars, runtimeVars, ProxiesTyped,
      RowsLocked, AnswersMeant, Exists, RowFree, NoRow, NoJob, NoCall, NoInstance
<1>20. ASSUME Record PROVE AnswersMeant'
  BY <1>20 DEF Record, proxyVars, rowVars, serverVars, runtimeVars, ProxiesTyped, RowsLocked,
      AnswersMeant, Exists, RowFree, NoRow, NoJob, NoCall, NoInstance
<1>21. ASSUME Refuse PROVE AnswersMeant'
  BY <1>21 DEF Refuse, Reply, Calling, proxyVars, rowVars, serverVars, runtimeVars, ProxiesTyped,
      RowsLocked, AnswersMeant, Exists, RowFree, NoRow, NoJob, NoCall, NoInstance
<1>22. ASSUME AlreadyRunning PROVE AnswersMeant'
  BY <1>22 DEF AlreadyRunning, Reply, NotRefused, Calling, Current, proxyVars, rowVars, serverVars,
      runtimeVars, ProxiesTyped, RowsLocked, AnswersMeant, Exists, RowFree, NoRow, NoJob, NoCall,
      NoInstance
<1>23. ASSUME NoRoom PROVE AnswersMeant'
  BY <1>23 DEF NoRoom, Reply, NotRefused, Calling, proxyVars, rowVars, serverVars, runtimeVars,
      ProxiesTyped, RowsLocked, AnswersMeant, Exists, RowFree, NoRow, NoJob, NoCall, NoInstance
<1>24. ASSUME Launch PROVE AnswersMeant'
  BY <1>24 DEF Launch, NotRefused, Calling, proxyVars, rowVars, serverVars, runtimeVars,
      ProxiesTyped, RowsLocked, AnswersMeant, Exists, RowFree, NoRow, NoJob, NoCall, NoInstance
<1>25. ASSUME Launched PROVE AnswersMeant'
  BY <1>25 DEF Launched, Reply, proxyVars, rowVars, serverVars, runtimeVars, ProxiesTyped,
      RowsLocked, AnswersMeant, Exists, RowFree, NoRow, NoJob, NoCall, NoInstance
<1>26. ASSUME LaunchFails PROVE AnswersMeant'
  BY <1>26 DEF LaunchFails, Reply, proxyVars, rowVars, serverVars, runtimeVars, ProxiesTyped,
      RowsLocked, AnswersMeant, Exists, RowFree, NoRow, NoJob, NoCall, NoInstance
<1>27. ASSUME Abandon PROVE AnswersMeant'
  BY <1>27 DEF Abandon, proxyVars, rowVars, serverVars, runtimeVars, ProxiesTyped, RowsLocked,
      AnswersMeant, Exists, RowFree, NoRow, NoJob, NoCall, NoInstance
<1>28. ASSUME Drained PROVE AnswersMeant'
  BY <1>28 DEF Drained, proxyVars, rowVars, serverVars, runtimeVars, ProxiesTyped, RowsLocked,
      AnswersMeant, Exists, RowFree, NoRow, NoJob, NoCall, NoInstance
<1>29. ASSUME BackoffEnds PROVE AnswersMeant'
  BY <1>29 DEF BackoffEnds, proxyVars, rowVars, serverVars, runtimeVars, ProxiesTyped, RowsLocked,
      AnswersMeant, Exists, RowFree, NoRow, NoJob, NoCall, NoInstance
<1>30. ASSUME JobFails PROVE AnswersMeant'
  BY <1>30 DEF JobFails, proxyVars, rowVars, serverVars, runtimeVars, ProxiesTyped, RowsLocked,
      AnswersMeant, Exists, RowFree, NoRow, NoJob, NoCall, NoInstance
<1>31. ASSUME ServerRestarts PROVE AnswersMeant'
  BY <1>31 DEF ServerRestarts, proxyVars, rowVars, serverVars, runtimeVars, ProxiesTyped,
      RowsLocked, AnswersMeant, Exists, RowFree, NoRow, NoJob, NoCall, NoInstance
<1>32. ASSUME InstanceExits PROVE AnswersMeant'
  BY <1>32 DEF InstanceExits, proxyVars, rowVars, serverVars, runtimeVars, ProxiesTyped, RowsLocked,
      AnswersMeant, Exists, RowFree, NoRow, NoJob, NoCall, NoInstance
<1>33. ASSUME RuntimeRestarts PROVE AnswersMeant'
  BY <1>33 DEF RuntimeRestarts, proxyVars, rowVars, serverVars, runtimeVars, ProxiesTyped,
      RowsLocked, AnswersMeant, Exists, RowFree, NoRow, NoJob, NoCall, NoInstance
<1>34. ASSUME UNCHANGED proxyVars PROVE AnswersMeant'
  BY <1>34 DEF proxyVars, rowVars, serverVars, runtimeVars, ProxiesTyped, RowsLocked, AnswersMeant,
      Exists, RowFree, NoRow, NoJob, NoCall, NoInstance
<1> QED BY <1>1, <1>2, <1>3, <1>4, <1>5, <1>6, <1>7, <1>8, <1>9, <1>10, <1>11, <1>12, <1>13,
    <1>14, <1>15, <1>16, <1>17, <1>18, <1>19, <1>20, <1>21, <1>22, <1>23, <1>24, <1>25, <1>26,
    <1>27, <1>28, <1>29, <1>30, <1>31, <1>32, <1>33, <1>34 DEF ProxiesNext, EditorStep,
    ServerStep, RuntimeStep, ProxyFaultStep

\* What the policy, the subscriptions and the node refer to stays as it was promised.
LEMMA ReferencesKept ==
  ASSUME ProxiesTyped, RowsLocked, ReferencesHold, ProxiesNext \/ UNCHANGED proxyVars
  PROVE  ReferencesHold'
<1> USE ProxyAssumption
<1>1. ASSUME CreateProxy PROVE ReferencesHold'
  BY <1>1 DEF CreateProxy, RowFree, proxyVars, rowVars, serverVars, runtimeVars, ProxiesTyped,
      RowsLocked, ReferencesHold, Exists, NoRow, NoJob, NoEdit
<1>2. ASSUME ReadContent PROVE ReferencesHold'
  BY <1>2 DEF ReadContent, proxyVars, rowVars, serverVars, runtimeVars, ProxiesTyped, RowsLocked,
      ReferencesHold, Exists, RowFree, NoRow, NoJob, NoEdit
<1>3. ASSUME UpdateProxy PROVE ReferencesHold'
  <2>1. UNCHANGED <<node, role, references, used>> BY <1>3 DEF UpdateProxy
  <2>2. \A p \in Proxy : Exists(p) => Exists(p)' BY <1>3, Edited DEF Exists
  <2>3. ASSUME NEW p \in Proxy, Exists(p)', row'[p].bound PROVE row'[p].content = node
    BY <1>3, <2>3, Edited DEF RowsLocked, ReferencesHold, Exists
  <2> QED BY <2>1, <2>2, <2>3 DEF ReferencesHold, ProxiesTyped
<1>4. ASSUME Switch PROVE ReferencesHold'
  BY <1>4 DEF Switch, RowFree, proxyVars, rowVars, serverVars, runtimeVars, ProxiesTyped,
      RowsLocked, ReferencesHold, Exists, NoRow, NoJob, NoEdit
<1>5. ASSUME UpdateNode PROVE ReferencesHold'
  <2>1. UNCHANGED <<role, references, used>> BY <1>5 DEF UpdateNode
  <2>2. \A p \in Proxy : Exists(p) => Exists(p)' BY <1>5, NodeEdited DEF Exists
  <2>3. ASSUME NEW p \in Proxy, Exists(p)', row'[p].bound PROVE row'[p].content = node'
    BY <1>5, <2>3, NodeEdited DEF Exists
  <2> QED BY <2>1, <2>2, <2>3 DEF ReferencesHold, ProxiesTyped
<1>6. ASSUME SaveSource PROVE ReferencesHold'
  BY <1>6 DEF SaveSource, proxyVars, rowVars, serverVars, runtimeVars, ProxiesTyped, RowsLocked,
      ReferencesHold, Exists, RowFree, NoRow, NoJob, NoEdit
<1>7. ASSUME CheckPolicy PROVE ReferencesHold'
  BY <1>7 DEF CheckPolicy, proxyVars, rowVars, serverVars, runtimeVars, ProxiesTyped, RowsLocked,
      ReferencesHold, Exists, RowFree, NoRow, NoJob, NoEdit
<1>8. ASSUME SavePolicy PROVE ReferencesHold'
  BY <1>8 DEF SavePolicy, proxyVars, rowVars, serverVars, runtimeVars, ProxiesTyped, RowsLocked,
      ReferencesHold, Exists, RowFree, NoRow, NoJob, NoEdit
<1>9. ASSUME ClearPolicy PROVE ReferencesHold'
  BY <1>9 DEF ClearPolicy, proxyVars, rowVars, serverVars, runtimeVars, ProxiesTyped, RowsLocked,
      ReferencesHold, Exists, RowFree, NoRow, NoJob, NoEdit
<1>10. ASSUME ChangeRole PROVE ReferencesHold'
  BY <1>10 DEF ChangeRole, Owned, OwnerFree, proxyVars, rowVars, serverVars, runtimeVars,
      ProxiesTyped, RowsLocked, ReferencesHold, Exists, RowFree, NoRow, NoJob, NoEdit
<1>11. ASSUME DeleteOwner PROVE ReferencesHold'
  BY <1>11 DEF DeleteOwner, Owned, OwnerFree, proxyVars, rowVars, serverVars, runtimeVars,
      ProxiesTyped, RowsLocked, ReferencesHold, Exists, RowFree, NoRow, NoJob, NoEdit
<1>12. ASSUME RemoveProxy PROVE ReferencesHold'
  BY <1>12 DEF RemoveProxy, RowFree, proxyVars, rowVars, serverVars, runtimeVars, ProxiesTyped,
      RowsLocked, ReferencesHold, Exists, NoRow, NoJob, NoEdit
<1>13. ASSUME TakeScheduled PROVE ReferencesHold'
  BY <1>13 DEF TakeScheduled, Take, proxyVars, rowVars, serverVars, runtimeVars, ProxiesTyped,
      RowsLocked, ReferencesHold, Exists, RowFree, NoRow, NoJob, NoEdit
<1>14. ASSUME TakeNext PROVE ReferencesHold'
  BY <1>14 DEF TakeNext, Visit, Take, proxyVars, rowVars, serverVars, runtimeVars, ProxiesTyped,
      RowsLocked, ReferencesHold, Exists, RowFree, NoRow, NoJob, NoEdit
<1>15. ASSUME RemoveStops PROVE ReferencesHold'
  BY <1>15 DEF RemoveStops, StopInstance, proxyVars, rowVars, serverVars, runtimeVars, ProxiesTyped,
      RowsLocked, ReferencesHold, Exists, RowFree, NoRow, NoJob, NoEdit
<1>16. ASSUME DeleteRow PROVE ReferencesHold'
  BY <1>16 DEF DeleteRow, proxyVars, rowVars, serverVars, runtimeVars, ProxiesTyped, RowsLocked,
      ReferencesHold, Exists, RowFree, NoRow, NoJob, NoEdit
<1>17. ASSUME StopDisabled PROVE ReferencesHold'
  BY <1>17 DEF StopDisabled, StopInstance, proxyVars, rowVars, serverVars, runtimeVars,
      ProxiesTyped, RowsLocked, ReferencesHold, Exists, RowFree, NoRow, NoJob, NoEdit
<1>18. ASSUME AskStatus PROVE ReferencesHold'
  BY <1>18 DEF AskStatus, AskRuntime, proxyVars, rowVars, serverVars, runtimeVars, ProxiesTyped,
      RowsLocked, ReferencesHold, Exists, RowFree, NoRow, NoJob, NoEdit
<1>19. ASSUME Restored PROVE ReferencesHold'
  BY <1>19 DEF Restored, AskRuntime, proxyVars, rowVars, serverVars, runtimeVars, ProxiesTyped,
      RowsLocked, ReferencesHold, Exists, RowFree, NoRow, NoJob, NoEdit
<1>20. ASSUME Record PROVE ReferencesHold'
  BY <1>20 DEF Record, proxyVars, rowVars, serverVars, runtimeVars, ProxiesTyped, RowsLocked,
      ReferencesHold, Exists, RowFree, NoRow, NoJob, NoEdit
<1>21. ASSUME Refuse PROVE ReferencesHold'
  BY <1>21 DEF Refuse, Reply, Calling, proxyVars, rowVars, serverVars, runtimeVars, ProxiesTyped,
      RowsLocked, ReferencesHold, Exists, RowFree, NoRow, NoJob, NoEdit
<1>22. ASSUME AlreadyRunning PROVE ReferencesHold'
  BY <1>22 DEF AlreadyRunning, Reply, NotRefused, Calling, Current, proxyVars, rowVars, serverVars,
      runtimeVars, ProxiesTyped, RowsLocked, ReferencesHold, Exists, RowFree, NoRow, NoJob, NoEdit
<1>23. ASSUME NoRoom PROVE ReferencesHold'
  BY <1>23 DEF NoRoom, Reply, NotRefused, Calling, proxyVars, rowVars, serverVars, runtimeVars,
      ProxiesTyped, RowsLocked, ReferencesHold, Exists, RowFree, NoRow, NoJob, NoEdit
<1>24. ASSUME Launch PROVE ReferencesHold'
  BY <1>24 DEF Launch, NotRefused, Calling, proxyVars, rowVars, serverVars, runtimeVars,
      ProxiesTyped, RowsLocked, ReferencesHold, Exists, RowFree, NoRow, NoJob, NoEdit
<1>25. ASSUME Launched PROVE ReferencesHold'
  BY <1>25 DEF Launched, Reply, proxyVars, rowVars, serverVars, runtimeVars, ProxiesTyped,
      RowsLocked, ReferencesHold, Exists, RowFree, NoRow, NoJob, NoEdit
<1>26. ASSUME LaunchFails PROVE ReferencesHold'
  BY <1>26 DEF LaunchFails, Reply, proxyVars, rowVars, serverVars, runtimeVars, ProxiesTyped,
      RowsLocked, ReferencesHold, Exists, RowFree, NoRow, NoJob, NoEdit
<1>27. ASSUME Abandon PROVE ReferencesHold'
  BY <1>27 DEF Abandon, proxyVars, rowVars, serverVars, runtimeVars, ProxiesTyped, RowsLocked,
      ReferencesHold, Exists, RowFree, NoRow, NoJob, NoEdit
<1>28. ASSUME Drained PROVE ReferencesHold'
  BY <1>28 DEF Drained, proxyVars, rowVars, serverVars, runtimeVars, ProxiesTyped, RowsLocked,
      ReferencesHold, Exists, RowFree, NoRow, NoJob, NoEdit
<1>29. ASSUME BackoffEnds PROVE ReferencesHold'
  BY <1>29 DEF BackoffEnds, proxyVars, rowVars, serverVars, runtimeVars, ProxiesTyped, RowsLocked,
      ReferencesHold, Exists, RowFree, NoRow, NoJob, NoEdit
<1>30. ASSUME JobFails PROVE ReferencesHold'
  BY <1>30 DEF JobFails, proxyVars, rowVars, serverVars, runtimeVars, ProxiesTyped, RowsLocked,
      ReferencesHold, Exists, RowFree, NoRow, NoJob, NoEdit
<1>31. ASSUME ServerRestarts PROVE ReferencesHold'
  BY <1>31 DEF ServerRestarts, proxyVars, rowVars, serverVars, runtimeVars, ProxiesTyped,
      RowsLocked, ReferencesHold, Exists, RowFree, NoRow, NoJob, NoEdit
<1>32. ASSUME InstanceExits PROVE ReferencesHold'
  BY <1>32 DEF InstanceExits, proxyVars, rowVars, serverVars, runtimeVars, ProxiesTyped, RowsLocked,
      ReferencesHold, Exists, RowFree, NoRow, NoJob, NoEdit
<1>33. ASSUME RuntimeRestarts PROVE ReferencesHold'
  BY <1>33 DEF RuntimeRestarts, proxyVars, rowVars, serverVars, runtimeVars, ProxiesTyped,
      RowsLocked, ReferencesHold, Exists, RowFree, NoRow, NoJob, NoEdit
<1>34. ASSUME UNCHANGED proxyVars PROVE ReferencesHold'
  BY <1>34 DEF proxyVars, rowVars, serverVars, runtimeVars, ProxiesTyped, RowsLocked,
      ReferencesHold, Exists, RowFree, NoRow, NoJob, NoEdit
<1> QED BY <1>1, <1>2, <1>3, <1>4, <1>5, <1>6, <1>7, <1>8, <1>9, <1>10, <1>11, <1>12, <1>13,
    <1>14, <1>15, <1>16, <1>17, <1>18, <1>19, <1>20, <1>21, <1>22, <1>23, <1>24, <1>25, <1>26,
    <1>27, <1>28, <1>29, <1>30, <1>31, <1>32, <1>33, <1>34 DEF ProxiesNext, EditorStep,
    ServerStep, RuntimeStep, ProxyFaultStep

\* A revision is recorded as active after its runtime took it.
LEMMA ActiveKept ==
  ASSUME ProxiesTyped, RowsLocked, AnswersMeant, ActiveAccepted, ProxiesNext \/ UNCHANGED proxyVars
  PROVE  ActiveAccepted'
<1> USE ProxyAssumption
<1>1. ASSUME CreateProxy PROVE ActiveAccepted'
  BY <1>1 DEF CreateProxy, RowFree, proxyVars, rowVars, serverVars, runtimeVars, ProxiesTyped,
      RowsLocked, AnswersMeant, ActiveAccepted, Exists, NoRow, NoJob
<1>2. ASSUME ReadContent PROVE ActiveAccepted'
  BY <1>2 DEF ReadContent, proxyVars, rowVars, serverVars, runtimeVars, ProxiesTyped, RowsLocked,
      AnswersMeant, ActiveAccepted, Exists, RowFree, NoRow, NoJob
<1>3. ASSUME UpdateProxy PROVE ActiveAccepted'
  <2>1. UNCHANGED accepted BY <1>3 DEF UpdateProxy, runtimeVars
  <2>2. \A p \in Proxy : Exists(p)' => Exists(p) /\ row'[p].active = row[p].active
    BY <1>3, Edited DEF Exists
  <2> QED BY <2>1, <2>2 DEF ActiveAccepted
<1>4. ASSUME Switch PROVE ActiveAccepted'
  BY <1>4 DEF Switch, RowFree, proxyVars, rowVars, serverVars, runtimeVars, ProxiesTyped,
      RowsLocked, AnswersMeant, ActiveAccepted, Exists, NoRow, NoJob
<1>5. ASSUME UpdateNode PROVE ActiveAccepted'
  <2>1. UNCHANGED accepted BY <1>5 DEF UpdateNode, runtimeVars
  <2>2. \A p \in Proxy : Exists(p)' => Exists(p) /\ row'[p].active = row[p].active
    BY <1>5, NodeEdited DEF Exists
  <2> QED BY <2>1, <2>2 DEF ActiveAccepted
<1>6. ASSUME SaveSource PROVE ActiveAccepted'
  BY <1>6 DEF SaveSource, proxyVars, rowVars, serverVars, runtimeVars, ProxiesTyped, RowsLocked,
      AnswersMeant, ActiveAccepted, Exists, RowFree, NoRow, NoJob
<1>7. ASSUME CheckPolicy PROVE ActiveAccepted'
  BY <1>7 DEF CheckPolicy, proxyVars, rowVars, serverVars, runtimeVars, ProxiesTyped, RowsLocked,
      AnswersMeant, ActiveAccepted, Exists, RowFree, NoRow, NoJob
<1>8. ASSUME SavePolicy PROVE ActiveAccepted'
  BY <1>8 DEF SavePolicy, proxyVars, rowVars, serverVars, runtimeVars, ProxiesTyped, RowsLocked,
      AnswersMeant, ActiveAccepted, Exists, RowFree, NoRow, NoJob
<1>9. ASSUME ClearPolicy PROVE ActiveAccepted'
  BY <1>9 DEF ClearPolicy, proxyVars, rowVars, serverVars, runtimeVars, ProxiesTyped, RowsLocked,
      AnswersMeant, ActiveAccepted, Exists, RowFree, NoRow, NoJob
<1>10. ASSUME ChangeRole PROVE ActiveAccepted'
  BY <1>10 DEF ChangeRole, Owned, OwnerFree, proxyVars, rowVars, serverVars, runtimeVars,
      ProxiesTyped, RowsLocked, AnswersMeant, ActiveAccepted, Exists, RowFree, NoRow, NoJob
<1>11. ASSUME DeleteOwner PROVE ActiveAccepted'
  BY <1>11 DEF DeleteOwner, Owned, OwnerFree, proxyVars, rowVars, serverVars, runtimeVars,
      ProxiesTyped, RowsLocked, AnswersMeant, ActiveAccepted, Exists, RowFree, NoRow, NoJob
<1>12. ASSUME RemoveProxy PROVE ActiveAccepted'
  BY <1>12 DEF RemoveProxy, RowFree, proxyVars, rowVars, serverVars, runtimeVars, ProxiesTyped,
      RowsLocked, AnswersMeant, ActiveAccepted, Exists, NoRow, NoJob
<1>13. ASSUME TakeScheduled PROVE ActiveAccepted'
  BY <1>13 DEF TakeScheduled, Take, proxyVars, rowVars, serverVars, runtimeVars, ProxiesTyped,
      RowsLocked, AnswersMeant, ActiveAccepted, Exists, RowFree, NoRow, NoJob
<1>14. ASSUME TakeNext PROVE ActiveAccepted'
  BY <1>14 DEF TakeNext, Visit, Take, proxyVars, rowVars, serverVars, runtimeVars, ProxiesTyped,
      RowsLocked, AnswersMeant, ActiveAccepted, Exists, RowFree, NoRow, NoJob
<1>15. ASSUME RemoveStops PROVE ActiveAccepted'
  BY <1>15 DEF RemoveStops, StopInstance, proxyVars, rowVars, serverVars, runtimeVars, ProxiesTyped,
      RowsLocked, AnswersMeant, ActiveAccepted, Exists, RowFree, NoRow, NoJob
<1>16. ASSUME DeleteRow PROVE ActiveAccepted'
  BY <1>16 DEF DeleteRow, proxyVars, rowVars, serverVars, runtimeVars, ProxiesTyped, RowsLocked,
      AnswersMeant, ActiveAccepted, Exists, RowFree, NoRow, NoJob
<1>17. ASSUME StopDisabled PROVE ActiveAccepted'
  BY <1>17 DEF StopDisabled, StopInstance, proxyVars, rowVars, serverVars, runtimeVars,
      ProxiesTyped, RowsLocked, AnswersMeant, ActiveAccepted, Exists, RowFree, NoRow, NoJob
<1>18. ASSUME AskStatus PROVE ActiveAccepted'
  BY <1>18 DEF AskStatus, AskRuntime, proxyVars, rowVars, serverVars, runtimeVars, ProxiesTyped,
      RowsLocked, AnswersMeant, ActiveAccepted, Exists, RowFree, NoRow, NoJob
<1>19. ASSUME Restored PROVE ActiveAccepted'
  BY <1>19 DEF Restored, AskRuntime, proxyVars, rowVars, serverVars, runtimeVars, ProxiesTyped,
      RowsLocked, AnswersMeant, ActiveAccepted, Exists, RowFree, NoRow, NoJob
<1>20. ASSUME Record PROVE ActiveAccepted'
  BY <1>20 DEF Record, proxyVars, rowVars, serverVars, runtimeVars, ProxiesTyped, RowsLocked,
      AnswersMeant, ActiveAccepted, Exists, RowFree, NoRow, NoJob
<1>21. ASSUME Refuse PROVE ActiveAccepted'
  BY <1>21 DEF Refuse, Reply, Calling, proxyVars, rowVars, serverVars, runtimeVars, ProxiesTyped,
      RowsLocked, AnswersMeant, ActiveAccepted, Exists, RowFree, NoRow, NoJob
<1>22. ASSUME AlreadyRunning PROVE ActiveAccepted'
  BY <1>22 DEF AlreadyRunning, Reply, NotRefused, Calling, Current, proxyVars, rowVars, serverVars,
      runtimeVars, ProxiesTyped, RowsLocked, AnswersMeant, ActiveAccepted, Exists, RowFree, NoRow,
      NoJob
<1>23. ASSUME NoRoom PROVE ActiveAccepted'
  BY <1>23 DEF NoRoom, Reply, NotRefused, Calling, proxyVars, rowVars, serverVars, runtimeVars,
      ProxiesTyped, RowsLocked, AnswersMeant, ActiveAccepted, Exists, RowFree, NoRow, NoJob
<1>24. ASSUME Launch PROVE ActiveAccepted'
  BY <1>24 DEF Launch, NotRefused, Calling, proxyVars, rowVars, serverVars, runtimeVars,
      ProxiesTyped, RowsLocked, AnswersMeant, ActiveAccepted, Exists, RowFree, NoRow, NoJob
<1>25. ASSUME Launched PROVE ActiveAccepted'
  BY <1>25 DEF Launched, Reply, proxyVars, rowVars, serverVars, runtimeVars, ProxiesTyped,
      RowsLocked, AnswersMeant, ActiveAccepted, Exists, RowFree, NoRow, NoJob
<1>26. ASSUME LaunchFails PROVE ActiveAccepted'
  BY <1>26 DEF LaunchFails, Reply, proxyVars, rowVars, serverVars, runtimeVars, ProxiesTyped,
      RowsLocked, AnswersMeant, ActiveAccepted, Exists, RowFree, NoRow, NoJob
<1>27. ASSUME Abandon PROVE ActiveAccepted'
  BY <1>27 DEF Abandon, proxyVars, rowVars, serverVars, runtimeVars, ProxiesTyped, RowsLocked,
      AnswersMeant, ActiveAccepted, Exists, RowFree, NoRow, NoJob
<1>28. ASSUME Drained PROVE ActiveAccepted'
  BY <1>28 DEF Drained, proxyVars, rowVars, serverVars, runtimeVars, ProxiesTyped, RowsLocked,
      AnswersMeant, ActiveAccepted, Exists, RowFree, NoRow, NoJob
<1>29. ASSUME BackoffEnds PROVE ActiveAccepted'
  BY <1>29 DEF BackoffEnds, proxyVars, rowVars, serverVars, runtimeVars, ProxiesTyped, RowsLocked,
      AnswersMeant, ActiveAccepted, Exists, RowFree, NoRow, NoJob
<1>30. ASSUME JobFails PROVE ActiveAccepted'
  BY <1>30 DEF JobFails, proxyVars, rowVars, serverVars, runtimeVars, ProxiesTyped, RowsLocked,
      AnswersMeant, ActiveAccepted, Exists, RowFree, NoRow, NoJob
<1>31. ASSUME ServerRestarts PROVE ActiveAccepted'
  BY <1>31 DEF ServerRestarts, proxyVars, rowVars, serverVars, runtimeVars, ProxiesTyped,
      RowsLocked, AnswersMeant, ActiveAccepted, Exists, RowFree, NoRow, NoJob
<1>32. ASSUME InstanceExits PROVE ActiveAccepted'
  BY <1>32 DEF InstanceExits, proxyVars, rowVars, serverVars, runtimeVars, ProxiesTyped, RowsLocked,
      AnswersMeant, ActiveAccepted, Exists, RowFree, NoRow, NoJob
<1>33. ASSUME RuntimeRestarts PROVE ActiveAccepted'
  BY <1>33 DEF RuntimeRestarts, proxyVars, rowVars, serverVars, runtimeVars, ProxiesTyped,
      RowsLocked, AnswersMeant, ActiveAccepted, Exists, RowFree, NoRow, NoJob
<1>34. ASSUME UNCHANGED proxyVars PROVE ActiveAccepted'
  BY <1>34 DEF proxyVars, rowVars, serverVars, runtimeVars, ProxiesTyped, RowsLocked, AnswersMeant,
      ActiveAccepted, Exists, RowFree, NoRow, NoJob
<1> QED BY <1>1, <1>2, <1>3, <1>4, <1>5, <1>6, <1>7, <1>8, <1>9, <1>10, <1>11, <1>12, <1>13,
    <1>14, <1>15, <1>16, <1>17, <1>18, <1>19, <1>20, <1>21, <1>22, <1>23, <1>24, <1>25, <1>26,
    <1>27, <1>28, <1>29, <1>30, <1>31, <1>32, <1>33, <1>34 DEF ProxiesNext, EditorStep,
    ServerStep, RuntimeStep, ProxyFaultStep

\* The policy names enabled proxies of administrators, a subscription names rows that exist, bound
\* rows have the node's content (save_policy, the triggers and remove), and the revision recorded
\* as active is one the runtime took (reconcile), whatever fails or restarts.  For any number of
\* proxies, accounts and configurations.
THEOREM RowsAlwaysAgree == ProxiesSpec => []RowsAgree
<1>1. ProxiesInit => ProxiesInv
  <2> SUFFICES ASSUME ProxiesInit PROVE ProxiesInv OBVIOUS
  <2>1. \A p \in Proxy : /\ row[p] = NoRow /\ job[p] = NoJob /\ call[p] = NoCall
                         /\ instance[p] = NoInstance
    BY DEF ProxiesInit
  <2>2. ~NoEdit.bound /\ ~NoInstance.alive /\ NoRow.revision = 0 /\ NoJob.pc = "none"
        /\ NoJob \in Job /\ NoInstance \in [revision : Nat, alive : BOOLEAN]
    BY DEF NoEdit, NoInstance, NoRow, NoJob, Job
  <2>3. ProxiesTyped BY <2>2 DEF ProxiesInit, ProxiesTyped
  <2>4. RowsLocked BY <2>1, <2>2 DEF ProxiesInit, RowsLocked
  <2>5. AnswersMeant BY <2>1, <2>2 DEF ProxiesInit, AnswersMeant
  <2>6. ReferencesHold /\ ActiveAccepted
    BY <2>1, <2>2 DEF ProxiesInit, ReferencesHold, ActiveAccepted, Exists
  <2> QED BY <2>3, <2>4, <2>5, <2>6 DEF ProxiesInv
<1>2. ProxiesInv /\ [ProxiesNext]_proxyVars => ProxiesInv'
  BY ProxiesTypesKept, LocksKept, AnswersKept, ReferencesKept, ActiveKept DEF ProxiesInv
<1>3. ProxiesInv => RowsAgree BY DEF ProxiesInv, RowsAgree
<1> QED BY <1>1, <1>2, <1>3, PTL DEF ProxiesSpec

(***************************************************************************)
(* DNS settings.  Whoever holds the gate owes the agreement that others    *)
(* may look for: the stages of a publication keep what undoing it needs.   *)
(***************************************************************************)
RuleFiles == [RuleSet -> Domains]
Compiled == [shape : Shape, rules : RuleFiles]
Recorded == {Nothing} \cup Compiled
Answers == [shape : Shape, rules : RuleFiles, upstream : Upstream, servers : Server]
Frontends == {Nothing} \cup Answers
Publishing == {"publish", "commit", "save", "undo", "restore"}
Publications ==
    [pc : Publishing, candidate : Settings, old : RuleFiles, before : Frontends,
     rest : SUBSET RuleSet, published : SUBSET RuleSet, committed : BOOLEAN]
SetterStates ==
    [pc : {"idle", "close"}]
    \cup [pc : {"gate", "upstream", "saveUpstream", "replace"}, candidate : Settings]
    \cup Publications
TunnelRequests == [pc : {"rules", "save"}, servers : Server, before : Frontends]
TunnelerStates == [pc : {"idle", "close"}] \cup TunnelRequests

DnsTyped ==
    /\ settings \in Settings /\ servers \in Server
    /\ deployed \in Compiled /\ owed \in BOOLEAN
    /\ core \in {"down", "starting", "up"} /\ cycle \in {"down", "up"} \cup Starting
    /\ files \in RuleFiles /\ snapshot \in Recorded /\ frontend \in Frontends
    /\ gate \in {"free", "setter", "tunneler", "starter", "cycle"}
    /\ lease \in {"free", "setter", "starter"}
    /\ setter \in SetterStates /\ tunneler \in TunnelerStates
    /\ starter \in {"idle", "lease", "compiled"} /\ reload \in BOOLEAN
    /\ apart \subseteq {"mark", "files", "frontend"}

\* Who holds the gate is at a stage that needs it, and nobody else is.
GateHeld ==
    /\ setter.pc \notin {"idle", "gate"} <=> gate = "setter"
    /\ tunneler.pc # "idle" <=> gate = "tunneler"
    /\ starter # "idle" <=> gate = "starter"
    /\ cycle \in Starting <=> gate = "cycle"
    /\ core = "up" <=> cycle = "up"

\* An answer of the frontend that may be left where others look.
Answerable(f) ==
    \/ "frontend" \in apart \/ f = Nothing \/ f = Built(settings, servers)
    \/ Owes /\ f.servers = servers
\* What a rollback puts back, unless the frontend was stopped meanwhile.
Returnable(f) == frontend = Nothing \/ Answerable(f)
Previewed == Built(setter.candidate, servers)

FrontendFollows ==
    /\ /\ setter.pc \in {"idle", "gate", "upstream", "replace", "publish", "close"}
       /\ tunneler.pc # "save"
       => Answerable(frontend)
    /\ setter.pc \in {"upstream", "saveUpstream"}
       => ForCore(settings) = ForCore(setter.candidate)
    /\ setter.pc = "saveUpstream" =>
         \/ "frontend" \in apart \/ frontend = Nothing \/ frontend = Previewed
         \/ Owes /\ frontend.servers = servers
    /\ setter.pc \in {"commit", "save"} =>
         /\ frontend = Nothing \/ frontend = Previewed
         /\ Returnable(setter.before)
         /\ setter.before = Nothing => frontend = Nothing
    /\ setter.pc \in {"undo", "restore"} =>
         /\ Returnable(setter.before)
         /\ setter.before = Nothing => Answerable(frontend)
    /\ tunneler.pc = "save" =>
         /\ frontend = Nothing \/ frontend = Built(settings, tunneler.servers)
         /\ Returnable(tunneler.before)
         /\ tunneler.before = Nothing => frontend = Nothing
    /\ cycle = "observe" => frontend = Built(settings, servers)

FilesFollow ==
    core = "up" /\ snapshot # Nothing /\ "files" \notin apart =>
        files = snapshot.rules /\ (Owes \/ files = settings.rules)
\* What undoing the publication needs: the old files, as far as they are written over.
Undoable ==
    /\ snapshot # Nothing /\ setter.candidate.shape = settings.shape
    /\ "files" \in apart \/ Owes \/ setter.old = settings.rules
    /\ \A r \in RuleSet \ setter.published : files[r] = setter.old[r]
    /\ ~setter.committed => snapshot.rules = setter.old

PublicationFollows ==
    /\ setter.pc \notin {"publish", "commit", "save", "undo"} => FilesFollow
    /\ setter.pc \in {"publish", "commit", "save", "undo"} => Undoable
    /\ setter.pc = "publish" =>
         /\ \A r \in RuleSet \ setter.rest : files[r] = setter.candidate.rules[r]
         /\ ~setter.committed /\ setter.before = Nothing
    /\ setter.pc \in {"commit", "save"} => files = setter.candidate.rules
    /\ setter.pc = "commit" => ~setter.committed
    /\ setter.pc = "save" => snapshot.rules = files

\* Without a restart owed, the core's configuration has the structure that is stored.
RunFollows ==
    /\ Owes \/ deployed.shape = settings.shape
    /\ cycle \in {"spawn", "activate", "observe"} =>
         files = (IF deployed.shape = settings.shape THEN settings ELSE deployed).rules
    /\ cycle \in {"spawn", "activate", "observe"} /\ snapshot # Nothing => files = snapshot.rules

DnsInv == DnsTyped /\ GateHeld /\ FrontendFollows /\ PublicationFollows /\ RunFollows

LEMMA DnsShapes ==
    ASSUME DnsTyped
    PROVE  /\ setter.pc \in Publishing => setter \in Publications
           /\ setter.pc \in {"gate", "upstream", "saveUpstream", "replace"} =>
                setter.candidate \in Settings
           /\ tunneler.pc \in {"rules", "save"} => tunneler \in TunnelRequests
           /\ settings.rules \in RuleFiles
           /\ \A c \in Settings, v \in Server : Built(c, v) \in Answers
           /\ frontend # Nothing => frontend \in Answers
           /\ snapshot # Nothing => snapshot \in Compiled
BY DnsAssumption DEF DnsTyped, Publishing, SetterStates, Publications, TunnelerStates,
   TunnelRequests, Built, Answers, Frontends, Recorded, Compiled, RuleFiles

\* What a publication goes through.
LEMMA PublicationMoves ==
    ASSUME setter \in Publications
    PROVE  /\ \A p \in Publishing : [setter EXCEPT !.pc = p] \in Publications
           /\ \A p \in Publishing, f \in Frontends :
                [setter EXCEPT !.before = f, !.pc = p] \in Publications
           /\ \A p \in Publishing, b \in BOOLEAN :
                [setter EXCEPT !.committed = b, !.pc = p] \in Publications
           /\ \A r \in RuleSet :
                /\ [setter EXCEPT !.rest = setter.rest \ {r},
                                  !.published = setter.published \cup {r}] \in Publications
                /\ [setter EXCEPT !.published = setter.published \cup {r}, !.pc = "undo"]
                     \in Publications
           /\ setter.rest \subseteq RuleSet /\ setter.candidate.rules \in RuleFiles
BY DnsAssumption DEF Publications, Publishing, RuleFiles

(* Every reachable state is well typed.                                     *)
LEMMA DnsTypesKept ==
    ASSUME DnsTyped, GateHeld, PublicationFollows, DnsNext \/ UNCHANGED dnsVars
    PROVE  DnsTyped'
<1> USE DnsAssumption
<1> USE DEF DnsTyped, dnsVars, storeVars, coreVars, Idle, RuleFiles, Compiled, Recorded,
       Answers, Frontends, Publishing, Publications, SetterStates, TunnelRequests,
       TunnelerStates, Starting, Built, ForCore, Nothing, DnsFault
<1>1. CASE TakeLease
  BY <1>1 DEF TakeLease
<1>2. CASE OpenUpdate
  <2> HIDE DEF Publications, RuleFiles, Answers, Frontends, SetterStates
  <2>1. setter.candidate \in Settings
    BY <1>2, DnsShapes DEF OpenUpdate
  <2>2. setter' \in SetterStates
    <3>1. CASE setter.candidate = settings
      BY <1>2, <3>1 DEF OpenUpdate, SetterStates
    <3>2. ASSUME NEW p \in {"upstream", "replace"}, setter' = [setter EXCEPT !.pc = p]
          PROVE  setter' \in SetterStates
      BY <1>2, <3>2 DEF OpenUpdate, SetterStates, Publications, Publishing
    <3>3. ASSUME setter' = [pc |-> "publish", candidate |-> setter.candidate, old |-> files,
                            before |-> Nothing,
                            rest |-> {r \in RuleSet : files[r] # setter.candidate.rules[r]},
                            published |-> {}, committed |-> FALSE]
          PROVE  setter' \in SetterStates
      BY <2>1, <3>3 DEF SetterStates, Publications, Publishing, Frontends
    <3> QED BY <1>2, <3>1, <3>2, <3>3 DEF OpenUpdate
  <2> QED BY <1>2, <2>2 DEF OpenUpdate, dnsVars, storeVars, coreVars
<1>3. CASE CloseUpdate
  BY <1>3 DEF CloseUpdate
<1>4. CASE UpdateUpstreams
  BY <1>4 DEF UpdateUpstreams
<1>5. CASE SaveUpstream
  BY <1>5 DEF SaveUpstream, PutBack
<1>6. CASE ReplaceForRestart
  <2>1. UNCHANGED <<servers, deployed, core, files, snapshot, cycle, reload, frontend, gate,
                    lease, tunneler, starter>>
    BY <1>6 DEF ReplaceForRestart
  <2>2. settings' \in Settings /\ owed' \in BOOLEAN /\ setter' \in SetterStates
    <3>1. setter.candidate \in Settings
      BY <1>6, DnsShapes DEF ReplaceForRestart
    <3> QED BY <1>6, <3>1 DEF ReplaceForRestart
  <2>3. apart' \subseteq {"mark", "files", "frontend"}
    BY <1>6 DEF ReplaceForRestart
  <2> HIDE DEF SetterStates, TunnelerStates, Frontends, Recorded
  <2> QED BY <2>1, <2>2, <2>3
<1>7. CASE PublishFile
  <2> HIDE DEF Publications, RuleFiles, Answers, Frontends, SetterStates
  <2>1. setter.pc \in Publishing /\ setter \in Publications
    BY <1>7, DnsShapes DEF PublishFile, Publishing
  <2>2. PICK r \in RuleSet :
          /\ files' = [files EXCEPT ![r] = setter.candidate.rules[r]]
          /\ setter' = [setter EXCEPT !.rest = setter.rest \ {r},
                                      !.published = setter.published \cup {r}]
    BY <1>7, <2>1, PublicationMoves DEF PublishFile
  <2>3. files' \in RuleFiles /\ setter' \in Publications
    BY <2>1, <2>2, PublicationMoves DEF RuleFiles
  <2> QED BY <1>7, <2>3 DEF PublishFile, SetterStates, dnsVars, storeVars
<1>8. CASE PublishFails
  <2> HIDE DEF Publications, RuleFiles, Answers, Frontends, SetterStates
  <2>1. setter.pc \in Publishing /\ setter \in Publications
    BY <1>8, DnsShapes DEF PublishFails, Publishing
  <2>2. PICK r \in RuleSet :
          /\ files' \in {files, [files EXCEPT ![r] = setter.candidate.rules[r]]}
          /\ setter' = [setter EXCEPT !.published = setter.published \cup {r}, !.pc = "undo"]
    BY <1>8, <2>1, PublicationMoves DEF PublishFails, Counted
  <2>3. files' \in RuleFiles /\ setter' \in Publications
    BY <2>1, <2>2, PublicationMoves DEF RuleFiles
  <2> QED BY <1>8, <2>3 DEF PublishFails, SetterStates, dnsVars, storeVars
<1>9. CASE CoreFoundGone
  BY <1>9 DEF CoreFoundGone
<1>10. CASE UpdateRules
  <2> HIDE DEF Publications, RuleFiles, Answers, Frontends, SetterStates
  <2>1. setter.pc \in Publishing /\ setter \in Publications
    BY <1>10, DnsShapes DEF UpdateRules, Published, Publishing
  <2>2. setter' \in Publications
    BY <1>10, <2>1, PublicationMoves DEF UpdateRules, Publishing
  <2>3. frontend' \in Frontends
    BY <1>10, <2>1, DnsShapes DEF UpdateRules, Frontends, Publications
  <2> QED BY <1>10, <2>2, <2>3 DEF UpdateRules, SetterStates, dnsVars, storeVars, coreVars
<1>11. CASE UpdateRulesFails
  BY <1>11 DEF UpdateRulesFails, Published
<1>12. CASE CommitSnapshot
  <2> HIDE DEF Publications, RuleFiles, Answers, Frontends, SetterStates
  <2>1. setter.pc \in Publishing /\ setter \in Publications
    BY <1>12, DnsShapes DEF CommitSnapshot, Publishing
  <2>2. setter' \in Publications
    BY <1>12, <2>1, PublicationMoves DEF CommitSnapshot, Publishing
  <2>3. snapshot # Nothing
    BY <1>12 DEF CommitSnapshot, PublicationFollows, Undoable
  <2>4. snapshot' \in Recorded
    BY <1>12, <2>1, <2>3, DnsShapes DEF CommitSnapshot, Recorded, Compiled, Publications, RuleFiles
  <2> QED BY <1>12, <2>2, <2>4 DEF CommitSnapshot, SetterStates, dnsVars, storeVars, coreVars
<1>13. CASE CommitFails
  <2> HIDE DEF Publications, RuleFiles, Answers, Frontends, SetterStates
  <2>1. setter.pc \in Publishing /\ setter \in Publications
    BY <1>13, DnsShapes DEF CommitFails, Publishing
  <2>2. setter' \in Publications
    BY <1>13, <2>1, PublicationMoves DEF CommitFails, Publishing
  <2>3. snapshot # Nothing
    BY <1>13 DEF CommitFails, PublicationFollows, Undoable
  <2>4. snapshot' \in Recorded
    BY <1>13, <2>1, <2>3, DnsShapes DEF CommitFails, Recorded, Compiled, Publications, RuleFiles
  <2> QED BY <1>13, <2>2, <2>4 DEF DnsFault, CommitFails, SetterStates, dnsVars, storeVars, coreVars
<1>14. CASE SaveSettings \/ UndoFiles \/ RestoreRules \/ OpenTunnels
  BY <1>14 DEF SaveSettings, UndoFiles, RestoreRules, RulesBefore, PutBack, OpenTunnels
<1>15. CASE TunnelRules
  <2> HIDE DEF Publications, RuleFiles, Answers, Frontends, SetterStates
  <2>1. tunneler.pc = "rules" /\ tunneler \in TunnelRequests
    BY <1>15, DnsShapes DEF TunnelRules
  <2>2. frontend' \in Frontends
    BY <1>15, <2>1, DnsShapes DEF TunnelRules, TunnelRequests, Frontends
  <2>3. tunneler' \in TunnelerStates
    <3>1. [tunneler EXCEPT !.before = frontend, !.pc = "save"] \in TunnelRequests
      BY <2>1 DEF TunnelRequests
    <3>2. CASE tunneler' = [pc |-> "close"]
      BY <3>2 DEF TunnelerStates
    <3>3. CASE tunneler' = [tunneler EXCEPT !.before = frontend, !.pc = "save"]
      BY <3>1, <3>3 DEF TunnelerStates
    <3> QED BY <1>15, <3>2, <3>3 DEF TunnelRules
  <2> QED BY <1>15, <2>2, <2>3 DEF TunnelRules, dnsVars, storeVars, coreVars
<1>16. CASE SaveTunnels
  <2> HIDE DEF Publications, RuleFiles, Answers, Frontends, SetterStates
  <2>1. tunneler.pc = "save" /\ tunneler \in TunnelRequests
    BY <1>16, DnsShapes DEF SaveTunnels
  <2>2. servers' \in Server /\ frontend' \in Frontends
    BY <1>16, <2>1 DEF SaveTunnels, PutBack, RulesBefore, TunnelRequests
  <2>3. apart' \subseteq {"mark", "files", "frontend"} /\ tunneler' \in TunnelerStates
    BY <1>16 DEF SaveTunnels, PutBack, TunnelerStates
  <2>4. UNCHANGED <<settings, deployed, owed, core, files, snapshot, cycle, reload, gate, lease,
                    setter, starter>>
    BY <1>16 DEF SaveTunnels
  <2> HIDE DEF TunnelerStates, Recorded
  <2> QED BY <2>2, <2>3, <2>4
<1>17. CASE CloseTunnels \/ AskRestart
  <2>1. UNCHANGED <<settings, servers, deployed, owed, apart, core, files, snapshot, cycle, reload,
                    frontend, setter>>
    BY <1>17 DEF CloseTunnels, AskRestart
  <2>2. lease' = lease /\ gate' \in {"free", "starter"} /\ tunneler' \in TunnelerStates
        /\ starter' \in {"idle", "lease", "compiled"}
    BY <1>17 DEF CloseTunnels, AskRestart
  <2> HIDE DEF SetterStates, TunnelerStates, Frontends, Recorded
  <2> QED BY <2>1, <2>2
<1>18. CASE CompileStored
  BY <1>18 DEF CompileStored
<1>19. CASE RestartAsked \/ GiveUpLease
  BY <1>19 DEF RestartAsked, GiveUpLease, LeaseTimesOut
<1>20. CASE BeginRun
  <2> HIDE DEF SetterStates, TunnelerStates, Frontends, Recorded
  <2> QED BY <1>20 DEF BeginRun
<1>21. CASE PreparePlan
  BY <1>21 DEF PreparePlan
<1>22. CASE SpawnCore
  BY <1>22 DEF SpawnCore
<1>23. CASE Promote
  BY <1>23 DEF Promote
<1>24. CASE Healthy
  BY <1>24 DEF Healthy
<1>25. CASE StartFails \/ CoreEnds \/ StopCore \/ UNCHANGED dnsVars
  <2>1. UNCHANGED <<settings, servers, deployed, owed, files, snapshot, reload, lease, setter,
                    tunneler, starter>>
    BY <1>25 DEF StartFails, CoreEnds, StopCore
  <2>2. /\ core' \in {"down", core} /\ cycle' \in {"down", cycle}
        /\ gate' \in {"free", gate} /\ frontend' \in {Nothing, frontend}
        /\ apart' \subseteq apart
    BY <1>25 DEF StartFails, CoreEnds, StopCore
  <2> HIDE DEF SetterStates, TunnelerStates, Answers
  <2> QED BY <2>1, <2>2
<1> QED BY <1>1, <1>2, <1>3, <1>4, <1>5, <1>6, <1>7, <1>8, <1>9, <1>10, <1>11, <1>12, <1>13,
   <1>14, <1>15, <1>16, <1>17, <1>18, <1>19, <1>20, <1>21, <1>22, <1>23, <1>24, <1>25
     DEF DnsNext, SetterStep, TunnelerStep, CycleStep

(* The gate passes from one holder to the next only when it is free.        *)
LEMMA GateKept ==
    ASSUME DnsTyped, GateHeld, DnsNext \/ UNCHANGED dnsVars
    PROVE  GateHeld'
<1> USE DnsAssumption
<1> USE DEF DnsTyped, dnsVars, storeVars, coreVars, Idle, GateHeld, RuleFiles, Compiled,
       Recorded, Answers, Frontends, Publishing, Publications, SetterStates, TunnelRequests,
       TunnelerStates, Starting, DnsFault
<1>1. CASE TakeLease \/ OpenUpdate \/ CloseUpdate \/ UpdateUpstreams \/ SaveUpstream \/
          ReplaceForRestart
  BY <1>1 DEF TakeLease, OpenUpdate, Rebuild, Updatable, CloseUpdate, UpdateUpstreams,
     SaveUpstream, PutBack, ReplaceForRestart
<1>2. CASE PublishFile \/ PublishFails \/ CoreFoundGone \/ UpdateRules \/ UpdateRulesFails \/
          CommitSnapshot
  BY <1>2 DEF PublishFile, PublishFails, Counted, CoreFoundGone, UpdateRules, Published,
     UpdateRulesFails, CommitSnapshot
<1>3. CASE CommitFails
  BY <1>3 DEF CommitFails
<1>4. CASE SaveSettings
  BY <1>4 DEF SaveSettings
<1>5. CASE UndoFiles
  BY <1>5 DEF UndoFiles
<1>6. CASE RestoreRules
  BY <1>6 DEF RestoreRules, RulesBefore, PutBack
<1>7. CASE OpenTunnels
  BY <1>7 DEF OpenTunnels
<1>8. CASE TunnelRules
  <2>1. tunneler.pc = "rules" /\ tunneler \in TunnelRequests
    BY <1>8, DnsShapes DEF TunnelRules
  <2>2. tunneler'.pc # "idle"
    <3>1. CASE tunneler' = [pc |-> "close"]
      BY <3>1
    <3>2. CASE tunneler' = [tunneler EXCEPT !.before = frontend, !.pc = "save"]
      BY <2>1, <3>2 DEF TunnelRequests
    <3> QED BY <1>8, <3>1, <3>2 DEF TunnelRules
  <2> QED BY <1>8, <2>1, <2>2 DEF TunnelRules, GateHeld, storeVars, coreVars
<1>9. CASE SaveTunnels \/ CloseTunnels \/ AskRestart \/ CompileStored \/ RestartAsked \/
          GiveUpLease
  BY <1>9 DEF SaveTunnels, RulesBefore, PutBack, CloseTunnels, AskRestart, CompileStored, RestartAsked,
     GiveUpLease, LeaseTimesOut
<1>10. CASE BeginRun \/ PreparePlan \/ SpawnCore \/ Promote \/ Healthy \/ StartFails
  BY <1>10 DEF BeginRun, PreparePlan, SpawnCore, Promote, Healthy, StartFails
<1>11. CASE CoreEnds \/ StopCore \/ UNCHANGED dnsVars
  BY <1>11 DEF CoreEnds, StopCore
<1> QED BY <1>1, <1>2, <1>3, <1>4, <1>5, <1>6, <1>7, <1>8, <1>9, <1>10, <1>11
     DEF DnsNext, SetterStep, TunnelerStep, CycleStep

(* What the frontend answers with is put back, or follows what is stored.   *)
LEMMA FrontendKept ==
    ASSUME DnsTyped, GateHeld, FrontendFollows, PublicationFollows, RunFollows,
           DnsNext \/ UNCHANGED dnsVars
    PROVE  FrontendFollows'
<1> USE DnsAssumption
<1> USE DEF DnsTyped, dnsVars, storeVars, coreVars, Idle, GateHeld, PublicationFollows,
       FrontendFollows, Answerable, Returnable, Owes, Previewed, Built, ForCore, RuleFiles, Compiled, Recorded,
       Answers, Frontends, Publishing, Publications, SetterStates, TunnelRequests,
       TunnelerStates, Starting, DnsFault
<1>1. CASE TakeLease \/ OpenUpdate \/ CloseUpdate \/ UpdateUpstreams \/ SaveUpstream \/
          ReplaceForRestart
  <2>1. CASE TakeLease
    BY <2>1 DEF TakeLease
  <2>2. CASE OpenUpdate
    <3>1. /\ setter.pc = "gate" /\ gate = "free" /\ gate' = "setter"
          /\ UNCHANGED <<settings, servers, deployed, owed, apart, core, files, snapshot, cycle,
                         reload, frontend, lease, tunneler, starter, dnsFaults>>
      BY <2>2 DEF OpenUpdate
    <3>2. setter'.pc \in {"close", "upstream", "replace", "publish"}
      BY <2>2, <3>1 DEF OpenUpdate
    <3>3. setter'.pc = "upstream" => ForCore(settings) = ForCore(setter'.candidate)
      BY <2>2, <3>1 DEF OpenUpdate, Rebuild
    <3>4. Answerable(frontend) /\ tunneler.pc = "idle" /\ cycle # "observe"
      BY <3>1
    <3> QED BY <3>1, <3>2, <3>3, <3>4
  <2>3. CASE CloseUpdate
    BY <2>3 DEF CloseUpdate
  <2>4. CASE UpdateUpstreams
    BY <2>4 DEF UpdateUpstreams
  <2>5. CASE SaveUpstream
    BY <2>5 DEF SaveUpstream, PutBack
  <2>6. CASE ReplaceForRestart
    BY <2>6 DEF ReplaceForRestart
  <2> QED BY <1>1, <2>1, <2>3, <2>4, <2>5, <2>6, <2>2
<1>2. CASE PublishFile
  BY <1>2 DEF PublishFile
<1>3. CASE PublishFails
  <2>1. setter.pc = "publish" /\ setter \in Publications
    BY <1>3, DnsShapes DEF PublishFails, Publishing
  <2>2. setter'.pc = "undo" /\ setter'.before = setter.before /\ setter.before = Nothing
    BY <1>3, <2>1 DEF PublishFails, Publications, PublicationFollows
  <2> QED BY <1>3, <2>1, <2>2 DEF PublishFails, FrontendFollows, Answerable, Returnable, Owes, Built, GateHeld,
         storeVars, coreVars
<1>4. CASE CoreFoundGone
  <2>1. setter.pc \in {"publish", "commit"} /\ setter \in Publications
    BY <1>4, DnsShapes DEF CoreFoundGone, Publishing
  <2>2. setter'.pc = "undo" /\ setter'.before = setter.before
    BY <1>4, <2>1 DEF CoreFoundGone, Publications
  <2>3. setter.pc = "publish" => setter.before = Nothing
    BY DEF PublicationFollows
  <2> QED BY <1>4, <2>1, <2>2, <2>3 DEF CoreFoundGone, FrontendFollows, Answerable, Returnable, Owes, Built, GateHeld,
         storeVars, coreVars
<1>5. CASE UpdateRules
  BY <1>5 DEF UpdateRules, Published
<1>6. CASE UpdateRulesFails
  <2>1. setter.pc = "publish" /\ setter \in Publications
    BY <1>6, DnsShapes DEF UpdateRulesFails, Published, Publishing
  <2>2. setter'.pc = "undo" /\ setter'.before = setter.before /\ setter.before = Nothing
    BY <1>6, <2>1 DEF UpdateRulesFails, Publications, PublicationFollows
  <2> QED BY <1>6, <2>1, <2>2 DEF UpdateRulesFails, FrontendFollows, Answerable, Returnable, Owes, Built, GateHeld,
         storeVars, coreVars
<1>7. CASE CommitSnapshot
  BY <1>7 DEF CommitSnapshot
<1>8. CASE CommitFails
  BY <1>8 DEF CommitFails
<1>9. CASE SaveSettings
  BY <1>9 DEF SaveSettings
<1>10. CASE UndoFiles
  BY <1>10 DEF UndoFiles
<1>11. CASE RestoreRules
  BY <1>11 DEF RestoreRules, RulesBefore, PutBack
<1>12. CASE OpenTunnels
  BY <1>12 DEF OpenTunnels
<1>13. CASE TunnelRules
  <2>1. tunneler.pc = "rules" /\ tunneler \in TunnelRequests
    BY <1>13, DnsShapes DEF TunnelRules
  <2>2. setter.pc \in {"idle", "gate"} /\ cycle \notin Starting
    BY <2>1 DEF GateHeld
  <2>3. Answerable(frontend)
    BY <2>1, <2>2 DEF FrontendFollows
  <2>4. CASE tunneler' = [pc |-> "close"] /\ UNCHANGED frontend
    BY <1>13, <2>2, <2>3, <2>4 DEF TunnelRules, FrontendFollows, Answerable, Returnable, Owes, Built, Starting,
       storeVars, coreVars
  <2>5. CASE /\ frontend' = IF frontend = Nothing THEN frontend
                            ELSE Built(settings, tunneler.servers)
             /\ tunneler' = [tunneler EXCEPT !.before = frontend, !.pc = "save"]
    <3>1. /\ tunneler'.pc = "save" /\ tunneler'.before = frontend
          /\ tunneler'.servers = tunneler.servers
      BY <2>1, <2>5 DEF TunnelRequests
    <3> QED BY <1>13, <2>2, <2>3, <2>5, <3>1 DEF TunnelRules, FrontendFollows, Answerable, Returnable, Owes, Built,
           Starting, storeVars, coreVars
  <2> QED BY <1>13, <2>4, <2>5 DEF TunnelRules
<1>14. CASE SaveTunnels \/ CloseTunnels \/ AskRestart \/ CompileStored \/ RestartAsked \/
          GiveUpLease
  BY <1>14 DEF SaveTunnels, RulesBefore, PutBack, CloseTunnels, AskRestart, CompileStored, RestartAsked,
     GiveUpLease, LeaseTimesOut
<1>15. CASE BeginRun \/ PreparePlan \/ SpawnCore \/ Promote \/ Healthy \/ StartFails
  BY <1>15 DEF BeginRun, PreparePlan, SpawnCore, Promote, Healthy, StartFails
<1>16. CASE CoreEnds \/ StopCore \/ UNCHANGED dnsVars
  BY <1>16 DEF CoreEnds, StopCore
<1> QED BY <1>1, <1>2, <1>3, <1>4, <1>5, <1>6, <1>7, <1>8, <1>9, <1>10, <1>11, <1>12, <1>13,
   <1>14, <1>15, <1>16
     DEF DnsNext, SetterStep, TunnelerStep, CycleStep

(* What the rule files and the snapshot hold is put back, or is stored.     *)
LEMMA PublicationKept ==
    ASSUME DnsTyped, GateHeld, FrontendFollows, PublicationFollows, RunFollows,
           DnsNext \/ UNCHANGED dnsVars
    PROVE  PublicationFollows'
<1> USE DnsAssumption
<1> USE DEF DnsTyped, dnsVars, storeVars, coreVars, Idle, GateHeld, PublicationFollows,
       FilesFollow, Undoable, RunFollows, Owes, FrontendFollows, ForCore, RuleFiles, Compiled,
       Recorded, Answers, Frontends, Publishing, Publications, SetterStates, TunnelRequests,
       TunnelerStates, Starting, DnsFault
<1>1. CASE TakeLease
  BY <1>1 DEF TakeLease
<1>2. CASE OpenUpdate
  BY <1>2 DEF OpenUpdate, Rebuild, Updatable
<1>3. CASE CloseUpdate \/ UpdateUpstreams
  BY <1>3 DEF CloseUpdate, UpdateUpstreams
<1>4. CASE SaveUpstream
  BY <1>4 DEF SaveUpstream, PutBack
<1>5. CASE ReplaceForRestart
  BY <1>5 DEF ReplaceForRestart
<1>6. CASE PublishFile
  BY <1>6 DEF PublishFile
<1>7. CASE PublishFails
  BY <1>7 DEF PublishFails, Counted
<1>8. CASE CoreFoundGone
  BY <1>8 DEF CoreFoundGone
<1>9. CASE UpdateRules
  BY <1>9 DEF UpdateRules, Published
<1>10. CASE UpdateRulesFails
  BY <1>10 DEF UpdateRulesFails, Published
<1>11. CASE CommitSnapshot
  <2>1. setter.pc = "commit" /\ setter \in Publications
    BY <1>11, DnsShapes DEF CommitSnapshot, Publishing
  <2>2. /\ setter'.pc = "save" /\ setter'.committed = TRUE
        /\ setter'.candidate = setter.candidate /\ setter'.old = setter.old
        /\ setter'.published = setter.published
    BY <1>11, <2>1 DEF CommitSnapshot, Publications
  <2>3. /\ snapshot \in Compiled /\ snapshot' = [snapshot EXCEPT !.rules = setter.candidate.rules]
        /\ setter.candidate.rules \in RuleFiles
    BY <1>11, <2>1, DnsShapes, DnsAssumption
       DEF CommitSnapshot, PublicationFollows, Undoable, Publications, RuleFiles
  <2>4. snapshot' # Nothing /\ snapshot'.rules = setter.candidate.rules
    BY <2>3 DEF Compiled, Nothing
  <2> QED BY <1>11, <2>1, <2>2, <2>4 DEF CommitSnapshot, PublicationFollows, Undoable, storeVars
<1>12. CASE CommitFails
  <2>1. setter.pc = "commit" /\ setter \in Publications
    BY <1>12, DnsShapes DEF CommitFails, Publishing
  <2>2. /\ setter'.pc = "undo" /\ setter'.committed = TRUE
        /\ setter'.candidate = setter.candidate /\ setter'.old = setter.old
        /\ setter'.published = setter.published
    BY <1>12, <2>1 DEF CommitFails, Publications
  <2>3. snapshot \in Compiled /\ setter.candidate.rules \in RuleFiles
    BY <1>12, <2>1, DnsShapes, DnsAssumption
       DEF PublicationFollows, Undoable, Publications, RuleFiles
  <2>4. snapshot' # Nothing
    BY <1>12, <2>1, <2>3 DEF CommitFails, Compiled, Nothing, PublicationFollows, Undoable
  <2> QED BY <1>12, <2>1, <2>2, <2>4 DEF CommitFails, PublicationFollows, Undoable, storeVars
<1>13. CASE SaveSettings \/ UndoFiles \/ RestoreRules \/ OpenTunnels \/ TunnelRules \/
          SaveTunnels
  BY <1>13 DEF SaveSettings, UndoFiles, RestoreRules, RulesBefore, PutBack, OpenTunnels, TunnelRules,
     SaveTunnels, PutBack
<1>14. CASE CloseTunnels \/ AskRestart \/ CompileStored \/ RestartAsked \/ GiveUpLease \/
          BeginRun
  BY <1>14 DEF CloseTunnels, AskRestart, CompileStored, RestartAsked, GiveUpLease,
     LeaseTimesOut, BeginRun
<1>15. CASE PreparePlan \/ SpawnCore \/ Promote \/ Healthy \/ StartFails \/ CoreEnds
  BY <1>15 DEF PreparePlan, SpawnCore, Promote, Healthy, StartFails, CoreEnds
<1>16. CASE StopCore \/ UNCHANGED dnsVars
  BY <1>16 DEF StopCore
<1> QED BY <1>1, <1>2, <1>3, <1>4, <1>5, <1>6, <1>7, <1>8, <1>9, <1>10, <1>11, <1>12, <1>13,
   <1>14, <1>15, <1>16
     DEF DnsNext, SetterStep, TunnelerStep, CycleStep

(* A start writes the files of the configuration it was compiled to.        *)
LEMMA RunKept ==
    ASSUME DnsTyped, GateHeld, FrontendFollows, PublicationFollows, RunFollows,
           DnsNext \/ UNCHANGED dnsVars
    PROVE  RunFollows'
<1> USE DnsAssumption
<1> USE DEF DnsTyped, dnsVars, storeVars, coreVars, Idle, GateHeld, PublicationFollows,
       Undoable, RunFollows, Owes, FrontendFollows, ForCore, RuleFiles, Compiled, Recorded, Answers,
       Frontends, Publishing, Publications, SetterStates, TunnelRequests, TunnelerStates,
       Starting, DnsFault
<1>1. CASE TakeLease \/ OpenUpdate \/ CloseUpdate \/ UpdateUpstreams \/ SaveUpstream \/
          ReplaceForRestart
  BY <1>1 DEF TakeLease, OpenUpdate, Rebuild, Updatable, CloseUpdate, UpdateUpstreams,
     SaveUpstream, PutBack, ReplaceForRestart
<1>2. CASE PublishFile \/ PublishFails \/ CoreFoundGone \/ UpdateRules \/ UpdateRulesFails \/
          CommitSnapshot
  BY <1>2 DEF PublishFile, PublishFails, Counted, CoreFoundGone, UpdateRules, Published,
     UpdateRulesFails, CommitSnapshot
<1>3. CASE CommitFails \/ SaveSettings \/ UndoFiles \/ RestoreRules \/ OpenTunnels \/
          TunnelRules
  BY <1>3 DEF CommitFails, SaveSettings, UndoFiles, RestoreRules, RulesBefore, PutBack, OpenTunnels,
     TunnelRules
<1>4. CASE SaveTunnels \/ CloseTunnels \/ AskRestart \/ CompileStored \/ RestartAsked \/
          GiveUpLease
  BY <1>4 DEF SaveTunnels, RulesBefore, PutBack, CloseTunnels, AskRestart, CompileStored, RestartAsked,
     GiveUpLease, LeaseTimesOut
<1>5. CASE BeginRun \/ PreparePlan \/ SpawnCore \/ Promote \/ Healthy \/ StartFails
  BY <1>5 DEF BeginRun, PreparePlan, SpawnCore, Promote, Healthy, StartFails
<1>6. CASE CoreEnds \/ StopCore \/ UNCHANGED dnsVars
  BY <1>6 DEF CoreEnds, StopCore
<1> QED BY <1>1, <1>2, <1>3, <1>4, <1>5, <1>6
     DEF DnsNext, SetterStep, TunnelerStep, CycleStep

LEMMA DnsInvKept ==
    ASSUME DnsInv, DnsNext \/ UNCHANGED dnsVars
    PROVE  DnsInv'
BY DnsTypesKept, GateKept, FrontendKept, PublicationKept, RunKept DEF DnsInv

LEMMA DnsInitial == DnsInit => DnsInv
<1> SUFFICES ASSUME DnsInit PROVE DnsInv
  OBVIOUS
<1> USE DnsAssumption DEF DnsInit
<1>1. DnsTyped
  BY DEF DnsTyped, RuleFiles, Compiled, Recorded, Frontends, ForCore, Idle, SetterStates,
     TunnelerStates
<1>2. GateHeld
  BY DEF GateHeld, Idle, Starting
<1>3. FrontendFollows /\ PublicationFollows /\ RunFollows
  BY DEF FrontendFollows, PublicationFollows, RunFollows, FilesFollow, Answerable, Returnable, Owes, ForCore, Idle
<1> QED BY <1>1, <1>2, <1>3 DEF DnsInv

(* Whenever nobody holds the gate, what is stored, what the frontend        *)
(* answers with, and the rule files and the snapshot of a running core      *)
(* agree, or a restart is owed: publications that fail at any step and are  *)
(* undone, tunnel edits, starts, exits and stops of the core included.  The *)
(* one exception is a request that could not undo its steps either          *)
(* (rollback and restore_rules report it): it lasts until a core is started *)
(* again.                                                                   *)
THEOREM SettingsAlwaysAgree == DnsSpec => []SettingsAgree
<1>1. DnsInv => SettingsAgree
  <2> SUFFICES ASSUME DnsInv, gate = "free" PROVE SettingsAgree
    BY DEF SettingsAgree, FrontendAgrees, FilesAgree
  <2>1. setter.pc \in {"idle", "gate"} /\ tunneler.pc = "idle"
    BY DEF DnsInv, GateHeld
  <2>2. Answerable(frontend) /\ FilesFollow
    BY <2>1 DEF DnsInv, FrontendFollows, PublicationFollows
  <2> QED BY <2>2 DEF SettingsAgree, FrontendAgrees, FilesAgree, Answerable, FilesFollow, Owes
<1>2. DnsInv /\ [DnsNext]_dnsVars => DnsInv'
  BY DnsInvKept
<1> QED BY <1>1, <1>2, DnsInitial, PTL DEF DnsSpec


(***************************************************************************)
(* Resolver, for any number of clients, configurations, upstreams and      *)
(* connections.  A step replaces a query, a pool or a connection; what     *)
(* each of these leaves of the invariant is shown once, of any states, and *)
(* a step is put together of them.  Queries first.                         *)
(***************************************************************************)
AnyUpstream == {Remote} \cup UNION {Upstreams(config) : config \in Config}
States == UNION {[config : {c}, pool : [Upstreams(c) -> Seq(Connection)]] : c \in Config}
Askings ==
  [pc : {"asking"}, state : Nat, phase : {"only", "local", "remote"}, todo : Seq(AnyUpstream),
   local : Query \cup {Unset}, connection : Connection \cup {Unset}, pooled : BOOLEAN]
Dones == [pc : {"answered", "failed", "aborted"}, state : Nat, about : Query \cup {Unset}]
AnswerRecords == [about : Query, kind : {"domestic", "foreign"}]
Opens == [upstream : AnyUpstream, owed : Seq(Query), answers : Seq(AnswerRecords), open : BOOLEAN]

\* The parts of the invariant are stated of any states st, queries qs and connections cs, so
\* that they can be shown of what a step gives to Leave.
TypedIn(cur, st, qs, cs) ==
  /\ st \in Seq(States) /\ cur \in {NoState} \cup DOMAIN st
  /\ qs \in [Query -> {[pc |-> "idle"]} \cup Askings \cup Dones]
  /\ cs \in [Connection -> {Free} \cup Opens]

\* What a query has left to ask, has asked (seen) and has heard.
ServedAs(st, q, r, seen, hears) ==
  /\ r.pc = "idle" => seen = {} /\ ~hears
  /\ r.pc = "answered" => r.about = q
  /\ r.pc = "failed" => ~hears
  /\ r.pc # "idle" =>
       r.state \in DOMAIN st /\ seen \subseteq Allowed(st[r.state].config, q)
  /\ r.pc = "asking" =>
       /\ r.todo # <<>>
       /\ ToSet(r.todo) \subseteq Allowed(st[r.state].config, q)
       /\ ToSet(r.todo) \subseteq Upstreams(st[r.state].config)
       /\ r.phase = "local" => Remote \in Allowed(st[r.state].config, q)
       /\ r.local \in {Unset, q}
       /\ hears => r.local = q
ServedIn(st, qs, as, hd) ==
  /\ as \in [Query -> SUBSET AnyUpstream]
  /\ \A q \in Query : ServedAs(st, q, qs[q], as[q], q \in hd)

\* A connection in use carries one query, which is owed an answer or has it.
Waiting(qs, q, c) == qs[q].pc = "asking" /\ qs[q].connection = c
UsedIn(qs, cs) ==
  \A q \in Query, c \in Connection : Waiting(qs, q, c) =>
    /\ cs[c] \in Opens /\ cs[c].upstream = Head(qs[q].todo)
    /\ \/ cs[c].owed = <<q>> /\ cs[c].answers = <<>>
       \/ cs[c].owed = <<>> /\ \E a \in AnswerRecords : a.about = q /\ cs[c].answers = <<a>>
    /\ \A p \in Query : Waiting(qs, p, c) => p = q

\* A pooled connection is in one place of one pool, at rest.
InPool(st, s, u, i, c) ==
  s \in DOMAIN st /\ u \in DOMAIN st[s].pool /\ i \in DOMAIN st[s].pool[u] /\ st[s].pool[u][i] = c
PoolsIn(st, qs, cs) ==
  \A s, u, i, c : InPool(st, s, u, i, c) =>
    /\ cs[c] \in Opens /\ cs[c].upstream = u /\ cs[c].owed = <<>> /\ cs[c].answers = <<>>
    /\ \A q \in Query : ~Waiting(qs, q, c)
    /\ \A t, v, j : InPool(st, t, v, j, c) => t = s /\ v = u /\ j = i

GoodIn(cur, st, qs, cs, as, hd) ==
  /\ TypedIn(cur, st, qs, cs) /\ ServedIn(st, qs, as, hd) /\ UsedIn(qs, cs) /\ PoolsIn(st, qs, cs)

\* Pools outlive neither their configuration nor the queries that came in under it.
LiveIn(cur, st, qs) ==
  \A s \in DOMAIN st : (\E u, i, c : InPool(st, s, u, i, c)) =>
    s = cur \/ \E q \in Query : Serving(qs, q) /\ qs[q].state = s

ResolverInv ==
  GoodIn(current, state, query, connection, asked, heard) /\ LiveIn(current, state, query)

\* What a state is made of.
LEMMA StateShapes ==
  ASSUME NEW s \in States
  PROVE  /\ s.config \in Config /\ s.pool \in [Upstreams(s.config) -> Seq(Connection)]
         /\ s = [config |-> s.config, pool |-> s.pool]
BY DEF States

\* What a query is, by where it is.
LEMMA QueryShapes ==
  ASSUME NEW cur, NEW st, NEW qs, NEW cs, TypedIn(cur, st, qs, cs), NEW q \in Query
  PROVE  /\ qs[q].pc \in {"idle", "asking", "answered", "failed", "aborted"}
         /\ qs[q].pc = "asking" => qs[q] \in Askings
         /\ qs[q].pc \in {"answered", "failed", "aborted"} => qs[q] \in Dones
BY DEF TypedIn, Askings, Dones

\* Another pool in a state.
LEMMA PoolChanged ==
  ASSUME NEW r, NEW c, NEW p, r = [config |-> c, pool |-> p], NEW new
  PROVE  [r EXCEPT !.pool = new] = [config |-> c, pool |-> new]
<1>1. [[config |-> c, pool |-> p] EXCEPT !.pool = new] = [config |-> c, pool |-> new]
  OBVIOUS
<1> QED BY <1>1, Zenon

\* A pool is replaced by another one.
WithPool(st, s, u, pool) == [st EXCEPT ![s].pool[u] = pool]
\* Nothing else changes with it.
Replaced(st, s, u, pool, new) ==
  /\ new \in Seq(States) /\ DOMAIN new = DOMAIN st
  /\ \A t \in DOMAIN st : new[t].config = st[t].config
  /\ \A t, v, i, c : InPool(new, t, v, i, c) <=>
       IF t = s /\ v = u THEN i \in DOMAIN pool /\ pool[i] = c ELSE InPool(st, t, v, i, c)
LEMMA PoolReplaced ==
  ASSUME NEW st, st \in Seq(States), NEW s, s \in DOMAIN st,
         NEW u, u \in Upstreams(st[s].config), NEW pool, pool \in Seq(Connection)
  PROVE  Replaced(st, s, u, pool, WithPool(st, s, u, pool))
<1> DEFINE new == WithPool(st, s, u, pool)
<1> DEFINE changed == [config |-> st[s].config, pool |-> [st[s].pool EXCEPT ![u] = pool]]
<1>1. st[s] \in States
  OBVIOUS
<1>2. st[s].config \in Config /\ st[s].pool \in [Upstreams(st[s].config) -> Seq(Connection)]
      /\ st[s] = [config |-> st[s].config, pool |-> st[s].pool]
  BY <1>1, StateShapes
<1>3. new = [st EXCEPT ![s] = changed]
  <2>1. [st[s] EXCEPT !.pool[u] = pool] = changed
    <3>1. [st[s] EXCEPT !.pool[u] = pool] = [st[s] EXCEPT !.pool = [st[s].pool EXCEPT ![u] = pool]]
      OBVIOUS
    <3>2. [st[s] EXCEPT !.pool = [st[s].pool EXCEPT ![u] = pool]] = changed
      <4> DEFINE p == [st[s].pool EXCEPT ![u] = pool]
      <4>1. [st[s] EXCEPT !.pool = p] = [config |-> st[s].config, pool |-> p]
        <5> HIDE DEF p
        <5> QED BY <1>2, PoolChanged, Zenon
      <4> QED BY <4>1
    <3> QED BY <3>1, <3>2
  <2>2. new = [st EXCEPT ![s] = [st[s] EXCEPT !.pool[u] = pool]]
    BY DEF WithPool
  <2> QED BY <2>1, <2>2
<1>4. changed \in States
  BY <1>2 DEF States
<1>5. new \in Seq(States) /\ DOMAIN new = DOMAIN st
  <2> HIDE DEF changed
  <2> QED BY <1>3, <1>4, SMT
<1>6. \A t \in DOMAIN st : new[t] = IF t = s THEN changed ELSE st[t]
  BY <1>3
<1>7. changed.config = st[s].config /\ DOMAIN changed.pool = DOMAIN st[s].pool
      /\ u \in DOMAIN st[s].pool
      /\ \A v \in DOMAIN st[s].pool : changed.pool[v] = IF v = u THEN pool ELSE st[s].pool[v]
  BY <1>2
<1> HIDE DEF changed
<1>8. \A t \in DOMAIN st : new[t].config = st[t].config
  BY <1>6, <1>7
<1>9. ASSUME NEW t, NEW v, NEW i, NEW c
      PROVE  InPool(new, t, v, i, c) <=>
               IF t = s /\ v = u THEN i \in DOMAIN pool /\ pool[i] = c ELSE InPool(st, t, v, i, c)
  BY <1>5, <1>6, <1>7 DEF InPool
<1> QED BY <1>5, <1>8, <1>9 DEF Replaced

\* A state that is dropped keeps its configuration and no connection.
LEMMA EmptiedStates ==
  ASSUME NEW s \in States
  PROVE  /\ Emptied(s) \in States /\ Emptied(s).config = s.config
         /\ \A u \in DOMAIN Emptied(s).pool : Emptied(s).pool[u] = <<>>
<1>1. /\ s.config \in Config /\ s.pool \in [Upstreams(s.config) -> Seq(Connection)]
      /\ s = [config |-> s.config, pool |-> s.pool]
  BY StateShapes
<1> DEFINE none == [u \in DOMAIN s.pool |-> <<>>]
<1>2. none \in [Upstreams(s.config) -> Seq(Connection)]
  BY <1>1
<1>3. [s EXCEPT !.pool = none] = [config |-> s.config, pool |-> none]
  <2> HIDE DEF none
  <2> QED BY <1>1, PoolChanged, Zenon
<1>4. Emptied(s) = [config |-> s.config, pool |-> none]
  BY <1>3 DEF Emptied
<1>5. Emptied(s) \in States
  BY <1>1, <1>2, <1>4 DEF States
<1> QED BY <1>4, <1>5

\* What a step leaves is good when what it gives to Leave is.
LEMMA Left ==
  ASSUME NEW cur, NEW st, NEW qs, NEW cs, NEW as, NEW hd,
         GoodIn(cur, st, qs, cs, as, hd), Leave(cur, st, qs, cs), asked' = as, heard' = hd
  PROVE  ResolverInv'
<1> DEFINE dead == {s \in DOMAIN st :
                     s # cur /\ \A q \in Query : Serving(qs, q) => qs[q].state # s}
           closed == UNION {IdleIn(st[s]) : s \in dead}
<1>1. /\ current' = cur /\ query' = qs
      /\ state' = [s \in DOMAIN st |-> IF s \in dead THEN Emptied(st[s]) ELSE st[s]]
      /\ connection' = [c \in Connection |-> IF c \in closed THEN Free ELSE cs[c]]
  BY DEF Leave
<1>2. st \in Seq(States) /\ TypedIn(cur, st, qs, cs)
  BY DEF GoodIn, TypedIn
<1>3. \A s \in DOMAIN st : st[s] \in States
  BY <1>2
<1>4. \A c : c \in closed => \E s \in dead : \E u, i : InPool(st, s, u, i, c)
  <2> SUFFICES ASSUME NEW s \in dead, NEW c \in IdleIn(st[s])
               PROVE  \E u, i : InPool(st, s, u, i, c)
    OBVIOUS
  <2>1. PICK u \in DOMAIN st[s].pool : c \in ToSet(st[s].pool[u])
    BY DEF IdleIn
  <2>2. PICK i \in DOMAIN st[s].pool[u] : st[s].pool[u][i] = c
    BY <2>1 DEF ToSet
  <2> QED BY <2>2 DEF InPool
<1> HIDE DEF closed
<1>5. state' \in Seq(States) /\ DOMAIN state' = DOMAIN st
      /\ \A s \in DOMAIN st : state'[s].config = st[s].config
  <2> HIDE DEF dead
  <2>1. \A s \in DOMAIN st : (IF s \in dead THEN Emptied(st[s]) ELSE st[s]) \in States
    BY <1>3, EmptiedStates
  <2>2. \A s \in DOMAIN st : (IF s \in dead THEN Emptied(st[s]) ELSE st[s]).config = st[s].config
    BY <1>3, EmptiedStates
  <2>3. DOMAIN st = 1 .. Len(st) /\ Len(st) \in Nat
    BY <1>2
  <2> QED BY <1>1, <2>1, <2>2, <2>3
<1>6. ASSUME NEW s, NEW u, NEW i, NEW c, InPool(state', s, u, i, c)
      PROVE  s \notin dead /\ s \in DOMAIN st /\ InPool(st, s, u, i, c)
  <2>1. s \in DOMAIN st /\ u \in DOMAIN state'[s].pool /\ i \in DOMAIN state'[s].pool[u]
    BY <1>5, <1>6 DEF InPool
  <2>2. s \notin dead
    <3> SUFFICES ASSUME s \in dead
                 PROVE  FALSE
      OBVIOUS
    <3>1. state'[s] = Emptied(st[s])
      BY <1>1, <2>1
    <3>2. state'[s].pool[u] = <<>>
      BY <1>3, <2>1, <3>1, EmptiedStates
    <3> QED BY <2>1, <3>2
  <2>3. state'[s] = st[s]
    BY <1>1, <2>1, <2>2
  <2> QED BY <1>6, <2>1, <2>2, <2>3 DEF InPool
<1>7. \A s, u, i, c : InPool(state', s, u, i, c) => c \notin closed
  <2> SUFFICES ASSUME NEW s, NEW u, NEW i, NEW c, InPool(state', s, u, i, c), c \in closed
               PROVE  FALSE
    OBVIOUS
  <2>1. s \notin dead /\ InPool(st, s, u, i, c)
    BY <1>6
  <2>2. PICK t, v, j : t \in dead /\ InPool(st, t, v, j, c)
    BY <1>4
  <2> QED BY <2>1, <2>2 DEF GoodIn, PoolsIn
<1>8. \A q \in Query : \A c : Waiting(qs, q, c) => c \notin closed
  BY <1>4 DEF GoodIn, PoolsIn
<1>9. TypedIn(current', state', query', connection')
  BY <1>1, <1>5, <1>2 DEF TypedIn
<1>10. ServedIn(state', query', asked', heard')
  BY <1>1, <1>5 DEF GoodIn, ServedIn, ServedAs
<1>11. UsedIn(query', connection')
  BY <1>1, <1>8 DEF GoodIn, UsedIn
<1>12. PoolsIn(state', query', connection')
  <2> SUFFICES ASSUME NEW s, NEW u, NEW i, NEW c, InPool(state', s, u, i, c)
               PROVE  /\ connection'[c] \in Opens /\ connection'[c].upstream = u
                      /\ connection'[c].owed = <<>> /\ connection'[c].answers = <<>>
                      /\ \A q \in Query : ~Waiting(query', q, c)
                      /\ \A t, v, j : InPool(state', t, v, j, c) => t = s /\ v = u /\ j = i
    BY DEF PoolsIn
  <2>1. InPool(st, s, u, i, c) /\ c \notin closed
    BY <1>6, <1>7
  <2>2. c \in Connection
    BY <1>2, <1>3, <2>1, StateShapes DEF InPool
  <2>3. connection'[c] = cs[c]
    BY <1>1, <2>1, <2>2
  <2> QED BY <1>1, <1>6, <2>1, <2>3 DEF GoodIn, PoolsIn
<1>13. LiveIn(current', state', query')
  BY <1>1, <1>5, <1>6 DEF LiveIn
<1> QED BY <1>9, <1>10, <1>11, <1>12, <1>13 DEF ResolverInv, GoodIn

\* A connection that is not free has an upstream, what it owes and what it answered.
LEMMA ConnectionShapes ==
  /\ Free \notin Opens
  /\ \A c \in Opens : /\ c.upstream \in AnyUpstream /\ c.owed \in Seq(Query)
                      /\ c.answers \in Seq(AnswerRecords) /\ c.open \in BOOLEAN
                      /\ c = [upstream |-> c.upstream, owed |-> c.owed,
                             answers |-> c.answers, open |-> c.open]
<1>1. \A c \in Opens : "owed" \in DOMAIN c
  BY DEF Opens
<1>2. "owed" \notin DOMAIN Free
  BY DEF Free
<1>3. Free \notin Opens
  BY <1>1, <1>2, Zenon
<1> QED BY <1>3 DEF Opens

\* A query goes on with r, using no connection.
LEMMA Requeried ==
  ASSUME NEW cur, NEW st, NEW qs, NEW cs, NEW as, NEW hd, GoodIn(cur, st, qs, cs, as, hd),
         NEW q \in Query, NEW r \in Askings \cup Dones, NEW known,
         \A p \in Query : p # q => (p \in known <=> p \in hd),
         ServedAs(st, q, r, as[q], q \in known),
         r.pc = "asking" => r.connection = Unset
  PROVE  GoodIn(cur, st, [qs EXCEPT ![q] = r], cs, as, known)
<1> DEFINE new == [qs EXCEPT ![q] = r]
<1>1. TypedIn(cur, st, qs, cs)
  BY DEF GoodIn
<1>2. new \in [Query -> {[pc |-> "idle"]} \cup Askings \cup Dones]
      /\ \A p \in Query : new[p] = IF p = q THEN r ELSE qs[p]
  BY <1>1 DEF TypedIn
<1> HIDE DEF new
<1>3. TypedIn(cur, st, new, cs)
  BY <1>1, <1>2 DEF TypedIn
<1>4. ServedIn(st, new, as, known)
  <2>1. as \in [Query -> SUBSET AnyUpstream]
    BY DEF GoodIn, ServedIn
  <2>2. ASSUME NEW p \in Query
        PROVE  ServedAs(st, p, new[p], as[p], p \in known)
    <3>1. CASE p = q
      BY <1>2, <3>1
    <3>2. CASE p # q
      <4>1. ServedAs(st, p, qs[p], as[p], p \in hd)
        BY DEF GoodIn, ServedIn
      <4> QED BY <1>2, <3>2, <4>1 DEF ServedAs
    <3> QED BY <3>1, <3>2
  <2> QED BY <2>1, <2>2 DEF ServedIn
<1>5. \A p \in Query, c \in Connection : Waiting(new, p, c) => Waiting(qs, p, c) /\ new[p] = qs[p]
  BY <1>2, ResolverAssumption DEF Waiting
<1>6. UsedIn(new, cs)
  BY <1>5 DEF GoodIn, UsedIn
<1>7. PoolsIn(st, new, cs)
  <2>1. \A s, u, i, c : InPool(st, s, u, i, c) => c \in Connection
    BY <1>1, StateShapes DEF TypedIn, InPool
  <2> QED BY <1>5, <2>1 DEF GoodIn, PoolsIn
<1> QED BY <1>3, <1>4, <1>6, <1>7 DEF GoodIn, new

\* Connections are dropped that are neither used nor pooled.
Dropped(cs, gone) == [c \in Connection |-> IF c \in gone THEN Free ELSE cs[c]]
LEMMA Freed ==
  ASSUME NEW cur, NEW st, NEW qs, NEW cs, NEW as, NEW hd, GoodIn(cur, st, qs, cs, as, hd),
         NEW gone,
         \A q \in Query, c \in Connection : c \in gone => ~Waiting(qs, q, c),
         \A s, u, i : \A c \in gone : ~InPool(st, s, u, i, c)
  PROVE  GoodIn(cur, st, qs, Dropped(cs, gone), as, hd)
<1> DEFINE new == [c \in Connection |-> IF c \in gone THEN Free ELSE cs[c]]
<1>0. Dropped(cs, gone) = new
  BY DEF Dropped
<1>1. TypedIn(cur, st, qs, cs)
  BY DEF GoodIn
<1>2. \A s, u, i, c : InPool(st, s, u, i, c) => c \in Connection
  BY <1>1, StateShapes DEF TypedIn, InPool
<1>3. TypedIn(cur, st, qs, new)
  BY <1>1 DEF TypedIn
<1>4. UsedIn(qs, new)
  BY DEF GoodIn, UsedIn
<1>5. PoolsIn(st, qs, new)
  BY <1>2 DEF GoodIn, PoolsIn
<1> QED BY <1>0, <1>3, <1>4, <1>5 DEF GoodIn

\* A pool of connections at rest replaces another one.
LEMMA Repooled ==
  ASSUME NEW cur, NEW st, NEW qs, NEW cs, NEW as, NEW hd, GoodIn(cur, st, qs, cs, as, hd),
         NEW s \in DOMAIN st, NEW u \in Upstreams(st[s].config), NEW pool \in Seq(Connection),
         \A i, j \in DOMAIN pool : pool[i] = pool[j] => i = j,
         \A i \in DOMAIN pool :
           /\ cs[pool[i]] \in Opens /\ cs[pool[i]].upstream = u
           /\ cs[pool[i]].owed = <<>> /\ cs[pool[i]].answers = <<>>
           /\ \A q \in Query : ~Waiting(qs, q, pool[i])
           /\ \A t, v, j : InPool(st, t, v, j, pool[i]) => t = s /\ v = u
  PROVE  GoodIn(cur, WithPool(st, s, u, pool), qs, cs, as, hd)
<1> DEFINE new == WithPool(st, s, u, pool)
<1>1. TypedIn(cur, st, qs, cs) /\ st \in Seq(States)
  BY DEF GoodIn, TypedIn
<1>2. /\ new \in Seq(States) /\ DOMAIN new = DOMAIN st
      /\ \A t \in DOMAIN st : new[t].config = st[t].config
      /\ \A t, v, i, c : InPool(new, t, v, i, c) <=>
           IF t = s /\ v = u THEN i \in DOMAIN pool /\ pool[i] = c ELSE InPool(st, t, v, i, c)
  BY <1>1, PoolReplaced DEF Replaced
<1> HIDE DEF new
<1>3. TypedIn(cur, new, qs, cs)
  BY <1>1, <1>2 DEF TypedIn
<1>4. ServedIn(new, qs, as, hd)
  BY <1>2 DEF GoodIn, ServedIn, ServedAs
<1>5. ASSUME NEW t, NEW v, NEW i, NEW c, InPool(new, t, v, i, c)
      PROVE  /\ cs[c] \in Opens /\ cs[c].upstream = v /\ cs[c].owed = <<>> /\ cs[c].answers = <<>>
             /\ \A q \in Query : ~Waiting(qs, q, c)
             /\ \A t2, v2, i2 : InPool(new, t2, v2, i2, c) => t2 = t /\ v2 = v /\ i2 = i
  <2>1. CASE t = s /\ v = u
    <3>1. i \in DOMAIN pool /\ pool[i] = c
      BY <1>2, <1>5, <2>1
    <3> QED BY <1>2, <2>1, <3>1
  <2>2. CASE ~(t = s /\ v = u)
    <3>1. InPool(st, t, v, i, c)
      BY <1>2, <1>5, <2>2
    <3>2. ASSUME NEW t2, NEW v2, NEW i2, InPool(new, t2, v2, i2, c)
          PROVE  t2 = t /\ v2 = v /\ i2 = i
      <4>1. ~(t2 = s /\ v2 = u)
        BY <1>2, <2>2, <3>1, <3>2
      <4>2. InPool(st, t2, v2, i2, c)
        BY <1>2, <3>2, <4>1
      <4> QED BY <3>1, <4>2 DEF GoodIn, PoolsIn
    <3> QED BY <3>1, <3>2 DEF GoodIn, PoolsIn
  <2> QED BY <2>1, <2>2
<1>6. PoolsIn(new, qs, cs)
  BY <1>5 DEF PoolsIn
<1> QED BY <1>3, <1>4, <1>6 DEF GoodIn, new

\* What a query that is being served is made of.
LEMMA AskingShape ==
  ASSUME NEW r \in Askings
  PROVE  /\ r.pc = "asking" /\ r.state \in Nat /\ r.phase \in {"only", "local", "remote"}
         /\ r.todo \in Seq(AnyUpstream) /\ r.local \in Query \cup {Unset}
         /\ r = [pc |-> r.pc, state |-> r.state, phase |-> r.phase, todo |-> r.todo,
                local |-> r.local, connection |-> r.connection, pooled |-> r.pooled]
BY DEF Askings

\* What is sent on the connection c, which nobody else uses.
Using(r, c, pooled) ==
  [pc |-> r.pc, state |-> r.state, phase |-> r.phase, todo |-> r.todo,
   local |-> r.local, connection |-> c, pooled |-> pooled]
\* ... as the action writes it.
LEMMA UsingChanged ==
  ASSUME NEW r \in Askings, NEW c, NEW pooled
  PROVE  [[r EXCEPT !.connection = c] EXCEPT !.pooled = pooled] = Using(r, c, pooled)
<1>1. PICK pc, at, phase, todo, local, old, before :
        r = [pc |-> pc, state |-> at, phase |-> phase, todo |-> todo, local |-> local,
             connection |-> old, pooled |-> before]
  BY AskingShape
<1> DEFINE made == [pc |-> pc, state |-> at, phase |-> phase, todo |-> todo, local |-> local,
                    connection |-> old, pooled |-> before]
           half == [pc |-> pc, state |-> at, phase |-> phase, todo |-> todo, local |-> local,
                    connection |-> c, pooled |-> before]
           full == [pc |-> pc, state |-> at, phase |-> phase, todo |-> todo, local |-> local,
                    connection |-> c, pooled |-> pooled]
<1>2. [made EXCEPT !.connection = c] = half
  OBVIOUS
<1>3. [half EXCEPT !.pooled = pooled] = full
  OBVIOUS
<1>4. r = made
  BY <1>1
<1>5. Using(r, c, pooled) = full
  BY <1>1 DEF Using
<1> HIDE DEF made, half, full
<1> QED BY <1>2, <1>3, <1>4, <1>5, Zenon

Used(qs, q, c, pooled) == [qs EXCEPT ![q].connection = c, ![q].pooled = pooled]
LEMMA UsingShape ==
  ASSUME NEW qs, NEW q \in Query, qs[q] \in Askings, NEW c, NEW pooled
  PROVE  Used(qs, q, c, pooled) = [qs EXCEPT ![q] = Using(qs[q], c, pooled)]
<1>1. [[qs[q] EXCEPT !.connection = c] EXCEPT !.pooled = pooled] = Using(qs[q], c, pooled)
  BY UsingChanged, Zenon
<1>2. [qs EXCEPT ![q].connection = c, ![q].pooled = pooled]
        = [qs EXCEPT ![q] = [[qs[q] EXCEPT !.connection = c] EXCEPT !.pooled = pooled]]
  OBVIOUS
<1> QED BY <1>1, <1>2, Zenon DEF Used

\* The first upstream a query has left is asked, on a connection of nobody's.
LEMMA Sent ==
  ASSUME NEW cur, NEW st, NEW qs, NEW cs, NEW as, NEW hd, GoodIn(cur, st, qs, cs, as, hd),
         NEW q \in Query, qs[q].pc = "asking", NEW c \in Connection,
         NEW pooled \in BOOLEAN, NEW open \in BOOLEAN,
         \A p \in Query : ~Waiting(qs, p, c),
         \A s, u, i : ~InPool(st, s, u, i, c)
  PROVE  GoodIn(cur, st, Used(qs, q, c, pooled),
                [cs EXCEPT ![c] = [upstream |-> Head(qs[q].todo), owed |-> <<q>>,
                                   answers |-> <<>>, open |-> open]],
                [as EXCEPT ![q] = @ \cup {Head(qs[q].todo)}], hd)
<1> DEFINE qs2 == Used(qs, q, c, pooled)
           link == [upstream |-> Head(qs[q].todo), owed |-> <<q>>,
                    answers |-> <<>>, open |-> open]
           cs2 == [cs EXCEPT ![c] = link]
           as2 == [as EXCEPT ![q] = @ \cup {Head(qs[q].todo)}]
           r == Using(qs[q], c, pooled)
<1>1. TypedIn(cur, st, qs, cs) /\ ServedIn(st, qs, as, hd)
  BY DEF GoodIn
<1>2. qs[q] \in Askings /\ DOMAIN qs = Query
  BY <1>1, QueryShapes DEF TypedIn
<1>3. /\ r \in Askings /\ r.pc = "asking" /\ r.state = qs[q].state /\ r.phase = qs[q].phase
      /\ r.todo = qs[q].todo /\ r.local = qs[q].local /\ r.connection = c
  BY <1>2 DEF Askings, Using
<1>4. qs2 = [qs EXCEPT ![q] = r]
  BY <1>2, UsingShape
<1>5. qs2 \in [Query -> {[pc |-> "idle"]} \cup Askings \cup Dones]
      /\ \A p \in Query : qs2[p] = IF p = q THEN r ELSE qs[p]
  BY <1>1, <1>3, <1>4 DEF TypedIn
<1>6. ServedAs(st, q, qs[q], as[q], q \in hd)
  BY <1>1 DEF ServedIn
<1>7. /\ Head(qs[q].todo) \in AnyUpstream /\ Head(qs[q].todo) \in ToSet(qs[q].todo)
      /\ Head(qs[q].todo) \in Allowed(st[qs[q].state].config, q)
  <2>1. qs[q].todo \in Seq(AnyUpstream) /\ qs[q].todo # <<>>
    BY <1>2, <1>6, AskingShape DEF ServedAs
  <2>2. Head(qs[q].todo) \in AnyUpstream /\ Head(qs[q].todo) \in ToSet(qs[q].todo)
    BY <2>1 DEF ToSet
  <2> QED BY <1>6, <2>2 DEF ServedAs
<1>8. link \in Opens /\ link.upstream = Head(qs[q].todo) /\ link.owed = <<q>> /\ link.answers = <<>>
  BY <1>7 DEF Opens
<1>9. /\ cs2 \in [Connection -> {Free} \cup Opens]
      /\ \A d \in Connection : cs2[d] = IF d = c THEN link ELSE cs[d]
  BY <1>1, <1>8 DEF TypedIn
<1>10. /\ as2 \in [Query -> SUBSET AnyUpstream]
       /\ \A p \in Query : as2[p] = IF p = q THEN as[q] \cup {Head(qs[q].todo)} ELSE as[p]
  BY <1>1, <1>7 DEF ServedIn
<1> HIDE DEF qs2, cs2, as2, r, link
<1>11. TypedIn(cur, st, qs2, cs2)
  BY <1>1, <1>5, <1>9 DEF TypedIn
<1>12. ServedIn(st, qs2, as2, hd)
  <2>1. ServedAs(st, q, r, as2[q], q \in hd)
    <3>1. qs[q].pc = "asking" /\ as2[q] = as[q] \cup {Head(qs[q].todo)}
      BY <1>10
    <3>2. as2[q] \subseteq Allowed(st[r.state].config, q)
      BY <1>3, <1>6, <1>7, <3>1 DEF ServedAs
    <3> QED BY <1>3, <1>6, <3>1, <3>2 DEF ServedAs
  <2>2. ASSUME NEW p \in Query
        PROVE  ServedAs(st, p, qs2[p], as2[p], p \in hd)
    <3>1. CASE p = q
      BY <1>5, <2>1, <3>1
    <3>2. CASE p # q
      <4>1. ServedAs(st, p, qs[p], as[p], p \in hd)
        BY <1>1 DEF ServedIn
      <4> QED BY <1>5, <1>10, <3>2, <4>1
    <3> QED BY <3>1, <3>2
  <2> QED BY <1>10, <2>2 DEF ServedIn
<1>13. UsedIn(qs2, cs2)
  <2> SUFFICES ASSUME NEW p \in Query, NEW d \in Connection, Waiting(qs2, p, d)
               PROVE  /\ cs2[d] \in Opens /\ cs2[d].upstream = Head(qs2[p].todo)
                      /\ \/ cs2[d].owed = <<p>> /\ cs2[d].answers = <<>>
                         \/ cs2[d].owed = <<>>
                            /\ \E a \in AnswerRecords : a.about = p /\ cs2[d].answers = <<a>>
                      /\ \A o \in Query : Waiting(qs2, o, d) => o = p
    BY DEF UsedIn
  <2>1. CASE p = q
    <3>1. d = c
      BY <1>3, <1>5, <2>1 DEF Waiting
    <3>2. \A o \in Query : Waiting(qs2, o, c) => o = q
      BY <1>5 DEF Waiting
    <3> QED BY <1>3, <1>5, <1>8, <1>9, <2>1, <3>1, <3>2
  <2>2. CASE p # q
    <3>1. Waiting(qs, p, d) /\ d # c /\ qs2[p] = qs[p]
      BY <1>5, <2>2 DEF Waiting
    <3>2. cs2[d] = cs[d]
      BY <1>9, <3>1
    <3>3. \A o \in Query : Waiting(qs2, o, d) => Waiting(qs, o, d)
      BY <1>3, <1>5, <3>1 DEF Waiting
    <3> QED BY <3>1, <3>2, <3>3 DEF GoodIn, UsedIn
  <2> QED BY <2>1, <2>2
<1>14. PoolsIn(st, qs2, cs2)
  <2>1. \A s, u, i, d : InPool(st, s, u, i, d) => d \in Connection /\ d # c
    BY <1>1, StateShapes DEF TypedIn, InPool
  <2>2. \A p \in Query : \A d : d # c /\ Waiting(qs2, p, d) => Waiting(qs, p, d)
    BY <1>3, <1>5 DEF Waiting
  <2> QED BY <1>9, <2>1, <2>2 DEF GoodIn, PoolsIn
<1> QED BY <1>11, <1>12, <1>13, <1>14 DEF GoodIn, qs2, cs2, as2, link

\* A query's next exchange.
Going(r, phase, upstreams, local) ==
  [pc |-> r.pc, state |-> r.state, phase |-> phase, todo |-> upstreams,
   local |-> local, connection |-> Unset, pooled |-> FALSE]
\* ... with the answer of the local upstream kept.
WithLocal(r, l) == [r EXCEPT !.local = l]
LEMMA OnwardShape ==
  ASSUME NEW q \in Query, query[q] \in Askings, NEW phase, NEW upstreams
  PROVE  /\ Onward(q, phase, upstreams) = Going(query[q], phase, upstreams, query[q].local)
         /\ \A l : WithLocal(Onward(q, phase, upstreams), l) = Going(query[q], phase, upstreams, l)
<1> DEFINE r == query[q]
<1>1. PICK pc, at, before, todo, local, old, pooled :
        r = [pc |-> pc, state |-> at, phase |-> before, todo |-> todo, local |-> local,
             connection |-> old, pooled |-> pooled]
  <2>1. r \in Askings
    OBVIOUS
  <2> HIDE DEF r
  <2> QED BY <2>1, AskingShape
<1>2. PICK no : no = FALSE
  OBVIOUS
<1> DEFINE r0 == [pc |-> pc, state |-> at, phase |-> before, todo |-> todo, local |-> local,
                  connection |-> old, pooled |-> pooled]
           r1 == [pc |-> pc, state |-> at, phase |-> phase, todo |-> todo, local |-> local,
                  connection |-> old, pooled |-> pooled]
           r2 == [pc |-> pc, state |-> at, phase |-> phase, todo |-> upstreams, local |-> local,
                  connection |-> old, pooled |-> pooled]
           r3 == [pc |-> pc, state |-> at, phase |-> phase, todo |-> upstreams, local |-> local,
                  connection |-> Unset, pooled |-> pooled]
           r4 == [pc |-> pc, state |-> at, phase |-> phase, todo |-> upstreams, local |-> local,
                  connection |-> Unset, pooled |-> no]
<1>3. [r0 EXCEPT !.phase = phase] = r1
  OBVIOUS
<1>4. [r1 EXCEPT !.todo = upstreams] = r2
  OBVIOUS
<1>5. [r2 EXCEPT !.connection = Unset] = r3
  OBVIOUS
<1>6. [r3 EXCEPT !.pooled = no] = r4
  OBVIOUS
<1>7. r = r0 /\ r.local = local /\ r.pc = pc /\ r.state = at
  BY <1>1
<1>8. Going(r, phase, upstreams, local) = r4
  <2> HIDE DEF r
  <2> QED BY <1>2, <1>7, Zenon DEF Going
<1>9. ASSUME NEW l
      PROVE  [r4 EXCEPT !.local = l] = Going(r, phase, upstreams, l)
  <2> DEFINE r5 == [pc |-> pc, state |-> at, phase |-> phase, todo |-> upstreams, local |-> l,
                    connection |-> Unset, pooled |-> no]
  <2>1. [r4 EXCEPT !.local = l] = r5
    OBVIOUS
  <2>2. Going(r, phase, upstreams, l) = r5
    <3> HIDE DEF r
    <3> QED BY <1>2, <1>7, Zenon DEF Going
  <2> HIDE DEF r4, r5, r
  <2> QED BY <2>1, <2>2, Zenon
<1>10. Onward(q, phase, upstreams)
         = [[[[r EXCEPT !.phase = phase] EXCEPT !.todo = upstreams]
               EXCEPT !.connection = Unset] EXCEPT !.pooled = no]
  BY <1>2, Zenon DEF Onward
<1> HIDE DEF r0, r1, r2, r3, r4
<1>11. Onward(q, phase, upstreams) = r4
  <2> HIDE DEF r
  <2> QED BY <1>3, <1>4, <1>5, <1>6, <1>7, <1>10, Zenon
<1> QED BY <1>7, <1>8, <1>9, <1>11, Zenon DEF WithLocal

\* ... and what is left of it.
Goes(new, r, phase, upstreams, l) ==
  /\ new \in Askings /\ new.pc = "asking" /\ new.state = r.state /\ new.phase = phase
  /\ new.todo = upstreams /\ new.local = l /\ new.connection = Unset
LEMMA GoingShape ==
  ASSUME NEW r \in Askings, NEW phase \in {"only", "local", "remote"},
         NEW upstreams \in Seq(AnyUpstream), NEW l \in Query \cup {Unset}
  PROVE  Goes(Going(r, phase, upstreams, l), r, phase, upstreams, l)
BY DEF Going, Askings, Goes

\* What is left of a sequence.
LEMMA TailShape ==
  ASSUME NEW S, NEW s \in Seq(S), s # <<>>
  PROVE  /\ Tail(s) \in Seq(S) /\ Len(Tail(s)) = Len(s) - 1
         /\ ToSet(Tail(s)) \subseteq ToSet(s) /\ Head(s) \in ToSet(s) /\ Head(s) \in S
         /\ Len(s) > 1 => Tail(s) # <<>>
<1>1. /\ Tail(s) \in Seq(S) /\ Len(Tail(s)) = Len(s) - 1 /\ Len(s) \in Nat \ {0}
      /\ \A i \in 1 .. Len(s) - 1 : Tail(s)[i] = s[i + 1]
  OBVIOUS
<1>2. DOMAIN s = 1 .. Len(s) /\ DOMAIN Tail(s) = 1 .. Len(s) - 1
  BY <1>1
<1>3. ASSUME NEW x \in ToSet(Tail(s))
      PROVE  x \in ToSet(s)
  <2>1. PICK i \in 1 .. Len(s) - 1 : x = Tail(s)[i]
    BY <1>2 DEF ToSet
  <2>2. i + 1 \in DOMAIN s /\ x = s[i + 1]
    BY <1>1, <1>2, <2>1
  <2> QED BY <2>2 DEF ToSet
<1>4. Head(s) \in ToSet(s) /\ Head(s) \in S
  BY <1>1, <1>2 DEF ToSet
<1>5. Len(<<>>) = 0
  OBVIOUS
<1>6. Len(s) > 1 => Tail(s) # <<>>
  <2>1. Tail(s) = <<>> => Len(Tail(s)) = Len(<<>>)
    BY Zenon
  <2> QED BY <1>1, <1>5, <2>1
<1> QED BY <1>1, <1>3, <1>4, <1>6

\* How a query ends.
LEMMA DoneShape ==
  ASSUME NEW s \in Nat, NEW outcome \in {"answered", "failed", "aborted"},
         NEW about \in Query \cup {Unset}
  PROVE  /\ Done(s, outcome, about) \in Dones /\ Done(s, outcome, about).pc = outcome
         /\ Done(s, outcome, about).state = s /\ Done(s, outcome, about).about = about
BY DEF Done, Dones

\* What is known of a query that is being served.
LEMMA AskingFacts ==
  ASSUME GoodIn(current, state, query, connection, asked, heard),
         NEW q \in Query, Serving(query, q)
  PROVE  /\ query[q] \in Askings /\ query[q].state \in DOMAIN state
         /\ query[q].state \in Nat /\ state[query[q].state] \in States
         /\ query[q].todo \in Seq(AnyUpstream) /\ query[q].todo # <<>>
         /\ Target(q) \in Upstreams(state[query[q].state].config)
         /\ ServedAs(state, q, query[q], asked[q], q \in heard)
<1>1. TypedIn(current, state, query, connection) /\ ServedIn(state, query, asked, heard)
  BY DEF GoodIn
<1>2. ServedAs(state, q, query[q], asked[q], q \in heard)
  BY <1>1 DEF ServedIn
<1>3. query[q] \in Askings
  BY <1>1, QueryShapes DEF Serving
<1>4. query[q].state \in DOMAIN state /\ query[q].todo # <<>>
      /\ ToSet(query[q].todo) \subseteq Upstreams(state[query[q].state].config)
  BY <1>2, <1>3, AskingShape DEF ServedAs
<1>5. query[q].todo \in Seq(AnyUpstream) /\ query[q].state \in Nat
  BY <1>3, AskingShape
<1>6. Head(query[q].todo) \in ToSet(query[q].todo)
  BY <1>4, <1>5 DEF ToSet
<1>7. state[query[q].state] \in States
  BY <1>1, <1>4 DEF TypedIn
<1> QED BY <1>2, <1>3, <1>4, <1>5, <1>6, <1>7 DEF Target

\* What a query does without an answer is allowed to it.
LEMMA FailedShape ==
  ASSUME GoodIn(current, state, query, connection, asked, heard),
         NEW q \in Query, Serving(query, q)
  PROVE  /\ Failed(q) \in Askings \cup Dones
         /\ ServedAs(state, q, Failed(q), asked[q], q \in heard)
         /\ Failed(q).pc = "asking" => Failed(q).connection = Unset
<1> DEFINE r == query[q]
<1>1. /\ r \in Askings /\ r.pc = "asking" /\ r.state \in DOMAIN state /\ r.state \in Nat
      /\ r.todo \in Seq(AnyUpstream) /\ r.todo # <<>> /\ r.local \in Query \cup {Unset}
      /\ r.phase \in {"only", "local", "remote"}
      /\ ServedAs(state, q, r, asked[q], q \in heard)
  BY AskingFacts, AskingShape
<1>2. CASE Len(r.todo) > 1
  <2>1. Failed(q) = Going(r, r.phase, Tail(r.todo), r.local)
    BY <1>1, <1>2, OnwardShape DEF Failed
  <2>2. Tail(r.todo) \in Seq(AnyUpstream) /\ Tail(r.todo) # <<>>
        /\ ToSet(Tail(r.todo)) \subseteq ToSet(r.todo)
    <3> HIDE DEF r
    <3> QED BY <1>1, <1>2, TailShape
  <2> HIDE DEF r
  <2>3. /\ Failed(q) \in Askings /\ Failed(q).pc = "asking" /\ Failed(q).state = r.state
        /\ Failed(q).phase = r.phase /\ Failed(q).todo = Tail(r.todo)
        /\ Failed(q).local = r.local /\ Failed(q).connection = Unset
    <3>1. Goes(Failed(q), r, r.phase, Tail(r.todo), r.local)
      BY <1>1, <2>1, <2>2, GoingShape
    <3> QED BY <3>1 DEF Goes
  <2> QED BY <1>1, <2>2, <2>3 DEF ServedAs
<1>3. CASE ~(Len(r.todo) > 1) /\ r.phase = "local"
  <2>1. Failed(q) = Going(r, "remote", <<Remote>>, r.local)
    BY <1>1, <1>3, OnwardShape DEF Failed
  <2>2. <<Remote>> \in Seq(AnyUpstream) /\ ToSet(<<Remote>>) = {Remote} /\ <<Remote>> # <<>>
    BY DEF ToSet, AnyUpstream
  <2>3. Remote \in Upstreams(state[r.state].config)
    BY DEF Upstreams
  <2> HIDE DEF r
  <2>4. /\ Failed(q) \in Askings /\ Failed(q).pc = "asking" /\ Failed(q).state = r.state
        /\ Failed(q).phase = "remote" /\ Failed(q).todo = <<Remote>>
        /\ Failed(q).local = r.local /\ Failed(q).connection = Unset
    <3>1. Goes(Failed(q), r, "remote", <<Remote>>, r.local)
      BY <1>1, <2>1, <2>2, GoingShape
    <3> QED BY <3>1 DEF Goes
  <2> QED BY <1>1, <1>3, <2>2, <2>3, <2>4 DEF ServedAs
<1>4. CASE ~(Len(r.todo) > 1) /\ r.phase # "local"
  <2>1. Failed(q) = IF r.local = Unset THEN Done(r.state, "failed", Unset)
                    ELSE Done(r.state, "answered", r.local)
    BY <1>4 DEF Failed, OrLocal
  <2> HIDE DEF r
  <2>2. CASE r.local = Unset
    <3>1. Failed(q) \in Dones /\ Failed(q).pc = "failed" /\ Failed(q).state = r.state
      BY <1>1, <2>1, <2>2, DoneShape
    <3> QED BY <1>1, <2>2, <3>1, ResolverAssumption DEF ServedAs
  <2>3. CASE r.local # Unset
    <3>1. Failed(q) \in Dones /\ Failed(q).pc = "answered" /\ Failed(q).state = r.state
          /\ Failed(q).about = r.local
      BY <1>1, <2>1, <2>3, DoneShape
    <3> QED BY <1>1, <2>3, <3>1 DEF ServedAs
  <2> QED BY <2>2, <2>3
<1> QED BY <1>2, <1>3, <1>4

\* What a query does with its own answer is allowed to it.
LEMMA SucceededShape ==
  ASSUME GoodIn(current, state, query, connection, asked, heard),
         NEW q \in Query, Serving(query, q), NEW answer, answer.about = q, NEW hears
  PROVE  /\ Succeeded(q, answer) \in Askings \cup Dones
         /\ ServedAs(state, q, Succeeded(q, answer), asked[q], hears)
         /\ Succeeded(q, answer).pc = "asking" => Succeeded(q, answer).connection = Unset
<1> DEFINE r == query[q]
           new == Succeeded(q, answer)
<1>1. /\ r \in Askings /\ r.pc = "asking" /\ r.state \in DOMAIN state /\ r.state \in Nat
      /\ r.phase \in {"only", "local", "remote"}
      /\ ServedAs(state, q, r, asked[q], q \in heard)
  BY AskingFacts, AskingShape
<1>2. CASE r.phase = "local" /\ answer.kind = "foreign"
  <2>1. new = Going(r, "remote", <<Remote>>, q)
    <3>1. new = WithLocal(Onward(q, "remote", <<Remote>>), q)
      BY <1>2, Zenon DEF Succeeded, WithLocal
    <3>2. query[q] \in Askings
      BY <1>1
    <3>3. WithLocal(Onward(q, "remote", <<Remote>>), q) = Going(query[q], "remote", <<Remote>>, q)
      BY <3>2, OnwardShape
    <3> QED BY <3>1, <3>3, Zenon
  <2>2. <<Remote>> \in Seq(AnyUpstream) /\ ToSet(<<Remote>>) = {Remote} /\ <<Remote>> # <<>>
    BY DEF ToSet, AnyUpstream
  <2>3. Remote \in Upstreams(state[r.state].config)
    BY DEF Upstreams
  <2> HIDE DEF r, new
  <2>4. /\ new \in Askings /\ new.pc = "asking" /\ new.state = r.state
        /\ new.phase = "remote" /\ new.todo = <<Remote>>
        /\ new.local = q /\ new.connection = Unset
    <3>1. Goes(new, r, "remote", <<Remote>>, q)
      BY <1>1, <2>1, <2>2, GoingShape
    <3> QED BY <3>1 DEF Goes
  <2>5. new \in Askings \cup Dones /\ ServedAs(state, q, new, asked[q], hears)
        /\ new.connection = Unset
    BY <1>1, <1>2, <2>2, <2>3, <2>4 DEF ServedAs
  <2> QED BY <2>5 DEF new
<1>3. CASE ~(r.phase = "local" /\ answer.kind = "foreign")
  <2>1. new = Done(r.state, "answered", q)
    BY <1>3 DEF Succeeded
  <2> HIDE DEF r, new
  <2>2. new \in Dones /\ new.pc = "answered" /\ new.state = r.state /\ new.about = q
    BY <1>1, <2>1, DoneShape
  <2>3. new \in Askings \cup Dones /\ ServedAs(state, q, new, asked[q], hears)
        /\ new.pc # "asking"
    BY <1>1, <2>2 DEF ServedAs
  <2> QED BY <2>3 DEF new
<1> QED BY <1>2, <1>3

\* A connection of nobody's changes.
LEMMA Relinked ==
  ASSUME NEW cur, NEW st, NEW qs, NEW cs, NEW as, NEW hd, GoodIn(cur, st, qs, cs, as, hd),
         NEW c \in Connection, NEW link \in {Free} \cup Opens,
         \A q \in Query : ~Waiting(qs, q, c),
         \A s, u, i : ~InPool(st, s, u, i, c)
  PROVE  GoodIn(cur, st, qs, [cs EXCEPT ![c] = link], as, hd)
<1> DEFINE new == [cs EXCEPT ![c] = link]
<1>1. TypedIn(cur, st, qs, cs)
  BY DEF GoodIn
<1>2. /\ new \in [Connection -> {Free} \cup Opens]
      /\ \A d \in Connection : d # c => new[d] = cs[d]
  BY <1>1 DEF TypedIn
<1> HIDE DEF new
<1>3. \A s, u, i, d : InPool(st, s, u, i, d) => d \in Connection /\ d # c
  BY <1>1, StateShapes DEF TypedIn, InPool
<1>4. TypedIn(cur, st, qs, new)
  BY <1>1, <1>2 DEF TypedIn
<1>5. UsedIn(qs, new)
  BY <1>2 DEF GoodIn, UsedIn
<1>6. PoolsIn(st, qs, new)
  BY <1>2, <1>3 DEF GoodIn, PoolsIn
<1> QED BY <1>4, <1>5, <1>6 DEF GoodIn, new

\* A connection with other answers.
Link(r, o, a, b) ==
  [upstream |-> r.upstream, owed |-> o, answers |-> a, open |-> b]
LEMMA LinkShape ==
  ASSUME NEW r \in Opens, NEW o, NEW a, NEW b
  PROVE  /\ [r EXCEPT !.owed = o] = Link(r, o, r.answers, r.open)
         /\ [r EXCEPT !.answers = a] = Link(r, r.owed, a, r.open)
         /\ [r EXCEPT !.open = b] = Link(r, r.owed, r.answers, b)
         /\ [[r EXCEPT !.owed = o] EXCEPT !.answers = a] = Link(r, o, a, r.open)
<1>1. PICK u, o0, a0, b0 : r = [upstream |-> u, owed |-> o0, answers |-> a0, open |-> b0]
  BY ConnectionShapes
<1>2. r.upstream = u /\ r.owed = o0 /\ r.answers = a0 /\ r.open = b0
  BY <1>1
<1> DEFINE made == [upstream |-> u, owed |-> o0, answers |-> a0, open |-> b0]
           owing == [upstream |-> u, owed |-> o, answers |-> a0, open |-> b0]
           answering == [upstream |-> u, owed |-> o0, answers |-> a, open |-> b0]
           opening == [upstream |-> u, owed |-> o0, answers |-> a0, open |-> b]
           both == [upstream |-> u, owed |-> o, answers |-> a, open |-> b0]
<1>3. [made EXCEPT !.owed = o] = owing
  OBVIOUS
<1>4. [made EXCEPT !.answers = a] = answering
  OBVIOUS
<1>5. [made EXCEPT !.open = b] = opening
  OBVIOUS
<1>6. [owing EXCEPT !.answers = a] = both
  OBVIOUS
<1>7. /\ Link(r, o, r.answers, r.open) = owing /\ Link(r, r.owed, a, r.open) = answering
      /\ Link(r, r.owed, r.answers, b) = opening /\ Link(r, o, a, r.open) = both
  BY <1>2, Zenon DEF Link
<1>8. r = made
  BY <1>1
<1> HIDE DEF made, owing, answering, opening, both
<1> QED BY <1>3, <1>4, <1>5, <1>6, <1>7, <1>8, Zenon

(***************************************************************************)
(* The steps.                                                              *)
(***************************************************************************)
\* The invariant holds before the frontend has started.
LEMMA ResolverStarts == ResolverInit => ResolverInv
<1> SUFFICES ASSUME ResolverInit
             PROVE  ResolverInv
  OBVIOUS
<1>1. /\ current = NoState /\ state = <<>> /\ query = [q \in Query |-> [pc |-> "idle"]]
      /\ connection = [c \in Connection |-> Free]
      /\ asked = [q \in Query |-> {}] /\ heard = {}
  BY DEF ResolverInit
<1>2. TypedIn(current, state, query, connection)
  BY <1>1 DEF TypedIn
<1>3. \A s, u, i, c : ~InPool(state, s, u, i, c)
  BY <1>1 DEF InPool
<1>4. \A q \in Query : \A c : ~Waiting(query, q, c)
  BY <1>1 DEF Waiting
<1>5. ServedIn(state, query, asked, heard)
  BY <1>1 DEF ServedIn, ServedAs
<1> QED BY <1>1, <1>2, <1>3, <1>4, <1>5 DEF ResolverInv, GoodIn, UsedIn, PoolsIn, LiveIn

\* A new configuration has no connection, and changes nothing of the earlier ones.
LEMMA Added ==
  ASSUME ResolverInv, NEW config \in Config
  PROVE  GoodIn(Len(state) + 1, Append(state, NewState(config)), query, connection, asked, heard)
<1> DEFINE new == Append(state, NewState(config))
<1>1. GoodIn(current, state, query, connection, asked, heard)
      /\ TypedIn(current, state, query, connection) /\ state \in Seq(States)
  BY DEF ResolverInv, GoodIn, TypedIn
<1>2. /\ NewState(config) \in States
      /\ \A u \in DOMAIN NewState(config).pool : NewState(config).pool[u] = <<>>
  BY DEF NewState, States
<1>3. /\ new \in Seq(States) /\ DOMAIN new = DOMAIN state \cup {Len(state) + 1}
      /\ Len(state) + 1 \notin DOMAIN state
      /\ new[Len(state) + 1] = NewState(config)
      /\ \A s \in DOMAIN state : new[s] = state[s]
  BY <1>1, <1>2
<1> HIDE DEF new
<1>4. ASSUME NEW s, NEW u, NEW i, NEW c, InPool(new, s, u, i, c)
      PROVE  InPool(state, s, u, i, c)
  <2>1. s # Len(state) + 1
    BY <1>2, <1>3, <1>4 DEF InPool
  <2> QED BY <1>3, <1>4, <2>1 DEF InPool
<1>5. TypedIn(Len(state) + 1, new, query, connection)
  BY <1>1, <1>3 DEF TypedIn
<1>6. ServedIn(new, query, asked, heard)
  BY <1>1, <1>3 DEF GoodIn, ServedIn, ServedAs
<1>7. PoolsIn(new, query, connection)
  BY <1>1, <1>4 DEF GoodIn, PoolsIn
<1> QED BY <1>1, <1>5, <1>6, <1>7 DEF GoodIn, new

\* DnsService::start and update.
LEMMA StartStep == ResolverInv /\ (StartFrontend \/ Update) => ResolverInv'
<1> SUFFICES ASSUME ResolverInv, StartFrontend \/ Update
             PROVE  ResolverInv'
  OBVIOUS
<1>1. PICK config \in Config :
        Leave(Len(state) + 1, Append(state, NewState(config)), query, connection)
  BY DEF StartFrontend, Update
<1>2. asked' = asked /\ heard' = heard
  BY DEF StartFrontend, Update
<1> QED BY <1>1, <1>2, Added, Left

\* DnsService::stop: no query is served, so every state is dropped.
LEMMA StopStep == ResolverInv /\ StopFrontend => ResolverInv'
<1> SUFFICES ASSUME ResolverInv, StopFrontend
             PROVE  ResolverInv'
  OBVIOUS
<1> DEFINE qs == [q \in Query |-> IF Serving(query, q)
                                 THEN Done(query[q].state, "aborted", Unset) ELSE query[q]]
<1>1. Leave(NoState, state, qs, [c \in Connection |-> Free]) /\ asked' = asked /\ heard' = heard
  BY DEF StopFrontend
<1>2. GoodIn(current, state, query, connection, asked, heard)
      /\ TypedIn(current, state, query, connection) /\ state \in Seq(States)
      /\ ServedIn(state, query, asked, heard)
  BY DEF ResolverInv, GoodIn, TypedIn
<1>3. \A q \in Query : /\ qs[q] \in {[pc |-> "idle"]} \cup Dones
                       /\ qs[q].pc # "asking" /\ ~Serving(qs, q)
                       /\ ServedAs(state, q, qs[q], asked[q], q \in heard)
  <2> SUFFICES ASSUME NEW q \in Query
               PROVE  /\ qs[q] \in {[pc |-> "idle"]} \cup Dones
                      /\ qs[q].pc # "asking" /\ ~Serving(qs, q)
                      /\ ServedAs(state, q, qs[q], asked[q], q \in heard)
    OBVIOUS
  <2>1. CASE Serving(query, q)
    <3>1. qs[q] = Done(query[q].state, "aborted", Unset)
      BY <2>1
    <3>2. query[q].state \in Nat /\ query[q].pc = "asking"
          /\ ServedAs(state, q, query[q], asked[q], q \in heard)
      BY <1>2, <2>1, AskingFacts DEF Serving
    <3>3. qs[q] \in Dones /\ qs[q].pc = "aborted" /\ qs[q].state = query[q].state
      BY <3>1, <3>2, DoneShape
    <3> HIDE DEF qs
    <3> QED BY <3>2, <3>3 DEF ServedAs, Serving
  <2>2. CASE ~Serving(query, q)
    <3>1. qs[q] = query[q] /\ query[q].pc # "asking"
      BY <2>2 DEF Serving
    <3>2. ServedAs(state, q, query[q], asked[q], q \in heard)
      BY <1>2 DEF ServedIn
    <3>3. query[q] \in {[pc |-> "idle"]} \cup Dones
      BY <1>2, <3>1, AskingShape DEF TypedIn
    <3> HIDE DEF qs
    <3> QED BY <3>1, <3>2, <3>3 DEF Serving
  <2> QED BY <2>1, <2>2
<1>4. qs \in [Query -> {[pc |-> "idle"]} \cup Askings \cup Dones]
  <2>1. \A q \in Query : qs[q] \in {[pc |-> "idle"]} \cup Dones
    BY <1>3
  <2>2. qs = [q \in Query |-> qs[q]]
    OBVIOUS
  <2> HIDE DEF qs
  <2> QED BY <2>1, <2>2
<1> HIDE DEF qs
<1>5. current' = NoState /\ query' = qs /\ connection' = [c \in Connection |-> Free]
  BY <1>1 DEF Leave
<1>6. state' = [s \in DOMAIN state |-> Emptied(state[s])]
  <2>1. NoState \notin DOMAIN state
    BY <1>2 DEF NoState
  <2> QED BY <1>1, <1>3, <2>1 DEF Leave
<1>7. \A s \in DOMAIN state : state[s] \in States
  BY <1>2
<1>8. /\ state' \in Seq(States) /\ DOMAIN state' = DOMAIN state
      /\ \A s \in DOMAIN state : state'[s].config = state[s].config
  <2>1. \A s \in DOMAIN state : Emptied(state[s]) \in States
                                /\ Emptied(state[s]).config = state[s].config
    BY <1>7, EmptiedStates
  <2>2. DOMAIN state = 1 .. Len(state) /\ Len(state) \in Nat
    BY <1>2
  <2> QED BY <1>6, <2>1, <2>2
<1>9. \A s, u, i, c : ~InPool(state', s, u, i, c)
  <2> SUFFICES ASSUME NEW s, NEW u, NEW i, NEW c, InPool(state', s, u, i, c)
               PROVE  FALSE
    OBVIOUS
  <2>1. s \in DOMAIN state /\ u \in DOMAIN state'[s].pool /\ i \in DOMAIN state'[s].pool[u]
    BY <1>8 DEF InPool
  <2>2. state'[s] = Emptied(state[s])
    BY <1>6, <2>1
  <2>3. state'[s].pool[u] = <<>>
    BY <1>7, <2>1, <2>2, EmptiedStates
  <2> QED BY <2>1, <2>3
<1>10. TypedIn(current', state', query', connection')
  <2>1. connection' \in [Connection -> {Free} \cup Opens]
    BY <1>5
  <2>2. query' \in [Query -> {[pc |-> "idle"]} \cup Askings \cup Dones]
    BY <1>4, <1>5
  <2> QED BY <1>5, <1>8, <2>1, <2>2, Zenon DEF TypedIn
<1>11. ServedIn(state', query', asked', heard')
  BY <1>1, <1>2, <1>3, <1>5, <1>8 DEF ServedIn, ServedAs
<1>12. \A q \in Query : \A c : ~Waiting(query', q, c)
  BY <1>3, <1>5 DEF Waiting
<1> QED BY <1>9, <1>10, <1>11, <1>12 DEF ResolverInv, GoodIn, UsedIn, PoolsIn, LiveIn

\* What a name may be asked of is what its configuration names.
LEMMA NamedShape ==
  ASSUME NEW config \in Config, NEW rule \in Upstreams(config)
  PROVE  /\ Named(config, rule) \in Seq(AnyUpstream) /\ Named(config, rule) # <<>>
         /\ ToSet(Named(config, rule)) \subseteq Upstreams(config)
         /\ Locals(config) \in Seq(AnyUpstream) /\ Locals(config) # <<>>
         /\ ToSet(Locals(config)) \subseteq Upstreams(config)
<1>1. config.locals \in Seq(ToSet(config.locals))
  BY ResolverAssumption
<1>2. /\ ToSet(config.locals) \subseteq Upstreams(config) /\ Remote \in Upstreams(config)
      /\ Upstreams(config) \subseteq AnyUpstream
  BY DEF Upstreams, AnyUpstream
<1>3. ASSUME NEW u \in Upstreams(config)
      PROVE  /\ <<u>> \in Seq(AnyUpstream) /\ <<u>> # <<>>
             /\ ToSet(<<u>>) \subseteq Upstreams(config)
  <2>1. u \in AnyUpstream
    BY <1>2
  <2>2. ToSet(<<u>>) = {u}
    BY DEF ToSet
  <2> QED BY <2>1, <2>2
<1>4. /\ Locals(config) \in Seq(AnyUpstream) /\ Locals(config) # <<>>
      /\ ToSet(Locals(config)) \subseteq Upstreams(config)
  <2>1. CASE config.locals = <<>>
    <3>1. Locals(config) = <<Remote>>
      BY <2>1 DEF Locals
    <3> QED BY <1>2, <1>3, <3>1
  <2>2. CASE config.locals # <<>>
    <3>1. Locals(config) = config.locals
      BY <2>2 DEF Locals
    <3>2. config.locals \in Seq(AnyUpstream)
      <4> DEFINE L == config.locals
                 S == ToSet(config.locals)
      <4>1. L \in Seq(S) /\ S \subseteq AnyUpstream
        BY <1>1, <1>2
      <4> HIDE DEF L, S
      <4>2. L \in Seq(AnyUpstream)
        BY <4>1
      <4> QED BY <4>2 DEF L
    <3> QED BY <1>2, <2>2, <3>1, <3>2
  <2> QED BY <2>1, <2>2
<1>5. CASE rule = "local"
  BY <1>4, <1>5 DEF Named
<1>6. CASE rule = "remote"
  BY <1>2, <1>3, <1>4, <1>6 DEF Named
<1>7. CASE rule \notin {"local", "remote"}
  <2>1. Named(config, rule) = <<rule>>
    BY <1>7 DEF Named
  <2> QED BY <1>3, <1>4, <2>1
<1> QED BY <1>5, <1>6, <1>7

\* A query comes in: it is given upstreams that its configuration allows.
LEMMA ReceiveStep == ResolverInv /\ Receive => ResolverInv'
<1> SUFFICES ASSUME ResolverInv, Receive
             PROVE  ResolverInv'
  OBVIOUS
<1>1. PICK q \in Query : query[q].pc = "idle" /\ query' = [query EXCEPT ![q] = Decided(q, current)]
  BY DEF Receive
<1>2. /\ current # NoState
      /\ current' = current /\ state' = state /\ connection' = connection
      /\ asked' = asked /\ heard' = heard
  BY DEF Receive
<1>3. GoodIn(current, state, query, connection, asked, heard)
      /\ TypedIn(current, state, query, connection) /\ state \in Seq(States)
      /\ ServedIn(state, query, asked, heard) /\ LiveIn(current, state, query)
  BY DEF ResolverInv, GoodIn, TypedIn
<1> DEFINE config == state[current].config
           rule == config.rule[q]
           new == Decided(q, current)
<1>4. current \in DOMAIN state /\ current \in Nat /\ config \in Config
  <2>1. current \in DOMAIN state
    BY <1>2, <1>3 DEF TypedIn
  <2>2. state[current] \in States
    BY <1>3, <2>1
  <2> QED BY <1>3, <2>1, <2>2, StateShapes
<1>5. asked[q] = {} /\ q \notin heard
  BY <1>1, <1>3 DEF ServedIn, ServedAs
<1>6. rule \in Upstreams(config) /\ Remote \in Upstreams(config)
  BY DEF Upstreams
<1> HIDE DEF config
<1>7. ASSUME NEW phase \in {"only", "local"}, NEW ups \in Seq(AnyUpstream), ups # <<>>,
             ToSet(ups) \subseteq Allowed(config, q), ToSet(ups) \subseteq Upstreams(config),
             phase = "local" => Remote \in Allowed(config, q),
             new = Asking(current, phase, ups)
      PROVE  /\ new \in Askings \cup Dones /\ ServedAs(state, q, new, asked[q], q \in heard)
             /\ new.pc = "asking" => new.connection = Unset
  <2> HIDE DEF new
  <2>1. new \in Askings /\ new.pc = "asking" /\ new.state = current /\ new.todo = ups
        /\ new.phase = phase /\ new.local = Unset /\ new.connection = Unset
    BY <1>4, <1>7 DEF Asking, Askings
  <2> QED BY <1>4, <1>5, <1>7, <2>1 DEF ServedAs, config
<1>8. /\ new \in Askings \cup Dones /\ ServedAs(state, q, new, asked[q], q \in heard)
      /\ new.pc = "asking" => new.connection = Unset
  <2>1. CASE rule \in {"rewrite", "reject"}
    <3>1. new = Done(current, "answered", q)
      BY <2>1 DEF Decided, config
    <3> HIDE DEF new
    <3>2. new \in Dones /\ new.pc = "answered" /\ new.state = current /\ new.about = q
      BY <1>4, <3>1, DoneShape
    <3> QED BY <1>4, <1>5, <3>2 DEF ServedAs
  <2>2. CASE rule \notin {"rewrite", "reject", "none"}
    <3>1. new = Asking(current, "only", Named(config, rule))
      BY <2>2 DEF Decided, config
    <3>2. Allowed(config, q) = ToSet(Named(config, rule))
      BY <2>2 DEF Allowed
    <3>3. /\ Named(config, rule) \in Seq(AnyUpstream) /\ Named(config, rule) # <<>>
          /\ ToSet(Named(config, rule)) \subseteq Upstreams(config)
      BY <1>4, <1>6, NamedShape
    <3> QED BY <1>7, <3>1, <3>2, <3>3
  <2>3. CASE rule = "none" /\ config.responseFirst
    <3>1. new = Asking(current, "local", Locals(config))
      BY <2>3 DEF Decided, config
    <3>2. Allowed(config, q) = ToSet(Locals(config)) \cup {Remote}
      BY <2>3 DEF Allowed
    <3>3. /\ Locals(config) \in Seq(AnyUpstream) /\ Locals(config) # <<>>
          /\ ToSet(Locals(config)) \subseteq Upstreams(config)
      BY <1>4, <1>6, NamedShape
    <3> QED BY <1>7, <3>1, <3>2, <3>3
  <2>4. CASE rule = "none" /\ ~config.responseFirst
    <3>1. new = Asking(current, "only", <<Remote>>)
      BY <2>4 DEF Decided, config
    <3>2. Allowed(config, q) = {Remote}
      BY <2>4 DEF Allowed
    <3>3. <<Remote>> \in Seq(AnyUpstream) /\ <<Remote>> # <<>> /\ ToSet(<<Remote>>) = {Remote}
      BY DEF ToSet, AnyUpstream
    <3> QED BY <1>6, <1>7, <3>1, <3>2, <3>3
  <2> QED BY <2>1, <2>2, <2>3, <2>4
<1> HIDE DEF new
<1>9. GoodIn(current, state, [query EXCEPT ![q] = new], connection, asked, heard)
  BY <1>3, <1>8, Requeried
<1>10. query' = [query EXCEPT ![q] = new]
  BY <1>1 DEF new
<1>11. LiveIn(current, state, query')
  <2>1. \A p \in Query : Serving(query, p) => query'[p] = query[p] /\ Serving(query', p)
    BY <1>1, <1>3 DEF Serving, TypedIn
  <2> QED BY <1>3, <2>1 DEF LiveIn
<1> QED BY <1>2, <1>9, <1>10, <1>11 DEF ResolverInv

\* An exchange that fails lets go of its connection, which nobody else holds.
LEMMA FailStep ==
  ASSUME ResolverInv, NEW q \in Query, Serving(query, q), ExchangeFails(q)
  PROVE  ResolverInv'
<1> DEFINE qs == [query EXCEPT ![q] = Failed(q)]
           gone == {query[q].connection}
<1>1. GoodIn(current, state, query, connection, asked, heard)
      /\ TypedIn(current, state, query, connection)
  BY DEF ResolverInv, GoodIn
<1>2. /\ Failed(q) \in Askings \cup Dones
      /\ ServedAs(state, q, Failed(q), asked[q], q \in heard)
      /\ Failed(q).pc = "asking" => Failed(q).connection = Unset
  BY <1>1, FailedShape
<1>3. GoodIn(current, state, qs, connection, asked, heard)
  BY <1>1, <1>2, Requeried
<1>4. \A p \in Query : qs[p] = IF p = q THEN Failed(q) ELSE query[p]
  BY <1>1 DEF TypedIn
<1> HIDE DEF qs
<1>5. \A c \in Connection : c \in gone => Waiting(query, q, c)
  BY DEF Waiting, Serving
<1>6. \A p \in Query, c \in Connection : c \in gone => ~Waiting(qs, p, c)
  <2> SUFFICES ASSUME NEW p \in Query, NEW c \in Connection, c \in gone, Waiting(qs, p, c)
               PROVE  FALSE
    OBVIOUS
  <2>1. p # q
    BY <1>2, <1>4, ResolverAssumption DEF Waiting
  <2>2. Waiting(query, p, c)
    BY <1>4, <2>1 DEF Waiting
  <2> QED BY <1>1, <1>5, <2>1, <2>2 DEF GoodIn, UsedIn
<1>7. \A s, u, i : \A c \in gone : ~InPool(state, s, u, i, c)
  <2>1. \A s, u, i, c : InPool(state, s, u, i, c) => c \in Connection
    BY <1>1, StateShapes DEF TypedIn, InPool
  <2> QED BY <1>1, <1>5, <2>1 DEF GoodIn, PoolsIn
<1> HIDE DEF gone
<1>8. GoodIn(current, state, qs, Without(gone), asked, heard)
  <2>1. Without(gone) = Dropped(connection, gone)
    BY DEF Without, Dropped
  <2> QED BY <1>3, <1>6, <1>7, <2>1, Freed
<1>9. Leave(current, state, qs, Without(gone)) /\ asked' = asked /\ heard' = heard
  BY DEF ExchangeFails, qs, gone
<1> QED BY <1>8, <1>9, Left

\* The same for an exchange that takes too long.
LEMMA TimeOutStep == ResolverInv /\ TimesOut => ResolverInv'
BY FailStep DEF TimesOut

\* What is known of a connection in use.
LEMMA UsedFacts ==
  ASSUME GoodIn(current, state, query, connection, asked, heard),
         NEW q \in Query, Serving(query, q), query[q].connection # Unset,
         NEW c, c = query[q].connection
  PROVE  /\ c \in Connection /\ connection[c] \in Opens /\ connection[c].upstream = Target(q)
         /\ \A p \in Query : Waiting(query, p, c) => p = q
         /\ \A s, u, i : ~InPool(state, s, u, i, c)
         /\ Waiting(query, q, c)
         /\ \/ connection[c].owed = <<q>> /\ connection[c].answers = <<>>
            \/ connection[c].owed = <<>> /\ \E a \in AnswerRecords : a.about = q /\ connection[c].answers = <<a>>
<1>1. query[q] \in Askings
  BY AskingFacts
<1>2. c \in Connection
  <2>1. query[q].connection \in Connection \cup {Unset}
    BY <1>1 DEF Askings
  <2> QED BY <2>1
<1>3. Waiting(query, q, c)
  BY DEF Waiting, Serving
<1> QED BY <1>2, <1>3 DEF GoodIn, UsedIn, PoolsIn, Target

\* What is known of the pool a query may take a connection of.
LEMMA PoolFacts ==
  ASSUME GoodIn(current, state, query, connection, asked, heard),
         NEW q \in Query, Serving(query, q)
  PROVE  /\ Pool(q) \in Seq(Connection)
         /\ \A i \in DOMAIN Pool(q) : InPool(state, query[q].state, Target(q), i, Pool(q)[i])
         /\ \A i, j \in DOMAIN Pool(q) : Pool(q)[i] = Pool(q)[j] => i = j
         /\ \A i \in DOMAIN Pool(q) :
              /\ connection[Pool(q)[i]] \in Opens /\ connection[Pool(q)[i]].upstream = Target(q)
              /\ connection[Pool(q)[i]].owed = <<>> /\ connection[Pool(q)[i]].answers = <<>>
              /\ \A p \in Query : ~Waiting(query, p, Pool(q)[i])
              /\ \A t, v, j : InPool(state, t, v, j, Pool(q)[i]) =>
                    t = query[q].state /\ v = Target(q)
<1> DEFINE s == query[q].state
           u == Target(q)
<1>1. /\ s \in DOMAIN state /\ state[s] \in States /\ u \in Upstreams(state[s].config)
  BY AskingFacts
<1>2. /\ u \in DOMAIN state[s].pool /\ state[s].pool[u] \in Seq(Connection)
  <2> HIDE DEF s, u
  <2> QED BY <1>1, StateShapes
<1>3. Pool(q) = state[s].pool[u]
  BY DEF Pool
<1>4. \A i \in DOMAIN Pool(q) : InPool(state, s, u, i, Pool(q)[i])
  <2> HIDE DEF s, u
  <2> QED BY <1>1, <1>2, <1>3 DEF InPool
<1> HIDE DEF s, u
<1>5. \A i, j \in DOMAIN Pool(q) : Pool(q)[i] = Pool(q)[j] => i = j
  BY <1>4 DEF GoodIn, PoolsIn
<1>6. \A i \in DOMAIN Pool(q) :
        /\ connection[Pool(q)[i]] \in Opens /\ connection[Pool(q)[i]].upstream = u
        /\ connection[Pool(q)[i]].owed = <<>> /\ connection[Pool(q)[i]].answers = <<>>
        /\ \A p \in Query : ~Waiting(query, p, Pool(q)[i])
        /\ \A t, v, j : InPool(state, t, v, j, Pool(q)[i]) => t = s /\ v = u
  BY <1>4 DEF GoodIn, PoolsIn
<1> QED BY <1>2, <1>3, <1>4, <1>5, <1>6 DEF s, u

\* An answer is taken, and its connection is at rest when it goes back to the pool.
LEMMA ReadStep == ResolverInv /\ Read => ResolverInv'
<1> SUFFICES ASSUME ResolverInv, Read
             PROVE  ResolverInv'
  OBVIOUS
<1>1. GoodIn(current, state, query, connection, asked, heard)
      /\ TypedIn(current, state, query, connection)
  BY DEF ResolverInv, GoodIn
<1>2. PICK q \in Query :
        /\ Serving(query, q) /\ query[q].connection # Unset
        /\ LET c == query[q].connection
               answer == Head(connection[c].answers)
               pool == Recycled(q, c)
           IN  /\ connection[c].answers # <<>>
               /\ Leave(current, [state EXCEPT ![query[q].state].pool[Target(q)] = pool],
                        [query EXCEPT ![q] = Succeeded(q, answer)],
                        IF c \in ToSet(pool)
                        THEN [connection EXCEPT ![c].answers = Tail(@)] ELSE Without({c}))
               /\ heard' = heard \cup {q}
        /\ asked' = asked
  BY DEF Read
<1> DEFINE c == query[q].connection
           answer == Head(connection[c].answers)
           pool == Recycled(q, c)
           qs == [query EXCEPT ![q] = Succeeded(q, answer)]
           known == heard \cup {q}
           freed == IF c \in ToSet(pool)
                    THEN [connection EXCEPT ![c].answers = Tail(@)] ELSE Without({c})
           s == query[q].state
           u == Target(q)
<1>3. /\ c \in Connection /\ connection[c] \in Opens /\ connection[c].upstream = u
      /\ \A p \in Query : Waiting(query, p, c) => p = q
      /\ \A t, v, i : ~InPool(state, t, v, i, c)
      /\ \/ connection[c].owed = <<q>> /\ connection[c].answers = <<>>
         \/ connection[c].owed = <<>> /\ \E a \in AnswerRecords : a.about = q /\ connection[c].answers = <<a>>
  BY <1>1, <1>2, UsedFacts
<1>4. PICK a \in AnswerRecords : a.about = q /\ connection[c].answers = <<a>> /\ connection[c].owed = <<>>
  BY <1>2, <1>3
<1>5. answer.about = q /\ Tail(connection[c].answers) = <<>>
  BY <1>4
<1>6. /\ Succeeded(q, answer) \in Askings \cup Dones
      /\ ServedAs(state, q, Succeeded(q, answer), asked[q], q \in known)
      /\ Succeeded(q, answer).pc = "asking" => Succeeded(q, answer).connection = Unset
  <2> HIDE DEF answer, known
  <2> QED BY <1>1, <1>2, <1>5, SucceededShape
<1>7. GoodIn(current, state, qs, connection, asked, known)
  <2>1. \A p \in Query : p # q => (p \in known <=> p \in heard)
    OBVIOUS
  <2> HIDE DEF answer, known
  <2> QED BY <1>1, <1>2, <1>6, <2>1, Requeried
<1>8. \A p \in Query : qs[p] = IF p = q THEN Succeeded(q, answer) ELSE query[p]
  BY <1>1 DEF TypedIn
<1>9. \A p \in Query, d \in Connection : Waiting(qs, p, d) => Waiting(query, p, d) /\ p # q
  <2> HIDE DEF qs, answer
  <2> QED BY <1>6, <1>8, ResolverAssumption DEF Waiting
<1>10. \A p \in Query : ~Waiting(qs, p, c)
  <2> HIDE DEF qs, c
  <2> QED BY <1>3, <1>9
<1>11. freed = [connection EXCEPT ![c] = IF c \in ToSet(pool)
                  THEN Link(connection[c], <<>>, <<>>, connection[c].open) ELSE Free]
  <2>1. CASE c \in ToSet(pool)
    <3>1. freed = [connection EXCEPT ![c] = [connection[c] EXCEPT !.answers = Tail(connection[c].answers)]]
      BY <2>1
    <3>2. [connection[c] EXCEPT !.answers = <<>>]
            = Link(connection[c], connection[c].owed, <<>>, connection[c].open)
      <4> HIDE DEF c
      <4> QED BY <1>3, LinkShape
    <3>3. [connection[c] EXCEPT !.answers = Tail(connection[c].answers)]
            = Link(connection[c], <<>>, <<>>, connection[c].open)
      <4> HIDE DEF c
      <4> QED BY <1>4, <1>5, <3>2, Zenon
    <3> HIDE DEF c, pool, freed
    <3> QED BY <2>1, <3>1, <3>3, Zenon
  <2>2. CASE c \notin ToSet(pool)
    <3>1. freed = [d \in Connection |-> IF d = c THEN Free ELSE connection[d]]
      BY <2>2 DEF Without
    <3>2. connection = [d \in Connection |-> connection[d]]
      BY <1>1 DEF TypedIn
    <3>3. [connection EXCEPT ![c] = Free] = [d \in Connection |-> IF d = c THEN Free ELSE connection[d]]
      BY <1>1, <1>3, <3>2 DEF TypedIn
    <3> HIDE DEF c, pool, freed
    <3> QED BY <2>2, <3>1, <3>3
  <2> QED BY <2>1, <2>2
<1>12. Link(connection[c], <<>>, <<>>, connection[c].open) \in Opens
  <2> HIDE DEF c
  <2>1. connection[c].upstream \in AnyUpstream /\ connection[c].open \in BOOLEAN
    BY <1>3, ConnectionShapes
  <2> QED BY <2>1 DEF Link, Opens
<1> DEFINE link == IF c \in ToSet(pool)
                  THEN Link(connection[c], <<>>, <<>>, connection[c].open) ELSE Free
<1>13. link \in {Free} \cup Opens
  BY <1>12
<1>14. freed = [connection EXCEPT ![c] = link]
  BY <1>11
<1>15. GoodIn(current, state, qs, freed, asked, known)
  <2> HIDE DEF c, qs, freed, known, link
  <2>1. GoodIn(current, state, qs, [connection EXCEPT ![c] = link], asked, known)
    BY <1>3, <1>7, <1>10, <1>13, Relinked
  <2> QED BY <1>14, <2>1
<1>16. /\ Pool(q) \in Seq(Connection)
       /\ \A i \in DOMAIN Pool(q) : InPool(state, s, u, i, Pool(q)[i])
       /\ \A i, j \in DOMAIN Pool(q) : Pool(q)[i] = Pool(q)[j] => i = j
       /\ \A i \in DOMAIN Pool(q) :
            /\ connection[Pool(q)[i]] \in Opens /\ connection[Pool(q)[i]].upstream = u
            /\ connection[Pool(q)[i]].owed = <<>> /\ connection[Pool(q)[i]].answers = <<>>
            /\ \A p \in Query : ~Waiting(query, p, Pool(q)[i])
            /\ \A t, v, j : InPool(state, t, v, j, Pool(q)[i]) => t = s /\ v = u
  BY <1>1, <1>2, PoolFacts
<1>17. \A i \in DOMAIN Pool(q) : Pool(q)[i] # c /\ Pool(q)[i] \in Connection
  <2> HIDE DEF c, s, u
  <2> QED BY <1>3, <1>16
<1>18. \A d \in Connection : freed[d] = IF d = c THEN link ELSE connection[d]
  <2> HIDE DEF c, link, freed
  <2> QED BY <1>1, <1>14 DEF TypedIn
<1>19. pool = Append(Pool(q), c) \/ pool = Pool(q)
  BY DEF Recycled
<1>20. pool \in Seq(Connection)
  <2> HIDE DEF c, pool
  <2> QED BY <1>3, <1>16, <1>19
<1>21. ASSUME NEW i \in DOMAIN pool
       PROVE  \/ i \in DOMAIN Pool(q) /\ pool[i] = Pool(q)[i]
              \/ i = Len(Pool(q)) + 1 /\ pool[i] = c /\ pool = Append(Pool(q), c)
  <2> HIDE DEF c, pool
  <2> QED BY <1>3, <1>16, <1>19
<1>22. pool = Append(Pool(q), c) => c \in ToSet(pool)
  <2> HIDE DEF c, pool
  <2>1. pool = Append(Pool(q), c) => Len(Pool(q)) + 1 \in DOMAIN pool /\ pool[Len(Pool(q)) + 1] = c
    BY <1>3, <1>16
  <2> QED BY <2>1 DEF ToSet
<1>23. \A i, j \in DOMAIN pool : pool[i] = pool[j] => i = j
  <2> HIDE DEF c, pool, s, u
  <2> QED BY <1>16, <1>17, <1>21
<1>25. ASSUME NEW i \in DOMAIN pool
       PROVE  /\ freed[pool[i]] \in Opens /\ freed[pool[i]].upstream = u
              /\ freed[pool[i]].owed = <<>> /\ freed[pool[i]].answers = <<>>
              /\ \A p \in Query : ~Waiting(qs, p, pool[i])
              /\ \A t, v, j : InPool(state, t, v, j, pool[i]) => t = s /\ v = u
  <2>1. CASE i \in DOMAIN Pool(q) /\ pool[i] = Pool(q)[i]
    <3> HIDE DEF c, pool, s, u, freed, qs, link
    <3> QED BY <1>9, <1>16, <1>17, <1>18, <2>1
  <2>2. CASE pool[i] = c /\ pool = Append(Pool(q), c)
    <3>1. link = Link(connection[c], <<>>, <<>>, connection[c].open)
      BY <1>22, <2>2
    <3> HIDE DEF c, pool, s, u, freed, qs, link
    <3>2. freed[c] = link
      BY <1>3, <1>18
    <3>3. link \in Opens /\ link.upstream = u /\ link.owed = <<>> /\ link.answers = <<>>
      BY <1>3, <1>12, <3>1 DEF Link
    <3> QED BY <1>3, <1>10, <2>2, <3>2, <3>3
  <2> HIDE DEF c, pool, s, u, freed, qs, link
  <2> QED BY <1>21, <2>1, <2>2
<1>26. s \in DOMAIN state /\ u \in Upstreams(state[s].config)
  BY <1>1, <1>2, AskingFacts
<1> HIDE DEF c, answer, pool, qs, known, freed, s, u, link
<1>27. GoodIn(current, WithPool(state, s, u, pool), qs, freed, asked, known)
  BY <1>15, <1>20, <1>23, <1>25, <1>26, Repooled
<1>28. Leave(current, WithPool(state, s, u, pool), qs, freed) /\ heard' = known /\ asked' = asked
  BY <1>2, Zenon DEF WithPool, c, answer, pool, qs, known, freed, s, u
<1> QED BY <1>27, <1>28, Left

\* A query is sent on c: rest is left of the pool, gone are the connections that are dropped.
ExchangedBy(q, rest, c, pooled, open, gone) ==
  LET st == WithPool(state, query[q].state, Target(q), rest)
      link == [upstream |-> Target(q), owed |-> <<q>>, answers |-> <<>>, open |-> open]
  IN  /\ rest \in Seq(Connection)
      /\ \A i, j \in DOMAIN rest : rest[i] = rest[j] => i = j
      /\ \A i \in DOMAIN rest : \E j \in DOMAIN Pool(q) : rest[i] = Pool(q)[j]
      /\ \A p \in Query : ~Waiting(query, p, c)
      /\ \A s, u, i : ~InPool(st, s, u, i, c)
      /\ c \notin gone
      /\ \A p \in Query, d \in Connection : d \in gone /\ p # q => ~Waiting(query, p, d)
      /\ \A s, u, i : \A d \in gone : ~InPool(st, s, u, i, d)
      /\ current' = current /\ heard' = heard /\ state' = st
      /\ query' = Used(query, q, c, pooled)
      /\ asked' = [asked EXCEPT ![q] = @ \cup {Target(q)}]
      /\ connection' = Dropped([connection EXCEPT ![c] = link], gone)
LEMMA Exchanged ==
  ASSUME ResolverInv, NEW q \in Query, Serving(query, q), NEW rest,
         NEW c \in Connection, NEW pooled \in BOOLEAN, NEW open \in BOOLEAN,
         NEW gone, ExchangedBy(q, rest, c, pooled, open, gone)
  PROVE  ResolverInv'
<1> DEFINE s0 == query[q].state
           u0 == Target(q)
           st == WithPool(state, s0, u0, rest)
           qs == Used(query, q, c, pooled)
           link == [upstream |-> u0, owed |-> <<q>>, answers |-> <<>>, open |-> open]
           cs == [connection EXCEPT ![c] = link]
           as == [asked EXCEPT ![q] = @ \cup {u0}]
<1>0. /\ rest \in Seq(Connection)
      /\ \A i, j \in DOMAIN rest : rest[i] = rest[j] => i = j
      /\ \A i \in DOMAIN rest : \E j \in DOMAIN Pool(q) : rest[i] = Pool(q)[j]
      /\ \A p \in Query : ~Waiting(query, p, c)
      /\ \A s, u, i : ~InPool(st, s, u, i, c)
      /\ c \notin gone
      /\ \A p \in Query, d \in Connection : d \in gone /\ p # q => ~Waiting(query, p, d)
      /\ \A s, u, i : \A d \in gone : ~InPool(st, s, u, i, d)
      /\ current' = current /\ heard' = heard /\ state' = st /\ query' = qs /\ asked' = as
      /\ connection' = Dropped(cs, gone)
  BY DEF ExchangedBy
<1>1. /\ GoodIn(current, state, query, connection, asked, heard)
      /\ TypedIn(current, state, query, connection) /\ LiveIn(current, state, query)
      /\ state \in Seq(States)
  BY DEF ResolverInv, GoodIn, TypedIn
<1>2. /\ query[q] \in Askings /\ s0 \in DOMAIN state /\ u0 \in Upstreams(state[s0].config)
      /\ query[q].pc = "asking" /\ u0 = Head(query[q].todo)
  BY <1>1, AskingFacts, AskingShape DEF Target
<1>3. \A i \in DOMAIN rest :
        /\ connection[rest[i]] \in Opens /\ connection[rest[i]].upstream = u0
        /\ connection[rest[i]].owed = <<>> /\ connection[rest[i]].answers = <<>>
        /\ \A p \in Query : ~Waiting(query, p, rest[i])
        /\ \A t, v, j : InPool(state, t, v, j, rest[i]) => t = s0 /\ v = u0
  BY <1>0, <1>1, PoolFacts
<1>4. Replaced(state, s0, u0, rest, st)
  <2> HIDE DEF s0, u0
  <2> QED BY <1>0, <1>1, <1>2, PoolReplaced
<1>5. GoodIn(current, st, query, connection, asked, heard)
  <2> HIDE DEF s0, u0
  <2> QED BY <1>0, <1>1, <1>2, <1>3, Repooled
<1> HIDE DEF st
<1>6. /\ \A s, u, i : ~InPool(st, s, u, i, c)
      /\ \A s, u, i : \A d \in gone : ~InPool(st, s, u, i, d)
  BY <1>0
<1>7. GoodIn(current, st, qs, cs, as, heard)
  <2> DEFINE made == [connection EXCEPT ![c] = [upstream |-> Head(query[q].todo), owed |-> <<q>>,
                                               answers |-> <<>>, open |-> open]]
             seen == [asked EXCEPT ![q] = @ \cup {Head(query[q].todo)}]
  <2>1. GoodIn(current, st, Used(query, q, c, pooled), made, seen, heard)
    BY <1>0, <1>2, <1>5, <1>6, Sent
  <2>2. made = cs /\ seen = as
    BY <1>2
  <2> HIDE DEF made, seen, cs, as
  <2> QED BY <2>1, <2>2
<1>8. \A p \in Query : /\ Serving(query, p) <=> Serving(qs, p)
                       /\ Serving(query, p) => qs[p].state = query[p].state
                       /\ p # q => qs[p] = query[p]
                       /\ p = q => qs[p].connection = c
  <2>1. qs = [query EXCEPT ![q] = Using(query[q], c, pooled)]
    BY <1>2, UsingShape
  <2>2. /\ Using(query[q], c, pooled).pc = "asking"
        /\ Using(query[q], c, pooled).state = query[q].state
        /\ Using(query[q], c, pooled).connection = c
    BY <1>2 DEF Using
  <2> HIDE DEF qs
  <2> QED BY <1>1, <1>2, <2>1, <2>2 DEF TypedIn, Serving
<1> HIDE DEF qs, cs, as
<1>9. \A p \in Query, d \in Connection : d \in gone => ~Waiting(qs, p, d)
  BY <1>0, <1>8 DEF Waiting
<1>10. GoodIn(current, st, qs, Dropped(cs, gone), as, heard)
  BY <1>6, <1>7, <1>9, Freed
<1>12. LiveIn(current, st, qs)
  <2> SUFFICES ASSUME NEW s \in DOMAIN st, NEW u, NEW i, NEW d, InPool(st, s, u, i, d)
               PROVE  s = current \/ \E p \in Query : Serving(qs, p) /\ qs[p].state = s
    BY DEF LiveIn
  <2>1. CASE s = s0
    BY <1>8, <2>1
  <2>2. CASE s # s0
    <3>1. InPool(state, s, u, i, d) /\ s \in DOMAIN state
      BY <1>4, <2>2 DEF Replaced
    <3> QED BY <1>1, <1>8, <3>1 DEF LiveIn
  <2> QED BY <2>1, <2>2
<1> QED BY <1>0, <1>10, <1>12 DEF ResolverInv

\* The latest pooled connection is taken, and older ones may be dropped.
LEMMA ReuseStep ==
  ASSUME ResolverInv, NEW q \in Query, Serving(query, q), Reuse(q)
  PROVE  ResolverInv'
<1> DEFINE old == Pool(q)
           c == Last(old)
           s0 == query[q].state
           u0 == Target(q)
<1>1. /\ GoodIn(current, state, query, connection, asked, heard)
      /\ TypedIn(current, state, query, connection) /\ state \in Seq(States)
  BY DEF ResolverInv, GoodIn, TypedIn
<1>2. PICK i \in 1 .. Len(old) :
        /\ Pooling(q, SubSeq(old, i, Len(old) - 1))
        /\ connection' = [Without(ToSet(SubSeq(old, 1, i - 1))) EXCEPT ![c].owed = Append(@, q)]
        /\ Sends(q, c, TRUE)
  BY DEF Reuse
<1> DEFINE rest == SubSeq(old, i, Len(old) - 1)
           gone == ToSet(SubSeq(old, 1, i - 1))
           st == WithPool(state, s0, u0, rest)
<1>3. /\ old \in Seq(Connection)
      /\ \A j \in DOMAIN old : InPool(state, s0, u0, j, old[j])
      /\ \A j, k \in DOMAIN old : old[j] = old[k] => j = k
      /\ \A j \in DOMAIN old :
           /\ connection[old[j]] \in Opens /\ connection[old[j]].upstream = u0
           /\ connection[old[j]].owed = <<>> /\ connection[old[j]].answers = <<>>
           /\ \A p \in Query : ~Waiting(query, p, old[j])
           /\ \A t, v, k : InPool(state, t, v, k, old[j]) => t = s0 /\ v = u0
  BY <1>1, PoolFacts
<1>4. s0 \in DOMAIN state /\ u0 \in Upstreams(state[s0].config)
  BY <1>1, AskingFacts
<1> HIDE DEF old, s0, u0
<1>5. /\ Len(old) \in DOMAIN old /\ c = old[Len(old)] /\ Len(old) \in Nat /\ DOMAIN old = 1 .. Len(old)
      /\ i \in Nat /\ i <= Len(old) /\ 1 <= i
  BY <1>2, <1>3 DEF Last
<1>6. /\ rest \in Seq(Connection)
      /\ \A j \in DOMAIN rest : j + i - 1 \in DOMAIN old /\ rest[j] = old[j + i - 1]
                                /\ j + i - 1 >= i /\ j + i - 1 < Len(old) /\ j \in Int
  BY <1>3, <1>5
<1>7. \A d \in gone : \E j \in DOMAIN old : j < i /\ d = old[j]
  <2>1. /\ DOMAIN SubSeq(old, 1, i - 1) = 1 .. i - 1
        /\ \A j \in 1 .. i - 1 : SubSeq(old, 1, i - 1)[j] = old[j] /\ j \in DOMAIN old /\ j < i
    BY <1>3, <1>5
  <2> QED BY <2>1 DEF ToSet
<1> HIDE DEF rest, gone, c
<1>8. /\ \A j, k \in DOMAIN rest : rest[j] = rest[k] => j = k
      /\ \A j \in DOMAIN rest : \E k \in DOMAIN old : rest[j] = old[k]
  BY <1>3, <1>5, <1>6
<1>9. Replaced(state, s0, u0, rest, st)
  BY <1>1, <1>4, <1>6, PoolReplaced
<1> HIDE DEF st
<1>10. ASSUME NEW k \in DOMAIN old, k < i \/ k = Len(old), NEW s, NEW u, NEW j,
              InPool(st, s, u, j, old[k])
       PROVE  FALSE
  <2>1. CASE s = s0 /\ u = u0
    <3>1. j \in DOMAIN rest /\ rest[j] = old[k]
      BY <1>9, <1>10, <2>1 DEF Replaced
    <3>2. j + i - 1 = k
      BY <1>3, <1>6, <3>1
    <3> QED BY <1>5, <1>6, <1>10, <3>1, <3>2
  <2>2. CASE ~(s = s0 /\ u = u0)
    <3>1. InPool(state, s, u, j, old[k])
      BY <1>9, <1>10, <2>2 DEF Replaced
    <3> QED BY <1>3, <2>2, <3>1
  <2> QED BY <2>1, <2>2
<1>11. /\ c \in Connection /\ connection[c] \in Opens /\ connection[c].upstream = u0
       /\ connection[c].owed = <<>> /\ connection[c].answers = <<>>
       /\ \A p \in Query : ~Waiting(query, p, c)
  BY <1>3, <1>5
<1>12. c \notin gone
  BY <1>3, <1>5, <1>7
<1>13. /\ \A s, u, j : ~InPool(st, s, u, j, c)
       /\ \A s, u, j : \A d \in gone : ~InPool(st, s, u, j, d)
       /\ \A p \in Query, d \in Connection : d \in gone /\ p # q => ~Waiting(query, p, d)
  BY <1>3, <1>5, <1>7, <1>10
<1>14. PICK open \in BOOLEAN : open = connection[c].open
  BY <1>11, ConnectionShapes
<1> DEFINE link == [upstream |-> u0, owed |-> <<q>>, answers |-> <<>>, open |-> open]
<1>15. connection' = Dropped([connection EXCEPT ![c] = link], gone)
  <2>1. Without(gone) = [d \in Connection |-> IF d \in gone THEN Free ELSE connection[d]]
    BY DEF Without
  <2>2. Without(gone)[c] = connection[c]
    BY <1>11, <1>12, <2>1
  <2>3. [connection[c] EXCEPT !.owed = <<q>>] = link
    <3>1. [connection[c] EXCEPT !.owed = <<q>>]
            = Link(connection[c], <<q>>, connection[c].answers, connection[c].open)
      BY <1>11, LinkShape
    <3> QED BY <1>11, <1>14, <3>1, Zenon DEF Link
  <2>4. Append(connection[c].owed, q) = <<q>>
    BY <1>11
  <2>5. connection' = [Without(gone) EXCEPT ![c] = [connection[c] EXCEPT !.owed = <<q>>]]
    <3>1. connection' = [Without(gone) EXCEPT
                           ![c] = [Without(gone)[c] EXCEPT !.owed = Append(Without(gone)[c].owed, q)]]
      BY <1>2, Zenon DEF gone
    <3> QED BY <2>2, <2>4, <3>1, Zenon
  <2>6. connection' = [Without(gone) EXCEPT ![c] = link]
    BY <2>3, <2>5, Zenon
  <2> HIDE DEF link
  <2>7. connection \in [Connection -> {Free} \cup Opens]
    BY <1>1 DEF TypedIn
  <2> QED BY <1>11, <1>12, <2>1, <2>6, <2>7 DEF Dropped
<1>16. /\ current' = current /\ heard' = heard
       /\ query' = Used(query, q, c, TRUE) /\ asked' = [asked EXCEPT ![q] = @ \cup {u0}]
  BY <1>2 DEF Sends, Used, u0
<1>17. state' = st
  BY <1>2 DEF Pooling, WithPool, st, s0, u0, rest
<1>18. ExchangedBy(q, rest, c, TRUE, open, gone)
  BY <1>6, <1>8, <1>11, <1>12, <1>13, <1>15, <1>16, <1>17 DEF ExchangedBy, st, s0, u0, old
<1> QED BY <1>11, <1>18, Exchanged

\* A connection that is free is opened in place of those that are dropped.
LEMMA OpenedShape ==
  ASSUME NEW q \in Query, NEW dropped, NEW c \in Connection, connection[c] = Free,
         connection \in [Connection -> {Free} \cup Opens], c \notin dropped,
         connection' = [Without(dropped) EXCEPT
           ![c] = [upstream |-> Target(q), owed |-> <<q>>, answers |-> <<>>, open |-> TRUE]]
  PROVE  connection' = Dropped([connection EXCEPT
           ![c] = [upstream |-> Target(q), owed |-> <<q>>, answers |-> <<>>, open |-> TRUE]], dropped)
<1> DEFINE link == [upstream |-> Target(q), owed |-> <<q>>, answers |-> <<>>, open |-> TRUE]
<1>1. connection' = [Without(dropped) EXCEPT ![c] = link]
  OBVIOUS
<1> HIDE DEF link
<1>2. connection' = Dropped([connection EXCEPT ![c] = link], dropped)
  BY <1>1 DEF Without, Dropped
<1> QED BY <1>2 DEF link

\* Without a pooled connection that still serves, a new one is opened.
LEMMA ConnectStep ==
  ASSUME ResolverInv, NEW q \in Query, Serving(query, q), Connect(q)
  PROVE  ResolverInv'
<1> DEFINE gone == ToSet(Pool(q))
           s0 == query[q].state
           u0 == Target(q)
           st == WithPool(state, s0, u0, <<>>)
           link == [upstream |-> u0, owed |-> <<q>>, answers |-> <<>>, open |-> TRUE]
<1>1. /\ GoodIn(current, state, query, connection, asked, heard)
      /\ TypedIn(current, state, query, connection) /\ state \in Seq(States)
      /\ connection \in [Connection -> {Free} \cup Opens]
  BY DEF ResolverInv, GoodIn, TypedIn
<1>2. PICK c \in Connection :
        /\ connection[c] = Free
        /\ connection' = [Without(gone) EXCEPT ![c] = link]
        /\ Sends(q, c, FALSE)
  BY DEF Connect, OpenNew
<1>3. /\ s0 \in DOMAIN state /\ u0 \in Upstreams(state[s0].config)
  BY <1>1, AskingFacts
<1>4. \A d \in gone : \E i \in DOMAIN Pool(q) : d = Pool(q)[i]
  BY DEF ToSet
<1>5. \A i \in DOMAIN Pool(q) :
        /\ connection[Pool(q)[i]] \in Opens
        /\ \A p \in Query : ~Waiting(query, p, Pool(q)[i])
        /\ \A t, v, j : InPool(state, t, v, j, Pool(q)[i]) => t = s0 /\ v = u0
  BY <1>1, PoolFacts
<1> HIDE DEF gone, s0, u0, link
<1>6. c \notin gone
  BY <1>2, <1>4, <1>5, ConnectionShapes
<1>7. \A p \in Query : ~Waiting(query, p, c)
  BY <1>1, <1>2, ConnectionShapes DEF GoodIn, UsedIn
<1>8. \A s, u, i : ~InPool(state, s, u, i, c)
  BY <1>1, <1>2, ConnectionShapes DEF GoodIn, PoolsIn
<1>9. <<>> \in Seq(Connection) /\ DOMAIN <<>> = {}
  OBVIOUS
<1>10. Replaced(state, s0, u0, <<>>, st)
  BY <1>1, <1>3, <1>9, PoolReplaced
<1> HIDE DEF st
<1>11. \A s, u, i, d : InPool(st, s, u, i, d) => InPool(state, s, u, i, d) /\ ~(s = s0 /\ u = u0)
  BY <1>9, <1>10 DEF Replaced
<1>12. connection' = Dropped([connection EXCEPT ![c] = link], gone)
  BY <1>1, <1>2, <1>6, OpenedShape DEF link, u0
<1>13. /\ current' = current /\ heard' = heard
       /\ query' = Used(query, q, c, FALSE) /\ asked' = [asked EXCEPT ![q] = @ \cup {u0}]
  BY <1>2 DEF Sends, Used, u0
<1>14. state' = st
  BY DEF Connect, Pooling, WithPool, st, s0, u0
<1>15. /\ \A s, u, i : ~InPool(st, s, u, i, c)
       /\ \A s, u, i : \A d \in gone : ~InPool(st, s, u, i, d)
       /\ \A p \in Query, d \in Connection : d \in gone /\ p # q => ~Waiting(query, p, d)
  BY <1>4, <1>5, <1>8, <1>11
<1>16. ExchangedBy(q, <<>>, c, FALSE, TRUE, gone)
  BY <1>6, <1>7, <1>9, <1>12, <1>13, <1>14, <1>15 DEF ExchangedBy, st, s0, u0, link
<1> QED BY <1>16, Exchanged

\* Every way an exchange begins.
LEMMA BeginStep == ResolverInv /\ BeginExchange => ResolverInv'
BY ReuseStep, ConnectStep, FailStep DEF BeginExchange, ConnectFails

\* A pool in its own place.
LEMMA SamePool ==
  ASSUME NEW st \in Seq(States), NEW s \in DOMAIN st, NEW u \in DOMAIN st[s].pool
  PROVE  WithPool(st, s, u, st[s].pool[u]) = st
<1> DEFINE r == st[s]
           p == [r.pool EXCEPT ![u] = r.pool[u]]
<1>1. /\ r.pool \in [Upstreams(r.config) -> Seq(Connection)]
      /\ r = [config |-> r.config, pool |-> r.pool]
  BY StateShapes
<1>2. p = r.pool
  BY <1>1
<1>3. [st[s] EXCEPT !.pool = p] = st[s]
  <2>1. [st[s] EXCEPT !.pool = p] = [config |-> r.config, pool |-> p]
    <3> HIDE DEF p
    <3> QED BY <1>1, PoolChanged, Zenon
  <2> HIDE DEF p
  <2> QED BY <1>1, <1>2, <2>1, Zenon
<1>4. WithPool(st, s, u, st[s].pool[u]) = [st EXCEPT ![s] = [st[s] EXCEPT !.pool = p]]
  BY DEF WithPool
<1>5. [st EXCEPT ![s] = st[s]] = st
  OBVIOUS
<1> HIDE DEF p
<1> QED BY <1>3, <1>4, <1>5, Zenon

\* A broken connection is replaced by a new one, or the exchange fails.
LEMMA BrokenStep == ResolverInv /\ Broken => ResolverInv'
<1> SUFFICES ASSUME ResolverInv, Broken
             PROVE  ResolverInv'
  OBVIOUS
<1>1. PICK q \in Query :
        /\ Serving(query, q) /\ query[q].connection # Unset
        /\ \/ OpenNew(q, {query[q].connection}) /\ state' = state
           \/ ExchangeFails(q)
  BY DEF Broken
<1>2. CASE ExchangeFails(q)
  BY <1>1, <1>2, FailStep
<1>3. CASE OpenNew(q, {query[q].connection}) /\ state' = state
  <2> DEFINE old == query[q].connection
             gone == {old}
             s0 == query[q].state
             u0 == Target(q)
             link == [upstream |-> u0, owed |-> <<q>>, answers |-> <<>>, open |-> TRUE]
  <2>1. /\ GoodIn(current, state, query, connection, asked, heard)
        /\ TypedIn(current, state, query, connection) /\ state \in Seq(States)
        /\ connection \in [Connection -> {Free} \cup Opens]
    BY DEF ResolverInv, GoodIn, TypedIn
  <2>2. PICK c \in Connection :
          /\ connection[c] = Free
          /\ connection' = [Without(gone) EXCEPT ![c] = link]
          /\ Sends(q, c, FALSE)
    BY <1>3 DEF OpenNew
  <2>3. /\ old \in Connection /\ connection[old] \in Opens
        /\ \A p \in Query : Waiting(query, p, old) => p = q
        /\ \A s, u, i : ~InPool(state, s, u, i, old)
    BY <1>1, <2>1, UsedFacts
  <2>4. s0 \in DOMAIN state /\ state[s0] \in States /\ u0 \in Upstreams(state[s0].config)
    BY <1>1, <2>1, AskingFacts
  <2>5. u0 \in DOMAIN state[s0].pool
    <3> HIDE DEF s0, u0
    <3> QED BY <2>4, StateShapes
  <2>6. WithPool(state, s0, u0, Pool(q)) = state
    <3>1. Pool(q) = state[s0].pool[u0]
      BY DEF Pool
    <3> HIDE DEF s0, u0
    <3> QED BY <2>1, <2>4, <2>5, <3>1, SamePool
  <2>7. /\ Pool(q) \in Seq(Connection)
        /\ \A i, j \in DOMAIN Pool(q) : Pool(q)[i] = Pool(q)[j] => i = j
    BY <1>1, <2>1, PoolFacts
  <2> HIDE DEF gone, s0, u0, link, old
  <2>8. c \notin gone
    BY <2>2, <2>3, ConnectionShapes DEF gone
  <2>9. /\ \A p \in Query : ~Waiting(query, p, c)
        /\ \A s, u, i : ~InPool(state, s, u, i, c)
    BY <2>1, <2>2, ConnectionShapes DEF GoodIn, UsedIn, PoolsIn
  <2>10. connection' = Dropped([connection EXCEPT ![c] = link], gone)
    BY <2>1, <2>2, <2>8, OpenedShape DEF link, u0
  <2>11. /\ current' = current /\ heard' = heard
         /\ query' = Used(query, q, c, FALSE) /\ asked' = [asked EXCEPT ![q] = @ \cup {u0}]
    BY <2>2 DEF Sends, Used, u0
  <2>12. /\ \A s, u, i : \A d \in gone : ~InPool(state, s, u, i, d)
         /\ \A p \in Query, d \in Connection : d \in gone /\ p # q => ~Waiting(query, p, d)
    BY <2>3 DEF gone
  <2>13. ExchangedBy(q, Pool(q), c, FALSE, TRUE, gone)
    BY <1>3, <2>6, <2>7, <2>8, <2>9, <2>10, <2>11, <2>12 DEF ExchangedBy, s0, u0, link
  <2> QED BY <1>1, <2>13, Exchanged
<1> QED BY <1>1, <1>2, <1>3

\* The servers touch nothing but their connection, whose query keeps waiting.
LEMMA ServedStep ==
  ASSUME ResolverInv, NEW c \in Connection, NEW link \in Opens,
         connection[c] \in Opens, link.upstream = connection[c].upstream,
         \/ link.owed = connection[c].owed /\ link.answers = connection[c].answers
         \/ /\ connection[c].owed # <<>>
            /\ \A q : connection[c].owed = <<q>> /\ connection[c].answers = <<>> =>
                 link.owed = <<>> /\ \E a \in AnswerRecords : a.about = q /\ link.answers = <<a>>,
         connection' = [connection EXCEPT ![c] = link],
         current' = current, state' = state, query' = query, asked' = asked, heard' = heard
  PROVE  ResolverInv'
<1>1. /\ GoodIn(current, state, query, connection, asked, heard)
      /\ TypedIn(current, state, query, connection) /\ LiveIn(current, state, query)
  BY DEF ResolverInv, GoodIn
<1>2. /\ connection' \in [Connection -> {Free} \cup Opens]
      /\ \A d \in Connection : connection'[d] = IF d = c THEN link ELSE connection[d]
  BY <1>1 DEF TypedIn
<1>3. TypedIn(current, state, query, connection')
  BY <1>1, <1>2 DEF TypedIn
<1>4. UsedIn(query, connection')
  <2> SUFFICES ASSUME NEW q \in Query, NEW d \in Connection, Waiting(query, q, d)
               PROVE  /\ connection'[d] \in Opens
                      /\ connection'[d].upstream = Head(query[q].todo)
                      /\ \/ connection'[d].owed = <<q>> /\ connection'[d].answers = <<>>
                         \/ /\ connection'[d].owed = <<>>
                            /\ \E a \in AnswerRecords : a.about = q /\ connection'[d].answers = <<a>>
                      /\ \A p \in Query : Waiting(query, p, d) => p = q
    BY DEF UsedIn
  <2>1. /\ connection[d] \in Opens /\ connection[d].upstream = Head(query[q].todo)
        /\ \/ connection[d].owed = <<q>> /\ connection[d].answers = <<>>
           \/ /\ connection[d].owed = <<>>
              /\ \E a \in AnswerRecords : a.about = q /\ connection[d].answers = <<a>>
        /\ \A p \in Query : Waiting(query, p, d) => p = q
    BY <1>1 DEF GoodIn, UsedIn
  <2> QED BY <1>2, <2>1
<1>5. PoolsIn(state, query, connection')
  <2> SUFFICES ASSUME NEW s, NEW u, NEW i, NEW d, InPool(state, s, u, i, d)
               PROVE  /\ connection'[d] \in Opens /\ connection'[d].upstream = u
                      /\ connection'[d].owed = <<>> /\ connection'[d].answers = <<>>
                      /\ \A q \in Query : ~Waiting(query, q, d)
                      /\ \A t, v, j : InPool(state, t, v, j, d) => t = s /\ v = u /\ j = i
    BY DEF PoolsIn
  <2>1. d \in Connection
    BY <1>1, StateShapes DEF TypedIn, InPool
  <2>2. /\ connection[d] \in Opens /\ connection[d].upstream = u
        /\ connection[d].owed = <<>> /\ connection[d].answers = <<>>
        /\ \A q \in Query : ~Waiting(query, q, d)
        /\ \A t, v, j : InPool(state, t, v, j, d) => t = s /\ v = u /\ j = i
    BY <1>1 DEF GoodIn, PoolsIn
  <2> QED BY <1>2, <2>1, <2>2
<1> QED BY <1>1, <1>3, <1>4, <1>5 DEF ResolverInv, GoodIn

\* An answer or the end of a connection.
LEMMA AnswerStep == ResolverInv /\ (Answer \/ Close) => ResolverInv'
<1> SUFFICES ASSUME ResolverInv, Answer \/ Close
             PROVE  ResolverInv'
  OBVIOUS
<1>1. connection \in [Connection -> {Free} \cup Opens]
  BY DEF ResolverInv, GoodIn, TypedIn
<1>2. CASE Answer
  <2>1. PICK c \in Connection, kind \in {"domestic", "foreign"} :
          /\ connection[c] # Free /\ connection[c].open /\ connection[c].owed # <<>>
          /\ connection' = [connection EXCEPT
               ![c].owed = Tail(@),
               ![c].answers = Append(@, [about |-> Head(connection[c].owed), kind |-> kind])]
    BY <1>2 DEF Answer
  <2> DEFINE r == connection[c]
             a == [about |-> Head(connection[c].owed), kind |-> kind]
             link == Link(r, Tail(r.owed), Append(r.answers, a), r.open)
  <2>2. r \in Opens /\ r.owed \in Seq(Query) /\ r.owed # <<>> /\ r.answers \in Seq(AnswerRecords)
        /\ r.upstream \in AnyUpstream /\ r.open \in BOOLEAN
    BY <1>1, <2>1, ConnectionShapes
  <2>3. a \in AnswerRecords /\ a.about = Head(r.owed)
    <3>1. Head(r.owed) \in Query
      <4> HIDE DEF r
      <4> QED BY <2>2, TailShape
    <3> QED BY <3>1 DEF AnswerRecords
  <2>4. connection' = [connection EXCEPT ![c] = link]
    <3>1. [[r EXCEPT !.owed = Tail(r.owed)] EXCEPT !.answers = Append(r.answers, a)] = link
      <4> HIDE DEF r, a
      <4> QED BY <2>2, LinkShape
    <3>2. connection' = [connection EXCEPT
            ![c] = [[r EXCEPT !.owed = Tail(r.owed)] EXCEPT !.answers = Append(r.answers, a)]]
      BY <2>1
    <3> HIDE DEF r, a, link
    <3> QED BY <3>1, <3>2, Zenon
  <2> HIDE DEF r, a
  <2>5. /\ link \in Opens /\ link.upstream = r.upstream /\ link.owed = Tail(r.owed)
        /\ link.answers = Append(r.answers, a)
    <3>1. Tail(r.owed) \in Seq(Query)
      BY <2>2
    <3>2. Append(r.answers, a) \in Seq(AnswerRecords)
      BY <2>2, <2>3
    <3> QED BY <2>2, <3>1, <3>2 DEF Link, Opens
  <2> HIDE DEF link
  <2>6. \A q : r.owed = <<q>> /\ r.answers = <<>> =>
          link.owed = <<>> /\ \E b \in AnswerRecords : b.about = q /\ link.answers = <<b>>
    <3> SUFFICES ASSUME NEW q, r.owed = <<q>>, r.answers = <<>>
                 PROVE  link.owed = <<>> /\ \E b \in AnswerRecords : b.about = q /\ link.answers = <<b>>
      OBVIOUS
    <3>1. Tail(<<q>>) = <<>> /\ Head(<<q>>) = q /\ Append(<<>>, a) = <<a>>
      OBVIOUS
    <3> QED BY <2>3, <2>5, <3>1
  <2>7. current' = current /\ state' = state /\ query' = query /\ asked' = asked /\ heard' = heard
    BY <1>2 DEF Answer
  <2> QED BY <2>2, <2>4, <2>5, <2>6, <2>7, ServedStep DEF r
<1>3. CASE Close
  <2>1. PICK c \in Connection :
          /\ connection[c] # Free /\ connection[c].open
          /\ connection' = [connection EXCEPT ![c].open = FALSE]
    BY <1>3 DEF Close
  <2> DEFINE r == connection[c]
             link == Link(r, r.owed, r.answers, FALSE)
  <2>2. r \in Opens /\ r.owed \in Seq(Query) /\ r.answers \in Seq(AnswerRecords) /\ r.upstream \in AnyUpstream
    BY <1>1, <2>1, ConnectionShapes
  <2>3. connection' = [connection EXCEPT ![c] = link]
    <3>1. [r EXCEPT !.open = FALSE] = link
      <4> HIDE DEF r
      <4> QED BY <2>2, LinkShape
    <3>2. connection' = [connection EXCEPT ![c] = [r EXCEPT !.open = FALSE]]
      BY <2>1
    <3> HIDE DEF r, link
    <3> QED BY <3>1, <3>2, Zenon
  <2> HIDE DEF r
  <2>4. /\ link \in Opens /\ link.upstream = r.upstream /\ link.owed = r.owed
        /\ link.answers = r.answers
    BY <2>2 DEF Link, Opens
  <2> HIDE DEF link
  <2>5. current' = current /\ state' = state /\ query' = query /\ asked' = asked /\ heard' = heard
    BY <1>3 DEF Close
  <2> QED BY <2>2, <2>3, <2>4, <2>5, ServedStep DEF r
<1> QED BY <1>2, <1>3

\* Every step keeps the invariant.
LEMMA ResolverGoesOn == ResolverInv /\ [ResolverNext]_resolverVars => ResolverInv'
<1> SUFFICES ASSUME ResolverInv, [ResolverNext]_resolverVars
             PROVE  ResolverInv'
  OBVIOUS
<1>1. CASE UNCHANGED resolverVars
  BY <1>1 DEF resolverVars, ResolverInv
<1>2. CASE ResolverNext
  BY <1>2, StartStep, StopStep, ReceiveStep, BeginStep, ReadStep, BrokenStep, TimeOutStep,
     AnswerStep DEF ResolverNext
<1> QED BY <1>1, <1>2

\* What the run checks follows from the invariant.
LEMMA AnsweredFollows == ResolverInv => QueriesAnswered
<1> SUFFICES ASSUME ResolverInv
             PROVE  QueriesAnswered
  OBVIOUS
<1>1. /\ GoodIn(current, state, query, connection, asked, heard)
      /\ TypedIn(current, state, query, connection) /\ LiveIn(current, state, query)
      /\ ServedIn(state, query, asked, heard) /\ state \in Seq(States)
  BY DEF ResolverInv, GoodIn, TypedIn
<1>2. OwnAnswers /\ AskedAllowed /\ FailsUnanswered
  BY <1>1 DEF ServedIn, ServedAs, OwnAnswers, AskedAllowed, FailsUnanswered
<1>3. PoolsQuiet
  <2> SUFFICES ASSUME NEW s \in DOMAIN state, NEW u \in DOMAIN state[s].pool,
                      NEW i \in 1 .. Len(state[s].pool[u]), NEW c, c = state[s].pool[u][i]
               PROVE  /\ Live(s) /\ connection[c] # Free /\ connection[c].upstream = u
                      /\ connection[c].answers = <<>> /\ connection[c].owed = <<>>
                      /\ \A q \in Query : Serving(query, q) => query[q].connection # c
                      /\ \A j \in 1 .. Len(state[s].pool[u]) : i # j => state[s].pool[u][j] # c
    BY DEF PoolsQuiet
  <2>1. state[s].pool[u] \in Seq(Connection)
    BY <1>1, StateShapes
  <2>2. DOMAIN state[s].pool[u] = 1 .. Len(state[s].pool[u])
    BY <2>1
  <2>3. \A j \in 1 .. Len(state[s].pool[u]) : InPool(state, s, u, j, state[s].pool[u][j])
    BY <2>2 DEF InPool
  <2>4. InPool(state, s, u, i, c)
    BY <2>3
  <2>5. /\ connection[c] \in Opens /\ connection[c].upstream = u
        /\ connection[c].owed = <<>> /\ connection[c].answers = <<>>
        /\ \A q \in Query : ~Waiting(query, q, c)
        /\ \A t, v, j : InPool(state, t, v, j, c) => t = s /\ v = u /\ j = i
    BY <1>1, <2>4 DEF GoodIn, PoolsIn
  <2>6. Live(s)
    BY <1>1, <2>4 DEF LiveIn, Live
  <2> QED BY <2>3, <2>5, <2>6, ConnectionShapes DEF Waiting, Serving
<1> QED BY <1>2, <1>3 DEF QueriesAnswered

\* However queries, updates, servers and broken connections interleave, no query is given
\* another one's answer, is asked of an upstream its configuration does not allow, shares
\* a connection, or fails although it was answered (recycle, exchange_inner, resolve).
THEOREM QueriesAlwaysAnswered == ResolverSpec => []QueriesAnswered
<1>1. ResolverSpec => []ResolverInv
  BY ResolverStarts, ResolverGoesOn, PTL DEF ResolverSpec
<1> QED BY <1>1, AnsweredFollows, PTL
=============================================================================
