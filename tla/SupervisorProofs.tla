-------------------------- MODULE SupervisorProofs --------------------------
(***************************************************************************)
(* Proofs about Supervisor for every set of deployments, processes and      *)
(* clients and every choice of explored events.                             *)
(***************************************************************************)
EXTENDS Supervisor, TLAPS

(* Every update of the document yields a document.                          *)
LEMMA DocumentTypes ==
    ASSUME NEW d \in Documents
    PROVE  /\ \A x \in Deployments : /\ Stage(d, x) \in Documents
                                     /\ StageStart(d, x) \in Documents
                                     /\ StageRestart(d, x) \in Documents
           /\ RetryRejected(d) \in Documents
           /\ CanRollBack(d) => RollBack(d) \in Documents
           /\ StageStop(d) \in Documents
           /\ PreparationFailed(d) \in Documents
           /\ \A p : MarkRecovered(d, p) \in Documents
           /\ \A stop \in BOOLEAN : /\ MarkInactive(d, stop) \in Documents
                                    /\ MarkIntentionalExit(d, stop) \in Documents
           /\ \A x : /\ MarkStarting(d, x) \in Documents
                     /\ MarkHealthy(d, x) \in Documents
                     /\ MarkStable(d, x) \in Documents
           /\ \A p \in Option(Pids) : MarkStarted(d, p) \in Documents
           /\ MarkStopping(d) \in Documents
           /\ RecordFailure(d) \in Documents
           /\ [d EXCEPT !.pending = TRUE] \in Documents
<1> USE DEF Documents, Option, RuntimeStates, DesiredStates
<1>1. ASSUME NEW x \in Deployments
      PROVE  /\ Stage(d, x) \in Documents
             /\ StageStart(d, x) \in Documents
             /\ StageRestart(d, x) \in Documents
  <2>1. \A a \in Option(Deployments), e \in BOOLEAN :
          [d EXCEPT !.active = a, !.rejected = None, !.pending = TRUE, !.error = e] \in Documents
    OBVIOUS
  <2>2. Stage(d, x) \in Documents
    BY <2>1 DEF Stage
  <2>3. ASSUME NEW e \in Documents, NEW s \in RuntimeStates
        PROVE  [e EXCEPT !.desired = "Running", !.runError = FALSE, !.state = s] \in Documents
    BY <2>3
  <2>4. StageStart(d, x) \in Documents
    <3> DEFINE staged == IF d.active = None THEN Stage(d, x) ELSE d
    <3> DEFINE state == IF d.state = "Stopping" THEN "Restarting" ELSE "Starting"
    <3>1. staged \in Documents
      BY <2>2
    <3>2. state \in RuntimeStates
      OBVIOUS
    <3> HIDE DEF Documents, Option, RuntimeStates, DesiredStates, staged, state
    <3>3. [staged EXCEPT !.desired = "Running", !.runError = FALSE, !.state = state]
             \in Documents
      BY <2>3, <3>1, <3>2
    <3> QED BY <3>3 DEF StageStart, staged, state
  <2>5. StageRestart(d, x) \in Documents
    <3> DEFINE staged == IF d.active = None THEN Stage(d, x) ELSE d
    <3> DEFINE state == IF d.pid # None \/ d.state = "Running" THEN "Stopping" ELSE "Restarting"
    <3>1. staged \in Documents
      BY <2>2
    <3>2. state \in RuntimeStates
      OBVIOUS
    <3> HIDE DEF Documents, Option, RuntimeStates, DesiredStates, staged, state
    <3>3. [staged EXCEPT !.desired = "Running", !.runError = FALSE, !.state = state]
             \in Documents
      BY <2>3, <3>1, <3>2
    <3> QED BY <3>3 DEF StageRestart, staged, state
  <2> QED BY <2>2, <2>4, <2>5
<1>2. RetryRejected(d) \in Documents
  BY DEF RetryRejected
<1>3. RollBack(d) \in Documents
  <2>1. d.active \in Option(Deployments) /\ d.lastGood \in Option(Deployments)
    OBVIOUS
  <2>2. \A a, b \in Option(Deployments) :
          [d EXCEPT !.rejected = a, !.active = b, !.pending = TRUE] \in Documents
    OBVIOUS
  <2> QED BY <2>1, <2>2 DEF RollBack
<1>4. StageStop(d) \in Documents /\ PreparationFailed(d) \in Documents
  BY DEF StageStop, PreparationFailed
<1>5. ASSUME NEW p PROVE MarkRecovered(d, p) \in Documents
  BY DEF MarkRecovered
<1>6. ASSUME NEW stop \in BOOLEAN
      PROVE  MarkInactive(d, stop) \in Documents /\ MarkIntentionalExit(d, stop) \in Documents
  BY DEF MarkInactive, MarkIntentionalExit
<1>7. ASSUME NEW x
      PROVE  /\ MarkStarting(d, x) \in Documents
             /\ MarkHealthy(d, x) \in Documents
             /\ MarkStable(d, x) \in Documents
  <2>1. MarkStarting(d, x) \in Documents
    BY DEF MarkStarting, StartingAllowed
  <2>2. MarkHealthy(d, x) \in Documents
    BY DEF MarkHealthy
  <2>3. MarkStable(d, x) \in Documents
    BY DEF MarkStable
  <2> QED BY <2>1, <2>2, <2>3
<1>8. ASSUME NEW p \in Option(Pids) PROVE MarkStarted(d, p) \in Documents
  BY DEF MarkStarted
<1>9. /\ MarkStopping(d) \in Documents /\ RecordFailure(d) \in Documents
      /\ [d EXCEPT !.pending = TRUE] \in Documents
  BY DEF MarkStopping, RecordFailure
<1> QED BY <1>1, <1>2, <1>3, <1>4, <1>5, <1>6, <1>7, <1>8, <1>9

(* Every operation on the startup task yields a task.                       *)
LEMMA TaskTypes ==
    ASSUME NEW t \in Tasks
    PROVE  /\ NoTask \in Tasks
           /\ BeginCycle(t) \in Tasks
           /\ \A action \in {"start", "restart", "stop"}, a \in Actors :
                NewTask(action, a) \in Tasks
           /\ \A a \in Actors : /\ StopTask(a) \in Tasks
                                /\ PreparedFor(t, a) \in Tasks
                                /\ FailFor(t, a) \in Tasks
           /\ \A o \in {"succeeded", "failed"} : EndCycle(t, o) \in Tasks
           /\ \A fails \in BOOLEAN : CompleteStop(t, fails) \in Tasks
           /\ SupervisorExited(t) \in Tasks
<1> USE DEF Tasks, Actors, NewTask, Finish
<1>1. NoTask \in Tasks
  BY DEF NoTask
<1>2. BeginCycle(t) \in Tasks
  BY DEF BeginCycle
<1>3. ASSUME NEW action \in {"start", "restart", "stop"}, NEW a \in Actors
      PROVE  NewTask(action, a) \in Tasks
  OBVIOUS
<1>4. ASSUME NEW a \in Actors
      PROVE  StopTask(a) \in Tasks /\ PreparedFor(t, a) \in Tasks /\ FailFor(t, a) \in Tasks
  BY DEF StopTask, PreparedFor, FailFor
<1>5. ASSUME NEW o \in {"succeeded", "failed"} PROVE EndCycle(t, o) \in Tasks
  BY DEF EndCycle
<1>6. ASSUME NEW fails \in BOOLEAN PROVE CompleteStop(t, fails) \in Tasks
  BY DEF CompleteStop
<1>7. SupervisorExited(t) \in Tasks
  BY DEF SupervisorExited
<1> QED BY <1>1, <1>2, <1>3, <1>4, <1>5, <1>6, <1>7

-----------------------------------------------------------------------------
(* Type correctness.                                                        *)

\* The plan is resolved wherever the supervisor is about to run it.
Planned ==
    pc \in Starting \cup Serving
           \cup {"resolving", "markStarting", "gateway", "spawn", "markStarted"}
      => plan \in Deployments
TypeInv == TypeOK /\ Planned

\* Restoring the host and starting the frontend leave a host, whether they fail or not.
LEMMA RestoreTypes ==
    ASSUME TypeOK, NEW network \in BOOLEAN, NEW dns \in BOOLEAN, RestoreHost(network, dns)
    PROVE  /\ host' \in Hosts /\ faulty' \in BOOLEAN /\ cleaning' = FALSE
           /\ ~network => ~host'.network
<1> USE DEF TypeOK, Hosts
<1>1. Retained \in BOOLEAN
  BY DEF Retained
<1> DEFINE net == host.network /\ network
<1> DEFINE kept == host.dns /\ (dns \/ Retained)
<1>2. net \in BOOLEAN /\ kept \in BOOLEAN
  BY <1>1
<1>3. host' = [host EXCEPT !.network = net, !.dns = kept]
  BY DEF RestoreHost
<1>4. faulty' \in BOOLEAN /\ cleaning' = FALSE
  BY <1>1 DEF RestoreHost
<1>5. ~network => ~net
  OBVIOUS
<1> HIDE DEF net, kept
<1> QED BY <1>2, <1>3, <1>4, <1>5

LEMMA StartTypes ==
    ASSUME TypeOK, NEW d, NEW fails \in BOOLEAN, StartFrontend(d, fails)
    PROVE  host' \in Hosts /\ faulty' \in BOOLEAN
<1> USE DEF TypeOK, Hosts
<1> DEFINE up == host.frontend \/ ~fails
<1> DEFINE says == host.shown \/ ~fails
<1>1. up \in BOOLEAN /\ says \in BOOLEAN
  OBVIOUS
<1>2. host' = host \/ host' = [host EXCEPT !.frontend = up, !.shown = says]
  BY DEF StartFrontend
<1>3. faulty' \in BOOLEAN
  BY DEF StartFrontend
<1> HIDE DEF up, says
<1> QED BY <1>1, <1>2, <1>3

LEMMA HostTypes ==
    ASSUME host \in Hosts
    PROVE  /\ \A b \in BOOLEAN : [host EXCEPT !.dns = b] \in Hosts
           /\ [host EXCEPT !.frontend = FALSE] \in Hosts
           /\ [host EXCEPT !.frontend = FALSE, !.shown = FALSE] \in Hosts
           /\ \A b, c \in BOOLEAN : [host EXCEPT !.network = b, !.dns = c] \in Hosts
BY DEF Hosts

LEMMA SupervisorTypes ==
    ASSUME TypeInv, SupervisorStep
    PROVE  TypeInv'
<1> USE SupervisorAssumption DEF TypeInv, TypeOK, Planned, signals, machine, locals, cleanup, others, history,
        Starting, Serving, Subscribed, Labels
<1>1. CASE Recover
  <2>1. PICK fails \in Failing("recover") :
          IF fails /\ Owned(doc.pid)
          THEN pc' = "recoverFailed" /\ faulty' = host.dns /\ UNCHANGED <<core, cleanupNeeded>>
          ELSE /\ core' = IF Owned(doc.pid) THEN [core EXCEPT ![doc.pid] = None] ELSE core
               /\ cleanupNeeded' = (doc.active # None \/ doc.core)
               /\ pc' = "recovered" /\ UNCHANGED faulty
    BY <1>1 DEF Recover
  <2>2. core' \in [Pids -> Option(Deployments)]
    BY <2>1 DEF Option
  <2>3. /\ cleanupNeeded' \in BOOLEAN /\ pc' \in {"recovered", "recoverFailed"}
        /\ faulty' \in BOOLEAN
    BY <2>1 DEF Documents, Hosts
  <2>4. task' \in Tasks
    BY <1>1, TaskTypes DEF Recover
  <2>5. UNCHANGED <<doc, signals, child, host, plan, stopped, exiting, cleanup, retry, others>>
    BY <1>1 DEF Recover
  <2>6. pc' \in Labels
    BY <2>3
  <2> QED BY SMTT(60), <1>1, <2>2, <2>3, <2>4, <2>5, <2>6
<1>2. CASE Recovered
  BY <1>2, DocumentTypes DEF Recovered
<1>45. CASE RestoreResolver
  <2>1. host' \in {host, [host EXCEPT !.dns = FALSE]}
    BY <1>45, SupervisorAssumption DEF RestoreResolver, Hosts
  <2>2. host' \in Hosts
    BY <2>1, HostTypes
  <2>3. faulty' \in BOOLEAN /\ cleanupNeeded' \in BOOLEAN /\ pc' \in {"decide", "recoverFailed"}
    BY <1>45 DEF RestoreResolver, Hosts
  <2> QED BY <1>45, <2>2, <2>3 DEF RestoreResolver
<1>46. CASE StopFrontend
  <2>1. PICK fails \in BOOLEAN :
          /\ failed' = fails
          /\ host' \in {host, [host EXCEPT !.frontend = FALSE, !.shown = FALSE],
                       [host EXCEPT !.frontend = FALSE, !.shown = fails /\ host.shown]}
    BY <1>46 DEF StopFrontend, Failing
  <2>2. host' \in Hosts
    BY <2>1 DEF Hosts
  <2> QED BY <1>46, <2>1, <2>2 DEF StopFrontend
<1>3. CASE RecoverFailed
  BY <1>3, DocumentTypes, TaskTypes DEF RecoverFailed
<1>4. CASE Decide
  <2>1. UNCHANGED <<doc, cancelled, reload, gate, shutdown, core, child, host, faulty,
                    plan, stopped, exiting, failed, cleaning, retry, client,
                    overtaken, proven>>
    BY <1>4 DEF Decide
  <2>2. /\ pc' \in {"stop", "inactive", "await", "prepare"}
        /\ cleanupNeeded' \in BOOLEAN /\ task' \in Tasks
    BY <1>4, TaskTypes DEF Decide
  <2> QED BY <2>1, <2>2
<1>5. CASE Await
  BY <1>5 DEF Await
<1>6. CASE InactiveRead
  BY <1>6 DEF InactiveRead
<1>7. CASE InactiveClean
  <2>1. CASE cleanupNeeded
    <3>1. PICK network \in BOOLEAN, dns \in BOOLEAN :
            RestoreHost(network, dns) /\ failed' = (failed \/ network \/ dns)
      BY <1>7, <2>1 DEF InactiveClean, Failing
    <3>2. host' \in Hosts /\ faulty' \in BOOLEAN /\ cleaning' \in BOOLEAN
      BY <3>1, RestoreTypes
    <3> QED BY <1>7, <3>1, <3>2 DEF InactiveClean
  <2>2. CASE ~cleanupNeeded
    BY <1>7, <2>2 DEF InactiveClean
  <2> QED BY <2>1, <2>2
<1>8. CASE InactiveMark
  BY <1>8, DocumentTypes, TaskTypes DEF InactiveMark
<1>9. CASE WaitInactive
  <2>1. UNCHANGED <<doc, task, cancelled, gate, shutdown, core, child, host, faulty,
                    plan, cleanupNeeded, stopped, exiting, failed, cleaning, retry,
                    client, overtaken, proven>>
    BY <1>9 DEF WaitInactive
  <2>2. reload' \in BOOLEAN /\ pc' \in {"decide", "done"}
    BY <1>9 DEF WaitInactive
  <2> QED BY <2>1, <2>2
<1>10. CASE Prepare
  BY <1>10 DEF Prepare, Unsubscribe
<1>11. CASE PrepareInterrupted
  BY <1>11 DEF PrepareInterrupted, Unsubscribe, DropGate, Option
<1>12. CASE AcquireGate
  <2>1. UNCHANGED <<doc, task, shutdown, core, child, host, faulty, plan,
                    cleanupNeeded, stopped, exiting, failed, cleaning, client,
                    overtaken, proven>>
    BY <1>12 DEF AcquireGate
  <2>2. /\ cancelled' \subseteq Actors /\ gate' \in Option(Actors)
        /\ reload' \in BOOLEAN /\ retry' \in {retry, "coreFailure"}
        /\ pc' \in {"readDesired", "failClean"}
    BY <1>12 DEF AcquireGate, PrepareFails, Unsubscribe, DropGate, Option, Actors
  <2> QED BY <2>1, <2>2
<1>13. CASE ReadDesired
  BY <1>13 DEF ReadDesired, Unsubscribe, DropGate, Option
<1>14. CASE Resolve
  <2>1. CASE PrepareFails /\ UNCHANGED <<host, faulty, plan>>
    BY <1>14, <2>1 DEF Resolve, PrepareFails, Unsubscribe, DropGate, Option
  <2>2. CASE ~(PrepareFails /\ UNCHANGED <<host, faulty, plan>>)
    <3>1. plan' = doc.active /\ plan' \in Deployments
      BY <1>14, <2>2 DEF Resolve, Documents, Option
    <3>2. PICK fails \in BOOLEAN : StartFrontend(doc.active, fails)
      BY <1>14, <2>2 DEF Resolve, Failing
    <3>3. host' \in Hosts /\ faulty' \in BOOLEAN
      BY <3>2, StartTypes
    <3> QED BY <1>14, <2>2, <3>1, <3>3 DEF Resolve, Option
  <2> QED BY <2>1, <2>2
<1>15. CASE Resolved
  BY <1>15 DEF Resolved, PrepareFails, Unsubscribe, DropGate, Option
<1>16. CASE MarkStartingStep
  <2>1. doc' \in Documents /\ EndCycle(task, "failed") \in Tasks
    BY <1>16, DocumentTypes, TaskTypes DEF MarkStartingStep
  <2>2. CASE StartingAllowed(doc, plan)
    BY <1>16, <2>1, <2>2 DEF MarkStartingStep
  <2>3. CASE ~StartingAllowed(doc, plan)
    BY <1>16, <2>1, <2>3 DEF MarkStartingStep, DropGate, Option
  <2> QED BY <2>2, <2>3
<1>17. CASE Gateway
  BY <1>17 DEF Gateway
<1>18. CASE GatewayCancelled
  BY <1>18 DEF GatewayCancelled, Unsubscribe
<1>19. CASE GatewayShutdown
  BY <1>19 DEF GatewayShutdown
<1>47. CASE CancelClean
  <2>1. PICK network \in BOOLEAN, dns \in BOOLEAN :
          /\ RestoreHost(network, dns)
          /\ IF failed \/ network \/ dns
             THEN pc' = "recordError" /\ UNCHANGED <<gate, plan, cleanupNeeded>>
             ELSE pc' = "decide" /\ DropGate /\ plan' = None /\ cleanupNeeded' = FALSE
    BY <1>47 DEF CancelClean, Failing
  <2>2. host' \in Hosts /\ faulty' \in BOOLEAN /\ cleaning' \in BOOLEAN
    BY <2>1, RestoreTypes
  <2>3. CASE failed \/ network \/ dns
    BY <1>47, <2>1, <2>2, <2>3 DEF CancelClean
  <2>4. CASE ~(failed \/ network \/ dns)
    BY <1>47, <2>1, <2>2, <2>4 DEF CancelClean, DropGate, Option
  <2> QED BY <2>3, <2>4
<1>48. CASE ShutdownClean
  <2>1. host' \in Hosts /\ faulty' \in BOOLEAN /\ cleaning' \in BOOLEAN
    BY <1>48, RestoreTypes DEF ShutdownClean, Failing
  <2> QED BY <1>48, <2>1 DEF ShutdownClean
<1>20. CASE GatewayStop
  <2>1. UNCHANGED <<task, cancelled, reload, shutdown, core, child, host, faulty,
                    cleanupNeeded, stopped, exiting, failed, cleaning, retry, client,
                    overtaken, proven>>
    BY <1>20 DEF GatewayStop
  <2>2. /\ doc' \in Documents /\ gate' \in Option(Actors)
        /\ plan' = None /\ pc' = "done"
    BY <1>20, DocumentTypes DEF GatewayStop, DropGate, Option
  <2> QED BY <2>1, <2>2 DEF Option
<1>21. CASE Spawn
  BY <1>21 DEF Spawn, Option
<1>22. CASE MarkStartedStep
  <2>1. UNCHANGED <<task, cancelled, reload, gate, shutdown, core, child, host,
                    faulty, plan, cleanupNeeded, stopped, exiting, failed, cleaning,
                    retry, client, overtaken, proven>>
    BY <1>22 DEF MarkStartedStep
  <2>2. doc' \in Documents /\ pc' = "startup" /\ plan \in Deployments
    BY <1>22, DocumentTypes DEF MarkStartedStep, Option
  <2> QED BY <2>1, <2>2
<1>23. CASE ApplyNetwork
  <2> DEFINE uses == plan \in DnsDeployments
  <2>1. (host.network \/ uses) \in BOOLEAN /\ uses \in BOOLEAN
    BY DEF Hosts
  <2>2. [host EXCEPT !.network = host.network \/ uses, !.dns = uses] \in Hosts
    BY <2>1, HostTypes
  <2>3. host' \in {host, [host EXCEPT !.network = host.network \/ uses, !.dns = uses]}
    BY <1>23 DEF ApplyNetwork
  <2>4. faulty' \in BOOLEAN
    BY <1>23 DEF ApplyNetwork
  <2> HIDE DEF uses
  <2>5. host' \in Hosts
    BY <2>2, <2>3
  <2> QED BY <1>23, <2>4, <2>5 DEF ApplyNetwork
<1>24. CASE ActivateFrontend
  <2>1. host' \in Hosts /\ faulty' \in BOOLEAN
    BY <1>24, StartTypes, HostTypes DEF ActivateFrontend, Failing
  <2> QED BY <1>24, <2>1 DEF ActivateFrontend
<1>25. CASE StartupFailed
  <2>1. UNCHANGED <<doc, task, cancelled, reload, gate, shutdown, core, child, faulty,
                    plan, cleanupNeeded, stopped, exiting, failed, cleaning, retry,
                    client, overtaken, proven>>
    BY <1>25 DEF StartupFailed
  <2>2. host' \in Hosts /\ pc' = "failStartup"
    BY <1>25, HostTypes DEF StartupFailed
  <2> QED BY <2>1, <2>2
<1>26. CASE TerminateFailed
  <2>1. UNCHANGED <<doc, task, cancelled, reload, gate, shutdown, host, faulty, plan,
                    cleanupNeeded, stopped, exiting, failed, cleaning, client,
                    overtaken, proven>>
    BY <1>26 DEF TerminateFailed
  <2>2. core' \in [Pids -> Option(Deployments)] /\ child' \in Option(Pids)
    BY <1>26 DEF TerminateFailed, Option
  <2>3. retry' = "frontend" /\ pc' \in {"recordError", "failClean"}
    BY <1>26 DEF TerminateFailed
  <2> QED BY <2>1, <2>2, <2>3
<1>27. CASE MarkHealthyStep
  <2>1. UNCHANGED <<cancelled, reload, shutdown, core, child, host, faulty, plan,
                    cleanupNeeded, stopped, exiting, failed, cleaning, retry, client,
                    overtaken, proven>>
    BY <1>27 DEF MarkHealthyStep
  <2>2. /\ doc' \in Documents /\ task' \in Tasks
        /\ gate' \in Option(Actors) /\ pc' = "running" /\ plan \in Deployments
    BY <1>27, DocumentTypes, TaskTypes DEF MarkHealthyStep, DropGate, Option
  <2> QED BY <2>1, <2>2
<1>28. CASE ConfirmStable
  BY <1>28, DocumentTypes DEF ConfirmStable
<1>29. CASE Interrupt
  <2>1. UNCHANGED <<doc, cancelled, shutdown, core, child, host, faulty, plan,
                    cleanupNeeded, stopped, failed, cleaning, retry, client,
                    overtaken, proven>>
    BY <1>29 DEF Interrupt
  <2>2. /\ task' \in Tasks /\ gate' \in Option(Actors)
        /\ reload' \in BOOLEAN /\ exiting' \in BOOLEAN /\ pc' = "stopMark"
    BY <1>29, TaskTypes DEF Interrupt, DropGate, Option
  <2> QED BY <2>1, <2>2
<1>30. CASE Exited
  BY <1>30 DEF Exited, Option
<1>31. CASE StopMark
  BY <1>31, DocumentTypes DEF StopMark
<1>32. CASE Terminate
  <2> USE TaskTypes
  <2>1. PICK fails \in BOOLEAN :
          IF fails
          THEN /\ task' = CompleteStop(task, TRUE)
               /\ pc' = "recordError" /\ exiting' = FALSE /\ UNCHANGED core
          ELSE /\ core' = [core EXCEPT ![child] = None]
               /\ pc' = "stopExit" /\ UNCHANGED <<task, exiting>>
    BY <1>32 DEF Terminate, Failing
  <2>2. CASE fails
    <3>1. UNCHANGED <<doc, cancelled, reload, gate, shutdown, core, host, faulty, plan,
                      cleanupNeeded, stopped, failed, cleaning, retry, client,
                      overtaken, proven>>
      BY <1>32, <2>1, <2>2 DEF Terminate
    <3>2. /\ task' \in Tasks /\ exiting' \in BOOLEAN /\ pc' = "recordError"
          /\ child' \in Option(Pids)
      BY <1>32, <2>1, <2>2 DEF Terminate, Option
    <3> QED BY <3>1, <3>2
  <2>3. CASE ~fails
    BY <1>32, <2>1, <2>3 DEF Terminate, Option
  <2> QED BY <2>2, <2>3
<1>33. CASE StopExit
  BY <1>33, DocumentTypes DEF StopExit
<1>34. CASE StopClean
  <2>1. PICK network \in BOOLEAN, dns \in BOOLEAN :
          RestoreHost(network, dns) /\ task' = CompleteStop(task, failed \/ network \/ dns)
    BY <1>34 DEF StopClean, Failing
  <2>2. host' \in Hosts /\ faulty' \in BOOLEAN /\ cleaning' \in BOOLEAN
    BY <2>1, RestoreTypes
  <2>3. task' \in Tasks
    <3>1. (failed \/ network \/ dns) \in BOOLEAN
      OBVIOUS
    <3> QED BY <2>1, <3>1, TaskTypes
  <2>4. CASE exiting
    BY <1>34, <2>2, <2>3, <2>4 DEF StopClean, Option
  <2>5. CASE ~exiting
    BY <1>34, <2>2, <2>3, <2>5 DEF StopClean, Option
  <2> QED BY <2>4, <2>5
<1>35. CASE FailClean
  <2>1. host' \in Hosts /\ faulty' \in BOOLEAN /\ cleaning' \in BOOLEAN
    BY <1>35, RestoreTypes DEF FailClean, Failing
  <2> QED BY <1>35, <2>1 DEF FailClean
<1>36. CASE RecordFailureStep
  <2>1. doc' \in Documents /\ task' \in Tasks
    BY <1>36, DocumentTypes, TaskTypes DEF RecordFailureStep
  <2>2. CASE pc = "recordFailure"
    BY <1>36, <2>1, <2>2 DEF RecordFailureStep, Unsubscribe, DropGate, Option
  <2>3. CASE pc = "recordError"
    BY <1>36, <2>1, <2>3 DEF RecordFailureStep, Unsubscribe, DropGate, Option
  <2> QED BY <1>36, <2>2, <2>3 DEF RecordFailureStep
<1>37. CASE RollBackStep
  <2>1. CASE CanRollBack(doc) /\ doc' = RollBack(doc) /\ retry' = "none" /\ pc' = "decide"
    BY <1>37, <2>1, DocumentTypes DEF RollBackStep, Option
  <2>2. CASE pc' = "backoff" /\ UNCHANGED <<doc, retry>>
    BY <1>37, <2>2 DEF RollBackStep, Option
  <2> QED BY <1>37, <2>1, <2>2 DEF RollBackStep
<1>38. CASE Backoff
  BY <1>38 DEF Backoff, Resume
<1>49. CASE BackoffReload
  BY <1>49 DEF BackoffReload
<1>50. CASE BackoffClean
  <2>1. host' \in Hosts /\ faulty' \in BOOLEAN /\ cleaning' \in BOOLEAN
    BY <1>50, RestoreTypes DEF BackoffClean, Failing
  <2> QED BY <1>50, <2>1 DEF BackoffClean
<1>39. CASE BackoffShutdown
  BY <1>39 DEF BackoffShutdown
<1>40. CASE Stop
  <2>1. CASE cleanupNeeded
    <3>1. PICK network \in BOOLEAN, dns \in BOOLEAN :
            RestoreHost(network, dns) /\ failed' = (failed \/ network \/ dns)
      BY <1>40, <2>1 DEF Stop, Failing
    <3>2. host' \in Hosts /\ faulty' \in BOOLEAN /\ cleaning' \in BOOLEAN
      BY <3>1, RestoreTypes
    <3> QED BY <1>40, <3>1, <3>2 DEF Stop
  <2>2. CASE ~cleanupNeeded
    BY <1>40, <2>2 DEF Stop
  <2> QED BY <2>1, <2>2
<1>41. CASE StopRecord
  BY <1>41, DocumentTypes, TaskTypes DEF StopRecord
<1>42. CASE Done
  BY <1>42, TaskTypes DEF Done
<1>43. CASE Leaving
  BY <1>43, TaskTypes DEF Leaving, LoseMemory, Option, Idle, ClientStates, ClientLabels, Hosts
<1>44. CASE Boot
  BY <1>44 DEF Boot
 <1> QED BY ONLY SupervisorStep, <1>1, <1>2, <1>3, <1>4, <1>5, <1>6, <1>7, <1>8, <1>9, <1>10,
     <1>11, <1>12, <1>13, <1>14, <1>15, <1>16, <1>17, <1>18, <1>19, <1>20, <1>21, <1>22, <1>23,
     <1>24, <1>25, <1>26, <1>27, <1>28, <1>29, <1>30, <1>31, <1>32, <1>33, <1>34, <1>35, <1>36,
     <1>37, <1>38, <1>39, <1>40, <1>41, <1>42, <1>43, <1>44, <1>45, <1>46, <1>47, <1>48, <1>49,
     <1>50 DEF SupervisorStep

\* A caller's record moves between its labels, takes a target and is cleared.
LEMMA ClientMoves ==
    ASSUME client \in [Clients -> ClientStates], NEW c \in Clients
    PROVE  /\ \A l \in ClientLabels :
                /\ [client EXCEPT ![c].pc = l] \in [Clients -> ClientStates]
                /\ \A a \in {"start", "restart", "stop"} :
                     [client EXCEPT ![c].pc = l, ![c].action = a] \in [Clients -> ClientStates]
                /\ \A x \in Option(Deployments) :
                     [client EXCEPT ![c].pc = l, ![c].target = x] \in [Clients -> ClientStates]
           /\ [client EXCEPT ![c] = Idle] \in [Clients -> ClientStates]
<1>1. /\ \A r \in ClientStates, l \in ClientLabels : [r EXCEPT !.pc = l] \in ClientStates
      /\ \A r \in ClientStates, a \in {"start", "restart", "stop"} :
           [r EXCEPT !.action = a] \in ClientStates
      /\ \A r \in ClientStates, x \in Option(Deployments) :
           [r EXCEPT !.target = x] \in ClientStates
      /\ Idle \in ClientStates
  BY DEF ClientStates, Idle, ClientLabels, Option
<1>2. client[c] \in ClientStates
  OBVIOUS
<1>3. ASSUME NEW l \in ClientLabels
      PROVE  [client EXCEPT ![c].pc = l] \in [Clients -> ClientStates]
  BY <1>1, <1>2
<1>4. ASSUME NEW l \in ClientLabels, NEW a \in {"start", "restart", "stop"}
      PROVE  [client EXCEPT ![c].pc = l, ![c].action = a] \in [Clients -> ClientStates]
  BY <1>1, <1>2, <1>3
<1>5. ASSUME NEW l \in ClientLabels, NEW x \in Option(Deployments)
      PROVE  [client EXCEPT ![c].pc = l, ![c].target = x] \in [Clients -> ClientStates]
  BY <1>1, <1>2, <1>3
<1>6. [client EXCEPT ![c] = Idle] \in [Clients -> ClientStates]
  BY <1>1
<1> QED BY <1>3, <1>4, <1>5, <1>6

\* A caller that gives up leaves every variable it writes in its range.
LEMMA GiveUpTypes ==
    ASSUME TypeOK, NEW c \in Clients, GiveUp(c)
    PROVE  /\ task' \in Tasks /\ gate' \in Option(Actors)
           /\ client' \in [Clients -> ClientStates]
           /\ cancelled' \subseteq Actors /\ overtaken' \subseteq Clients
<1> USE DEF TypeOK, GiveUp, Leave, ReleaseGate
<1>1. c \in Actors
  BY DEF Actors
<1>2. task' \in Tasks /\ client' \in [Clients -> ClientStates]
  BY <1>1, TaskTypes, ClientMoves
<1>3. gate' \in Option(Actors)
  BY DEF Option
<1> QED BY <1>2, <1>3

LEMMA CallerTypes ==
    ASSUME TypeInv, NEW c \in Clients, Request(c) \/ ClientStep(c)
    PROVE  TypeInv'
<1> USE DEF TypeInv, TypeOK, Planned, signals, machine, locals, cleanup, supervisor, others, history
<1>1. c \in Actors
  BY DEF Actors
<1>2. ASSUME NEW l \in ClientLabels, To(c, l)
      PROVE  client' \in [Clients -> ClientStates]
  <2>1. [client EXCEPT ![c].pc = l] \in [Clients -> ClientStates]
    BY ClientMoves
  <2> QED BY <1>2, <2>1 DEF To
<1>3. {"idle", "begin", "retry", "beginRestart", "spawned", "lock", "compile", "compiled",
       "stage", "publish", "stopBegin", "stopStage", "stopSignal"} \subseteq ClientLabels
  BY DEF ClientLabels
<1>4. Leave(c) => /\ client' \in [Clients -> ClientStates]
                  /\ cancelled' \subseteq Actors /\ overtaken' \subseteq Clients
  BY ClientMoves DEF Leave
<1>5. CASE RequestStart(c) \/ RequestRestart(c) \/ RequestStop(c)
  <2>1. PICK l \in ClientLabels, a \in {"start", "restart", "stop"} :
          client' = [client EXCEPT ![c].pc = l, ![c].action = a]
    BY <1>3, <1>5 DEF RequestStart, RequestRestart, RequestStop
  <2>2. [client EXCEPT ![c].pc = l, ![c].action = a] \in [Clients -> ClientStates]
    BY ClientMoves
  <2> QED BY <1>5, <2>1, <2>2 DEF RequestStart, RequestRestart, RequestStop
<1>6. CASE BeginStart(c)
  BY <1>1, <1>2, <1>3, <1>4, <1>6, TaskTypes DEF BeginStart
<1>7. CASE RetryRejectedStep(c)
  BY <1>2, <1>3, <1>7, DocumentTypes DEF RetryRejectedStep
<1>8. CASE BeginRestart(c)
  BY <1>1, <1>2, <1>3, <1>4, <1>8, TaskTypes DEF BeginRestart
<1>9. CASE CheckRestart(c)
  <2>1. CASE GiveUp(c)
    BY <1>9, <2>1, GiveUpTypes DEF CheckRestart
  <2>2. CASE To(c, "lock") /\ Unsubscribe(c) /\ UNCHANGED <<task, gate, overtaken>>
    BY <1>2, <1>3, <1>9, <2>2 DEF CheckRestart, Unsubscribe
  <2> QED BY <1>9, <2>1, <2>2 DEF CheckRestart
<1>10. CASE Lock(c)
  <2>1. CASE GiveUp(c)
    BY <1>10, <2>1, GiveUpTypes DEF Lock
  <2>2. CASE gate' = c /\ To(c, "compile") /\ UNCHANGED <<task, cancelled, overtaken>>
    BY <1>1, <1>2, <1>3, <1>10, <2>2 DEF Lock, Option
  <2> QED BY <1>10, <2>1, <2>2 DEF Lock
<1>11. CASE Compile(c)
  <2>1. doc' \in Documents
    BY <1>11, DocumentTypes DEF Compile
  <2>2. CASE GiveUp(c)
    BY <1>11, <2>1, <2>2, GiveUpTypes DEF Compile
  <2>3. CASE To(c, "compiled") /\ UNCHANGED <<task, gate, cancelled, overtaken>>
    BY <1>2, <1>3, <1>11, <2>1, <2>3 DEF Compile
  <2> QED BY <1>11, <2>2, <2>3 DEF Compile
<1>12. CASE CancelStart(c)
  BY <1>12, GiveUpTypes DEF CancelStart
<1>13. CASE ReadTarget(c)
  <2>1. Targets \subseteq Option(Deployments)
    BY DEF Targets, Option, Documents
  <2>2. PICK d \in Targets : client' = [client EXCEPT ![c].pc = "stage", ![c].target = d]
    BY <1>13 DEF ReadTarget
  <2>3. [client EXCEPT ![c].pc = "stage", ![c].target = d] \in [Clients -> ClientStates]
    BY <1>3, <2>1, ClientMoves
  <2> QED BY <1>13, <2>2, <2>3 DEF ReadTarget
<1>14. CASE StageAction(c)
  <2>1. Targets \subseteq Deployments
    BY DEF Targets, Option, Documents
  <2>2. CASE GiveUp(c) /\ UNCHANGED doc
    BY <1>14, <2>2, GiveUpTypes DEF StageAction
  <2>3. CASE /\ client[c].target \in Targets
             /\ doc' = IF client[c].action = "start" THEN StageStart(doc, client[c].target)
                       ELSE StageRestart(doc, client[c].target)
             /\ To(c, "publish")
             /\ UNCHANGED <<task, gate, cancelled, overtaken>>
    <3>1. doc' \in Documents
      BY <2>1, <2>3, DocumentTypes
    <3> QED BY <1>2, <1>3, <1>14, <2>3, <3>1 DEF StageAction
  <2> QED BY <1>14, <2>2, <2>3 DEF StageAction
<1>15. CASE Publish(c)
  BY <1>1, <1>4, <1>15, TaskTypes DEF Publish, ReleaseGate, Option
<1>16. CASE BeginStop(c)
  <2>1. StopTask(c) \in Tasks /\ Subscribers \subseteq Actors
    BY <1>1, TaskTypes DEF Subscribers, Actors
  <2> QED BY <1>2, <1>3, <1>16, <2>1 DEF BeginStop
<1>17. CASE StageStopStep(c)
  BY <1>2, <1>3, <1>17, DocumentTypes DEF StageStopStep
<1>18. CASE SignalStop(c)
  BY <1>4, <1>18 DEF SignalStop
<1> QED BY <1>5, <1>6, <1>7, <1>8, <1>9, <1>10, <1>11, <1>12, <1>13, <1>14, <1>15, <1>16,
        <1>17, <1>18 DEF Request, ClientStep

LEMMA EnvironmentTypes ==
    ASSUME TypeInv, Environment
    PROVE  TypeInv'
<1> USE SupervisorAssumption DEF TypeInv, TypeOK, Planned, signals, machine,
        locals, cleanup, supervisor, others, history
<1>1. ASSUME NEW d \in Deployments, ActivateConfig(d) \/ SelectCore(d)
      PROVE  TypeInv'
  <2>1. UNCHANGED <<task, cancelled, reload, gate, shutdown, core, child, host,
                    faulty, pc, plan, cleanupNeeded, stopped, exiting, failed,
                    cleaning, retry, client, overtaken, proven>>
    BY <1>1 DEF ActivateConfig, SelectCore
  <2>2. doc' \in Documents
    BY <1>1, DocumentTypes DEF ActivateConfig, SelectCore
  <2> QED BY <2>1, <2>2
<1>2. CASE ChangeSettings
  BY <1>2, DocumentTypes DEF ChangeSettings
<1>3. CASE RequestReload \/ Shutdown
  BY <1>3 DEF RequestReload, Shutdown
<1>4. ASSUME NEW p \in Pids, ProcessExit(p)
      PROVE  TypeInv'
  BY <1>4 DEF ProcessExit, Option
<1>6. ASSUME NEW c \in Clients, HangUp(c)
      PROVE  TypeInv'
  <2>1. UNCHANGED <<doc, task, reload, shutdown, core, child, host, faulty, pc, plan,
                    cleanupNeeded, stopped, exiting, failed, cleaning, retry, proven>>
    BY <1>6 DEF HangUp
  <2>2. client' \in [Clients -> ClientStates]
    BY <1>6, ClientMoves DEF HangUp, Leave
  <2>3. /\ cancelled' \subseteq Actors /\ overtaken' \subseteq Clients
        /\ gate' \in Option(Actors)
    BY <1>6 DEF HangUp, Leave, ReleaseGate, Option
  <2> QED BY <2>1, <2>2, <2>3
<1>5. CASE Crash
  BY <1>5, TaskTypes DEF Crash, LoseMemory, Option, Idle, ClientStates, ClientLabels,
     Hosts, Starting, Serving, Subscribed, Labels
<1> QED BY <1>1, <1>2, <1>3, <1>4, <1>5, <1>6 DEF Environment

\* The strengthened invariant: the supervisor never runs without a resolved plan.
LEMMA TypeInvariant == Spec => []TypeInv
<1>1. Init => TypeInv
  <2> SUFFICES ASSUME Init PROVE TypeInv
    OBVIOUS
  <2>1. doc \in Documents /\ task \in Tasks /\ proven \subseteq Deployments
    BY SupervisorAssumption DEF Init, Documents, Option, Tasks, NoTask, Actors
  <2>2. client \in [Clients -> ClientStates]
    BY DEF Init, Idle, ClientStates, ClientLabels, Option
  <2>3. host \in Hosts /\ core \in [Pids -> Option(Deployments)]
    BY DEF Init, Hosts, Option
  <2>4. pc \in Labels /\ Planned
    BY DEF Init, Planned, Labels, Starting, Serving, Subscribed
  <2> QED BY <2>1, <2>2, <2>3, <2>4 DEF Init, TypeInv, TypeOK, Option
<1>2. TypeInv /\ [Next]_vars => TypeInv'
  <2> SUFFICES ASSUME TypeInv, [Next]_vars PROVE TypeInv'
    OBVIOUS
  <2>1. CASE SupervisorStep
    BY <2>1, SupervisorTypes
  <2>2. ASSUME NEW c \in Clients, Request(c) \/ ClientStep(c) PROVE TypeInv'
    BY <2>2, CallerTypes
  <2>3. CASE Environment
    BY <2>3, EnvironmentTypes
  <2>4. CASE UNCHANGED vars
    BY <2>4 DEF TypeInv, TypeOK, Planned, vars, signals, machine, locals, cleanup, supervisor,
       others, history
  <2> QED BY <2>1, <2>2, <2>3, <2>4 DEF Next
<1> QED BY <1>1, <1>2, PTL DEF Spec

(* Type correctness: whatever the callers, the faults and the deployments,  *)
(* every variable stays in its range.                                       *)
THEOREM TypeCorrect == Spec => []TypeOK
BY TypeInvariant, PTL DEF TypeInv

-----------------------------------------------------------------------------
(* The process the document records.                                        *)

\* Which updates of the document touch the recorded process.
LEMMA RecordedPids ==
    ASSUME NEW d \in Documents
    PROVE  /\ \A x : /\ Stage(d, x).pid = d.pid
                     /\ StageStart(d, x).pid = d.pid
                     /\ StageRestart(d, x).pid = d.pid
                     /\ MarkHealthy(d, x).pid = d.pid
                     /\ MarkStable(d, x).pid = d.pid
                     /\ MarkStarted(d, x).pid = x
                     /\ MarkStarting(d, x).pid \in {d.pid, None}
           /\ RetryRejected(d).pid = d.pid /\ RollBack(d).pid = d.pid
           /\ StageStop(d).pid = d.pid /\ PreparationFailed(d).pid = d.pid
           /\ MarkStopping(d).pid = d.pid
           /\ [d EXCEPT !.pending = TRUE].pid = d.pid
           /\ MarkRecovered(d, d.pid).pid = None
           /\ RecordFailure(d).pid = None
           /\ \A stop \in BOOLEAN : /\ MarkInactive(d, stop).pid = None
                                    /\ MarkIntentionalExit(d, stop).pid = None
<1> USE DEF Documents
<1>1. ASSUME NEW x
      PROVE  /\ Stage(d, x).pid = d.pid
             /\ StageStart(d, x).pid = d.pid
             /\ StageRestart(d, x).pid = d.pid
             /\ MarkStable(d, x).pid = d.pid
             /\ MarkStarted(d, x).pid = x
             /\ MarkStarting(d, x).pid \in {d.pid, None}
  BY DEF Stage, StageStart, StageRestart, MarkStable, MarkStarted, MarkStarting
<1>2. ASSUME NEW x PROVE MarkHealthy(d, x).pid = d.pid
  BY DEF MarkHealthy
<1>3. /\ RetryRejected(d).pid = d.pid /\ RollBack(d).pid = d.pid
      /\ StageStop(d).pid = d.pid /\ PreparationFailed(d).pid = d.pid
      /\ MarkStopping(d).pid = d.pid
      /\ [d EXCEPT !.pending = TRUE].pid = d.pid
  BY DEF RetryRejected, RollBack, StageStop, PreparationFailed, MarkStopping
<1>4. MarkRecovered(d, d.pid).pid = None /\ RecordFailure(d).pid = None
  BY DEF MarkRecovered, RecordFailure
<1>5. ASSUME NEW stop \in BOOLEAN
      PROVE  MarkInactive(d, stop).pid = None /\ MarkIntentionalExit(d, stop).pid = None
  BY DEF MarkInactive, MarkIntentionalExit
<1> QED BY <1>1, <1>2, <1>3, <1>4, <1>5

\* Where the supervisor holds the handle of a process, and what that process runs.
Supervised ==
    {"markStarted", "stopMark", "terminate", "failStartup"} \cup Starting \cup Serving
ChildInv ==
    IF pc \in Supervised THEN child \in Pids /\ core[child] \in {plan, None}
    ELSE child = None
ProcessInv == TypeInv /\ ChildInv /\ RecordedCore

LEMMA SupervisorProcess ==
    ASSUME ProcessInv, SupervisorStep
    PROVE  ChildInv' /\ RecordedCore'
<1> USE SupervisorAssumption, DocumentAssumption DEF ProcessInv, TypeInv, TypeOK, ChildInv,
        RecordedCore, Supervised, Alive, Starting, Serving, machine, signals, locals, cleanup,
        supervisor, others, Option
<1>1. CASE Recover
  BY <1>1 DEF Recover
<1>2. CASE Recovered
  BY <1>2, RecordedPids DEF Recovered
<1>3. CASE RecoverFailed
  BY <1>3, RecordedPids DEF RecoverFailed
<1>45. CASE RestoreResolver
  BY <1>45 DEF RestoreResolver
<1>46. CASE StopFrontend
  BY <1>46 DEF StopFrontend
<1>47. CASE CancelClean
  BY <1>47 DEF CancelClean
<1>48. CASE ShutdownClean
  BY <1>48 DEF ShutdownClean
<1>49. CASE BackoffReload
  BY <1>49 DEF BackoffReload
<1>50. CASE BackoffClean
  BY <1>50 DEF BackoffClean
<1>4. CASE Decide
  BY <1>4 DEF Decide
<1>5. CASE Await
  BY <1>5 DEF Await
<1>6. CASE InactiveRead
  BY <1>6 DEF InactiveRead
<1>7. CASE InactiveClean
  BY <1>7 DEF InactiveClean
<1>8. CASE InactiveMark
  BY <1>8, RecordedPids DEF InactiveMark
<1>9. CASE WaitInactive
  BY <1>9 DEF WaitInactive
<1>10. CASE Prepare
  BY <1>10 DEF Prepare
<1>11. CASE PrepareInterrupted
  BY <1>11 DEF PrepareInterrupted
<1>12. CASE AcquireGate
  BY <1>12 DEF AcquireGate, PrepareFails
<1>13. CASE ReadDesired
  BY <1>13 DEF ReadDesired
<1>14. CASE Resolve
  BY <1>14 DEF Resolve, PrepareFails
<1>15. CASE Resolved
  BY <1>15 DEF Resolved, PrepareFails
<1>16. CASE MarkStartingStep
  BY <1>16, RecordedPids DEF MarkStartingStep
<1>17. CASE Gateway
  BY <1>17 DEF Gateway
<1>18. CASE GatewayCancelled
  BY <1>18 DEF GatewayCancelled
<1>19. CASE GatewayShutdown
  BY <1>19 DEF GatewayShutdown
<1>20. CASE GatewayStop
  BY <1>20, RecordedPids DEF GatewayStop
<1>21. CASE Spawn
  BY <1>21 DEF Spawn
<1>22. CASE MarkStartedStep
  BY <1>22, RecordedPids DEF MarkStartedStep
<1>23. CASE ApplyNetwork
  BY <1>23 DEF ApplyNetwork
<1>24. CASE ActivateFrontend
  BY <1>24 DEF ActivateFrontend
<1>25. CASE StartupFailed
  BY <1>25 DEF StartupFailed
<1>26. CASE TerminateFailed
  BY <1>26 DEF TerminateFailed
<1>27. CASE MarkHealthyStep
  BY <1>27, RecordedPids DEF MarkHealthyStep
<1>28. CASE ConfirmStable
  BY <1>28, RecordedPids DEF ConfirmStable
<1>29. CASE Interrupt
  BY <1>29 DEF Interrupt
<1>30. CASE Exited
  BY <1>30 DEF Exited
<1>31. CASE StopMark
  BY <1>31, RecordedPids DEF StopMark
<1>32. CASE Terminate
  BY <1>32 DEF Terminate
<1>33. CASE StopExit
  BY <1>33, RecordedPids DEF StopExit
<1>34. CASE StopClean
  BY <1>34 DEF StopClean
<1>35. CASE FailClean
  BY <1>35 DEF FailClean
<1>36. CASE RecordFailureStep
  BY <1>36, RecordedPids DEF RecordFailureStep
<1>37. CASE RollBackStep
  BY <1>37, RecordedPids DEF RollBackStep
<1>38. CASE Backoff
  BY <1>38 DEF Backoff, Resume
<1>39. CASE BackoffShutdown
  BY <1>39 DEF BackoffShutdown
<1>40. CASE Stop
  BY <1>40 DEF Stop
<1>41. CASE StopRecord
  BY <1>41, RecordedPids DEF StopRecord
<1>42. CASE Done
  BY <1>42 DEF Done
<1>43. CASE Leaving
  BY <1>43 DEF Leaving, LoseMemory
<1>44. CASE Boot
  BY <1>44 DEF Boot
 <1> QED BY ONLY SupervisorStep, <1>1, <1>2, <1>3, <1>4, <1>5, <1>6, <1>7, <1>8, <1>9, <1>10,
     <1>11, <1>12, <1>13, <1>14, <1>15, <1>16, <1>17, <1>18, <1>19, <1>20, <1>21, <1>22, <1>23,
     <1>24, <1>25, <1>26, <1>27, <1>28, <1>29, <1>30, <1>31, <1>32, <1>33, <1>34, <1>35, <1>36,
     <1>37, <1>38, <1>39, <1>40, <1>41, <1>42, <1>43, <1>44, <1>45, <1>46, <1>47, <1>48, <1>49,
     <1>50 DEF SupervisorStep

\* Callers leave the supervisor's variables and the recorded process alone.
LEMMA CallerFrame ==
    ASSUME TypeInv, NEW c \in Clients, Request(c) \/ ClientStep(c)
    PROVE  UNCHANGED <<shutdown, machine, supervisor, proven>> /\ doc'.pid = doc.pid
<1> USE DEF TypeInv, TypeOK, signals, machine, supervisor, history
<1>1. CASE Request(c)
  BY <1>1 DEF Request, RequestStart, RequestRestart, RequestStop
<1>2. CASE BeginStart(c) \/ BeginRestart(c) \/ CheckRestart(c) \/ Lock(c)
  BY <1>2 DEF BeginStart, BeginRestart, CheckRestart, Lock
<1>3. CASE RetryRejectedStep(c)
  BY <1>3, RecordedPids DEF RetryRejectedStep
<1>4. CASE Compile(c)
  BY <1>4, RecordedPids DEF Compile
<1>5. CASE CancelStart(c) \/ ReadTarget(c) \/ Publish(c) \/ BeginStop(c) \/ SignalStop(c)
  BY <1>5 DEF CancelStart, ReadTarget, Publish, BeginStop, SignalStop
<1>6. CASE StageAction(c)
  BY <1>6, RecordedPids DEF StageAction
<1>7. CASE StageStopStep(c)
  BY <1>7, RecordedPids DEF StageStopStep
<1> QED BY <1>1, <1>2, <1>3, <1>4, <1>5, <1>6, <1>7 DEF ClientStep

LEMMA ProcessInvariant == Spec => []ProcessInv
<1>1. Init => ChildInv /\ RecordedCore
  BY SupervisorAssumption DEF Init, ChildInv, RecordedCore, Supervised, Starting, Serving
<1>2. ProcessInv /\ TypeInv' /\ [Next]_vars => ProcessInv'
  <2> SUFFICES ASSUME ProcessInv, [Next]_vars PROVE ChildInv' /\ RecordedCore'
    BY DEF ProcessInv
  <2> USE DEF ProcessInv, ChildInv, RecordedCore, Alive, machine, supervisor, signals,
          others, history
  <2>1. CASE SupervisorStep
    BY <2>1, SupervisorProcess
  <2>2. ASSUME NEW c \in Clients, Request(c) \/ ClientStep(c)
        PROVE  ChildInv' /\ RecordedCore'
    BY <2>2, CallerFrame
  <2>3. ASSUME NEW d \in Deployments, ActivateConfig(d) \/ SelectCore(d)
        PROVE  ChildInv' /\ RecordedCore'
    BY <2>3, RecordedPids DEF ActivateConfig, SelectCore, TypeInv, TypeOK
  <2>4. CASE ChangeSettings
    BY <2>4, RecordedPids DEF ChangeSettings, TypeInv, TypeOK
  <2>5. CASE RequestReload \/ Shutdown
    BY <2>5 DEF RequestReload, Shutdown
  <2>6. ASSUME NEW p \in Pids, ProcessExit(p)
        PROVE  ChildInv' /\ RecordedCore'
    BY <2>6 DEF ProcessExit, TypeInv, TypeOK
  <2>7. CASE Crash
    BY <2>7 DEF Crash, LoseMemory, Supervised, Starting, Serving
  <2>8. CASE UNCHANGED vars
    BY <2>8 DEF vars
  <2>9. ASSUME NEW c \in Clients, HangUp(c)
        PROVE  ChildInv' /\ RecordedCore'
    BY <2>9 DEF HangUp
  <2> QED BY <2>1, <2>2, <2>3, <2>4, <2>5, <2>6, <2>7, <2>8, <2>9 DEF Next, Environment
<1> QED BY <1>1, <1>2, TypeInvariant, PTL DEF ProcessInv, Spec

(* A recorded process is the supervisor's own child or dead, whatever fails *)
(* and whenever the daemon is killed.                                       *)
THEOREM CoreRecorded == Spec => []RecordedCore
BY ProcessInvariant, PTL DEF ProcessInv

-----------------------------------------------------------------------------
(* The deployments the document names.                                      *)

\* Updates that neither move a deployment nor clear what is pending.
RuntimeUpdate ==
    \/ UNCHANGED doc
    \/ doc' \in {StageStop(doc), PreparationFailed(doc), MarkStopping(doc),
                 RecordFailure(doc), MarkRecovered(doc, doc.pid),
                 MarkStarting(doc, plan), MarkStarted(doc, child)}
    \/ \E stop \in BOOLEAN :
         doc' \in {MarkInactive(doc, stop), MarkIntentionalExit(doc, stop)}
\* Updates of the user and of configuration changes.
StagingUpdate ==
    \/ \E d \in Deployments : doc' = Stage(doc, d)
    \/ doc' \in {RetryRejected(doc), [doc EXCEPT !.pending = TRUE]}
    \/ \E c \in Clients, d \in Deployments :
         /\ client[c].pc = "stage" /\ Holds(task, c)
         /\ doc' \in {StageStart(doc, d), StageRestart(doc, d)}

\* Every step makes one of the updates above, rolls back, or marks the core healthy or stable.
LEMMA DocumentSteps ==
    ASSUME TypeOK, [Next]_vars
    PROVE  \/ UNCHANGED proven /\ (RuntimeUpdate \/ StagingUpdate)
           \/ UNCHANGED proven /\ CanRollBack(doc) /\ doc' = RollBack(doc)
           \/ UNCHANGED proven /\ MarkHealthyStep
           \/ ConfirmStable
<1> USE DEF RuntimeUpdate, StagingUpdate, TypeOK, others, history
<1>1. CASE SupervisorStep
  <2>1. CASE Recovered \/ RecoverFailed \/ InactiveMark \/ MarkStartingStep \/ GatewayStop
    BY <2>1 DEF Recovered, RecoverFailed, InactiveMark, MarkStartingStep, GatewayStop
  <2>2. CASE MarkStartedStep \/ StopMark \/ StopExit \/ RecordFailureStep \/ StopRecord
    BY <2>2 DEF MarkStartedStep, StopMark, StopExit, RecordFailureStep, StopRecord
  <2>3. CASE RollBackStep
    BY <2>3 DEF RollBackStep
  <2>4. CASE MarkHealthyStep
    BY <2>4 DEF MarkHealthyStep
  <2>5. CASE Recover \/ Decide \/ Await \/ InactiveRead \/ InactiveClean \/ WaitInactive
    BY <2>5 DEF Recover, Decide, Await, InactiveRead, InactiveClean, WaitInactive
  <2>9. CASE RestoreResolver \/ StopFrontend \/ CancelClean \/ ShutdownClean
    BY <2>9 DEF RestoreResolver, StopFrontend, CancelClean, ShutdownClean
  <2>6. CASE \/ Prepare \/ PrepareInterrupted \/ AcquireGate \/ ReadDesired \/ Resolve
             \/ Resolved \/ Gateway \/ GatewayCancelled \/ GatewayShutdown
    BY <2>6 DEF Prepare, PrepareInterrupted, AcquireGate, ReadDesired, Resolve, Resolved,
       Gateway, GatewayCancelled, GatewayShutdown
  <2>7. CASE \/ Spawn \/ ApplyNetwork \/ ActivateFrontend \/ StartupFailed \/ TerminateFailed
             \/ Interrupt \/ Exited \/ Terminate \/ StopClean \/ FailClean
    BY <2>7 DEF Spawn, ApplyNetwork, ActivateFrontend, StartupFailed, TerminateFailed,
       Interrupt, Exited, Terminate, StopClean, FailClean
  <2>8. CASE \/ Backoff \/ BackoffReload \/ BackoffClean \/ BackoffShutdown \/ Stop \/ Done
             \/ Leaving \/ Boot
    BY <2>8 DEF Backoff, BackoffReload, BackoffClean, BackoffShutdown, Stop, Done, Leaving,
       Boot, LoseMemory
  <2> QED BY <1>1, <2>1, <2>2, <2>3, <2>4, <2>5, <2>6, <2>7, <2>8, <2>9 DEF SupervisorStep
<1>2. ASSUME NEW c \in Clients, Request(c) \/ ClientStep(c)
      PROVE  UNCHANGED proven /\ (RuntimeUpdate \/ StagingUpdate)
  <2>1. CASE Request(c)
    BY <2>1 DEF Request, RequestStart, RequestRestart, RequestStop
  <2>2. CASE \/ BeginStart(c) \/ RetryRejectedStep(c) \/ BeginRestart(c) \/ CheckRestart(c)
             \/ Lock(c) \/ CancelStart(c) \/ ReadTarget(c)
    BY <2>2 DEF BeginStart, RetryRejectedStep, BeginRestart, CheckRestart, Lock, CancelStart,
       ReadTarget
  <2>3. CASE Compile(c)
    BY <2>3 DEF Compile
  <2>4. CASE StageAction(c)
    BY <2>4 DEF StageAction, Targets, Documents, Option
  <2>5. CASE Publish(c) \/ BeginStop(c) \/ StageStopStep(c) \/ SignalStop(c)
    BY <2>5 DEF Publish, BeginStop, StageStopStep, SignalStop
  <2> QED BY <1>2, <2>1, <2>2, <2>3, <2>4, <2>5 DEF ClientStep
<1>3. CASE Environment
  BY <1>3 DEF Environment, ActivateConfig, SelectCore, ChangeSettings, RequestReload,
     ProcessExit, HangUp, Shutdown, Crash, LoseMemory
<1>4. CASE UNCHANGED vars
  BY <1>4 DEF vars
<1> QED BY <1>1, <1>2, <1>3, <1>4 DEF Next

LEMMA RuntimeUpdates ==
    ASSUME TypeOK, RuntimeUpdate
    PROVE  /\ doc'.active = doc.active /\ doc'.lastGood = doc.lastGood
           /\ doc'.rejected = doc.rejected /\ doc'.pending = doc.pending
BY DEF RuntimeUpdate, TypeOK, Documents, StageStop, PreparationFailed, MarkStopping,
   RecordFailure, MarkRecovered, MarkStarting, MarkStarted, MarkInactive, MarkIntentionalExit

LEMMA StagingUpdates ==
    ASSUME TypeOK, StagingUpdate
    PROVE  /\ doc'.lastGood = doc.lastGood
           /\ doc.pending => doc'.pending
           /\ \/ doc'.rejected = None
              \/ /\ doc'.active = doc.active /\ doc'.rejected = doc.rejected
BY DEF StagingUpdate, TypeOK, Documents, Stage, StageStart, StageRestart, RetryRejected

(* The document's deployments stay consistent through every interleaving of *)
(* staging, retrying, rolling back and the marks of a running core.         *)
THEOREM RollbackStaysConsistent == Spec => []RollbackConsistent
<1>1. Init => RollbackConsistent
  BY SupervisorAssumption DEF Init, RollbackConsistent
<1>2. TypeInv /\ RollbackConsistent /\ [Next]_vars => RollbackConsistent'
  <2> SUFFICES ASSUME TypeInv, RollbackConsistent, [Next]_vars PROVE RollbackConsistent'
    OBVIOUS
  <2> USE DEF RollbackConsistent, RolledBack, TypeInv
  <2>1. CASE RuntimeUpdate
    BY <2>1, RuntimeUpdates
  <2>2. CASE StagingUpdate
    BY <2>2, StagingUpdates
  <2>3. CASE CanRollBack(doc) /\ doc' = RollBack(doc)
    BY <2>3 DEF CanRollBack, RollBack, TypeOK, Documents
  <2>4. CASE MarkHealthyStep
    BY <2>4 DEF MarkHealthyStep, MarkHealthy, TypeOK, Documents
  <2>5. CASE ConfirmStable
    BY <2>5 DEF ConfirmStable, MarkStable, TypeOK, Documents
  <2> QED BY <2>1, <2>2, <2>3, <2>4, <2>5, DocumentSteps
<1> QED BY <1>1, <1>2, TypeInvariant, PTL DEF Spec

(* Only a deployment that ran through the stable window is ever a target of *)
(* a rollback.                                                              *)
THEOREM LastGoodIsProven == Spec => []LastGoodProven
<1>1. Init => LastGoodProven
  BY DEF Init, LastGoodProven
<1>2. TypeInv /\ LastGoodProven /\ [Next]_vars => LastGoodProven'
  <2> SUFFICES ASSUME TypeInv, LastGoodProven, [Next]_vars PROVE LastGoodProven'
    OBVIOUS
  <2> USE DEF LastGoodProven, TypeInv
  <2>1. CASE UNCHANGED proven /\ (RuntimeUpdate \/ StagingUpdate)
    BY <2>1, RuntimeUpdates, StagingUpdates
  <2>2. CASE UNCHANGED proven /\ doc' = RollBack(doc)
    BY <2>2 DEF RollBack, TypeOK, Documents
  <2>3. CASE UNCHANGED proven /\ MarkHealthyStep
    BY <2>3 DEF MarkHealthyStep, MarkHealthy, TypeOK, Documents
  <2>4. CASE ConfirmStable
    BY <2>4 DEF ConfirmStable, MarkStable, TypeOK, Documents
  <2> QED BY <2>1, <2>2, <2>3, <2>4, DocumentSteps
<1> QED BY <1>1, <1>2, TypeInvariant, PTL DEF Spec

(* What is pending is cleared only by the healthy start of the deployment   *)
(* the document names, in the process it records.                           *)
THEOREM PendingIsCleared == Spec => PendingCleared
<1>1. ProcessInv /\ [Next]_vars =>
        (doc.pending /\ ~doc'.pending =>
           /\ doc.pid # None /\ doc.pid = child
           /\ core[child] \in {doc'.active, None}
           /\ plan = doc'.active)
  <2> SUFFICES ASSUME ProcessInv, [Next]_vars, doc.pending, ~doc'.pending
               PROVE  /\ doc.pid # None /\ doc.pid = child
                      /\ core[child] \in {doc'.active, None}
                      /\ plan = doc'.active
    OBVIOUS
  <2> USE DEF ProcessInv, TypeInv
  <2>1. ~RuntimeUpdate /\ ~StagingUpdate
    BY RuntimeUpdates, StagingUpdates
  <2>2. ~(doc' = RollBack(doc)) /\ ~ConfirmStable
    BY DEF RollBack, ConfirmStable, MarkStable, TypeOK, Documents
  <2>3. MarkHealthyStep
    BY <2>1, <2>2, DocumentSteps
  <2>4. doc.active = plan /\ doc'.active = doc.active
    BY <2>3 DEF MarkHealthyStep, MarkHealthy, TypeOK, Documents
  <2>5. /\ child \in Pids /\ doc.pid = child
        /\ core[child] \in {plan, None}
    BY <2>3 DEF MarkHealthyStep, ChildInv, RecordedCore, Supervised, Starting
  <2> QED BY <2>4, <2>5, DocumentAssumption
<1> QED BY <1>1, ProcessInvariant, PTL DEF Spec, PendingCleared

-----------------------------------------------------------------------------
(* A stop overtakes what was accepted before it.                            *)

\* An overtaken caller still runs, but its task has been replaced.
Overtaken ==
    \A c \in overtaken : client[c].pc \in Begun /\ ~Holds(task, c)
OvertakenInv == TypeInv /\ Overtaken

\* No update of the task hands it to a client that does not hold it, except its own begin.
LEMMA HeldTasks ==
    ASSUME NEW t \in Tasks, NEW c \in Clients
    PROVE  /\ Holds(BeginCycle(t), c) => Holds(t, c)
           /\ \A o \in {"succeeded", "failed"} : Holds(EndCycle(t, o), c) => Holds(t, c)
           /\ \A fails \in BOOLEAN : Holds(CompleteStop(t, fails), c) => Holds(t, c)
           /\ \A a \in Actors : /\ Holds(FailFor(t, a), c) => Holds(t, c)
                                /\ Holds(PreparedFor(t, a), c) => Holds(t, c)
                                /\ ~Holds(StopTask(a), c)
                                /\ \A action : Holds(NewTask(action, a), c) => a = c
           /\ Holds(SupervisorExited(t), c) => Holds(t, c)
           /\ ~Holds(NoTask, c)
<1> USE TaskAssumption DEF Holds, Preparing, InProgress, Finish, NewTask, Tasks, Actors
<1>1. /\ Holds(BeginCycle(t), c) => Holds(t, c)
      /\ Holds(SupervisorExited(t), c) => Holds(t, c)
      /\ ~Holds(NoTask, c)
  BY DEF BeginCycle, SupervisorExited, NoTask
<1>2. /\ \A o \in {"succeeded", "failed"} : Holds(EndCycle(t, o), c) => Holds(t, c)
      /\ \A fails \in BOOLEAN : Holds(CompleteStop(t, fails), c) => Holds(t, c)
  BY DEF EndCycle, CompleteStop
<1>3. ASSUME NEW a \in Actors
      PROVE  /\ Holds(FailFor(t, a), c) => Holds(t, c)
             /\ Holds(PreparedFor(t, a), c) => Holds(t, c)
             /\ ~Holds(StopTask(a), c)
             /\ \A action : Holds(NewTask(action, a), c) => a = c
  BY DEF FailFor, PreparedFor, StopTask
<1> QED BY <1>1, <1>2, <1>3

\* The supervisor never gives a client its task back.
LEMMA SupervisorHolds ==
    ASSUME TypeInv, SupervisorStep, NEW c \in Clients, Holds(task', c)
    PROVE  Holds(task, c)
<1> USE HeldTasks DEF TypeInv, TypeOK
<1>1. CASE Recover \/ RecoverFailed \/ Decide \/ InactiveMark \/ MarkStartingStep
  BY <1>1 DEF Recover, RecoverFailed, Decide, InactiveMark, MarkStartingStep
<1>2. CASE MarkHealthyStep \/ Interrupt \/ Terminate \/ StopClean
  <2>1. \/ task' \in {task, EndCycle(task, "succeeded"), EndCycle(task, "failed")}
        \/ \E fails \in BOOLEAN : task' = CompleteStop(task, fails)
    BY <1>2 DEF MarkHealthyStep, Interrupt, Terminate, StopClean, Failing
  <2> QED BY <2>1
<1>3. CASE RecordFailureStep \/ StopRecord \/ Done \/ Leaving
  <2>1. \/ task' \in {NoTask, EndCycle(task, "failed"), SupervisorExited(task)}
        \/ \E fails \in BOOLEAN : task' = CompleteStop(task, fails)
    BY <1>3 DEF RecordFailureStep, StopRecord, Done, Leaving, LoseMemory
  <2> QED BY <2>1
<1>4. CASE Recovered \/ Await \/ InactiveRead \/ InactiveClean \/ WaitInactive \/ Prepare
  BY <1>4 DEF Recovered, Await, InactiveRead, InactiveClean, WaitInactive, Prepare
<1>5. CASE \/ PrepareInterrupted \/ AcquireGate \/ ReadDesired \/ Resolve \/ Resolved
           \/ Gateway \/ GatewayCancelled \/ GatewayShutdown \/ GatewayStop
  BY <1>5 DEF PrepareInterrupted, AcquireGate, ReadDesired, Resolve, Resolved, Gateway,
     GatewayCancelled, GatewayShutdown, GatewayStop
<1>6. CASE \/ Spawn \/ MarkStartedStep \/ ApplyNetwork \/ ActivateFrontend \/ StartupFailed
           \/ TerminateFailed \/ ConfirmStable \/ Exited \/ StopMark \/ StopExit \/ FailClean
  BY <1>6 DEF Spawn, MarkStartedStep, ApplyNetwork, ActivateFrontend, StartupFailed,
     TerminateFailed, ConfirmStable, Exited, StopMark, StopExit, FailClean
<1>7. CASE \/ RollBackStep \/ Backoff \/ BackoffReload \/ BackoffClean \/ BackoffShutdown
           \/ Stop \/ Boot \/ RestoreResolver \/ StopFrontend \/ CancelClean \/ ShutdownClean
  BY <1>7 DEF RollBackStep, Backoff, BackoffReload, BackoffClean, BackoffShutdown, Stop, Boot,
     RestoreResolver, StopFrontend, CancelClean, ShutdownClean
<1> QED BY <1>1, <1>2, <1>3, <1>4, <1>5, <1>6, <1>7 DEF SupervisorStep

\* The supervisor leaves the callers alone, or forgets all of them at once.
LEMMA SupervisorLeavesCallers ==
    ASSUME SupervisorStep
    PROVE  UNCHANGED <<client, overtaken>> \/ overtaken' = {}
<1> USE DEF others, history
<1>1. CASE Recover \/ RecoverFailed \/ Decide \/ InactiveMark \/ MarkStartingStep
  BY <1>1 DEF Recover, RecoverFailed, Decide, InactiveMark, MarkStartingStep
<1>2. CASE MarkHealthyStep \/ Interrupt \/ Terminate \/ StopClean
  BY <1>2 DEF MarkHealthyStep, Interrupt, Terminate, StopClean
<1>3. CASE RecordFailureStep \/ StopRecord \/ Done \/ Leaving
  BY <1>3 DEF RecordFailureStep, StopRecord, Done, Leaving, LoseMemory
<1>4. CASE Recovered \/ Await \/ InactiveRead \/ InactiveClean \/ WaitInactive \/ Prepare
  BY <1>4 DEF Recovered, Await, InactiveRead, InactiveClean, WaitInactive, Prepare
<1>5. CASE \/ PrepareInterrupted \/ AcquireGate \/ ReadDesired \/ Resolve \/ Resolved
           \/ Gateway \/ GatewayCancelled \/ GatewayShutdown \/ GatewayStop
  BY <1>5 DEF PrepareInterrupted, AcquireGate, ReadDesired, Resolve, Resolved, Gateway,
     GatewayCancelled, GatewayShutdown, GatewayStop
<1>6. CASE \/ Spawn \/ MarkStartedStep \/ ApplyNetwork \/ ActivateFrontend \/ StartupFailed
           \/ TerminateFailed \/ ConfirmStable \/ Exited \/ StopMark \/ StopExit \/ FailClean
  BY <1>6 DEF Spawn, MarkStartedStep, ApplyNetwork, ActivateFrontend, StartupFailed,
     TerminateFailed, ConfirmStable, Exited, StopMark, StopExit, FailClean
<1>7. CASE \/ RollBackStep \/ Backoff \/ BackoffReload \/ BackoffClean \/ BackoffShutdown
           \/ Stop \/ Boot \/ RestoreResolver \/ StopFrontend \/ CancelClean \/ ShutdownClean
  BY <1>7 DEF RollBackStep, Backoff, BackoffReload, BackoffClean, BackoffShutdown, Stop, Boot,
     RestoreResolver, StopFrontend, CancelClean, ShutdownClean
<1> QED BY <1>1, <1>2, <1>3, <1>4, <1>5, <1>6, <1>7 DEF SupervisorStep

LEMMA CallerOvertaken ==
    ASSUME OvertakenInv, NEW c \in Clients, Request(c) \/ ClientStep(c)
    PROVE  Overtaken'
<1> USE HeldTasks DEF OvertakenInv, TypeInv, TypeOK, Overtaken, Begun, others, history
<1>1. c \in Actors
  BY DEF Actors
<1>2. \A b \in Clients : b # c => client'[b] = client[b]
  BY DEF Request, ClientStep, RequestStart, RequestRestart, RequestStop, BeginStart,
     RetryRejectedStep, BeginRestart, CheckRestart, Lock, Compile, CancelStart, ReadTarget,
     StageAction, Publish, BeginStop, StageStopStep, SignalStop, To, Leave, GiveUp
<1>3. Leave(c) => c \notin overtaken' /\ overtaken' \subseteq overtaken
  BY DEF Leave
<1>4. \A l \in Begun : To(c, l) => client'[c].pc = l
  BY DEF To, ClientStates
<1>5. CASE RequestStart(c) \/ RequestRestart(c) \/ RequestStop(c)
  BY <1>2, <1>5 DEF RequestStart, RequestRestart, RequestStop
<1>6. CASE BeginStart(c) \/ BeginRestart(c)
  BY <1>1, <1>2, <1>3, <1>6 DEF BeginStart, BeginRestart
<1>7. CASE RetryRejectedStep(c) \/ StageStopStep(c) \/ SignalStop(c)
  BY <1>2, <1>3, <1>7 DEF RetryRejectedStep, StageStopStep, SignalStop
<1>8. CASE GiveUp(c)
  BY <1>1, <1>2, <1>3, <1>8 DEF GiveUp
<1>9. CASE CheckRestart(c) \/ Lock(c) \/ Compile(c) \/ CancelStart(c) \/ StageAction(c)
  BY <1>2, <1>4, <1>8, <1>9 DEF CheckRestart, Lock, Compile, CancelStart, StageAction
<1>10. CASE ReadTarget(c)
  BY <1>2, <1>10 DEF ReadTarget, ClientStates
<1>11. CASE Publish(c)
  BY <1>1, <1>2, <1>3, <1>11 DEF Publish
<1>12. CASE BeginStop(c)
  BY <1>1, <1>2, <1>12 DEF BeginStop
<1> QED BY <1>5, <1>6, <1>7, <1>9, <1>10, <1>11, <1>12 DEF Request, ClientStep

LEMMA OvertakenInvariant == Spec => []OvertakenInv
<1>1. Init => Overtaken
  BY DEF Init, Overtaken
<1>2. OvertakenInv /\ TypeInv' /\ [Next]_vars => OvertakenInv'
  <2> SUFFICES ASSUME OvertakenInv, [Next]_vars PROVE Overtaken'
    BY DEF OvertakenInv
  <2> USE DEF OvertakenInv, Overtaken, others, history
  <2>1. CASE SupervisorStep
    BY <2>1, SupervisorHolds, SupervisorLeavesCallers DEF TypeInv, TypeOK
  <2>2. ASSUME NEW c \in Clients, Request(c) \/ ClientStep(c) PROVE Overtaken'
    BY <2>2, CallerOvertaken
  <2>3. CASE Environment
    <3>1. ASSUME NEW c \in Clients, HangUp(c) PROVE Overtaken'
      BY <3>1, ClientMoves DEF HangUp, Leave, TypeInv, TypeOK
    <3>2. CASE Crash
      BY <3>2 DEF Crash, LoseMemory
    <3>3. CASE ~Crash /\ ~\E c \in Clients : HangUp(c)
      BY <2>3, <3>3 DEF Environment, ActivateConfig, SelectCore, ChangeSettings,
         RequestReload, ProcessExit, Shutdown
    <3> QED BY <3>1, <3>2, <3>3
  <2>4. CASE UNCHANGED vars
    BY <2>4 DEF vars
  <2> QED BY <2>1, <2>2, <2>3, <2>4 DEF Next
<1> QED BY <1>1, <1>2, TypeInvariant, PTL DEF OvertakenInv, Spec

(* A stop overtakes every start or restart accepted before it, however many *)
(* callers there are: the intent returns to running only for a later one.   *)
THEOREM StopAlwaysWins == Spec => StopWins
<1>1. OvertakenInv /\ [Next]_vars =>
        (doc.desired = "Stopped" /\ doc'.desired = "Running" =>
           \E c \in Clients \ overtaken : client[c].pc = "stage")
  <2> SUFFICES ASSUME OvertakenInv, [Next]_vars,
                      doc.desired = "Stopped", doc'.desired = "Running"
               PROVE  \E c \in Clients \ overtaken : client[c].pc = "stage"
    OBVIOUS
  <2> USE DEF OvertakenInv, TypeInv, TypeOK
  <2>1. ~RuntimeUpdate
    BY DEF RuntimeUpdate, Documents, StageStop, PreparationFailed, MarkStopping,
       RecordFailure, MarkRecovered, MarkStarting, MarkStarted, MarkInactive,
       MarkIntentionalExit
  <2>2. ~(doc' = RollBack(doc)) /\ ~MarkHealthyStep /\ ~ConfirmStable
    BY DEF RollBack, MarkHealthyStep, MarkHealthy, ConfirmStable, MarkStable, Documents
  <2>3. StagingUpdate
    BY <2>1, <2>2, DocumentSteps
  <2>4. PICK c \in Clients : client[c].pc = "stage" /\ Holds(task, c)
    BY <2>3 DEF StagingUpdate, Stage, RetryRejected, Documents
  <2> QED BY <2>4 DEF Overtaken
<1> QED BY <1>1, OvertakenInvariant, PTL DEF Spec, StopWins

-----------------------------------------------------------------------------
(* One core, stopped before a stop is reported, and the host's network.     *)

\* Every live process is the supervisor's child.
OnlyChild == ProcessInv /\ Alive \subseteq {child}

LEMMA OnlyChildInvariant ==
    ASSUME Events \cap {"crash", "terminate"} = {}
    PROVE  Spec => []OnlyChild
<1>1. Init => Alive \subseteq {child}
  BY DEF Init, Alive
<1>2. OnlyChild /\ [Next]_vars => (Alive \subseteq {child})'
  <2> SUFFICES ASSUME OnlyChild, [Next]_vars PROVE (Alive \subseteq {child})'
    OBVIOUS
  <2> USE DEF OnlyChild, ProcessInv, TypeInv, TypeOK, Alive, machine, others
  <2>1. CASE UNCHANGED <<core, child>>
    BY <2>1
  <2>2. ASSUME core' \in [Pids -> Option(Deployments)], child' = child,
               \A p \in Pids : core'[p] \in {core[p], None}
        PROVE  (Alive \subseteq {child})'
    BY <2>2
  <2>3. CASE Recover
    BY <2>3 DEF Recover
  <2>4. CASE Spawn
    <3>1. Alive = {}
      BY <2>4, DocumentAssumption DEF Spawn, ChildInv, Supervised, Starting, Serving
    <3>2. CASE UNCHANGED <<core, child>>
      BY <3>2, <2>1
    <3>3. ASSUME NEW p \in Pids, core' = [core EXCEPT ![p] = plan], child' = p
          PROVE  (Alive \subseteq {child})'
      BY <3>1, <3>3
    <3> QED BY <2>4, <3>2, <3>3 DEF Spawn
  <2>5. CASE TerminateFailed \/ Terminate
    <3>1. core' = [core EXCEPT ![child] = None] /\ child' = None
      BY <2>5 DEF TerminateFailed, Terminate, Failing
    <3> QED BY <3>1
  <2>6. CASE Exited
    BY <2>6 DEF Exited
  <2>7. CASE Leaving
    BY <2>7 DEF Leaving, LoseMemory, ChildInv, Supervised, Starting, Serving
  <2>8. CASE \/ Recovered \/ RecoverFailed \/ Decide \/ Await \/ InactiveRead
             \/ InactiveClean \/ InactiveMark \/ WaitInactive \/ Prepare \/ PrepareInterrupted
             \/ AcquireGate \/ ReadDesired \/ Resolve \/ Resolved \/ MarkStartingStep \/ Gateway
    BY <2>1, <2>8 DEF Recovered, RecoverFailed, Decide, Await, InactiveRead, InactiveClean,
       InactiveMark, WaitInactive, Prepare, PrepareInterrupted, AcquireGate, ReadDesired,
       Resolve, Resolved, MarkStartingStep, Gateway
  <2>9. CASE \/ GatewayCancelled \/ GatewayShutdown \/ GatewayStop \/ MarkStartedStep
             \/ ApplyNetwork \/ ActivateFrontend \/ StartupFailed \/ MarkHealthyStep
             \/ ConfirmStable \/ Interrupt \/ StopMark \/ StopExit \/ StopClean
    BY <2>1, <2>9 DEF GatewayCancelled, GatewayShutdown, GatewayStop, MarkStartedStep,
       ApplyNetwork, ActivateFrontend, StartupFailed, MarkHealthyStep, ConfirmStable,
       Interrupt, StopMark, StopExit, StopClean
  <2>10. CASE \/ FailClean \/ RecordFailureStep \/ RollBackStep \/ Backoff \/ BackoffReload
              \/ BackoffClean \/ BackoffShutdown \/ Stop \/ StopRecord \/ Done \/ Boot
              \/ RestoreResolver \/ StopFrontend \/ CancelClean \/ ShutdownClean
    BY <2>1, <2>10 DEF FailClean, RecordFailureStep, RollBackStep, Backoff, BackoffReload,
       BackoffClean, BackoffShutdown, Stop, StopRecord, Done, Boot, RestoreResolver,
       StopFrontend, CancelClean, ShutdownClean
  <2>11. ASSUME NEW c \in Clients, Request(c) \/ ClientStep(c)
         PROVE  (Alive \subseteq {child})'
    BY <2>1, <2>11, CallerFrame
  <2>12. CASE Environment
    <3>1. ~Crash
      BY DEF Crash
    <3>2. ASSUME NEW p \in Pids, ProcessExit(p) PROVE (Alive \subseteq {child})'
      BY <3>2 DEF ProcessExit
    <3>3. CASE /\ ~Crash /\ ~\E p \in Pids : ProcessExit(p)
      BY <2>1, <2>12, <3>3 DEF Environment, ActivateConfig, SelectCore, ChangeSettings,
         RequestReload, Shutdown, HangUp
    <3> QED BY <3>1, <3>2, <3>3
  <2>13. CASE UNCHANGED vars
    BY <2>1, <2>13 DEF vars
  <2> QED BY <2>3, <2>4, <2>5, <2>6, <2>7, <2>8, <2>9, <2>10, <2>11, <2>12, <2>13
          DEF Next, SupervisorStep
<1> QED BY <1>1, <1>2, ProcessInvariant, PTL DEF OnlyChild, Spec

(* Unless the daemon is killed or a termination times out, at most one core *)
(* is alive, whatever the callers do.                                       *)
THEOREM AtMostOneCore ==
    ASSUME Events \cap {"crash", "terminate"} = {}
    PROVE  Spec => []OneCore
<1>1. OnlyChild => OneCore
  BY DEF OnlyChild, OneCore
<1> QED BY <1>1, OnlyChildInvariant, PTL

\* A stop is completed only where the supervisor has no child, or as failed.
LEMMA StopCompletes ==
    ASSUME ProcessInv, [Next]_vars, Stopping(task), task'.state = "succeeded"
    PROVE  child = None
<1> USE DEF ProcessInv, TypeInv, TypeOK, Tasks, Stopping, InProgress, Preparing, Holds, Finish
<1>1. task' # task
  OBVIOUS
<1>2. CASE SupervisorStep
  <2>1. ~CycleAllowed(task) /\ BeginCycle(task) = task
    BY DEF CycleAllowed, BeginCycle
  <2>2. \A o : EndCycle(task, o) = task
    BY DEF EndCycle
  <2>3. CASE InactiveMark \/ StopClean \/ StopRecord
    BY <2>3 DEF InactiveMark, StopClean, StopRecord, ChildInv, Supervised, Starting, Serving
  <2>4. CASE Terminate \/ Done \/ Leaving
    BY <1>1, <2>4 DEF Terminate, Done, Leaving, LoseMemory, CompleteStop, SupervisorExited,
       NoTask
  <2>5. CASE \/ Recover \/ RecoverFailed \/ Decide \/ MarkStartingStep \/ MarkHealthyStep
             \/ Interrupt \/ RecordFailureStep
    BY <1>1, <2>1, <2>2, <2>5 DEF Recover, RecoverFailed, Decide, MarkStartingStep,
       MarkHealthyStep, Interrupt, RecordFailureStep
  <2>6. CASE Recovered \/ Await \/ InactiveRead \/ InactiveClean \/ WaitInactive \/ Prepare
    BY <1>1, <2>6 DEF Recovered, Await, InactiveRead, InactiveClean, WaitInactive, Prepare
  <2>7. CASE \/ PrepareInterrupted \/ AcquireGate \/ ReadDesired \/ Resolve \/ Resolved
             \/ Gateway \/ GatewayCancelled \/ GatewayShutdown \/ GatewayStop
    BY <1>1, <2>7 DEF PrepareInterrupted, AcquireGate, ReadDesired, Resolve, Resolved,
       Gateway, GatewayCancelled, GatewayShutdown, GatewayStop
  <2>8. CASE \/ Spawn \/ MarkStartedStep \/ ApplyNetwork \/ ActivateFrontend \/ StartupFailed
             \/ TerminateFailed \/ ConfirmStable \/ Exited \/ StopMark \/ StopExit \/ FailClean
    BY <1>1, <2>8 DEF Spawn, MarkStartedStep, ApplyNetwork, ActivateFrontend, StartupFailed,
       TerminateFailed, ConfirmStable, Exited, StopMark, StopExit, FailClean
  <2>9. CASE \/ RollBackStep \/ Backoff \/ BackoffReload \/ BackoffClean \/ BackoffShutdown
           \/ Stop \/ Boot \/ RestoreResolver \/ StopFrontend \/ CancelClean \/ ShutdownClean
    BY <1>1, <2>9 DEF RollBackStep, Backoff, BackoffReload, BackoffClean, BackoffShutdown, Stop, Boot,
     RestoreResolver, StopFrontend, CancelClean, ShutdownClean
  <2> QED BY <1>2, <2>3, <2>4, <2>5, <2>6, <2>7, <2>8, <2>9 DEF SupervisorStep
<1>3. ASSUME NEW c \in Clients, Request(c) \/ ClientStep(c) PROVE FALSE
  <2>1. FailFor(task, c) = task /\ PreparedFor(task, c) = task
    BY DEF FailFor, PreparedFor
  <2>2. CASE Request(c) \/ BeginStart(c) \/ RetryRejectedStep(c) \/ BeginRestart(c)
    BY <1>1, <2>2 DEF Request, RequestStart, RequestRestart, RequestStop, BeginStart,
       RetryRejectedStep, BeginRestart
  <2>3. CASE \/ CheckRestart(c) \/ Lock(c) \/ Compile(c) \/ CancelStart(c) \/ ReadTarget(c)
             \/ StageAction(c) \/ Publish(c)
    BY <1>1, <2>1, <2>3 DEF CheckRestart, Lock, Compile, CancelStart, ReadTarget, StageAction,
       Publish, GiveUp
  <2>4. CASE BeginStop(c) \/ StageStopStep(c) \/ SignalStop(c)
    BY <1>1, <2>4 DEF BeginStop, StageStopStep, SignalStop, StopTask, NewTask
  <2> QED BY <1>3, <2>2, <2>3, <2>4 DEF ClientStep
<1>4. CASE Environment
  BY <1>1, <1>4 DEF Environment, ActivateConfig, SelectCore, ChangeSettings, RequestReload,
     ProcessExit, HangUp, Shutdown, Crash, LoseMemory, NoTask
<1>5. ~UNCHANGED vars
  BY <1>1 DEF vars
<1> QED BY <1>2, <1>3, <1>4, <1>5 DEF Next

(* A stop reported as succeeded has left no core, from whichever of the     *)
(* supervisor's phases it is completed.                                     *)
THEOREM StopIsReported ==
    ASSUME Events \cap {"crash", "terminate"} = {}
    PROVE  Spec => StopReported
<1>1. OnlyChild /\ [Next]_vars => (Stopping(task) /\ task'.state = "succeeded" => Alive = {})
  BY StopCompletes, DocumentAssumption DEF OnlyChild, Alive
<1> QED BY <1>1, OnlyChildInvariant, PTL DEF Spec, StopReported

(* Without a failing cleanup, policy rules are installed only while a core  *)
(* is supervised or its cleanup is still ahead.                             *)
THEOREM NetworkIsCleaned ==
    ASSUME Events \cap {"cleanup", "crash", "terminate"} = {}
    PROVE  Spec => []NetworkFollowsCore
<1>1. Init => NetworkFollowsCore
  BY DEF Init, NetworkFollowsCore
<1>2. TypeInv /\ NetworkFollowsCore /\ [Next]_vars => NetworkFollowsCore'
  <2> SUFFICES ASSUME TypeInv, NetworkFollowsCore, [Next]_vars PROVE NetworkFollowsCore'
    OBVIOUS
  <2> USE DEF TypeInv, TypeOK, NetworkFollowsCore, Hosts, Serving, machine, supervisor, others
  <2>1. Failing("cleanup") = {FALSE} /\ Failing("terminate") = {FALSE}
    BY DEF Failing
  <2>2. ASSUME NEW network \in {FALSE}, NEW dns \in {FALSE}, RestoreHost(network, dns)
        PROVE  ~host'.network
    BY <2>2, RestoreTypes
  <2>3. CASE \/ CancelClean \/ ShutdownClean \/ StopClean \/ FailClean \/ BackoffClean
             \/ InactiveClean \/ Stop
    <3>1. CASE CancelClean \/ ShutdownClean \/ StopClean \/ FailClean \/ BackoffClean
      BY <2>1, <2>2, <3>1 DEF CancelClean, ShutdownClean, StopClean, FailClean, BackoffClean
    <3>2. CASE InactiveClean \/ Stop
      <4>1. ~host.network
        BY <3>2 DEF InactiveClean, Stop
      <4> QED BY <2>1, <2>2, <3>2, <4>1 DEF InactiveClean, Stop
    <3> QED BY <2>3, <3>1, <3>2
  <2>14. CASE StopFrontend
    BY <2>14 DEF StopFrontend
  <2>15. CASE \/ RestoreResolver \/ GatewayCancelled \/ GatewayShutdown \/ Backoff
              \/ BackoffReload
    BY <2>15 DEF RestoreResolver, GatewayCancelled, GatewayShutdown, Backoff, BackoffReload
  <2>4. CASE Recover \/ Recovered \/ RecoverFailed \/ Decide \/ Await \/ InactiveRead
    BY <2>4 DEF Recover, Recovered, RecoverFailed, Decide, Await, InactiveRead
  <2>5. CASE InactiveMark \/ WaitInactive \/ Prepare \/ PrepareInterrupted \/ AcquireGate
    BY <2>5 DEF InactiveMark, WaitInactive, Prepare, PrepareInterrupted, AcquireGate,
       PrepareFails
  <2>6. CASE ReadDesired \/ Resolve \/ Resolved \/ MarkStartingStep \/ Gateway \/ GatewayStop
    <3>1. CASE Resolve
      BY <3>1 DEF Resolve, StartFrontend, PrepareFails
    <3>2. CASE ~Resolve
      BY <2>6, <3>2 DEF ReadDesired, Resolved, MarkStartingStep, Gateway, GatewayStop,
         PrepareFails
    <3> QED BY <3>1, <3>2
  <2>7. CASE \/ Spawn \/ MarkStartedStep \/ ApplyNetwork \/ ActivateFrontend \/ StartupFailed
    BY <2>7 DEF Spawn, MarkStartedStep, ApplyNetwork, ActivateFrontend, StartupFailed
  <2>8. CASE TerminateFailed \/ MarkHealthyStep \/ ConfirmStable \/ Interrupt \/ Exited
    BY <2>1, <2>8 DEF TerminateFailed, MarkHealthyStep, ConfirmStable, Interrupt, Exited
  <2>9. CASE StopMark \/ Terminate \/ StopExit
    BY <2>1, <2>9 DEF StopMark, Terminate, StopExit
  <2>10. CASE \/ RecordFailureStep \/ RollBackStep \/ BackoffShutdown \/ StopRecord \/ Done
              \/ Leaving \/ Boot
    BY <2>10 DEF RecordFailureStep, RollBackStep, BackoffShutdown, StopRecord, Done, Leaving,
       LoseMemory, Boot
  <2>11. ASSUME NEW c \in Clients, Request(c) \/ ClientStep(c) PROVE NetworkFollowsCore'
    BY <2>11, CallerFrame
  <2>12. CASE Environment
    BY <2>12 DEF Environment, ActivateConfig, SelectCore, ChangeSettings, RequestReload,
       ProcessExit, HangUp, Shutdown, Crash
  <2>13. CASE UNCHANGED vars
    BY <2>13 DEF vars
  <2> QED BY <2>3, <2>4, <2>5, <2>6, <2>7, <2>8, <2>9, <2>10, <2>11, <2>12, <2>13,
           <2>14, <2>15 DEF Next, SupervisorStep
<1> QED BY <1>1, <1>2, TypeInvariant, PTL DEF Spec

(***************************************************************************)
(* The resolver and its frontend.  A cleanup is under way only where one is *)
(* due, and one that retains the resolver found its frontend running or the *)
(* failure recorded; a start never points the resolver at a frontend that   *)
(* did not come up with the plan, unless starting it failed.                *)
(***************************************************************************)
CleanupKeeps ==
    cleaning => /\ CleanupDue
                /\ Retained /\ host.dns => host.frontend \/ faulty
FrontendFirst ==
    /\ /\ pc \in {"resolving", "markStarting", "gateway", "spawn", "markStarted", "startup"}
       /\ plan \in DnsDeployments
       => host.frontend \/ faulty
    /\ pc = "activating" /\ host.dns => plan \in DnsDeployments \/ faulty
ResolverInv == TypeInv /\ ResolverServed /\ CleanupKeeps /\ FrontendFirst

LEMMA ResolverKept ==
    ASSUME RestoresDns, ResolverInv, [Next]_vars
    PROVE  (ResolverServed /\ CleanupKeeps /\ FrontendFirst)'
<1> USE DEF ResolverInv, TypeInv, TypeOK, ResolverServed, CleanupKeeps, FrontendFirst,
            CleanupDue, Recovering, Hosts, machine, supervisor, locals, cleanup, others, signals
<1>0. ASSUME ~cleaning, ~Recovering, UNCHANGED <<host, faulty, cleaning>>,
             pc' \notin {"resolving", "markStarting", "gateway", "spawn", "markStarted",
                         "startup", "activating"}
      PROVE  (ResolverServed /\ CleanupKeeps /\ FrontendFirst)'
  BY <1>0
<1>1. CASE StopFrontend
  <2>1. /\ cleaning' /\ CleanupDue' /\ ~cleaning
        /\ host'.dns = host.dns /\ UNCHANGED <<faulty, pc, plan, stopped, retry>>
        /\ ~Recovering
    BY <1>1 DEF StopFrontend
  <2>2. CASE Retained
    BY <1>1, <2>1, <2>2 DEF StopFrontend
  <2>3. CASE ~Retained
    <3>1. ~Retained'
      <4>1. host'.shown => host.shown
        BY <1>1, <2>3 DEF StopFrontend, Failing
      <4> QED BY <2>1, <2>3, <4>1 DEF Retained
    <3> QED BY <1>1, <2>1, <3>1
  <2> QED BY <2>2, <2>3
<1>2. ASSUME NEW network \in BOOLEAN, NEW dns \in BOOLEAN, RestoreHost(network, dns)
      PROVE  /\ host'.dns => host'.frontend \/ faulty'
             /\ ~cleaning'
  BY <1>2 DEF RestoreHost
<1>3. CASE \/ CancelClean \/ ShutdownClean \/ StopClean \/ FailClean \/ BackoffClean
  BY <1>2, <1>3 DEF CancelClean, ShutdownClean, StopClean, FailClean, BackoffClean, Failing
<1>4. CASE InactiveClean \/ Stop
  BY <1>2, <1>4 DEF InactiveClean, Stop, Failing
<1>5. CASE Recover \/ Recovered \/ RestoreResolver \/ RecoverFailed \/ Decide \/ Await
  BY <1>5 DEF Recover, Recovered, RestoreResolver, RecoverFailed, Decide, Await
<1>6. CASE InactiveRead \/ InactiveMark \/ WaitInactive \/ Prepare \/ PrepareInterrupted
  BY <1>6 DEF InactiveRead, InactiveMark, WaitInactive, Prepare, PrepareInterrupted
<1>7. CASE AcquireGate \/ ReadDesired \/ Resolved \/ MarkStartingStep \/ Gateway
  BY <1>7 DEF AcquireGate, ReadDesired, Resolved, MarkStartingStep, Gateway, PrepareFails
<1>8. CASE Resolve
  BY <1>8 DEF Resolve, PrepareFails, StartFrontend, Failing
<1>9. CASE \/ GatewayCancelled \/ GatewayShutdown \/ GatewayStop \/ Spawn \/ MarkStartedStep
           \/ MarkHealthyStep
  <2>1. ~cleaning /\ pc \notin {"activating", "down", "recover", "recovered", "restoring"}
    BY <1>9 DEF GatewayCancelled, GatewayShutdown, GatewayStop, Spawn, MarkStartedStep,
       MarkHealthyStep
  <2>2. /\ UNCHANGED <<host, faulty, cleaning>>
        /\ pc' # "activating"
    BY <1>9 DEF GatewayCancelled, GatewayShutdown, GatewayStop, Spawn, MarkStartedStep,
       MarkHealthyStep
  <2>3. pc' \in {"resolving", "markStarting", "gateway", "spawn", "markStarted", "startup"}
           => pc \in {"spawn", "markStarted"} /\ plan' = plan
    BY <1>9 DEF GatewayCancelled, GatewayShutdown, GatewayStop, Spawn, MarkStartedStep,
       MarkHealthyStep
  <2> QED BY <2>1, <2>2, <2>3
<1>10. CASE ApplyNetwork
  BY <1>10 DEF ApplyNetwork
<1>11. CASE ActivateFrontend
  BY <1>11 DEF ActivateFrontend, StartFrontend, Failing
<1>12. CASE StartupFailed
  BY <1>12 DEF StartupFailed
<1>13. CASE TerminateFailed \/ ConfirmStable
  BY <1>13 DEF TerminateFailed, ConfirmStable
<1>14. CASE Interrupt
  BY <1>14 DEF Interrupt, Serving
<1>15. CASE Exited \/ StopMark
  BY <1>15 DEF Exited, StopMark, Serving
<1>16. CASE Terminate \/ StopExit \/ RecordFailureStep \/ RollBackStep \/ BackoffShutdown
  BY <1>0, <1>16 DEF Terminate, StopExit, RecordFailureStep, RollBackStep, BackoffShutdown
<1>17. CASE Backoff \/ BackoffReload
  BY <1>0, <1>17 DEF Backoff, BackoffReload, Resume
<1>18. CASE StopRecord \/ Done \/ Leaving \/ Boot
  <2>1. CASE StopRecord \/ Done
    BY <1>0, <2>1 DEF StopRecord, Done
  <2>2. CASE Leaving \/ Boot
    <3>1. ~cleaning' /\ pc' \in {"down", "recover"}
      BY <2>2 DEF Leaving, LoseMemory, Boot
    <3> QED BY <3>1
  <2> QED BY <1>18, <2>1, <2>2
<1>19. ASSUME UNCHANGED <<machine, supervisor>>
       PROVE  (ResolverServed /\ CleanupKeeps /\ FrontendFirst)'
  BY <1>19 DEF Retained
<1>20. ASSUME NEW c \in Clients, Request(c) \/ ClientStep(c)
       PROVE  (ResolverServed /\ CleanupKeeps /\ FrontendFirst)'
  BY <1>19, <1>20, CallerFrame
<1>21. CASE Environment
  <2>1. CASE Crash
    BY <2>1 DEF Crash, LoseMemory
  <2>2. ASSUME NEW p \in Pids, ProcessExit(p)
        PROVE  (ResolverServed /\ CleanupKeeps /\ FrontendFirst)'
    BY <2>2 DEF ProcessExit, Retained
  <2>3. CASE ~Crash /\ ~\E p \in Pids : ProcessExit(p)
    BY <1>19, <1>21, <2>3 DEF Environment, ActivateConfig, SelectCore, ChangeSettings,
       RequestReload, Shutdown, HangUp
  <2> QED BY <2>1, <2>2, <2>3
<1>22. CASE UNCHANGED vars
  BY <1>19, <1>22 DEF vars
<1> QED BY <1>1, <1>3, <1>4, <1>5, <1>6, <1>7, <1>8, <1>9, <1>10, <1>11, <1>12, <1>13, <1>14,
           <1>15, <1>16, <1>17, <1>18, <1>20, <1>21, <1>22 DEF Next, SupervisorStep

(* Where recovery restores the system resolver (macOS and Windows), and     *)
(* whatever fails or times out, the resolver points at a frontend that does *)
(* not run only between the awaits of a cleanup, until a recovery has run,  *)
(* or since starting the frontend or restoring the resolver failed: across  *)
(* starts of deployments with and without one, crashes of the daemon in any *)
(* phase, and stops.                                                        *)
THEOREM ResolverAlwaysServed ==
    ASSUME RestoresDns
    PROVE  Spec => []ResolverServed
<1>1. Init => ResolverServed /\ CleanupKeeps /\ FrontendFirst
  BY DEF Init, ResolverServed, CleanupKeeps, FrontendFirst, Recovering
<1>2. ResolverInv /\ [Next]_vars => (ResolverServed /\ CleanupKeeps /\ FrontendFirst)'
  BY ResolverKept
<1> QED BY <1>1, <1>2, TypeInvariant, PTL DEF Spec, ResolverInv
=============================================================================
