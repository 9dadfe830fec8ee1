------------------------------ MODULE Observation ------------------------------
(***************************************************************************)
(* Leak detection (sempre-client/src/leak_detection_api.rs and its         *)
(* modules).  One observation runs at a time: it samples the host's        *)
(* processes, sockets and core connections over and over, and between two  *)
(* steps of that it takes commands and the events of its probes, child     *)
(* processes that wait to be seen by a sample before they send anything.   *)
(* The caller may hang up at any point, which drops the observation.       *)
(***************************************************************************)
EXTENDS Integers, FiniteSets, Sequences

CONSTANTS
    Probe,             \* dns, ipv4, ipv6
    Socket,            \* an application's socket
    Chain,             \* the chain of outbounds the core reports for a connection
    MaxObservations    \* bound on the observations of a run

Nobody == 0
Unrouted == "none"
Observations == 1 .. MaxObservations

VARIABLES
    count,      \* observations begun
    permit,     \* who holds OBSERVATION
    slot,       \* the ACTIVE registry: what commands may reach
    commands,   \* the observation's commands, a channel of two
    stage,       \* where the observation is
    report,     \* what it reports: [ready, status, results, completed]
    connections,    \* report.connections
    worker,     \* the task and the child of each probe
    session,    \* the probes' session: [processes, pending]
    events,     \* what workers have sent
    known,      \* the processes the sample under way was told of
    listed,     \* and those it has listed
    seen        \* the probes some sample has listed (history)

probeVars == <<worker, session, events>>
sampleVars == <<known, listed, seen>>
observationVars ==
    <<count, permit, slot, commands, stage, report, connections, probeVars, sampleVars>>

NoSlot == [id |-> Nobody]
Blank ==
    [ready |-> FALSE, status |-> "idle", completed |-> FALSE,
     results |-> [p \in Probe |-> "none"]]
NoSession == [processes |-> {}, pending |-> {}]
NoWorkers == [p \in Probe |-> "none"]

Capacity == 2                       \* mpsc::channel(2)
Unsettled == {"pending", "running"}

ObservationInit ==
    /\ count = 0 /\ permit = Nobody /\ slot = NoSlot /\ commands = <<>>
    /\ stage = "none" /\ report = Blank /\ connections = {}
    /\ worker = NoWorkers /\ session = NoSession /\ events = <<>>
    /\ known = {} /\ listed = {} /\ seen = {}

(***************************************************************************)
(* observe: the permit, the registration, and the end of both.             *)
(***************************************************************************)
\* The permit is taken and the observation registered before the task is spawned.
BeginObservation ==
    /\ permit = Nobody /\ count < MaxObservations
    /\ count' = count + 1 /\ permit' = count'
    /\ slot' = [id |-> count', ready |-> FALSE, used |-> FALSE, late |-> FALSE]
    /\ commands' = <<>> /\ stage' = "sampling"
    /\ report' = Blank /\ connections' = {} /\ seen' = {}
    /\ known' = {} /\ listed' = {}
    /\ UNCHANGED probeVars

\* Dropping the run aborts the workers, and with them their children.
Dropped ==
    /\ worker' = NoWorkers /\ session' = NoSession /\ events' = <<>> /\ commands' = <<>>

\* The guard goes before the permit, and gives up only its own registration.
Unregister == slot' = IF slot.id = permit THEN NoSlot ELSE slot

\* The caller hangs up (sender.closed), or the time limit around the run passes.
HangUp ==
    /\ stage \notin {"none", "ended"}
    /\ stage' = "ended" /\ Dropped
    /\ UNCHANGED <<count, permit, slot, report, connections, sampleVars>>

DropGuard ==
    /\ stage = "ended" /\ stage' = "free" /\ Unregister
    /\ UNCHANGED <<count, permit, commands, report, connections, probeVars, sampleVars>>

DropPermit ==
    /\ stage = "free" /\ stage' = "none" /\ permit' = Nobody
    /\ UNCHANGED <<count, slot, commands, report, connections, probeVars, sampleVars>>

(***************************************************************************)
(* dispatch: a request names the observation it is for.                    *)
(***************************************************************************)
\* Accepted before the collector is ready, a start is dropped by the session.
MayStartAnyTime == ~slot.used /\ ~slot.late
MayStart == slot.ready /\ ~slot.used /\ ~slot.late

Dispatch ==
    /\ slot.id # Nobody /\ Len(commands) < Capacity
    /\ \/ /\ MayStart
          /\ commands' = Append(commands, "start")
          /\ slot' = [slot EXCEPT !.used = TRUE]
       \/ commands' = Append(commands, "stop") /\ UNCHANGED slot
    /\ UNCHANGED <<count, permit, stage, report, connections, probeVars, sampleVars>>

\* Less than twenty seconds of the observation are left.
GrowsLate ==
    /\ slot.id # Nobody /\ ~slot.late /\ slot' = [slot EXCEPT !.late = TRUE]
    /\ UNCHANGED <<count, permit, commands, stage, report, connections, probeVars, sampleVars>>

(***************************************************************************)
(* drive: what is served while a sample is taken and between two samples.  *)
(***************************************************************************)
Driving == stage \in {"collecting", "listing", "resting"}

StopResults(results) ==
    [p \in Probe |-> IF results[p] \in Unsettled THEN "stopped" ELSE results[p]]
Halted(r) ==
    [r EXCEPT !.results = StopResults(@),
              !.status = IF @ = "running" THEN "stopped" ELSE @]

StopProbes ==
    /\ worker' = NoWorkers /\ session' = NoSession
    /\ report' = Halted(report)

TakeCommand ==
    /\ Driving /\ commands # <<>> /\ commands' = Tail(commands)
    /\ \/ /\ Head(commands) = "stop" /\ StopProbes
       \/ /\ Head(commands) = "start" /\ report.status = "idle" /\ report.ready
          /\ worker' = [p \in Probe |-> "handshake"]
          /\ report' = [report EXCEPT !.status = "running",
                                      !.results = [p \in Probe |-> "pending"]]
          /\ UNCHANGED session
       \/ /\ Head(commands) = "start" /\ ~(report.status = "idle" /\ report.ready)
          /\ UNCHANGED <<worker, session, report>>
    /\ UNCHANGED <<count, permit, slot, stage, connections, events, sampleVars>>

\* Merging by id, then a route into the record its socket had without one.
Merged(all, records) ==
    {e \in all : e.route = Unrouted =>
       \A r \in records \ all : r.socket = e.socket => r.route = Unrouted} \cup records

\* Events that come after a stop are dropped.
Settles(p, outcome) ==
    LET results == [report.results EXCEPT ![p] = outcome]
    IN  [report EXCEPT !.results = results,
           !.status = IF \A q \in Probe : results[q] \notin Unsettled
                      THEN "completed" ELSE @]

AppliesAlways == TRUE
Applies == report.status = "running"

TakeEvent ==
    /\ Driving /\ events # <<>> /\ events' = Tail(events)
    /\ LET e == Head(events) IN
         IF ~Applies THEN UNCHANGED <<report, connections, session>>
         ELSE \/ /\ e.kind = "registered"
                 /\ session' = [processes |-> session.processes \cup {e.probe},
                                pending |-> session.pending \cup {e.probe}]
                 /\ UNCHANGED <<report, connections>>
              \/ /\ e.kind = "record" /\ connections' = Merged(connections, {e.record})
                 /\ UNCHANGED <<report, session>>
              \/ /\ e.kind = "result" /\ report' = Settles(e.probe, e.outcome)
                 /\ UNCHANGED <<connections, session>>
    /\ UNCHANGED <<count, permit, slot, commands, stage, worker, sampleVars>>

(***************************************************************************)
(* run: one sample after another.                                          *)
(***************************************************************************)
\* The sample takes the processes of the probes registered so far.
BeginSample ==
    /\ stage = "sampling" /\ stage' = "collecting"
    /\ known' = session.processes /\ listed' = {}
    /\ UNCHANGED <<count, permit, slot, commands, report, connections, probeVars, seen>>

\* Of those, it lists the ones that are alive.
ListProcesses ==
    /\ stage = "collecting" /\ stage' = "listing"
    /\ listed' = {p \in known : worker[p] # "none"}
    /\ seen' = seen \cup listed'
    /\ UNCHANGED <<count, permit, slot, commands, report, connections, probeVars, known>>

Sampled(r, shown) ==
    [r EXCEPT !.ready = TRUE,
              !.results = [p \in Probe |-> IF p \in shown THEN "running" ELSE @[p]]]

\* A sample activates the probes it has listed, whichever have registered since.
ShownRegistered == session.pending
Shown == session.pending \cap listed

EndSample ==
    /\ stage = "listing" /\ stage' = "resting"
    /\ report' = Sampled(report, Shown)
    /\ slot' = IF slot.id = permit THEN [slot EXCEPT !.ready = TRUE] ELSE slot
    /\ session' = [session EXCEPT !.pending = @ \ Shown]
    /\ worker' = [p \in Probe |-> IF p \in Shown /\ worker[p] = "waiting"
                                  THEN "traffic" ELSE worker[p]]
    /\ \E chosen \in [Socket -> Chain \cup {Unrouted, "closed"}] :
         connections' = Merged(connections,
             {[socket |-> s, route |-> chosen[s]] : s \in {x \in Socket : chosen[x] # "closed"}})
    /\ UNCHANGED <<count, permit, commands, events, sampleVars>>

Rest ==
    /\ stage = "resting" /\ stage' = "sampling"
    /\ UNCHANGED <<count, permit, slot, commands, report, connections, probeVars, sampleVars>>

\* The window ends, or a sample takes too long: the probes are stopped and the report
\* is complete.  Finished with the probes still at it, it would show what may change.
FinishedAsIs(r) == r
Finished(r) == Halted(r)

Complete ==
    /\ stage \in {"sampling", "collecting", "listing"} /\ stage' = "ended"
    /\ Dropped
    /\ report' = [Finished(report) EXCEPT !.ready = FALSE, !.completed = TRUE]
    /\ UNCHANGED <<count, permit, slot, connections, sampleVars>>

(***************************************************************************)
(* A worker and its child.                                                 *)
(***************************************************************************)
Send(e) == events' = Append(events, e)
Concludes(p, outcome) ==
    /\ worker' = [worker EXCEPT ![p] = "none"]
    /\ Send([kind |-> "result", probe |-> p, outcome |-> outcome])

\* The child has said that it is ready; it waits for the word to start.
Announce(p) ==
    /\ worker[p] = "handshake" /\ worker' = [worker EXCEPT ![p] = "waiting"]
    /\ Send([kind |-> "registered", probe |-> p])

\* While a connection is held open the core is asked about it.
ReportConnection(p) ==
    /\ worker[p] = "traffic" /\ worker' = [worker EXCEPT ![p] = "connected"]
    /\ \E r \in Chain \cup {Unrouted} :
         Send([kind |-> "record", probe |-> p, record |-> [socket |-> p, route |-> r]])

\* It fails at any point or takes too long, and its child is killed.
WorkerFails(p) ==
    /\ worker[p] # "none" /\ Concludes(p, "failed")

WorkerPasses(p) == worker[p] \in {"traffic", "connected"} /\ Concludes(p, "passed")

WorkerStep ==
    /\ \E p \in Probe :
         Announce(p) \/ ReportConnection(p) \/ WorkerFails(p) \/ WorkerPasses(p)
    /\ UNCHANGED <<count, permit, slot, commands, stage, report, connections, session, sampleVars>>

------------------------------------------------------------------------------
ObservationNext ==
    \/ BeginObservation \/ HangUp \/ DropGuard \/ DropPermit
    \/ Dispatch \/ GrowsLate \/ TakeCommand \/ TakeEvent
    \/ BeginSample \/ ListProcesses \/ EndSample \/ Rest \/ Complete
    \/ WorkerStep

ObservationSpec == ObservationInit /\ [][ObservationNext]_observationVars

(***************************************************************************)
(* Properties.                                                             *)
(***************************************************************************)
ObservationTypeOK ==
    /\ permit \in {Nobody, count} /\ slot.id \in {Nobody, count}
    /\ Len(commands) <= Capacity
    /\ report.results \in [Probe -> Unsettled \cup {"none", "stopped", "passed", "failed"}]
    /\ connections \subseteq [socket : Socket \cup Probe, route : Chain \cup {Unrouted}]
    /\ worker \in [Probe -> {"none", "handshake", "waiting", "traffic", "connected"}]
    /\ session.pending \subseteq session.processes

\* No probe sends anything before a sample has listed its process, so that none of its
\* connections can be taken for an application's (sampled against what registers while
\* a sample is being taken).
ProbesSeenFirst == \A p \in Probe : worker[p] \in {"traffic", "connected"} => p \in seen

\* A start that was accepted is carried out: only its own observation can take it, and
\* takes it while it is idle and ready.
AcceptedStarts ==
    slot.id # Nobody /\ slot.used /\ Driving =>
        report.status # "idle" \/ \E i \in 1 .. Len(commands) : commands[i] = "start"

\* A completed report is final: nothing in it is still under way, and no child of it is.
CompletedSettled ==
    report.completed =>
        /\ \A p \in Probe : report.results[p] \notin Unsettled
        /\ worker = NoWorkers \/ count # permit

\* What reaches the registry is the observation that runs.
RegisteredRuns == slot.id # Nobody => slot.id = permit

ProbesAccounted == ProbesSeenFirst /\ AcceptedStarts /\ CompletedSettled /\ RegisteredRuns

\* Within an observation no route once reported is taken back, a probe that passed has passed,
\* and nothing changes after the probes were stopped.  A failure alone can be taken back: by the
\* end of the sample that had listed the probe before it failed, which shows it as running.
EvidenceKept ==
    count' = count =>
      /\ \A e \in connections : e.route # Unrouted => e \in connections'
      /\ \A p \in Probe : report.results[p] = "passed" => report'.results[p] = "passed"
      /\ \A p \in Probe : report.results[p] = "failed" =>
            \/ report'.results[p] = "failed"
            \/ stage = "listing" /\ p \in listed /\ report'.results[p] = "running"
      /\ report.status = "stopped" => report'.results = report.results

\* A report accounts for every probe, and of what it has shown only such a failure is lost.
ReportHonest == [][ProbesAccounted' /\ EvidenceKept]_observationVars

===============================================================================
