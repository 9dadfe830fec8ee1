-------------------------------- MODULE Traffic --------------------------------
(***************************************************************************)
(* The traffic history of the client (sempre-client/src/traffic_collector, *)
(* traffic_history and traffic_rotation).  The core streams the counters   *)
(* of its open connections; the collector turns them into differences and  *)
(* adds these to buckets of time, which are written to a file about once   *)
(* a minute.  Streams break, the core and the daemon restart, writes fail, *)
(* old buckets are dropped by age and by size, and a user clears them.     *)
(***************************************************************************)
EXTENDS Integers, FiniteSets, FiniteSetsExt, Functions

CONSTANTS
    Conn,             \* connections; an identifier is never given twice
    MaxBytes,         \* what one connection may carry
    MaxTime,          \* buckets of time explored
    Retention,        \* how many buckets settings may keep, 0: all
    Limit,            \* how many buckets the document may hold
    MaxTrafficFaults  \* failed writes and killed daemons

ASSUME TrafficAssumption ==
    /\ IsFiniteSet(Conn) /\ MaxBytes \in Nat /\ MaxTime \in Nat /\ Retention \subseteq Nat
    /\ Limit \in Nat \ {0} /\ MaxTrafficFaults \in Nat

Buckets == 0 .. MaxTime
Absent == -1
Empty == [b \in Buckets |-> 0]
Unseen == [c \in Conn |-> Absent]
NoneSent == Unseen

VARIABLES
    carried,     \* what each open connection has carried, or Absent
    closed,      \* the connections that are over
    stream,      \* the collector's stream: "none" or "open"
    snapshot,    \* a snapshot the core has sent and the collector has not read
    previous,    \* Accumulator.previous
    initialized, \* Accumulator.initialized
    now,         \* the current bucket
    kept,        \* settings: how many buckets are retained
    history,     \* the buckets in memory
    dirty,
    document,    \* the file: [kept, records]
    running,     \* the daemon
    read,        \* the counters read last of every connection (for the properties)
    trafficFaults

coreVars == <<carried, closed>>
collectorVars == <<stream, snapshot, previous, initialized>>
historyVars == <<now, kept, history, dirty, document>>
trafficVars ==
    <<coreVars, collectorVars, historyVars, running, read, trafficFaults>>

Total(f) == FoldFunction(+, 0, f)
Open == {c \in Conn : carried[c] # Absent}
TrafficFault == trafficFaults < MaxTrafficFaults /\ trafficFaults' = trafficFaults + 1

TrafficInit ==
    /\ carried = Unseen /\ closed = {}
    /\ stream = "none" /\ snapshot = NoneSent
    /\ previous = Unseen /\ initialized = FALSE
    /\ now = 0 /\ kept \in Retention /\ history = Empty /\ dirty = FALSE
    /\ document = [kept |-> kept, records |-> history]
    /\ running = TRUE /\ read = [c \in Conn |-> 0] /\ trafficFaults = 0

(***************************************************************************)
(* The core.                                                               *)
(***************************************************************************)
Carry ==
    /\ \E c \in Conn \ closed :
         /\ carried[c] < MaxBytes
         /\ carried' = [carried EXCEPT ![c] = IF @ = Absent THEN 1 ELSE @ + 1]
    /\ UNCHANGED <<closed, collectorVars, historyVars, running, read, trafficFaults>>

Close(S) ==
    /\ carried' = [c \in Conn |-> IF c \in S THEN Absent ELSE carried[c]]
    /\ closed' = closed \cup S

CloseConnection ==
    /\ \E c \in Open : Close({c})
    /\ UNCHANGED <<collectorVars, historyVars, running, read, trafficFaults>>

\* The core restarts: every connection is over and the stream breaks.
RestartCore ==
    /\ Open # {} /\ Close(Open)
    /\ stream' = "none" /\ snapshot' = NoneSent
    /\ UNCHANGED <<previous, initialized, historyVars, running, read, trafficFaults>>

SendSnapshot ==
    /\ stream = "open" /\ snapshot = NoneSent /\ Open # {} /\ snapshot' = carried
    /\ UNCHANGED <<coreVars, stream, previous, initialized, historyVars, running, read,
                   trafficFaults>>

(***************************************************************************)
(* The collector.                                                          *)
(***************************************************************************)
\* The accumulator outlives its streams.
Connect ==
    /\ running /\ stream = "none" /\ stream' = "open"
    /\ UNCHANGED <<coreVars, snapshot, previous, initialized, historyVars, running, read,
                   trafficFaults>>

BreakStream ==
    /\ stream = "open" /\ TrafficFault
    /\ stream' = "none" /\ snapshot' = NoneSent
    /\ UNCHANGED <<coreVars, previous, initialized, historyVars, running, read>>

\* The counters a difference is taken to.  Those of a connection that is open when the
\* daemon starts may be in the history already.  Taken from zero, they are counted twice.
BaseZero(c) == IF previous[c] # Absent THEN previous[c] ELSE 0
Base(c) ==
    IF previous[c] # Absent THEN previous[c]
    ELSE IF initialized THEN 0 ELSE snapshot[c]

Difference(c) == IF snapshot[c] = Absent THEN 0 ELSE Max({snapshot[c] - Base(c), 0})
Deltas == Total([c \in Conn |-> Difference(c)])

\* storage_cutoff: a retention of nothing keeps all.
Recent(f, time, hours) ==
    [b \in Buckets |-> IF hours # 0 /\ b < time - hours THEN 0 ELSE f[b]]

Accumulate ==
    /\ running /\ snapshot # NoneSent
    /\ previous' = snapshot /\ initialized' = TRUE /\ snapshot' = NoneSent
    /\ read' = [c \in Conn |-> IF snapshot[c] = Absent THEN read[c] ELSE snapshot[c]]
    /\ IF Deltas = 0 THEN UNCHANGED <<history, dirty>>
       ELSE /\ history' = Recent([history EXCEPT ![now] = @ + Deltas], now, kept)
            /\ dirty' = TRUE
    /\ UNCHANGED <<coreVars, stream, now, kept, document, running, trafficFaults>>

(***************************************************************************)
(* The store: rotation, eviction and the document.                         *)
(***************************************************************************)
Used(f) == {b \in Buckets : f[b] > 0}

\* eviction_cutoff: the oldest buckets go, one more than the excess of the whole.
Cutoff(f) ==
    LET excess == Cardinality(Used(f)) - Limit
    IN  Min({b \in Used(f) : Cardinality({a \in Used(f) : a <= b}) > excess})
Evicted(f) ==
    IF Cardinality(Used(f)) <= Limit THEN f
    ELSE [b \in Buckets |-> IF b <= Cutoff(f) THEN 0 ELSE f[b]]

\* What is evicted stays so, whether the write succeeds or not.
PersistHistory(f, setting) ==
    /\ history' = Evicted(f) /\ kept' = setting
    /\ \/ document' = [kept |-> kept', records |-> history'] /\ dirty' = FALSE
          /\ UNCHANGED trafficFaults
       \/ TrafficFault /\ dirty' = TRUE /\ UNCHANGED document

\* The collector's tick rotates, and once a minute it writes what is dirty.
Maintain ==
    /\ running
    /\ LET rotated == Recent(history, now, kept)
           changed == dirty \/ rotated # history
       IN  \/ changed /\ PersistHistory(rotated, kept)
           \/ /\ history' = rotated /\ dirty' = changed
              /\ UNCHANGED <<kept, document, trafficFaults>>
    /\ UNCHANGED <<coreVars, collectorVars, now, running, read>>

SetRetention ==
    /\ running
    /\ \E setting \in Retention \ {kept} : PersistHistory(Recent(history, now, setting), setting)
    /\ UNCHANGED <<coreVars, collectorVars, now, running, read>>

Clear ==
    /\ running /\ PersistHistory(Empty, kept)
    /\ UNCHANGED <<coreVars, collectorVars, now, running, read>>

\* The daemon stops: the stream is left and the history flushed, or it is killed.
Leave ==
    /\ running' = FALSE
    /\ stream' = "none" /\ snapshot' = NoneSent
    /\ previous' = Unseen /\ initialized' = FALSE

\* flush.  Skipped, the minute since the last write is lost at every stop.
FlushNothing == UNCHANGED <<history, kept, dirty, document, trafficFaults>>
Flush ==
    IF dirty THEN PersistHistory(history, kept)
    ELSE UNCHANGED <<history, kept, dirty, document, trafficFaults>>

Shutdown ==
    /\ running /\ Leave /\ Flush
    /\ UNCHANGED <<coreVars, now, read>>

KillDaemon ==
    /\ running /\ TrafficFault /\ Leave
    /\ UNCHANGED <<coreVars, historyVars, read>>

\* The next daemon opens the document.
StartDaemon ==
    /\ ~running /\ running' = TRUE
    /\ history' = document.records /\ kept' = document.kept /\ dirty' = FALSE
    /\ UNCHANGED <<coreVars, collectorVars, now, document, read, trafficFaults>>

Pass ==
    /\ now < MaxTime /\ now' = now + 1
    /\ UNCHANGED <<coreVars, collectorVars, kept, history, dirty, document, running, read,
                   trafficFaults>>

------------------------------------------------------------------------------
TrafficNext ==
    \/ Carry \/ CloseConnection \/ RestartCore \/ SendSnapshot
    \/ Connect \/ BreakStream \/ Accumulate
    \/ Maintain \/ SetRetention \/ Clear
    \/ Shutdown \/ KillDaemon \/ StartDaemon \/ Pass

TrafficSpec == TrafficInit /\ [][TrafficNext]_trafficVars

(***************************************************************************)
(* Properties.                                                             *)
(***************************************************************************)
\* What a connection carried is never counted twice (Accumulator.observe), whichever
\* of the stream, the core and the daemon restart between two snapshots.
NeverOvercounted ==
    /\ Total(history) <= Total(read)
    /\ Total(document.records) <= Total(read)

\* An orderly stop loses nothing (flush_shutdown): without a failure the next daemon
\* shows what this one showed.
StopLosesNothing == ~running /\ trafficFaults = 0 => document.records = history

\* The history counts every byte once at most and survives an orderly stop.
HistoryHonest == NeverOvercounted /\ StopLosesNothing

\* Only the oldest go (retention, eviction): whoever clears aside, a bucket is not
\* dropped while an older one stays.
OldestGoFirst ==
    running /\ history' # Empty =>
      \A a, b \in Buckets : a < b /\ history'[a] > 0 => history'[b] >= history[b]

\* What is shown was carried, survives an orderly stop, and goes from its old end only.
TrafficKept == [][HistoryHonest' /\ OldestGoFirst]_trafficVars

===============================================================================
