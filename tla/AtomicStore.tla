---------------------------- MODULE AtomicStore -----------------------------
(***************************************************************************)
(* What Store (sempre-state) promises the rest of Sempre: one document that *)
(* concurrent callers, of several processes, read and update atomically.    *)
(* An update is a single step.  A read answers with a document the store    *)
(* held at some moment of the call, which makes reads and updates           *)
(* linearizable.  A power failure undoes no update that was acknowledged.   *)
(***************************************************************************)
EXTENDS Naturals

CONSTANTS
    Threads,    \* callers of the store
    Durable     \* an acknowledged update survives a power failure

VARIABLES
    value,      \* the document, as the number of the update that wrote it
    exposed,    \* what a power failure may leave as the document
    call,       \* what each thread asks of the store
    seen,       \* the documents the store held during a thread's read
    result      \* the answer of a thread's last read

vars == <<value, exposed, call, seen, result>>

Init ==
    /\ value = 0 /\ exposed = {0}
    /\ call = [t \in Threads |-> "idle"]
    /\ seen = [t \in Threads |-> {}]
    /\ result = [t \in Threads |-> 0]

BeginRead(t) ==
    /\ call[t] = "idle"
    /\ call' = [call EXCEPT ![t] = "read"]
    /\ seen' = [seen EXCEPT ![t] = {value}]
    /\ UNCHANGED <<value, exposed, result>>

Answer(t) ==
    /\ call[t] = "read"
    /\ \E v \in seen[t] : result' = [result EXCEPT ![t] = v]
    /\ call' = [call EXCEPT ![t] = "answered"]
    /\ UNCHANGED <<value, exposed, seen>>

BeginUpdate(t) ==
    /\ call[t] = "idle"
    /\ call' = [call EXCEPT ![t] = "update"]
    /\ UNCHANGED <<value, exposed, seen, result>>

\* The one step at which an update takes effect, for every reader at once.
Write(t) ==
    /\ call[t] = "update"
    /\ value' \in Nat
    /\ exposed' = exposed \cup {value'}
    /\ seen' = [u \in Threads |->
                  IF call[u] \in {"read", "answered"} THEN seen[u] \cup {value'} ELSE seen[u]]
    /\ call' = [call EXCEPT ![t] = "written"]
    /\ UNCHANGED result

\* The calls of S end, and what they knew is gone.
Ends(S) ==
    /\ call' = [t \in Threads |-> IF t \in S THEN "idle" ELSE call[t]]
    /\ seen' = [t \in Threads |-> IF t \in S THEN {} ELSE seen[t]]
    /\ result' = [t \in Threads |-> IF t \in S THEN 0 ELSE result[t]]

Acknowledge(t) ==
    /\ call[t] = "written"
    /\ exposed' = IF Durable THEN {value} ELSE exposed
    /\ Ends({t})
    /\ UNCHANGED value

\* A read returns, any call fails, or a process is killed with its calls.
End(S) == Ends(S) /\ UNCHANGED <<value, exposed>>

PowerFailure ==
    /\ value' \in exposed
    /\ exposed' = {value'}
    /\ Ends(Threads)

Next ==
    \/ \E t \in Threads : \/ BeginRead(t) \/ Answer(t)
                          \/ BeginUpdate(t) \/ Write(t) \/ Acknowledge(t)
    \/ \E S \in SUBSET Threads : End(S)
    \/ PowerFailure

Spec == Init /\ [][Next]_vars
=============================================================================
