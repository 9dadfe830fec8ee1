----------------------------- MODULE StateStore -----------------------------
(***************************************************************************)
(* How Store (sempre-state, store.rs) keeps the state document in           *)
(* state.json: a lock file orders the writers of all processes, an update   *)
(* rewrites the whole file through a temporary one (atomic.rs), and each    *)
(* process answers reads from a cached copy while the file's identity has   *)
(* not changed.  Processes are killed and the power fails at any point.     *)
(* Simplifications:                                                         *)
(*   - documents have one length, so that only inode and time tell files    *)
(*     apart: the worst case of FileStamp;                                  *)
(*   - the file exists and is of the current schema (Store::initialize has  *)
(*     run): migrations are not modelled;                                   *)
(*   - reading a valid file does not fail.                                  *)
(***************************************************************************)
EXTENDS Naturals

CONSTANTS
    Threads, Processes,
    Process,        \* the process of each thread; its threads share one cache
    Inodes,         \* file identities the file system hands out and reuses
    Unix,           \* cfg(unix): stamps have an inode, directories are synced
    FineClock,      \* no two writes have the same modification time
    MaxWrites,      \* bound: temporary files written in a behaviour
    None

Stamps == [modified : Nat, inode : Inodes]
Files == [version : Nat, stamp : Stamps, synced : BOOLEAN]

ASSUME StoreAssumption ==
    /\ Process \in [Threads -> Processes]
    /\ Unix \in BOOLEAN /\ FineClock \in BOOLEAN
    /\ MaxWrites \in Nat
    /\ Inodes # {}
    /\ None \notin Threads \cup Files

VARIABLES
    file,           \* state.json: the update that wrote it, its stamp, content synced
    recoverable,    \* files a power failure may leave as state.json
    clock,          \* the file system's clock
    written,        \* temporary files written so far
    lock,           \* the holder of the state lock
    cache,          \* each process's cached document with the stamp it was read under
    pc,             \* where each thread is
    local,          \* the file a call has looked at or is writing
    base,           \* the document an update was computed from
    result,         \* the answer of a read
    seen,           \* history: documents the file held during a thread's read
    acknowledged    \* history: the last update reported as done

vars == <<file, recoverable, clock, written, lock, cache, pc, local, base, result, seen,
          acknowledged>>

Reading == {"stat", "cached", "readLock", "readFile", "fill"}
Locked == {"readFile", "fill", "modify", "write", "sync", "persist", "syncParent"}
Updating == {"updateLock", "modify", "write", "sync", "persist"}
Labels == Reading \cup Updating \cup {"idle", "answer", "syncParent"}

TypeOK ==
    /\ file \in Files /\ recoverable \subseteq Files
    /\ clock \in Nat /\ written \in 0..MaxWrites
    /\ lock \in Threads \cup {None}
    /\ cache \in [Processes -> Files \cup {None}]
    /\ pc \in [Threads -> Labels]
    /\ local \in [Threads -> Files \cup {None}]
    /\ base \in [Threads -> Nat] /\ result \in [Threads -> Nat]
    /\ seen \in [Threads -> SUBSET Nat]
    /\ acknowledged \in Nat

Init ==
    /\ \E i \in Inodes :
         file = [version |-> 0, stamp |-> [modified |-> 0, inode |-> i], synced |-> TRUE]
    /\ recoverable = {file}
    /\ clock = 0 /\ written = 0 /\ lock = None
    /\ cache = [p \in Processes |-> None]
    /\ pc = [t \in Threads |-> "idle"]
    /\ local = [t \in Threads |-> None]
    /\ base = [t \in Threads |-> 0] /\ result = [t \in Threads |-> 0]
    /\ seen = [t \in Threads |-> {}]
    /\ acknowledged = 0

To(t, label) == pc' = [pc EXCEPT ![t] = label]

\* The calls of the threads in S end, and their local variables with them.
Leave(S) ==
    /\ pc' = [t \in Threads |-> IF t \in S THEN "idle" ELSE pc[t]]
    /\ local' = [t \in Threads |-> IF t \in S THEN None ELSE local[t]]
    /\ base' = [t \in Threads |-> IF t \in S THEN 0 ELSE base[t]]
    /\ result' = [t \in Threads |-> IF t \in S THEN 0 ELSE result[t]]
    /\ seen' = [t \in Threads |-> IF t \in S THEN {} ELSE seen[t]]
disk == <<file, recoverable, clock, written, acknowledged>>
-----------------------------------------------------------------------------
(* Store::read.                                                             *)

BeginRead(t) ==
    /\ pc[t] = "idle"
    /\ To(t, "stat")
    /\ seen' = [seen EXCEPT ![t] = {file.version}]
    /\ UNCHANGED <<disk, lock, cache, local, base, result>>

\* stamp(): only the stamp of the file is kept.
Stat(t) ==
    /\ pc[t] = "stat"
    /\ local' = [local EXCEPT ![t] = file]
    /\ To(t, "cached")
    /\ UNCHANGED <<disk, lock, cache, base, result, seen>>

Cached(t) == LET held == cache[Process[t]] IN held # None /\ held.stamp = local[t].stamp

\* Mutant of CheckCache: any cached document answers the read.
CacheUnchecked(t) ==
    /\ pc[t] = "cached"
    /\ IF cache[Process[t]] # None
       THEN result' = [result EXCEPT ![t] = cache[Process[t]].version] /\ To(t, "answer")
       ELSE To(t, "readLock") /\ UNCHANGED result
    /\ UNCHANGED <<disk, lock, cache, local, base, seen>>

CheckCache(t) ==
    /\ pc[t] = "cached"
    /\ IF Cached(t)
       THEN result' = [result EXCEPT ![t] = cache[Process[t]].version] /\ To(t, "answer")
       ELSE To(t, "readLock") /\ UNCHANGED result
    /\ UNCHANGED <<disk, lock, cache, local, base, seen>>

\* Mutant of LockRead: the lock belongs to the process, not to the call.
LockAsProcess(t) ==
    /\ pc[t] = "readLock" /\ lock = None
    /\ lock' = Process[t]
    /\ To(t, "readFile")
    /\ UNCHANGED <<disk, cache, local, base, result, seen>>

LockRead(t) ==
    /\ pc[t] = "readLock" /\ lock = None
    /\ lock' = t
    /\ To(t, "readFile")
    /\ UNCHANGED <<disk, cache, local, base, result, seen>>

ReadFile(t) ==
    /\ pc[t] = "readFile"
    /\ local' = [local EXCEPT ![t] = file]
    /\ To(t, "fill")
    /\ UNCHANGED <<disk, lock, cache, base, result, seen>>

FillCache(t) ==
    /\ pc[t] = "fill"
    /\ cache' = [cache EXCEPT ![Process[t]] = local[t]]
    /\ result' = [result EXCEPT ![t] = local[t].version]
    /\ lock' = None
    /\ To(t, "answer")
    /\ UNCHANGED <<disk, local, base, seen>>

Return(t) ==
    /\ pc[t] = "answer"
    /\ Leave({t})
    /\ UNCHANGED <<disk, lock, cache>>
-----------------------------------------------------------------------------
(* Store::update_checked and write_atomic.                                  *)

BeginUpdate(t) ==
    /\ pc[t] = "idle"
    /\ To(t, "updateLock")
    /\ UNCHANGED <<disk, lock, cache, local, base, result, seen>>

\* Mutant of LockUpdate: the writers of two processes do not exclude each other.
LockPerProcess(t) ==
    /\ pc[t] = "updateLock"
    /\ lock # None => Process[lock] # Process[t]
    /\ lock' = t
    /\ To(t, "modify")
    /\ UNCHANGED <<disk, cache, local, base, result, seen>>

LockUpdate(t) ==
    /\ pc[t] = "updateLock" /\ lock = None
    /\ lock' = t
    /\ To(t, "modify")
    /\ UNCHANGED <<disk, cache, local, base, result, seen>>

Modify(t) ==
    /\ pc[t] = "modify"
    /\ base' = [base EXCEPT ![t] = file.version]
    /\ To(t, "write")
    /\ UNCHANGED <<disk, lock, cache, local, result, seen>>

\* A file created beside state.json has an inode of its own; its time may be the same.
NewStamps ==
    [modified : {clock + 1} \cup (IF FineClock THEN {} ELSE {clock}),
     inode : IF Unix THEN Inodes \ {file.stamp.inode} ELSE {file.stamp.inode}]

WriteTemporary(t) ==
    /\ pc[t] = "write"
    /\ written < MaxWrites
    /\ written' = written + 1
    /\ \E stamp \in NewStamps :
         /\ clock' = stamp.modified
         /\ local' = [local EXCEPT ![t] =
                        [version |-> written', stamp |-> stamp, synced |-> FALSE]]
    /\ To(t, "sync")
    /\ UNCHANGED <<file, recoverable, lock, cache, base, result, seen, acknowledged>>

\* Mutant of SyncTemporary: the content is not synced before the rename.
SkipsSync(t) ==
    /\ pc[t] = "sync"
    /\ To(t, "persist")
    /\ UNCHANGED <<disk, lock, cache, local, base, result, seen>>

SyncTemporary(t) ==
    /\ pc[t] = "sync"
    /\ local' = [local EXCEPT ![t].synced = TRUE]
    /\ To(t, "persist")
    /\ UNCHANGED <<disk, lock, cache, base, result, seen>>

Persist(t) ==
    /\ pc[t] = "persist"
    /\ file' = local[t]
    /\ recoverable' = recoverable \cup {local[t]}
    /\ seen' = [u \in Threads |->
                  IF pc[u] \in Reading \cup {"answer"}
                  THEN seen[u] \cup {local[t].version} ELSE seen[u]]
    /\ To(t, "syncParent")
    /\ UNCHANGED <<clock, written, lock, cache, local, base, result, acknowledged>>

\* Mutant of SyncParent: the directory is never synced.
SkipsDirectory(t) ==
    /\ pc[t] = "syncParent"
    /\ acknowledged' = file.version
    /\ lock' = None
    /\ Leave({t})
    /\ UNCHANGED <<file, recoverable, clock, written, cache>>

SyncParent(t) ==
    /\ pc[t] = "syncParent"
    /\ recoverable' = IF Unix THEN {file} ELSE recoverable
    /\ acknowledged' = file.version
    /\ lock' = None
    /\ Leave({t})
    /\ UNCHANGED <<file, clock, written, cache>>

(* The update is refused, or a write, sync or rename fails.  A failing sync *)
(* of the directory is reported although the file has been replaced.        *)
Fail(t) ==
    /\ pc[t] \in {"write", "sync", "persist"} \/ (Unix /\ pc[t] = "syncParent")
    /\ lock' = None
    /\ Leave({t})
    /\ UNCHANGED <<disk, cache>>
-----------------------------------------------------------------------------
\* The operating system drops the locks of a killed process.
Kill(p) ==
    LET dead == {t \in Threads : Process[t] = p} IN
    /\ Leave(dead)
    /\ cache' = [cache EXCEPT ![p] = None]
    /\ lock' = IF lock \in dead THEN None ELSE lock
    /\ UNCHANGED disk

PowerFailure ==
    /\ file' \in recoverable
    /\ recoverable' = {file'}
    /\ Leave(Threads)
    /\ cache' = [p \in Processes |-> None]
    /\ lock' = None
    /\ UNCHANGED <<clock, written, acknowledged>>

Step(t) ==
    \/ BeginRead(t) \/ Stat(t) \/ CheckCache(t) \/ LockRead(t) \/ ReadFile(t)
    \/ FillCache(t) \/ Return(t)
    \/ BeginUpdate(t) \/ LockUpdate(t) \/ Modify(t) \/ WriteTemporary(t)
    \/ SyncTemporary(t) \/ Persist(t) \/ SyncParent(t) \/ Fail(t)

Next ==
    \/ \E t \in Threads : Step(t)
    \/ \E p \in Processes : Kill(p)
    \/ PowerFailure

Spec == Init /\ [][Next]_vars
-----------------------------------------------------------------------------
(* An update replaces exactly the document it was computed from: no other   *)
(* thread or process writes between its read and its rename.                *)
NoLostUpdate ==
    \A t \in Threads : pc[t] \in {"write", "sync", "persist"} => base[t] = file.version

(* A power failure never leaves a file whose content was not synced.        *)
NeverTorn == \A f \in recoverable : f.synced

(* An update that was reported as done outlives any later power failure     *)
(* (Unix): what may be left is that document or one written after it.       *)
AcknowledgedSurvives == Unix => \A f \in recoverable : f.version >= acknowledged

(* A read answers with a document the file held during the call, although   *)
(* other processes replace the file behind the cache.                       *)
ReadFresh == \A t \in Threads : pc[t] = "answer" => result[t] \in seen[t]

\* The call a thread has made, for the abstract store.
CallAt(label) ==
    CASE label \in Reading -> "read"
      [] label = "answer" -> "answered"
      [] label \in Updating -> "update"
      [] label = "syncParent" -> "written"
      [] label = "idle" -> "idle"

Call == [t \in Threads |-> CallAt(pc[t])]

Atomic == INSTANCE AtomicStore WITH
    Durable <- Unix, value <- file.version, exposed <- {f.version : f \in recoverable},
    call <- Call

(* The file, the lock and the caches together are one atomic document.      *)
ImplementsAtomicStore == Atomic!Spec
=============================================================================
