---------------------------- MODULE StorageProofs ----------------------------
(***************************************************************************)
(* Proofs about the state document on the disk (StateStore), for any       *)
(* number of processes and threads, with killed processes and power        *)
(* failures at any point.                                                  *)
(***************************************************************************)
EXTENDS StateStore, FiniteSetTheorems, TLAPS

(***************************************************************************)
(* StateStore.                                                             *)
(***************************************************************************)

(* The types; a call that has looked at a file has it.                      *)
TypeInv ==
    /\ TypeOK
    /\ \A t \in Threads : pc[t] \in {"cached", "fill", "sync", "persist"} => local[t] \in Files

LEMMA TypesKept == TypeInv /\ [Next]_vars => TypeInv'
<1> SUFFICES ASSUME TypeInv, [Next]_vars PROVE TypeInv'
  OBVIOUS
<1> USE StoreAssumption DEF TypeInv, TypeOK, Reading, Updating, Labels, To, Leave, disk
<1>0. \A f \in Files : /\ f.version \in Nat
                       /\ [f EXCEPT !.synced = TRUE] \in Files
  BY DEF Files
<1> HIDE DEF Files
<1>1. ASSUME NEW t \in Threads, Step(t) PROVE TypeInv'
  <2>1. CASE BeginRead(t)
    BY <1>0, <2>1 DEF BeginRead
  <2>2. CASE Stat(t)
    BY <1>0, <2>2 DEF Stat
  <2>3. CASE CheckCache(t)
    BY <1>0, <2>3 DEF CheckCache, Cached
  <2>4. CASE LockRead(t)
    BY <1>0, <2>4 DEF LockRead
  <2>5. CASE ReadFile(t)
    BY <1>0, <2>5 DEF ReadFile
  <2>6. CASE FillCache(t)
    BY <1>0, <2>6 DEF FillCache
  <2>7. CASE Return(t)
    BY <1>0, <2>7 DEF Return
  <2>8. CASE BeginUpdate(t)
    BY <1>0, <2>8 DEF BeginUpdate
  <2>9. CASE LockUpdate(t)
    BY <1>0, <2>9 DEF LockUpdate
  <2>10. CASE Modify(t)
    BY <1>0, <2>10 DEF Modify
  <2>11. CASE WriteTemporary(t)
    BY <1>0, <2>11 DEF WriteTemporary, NewStamps, Files, Stamps
  <2>12. CASE SyncTemporary(t)
    BY <1>0, <2>12 DEF SyncTemporary
  <2>13. CASE Persist(t)
    BY <1>0, <2>13 DEF Persist
  <2>14. CASE SyncParent(t)
    BY <1>0, <2>14 DEF SyncParent
  <2>15. CASE Fail(t)
    BY <1>0, <2>15 DEF Fail
  <2> QED BY <1>1, <2>1, <2>2, <2>3, <2>4, <2>5, <2>6, <2>7, <2>8,
         <2>9, <2>10, <2>11, <2>12, <2>13, <2>14, <2>15 DEF Step
<1>2. ASSUME NEW p \in Processes, Kill(p) PROVE TypeInv'
  BY <1>2 DEF Kill
<1>3. CASE PowerFailure
  BY <1>3 DEF PowerFailure
<1>4. CASE UNCHANGED vars
  BY <1>4 DEF vars
<1> QED BY <1>1, <1>2, <1>3, <1>4 DEF Next

LEMMA TypeInvariant == Spec => []TypeInv
<1>1. Init => TypeInv
  BY StoreAssumption DEF Init, TypeInv, TypeOK, Files, Stamps, Labels, Reading, Updating
<1> QED BY <1>1, TypesKept, PTL DEF Spec

(* Every reachable state of the store is well typed.                        *)
THEOREM StoreTypes == Spec => []TypeOK
BY TypeInvariant, PTL DEF TypeInv

(* The file was written by an update and is among what a power failure may  *)
(* leave, and what an update is about to add is newer than all of that.     *)
DiskInv ==
    /\ file \in recoverable
    /\ \A f \in recoverable : f.version <= written
    /\ acknowledged <= written
    /\ NeverTorn
    /\ AcknowledgedSurvives

(* What a thread knows at each point of its call.  Only the holder of the   *)
(* lock relies on the file not changing.                                    *)
ThreadInv(t) ==
    /\ pc[t] \in Locked => lock = t
    /\ pc[t] = "fill" => local[t] = file
    /\ pc[t] \in {"write", "sync", "persist"} => base[t] = file.version
    /\ pc[t] \in {"sync", "persist"} => local[t].version = written
    /\ pc[t] = "persist" => local[t].synced
    /\ pc[t] \in Reading \cup {"answer"} => file.version \in seen[t]
    /\ pc[t] = "cached" => local[t].version \in seen[t]
    /\ pc[t] \notin Reading \cup {"answer"} => seen[t] = {}

StoreInv == TypeInv /\ DiskInv /\ \A t \in Threads : ThreadInv(t)

LEMMA StoreInvKept == StoreInv /\ [Next]_vars => DiskInv' /\ \A t \in Threads : ThreadInv(t)'
<1> SUFFICES ASSUME StoreInv, [Next]_vars PROVE DiskInv' /\ \A t \in Threads : ThreadInv(t)'
  OBVIOUS
<1> USE StoreAssumption DEF StoreInv, TypeInv, TypeOK, DiskInv, ThreadInv, NeverTorn,
      AcknowledgedSurvives, Locked, Reading, Updating, Labels, To, Leave, disk
<1>0. \A f \in Files : /\ f.version \in Nat /\ f.synced \in BOOLEAN
                       /\ [f EXCEPT !.synced = TRUE] \in Files
                       /\ [f EXCEPT !.synced = TRUE].synced
                       /\ [f EXCEPT !.synced = TRUE].version = f.version
  BY DEF Files
<1> HIDE DEF Files
<1>1. ASSUME NEW t \in Threads, Step(t)
      PROVE  DiskInv' /\ \A u \in Threads : ThreadInv(u)'
  <2>1. CASE BeginRead(t)
    BY <1>0, <2>1 DEF BeginRead
  <2>2. CASE Stat(t)
    BY <1>0, <2>2 DEF Stat
  <2>3. CASE CheckCache(t)
    BY <1>0, <2>3 DEF CheckCache, Cached
  <2>4. CASE LockRead(t)
    BY <1>0, <2>4 DEF LockRead
  <2>5. CASE ReadFile(t)
    BY <1>0, <2>5 DEF ReadFile
  <2>6. CASE FillCache(t)
    BY <1>0, <2>6 DEF FillCache
  <2>7. CASE Return(t)
    BY <1>0, <2>7 DEF Return
  <2>8. CASE BeginUpdate(t)
    BY <1>0, <2>8 DEF BeginUpdate
  <2>9. CASE LockUpdate(t)
    BY <1>0, <2>9 DEF LockUpdate
  <2>10. CASE Modify(t)
    BY <1>0, <2>10 DEF Modify
  <2>11. CASE WriteTemporary(t)
    <3>1. PICK stamp \in NewStamps :
             local' = [local EXCEPT ![t] =
                         [version |-> written', stamp |-> stamp, synced |-> FALSE]]
      BY <2>11 DEF WriteTemporary
    <3>2. local'[t].version = written' /\ \A u \in Threads \ {t} : local'[u] = local[u]
      BY <3>1
    <3>3. /\ written' = written + 1 /\ written \in Nat
          /\ pc[t] = "write" /\ pc' = [pc EXCEPT ![t] = "sync"]
          /\ UNCHANGED <<file, recoverable, lock, base, seen, acknowledged>>
      BY <2>11 DEF WriteTemporary
    <3>4. DiskInv'
      <4>1. \A f \in recoverable : f.version \in Nat /\ f.version <= written
        BY <1>0
      <4>2. \A f \in recoverable' : f.version <= written'
        BY ONLY <3>3, <4>1
      <4>3. acknowledged' <= written'
        BY <3>3
      <4> QED BY <3>3, <4>2, <4>3
    <3>5. ASSUME NEW u \in Threads PROVE ThreadInv(u)'
      BY <3>2, <3>3
    <3> QED BY <3>4, <3>5
  <2>12. CASE SyncTemporary(t)
    BY <1>0, <2>12 DEF SyncTemporary
  <2>13. CASE Persist(t)
    <3>1. /\ pc[t] = "persist" /\ pc' = [pc EXCEPT ![t] = "syncParent"]
          /\ file' = local[t] /\ recoverable' = recoverable \cup {local[t]}
          /\ local[t] \in Files /\ local[t].version = written /\ local[t].synced
          /\ UNCHANGED <<written, lock, local, base, acknowledged>>
      BY <2>13 DEF Persist
    <3>2. DiskInv'
      BY <1>0, <3>1
    <3>3. ASSUME NEW u \in Threads PROVE ThreadInv(u)'
      <4>1. u # t => pc[u] \notin Locked
        BY <3>1
      <4>2. seen'[u] = IF pc[u] \in Reading \cup {"answer"}
                       THEN seen[u] \cup {file'.version} ELSE seen[u]
        BY <2>13 DEF Persist
      <4> QED BY <3>1, <4>1, <4>2
    <3> QED BY <3>2, <3>3
  <2>14. CASE SyncParent(t)
    <3>1. DiskInv'
      <4>1. /\ recoverable' = IF Unix THEN {file} ELSE recoverable
            /\ acknowledged' = file.version
            /\ UNCHANGED <<file, written>>
        BY <2>14 DEF SyncParent
      <4>2. recoverable' \subseteq recoverable /\ file' \in recoverable'
        BY <4>1
      <4>3. NeverTorn' /\ acknowledged' <= written' /\ \A f \in recoverable' : f.version <= written'
        BY <1>0, <4>1, <4>2
      <4>4. file.version \in Nat
        BY <1>0
      <4>5. AcknowledgedSurvives'
        BY <4>1, <4>4
      <4> QED BY <4>2, <4>3, <4>5
    <3>2. /\ pc[t] = "syncParent"
          /\ UNCHANGED <<file, written>>
      BY <2>14 DEF SyncParent
    <3>3. ASSUME NEW u \in Threads PROVE ThreadInv(u)'
      <4>1. CASE u = t
        BY <2>14, <4>1 DEF SyncParent
      <4>2. CASE u # t
        <5>1. /\ pc'[u] = pc[u] /\ local'[u] = local[u] /\ base'[u] = base[u]
              /\ seen'[u] = seen[u]
          BY <2>14, <4>2 DEF SyncParent
        <5>2. pc[u] \notin Locked
          BY <3>2, <4>2
        <5> QED BY <3>2, <5>1, <5>2
      <4> QED BY <4>1, <4>2
    <3> QED BY <3>1, <3>3
  <2>15. CASE Fail(t)
    BY <1>0, <2>15 DEF Fail
  <2> QED BY <1>1, <2>1, <2>2, <2>3, <2>4, <2>5, <2>6, <2>7, <2>8,
         <2>9, <2>10, <2>11, <2>12, <2>13, <2>14, <2>15 DEF Step
<1>2. ASSUME NEW p \in Processes, Kill(p)
      PROVE  DiskInv' /\ \A u \in Threads : ThreadInv(u)'
  <2> DEFINE dead == {t \in Threads : Process[t] = p}
  <2>1. DiskInv'
    BY <1>2 DEF Kill
  <2>2. ASSUME NEW u \in Threads PROVE ThreadInv(u)'
    <3>1. CASE u \in dead
      BY <1>2, <3>1 DEF Kill
    <3>2. CASE u \notin dead
      <4>1. /\ pc'[u] = pc[u] /\ local'[u] = local[u] /\ base'[u] = base[u]
            /\ seen'[u] = seen[u]
        BY <1>2, <3>2 DEF Kill
      <4>2. file' = file /\ written' = written
        BY <1>2 DEF Kill
      <4>3. lock = u => lock' = u
        BY <1>2, <3>2 DEF Kill
      <4> QED BY <4>1, <4>2, <4>3
    <3> QED BY <3>1, <3>2
  <2> QED BY <2>1, <2>2
<1>3. CASE PowerFailure
  BY <1>0, <1>3 DEF PowerFailure
<1>4. CASE UNCHANGED vars
  BY <1>4 DEF vars
<1> QED BY <1>1, <1>2, <1>3, <1>4 DEF Next

LEMMA StoreInvariant == Spec => []StoreInv
<1>1. Init => StoreInv
  BY StoreAssumption DEF Init, StoreInv, TypeInv, TypeOK, DiskInv, ThreadInv, NeverTorn,
     AcknowledgedSurvives, Locked, Reading, Updating, Labels, Files, Stamps
<1>2. StoreInv /\ [Next]_vars => StoreInv'
  BY TypesKept, StoreInvKept DEF StoreInv
<1> QED BY <1>1, <1>2, PTL DEF Spec

(* The lock file keeps updates of all processes apart.                      *)
THEOREM NoUpdateIsLost == Spec => []NoLostUpdate
<1>1. StoreInv => NoLostUpdate
  BY DEF StoreInv, ThreadInv, NoLostUpdate
<1> QED BY <1>1, StoreInvariant, PTL

(* Whatever the moment of a power failure, state.json was written in full.  *)
THEOREM NothingIsTorn == Spec => []NeverTorn
<1>1. StoreInv => NeverTorn
  BY DEF StoreInv, DiskInv
<1> QED BY <1>1, StoreInvariant, PTL

(* On Unix, what an update reported as done no power failure takes back.    *)
THEOREM AcknowledgedIsDurable == Spec => []AcknowledgedSurvives
<1>1. StoreInv => AcknowledgedSurvives
  BY DEF StoreInv, DiskInv
<1> QED BY <1>1, StoreInvariant, PTL

------------------------------------------------------------------------------
(* Reads.  With a clock that tells any two writes apart, the modification   *)
(* time of a file identifies its document wherever it is remembered.        *)
Timed(f) == f.stamp.modified = f.version

ReadInv ==
    /\ StoreInv
    /\ clock = written
    /\ \A f \in recoverable : Timed(f)
    /\ \A p \in Processes : cache[p] # None => Timed(cache[p])
    /\ \A t \in Threads : local[t] # None => Timed(local[t])
    /\ ReadFresh

LEMMA ReadInvKept ==
    ASSUME FineClock, ReadInv, StoreInv', [Next]_vars
    PROVE  ReadInv'
<1> USE StoreAssumption DEF ReadInv, StoreInv, TypeInv, TypeOK, DiskInv, ThreadInv, ReadFresh,
      Reading, Updating, Labels, To, Leave, disk
<1>0. Timed(file)
  OBVIOUS
<1>1. ASSUME NEW t \in Threads, Step(t)
      PROVE  ReadInv'
  <2>1. CASE BeginRead(t)
    BY <1>0, <2>1 DEF BeginRead
  <2>2. CASE Stat(t)
    BY <1>0, <2>2 DEF Stat
  <2>3. CASE CheckCache(t)
    <3>1. pc[t] = "cached" /\ Timed(local[t])
      BY <2>3 DEF CheckCache
    <3>2. CASE Cached(t)
      <4>1. cache[Process[t]].version = local[t].version
        BY <3>2, <2>3 DEF Cached, CheckCache, Timed
      <4> QED BY <1>0, <2>3, <3>2, <4>1 DEF CheckCache
    <3>3. CASE ~Cached(t)
      BY <1>0, <2>3, <3>3 DEF CheckCache
    <3> QED BY <3>2, <3>3
  <2>4. CASE LockRead(t)
    BY <1>0, <2>4 DEF LockRead
  <2>5. CASE ReadFile(t)
    BY <1>0, <2>5 DEF ReadFile
  <2>6. CASE FillCache(t)
    BY <1>0, <2>6 DEF FillCache
  <2>7. CASE Return(t)
    BY <1>0, <2>7 DEF Return
  <2>8. CASE BeginUpdate(t)
    BY <1>0, <2>8 DEF BeginUpdate
  <2>9. CASE LockUpdate(t)
    BY <1>0, <2>9 DEF LockUpdate
  <2>10. CASE Modify(t)
    BY <1>0, <2>10 DEF Modify
  <2>11. CASE WriteTemporary(t)
    <3>1. PICK stamp \in NewStamps :
             /\ clock' = stamp.modified
             /\ local' = [local EXCEPT ![t] =
                            [version |-> written', stamp |-> stamp, synced |-> FALSE]]
      BY <2>11 DEF WriteTemporary
    <3>2. stamp.modified = clock + 1 /\ written' = written + 1
      BY <2>11 DEF WriteTemporary, NewStamps
    <3>3. Timed(local'[t])
      BY <3>1, <3>2 DEF Timed
    <3>4. \A u \in Threads \ {t} : local'[u] = local[u]
      BY <3>1
    <3>5. /\ pc' = [pc EXCEPT ![t] = "sync"]
          /\ UNCHANGED <<recoverable, cache, result, seen>>
      BY <2>11 DEF WriteTemporary
    <3>6. clock' = written'
      BY <3>1, <3>2
    <3>7. ReadFresh'
      BY <3>5
    <3>8. \A u \in Threads : local'[u] # None => Timed(local'[u])
      BY <3>3, <3>4
    <3> QED BY <3>5, <3>6, <3>7, <3>8
  <2>12. CASE SyncTemporary(t)
    <3>1. pc[t] = "sync" /\ local[t] \in Files
      BY <2>12 DEF SyncTemporary
    <3>2. /\ local'[t].stamp = local[t].stamp /\ local'[t].version = local[t].version
          /\ \A u \in Threads \ {t} : local'[u] = local[u]
      BY <2>12, <3>1 DEF SyncTemporary, Files
    <3>3. Timed(local'[t])
      BY <3>2, <2>12 DEF Timed, SyncTemporary
    <3>4. /\ pc' = [pc EXCEPT ![t] = "persist"]
          /\ UNCHANGED <<recoverable, cache, clock, written, result, seen>>
      BY <2>12 DEF SyncTemporary
    <3>5. \A u \in Threads : local'[u] # None => Timed(local'[u])
      BY <3>2, <3>3
    <3>6. ReadFresh'
      BY <3>4
    <3> QED BY <3>4, <3>5, <3>6
  <2>13. CASE Persist(t)
    <3>1. pc[t] = "persist" /\ local[t] \in Files /\ local[t].version = written
      BY <2>13 DEF Persist
    <3>2. Timed(local[t])
      BY <3>1, <2>13 DEF Timed, Persist
    <3>3. ReadFresh'
      <4> SUFFICES ASSUME NEW u \in Threads, pc'[u] = "answer"
                   PROVE  result'[u] \in seen'[u]
        OBVIOUS
      <4>1. pc[u] = "answer" /\ result'[u] = result[u]
        BY <2>13 DEF Persist
      <4>2. seen'[u] = seen[u] \cup {local[t].version}
        BY <2>13, <4>1 DEF Persist
      <4> QED BY <4>1, <4>2
    <3>4. /\ recoverable' = recoverable \cup {local[t]}
          /\ UNCHANGED <<clock, written, cache, local>>
      BY <2>13 DEF Persist
    <3> QED BY <3>2, <3>3, <3>4
  <2>14. CASE SyncParent(t)
    BY <1>0, <2>14 DEF SyncParent
  <2>15. CASE Fail(t)
    BY <1>0, <2>15 DEF Fail
  <2> QED BY <1>1, <2>1, <2>2, <2>3, <2>4, <2>5, <2>6, <2>7, <2>8,
         <2>9, <2>10, <2>11, <2>12, <2>13, <2>14, <2>15 DEF Step
<1>2. ASSUME NEW p \in Processes, Kill(p)
      PROVE  ReadInv'
  BY <1>2 DEF Kill
<1>3. CASE PowerFailure
  BY <1>3 DEF PowerFailure
<1>4. CASE UNCHANGED vars
  BY <1>4 DEF vars, Timed
<1> QED BY <1>1, <1>2, <1>3, <1>4 DEF Next

LEMMA ReadInvariant ==
    ASSUME FineClock
    PROVE  Spec => []ReadInv
<1>1. Init => StoreInv
  BY StoreAssumption DEF Init, StoreInv, TypeInv, TypeOK, DiskInv, ThreadInv, NeverTorn,
     AcknowledgedSurvives, Locked, Reading, Updating, Labels, Files, Stamps
<1>2. Init => ReadInv
  <2> SUFFICES ASSUME Init PROVE ReadInv
    OBVIOUS
  <2>1. file.version = 0 /\ file.stamp.modified = 0
    BY DEF Init
  <2> QED BY <1>1, <2>1, StoreAssumption DEF Init, ReadInv, Timed, ReadFresh
<1>3. ReadInv /\ StoreInv' /\ [Next]_vars => ReadInv'
  BY ReadInvKept
<1> QED BY <1>2, <1>3, StoreInvariant, PTL DEF Spec

(* A cached read is as good as reading the file: its answer is a document   *)
(* the file held during the call.                                           *)
THEOREM ReadsAreFresh ==
    ASSUME FineClock
    PROVE  Spec => []ReadFresh
<1>1. ReadInv => ReadFresh
  BY DEF ReadInv
<1> QED BY <1>1, ReadInvariant, PTL

------------------------------------------------------------------------------
(* The store implements one atomic document.                                *)


LEMMA CallLabels ==
    /\ \A label \in Reading : CallAt(label) = "read"
    /\ \A label \in Updating : CallAt(label) = "update"
    /\ CallAt("answer") = "answered"
    /\ CallAt("syncParent") = "written"
    /\ CallAt("idle") = "idle"
BY DEF Reading, Updating, CallAt

LEMMA CallMoves ==
    ASSUME TypeOK
    PROVE  /\ \A t \in Threads : \A label : To(t, label) => Call' = [Call EXCEPT ![t] = CallAt(label)]
           /\ \A S : Leave(S) => Call' = [t \in Threads |-> IF t \in S THEN "idle" ELSE Call[t]]
<1>1. ASSUME NEW t \in Threads, NEW label, To(t, label)
      PROVE  Call' = [Call EXCEPT ![t] = CallAt(label)]
  BY <1>1 DEF To, Call, TypeOK
<1>2. ASSUME NEW S, Leave(S)
      PROVE  Call' = [t \in Threads |-> IF t \in S THEN "idle" ELSE Call[t]]
  BY <1>2, CallLabels DEF Leave, Call, TypeOK
<1> QED BY <1>1, <1>2

\* A step of a call that keeps its kind is none of the abstract store.
LEMMA CallStays ==
    ASSUME TypeOK, NEW t \in Threads, NEW label,
           To(t, label), CallAt(label) = CallAt(pc[t])
    PROVE  Call' = Call
BY CallMoves DEF Call

LEMMA AnswerImplements ==
    ASSUME TypeOK, ReadFresh', NEW t \in Threads, pc[t] \in Reading, To(t, "answer"),
           UNCHANGED <<disk, seen>>, NEW v, result' = [result EXCEPT ![t] = v]
    PROVE  [Atomic!Next]_(Atomic!vars)
<1>1. pc'[t] = "answer" /\ result'[t] = v
  BY DEF To, TypeOK
<1>2. v \in seen[t]
  BY <1>1 DEF ReadFresh
<1>3. Call[t] = "read" /\ Call' = [Call EXCEPT ![t] = "answered"]
  BY CallMoves, CallLabels DEF Call
<1>4. /\ \E answer \in seen[t] : result' = [result EXCEPT ![t] = answer]
      /\ UNCHANGED <<file, recoverable, seen>>
  BY <1>2 DEF disk
<1>5. Atomic!Answer(t)
  BY <1>3, <1>4 DEF Atomic!Answer
<1> QED BY <1>5 DEF Atomic!Next

LEMMA StepImplements ==
    ASSUME FineClock, ReadInv, ReadInv', [Next]_vars
    PROVE  [Atomic!Next]_(Atomic!vars)
<1> USE DEF ReadInv, StoreInv, TypeInv
<1>1. ASSUME NEW t \in Threads, Step(t)
      PROVE  [Atomic!Next]_(Atomic!vars)
  <2>1. CASE BeginRead(t)
    <3>1. Atomic!BeginRead(t)
      BY <2>1, CallMoves, CallLabels DEF BeginRead, Call, Atomic!BeginRead, disk, Reading
    <3> QED BY <3>1 DEF Atomic!Next
  <2>2. CASE Stat(t)
    BY <2>2, CallStays, CallLabels DEF Stat, Reading, disk, Atomic!vars
  <2>3. CASE CheckCache(t)
    <3>1. CASE Cached(t)
      <4>1. To(t, "answer") /\ pc[t] \in Reading /\ UNCHANGED <<disk, seen>>
        BY <2>3, <3>1 DEF CheckCache, Reading, disk
      <4>2. result' = [result EXCEPT ![t] = cache[Process[t]].version]
        BY <2>3, <3>1 DEF CheckCache
      <4> QED BY <4>1, <4>2, AnswerImplements
    <3>2. CASE ~Cached(t)
      BY <2>3, <3>2, CallStays, CallLabels DEF CheckCache, Reading, disk, Atomic!vars
    <3> QED BY <3>1, <3>2
  <2>4. CASE LockRead(t)
    BY <2>4, CallStays, CallLabels DEF LockRead, Reading, disk, Atomic!vars
  <2>5. CASE ReadFile(t)
    BY <2>5, CallStays, CallLabels DEF ReadFile, Reading, disk, Atomic!vars
  <2>6. CASE FillCache(t)
    <3>1. To(t, "answer") /\ pc[t] \in Reading /\ UNCHANGED <<disk, seen>>
      BY <2>6 DEF FillCache, Reading, disk
    <3>2. result' = [result EXCEPT ![t] = local[t].version]
      BY <2>6 DEF FillCache
    <3> QED BY <3>1, <3>2, AnswerImplements
  <2>7. CASE Return(t)
    <3>1. Atomic!End({t})
      BY <2>7, CallMoves DEF Return, Leave, disk, Atomic!End, Atomic!Ends
    <3> QED BY <3>1 DEF Atomic!Next
  <2>8. CASE BeginUpdate(t)
    <3>1. Atomic!BeginUpdate(t)
      BY <2>8, CallMoves, CallLabels DEF BeginUpdate, Call, Atomic!BeginUpdate, disk, Updating
    <3> QED BY <3>1 DEF Atomic!Next
  <2>9. CASE LockUpdate(t)
    BY <2>9, CallStays, CallLabels DEF LockUpdate, Updating, disk, Atomic!vars
  <2>10. CASE Modify(t)
    BY <2>10, CallStays, CallLabels DEF Modify, Updating, disk, Atomic!vars
  <2>11. CASE WriteTemporary(t)
    BY <2>11, CallStays, CallLabels DEF WriteTemporary, Updating, disk, Atomic!vars
  <2>12. CASE SyncTemporary(t)
    BY <2>12, CallStays, CallLabels DEF SyncTemporary, Updating, disk, Atomic!vars
  <2>13. CASE Persist(t)
    <3>1. /\ pc[t] = "persist" /\ To(t, "syncParent")
          /\ file' = local[t] /\ recoverable' = recoverable \cup {local[t]}
          /\ seen' = [u \in Threads |->
                        IF pc[u] \in Reading \cup {"answer"}
                        THEN seen[u] \cup {local[t].version} ELSE seen[u]]
          /\ result' = result
      BY <2>13 DEF Persist
    <3>2. file'.version \in Nat
      BY DEF TypeOK, Files
    <3>3. \A u \in Threads : Call[u] \in {"read", "answered"} <=> pc[u] \in Reading \cup {"answer"}
      BY CallLabels DEF Call, CallAt, TypeOK, Labels, Reading, Updating
    <3>4. Call[t] = "update" /\ Call' = [Call EXCEPT ![t] = "written"]
      BY <3>1, CallMoves, CallLabels DEF Call, Updating
    <3>5. {f.version : f \in recoverable'} = {f.version : f \in recoverable} \cup {file'.version}
      BY <3>1
    <3>6. Atomic!Write(t)
      BY <3>1, <3>2, <3>3, <3>4, <3>5 DEF Atomic!Write
    <3> QED BY <3>6 DEF Atomic!Next
  <2>14. CASE SyncParent(t)
    <3>1. Atomic!Acknowledge(t)
      BY <2>14, CallMoves, CallLabels DEF SyncParent, Leave, Call, Atomic!Acknowledge, Atomic!Ends
    <3> QED BY <3>1 DEF Atomic!Next
  <2>15. CASE Fail(t)
    <3>1. Atomic!End({t})
      BY <2>15, CallMoves DEF Fail, Leave, disk, Atomic!End, Atomic!Ends
    <3> QED BY <3>1 DEF Atomic!Next
  <2> QED BY <1>1, <2>1, <2>2, <2>3, <2>4, <2>5, <2>6, <2>7, <2>8,
         <2>9, <2>10, <2>11, <2>12, <2>13, <2>14, <2>15 DEF Step
<1>2. ASSUME NEW p \in Processes, Kill(p)
      PROVE  [Atomic!Next]_(Atomic!vars)
  <2>1. Atomic!End({t \in Threads : Process[t] = p})
    BY <1>2, CallMoves DEF Kill, Leave, disk, Atomic!End, Atomic!Ends
  <2> QED BY <2>1 DEF Atomic!Next
<1>3. CASE PowerFailure
  <2>1. Atomic!PowerFailure
    BY <1>3, CallMoves DEF PowerFailure, Leave, Atomic!PowerFailure, Atomic!Ends
  <2> QED BY <2>1 DEF Atomic!Next
<1>4. CASE UNCHANGED vars
  BY <1>4 DEF vars, Call, Atomic!vars
<1> QED BY <1>1, <1>2, <1>3, <1>4 DEF Next

(* Any number of processes with their caches, the lock and the file are     *)
(* together one atomic document, killed processes and power failures        *)
(* included.                                                                *)
THEOREM StoreIsAtomic ==
    ASSUME FineClock
    PROVE  Spec => ImplementsAtomicStore
<1>1. Init => Atomic!Init
  BY CallLabels DEF Init, Call, Atomic!Init
<1>2. ReadInv /\ ReadInv' /\ [Next]_vars => [Atomic!Next]_(Atomic!vars)
  BY StepImplements
<1> QED BY <1>1, <1>2, ReadInvariant, PTL DEF Spec, ImplementsAtomicStore, Atomic!Spec
===============================================================================
