---------------------------- MODULE UpdatesProofs ----------------------------
(***************************************************************************)
(* Proofs about Updates: the daemon's task (UpdateTask) says what an       *)
(* update is, and a deployment (Deployment) loses nothing; and about the   *)
(* profiles that are updated on a schedule (Profiles), and the reports of  *)
(* leak detection (Observation).                                           *)
(***************************************************************************)
EXTENDS Updates, Profiles, Observation, FiniteSetTheorems, TLAPS

(***************************************************************************)
(* UpdateTask.                                                             *)
(***************************************************************************)
Tasked == {i \in Ids : work[i] # "none"}

\* Identifiers are given in order, and a worker whose package waits has nothing left to say.
TaskInv ==
  /\ TaskTypeOK /\ PackageAwaitsConfirmation
  /\ \A i \in Tasked, j \in Ids : j < i => j \in Tasked
  /\ \A id \in Ids : Awaiting(id) => work[id] = "ended"

\* The next identifier was never given.
LEMMA NextIsNew ==
  ASSUME TaskInv
  PROVE  NextId \in Nat /\ NextId \notin Tasked /\ \A j \in Ids : j < NextId => j \in Tasked
<1> USE MaxTasksAssumption
<1>1. IsFiniteSet(Ids) /\ Cardinality(Ids) \in Nat BY FS_Interval DEF Ids
<1>2. Tasked \subseteq Ids /\ IsFiniteSet(Tasked) /\ Cardinality(Tasked) \in Nat
  BY <1>1, FS_Subset, FS_CardinalityType DEF Tasked
<1>3. NextId = Cardinality(Tasked) + 1 BY DEF NextId, Tasked
<1>4. NextId \in Nat BY <1>2, <1>3
<1>5. NextId \notin Tasked
  <2> SUFFICES ASSUME NextId \in Tasked PROVE FALSE OBVIOUS
  <2>1. 1..NextId \subseteq Tasked BY <1>2, <1>4 DEF TaskInv, Ids
  <2>2. Cardinality(1..NextId) = NextId BY <1>4, FS_Interval
  <2>3. Cardinality(1..NextId) <= Cardinality(Tasked) BY <1>2, <2>1, FS_Subset
  <2> QED BY <1>2, <1>3, <2>2, <2>3
<1>6. ASSUME NEW j \in Ids, j < NextId, j \notin Tasked PROVE FALSE
  <2>1. j \in Nat /\ j > 0 BY DEF Ids
  <2>2. Tasked \subseteq 1..(j - 1) BY <1>2, <1>6, <2>1 DEF TaskInv, Ids
  <2>3. IsFiniteSet(1..(j - 1)) /\ Cardinality(1..(j - 1)) = j - 1 BY <2>1, FS_Interval
  <2>4. Cardinality(Tasked) <= j - 1 BY <2>2, <2>3, FS_Subset
  <2> QED BY <1>2, <1>3, <1>6, <2>1, <2>4
<1> QED BY <1>4, <1>5, <1>6

\* One worker's entry changes.
LEMMA OneReports ==
  ASSUME TaskInv, NEW id \in Ids, NEW step \in Working \cup {"ended"},
         work' = [work EXCEPT ![id] = step], work[id] # "none"
  PROVE  /\ work' \in [Ids -> Working \cup {"none", "ended"}]
         /\ work'[id] = step /\ \A j \in Ids : j # id => work'[j] = work[j]
         /\ \A i \in Tasked', j \in Ids : j < i => j \in Tasked'
<1>1. work' \in [Ids -> Working \cup {"none", "ended"}] BY DEF TaskInv, TaskTypeOK
<1>2. work'[id] = step /\ \A j \in Ids : j # id => work'[j] = work[j]
  BY DEF TaskInv, TaskTypeOK
<1>3. step # "none" BY DEF Working
<1>4. Tasked' = Tasked BY <1>2, <1>3 DEF Tasked
<1> QED BY <1>1, <1>2, <1>4 DEF TaskInv

LEMMA TaskKept ==
  TaskInv /\ (TaskNext \/ DaemonGone \/ UNCHANGED taskVars) => TaskInv' /\ LateReportIgnored
<1> USE MaxTasksAssumption
<1>t. TaskInv => /\ task.id \in 0..MaxTasks /\ prepared \in 0..MaxTasks
                 /\ task \in [id : 0..MaxTasks, state : TaskState, stage : TaskStage]
                 /\ \A id \in Ids : id # 0
  BY DEF TaskInv, TaskTypeOK, Ids
<1>a. "awaiting_confirmation" \notin Working /\ "none" \notin Working /\ "ended" \notin Working
      /\ Working \subseteq TaskStage
  BY DEF Working, TaskStage
\* The task itself and its package stay, while one worker moves.
<1>1. ASSUME TaskInv, UNCHANGED <<task, prepared>>, installers' \subseteq Ids,
             NEW id \in Ids, NEW step \in Working \cup {"ended"},
             work' = [work EXCEPT ![id] = step], work[id] # "none", work[id] # "ended"
      PROVE  TaskInv' /\ LateReportIgnored
  <2>1. TaskTypeOK' BY <1>1, OneReports DEF TaskInv, TaskTypeOK
  <2>2. PackageAwaitsConfirmation' /\ \A j \in Ids : Awaiting(j)' <=> Awaiting(j)
    BY <1>1 DEF TaskInv, PackageAwaitsConfirmation, Awaiting, Current
  <2>3. \A j \in Ids : Awaiting(j)' => work'[j] = "ended"
    BY <1>1, <2>2, OneReports DEF TaskInv
  <2> QED BY <1>1, <2>1, <2>2, <2>3, OneReports DEF TaskInv, LateReportIgnored
\* The worker of the task that runs moves, and with it the task.
<1>2. ASSUME TaskInv, NEW id \in Ids, Current(id), NEW step \in Working \cup {"ended"},
             work' = [work EXCEPT ![id] = step], work[id] # "none",
             task' \in [id : {id}, state : TaskState, stage : TaskStage],
             prepared' \in {0, id}, installers' \subseteq Ids,
             prepared' = id <=> Awaiting(id)', Awaiting(id)' => step = "ended"
      PROVE  TaskInv' /\ LateReportIgnored
  <2>1. TaskTypeOK' BY <1>2, OneReports DEF TaskInv, TaskTypeOK, Ids
  <2>2. \A j \in Ids : j # id => ~Awaiting(j)' /\ prepared' # j
    BY <1>2, <1>t DEF Awaiting, Current
  <2>3. PackageAwaitsConfirmation' BY <1>2, <2>2 DEF PackageAwaitsConfirmation
  <2>4. \A j \in Ids : Awaiting(j)' => work'[j] = "ended" BY <1>2, <2>2, OneReports
  <2>5. LateReportIgnored BY <1>2, OneReports DEF LateReportIgnored, Current
  <2> QED BY <1>2, <2>1, <2>3, <2>4, <2>5, OneReports DEF TaskInv
\* No worker moves; the task is over, or its package is given up.
<1>3. ASSUME TaskInv, UNCHANGED work, task' \in [id : 0..MaxTasks, state : TaskState, stage : TaskStage],
             prepared' = 0, installers' \subseteq Ids, \A id \in Ids : ~Awaiting(id)'
      PROVE  TaskInv' /\ LateReportIgnored
  <2>1. TaskTypeOK' BY <1>3 DEF TaskInv, TaskTypeOK
  <2>2. PackageAwaitsConfirmation' BY <1>3, <1>t DEF PackageAwaitsConfirmation
  <2> QED BY <1>3, <2>1, <2>2 DEF TaskInv, LateReportIgnored, Tasked
<1>4. ASSUME TaskInv, BeginTask PROVE TaskInv' /\ LateReportIgnored
  <2>1. PICK step \in {"checking", "uploading"} :
          /\ task' = [id |-> NextId, state |-> "running", stage |-> step]
          /\ work' = [work EXCEPT ![NextId] = step]
    BY <1>4 DEF BeginTask
  <2>2. NextId \in Ids /\ prepared' = 0 /\ UNCHANGED installers BY <1>4 DEF BeginTask
  <2>3. step \in Working BY DEF Working
  <2>4. /\ work' \in [Ids -> Working \cup {"none", "ended"}] /\ work'[NextId] = step
        /\ \A j \in Ids : j # NextId => work'[j] = work[j]
    BY <1>4, <2>1, <2>2, <2>3 DEF TaskInv, TaskTypeOK
  <2>5. \A id \in Ids : ~Awaiting(id)' BY <2>1 DEF Awaiting
  <2>6. TaskTypeOK'
    BY <1>4, <2>1, <2>2, <2>3, <2>4, <1>a DEF TaskInv, TaskTypeOK, Ids, TaskState
  <2>7. PackageAwaitsConfirmation' BY <1>t, <1>4, <2>2, <2>5 DEF PackageAwaitsConfirmation
  <2>8. work[NextId] = "none" BY <1>4, <2>2, NextIsNew DEF Tasked
  <2>9. LateReportIgnored BY <2>4, <2>8 DEF LateReportIgnored
  <2>10. Tasked' = Tasked \cup {NextId} BY <1>a, <2>2, <2>3, <2>4 DEF Tasked
  <2>11. \A i \in Tasked', j \in Ids : j < i => j \in Tasked'
    BY <1>4, <2>2, <2>10, NextIsNew DEF TaskInv
  <2> QED BY <2>5, <2>6, <2>7, <2>9, <2>11 DEF TaskInv
<1>5. ASSUME TaskInv, NEW id \in Ids, Report(id) PROVE TaskInv' /\ LateReportIgnored
  <2>1. PICK step \in Following(work[id]) :
          IF Current(id)
          THEN task' = [task EXCEPT !.stage = step] /\ work' = [work EXCEPT ![id] = step]
          ELSE /\ work' = [work EXCEPT ![id] = IF step = work[id] THEN step ELSE "ended"]
               /\ UNCHANGED task
    BY <1>5 DEF Report
  <2>2. work[id] \in Working /\ UNCHANGED <<prepared, installers>> BY <1>5 DEF Report
  <2>3. step \in Working BY DEF Following
  <2>4. installers' \subseteq Ids BY <1>5, <2>2 DEF TaskInv, TaskTypeOK
  <2>5. CASE Current(id)
    <3>1. task' = [task EXCEPT !.stage = step] /\ work' = [work EXCEPT ![id] = step]
      BY <2>1, <2>5
    <3>2. ~Awaiting(id) BY <1>5, <1>a, <2>2 DEF TaskInv
    <3>3. ~Awaiting(id)' BY <1>t, <1>5, <1>a, <2>3, <3>1 DEF Awaiting
    <3>4. prepared # id BY <1>5, <3>2 DEF TaskInv, PackageAwaitsConfirmation
    <3>5. \A j \in Ids : j # id => prepared # j
      BY <1>5, <2>5 DEF TaskInv, PackageAwaitsConfirmation, Awaiting, Current
    <3>6. prepared = 0 BY <1>t, <1>5, <3>4, <3>5 DEF Ids
    <3>7. task' \in [id : {id}, state : TaskState, stage : TaskStage]
      BY <1>t, <1>5, <1>a, <2>3, <2>5, <3>1 DEF Current
    <3> QED BY <1>a, <1>2, <1>5, <2>2, <2>3, <2>4, <2>5, <3>1, <3>3, <3>6, <3>7, <1>t
  <2>6. CASE ~Current(id)
    <3> DEFINE next == IF step = work[id] THEN step ELSE "ended"
    <3>1. UNCHANGED task /\ work' = [work EXCEPT ![id] = next] BY <2>1, <2>6
    <3>2. next \in Working \cup {"ended"} BY <2>3
    <3> HIDE DEF next
    <3> QED BY <1>1, <1>5, <1>a, <2>2, <2>4, <3>1, <3>2
  <2> QED BY <2>5, <2>6
<1>6. ASSUME TaskInv, NEW id \in Ids, Ready(id) PROVE TaskInv' /\ LateReportIgnored
  <2>1. /\ work[id] = "validating" /\ work' = [work EXCEPT ![id] = "ended"]
        /\ UNCHANGED installers /\ installers' \subseteq Ids
    BY <1>6 DEF Ready, TaskInv, TaskTypeOK
  <2>2. CASE Current(id)
    <3>1. task' = [task EXCEPT !.stage = "awaiting_confirmation"] /\ prepared' = id
      BY <1>6, <2>2 DEF Ready
    <3>2. /\ Awaiting(id)' /\ task' \in [id : {id}, state : TaskState, stage : TaskStage]
      BY <1>t, <1>6, <2>2, <3>1 DEF Awaiting, Current, TaskStage
    <3> QED BY <1>2, <1>6, <2>1, <2>2, <3>1, <3>2
  <2>3. CASE ~Current(id)
    <3>1. UNCHANGED <<task, prepared>> BY <1>6, <2>3 DEF Ready
    <3> QED BY <1>1, <1>6, <2>1, <3>1
  <2> QED BY <2>2, <2>3
<1>7. ASSUME TaskInv, NEW id \in Ids, FailTask(id), Current(id)
      PROVE  /\ task' \in [id : {id}, state : TaskState, stage : TaskStage] /\ prepared' = 0
             /\ \A j \in Ids : ~Awaiting(j)'
  <2>1. task' = [task EXCEPT !.state = "failed"] /\ prepared' = 0 BY <1>7 DEF FailTask
  <2>2. task' \in [id : {id}, state : TaskState, stage : TaskStage] /\ task'.state = "failed"
    BY <1>t, <1>7, <2>1 DEF Current, TaskState
  <2> QED BY <2>1, <2>2 DEF Awaiting, Current
<1>8. ASSUME TaskInv, NEW id \in Ids, WorkFails(id) PROVE TaskInv' /\ LateReportIgnored
  <2>1. /\ work[id] \in Working /\ work' = [work EXCEPT ![id] = "ended"] /\ FailTask(id)
        /\ installers' \subseteq Ids
    BY <1>8 DEF WorkFails, TaskInv, TaskTypeOK
  <2>2. CASE Current(id) BY <1>2, <1>7, <1>8, <1>a, <1>t, <2>1, <2>2
  <2>3. CASE ~Current(id)
    <3>1. UNCHANGED <<task, prepared>> BY <2>1, <2>3 DEF FailTask
    <3> QED BY <1>1, <1>8, <1>a, <2>1, <3>1
  <2> QED BY <2>2, <2>3
<1>9. ASSUME TaskInv, NEW id \in Ids, Confirm(id) PROVE TaskInv' /\ LateReportIgnored
  <2>1. /\ task' \in {[task EXCEPT !.stage = "installing"],
                      [task EXCEPT !.stage = "installing", !.state = "failed"]}
        /\ prepared' = 0 /\ UNCHANGED work /\ installers' \in {installers, installers \cup {id}}
    BY <1>9 DEF Confirm
  <2>2. /\ task' \in [id : 0..MaxTasks, state : TaskState, stage : TaskStage]
        /\ task'.stage = "installing"
    BY <1>t, <1>9, <2>1 DEF TaskStage, TaskState
  <2>3. installers' \subseteq Ids BY <1>9, <2>1 DEF TaskInv, TaskTypeOK
  <2> QED BY <1>3, <1>9, <2>1, <2>2, <2>3 DEF Awaiting
<1>10. ASSUME TaskInv, NEW id \in Ids, ConfirmRefused(id) PROVE TaskInv' /\ LateReportIgnored
  <2>1. Current(id) /\ FailTask(id) /\ UNCHANGED work /\ installers' \subseteq Ids
    BY <1>10 DEF ConfirmRefused, TaskInv, TaskTypeOK
  <2>2. task' \in [id : 0..MaxTasks, state : TaskState, stage : TaskStage]
    BY <1>7, <1>10, <2>1 DEF Ids
  <2> QED BY <1>3, <1>7, <1>10, <2>1, <2>2
<1>11. ASSUME TaskInv, NEW id \in Ids, Cancel(id) PROVE TaskInv' /\ LateReportIgnored
  <2>1. /\ task' = [task EXCEPT !.state = "cancelled", !.stage = "cancelled"]
        /\ prepared' = 0 /\ UNCHANGED work /\ installers' \subseteq Ids
    BY <1>11 DEF Cancel, TaskInv, TaskTypeOK
  <2>2. /\ task' \in [id : 0..MaxTasks, state : TaskState, stage : TaskStage]
        /\ task'.stage = "cancelled"
    BY <1>t, <1>11, <2>1 DEF TaskStage, TaskState
  <2> QED BY <1>3, <1>11, <2>1, <2>2 DEF Awaiting
<1>12. ASSUME TaskInv, NEW id \in Ids, UploadDropped(id) PROVE TaskInv' /\ LateReportIgnored
  <2>1. /\ work[id] = "uploading" /\ work' = [work EXCEPT ![id] = "ended"]
        /\ UNCHANGED <<task, prepared>> /\ installers' \subseteq Ids
    BY <1>12 DEF UploadDropped, TaskInv, TaskTypeOK
  <2> QED BY <1>1, <1>12, <2>1
<1>13. ASSUME TaskInv, DaemonGone PROVE TaskInv' /\ LateReportIgnored
  <2>1. /\ task' = NoTask /\ prepared' = 0 /\ installers' \subseteq Ids
        /\ work' = [i \in Ids |-> IF work[i] = "none" THEN "none" ELSE "ended"]
    BY <1>13 DEF DaemonGone, TaskInv, TaskTypeOK
  <2>2. \A id \in Ids : ~Awaiting(id)' BY <2>1 DEF Awaiting, Current, NoTask
  <2>3. TaskTypeOK' BY <2>1 DEF TaskTypeOK, NoTask, TaskState, TaskStage
  <2>4. PackageAwaitsConfirmation' BY <1>t, <1>13, <2>1, <2>2 DEF PackageAwaitsConfirmation
  <2>5. Tasked' = Tasked BY <2>1 DEF Tasked
  <2> QED BY <1>13, <2>1, <2>2, <2>3, <2>4, <2>5 DEF TaskInv, LateReportIgnored
<1>14. ASSUME TaskInv, UNCHANGED taskVars PROVE TaskInv' /\ LateReportIgnored
  <2>1. TaskTypeOK' /\ PackageAwaitsConfirmation' /\ Tasked' = Tasked
    BY <1>14 DEF taskVars, TaskInv, TaskTypeOK, PackageAwaitsConfirmation, Awaiting, Current,
                 Tasked
  <2> QED BY <1>14, <2>1 DEF taskVars, TaskInv, LateReportIgnored, Awaiting, Current
<1> QED BY <1>4, <1>5, <1>6, <1>8, <1>9, <1>10, <1>11, <1>12, <1>13, <1>14 DEF TaskNext

\* A package waits exactly while the task it belongs to can be confirmed, and no worker whose
\* task was failed, cancelled or replaced changes the task of another (update_task), while
\* installers deploy and the daemon that holds the task is stopped.  For any number of tasks.
THEOREM TasksAreHonest == UpdatesSpec => TaskHonest
<1>1. UpdatesInit => TaskInv
  <2> SUFFICES ASSUME TaskInit PROVE TaskInv BY DEF UpdatesInit
  <2> USE MaxTasksAssumption
  <2>1. TaskTypeOK BY DEF TaskInit, TaskTypeOK, NoTask, TaskState, TaskStage, Ids
  <2>2. \A id \in Ids : id # 0 /\ ~Awaiting(id) BY DEF TaskInit, Awaiting, Current, NoTask, Ids
  <2>3. Tasked = {} BY DEF TaskInit, Tasked
  <2> QED BY <2>1, <2>2, <2>3 DEF TaskInv, PackageAwaitsConfirmation, TaskInit
<1>2. TaskInv /\ [UpdatesNext]_allVars => TaskInv' /\ LateReportIgnored
  <2> SUFFICES ASSUME TaskInv, [UpdatesNext]_allVars PROVE TaskInv' /\ LateReportIgnored OBVIOUS
  <2>1. CASE InstallerEnds
    <3>1. UNCHANGED <<task, prepared, work>> /\ installers' \subseteq installers
      BY <2>1 DEF InstallerEnds
    <3>2. TaskTypeOK' /\ PackageAwaitsConfirmation' /\ Tasked' = Tasked
      BY <3>1 DEF TaskInv, TaskTypeOK, PackageAwaitsConfirmation, Awaiting, Current, Tasked
    <3> QED BY <3>1, <3>2 DEF TaskInv, LateReportIgnored, Awaiting, Current
  <2>2. CASE Ask \/ RunInstaller \/ CommandLine \/ Proceed \/ UNCHANGED allVars
    <3>1. TaskNext \/ DaemonGone \/ UNCHANGED taskVars
      BY <2>2 DEF Ask, RunInstaller, CommandLine, Proceed, allVars
    <3> QED BY <3>1, TaskKept
  <2> QED BY <2>1, <2>2 DEF UpdatesNext
<1>3. TaskInv /\ TaskInv' /\ LateReportIgnored =>
        [PackageAwaitsConfirmation' /\ LateReportIgnored]_taskVars
  BY DEF TaskInv
<1> QED BY <1>1, <1>2, <1>3, PTL DEF UpdatesSpec, TaskHonest

(***************************************************************************)
(* Deployment.                                                             *)
(***************************************************************************)
Early == pc \in {"idle", "stop", "capture", "activate", "place"}
Reversed == "rollback" \notin faults
Moving == IF at = "none" THEN {} ELSE {at}

\* Where the swaps stand: what is still to do, in progress and done.
Swaps ==
  /\ before \in [Item -> {"none", "old"}]
  /\ \A i \in Item \ {State} : content[i] # "migrated" /\ backup[i] # "migrated"
  /\ \A i \in Item : staged[i] # "migrated"
  /\ pc = "idle" => kind = "none" /\ todo = {}
  /\ outcome = "committed" => pc \in {"commit", "done", "crashed"}
  /\ pc = "commit" => outcome = "committed"
  /\ at # "none" => pc \in {"place", "crashed"}
  /\ pc = "place" => at # "none"
  /\ at \notin active \cup todo
  /\ active \cap todo = {}
  /\ pc \in {"idle", "stop", "capture", "restore", "restart"} => active = {}
  /\ pc = "done" /\ outcome = "failed" => active = {}
  /\ pc \in {"idle", "stop", "capture"} => had = {}
  /\ Early => /\ todo \cap had = {}
              /\ \A i \in todo \cup Moving : i \in MergedDirectories(kind) \/ staged[i] = source[i]

\* What a path that held something holds at its backup.
Held(i) == before[i] # "none" => backup[i] = before[i]
Recorded(i) == i \in had <=> before[i] # "none"

\* What every path holds, by where its swap stands.
Path(i) ==
  IF i = at
    THEN /\ Held(i) /\ Recorded(i)
         /\ content[i] = IF i \in had /\ ~FileBackup(i) THEN "none" ELSE before[i]
  ELSE IF i \in active
    THEN Held(i) /\ Recorded(i) /\ (i \in MergedDirectories(kind) \/ content[i] = source[i])
  ELSE IF Early THEN content[i] = before[i]
  ELSE Kept(i, content[i]) \/ (~Reversed /\ Held(i))

Paths == outcome # "committed" => \A i \in Item : Path(i)

\* A release activates the executable after the resources and takes it back before them.
Order ==
  /\ kind = "release" /\ Early => App \cup {Exe} \subseteq todo \cup active \cup Moving
  /\ kind = "release" /\ outcome # "committed" /\ Exe \in active \cup Moving /\ Reversed
       => App \subseteq active
  /\ outcome = "committed" => ExecutableHasItsResources

\* Nothing runs while files are swapped, nor while a bundle's are put back.
AtRest ==
  /\ Stopped => daemon = "none"
  /\ pc \in {"idle", "stop"} => daemon # "new" /\ svc \in {"not_installed", "stopped", "running"}
  /\ pc \in {"capture", "activate", "place", "ensure", "install", "register", "start"} => Stopped
  /\ at # "none" => Stopped
  /\ kind \in Bundle /\ "service" \notin faults /\ pc \in {"undo_command", "rollback", "restore", "restart"}
       => Stopped
  /\ ServiceRestored

DeploymentInv == TypeOK /\ Swaps /\ Paths /\ Order /\ AtRest

\* What the beginning of a deployment does, whichever kind it is.
Begins(k) ==
  /\ pc = "idle" /\ kind' = k /\ k # "none" /\ todo' = Swapped(k) /\ Swapped(k) \subseteq Item
  /\ staged' = [i \in Item |-> Staging(k, i)]
  /\ \A i \in Item : Staging(k, i) \in Content \ {"migrated"}
  /\ \A i \in Swapped(k) : i \in MergedDirectories(k) \/ Staging(k, i) = source[i]
  /\ previous' = svc
  /\ pc' = IF svc \in {"not_installed", "stopped"} THEN "capture" ELSE "stop"
  /\ UNCHANGED <<content, backup, source, active, had, at, repair, outcome, created, before, faults,
                 hostVars>>

LEMMA BeginsWithStaging ==
  ASSUME NEW k \in Kind, Begin(k), TypeOK, Swaps
  PROVE  Begins(k)
<1>1. Swapped(k) \subseteq Item /\ k # "none"
  BY PathsAssumption DEF Swapped, ReleaseSwaps, ComponentSwaps, Item, Kind, Bundle
<1>2. MergedDirectories(k) \subseteq Item \ {State}
  BY PathsAssumption DEF MergedDirectories, Item, Cores, State
<1>3. \A i \in Item : Staging(k, i) \in Content \ {"migrated"}
  BY <1>2 DEF Staging, TypeOK, Swaps, Content
<1>4. \A i \in Swapped(k) : i \in MergedDirectories(k) \/ Staging(k, i) = source[i] BY DEF Staging
<1> QED BY <1>1, <1>3, <1>4 DEF Begin, BeginBundle, BeginComponent, Begins, Stage, Look

\* The service manager's answers.
LEMMA ServiceTyped ==
  ASSUME TypeOK, Swaps, NEW result
  PROVE  /\ StopService(result) \/ StartService(result)
              => svc' \in ServiceState /\ daemon' \in {"none", "old", "new"}
         /\ content[Exe] \in {"none", "old", "new"}
<1>1. content[Exe] \in {"none", "old", "new"}
  BY PathsAssumption DEF TypeOK, Swaps, Content, Item, Exe, State
<1> QED BY <1>1 DEF TypeOK, StopService, StartService, ServiceState

\* The new executable stands only where its swap is done, after those of its resources.
LEMMA ExecutableIsNotAlone ==
  ASSUME TypeOK, Swaps, Paths, Order
  PROVE  ExecutableHasItsResources
<1> USE PathsAssumption
<1> SUFFICES ASSUME outcome # "committed", kind = "release", content[Exe] = "new", Reversed,
                    NEW i \in App
             PROVE  content[i] = source[i]
  BY DEF ExecutableHasItsResources, Order, Reversed
<1>1. Path(Exe) /\ Path(i) BY DEF Paths, Item
<1>2. before[Exe] \in {"none", "old"} /\ Exe # State BY DEF Swaps, Item, Exe, State
<1>3. Exe \in active BY <1>1, <1>2 DEF Path, Kept
<1>4. i \in active /\ at \notin active BY <1>3 DEF Order, Swaps
<1>5. MergedDirectories(kind) = {} BY DEF MergedDirectories
<1> QED BY <1>1, <1>4, <1>5 DEF Path

\* Where a deployment restores the service, or has, no path holds what the bundle brought.
LEMMA RestoredBefore ==
  ASSUME TypeOK, Swaps, Paths, Reversed, outcome # "committed",
         pc = "restart" \/ (pc = "done" /\ outcome = "failed")
  PROVE  \A i \in Item : Kept(i, content[i]) /\ content[i] # "new"
<1> SUFFICES ASSUME NEW i \in Item PROVE Kept(i, content[i]) /\ content[i] # "new" OBVIOUS
<1>1. Path(i) BY DEF Paths
<1>2. i # at /\ i \notin active /\ ~Early BY PathsAssumption DEF Swaps, Early
<1> QED BY <1>1, <1>2 DEF Path, Kept, Swaps

\* Every step of a deployment keeps the types.
LEMMA DeploymentTyped ==
  ASSUME TypeOK, Swaps, Next \/ UNCHANGED vars
  PROVE  TypeOK'
<1> USE PathsAssumption
<1>1. ASSUME NEW k \in Kind, BeginBundle(k) PROVE TypeOK'
  <2>1. Begins(k) BY <1>1, BeginsWithStaging DEF Begin
  <2> QED BY <2>1 DEF Begins, TypeOK, hostVars
<1>2. ASSUME NEW k \in Kind, BeginComponent(k) PROVE TypeOK'
  <2>1. Begins(k) BY <1>2, BeginsWithStaging DEF Begin
  <2> QED BY <2>1 DEF Begins, TypeOK, hostVars
<1>3. ASSUME NEW i \in Item, BackUp(i) PROVE TypeOK'
    BY <1>3 DEF BackUp, First, vars, swapVars, runVars, hostVars, TypeOK, Swaps, Content,
      ServiceState, Kind
<1>4. ASSUME NEW i \in Item, BackUpFails(i) PROVE TypeOK'
    BY <1>4 DEF BackUpFails, First, vars, swapVars, runVars, hostVars, TypeOK, Swaps, Content,
      ServiceState, Kind
<1>5. ASSUME NEW i \in Item, CleanUp(i) PROVE TypeOK'
    BY <1>5 DEF CleanUp, vars, swapVars, runVars, hostVars, TypeOK, Swaps, Content, ServiceState,
      Kind
<1>6. ASSUME NEW i \in Item, RollBack(i) PROVE TypeOK'
  <2>1. faults' \subseteq {"stop", "start", "rollback", "service"} BY <1>6 DEF RollBack, Fail, TypeOK
  <2>2. backup' \in [Item -> Content] BY <1>6 DEF RollBack, TypeOK, Content
  <2>3. content' \in [Item -> Content]
    <3>1. [content EXCEPT ![i] = IF i \in had THEN backup[i] ELSE "none"] \in [Item -> Content]
      BY DEF TypeOK, Content
    <3>2. [content EXCEPT ![i] = "none"] \in [Item -> Content] /\ content \in [Item -> Content]
      BY DEF TypeOK, Content
    <3> QED BY <1>6, <3>1, <3>2 DEF RollBack
  <2> QED BY <1>6, <2>1, <2>2, <2>3 DEF RollBack, TypeOK, hostVars
<1>7. ASSUME Place PROVE TypeOK'
  BY <1>7 DEF Place, vars, swapVars, runVars, hostVars, TypeOK, Swaps, Content, ServiceState, Kind
<1>8. ASSUME PlaceFails PROVE TypeOK'
  <2>1. faults' \subseteq {"stop", "start", "rollback", "service"} BY <1>8 DEF PlaceFails, Fail, TypeOK
  <2>2. /\ UNCHANGED <<staged, source, todo, active, had, kind, previous, outcome, created, before,
                        hostVars>>
        /\ at' = "none" /\ pc' = "rollback" /\ repair' = "state"
    BY <1>8 DEF PlaceFails
  <2>3. content' \in [Item -> Content] /\ backup' \in [Item -> Content]
    <3>1. [backup EXCEPT ![at] = "none"] \in [Item -> Content] /\ backup \in [Item -> Content]
      BY DEF TypeOK, Content
    <3>2. [content EXCEPT ![at] = backup[at]] \in [Item -> Content] /\ content \in [Item -> Content]
      BY <1>8 DEF PlaceFails, TypeOK, Swaps, Content
    <3> QED BY <1>8, <3>1, <3>2 DEF PlaceFails
  <2> QED BY <2>1, <2>2, <2>3 DEF TypeOK, hostVars
<1>9. ASSUME Activated PROVE TypeOK'
    BY <1>9 DEF Activated, vars, swapVars, runVars, hostVars, TypeOK, Swaps, Content,
      ServiceState, Kind
<1>10. ASSUME RolledBack PROVE TypeOK'
    BY <1>10 DEF RolledBack, vars, swapVars, runVars, hostVars, TypeOK, Swaps, Content,
      ServiceState, Kind
<1>11. ASSUME Commit PROVE TypeOK'
    BY <1>11 DEF Commit, Finish, vars, swapVars, runVars, hostVars, TypeOK, Swaps, Content,
      ServiceState, Kind
<1>12. ASSUME Stop PROVE TypeOK'
  <2>1. svc' \in ServiceState /\ daemon' \in {"none", "old", "new"} BY <1>12, ServiceTyped DEF Stop
  <2>2. faults' \subseteq {"stop", "start", "rollback", "service"} BY <1>12 DEF Stop, Fail, TypeOK
  <2>3. pc' \in {"capture", "done", "restart"} /\ outcome' \in {outcome, "failed"}
    BY <1>12 DEF Stop, Finish
  <2>4. staged' \in {staged, [j \in Item |-> "none"]} BY <1>12 DEF Stop
  <2> QED BY <1>12, <2>1, <2>2, <2>3, <2>4 DEF Stop, TypeOK, Content
<1>13. ASSUME Install PROVE TypeOK'
    BY <1>13 DEF Install, InstallService, Undo, vars, swapVars, runVars, hostVars, TypeOK, Swaps,
      Content, ServiceState, Kind
<1>14. ASSUME Start PROVE TypeOK'
  <2>1. svc' \in ServiceState /\ daemon' \in {"none", "old", "new"}
    BY <1>14, ServiceTyped DEF Start, TypeOK
  <2>2. faults' \subseteq {"stop", "start", "rollback", "service"} BY <1>14 DEF Start, Fail, TypeOK
  <2>3. /\ pc' \in {"commit", "health", "undo_stop", "undo_command"}
        /\ outcome' \in {outcome, "committed"}
        /\ repair' \in {repair, "state", "registration"}
    BY <1>14 DEF Start, Undo
  <2> QED BY <1>14, <2>1, <2>2, <2>3 DEF Start, TypeOK, swapVars
<1>15. ASSUME UndoStop PROVE TypeOK'
    BY <1>15 DEF UndoStop, StopService, Fail, Stopped, vars, swapVars, runVars, hostVars, TypeOK,
      Swaps, Content, ServiceState, Kind
<1>16. ASSUME RestoreRegistration PROVE TypeOK'
    BY <1>16 DEF RestoreRegistration, InstallService, UninstallService, Fail, vars, swapVars,
      runVars, hostVars, TypeOK, Swaps, Content, ServiceState, Kind
<1>17. ASSUME RestoreService PROVE TypeOK'
  <2>1. svc' \in ServiceState /\ daemon' \in {"none", "old", "new"}
    BY <1>17, ServiceTyped DEF RestoreService, TypeOK
  <2>2. faults' \subseteq {"stop", "start", "rollback", "service"}
    BY <1>17 DEF RestoreService, Fail, TypeOK
  <2> QED BY <1>17, <2>1, <2>2 DEF RestoreService, Finish, TypeOK, swapVars
<1>18. ASSUME Capture PROVE TypeOK'
    BY <1>18 DEF Capture, vars, swapVars, runVars, hostVars, TypeOK, Swaps, Content, ServiceState,
      Kind
<1>19. ASSUME Ensure PROVE TypeOK'
    BY <1>19 DEF Ensure, Undo, vars, swapVars, runVars, hostVars, TypeOK, Swaps, Content,
      ServiceState, Kind
<1>20. ASSUME Register PROVE TypeOK'
  <2>1. command' \in BOOLEAN /\ created' \in BOOLEAN
    <3>1. (~command) \in BOOLEAN /\ command \in BOOLEAN /\ created \in BOOLEAN BY DEF TypeOK
    <3> QED BY <1>20, <3>1, Zenon DEF Register
  <2>2. /\ pc' \in {"start", "undo_stop", "undo_command"}
        /\ repair' \in {repair, "state", "registration"}
        /\ UNCHANGED <<swapVars, kind, previous, outcome, before, faults, svc, daemon>>
    BY <1>20 DEF Register, Undo
  <2> QED BY <2>1, <2>2 DEF TypeOK, swapVars
<1>21. ASSUME Health PROVE TypeOK'
    BY <1>21 DEF Health, Undo, vars, swapVars, runVars, hostVars, TypeOK, Swaps, Content,
      ServiceState, Kind
<1>22. ASSUME UndoCommand PROVE TypeOK'
  <2>1. command' \in BOOLEAN
    <3>1. {FALSE, command} \subseteq BOOLEAN /\ {command} \subseteq BOOLEAN BY DEF TypeOK
    <3> QED BY <1>22, <3>1, Zenon DEF UndoCommand
  <2> QED BY <1>22, <2>1 DEF UndoCommand, TypeOK, swapVars
<1>23. ASSUME Boot PROVE TypeOK'
  BY <1>23 DEF Boot, vars, swapVars, runVars, hostVars, TypeOK, Swaps, Content, ServiceState, Kind
<1>24. ASSUME StopEnds PROVE TypeOK'
    BY <1>24 DEF StopEnds, vars, swapVars, runVars, hostVars, TypeOK, Swaps, Content,
      ServiceState, Kind
<1>25. ASSUME Crash PROVE TypeOK'
    BY <1>25 DEF Crash, vars, swapVars, runVars, hostVars, TypeOK, Swaps, Content, ServiceState,
      Kind
<1>26. ASSUME UNCHANGED vars PROVE TypeOK'
  BY <1>26 DEF vars, swapVars, runVars, hostVars, TypeOK, Swaps, Content, ServiceState, Kind
<1> QED BY <1>1, <1>2, <1>3, <1>4, <1>5, <1>6, <1>7, <1>8, <1>9, <1>10, <1>11, <1>12, <1>13,
    <1>14, <1>15, <1>16, <1>17, <1>18, <1>19, <1>20, <1>21, <1>22, <1>23, <1>24, <1>25, <1>26 DEF
    Next, Begin, Transaction, Service

\* A swap is to do, in progress or done, and what is staged comes from the bundle.
LEMMA SwapsKept ==
  ASSUME TypeOK, Swaps, Next \/ UNCHANGED vars
  PROVE  Swaps'
<1> USE PathsAssumption
<1>1. ASSUME NEW k \in Kind, BeginBundle(k) PROVE Swaps'
  <2>1. Begins(k) BY <1>1, BeginsWithStaging DEF Begin
  <2> QED BY <2>1 DEF Begins, Swaps, TypeOK, Early, Moving
<1>2. ASSUME NEW k \in Kind, BeginComponent(k) PROVE Swaps'
  <2>1. Begins(k) BY <1>2, BeginsWithStaging DEF Begin
  <2> QED BY <2>1 DEF Begins, Swaps, TypeOK, Early, Moving
<1>3. ASSUME NEW i \in Item, BackUp(i) PROVE Swaps'
  BY <1>3 DEF BackUp, First, vars, swapVars, runVars, hostVars, TypeOK, Swaps, Early, Moving
<1>4. ASSUME NEW i \in Item, BackUpFails(i) PROVE Swaps'
  BY <1>4 DEF BackUpFails, First, vars, swapVars, runVars, hostVars, TypeOK, Swaps, Early, Moving
<1>5. ASSUME NEW i \in Item, CleanUp(i) PROVE Swaps'
  BY <1>5 DEF CleanUp, vars, swapVars, runVars, hostVars, TypeOK, Swaps, Early, Moving
<1>6. ASSUME NEW i \in Item, RollBack(i) PROVE Swaps'
    BY <1>6 DEF RollBack, Latest, Fail, FileBackup, vars, swapVars, runVars, hostVars, TypeOK,
      Swaps, Early, Moving
<1>7. ASSUME Place PROVE Swaps'
  BY <1>7 DEF Place, vars, swapVars, runVars, hostVars, TypeOK, Swaps, Early, Moving
<1>8. ASSUME PlaceFails PROVE Swaps'
    BY <1>8 DEF PlaceFails, Fail, FileBackup, vars, swapVars, runVars, hostVars, TypeOK, Swaps,
      Early, Moving
<1>9. ASSUME Activated PROVE Swaps'
  BY <1>9 DEF Activated, vars, swapVars, runVars, hostVars, TypeOK, Swaps, Early, Moving
<1>10. ASSUME RolledBack PROVE Swaps'
  BY <1>10 DEF RolledBack, vars, swapVars, runVars, hostVars, TypeOK, Swaps, Early, Moving
<1>11. ASSUME Commit PROVE Swaps'
  BY <1>11 DEF Commit, Finish, vars, swapVars, runVars, hostVars, TypeOK, Swaps, Early, Moving
<1>12. ASSUME Stop PROVE Swaps'
    BY <1>12 DEF Stop, StopService, Fail, Finish, Stopped, vars, swapVars, runVars, hostVars,
      TypeOK, Swaps, Early, Moving
<1>13. ASSUME Install PROVE Swaps'
    BY <1>13 DEF Install, InstallService, Undo, vars, swapVars, runVars, hostVars, TypeOK, Swaps,
      Early, Moving
<1>14. ASSUME Start PROVE Swaps'
    BY <1>14 DEF Start, StartService, Undo, Fail, vars, swapVars, runVars, hostVars, TypeOK,
      Swaps, Early, Moving
<1>15. ASSUME UndoStop PROVE Swaps'
    BY <1>15 DEF UndoStop, StopService, Fail, Stopped, vars, swapVars, runVars, hostVars, TypeOK,
      Swaps, Early, Moving
<1>16. ASSUME RestoreRegistration PROVE Swaps'
    BY <1>16 DEF RestoreRegistration, InstallService, UninstallService, Fail, vars, swapVars,
      runVars, hostVars, TypeOK, Swaps, Early, Moving
<1>17. ASSUME RestoreService PROVE Swaps'
    BY <1>17 DEF RestoreService, StartService, StopService, Stopped, Fail, Finish, vars, swapVars,
      runVars, hostVars, TypeOK, Swaps, Early, Moving
<1>18. ASSUME Capture PROVE Swaps'
  BY <1>18 DEF Capture, vars, swapVars, runVars, hostVars, TypeOK, Swaps, Early, Moving
<1>19. ASSUME Ensure PROVE Swaps'
  BY <1>19 DEF Ensure, Undo, vars, swapVars, runVars, hostVars, TypeOK, Swaps, Early, Moving
<1>20. ASSUME Register PROVE Swaps'
  BY <1>20 DEF Register, Undo, vars, swapVars, runVars, hostVars, TypeOK, Swaps, Early, Moving
<1>21. ASSUME Health PROVE Swaps'
  BY <1>21 DEF Health, Undo, vars, swapVars, runVars, hostVars, TypeOK, Swaps, Early, Moving
<1>22. ASSUME UndoCommand PROVE Swaps'
  BY <1>22 DEF UndoCommand, vars, swapVars, runVars, hostVars, TypeOK, Swaps, Early, Moving
<1>23. ASSUME Boot PROVE Swaps'
  BY <1>23 DEF Boot, vars, swapVars, runVars, hostVars, TypeOK, Swaps, Early, Moving
<1>24. ASSUME StopEnds PROVE Swaps'
  BY <1>24 DEF StopEnds, vars, swapVars, runVars, hostVars, TypeOK, Swaps, Early, Moving
<1>25. ASSUME Crash PROVE Swaps'
  BY <1>25 DEF Crash, vars, swapVars, runVars, hostVars, TypeOK, Swaps, Early, Moving
<1>26. ASSUME UNCHANGED vars PROVE Swaps'
  BY <1>26 DEF vars, swapVars, runVars, hostVars, TypeOK, Swaps, Early, Moving
<1> QED BY <1>1, <1>2, <1>3, <1>4, <1>5, <1>6, <1>7, <1>8, <1>9, <1>10, <1>11, <1>12, <1>13,
    <1>14, <1>15, <1>16, <1>17, <1>18, <1>19, <1>20, <1>21, <1>22, <1>23, <1>24, <1>25, <1>26 DEF
    Next, Begin, Transaction, Service

\* What a path held is at its target or at its backup until the deployment commits.
LEMMA PathsKept ==
  ASSUME TypeOK, Swaps, Paths, AtRest, Next \/ UNCHANGED vars
  PROVE  Paths'
<1> USE PathsAssumption
<1>1. ASSUME NEW k \in Kind, BeginBundle(k) PROVE Paths'
    BY <1>1 DEF BeginBundle, Stage, Look, Bundle, Swapped, ReleaseSwaps, ComponentSwaps, vars,
      swapVars, runVars, hostVars, TypeOK, Swaps, Paths, Path, Held, Recorded, FileBackup, Kept,
      Early, Moving, Reversed, Stopped
<1>2. ASSUME NEW k \in Kind, BeginComponent(k) PROVE Paths'
    BY <1>2 DEF BeginComponent, Stage, Look, Bundle, Swapped, ReleaseSwaps, ComponentSwaps, vars,
      swapVars, runVars, hostVars, TypeOK, Swaps, Paths, Path, Held, Recorded, FileBackup, Kept,
      Early, Moving, Reversed, Stopped
<1>3. ASSUME NEW i \in Item, BackUp(i) PROVE Paths'
    BY <1>3 DEF BackUp, First, vars, swapVars, runVars, hostVars, TypeOK, Swaps, Paths, Path,
      Held, Recorded, FileBackup, Kept, Early, Moving, Reversed, Stopped
<1>4. ASSUME NEW i \in Item, BackUpFails(i) PROVE Paths'
    BY <1>4 DEF BackUpFails, First, vars, swapVars, runVars, hostVars, TypeOK, Swaps, Paths, Path,
      Held, Recorded, FileBackup, Kept, Early, Moving, Reversed, Stopped
<1>5. ASSUME NEW i \in Item, CleanUp(i) PROVE Paths'
    BY <1>5 DEF CleanUp, vars, swapVars, runVars, hostVars, TypeOK, Swaps, Paths, Path, Held,
      Recorded, FileBackup, Kept, Early, Moving, Reversed, Stopped
<1>6. ASSUME NEW i \in Item, RollBack(i) PROVE Paths'
    BY <1>6 DEF RollBack, Latest, Fail, FileBackup, vars, swapVars, runVars, hostVars, TypeOK,
      Swaps, Paths, Path, Held, Recorded, FileBackup, Kept, Early, Moving, Reversed, Stopped
<1>7. ASSUME Place PROVE Paths'
    BY <1>7 DEF Place, vars, swapVars, runVars, hostVars, TypeOK, Swaps, Paths, Path, Held,
      Recorded, FileBackup, Kept, Early, Moving, Reversed, Stopped
<1>8. ASSUME PlaceFails PROVE Paths'
    BY <1>8 DEF PlaceFails, Fail, FileBackup, vars, swapVars, runVars, hostVars, TypeOK, Swaps,
      Paths, Path, Held, Recorded, FileBackup, Kept, Early, Moving, Reversed, Stopped
<1>9. ASSUME Activated PROVE Paths'
    BY <1>9 DEF Activated, vars, swapVars, runVars, hostVars, TypeOK, Swaps, Paths, Path, Held,
      Recorded, FileBackup, Kept, Early, Moving, Reversed, Stopped
<1>10. ASSUME RolledBack PROVE Paths'
    BY <1>10 DEF RolledBack, vars, swapVars, runVars, hostVars, TypeOK, Swaps, Paths, Path, Held,
      Recorded, FileBackup, Kept, Early, Moving, Reversed, Stopped
<1>11. ASSUME Commit PROVE Paths'
    BY <1>11 DEF Commit, Finish, vars, swapVars, runVars, hostVars, TypeOK, Swaps, Paths, Path,
      Held, Recorded, FileBackup, Kept, Early, Moving, Reversed, Stopped
<1>12. ASSUME Stop PROVE Paths'
    BY <1>12 DEF Stop, StopService, Fail, Finish, Stopped, vars, swapVars, runVars, hostVars,
      TypeOK, Swaps, Paths, Path, Held, Recorded, FileBackup, Kept, Early, Moving, Reversed,
      Stopped
<1>13. ASSUME Install PROVE Paths'
    BY <1>13 DEF Install, InstallService, Undo, vars, swapVars, runVars, hostVars, TypeOK, Swaps,
      Paths, Path, Held, Recorded, FileBackup, Kept, Early, Moving, Reversed, Stopped
<1>14. ASSUME Start PROVE Paths'
    BY <1>14 DEF Start, StartService, Undo, Fail, vars, swapVars, runVars, hostVars, TypeOK,
      Swaps, Paths, Path, Held, Recorded, FileBackup, Kept, Early, Moving, Reversed, Stopped
<1>15. ASSUME UndoStop PROVE Paths'
    BY <1>15 DEF UndoStop, StopService, Fail, Stopped, vars, swapVars, runVars, hostVars, TypeOK,
      Swaps, Paths, Path, Held, Recorded, FileBackup, Kept, Early, Moving, Reversed, Stopped
<1>16. ASSUME RestoreRegistration PROVE Paths'
    BY <1>16 DEF RestoreRegistration, InstallService, UninstallService, Fail, vars, swapVars,
      runVars, hostVars, TypeOK, Swaps, Paths, Path, Held, Recorded, FileBackup, Kept, Early,
      Moving, Reversed, Stopped
<1>17. ASSUME RestoreService PROVE Paths'
    BY <1>17 DEF RestoreService, StartService, StopService, Stopped, Fail, Finish, vars, swapVars,
      runVars, hostVars, TypeOK, Swaps, Paths, Path, Held, Recorded, FileBackup, Kept, Early,
      Moving, Reversed, Stopped
<1>18. ASSUME Capture PROVE Paths'
    BY <1>18 DEF Capture, vars, swapVars, runVars, hostVars, TypeOK, Swaps, Paths, Path, Held,
      Recorded, FileBackup, Kept, Early, Moving, Reversed, Stopped
<1>19. ASSUME Ensure PROVE Paths'
    BY <1>19 DEF Ensure, Undo, vars, swapVars, runVars, hostVars, TypeOK, Swaps, Paths, Path,
      Held, Recorded, FileBackup, Kept, Early, Moving, Reversed, Stopped
<1>20. ASSUME Register PROVE Paths'
    BY <1>20 DEF Register, Undo, vars, swapVars, runVars, hostVars, TypeOK, Swaps, Paths, Path,
      Held, Recorded, FileBackup, Kept, Early, Moving, Reversed, Stopped
<1>21. ASSUME Health PROVE Paths'
    BY <1>21 DEF Health, Undo, vars, swapVars, runVars, hostVars, TypeOK, Swaps, Paths, Path,
      Held, Recorded, FileBackup, Kept, Early, Moving, Reversed, Stopped
<1>22. ASSUME UndoCommand PROVE Paths'
    BY <1>22 DEF UndoCommand, vars, swapVars, runVars, hostVars, TypeOK, Swaps, Paths, Path, Held,
      Recorded, FileBackup, Kept, Early, Moving, Reversed, Stopped
<1>23. ASSUME Boot PROVE Paths'
  <2>1. UNCHANGED <<backup, source, todo, active, had, at, runVars>> BY <1>23 DEF Boot
  <2>2. CASE UNCHANGED content BY <2>1, <2>2 DEF Paths, Path, Held, Recorded, FileBackup, Kept, Early,
                                          Reversed, runVars
  <2>3. CASE content' = [content EXCEPT ![State] = "migrated"] /\ content[State] = "old"
    <3>1. svc = "start_pending" BY <1>23 DEF Boot
    <3>2. ~Early /\ at = "none" BY <3>1 DEF Early, AtRest, Stopped
    <3>3. ASSUME NEW i \in Item, outcome # "committed" PROVE Path(i)'
      <4>1. Path(i) BY <3>3 DEF Paths
      <4>2. CASE i = State
        <5>1. State \notin MergedDirectories(kind)
          BY PathsAssumption DEF MergedDirectories, Item, Cores, State
        <5>2. i \notin active BY <2>3, <4>1, <4>2, <5>1, <3>2 DEF Path, TypeOK, Swaps
        <5>3. Kept(i, content'[i]) \/ (~Reversed /\ Held(i))
          BY <2>3, <3>2, <4>1, <4>2, <5>2 DEF Path, Kept, TypeOK
        <5> QED BY <2>1, <3>2, <3>3, <4>2, <5>2, <5>3, PathsAssumption
              DEF Path, Kept, Held, Reversed, Early, runVars
      <4>3. CASE i # State
        <5>1. content'[i] = content[i] BY <2>3, <4>3 DEF TypeOK
        <5> QED BY <2>1, <4>1, <5>1
              DEF Path, Held, Recorded, FileBackup, Kept, Early, Reversed, runVars
      <4> QED BY <4>2, <4>3
    <3> QED BY <2>1, <3>3 DEF Paths, runVars
  <2> QED BY <1>23, <2>2, <2>3 DEF Boot
<1>24. ASSUME StopEnds PROVE Paths'
    BY <1>24 DEF StopEnds, vars, swapVars, runVars, hostVars, TypeOK, Swaps, Paths, Path, Held,
      Recorded, FileBackup, Kept, Early, Moving, Reversed, Stopped
<1>25. ASSUME Crash PROVE Paths'
    BY <1>25 DEF Crash, vars, swapVars, runVars, hostVars, TypeOK, Swaps, Paths, Path, Held,
      Recorded, FileBackup, Kept, Early, Moving, Reversed, Stopped
<1>26. ASSUME UNCHANGED vars PROVE Paths'
    BY <1>26 DEF vars, swapVars, runVars, hostVars, TypeOK, Swaps, Paths, Path, Held, Recorded,
      FileBackup, Kept, Early, Moving, Reversed, Stopped
<1> QED BY <1>1, <1>2, <1>3, <1>4, <1>5, <1>6, <1>7, <1>8, <1>9, <1>10, <1>11, <1>12, <1>13,
    <1>14, <1>15, <1>16, <1>17, <1>18, <1>19, <1>20, <1>21, <1>22, <1>23, <1>24, <1>25, <1>26 DEF
    Next, Begin, Transaction, Service

\* Resources come before the executable and go after it.
LEMMA OrderKept ==
  ASSUME TypeOK, Swaps, Paths, Order, Next \/ UNCHANGED vars
  PROVE  Order'
<1> USE PathsAssumption
<1>1. ASSUME NEW k \in Kind, BeginBundle(k) PROVE Order'
    BY <1>1 DEF BeginBundle, Stage, Look, Bundle, Swapped, ReleaseSwaps, ComponentSwaps, vars,
      swapVars, runVars, hostVars, TypeOK, Swaps, Order, Early, Moving, Reversed,
      ExecutableHasItsResources
<1>2. ASSUME NEW k \in Kind, BeginComponent(k) PROVE Order'
    BY <1>2 DEF BeginComponent, Stage, Look, Bundle, Swapped, ReleaseSwaps, ComponentSwaps, vars,
      swapVars, runVars, hostVars, TypeOK, Swaps, Order, Early, Moving, Reversed,
      ExecutableHasItsResources
<1>3. ASSUME NEW i \in Item, BackUp(i) PROVE Order'
  <2>1. /\ pc = "activate" /\ i \in todo /\ \A j \in todo : Rank(kind, i) <= Rank(kind, j)
        /\ at' = i /\ todo' = todo \ {i} /\ pc' = "place"
        /\ UNCHANGED <<source, active, kind, outcome, faults>>
    BY <1>3 DEF BackUp, First
  <2>2. outcome # "committed" /\ Early /\ Moving = {} /\ Moving' = {i}
    BY <2>1 DEF Swaps, Early, Moving, TypeOK
  <2>3. ASSUME kind = "release", i = Exe PROVE App \subseteq active
    <3>1. ASSUME NEW j \in App PROVE j \notin todo
      BY <2>1, <2>3, <3>1, PathsAssumption DEF Rank
    <3> QED BY <2>2, <2>3, <3>1 DEF Order
  <2> QED BY <2>1, <2>2, <2>3 DEF Order, Reversed, Early
<1>4. ASSUME NEW i \in Item, BackUpFails(i) PROVE Order'
    BY <1>4 DEF BackUpFails, First, vars, swapVars, runVars, hostVars, TypeOK, Swaps, Order,
      Early, Moving, Reversed, ExecutableHasItsResources
<1>5. ASSUME NEW i \in Item, CleanUp(i) PROVE Order'
    BY <1>5 DEF CleanUp, vars, swapVars, runVars, hostVars, TypeOK, Swaps, Order, Early, Moving,
      Reversed, ExecutableHasItsResources
<1>6. ASSUME NEW i \in Item, RollBack(i) PROVE Order'
  <2>1. /\ pc = "rollback" /\ i \in active /\ \A j \in active : Rank(kind, j) <= Rank(kind, i)
        /\ active' = active \ {i} /\ UNCHANGED <<source, todo, at, pc, kind, outcome>>
        /\ faults \subseteq faults'
    BY <1>6 DEF RollBack, Latest, Fail
  <2>2. outcome # "committed" /\ ~Early /\ ~Early' /\ Moving = {} /\ Moving' = {}
    BY <2>1 DEF Swaps, Early, Moving, TypeOK
  <2>3. ASSUME kind = "release", Exe \in active PROVE i \notin App
    BY <2>1, <2>3, PathsAssumption DEF Rank, Exe
  <2> QED BY <2>1, <2>2, <2>3 DEF Order, Reversed
<1>7. ASSUME Place PROVE Order'
    BY <1>7 DEF Place, vars, swapVars, runVars, hostVars, TypeOK, Swaps, Order, Early, Moving,
      Reversed, ExecutableHasItsResources
<1>8. ASSUME PlaceFails PROVE Order'
    BY <1>8 DEF PlaceFails, Fail, FileBackup, vars, swapVars, runVars, hostVars, TypeOK, Swaps,
      Order, Early, Moving, Reversed, ExecutableHasItsResources
<1>9. ASSUME Activated PROVE Order'
    BY <1>9 DEF Activated, vars, swapVars, runVars, hostVars, TypeOK, Swaps, Order, Early, Moving,
      Reversed, ExecutableHasItsResources
<1>10. ASSUME RolledBack PROVE Order'
    BY <1>10 DEF RolledBack, vars, swapVars, runVars, hostVars, TypeOK, Swaps, Order, Early,
      Moving, Reversed, ExecutableHasItsResources
<1>11. ASSUME Commit PROVE Order'
    BY <1>11 DEF Commit, Finish, vars, swapVars, runVars, hostVars, TypeOK, Swaps, Order, Early,
      Moving, Reversed, ExecutableHasItsResources
<1>12. ASSUME Stop PROVE Order'
    BY <1>12 DEF Stop, StopService, Fail, Finish, Stopped, vars, swapVars, runVars, hostVars,
      TypeOK, Swaps, Order, Early, Moving, Reversed, ExecutableHasItsResources
<1>13. ASSUME Install PROVE Order'
    BY <1>13 DEF Install, InstallService, Undo, vars, swapVars, runVars, hostVars, TypeOK, Swaps,
      Order, Early, Moving, Reversed, ExecutableHasItsResources
<1>14. ASSUME Start PROVE Order'
  <2>1. /\ UNCHANGED <<content, source, todo, active, at, kind>>
        /\ pc' \notin {"idle", "stop", "capture", "activate", "place"} /\ faults \subseteq faults'
        /\ outcome' \in {outcome, "committed"}
    BY <1>14 DEF Start, Undo, Fail, swapVars
  <2>2. ExecutableHasItsResources' BY <2>1, ExecutableIsNotAlone DEF ExecutableHasItsResources
  <2> QED BY <1>14, <2>1, <2>2 DEF Order, Early, Moving, Reversed, Start, Swaps
<1>15. ASSUME UndoStop PROVE Order'
    BY <1>15 DEF UndoStop, StopService, Fail, Stopped, vars, swapVars, runVars, hostVars, TypeOK,
      Swaps, Order, Early, Moving, Reversed, ExecutableHasItsResources
<1>16. ASSUME RestoreRegistration PROVE Order'
    BY <1>16 DEF RestoreRegistration, InstallService, UninstallService, Fail, vars, swapVars,
      runVars, hostVars, TypeOK, Swaps, Order, Early, Moving, Reversed, ExecutableHasItsResources
<1>17. ASSUME RestoreService PROVE Order'
    BY <1>17 DEF RestoreService, StartService, StopService, Stopped, Fail, Finish, vars, swapVars,
      runVars, hostVars, TypeOK, Swaps, Order, Early, Moving, Reversed, ExecutableHasItsResources
<1>18. ASSUME Capture PROVE Order'
    BY <1>18 DEF Capture, vars, swapVars, runVars, hostVars, TypeOK, Swaps, Order, Early, Moving,
      Reversed, ExecutableHasItsResources
<1>19. ASSUME Ensure PROVE Order'
    BY <1>19 DEF Ensure, Undo, vars, swapVars, runVars, hostVars, TypeOK, Swaps, Order, Early,
      Moving, Reversed, ExecutableHasItsResources
<1>20. ASSUME Register PROVE Order'
    BY <1>20 DEF Register, Undo, vars, swapVars, runVars, hostVars, TypeOK, Swaps, Order, Early,
      Moving, Reversed, ExecutableHasItsResources
<1>21. ASSUME Health PROVE Order'
  <2>1. /\ UNCHANGED <<content, source, todo, active, at, kind, faults>>
        /\ pc' \notin {"idle", "stop", "capture", "activate", "place"}
        /\ outcome' \in {outcome, "committed"}
    BY <1>21 DEF Health, Undo, swapVars
  <2>2. ExecutableHasItsResources' BY <2>1, ExecutableIsNotAlone DEF ExecutableHasItsResources
  <2> QED BY <1>21, <2>1, <2>2 DEF Order, Early, Moving, Reversed, Health, Swaps
<1>22. ASSUME UndoCommand PROVE Order'
    BY <1>22 DEF UndoCommand, vars, swapVars, runVars, hostVars, TypeOK, Swaps, Order, Early,
      Moving, Reversed, ExecutableHasItsResources
<1>23. ASSUME Boot PROVE Order'
  <2>1. UNCHANGED <<source, todo, active, at, pc, kind, outcome, faults>> BY <1>23 DEF Boot, runVars
  <2>2. \A j \in App \cup {Exe} : content'[j] = content[j]
    <3>1. State \notin App \cup {Exe} /\ App \cup {Exe} \subseteq Item
      BY PathsAssumption DEF Exe, State, Item
    <3>2. content' \in {content, [content EXCEPT ![State] = "migrated"]} BY <1>23 DEF Boot
    <3> QED BY <3>1, <3>2 DEF TypeOK
  <2>3. outcome' = "committed" => ExecutableHasItsResources'
    BY <2>1, <2>2 DEF Order, ExecutableHasItsResources
  <2> QED BY <2>1, <2>3 DEF Order, Early, Moving, Reversed
<1>24. ASSUME StopEnds PROVE Order'
    BY <1>24 DEF StopEnds, vars, swapVars, runVars, hostVars, TypeOK, Swaps, Order, Early, Moving,
      Reversed, ExecutableHasItsResources
<1>25. ASSUME Crash PROVE Order'
    BY <1>25 DEF Crash, vars, swapVars, runVars, hostVars, TypeOK, Swaps, Order, Early, Moving,
      Reversed, ExecutableHasItsResources
<1>26. ASSUME UNCHANGED vars PROVE Order'
    BY <1>26 DEF vars, swapVars, runVars, hostVars, TypeOK, Swaps, Order, Early, Moving, Reversed,
      ExecutableHasItsResources
<1> QED BY <1>1, <1>2, <1>3, <1>4, <1>5, <1>6, <1>7, <1>8, <1>9, <1>10, <1>11, <1>12, <1>13,
    <1>14, <1>15, <1>16, <1>17, <1>18, <1>19, <1>20, <1>21, <1>22, <1>23, <1>24, <1>25, <1>26 DEF
    Next, Begin, Transaction, Service

\* The service rests while its files change hands, and is given back afterwards.
LEMMA QuietKept ==
  ASSUME TypeOK, Swaps, Paths, AtRest, Next \/ UNCHANGED vars
  PROVE  AtRest'
<1> USE PathsAssumption
<1>1. ASSUME NEW k \in Kind, BeginBundle(k) PROVE AtRest'
    BY <1>1 DEF BeginBundle, Stage, Look, Bundle, Swapped, ReleaseSwaps, ComponentSwaps, vars,
      swapVars, runVars, hostVars, TypeOK, Swaps, AtRest, Stopped, ServiceRestored, Bundle, Up
<1>2. ASSUME NEW k \in Kind, BeginComponent(k) PROVE AtRest'
    BY <1>2 DEF BeginComponent, Stage, Look, Bundle, Swapped, ReleaseSwaps, ComponentSwaps, vars,
      swapVars, runVars, hostVars, TypeOK, Swaps, AtRest, Stopped, ServiceRestored, Bundle, Up
<1>3. ASSUME NEW i \in Item, BackUp(i) PROVE AtRest'
    BY <1>3 DEF BackUp, First, vars, swapVars, runVars, hostVars, TypeOK, Swaps, AtRest, Stopped,
      ServiceRestored, Bundle, Up
<1>4. ASSUME NEW i \in Item, BackUpFails(i) PROVE AtRest'
    BY <1>4 DEF BackUpFails, First, vars, swapVars, runVars, hostVars, TypeOK, Swaps, AtRest,
      Stopped, ServiceRestored, Bundle, Up
<1>5. ASSUME NEW i \in Item, CleanUp(i) PROVE AtRest'
    BY <1>5 DEF CleanUp, vars, swapVars, runVars, hostVars, TypeOK, Swaps, AtRest, Stopped,
      ServiceRestored, Bundle, Up
<1>6. ASSUME NEW i \in Item, RollBack(i) PROVE AtRest'
    BY <1>6 DEF RollBack, Latest, Fail, FileBackup, vars, swapVars, runVars, hostVars, TypeOK,
      Swaps, AtRest, Stopped, ServiceRestored, Bundle, Up
<1>7. ASSUME Place PROVE AtRest'
    BY <1>7 DEF Place, vars, swapVars, runVars, hostVars, TypeOK, Swaps, AtRest, Stopped,
      ServiceRestored, Bundle, Up
<1>8. ASSUME PlaceFails PROVE AtRest'
    BY <1>8 DEF PlaceFails, Fail, FileBackup, vars, swapVars, runVars, hostVars, TypeOK, Swaps,
      AtRest, Stopped, ServiceRestored, Bundle, Up
<1>9. ASSUME Activated PROVE AtRest'
    BY <1>9 DEF Activated, vars, swapVars, runVars, hostVars, TypeOK, Swaps, AtRest, Stopped,
      ServiceRestored, Bundle, Up
<1>10. ASSUME RolledBack PROVE AtRest'
    BY <1>10 DEF RolledBack, vars, swapVars, runVars, hostVars, TypeOK, Swaps, AtRest, Stopped,
      ServiceRestored, Bundle, Up
<1>11. ASSUME Commit PROVE AtRest'
    BY <1>11 DEF Commit, Finish, vars, swapVars, runVars, hostVars, TypeOK, Swaps, AtRest, Stopped,
      ServiceRestored, Bundle, Up
<1>12. ASSUME Stop PROVE AtRest'
    BY <1>12 DEF Stop, StopService, Fail, Finish, Stopped, vars, swapVars, runVars, hostVars,
      TypeOK, Swaps, AtRest, Stopped, ServiceRestored, Bundle, Up
<1>13. ASSUME Install PROVE AtRest'
    BY <1>13 DEF Install, InstallService, Undo, vars, swapVars, runVars, hostVars, TypeOK, Swaps,
      AtRest, Stopped, ServiceRestored, Bundle, Up
<1>14. ASSUME Start PROVE AtRest'
    BY <1>14 DEF Start, StartService, Undo, Fail, vars, swapVars, runVars, hostVars, TypeOK,
      Swaps, AtRest, Stopped, ServiceRestored, Bundle, Up
<1>15. ASSUME UndoStop PROVE AtRest'
    BY <1>15 DEF UndoStop, StopService, Fail, Stopped, vars, swapVars, runVars, hostVars, TypeOK,
      Swaps, AtRest, Stopped, ServiceRestored, Bundle, Up
<1>16. ASSUME RestoreRegistration PROVE AtRest'
    BY <1>16 DEF RestoreRegistration, InstallService, UninstallService, Fail, vars, swapVars,
      runVars, hostVars, TypeOK, Swaps, AtRest, Stopped, ServiceRestored, Bundle, Up
<1>17. ASSUME RestoreService PROVE AtRest'
  <2>1. /\ pc = "restart" /\ pc' = "done" /\ outcome' = "failed"
        /\ UNCHANGED <<content, at, kind, previous>> /\ faults \subseteq faults'
    BY <1>17 DEF RestoreService, Finish, Fail, swapVars
  <2>2. Stopped' => daemon' = "none"
    BY <1>17 DEF RestoreService, StartService, StopService, AtRest, Stopped
  <2>3. ServiceRestored'
    <3> SUFFICES ASSUME kind \in Bundle, faults' \cap {"stop", "service", "rollback"} = {}
                 PROVE  /\ daemon' # "new"
                        /\ previous \in Up => svc' \in Up \/ content[State] = "migrated"
      BY <2>1 DEF ServiceRestored
    <3>1. faults \cap {"stop", "service", "rollback"} = {} BY <2>1
    <3>2. Stopped /\ daemon = "none" BY <2>1, <3>1 DEF AtRest
    <3>3. content[Exe] # "new" BY <2>1, <3>1, RestoredBefore DEF Reversed, Item, Swaps
    <3>4. CASE previous \in Up
      <4>1. StartService("ok") BY <1>17, <3>4 DEF RestoreService, Up, Fail
      <4> QED BY <3>2, <3>3, <4>1 DEF StartService, Stopped, Up
    <3>5. CASE previous \notin Up
      <4>1. StopService("ok") \/ UNCHANGED <<svc, daemon>>
        BY <1>17, <3>5 DEF RestoreService, Up, Fail
      <4> QED BY <3>2, <3>5, <4>1 DEF StopService, Stopped
    <3> QED BY <3>4, <3>5
  <2> QED BY <2>1, <2>2, <2>3 DEF AtRest, Swaps
<1>18. ASSUME Capture PROVE AtRest'
    BY <1>18 DEF Capture, vars, swapVars, runVars, hostVars, TypeOK, Swaps, AtRest, Stopped,
      ServiceRestored, Bundle, Up
<1>19. ASSUME Ensure PROVE AtRest'
    BY <1>19 DEF Ensure, Undo, vars, swapVars, runVars, hostVars, TypeOK, Swaps, AtRest, Stopped,
      ServiceRestored, Bundle, Up
<1>20. ASSUME Register PROVE AtRest'
    BY <1>20 DEF Register, Undo, vars, swapVars, runVars, hostVars, TypeOK, Swaps, AtRest, Stopped,
      ServiceRestored, Bundle, Up
<1>21. ASSUME Health PROVE AtRest'
    BY <1>21 DEF Health, Undo, vars, swapVars, runVars, hostVars, TypeOK, Swaps, AtRest, Stopped,
      ServiceRestored, Bundle, Up
<1>22. ASSUME UndoCommand PROVE AtRest'
    BY <1>22 DEF UndoCommand, vars, swapVars, runVars, hostVars, TypeOK, Swaps, AtRest, Stopped,
      ServiceRestored, Bundle, Up
<1>23. ASSUME Boot PROVE AtRest'
  <2>1. /\ svc = "start_pending"
        /\ UNCHANGED <<at, pc, kind, previous, outcome, faults>>
    BY <1>23 DEF Boot, runVars
  <2>2. Stopped' => daemon' = "none" BY <1>23 DEF Boot, Stopped, AtRest
  <2>3. ServiceRestored'
    <3> SUFFICES ASSUME pc = "done", outcome = "failed", kind \in Bundle,
                        faults \cap {"stop", "service", "rollback"} = {}
                 PROVE  /\ daemon' # "new"
                        /\ previous \in Up => svc' \in Up \/ content'[State] = "migrated"
      BY <2>1 DEF ServiceRestored
    <3>1. daemon # "new" BY DEF AtRest, ServiceRestored
    <3>2. content[State] # "new" BY RestoredBefore DEF Reversed, Item
    <3> QED BY <1>23, <2>1, <3>1, <3>2 DEF Boot, Up
  <2> QED BY <2>1, <2>2, <2>3 DEF AtRest, Stopped
<1>24. ASSUME StopEnds PROVE AtRest'
    BY <1>24 DEF StopEnds, vars, swapVars, runVars, hostVars, TypeOK, Swaps, AtRest, Stopped,
      ServiceRestored, Bundle, Up
<1>25. ASSUME Crash PROVE AtRest'
    BY <1>25 DEF Crash, vars, swapVars, runVars, hostVars, TypeOK, Swaps, AtRest, Stopped,
      ServiceRestored, Bundle, Up
<1>26. ASSUME UNCHANGED vars PROVE AtRest'
    BY <1>26 DEF vars, swapVars, runVars, hostVars, TypeOK, Swaps, AtRest, Stopped,
      ServiceRestored, Bundle, Up
<1> QED BY <1>1, <1>2, <1>3, <1>4, <1>5, <1>6, <1>7, <1>8, <1>9, <1>10, <1>11, <1>12, <1>13,
    <1>14, <1>15, <1>16, <1>17, <1>18, <1>19, <1>20, <1>21, <1>22, <1>23, <1>24, <1>25, <1>26 DEF
    Next, Begin, Transaction, Service

LEMMA DeploymentKept == DeploymentInv /\ [Next]_vars => DeploymentInv'
BY DeploymentTyped, SwapsKept, PathsKept, OrderKept, QuietKept DEF DeploymentInv

\* Whatever fails, and wherever the installer dies: no path loses what it held, a new executable
\* never stands beside old resources, and a rollback without errors restores files and service
\* (RestoreTransaction and the deployment around it).  For any paths.
THEOREM DeploymentsAreSafe == UpdatesSpec => []DeploymentSafe
<1>1. UpdatesInit => DeploymentInv
  <2> SUFFICES ASSUME Init PROVE DeploymentInv BY DEF UpdatesInit
  <2> USE PathsAssumption
  <2>1. TypeOK BY DEF Init, TypeOK, Content, ServiceState, Bundled
  <2>2. Swaps BY DEF Init, Swaps, Early, Moving
  <2>3. Paths BY <2>2 DEF Init, Paths, Path, Early, Swaps
  <2>4. Order BY DEF Init, Order, Early, Moving
  <2>5. AtRest BY DEF Init, AtRest, Stopped, ServiceRestored
  <2> QED BY <2>1, <2>2, <2>3, <2>4, <2>5 DEF DeploymentInv
<1>2. DeploymentInv /\ [UpdatesNext]_allVars => DeploymentInv'
  <2>1. [UpdatesNext]_allVars => [Next]_vars
    BY DEF UpdatesNext, allVars, Ask, RunInstaller, InstallerEnds, CommandLine, Proceed, Next, Kind,
           Bundle
  <2> QED BY <2>1, DeploymentKept
<1>3. DeploymentInv => DeploymentSafe
  <2> SUFFICES ASSUME DeploymentInv PROVE DeploymentSafe OBVIOUS
  <2>1. NothingLost
    BY DEF DeploymentInv, NothingLost, Paths, Path, Held, Kept, Swaps
  <2>2. ExecutableHasItsResources BY ExecutableIsNotAlone DEF DeploymentInv
  <2>3. PathsRestored BY RestoredBefore DEF DeploymentInv, PathsRestored, Reversed
  <2> QED BY <2>1, <2>2, <2>3 DEF DeploymentSafe, ReleaseRestored, DeploymentInv, AtRest
<1> QED BY <1>1, <1>2, <1>3, PTL DEF UpdatesSpec

(***************************************************************************)
(* Profiles and the document.                                              *)
(***************************************************************************)
Versions == [revision : Nat \ {0}, sources : SUBSET (Source \cup {Imported}), node : BOOLEAN]
Results ==
  [profile : Profile, sources : SUBSET (Source \cup {Imported}), node : CustomNode \cup {"none"},
   network : Network]

\* The holder of the operation lock.
Compilings ==
  [kind : {"compile"}, profile : Profile, activate : BOOLEAN, by : {"caller", "scheduler"},
   read : Versions, now : BOOLEAN]
Stagings ==
  [kind : {"stage", "record"}, by : {"caller", "scheduler"}, profile : Profile,
   activate : BOOLEAN, read : Versions, now : BOOLEAN, result : Results]
Settings ==
  [kind : {"document", "undo"}, profile : Profile, read : Versions,
   own : SUBSET (Source \cup {Imported})]

\* Revisions are unbounded: MaxRevision limits the runs.
ProfilesTyped ==
  /\ catalog \in [Profile -> {Unused, Deleted} \cup Versions]
  /\ custom \in CustomNode /\ network \in Network
  /\ activeProfile \in Profile \cup {"none"}
  /\ holder \in {Quiet, [kind |-> "settings"]} \cup Compilings \cup Stagings \cup Settings
  /\ importer \in {Quiet} \cup [kind : {"edit", "activate"}, profile : Profile]
  /\ scheduler.at = "ask" => scheduler \in [at : {"ask"}, profile : Profile]

\* What a profile compiles to under the network settings of another moment.
Configured(p, item, n) ==
  [profile |-> p, sources |-> item.sources,
   node |-> IF item.node THEN custom ELSE "none", network |-> n]

\* What the holder has read is what the catalog says, or an import has edited it since; what
\* was compiled is compiled from it.
ReadIsOlder ==
  /\ holder.kind = "settings" => activeProfile # "none"
  /\ holder.kind \in {"compile", "stage", "record"} =>
       /\ holder.read.revision <= catalog[holder.profile].revision
       /\ holder.read.revision = catalog[holder.profile].revision =>
            catalog[holder.profile] = holder.read
  /\ holder.kind \in {"document", "undo"} =>
       /\ holder.read.revision + 1 <= catalog[holder.profile].revision
       /\ holder.read.revision + 1 = catalog[holder.profile].revision =>
            catalog[holder.profile].sources = holder.own
  /\ holder.kind = "stage" => holder.result = CompiledFrom(holder.profile, holder.read)

\* The build of a revision of a profile that it has, or has again once a source is undone, has
\* the configuration of that revision, whatever network it was built for.
BuiltFrom(p, item) ==
  build.revision <= item.revision
  /\ (build.revision = item.revision => configuration = Configured(p, item, build.network))
BuildIsOlder ==
  build # NoBuild =>
    /\ build.profile \in Profile /\ build.revision \in Nat \ {0}
    /\ catalog[build.profile] # Unused
    /\ Known(build.profile) => BuiltFrom(build.profile, catalog[build.profile])
    /\ holder.kind \in {"document", "undo"} /\ holder.profile = build.profile =>
         BuiltFrom(build.profile, holder.read)

ProfilesInv == ProfilesTyped /\ ReadIsOlder /\ BuildIsOlder /\ ActiveExists

LEMMA KnownVersions ==
  ASSUME ProfilesTyped, NEW p \in Profile
  PROVE  /\ catalog[p].revision \in Int
         /\ Known(p) <=> catalog[p] \in Versions
         /\ ~Known(p) => catalog[p] \in {Unused, Deleted}
BY DEF ProfilesTyped, Known, Versions, Unused, Deleted

LEMMA HolderShapes ==
  ASSUME ProfilesTyped
  PROVE  /\ holder.kind \in {"idle", "settings", "compile", "stage", "record", "document", "undo"}
         /\ holder.kind = "idle" <=> LockFree
         /\ holder.kind = "settings" => holder = [kind |-> "settings"]
         /\ holder.kind = "compile" => holder \in Compilings
         /\ holder.kind \in {"stage", "record"} => holder \in Stagings
         /\ holder.kind \in {"document", "undo"} => holder \in Settings
BY DEF ProfilesTyped, LockFree, Quiet, Compilings, Stagings, Settings

\* A custom node that changes is a new revision of the profiles that refer to it.
LEMMA NodeRevises ==
  ASSUME ProfilesTyped, SaveCustomNode, NEW p \in Profile
  PROVE  /\ catalog'[p] \in {Unused, Deleted} \cup Versions
         /\ ~Known(p) => catalog'[p] = catalog[p]
         /\ Known(p) =>
              \/ catalog'[p] = catalog[p] /\ ~catalog[p].node
              \/ catalog'[p] \in Versions /\ catalog'[p].revision = catalog[p].revision + 1
<1>1. ~Known(p) => catalog'[p] = catalog[p] /\ catalog[p] \in {Unused, Deleted}
  BY KnownVersions DEF SaveCustomNode
<1>2. ASSUME Known(p), ~catalog[p].node, catalog'[p] = catalog[p]
      PROVE  catalog'[p] \in Versions /\ catalog'[p] = catalog[p]
  BY <1>2, KnownVersions
<1>3. ASSUME Known(p), NEW b \in BOOLEAN,
             catalog'[p] = [Revised(catalog[p]) EXCEPT !.node = b]
      PROVE  catalog'[p] \in Versions /\ catalog'[p].revision = catalog[p].revision + 1
  <2> DEFINE r == Revised(catalog[p])
  <2>1. r \in Versions /\ r.revision = catalog[p].revision + 1
    BY <1>3, KnownVersions DEF Revised, Versions
  <2> HIDE DEF r
  <2>2. catalog'[p] = [r EXCEPT !.node = b]
    BY <1>3 DEF r
  <2> QED BY <2>1, <2>2 DEF Versions
<1>4. PICK chosen \in SUBSET {q \in Profile : Known(q)} :
        catalog' = [q \in Profile |->
          IF Known(q) /\ (catalog[q].node \/ q \in chosen)
          THEN [Revised(catalog[q]) EXCEPT !.node = q \in chosen] ELSE catalog[q]]
  BY DEF SaveCustomNode
<1>5. (p \in chosen) \in BOOLEAN
  OBVIOUS
<1>6. CASE Known(p) /\ (catalog[p].node \/ p \in chosen)
  BY <1>3, <1>4, <1>5, <1>6
<1>7. CASE Known(p) /\ ~catalog[p].node /\ p \notin chosen
  BY <1>2, <1>4, <1>7
<1> QED BY <1>1, <1>6, <1>7

LEMMA CompilingTyped ==
  ASSUME ProfilesTyped, NEW p \in Profile, Known(p), NEW activate \in BOOLEAN,
         NEW by \in {"caller", "scheduler"}
  PROVE  Compiling(p, activate, by) \in Compilings
<1>1. (activeProfile = p \/ activate) \in BOOLEAN /\ catalog[p] \in Versions
  BY KnownVersions
<1> QED BY <1>1, Zenon DEF Compiling, Compilings

LEMMA ProfileTypesKept == ProfilesInv /\ [ProfilesNext]_profileVars => ProfilesTyped'
<1> SUFFICES ASSUME ProfilesInv, [ProfilesNext]_profileVars PROVE ProfilesTyped'
  OBVIOUS
<1> USE KnownVersions, HolderShapes DEF ProfilesInv
<1> USE DEF ProfilesTyped, Known, Versions, LockFree, Compilings, Stagings, Settings,
       Quiet, New, Deleted, Unused, builds, schedule
<1>1. CASE PrepareProfile \/ PrepareForRuntime \/ CompileForNetwork \/ ActivateImport
  <2>1. holder' \in {Quiet} \cup Compilings
    <3>1. CASE PrepareProfile
      BY <3>1, CompilingTyped DEF PrepareProfile
    <3>2. CASE PrepareForRuntime
      BY <3>2, CompilingTyped DEF PrepareForRuntime
    <3>3. CASE CompileForNetwork
      <4>1. activeProfile \in Profile /\ Known(activeProfile)
        BY <3>3 DEF CompileForNetwork, ReadIsOlder, ActiveExists
      <4> QED BY <3>3, <4>1, CompilingTyped DEF CompileForNetwork
    <3>4. CASE ActivateImport
      BY <3>4, CompilingTyped DEF ActivateImport
    <3> QED BY <1>1, <3>1, <3>2, <3>3, <3>4
  <2>2. importer' \in {importer, Quiet}
        /\ UNCHANGED <<catalog, custom, network, activeProfile, scheduler>>
    BY <1>1 DEF PrepareProfile, PrepareForRuntime, CompileForNetwork, ActivateImport
  <2> QED BY <2>1, <2>2
<1>2. CASE ScheduledUpdate
  <2>1. holder' \in {holder} \cup Compilings
    <3>1. scheduler.profile \in Profile
      BY <1>2 DEF ScheduledUpdate
    <3>2. CASE Known(scheduler.profile)
      <4>1. Compiling(scheduler.profile, FALSE, "scheduler") \in Compilings
        BY <3>1, <3>2, CompilingTyped
      <4> HIDE DEF Compilings, Known
      <4> QED BY <1>2, <3>2, <4>1 DEF ScheduledUpdate
    <3>3. CASE ~Known(scheduler.profile)
      <4> HIDE DEF Compilings, Known
      <4> QED BY <1>2, <3>3 DEF ScheduledUpdate
    <3> QED BY <3>2, <3>3
  <2>2. scheduler'.at # "ask" /\ UNCHANGED <<catalog, custom, network, activeProfile, importer>>
    <3> HIDE DEF Compilings, Known
    <3>1. scheduler' \in {SchedulerAt("updating"), SchedulerAt("failed")}
      BY <1>2 DEF ScheduledUpdate
    <3>2. scheduler'.at # "ask"
      BY <3>1 DEF SchedulerAt
    <3> QED BY <1>2, <3>2 DEF ScheduledUpdate
  <2> QED BY <2>1, <2>2
<1>3. CASE Compile \/ StageBuild \/ RecordCompilation
  BY <1>3, SMT DEF Compile, StageBuild, RecordCompilation, Ends, Unlock, BuildOf, MayRecord,
     SchedulerAt, ActiveExists, ReadIsOlder, Results, CompiledFrom
<1>4. CASE SaveProfile
  BY <1>4, SMT DEF SaveProfile, Editable, Edited, ActiveExists, ReadIsOlder, Results, CompiledFrom
<1>5. CASE SetSource
  BY <1>5, SMT DEF SetSource, Editable, Edited, ActiveExists, ReadIsOlder, Results, CompiledFrom
<1>6. CASE EditImport
  BY <1>6, SMT DEF EditImport, Editable, Edited, ActiveExists, ReadIsOlder, Results, CompiledFrom
<1>7. CASE CreateProfile
  BY <1>7, SMT DEF CreateProfile, ActiveExists, ReadIsOlder, Results, CompiledFrom
<1>8. CASE DeleteProfile
  BY <1>8, SMT DEF DeleteProfile, MayDelete, ActiveExists, ReadIsOlder, Results, CompiledFrom
<1>9. CASE SaveCustomNode
  <2>1. DOMAIN catalog' = Profile /\ catalog' = [p \in Profile |-> catalog'[p]]
    BY <1>9 DEF SaveCustomNode
  <2>2. catalog' \in [Profile -> {Unused, Deleted} \cup Versions]
    <3>1. \A p \in Profile : catalog'[p] \in {Unused, Deleted} \cup Versions
      BY <1>9, NodeRevises
    <3> QED BY <2>1, <3>1
  <2> QED BY <1>9, <2>2 DEF SaveCustomNode, ProfilesTyped, LockFree, schedule
<1>10. CASE SetSourceRecord \/ UndoSource
  BY <1>10, SMT DEF SetSourceRecord, UndoSource, Unlock, MayUndo, ActiveExists, ReadIsOlder,
     Results, CompiledFrom
<1>11. CASE \/ UpdateNetwork
          \/ BeginImport
          \/ SetInterval
          \/ Elapse
          \/ ComputeDelay
          \/ WaitEnds
          \/ ChooseUpdate
          \/ RecordFailedUpdate
  BY <1>11, SMT DEF UpdateNetwork, BeginImport, SetInterval, Elapse, ComputeDelay, WaitEnds,
     ChooseUpdate, RecordFailedUpdate, SchedulerAt, Unscheduled, ActiveExists, ReadIsOlder,
     Results, CompiledFrom
<1>12. CASE UNCHANGED profileVars
  BY <1>12 DEF profileVars, ActiveExists, ReadIsOlder, Results, CompiledFrom
<1> QED BY <1>1, <1>2, <1>3, <1>4, <1>5, <1>6, <1>7, <1>8, <1>9, <1>10, <1>11, <1>12
       DEF ProfilesNext, EditStep, OperationStep, SchedulerStep

LEMMA ReadKept == ProfilesInv /\ [ProfilesNext]_profileVars => ReadIsOlder'
<1> SUFFICES ASSUME ProfilesInv, [ProfilesNext]_profileVars PROVE ReadIsOlder'
  OBVIOUS
<1> USE KnownVersions, HolderShapes DEF ProfilesInv
<1> USE DEF ProfilesTyped, Known, Versions, LockFree, Compilings, Stagings, Settings,
       Quiet, New, Deleted, Unused, builds, schedule
<1>1. CASE PrepareProfile \/ PrepareForRuntime \/ CompileForNetwork \/ ActivateImport
  BY <1>1, SMT DEF PrepareProfile, PrepareForRuntime, CompileForNetwork, ActivateImport,
     Compiling, ReadIsOlder, CompiledFrom, ActiveExists
<1>2. CASE ScheduledUpdate
  BY <1>2, SMT DEF ScheduledUpdate, Compiling, SchedulerAt, ReadIsOlder, CompiledFrom,
     ActiveExists
<1>3. CASE Compile \/ StageBuild \/ RecordCompilation
  BY <1>3, SMT DEF Compile, StageBuild, RecordCompilation, Ends, Unlock, BuildOf, MayRecord,
     SchedulerAt, ReadIsOlder, CompiledFrom, ActiveExists
<1>4. CASE SaveProfile
  BY <1>4, SMT DEF SaveProfile, Editable, Edited, ReadIsOlder, CompiledFrom, ActiveExists
<1>5. CASE SetSource
  BY <1>5, SMT DEF SetSource, Editable, Edited, ReadIsOlder, CompiledFrom, ActiveExists
<1>6. CASE EditImport
  BY <1>6, SMT DEF EditImport, Editable, Edited, ReadIsOlder, CompiledFrom, ActiveExists
<1>7. CASE CreateProfile
  BY <1>7, SMT DEF CreateProfile, ReadIsOlder, CompiledFrom, ActiveExists
<1>8. CASE DeleteProfile
  BY <1>8, SMT DEF DeleteProfile, MayDelete, ReadIsOlder, CompiledFrom, ActiveExists
<1>9. CASE SaveCustomNode
  BY <1>9, SMT DEF SaveCustomNode, ReadIsOlder, LockFree, Quiet
<1>10. CASE SetSourceRecord \/ UndoSource
  BY <1>10, SMT DEF SetSourceRecord, UndoSource, Unlock, MayUndo, ReadIsOlder, CompiledFrom,
     ActiveExists
<1>11. CASE \/ UpdateNetwork
          \/ BeginImport
          \/ SetInterval
          \/ Elapse
          \/ ComputeDelay
          \/ WaitEnds
          \/ ChooseUpdate
          \/ RecordFailedUpdate
  BY <1>11, SMT DEF UpdateNetwork, BeginImport, SetInterval, Elapse, ComputeDelay, WaitEnds,
     ChooseUpdate, RecordFailedUpdate, SchedulerAt, Unscheduled, ReadIsOlder, CompiledFrom,
     ActiveExists
<1>12. CASE UNCHANGED profileVars
  BY <1>12 DEF profileVars, ReadIsOlder, CompiledFrom, ActiveExists
<1> QED BY <1>1, <1>2, <1>3, <1>4, <1>5, <1>6, <1>7, <1>8, <1>9, <1>10, <1>11, <1>12
       DEF ProfilesNext, EditStep, OperationStep, SchedulerStep

LEMMA BuildKept == ProfilesInv /\ [ProfilesNext]_profileVars => BuildIsOlder'
<1> SUFFICES ASSUME ProfilesInv, [ProfilesNext]_profileVars PROVE BuildIsOlder'
  OBVIOUS
<1> USE KnownVersions, HolderShapes DEF ProfilesInv
<1> USE DEF ProfilesTyped, Known, Versions, LockFree, Compilings, Stagings, Settings,
       Quiet, New, Deleted, Unused, builds, schedule
<1>1. CASE PrepareProfile \/ PrepareForRuntime \/ CompileForNetwork \/ ActivateImport
  BY <1>1, SMT DEF PrepareProfile, PrepareForRuntime, CompileForNetwork, ActivateImport,
     Compiling, BuildIsOlder, BuiltFrom, Configured, CompiledFrom, ReadIsOlder
<1>2. CASE ScheduledUpdate
  BY <1>2, SMT DEF ScheduledUpdate, Compiling, SchedulerAt, BuildIsOlder, BuiltFrom, Configured,
     CompiledFrom, ReadIsOlder
<1>3. CASE Compile \/ StageBuild \/ RecordCompilation
  BY <1>3, SMT DEF Compile, StageBuild, RecordCompilation, Ends, Unlock, BuildOf, MayRecord,
     SchedulerAt, BuildIsOlder, BuiltFrom, Configured, CompiledFrom, ReadIsOlder
<1>4. CASE SaveProfile
  BY <1>4, SMT DEF SaveProfile, Editable, Edited, BuildIsOlder, BuiltFrom, Configured,
     CompiledFrom, ReadIsOlder
<1>5. CASE SetSource
  BY <1>5, SMT DEF SetSource, Editable, Edited, BuildIsOlder, BuiltFrom, Configured, CompiledFrom,
     ReadIsOlder
<1>6. CASE EditImport
  BY <1>6, SMT DEF EditImport, Editable, Edited, BuildIsOlder, BuiltFrom, Configured,
     CompiledFrom, ReadIsOlder
<1>7. CASE CreateProfile
  BY <1>7, SMT DEF CreateProfile, BuildIsOlder, BuiltFrom, Configured, CompiledFrom, ReadIsOlder
<1>8. CASE DeleteProfile
  BY <1>8, SMT DEF DeleteProfile, MayDelete, BuildIsOlder, BuiltFrom, Configured, CompiledFrom,
     ReadIsOlder
<1>9. CASE SaveCustomNode
  <2> SUFFICES ASSUME build # NoBuild PROVE BuildIsOlder'
    BY <1>9 DEF BuildIsOlder, SaveCustomNode, builds
  <2> DEFINE p == build.profile
  <2>1. p \in Profile /\ build.revision \in Nat \ {0} /\ catalog[p] # Unused
        /\ (Known(p) => BuiltFrom(p, catalog[p]))
    BY DEF BuildIsOlder
  <2>2. catalog'[p] \in {Unused, Deleted} \cup Versions
        /\ (~Known(p) => catalog'[p] = catalog[p])
        /\ (Known(p) =>
              \/ catalog'[p] = catalog[p] /\ ~catalog[p].node
              \/ catalog'[p] \in Versions /\ catalog'[p].revision = catalog[p].revision + 1)
    BY <1>9, <2>1, NodeRevises
  <2>3. UNCHANGED <<build, configuration, network, holder>> /\ LockFree
    BY <1>9 DEF SaveCustomNode, builds
  <2>4. catalog'[p] # Unused
    BY <2>1, <2>2 DEF Versions, Unused
  <2>5. ASSUME Known(p)' PROVE BuiltFrom(p, catalog[p])'
    BY <2>1, <2>2, <2>3, <2>5 DEF BuiltFrom, Configured, Known, Versions, Unused, Deleted
  <2> QED BY <2>1, <2>3, <2>4, <2>5 DEF BuildIsOlder, LockFree, Quiet
<1>10. CASE SetSourceRecord \/ UndoSource
  BY <1>10, SMT DEF SetSourceRecord, UndoSource, Unlock, MayUndo, BuildIsOlder, BuiltFrom,
     Configured, CompiledFrom, ReadIsOlder
<1>11. CASE \/ UpdateNetwork
          \/ BeginImport
          \/ SetInterval
          \/ Elapse
          \/ ComputeDelay
          \/ WaitEnds
          \/ ChooseUpdate
          \/ RecordFailedUpdate
  BY <1>11, SMT DEF UpdateNetwork, BeginImport, SetInterval, Elapse, ComputeDelay, WaitEnds,
     ChooseUpdate, RecordFailedUpdate, SchedulerAt, Unscheduled, BuildIsOlder, BuiltFrom,
     Configured, CompiledFrom, ReadIsOlder
<1>12. CASE UNCHANGED profileVars
  BY <1>12 DEF profileVars, BuildIsOlder, BuiltFrom, Configured, CompiledFrom, ReadIsOlder
<1> QED BY <1>1, <1>2, <1>3, <1>4, <1>5, <1>6, <1>7, <1>8, <1>9, <1>10, <1>11, <1>12
       DEF ProfilesNext, EditStep, OperationStep, SchedulerStep

LEMMA ActiveKept == ProfilesInv /\ [ProfilesNext]_profileVars => ActiveExists'
<1> SUFFICES ASSUME ProfilesInv, [ProfilesNext]_profileVars PROVE ActiveExists'
  OBVIOUS
<1> USE KnownVersions, HolderShapes DEF ProfilesInv
<1> USE DEF ProfilesTyped, Known, Versions, LockFree, Compilings, Stagings, Settings,
       Quiet, New, Deleted, Unused, builds, schedule
<1>1. CASE PrepareProfile \/ PrepareForRuntime \/ CompileForNetwork \/ ActivateImport
  BY <1>1, SMT DEF PrepareProfile, PrepareForRuntime, CompileForNetwork, ActivateImport,
     Compiling, ActiveExists, ReadIsOlder
<1>2. CASE ScheduledUpdate
  BY <1>2, SMT DEF ScheduledUpdate, Compiling, SchedulerAt, ActiveExists, ReadIsOlder
<1>3. CASE Compile \/ StageBuild \/ RecordCompilation
  BY <1>3, SMT DEF Compile, StageBuild, RecordCompilation, Ends, Unlock, BuildOf, MayRecord,
     SchedulerAt, ActiveExists, ReadIsOlder
<1>4. CASE SaveProfile
  BY <1>4, SMT DEF SaveProfile, Editable, Edited, ActiveExists, ReadIsOlder
<1>5. CASE SetSource
  BY <1>5, SMT DEF SetSource, Editable, Edited, ActiveExists, ReadIsOlder
<1>6. CASE EditImport
  BY <1>6, SMT DEF EditImport, Editable, Edited, ActiveExists, ReadIsOlder
<1>7. CASE CreateProfile
  BY <1>7, SMT DEF CreateProfile, ActiveExists, ReadIsOlder
<1>8. CASE DeleteProfile
  BY <1>8, SMT DEF DeleteProfile, MayDelete, ActiveExists, ReadIsOlder
<1>9. CASE SaveCustomNode
  <2>1. ASSUME activeProfile # "none" PROVE Known(activeProfile)'
    <3>1. activeProfile \in Profile /\ Known(activeProfile)
      BY <2>1 DEF ActiveExists, ProfilesTyped
    <3>2. catalog'[activeProfile] = catalog[activeProfile]
          \/ catalog'[activeProfile] \in Versions
      BY <1>9, <3>1, NodeRevises
    <3> QED BY <1>9, <3>1, <3>2 DEF SaveCustomNode, Known, Versions
  <2> QED BY <1>9, <2>1 DEF SaveCustomNode, ActiveExists
<1>10. CASE SetSourceRecord \/ UndoSource
  BY <1>10, SMT DEF SetSourceRecord, UndoSource, Unlock, MayUndo, ActiveExists, ReadIsOlder
<1>11. CASE \/ UpdateNetwork
          \/ BeginImport
          \/ SetInterval
          \/ Elapse
          \/ ComputeDelay
          \/ WaitEnds
          \/ ChooseUpdate
          \/ RecordFailedUpdate
  BY <1>11, SMT DEF UpdateNetwork, BeginImport, SetInterval, Elapse, ComputeDelay, WaitEnds,
     ChooseUpdate, RecordFailedUpdate, SchedulerAt, Unscheduled, ActiveExists, ReadIsOlder
<1>12. CASE UNCHANGED profileVars
  BY <1>12 DEF profileVars, ActiveExists, ReadIsOlder
<1> QED BY <1>1, <1>2, <1>3, <1>4, <1>5, <1>6, <1>7, <1>8, <1>9, <1>10, <1>11, <1>12
       DEF ProfilesNext, EditStep, OperationStep, SchedulerStep

LEMMA ProfilesInitial == ProfilesInit => ProfilesInv
<1> SUFFICES ASSUME ProfilesInit PROVE ProfilesInv
  OBVIOUS
<1>1. ProfilesTyped
  <2>1. \A p \in Profile : catalog[p] \in {Unused, Deleted} \cup Versions
    <3>1. 1 \in Nat \ {0} /\ {} \in SUBSET (Source \cup {Imported})
      OBVIOUS
    <3>2. New({}) \in Versions
      BY <3>1, Zenon DEF New, Versions
    <3> QED BY <3>2 DEF ProfilesInit
  <2>2. catalog = [p \in Profile |-> catalog[p]] /\ holder = Quiet /\ importer = Quiet
        /\ scheduler.at = "compute"
    BY DEF ProfilesInit, SchedulerAt
  <2>3. catalog \in [Profile -> {Unused, Deleted} \cup Versions]
    BY <2>1, <2>2
  <2> QED BY <2>2, <2>3 DEF ProfilesInit, ProfilesTyped
<1>2. ReadIsOlder /\ BuildIsOlder
  BY DEF ProfilesInit, ReadIsOlder, BuildIsOlder, Quiet
<1>3. ActiveExists
  BY DEF ProfilesInit, ActiveExists
<1> QED BY <1>1, <1>2, <1>3 DEF ProfilesInv

LEMMA ProfilesInvKept == ProfilesInv /\ [ProfilesNext]_profileVars => ProfilesInv'
BY ProfileTypesKept, ReadKept, BuildKept, ActiveKept DEF ProfilesInv

LEMMA ProfilesHold == ProfilesSpec => []ProfilesInv
BY ProfilesInitial, ProfilesInvKept, PTL DEF ProfilesSpec

\* Whatever is edited, compiled, imported, undone or deleted, and however it fails: the document's
\* active profile is one of the catalog, and a build that a start would take for current is what
\* the catalog and the settings compile to (prepare_active_subscription_for_runtime_locked).  For
\* any number of profiles, sources and revisions.
THEOREM FilesOfProfileAlwaysAgree == ProfilesSpec => []FilesOfProfileAgree
<1>1. ProfilesInv => FilesOfProfileAgree
  <2> SUFFICES ASSUME ProfilesInv PROVE BuildCurrent
    BY DEF ProfilesInv, FilesOfProfileAgree
  <2> SUFFICES ASSUME build # NoBuild, Known(build.profile),
                      build = BuildOf(build.profile, catalog[build.profile])
               PROVE  configuration = CompiledFrom(build.profile, catalog[build.profile])
    BY DEF BuildCurrent
  <2>1. BuiltFrom(build.profile, catalog[build.profile])
    BY DEF ProfilesInv, BuildIsOlder
  <2>2. build.revision = catalog[build.profile].revision /\ build.network = network
    BY DEF BuildOf
  <2> QED BY <2>1, <2>2 DEF BuiltFrom, Configured, CompiledFrom
<1> QED BY <1>1, ProfilesHold, PTL

\* Neither the record of a compilation (record_compilation) nor the undoing of a source
\* (set_subscription_source) takes back what an import has added meanwhile.
THEOREM EditsAlwaysKept == ProfilesSpec => EditsKept
<1> DEFINE Keeps == holder.kind \in {"record", "undo"} =>
      \A p \in Profile : Known(p) => catalog[p].sources \ Own \subseteq catalog'[p].sources
<1>1. ProfilesInv /\ [ProfilesNext]_profileVars => [Keeps]_profileVars
  <2> SUFFICES ASSUME ProfilesInv, ProfilesNext, holder.kind \in {"record", "undo"},
                      NEW p \in Profile, Known(p)
               PROVE  catalog[p].sources \ Own \subseteq catalog'[p].sources
    OBVIOUS
  <2> USE KnownVersions, HolderShapes DEF ProfilesInv
  <2>1. ~LockFree /\ holder.kind \in {"record", "undo"}
    BY DEF LockFree, Quiet
  <2>2. CASE RecordCompilation
    <3>1. CASE MayRecord
      <4>1. holder \in Stagings /\ catalog[holder.profile] = holder.read
        BY <2>1, <2>2, <3>1 DEF RecordCompilation, MayRecord, ReadIsOlder, Stagings, Versions
      <4> QED BY <2>2, <3>1, <4>1 DEF RecordCompilation, Stagings, ProfilesTyped, Versions, Known
    <3>2. CASE ~MayRecord
      BY <2>2, <3>2 DEF RecordCompilation
    <3> QED BY <3>1, <3>2
  <2>3. CASE UndoSource
    BY <2>1, <2>3, SMT DEF UndoSource, MayUndo, ReadIsOlder, Settings, Own, ProfilesTyped,
         Versions
  <2>4. CASE EditImport
    BY <2>4, SMT DEF EditImport, Edited, ProfilesTyped, Versions, Known
  <2>5. CASE UNCHANGED catalog
    BY <2>5
  <2> QED BY <2>1, <2>2, <2>3, <2>4, <2>5 DEF ProfilesNext, EditStep, OperationStep, SchedulerStep,
       Compile, StageBuild, SetSourceRecord, CompileForNetwork, ComputeDelay, WaitEnds,
       ChooseUpdate, ScheduledUpdate, RecordFailedUpdate, PrepareProfile, PrepareForRuntime,
       SaveProfile, CreateProfile, DeleteProfile, MayDelete, SaveCustomNode, SetSource,
       UpdateNetwork, BeginImport, ActivateImport, SetInterval, Elapse
<1> QED BY <1>1, ProfilesHold, PTL DEF ProfilesSpec, EditsKept

(***************************************************************************)
(* What an observation reports.                                            *)
(***************************************************************************)
Outcomes == Unsettled \cup {"none", "stopped", "passed", "failed"}
Records == [socket : Socket \cup Probe, route : Chain \cup {Unrouted}]
ProbeEvents ==
  [kind : {"registered"}, probe : Probe] \cup [kind : {"record"}, probe : Probe, record : Records]
    \cup [kind : {"result"}, probe : Probe, outcome : {"passed", "failed"}]
Slots == [id : Nat \ {0}, ready : BOOLEAN, used : BOOLEAN, late : BOOLEAN]
Reports ==
  [ready : BOOLEAN, status : {"idle", "running", "stopped", "completed"}, completed : BOOLEAN,
   results : [Probe -> Outcomes]]

\* Observations are unbounded: MaxObservations limits the runs.
ObservationTyped ==
  /\ count \in Nat
  /\ slot \in {NoSlot} \cup Slots
  /\ commands \in Seq({"start", "stop"})
  /\ report \in Reports
  /\ worker \in [Probe -> {"none", "handshake", "waiting", "traffic", "connected"}]
  /\ session \in [processes : SUBSET Probe, pending : SUBSET Probe]
  /\ events \in Seq(ProbeEvents)

\* What is registered runs, and is given up before the permit is.
Registered ==
  /\ stage \in {"none", "free"} => slot = NoSlot
  /\ stage = "none" => permit = Nobody
  /\ stage # "none" => permit = count /\ count # Nobody
  /\ slot # NoSlot => slot.id = permit

\* Before and after its run an observation has no workers, and nothing of a probe is shown
\* once the run is over.
Ended == stage \in {"none", "ended", "free"}
OutsideRun ==
  /\ Ended => worker = NoWorkers /\ session = NoSession /\ events = <<>>
  /\ report.completed => Ended

\* A start that was accepted is on its way, to an observation that can take it.
Started == \E i \in 1 .. Len(commands) : commands[i] = "start"
StartsAhead ==
  slot # NoSlot /\ ~Ended =>
    /\ slot.used => slot.ready
    /\ slot.ready => report.ready
    /\ slot.used => report.status # "idle" \/ Started

\* Nothing that was stopped or completed goes on.
SettledOnce ==
  report.status = "stopped" \/ report.completed =>
    \A p \in Probe : report.results[p] \notin Unsettled
StoppedQuiet == report.status = "stopped" => session = NoSession

\* A probe that sends has been listed.
SeenBefore ==
  /\ listed \subseteq seen
  /\ \A p \in Probe : worker[p] \in {"traffic", "connected"} => p \in seen

\* Before a start there is nothing of a probe.
IdleQuiet ==
  report.status = "idle" =>
    /\ worker = NoWorkers /\ session = NoSession /\ events = <<>>
    /\ \A p \in Probe : report.results[p] = "none"

\* What is on its way about a probe.
About(e, k, p) == e.kind = k /\ e.probe = p
Sent(k, p) == \E i \in 1 .. Len(events) : About(events[i], k, p)
SentOnce(k, p) ==
  \A i, j \in 1 .. Len(events) : About(events[i], k, p) /\ About(events[j], k, p) => i = j
Passes(e, p) == About(e, "result", p) /\ e.outcome = "passed"
Passing(p) == \E i \in 1 .. Len(events) : Passes(events[i], p)

\* A probe registers once, and does not wait to be listed once it sends or has passed.
Beyond(p) ==
  worker[p] \in {"traffic", "connected"} \/ report.results[p] = "passed" \/ Passing(p)
Announced ==
  \A p \in Probe :
    /\ worker[p] = "handshake" \/ p \in session.pending \/ Beyond(p) => ~Sent("registered", p)
    /\ worker[p] = "handshake" \/ Beyond(p) => p \notin session.pending
    /\ SentOnce("registered", p)

\* It says once how it ended, and nothing after that.
Concluded ==
  \A p \in Probe :
    /\ worker[p] # "none" \/ report.results[p] \in {"passed", "failed"} => ~Sent("result", p)
    /\ worker[p] # "none" => report.results[p] \notin {"passed", "failed"}
    /\ SentOnce("result", p)

ObservationInv ==
  /\ ObservationTyped /\ Registered /\ OutsideRun /\ StartsAhead
  /\ SettledOnce /\ StoppedQuiet /\ SeenBefore /\ IdleQuiet /\ Announced /\ Concluded

LEMMA HaltedReport ==
  ASSUME NEW r \in Reports
  PROVE  /\ Halted(r) \in Reports
         /\ Halted(r).ready = r.ready /\ Halted(r).completed = r.completed
         /\ Halted(r).status = IF r.status = "running" THEN "stopped" ELSE r.status
         /\ \A p \in Probe : Halted(r).results[p] \notin Unsettled
         /\ (\A p \in Probe : r.results[p] \notin Unsettled) => Halted(r).results = r.results
<1>1. r.results \in [Probe -> Outcomes]
  BY DEF Reports
<1>2. StopResults(r.results) \in [Probe -> Outcomes]
  BY <1>1 DEF StopResults, Outcomes, Unsettled
<1>3. \A p \in Probe : StopResults(r.results)[p] \notin Unsettled
  BY <1>1 DEF StopResults, Unsettled
<1>4. (\A p \in Probe : r.results[p] \notin Unsettled) => StopResults(r.results) = r.results
  BY <1>1 DEF StopResults
<1>5. /\ Halted(r).results = StopResults(r.results)
      /\ Halted(r).status = IF r.status = "running" THEN "stopped" ELSE r.status
      /\ Halted(r).ready = r.ready /\ Halted(r).completed = r.completed
  BY DEF Halted, Reports
<1>6. Halted(r) \in Reports
  BY <1>2 DEF Halted, Reports
<1> QED BY <1>2, <1>3, <1>4, <1>5, <1>6

\* Taking a command shortens the queue, and the only start it can lose is its first command.
LEMMA CommandTaken ==
  ASSUME NEW queue \in Seq({"start", "stop"}), queue # <<>>
  PROVE  /\ Tail(queue) \in Seq({"start", "stop"}) /\ Head(queue) \in {"start", "stop"}
         /\ (\E i \in 1 .. Len(queue) : queue[i] = "start") =>
              \/ Head(queue) = "start"
              \/ \E i \in 1 .. Len(Tail(queue)) : Tail(queue)[i] = "start"
<1>1. Tail(queue) \in Seq({"start", "stop"}) /\ Head(queue) \in {"start", "stop"}
      /\ Len(Tail(queue)) = Len(queue) - 1 /\ Len(queue) \in Nat /\ Head(queue) = queue[1]
  OBVIOUS
<1>2. ASSUME NEW i \in 1 .. Len(queue), queue[i] = "start", Head(queue) # "start"
      PROVE  \E j \in 1 .. Len(Tail(queue)) : Tail(queue)[j] = "start"
  <2>1. i # 1 /\ i - 1 \in 1 .. Len(Tail(queue))
    BY <1>1, <1>2
  <2>2. Tail(queue)[i - 1] = queue[i]
    BY <1>1, <2>1
  <2> QED BY <1>2, <2>1, <2>2
<1> QED BY <1>1, <1>2

LEMMA CommandGiven ==
  ASSUME NEW queue \in Seq({"start", "stop"}), NEW x \in {"start", "stop"}
  PROVE  /\ Append(queue, x) \in Seq({"start", "stop"})
         /\ x = "start" \/ (\E i \in 1 .. Len(queue) : queue[i] = "start") =>
              \E i \in 1 .. Len(Append(queue, x)) : Append(queue, x)[i] = "start"
<1>1. Append(queue, x) \in Seq({"start", "stop"}) /\ Len(queue) \in Nat
      /\ Len(Append(queue, x)) = Len(queue) + 1 /\ Append(queue, x)[Len(queue) + 1] = x
      /\ \A i \in 1 .. Len(queue) : Append(queue, x)[i] = queue[i]
  OBVIOUS
<1> QED BY <1>1

LEMMA ObservationTypesKept ==
  ASSUME ObservationInv, [ObservationNext]_observationVars
  PROVE  ObservationTyped'
<1> USE DEF ObservationInv, Ended, NoSlot, Slots, Reports, Nobody, Blank, NoSession, NoWorkers,
        Outcomes, ProbeEvents, probeVars, sampleVars
<1>1. CASE BeginObservation
  BY <1>1 DEF BeginObservation, ObservationTyped, Unsettled, Capacity
<1>2. CASE HangUp
  BY <1>2 DEF HangUp, ObservationTyped, Unsettled, Capacity, Dropped
<1>3. CASE DropGuard
  BY <1>3 DEF DropGuard, ObservationTyped, Unsettled, Capacity, Unregister
<1>4. CASE DropPermit
  BY <1>4 DEF DropPermit, ObservationTyped, Unsettled, Capacity
<1>5. CASE Dispatch
  <2>1. commands' \in Seq({"start", "stop"})
    BY <1>5, CommandGiven DEF Dispatch, ObservationTyped
  <2>2. slot \in Slots /\ slot' \in {slot, [slot EXCEPT !.used = TRUE]}
    BY <1>5 DEF Dispatch, ObservationTyped
  <2>3. slot' \in Slots
    BY <2>2
  <2> QED BY <1>5, <2>1, <2>3 DEF Dispatch, ObservationTyped
<1>6. CASE GrowsLate
  BY <1>6 DEF GrowsLate, ObservationTyped, Unsettled, Capacity
<1>7. CASE TakeCommand
  <2>1. commands' \in Seq({"start", "stop"})
    BY <1>7, CommandTaken DEF TakeCommand, ObservationTyped
  <2>2. report' \in {report, Halted(report),
                     [report EXCEPT !.status = "running", !.results = [p \in Probe |-> "pending"]]}
    BY <1>7 DEF TakeCommand, StopProbes
  <2>3. [p \in Probe |-> "pending"] \in [Probe -> Outcomes]
    BY DEF Unsettled
  <2>4. [report EXCEPT !.status = "running", !.results = [p \in Probe |-> "pending"]] \in Reports
    BY <2>3 DEF ObservationTyped
  <2>5. report' \in Reports
    <3>1. report \in Reports
      BY DEF ObservationTyped
    <3> HIDE DEF Reports
    <3>2. Halted(report) \in Reports
      BY <3>1, HaltedReport
    <3> QED BY <2>2, <2>4, <3>1, <3>2
  <2>6. worker' \in {worker, NoWorkers, [p \in Probe |-> "handshake"]}
        /\ session' \in {session, NoSession}
    BY <1>7 DEF TakeCommand, StopProbes
  <2> QED BY <1>7, <2>1, <2>5, <2>6 DEF TakeCommand, ObservationTyped
<1>8. CASE TakeEvent
  <2> DEFINE e == Head(events)
  <2>1. e \in ProbeEvents /\ events' \in Seq(ProbeEvents)
    BY <1>8 DEF TakeEvent, ObservationTyped
  <2> HIDE DEF e
  <2>2. session' \in {session} \cup {[processes |-> session.processes \cup {e.probe},
                                     pending |-> session.pending \cup {e.probe}]}
        /\ (session' # session => e.kind = "registered")
    BY <1>8 DEF TakeEvent, e
  <2>3. session' \in [processes : SUBSET Probe, pending : SUBSET Probe]
    BY <2>1, <2>2 DEF ObservationTyped
  <2>4. report' = report \/ (e.kind = "result" /\ report' = Settles(e.probe, e.outcome))
    BY <1>8 DEF TakeEvent, e
  <2>5. ASSUME NEW p \in Probe, NEW o \in {"passed", "failed"} PROVE Settles(p, o) \in Reports
    <3> DEFINE results == [report.results EXCEPT ![p] = o]
    <3>1. results \in [Probe -> Outcomes]
      BY DEF ObservationTyped
    <3> HIDE DEF results
    <3>2. Settles(p, o) =
            [report EXCEPT !.results = results,
               !.status = IF \A q \in Probe : results[q] \notin Unsettled
                          THEN "completed" ELSE @]
      BY DEF Settles, results
    <3> QED BY <3>1, <3>2 DEF ObservationTyped
  <2>6. report' \in Reports
    BY <2>1, <2>4, <2>5 DEF ObservationTyped
  <2> QED BY <1>8, <2>1, <2>3, <2>6 DEF TakeEvent, ObservationTyped
<1>9. CASE BeginSample
  BY <1>9 DEF BeginSample, ObservationTyped, Unsettled, Capacity
<1>10. CASE ListProcesses
  BY <1>10 DEF ListProcesses, ObservationTyped, Unsettled, Capacity
<1>11. CASE EndSample
  BY <1>11 DEF EndSample, ObservationTyped, Unsettled, Capacity, Sampled, Shown
<1>12. CASE Rest
  BY <1>12 DEF Rest, ObservationTyped, Unsettled, Capacity
<1>13. CASE Complete
  <2>1. report' = [Halted(report) EXCEPT !.ready = FALSE, !.completed = TRUE]
    BY <1>13 DEF Complete, Finished
  <2>2. report' \in Reports
    BY <2>1, HaltedReport DEF ObservationTyped
  <2> QED BY <1>13, <2>2 DEF Complete, Dropped, ObservationTyped
<1>14. CASE WorkerStep
  <2>1. PICK p \in Probe :
          Announce(p) \/ ReportConnection(p) \/ WorkerFails(p) \/ WorkerPasses(p)
    BY <1>14 DEF WorkerStep
  <2>2. worker' \in [Probe -> {"none", "handshake", "waiting", "traffic", "connected"}]
    BY <2>1 DEF Announce, ReportConnection, WorkerFails, WorkerPasses, Concludes, ObservationTyped
  <2>3. \E e \in ProbeEvents : events' = Append(events, e)
    <3>1. CASE Announce(p)
      BY <3>1 DEF Announce, Send
    <3>2. CASE ReportConnection(p)
      <4>1. PICK r \in Chain \cup {Unrouted} :
              Send([kind |-> "record", probe |-> p, record |-> [socket |-> p, route |-> r]])
        BY <3>2 DEF ReportConnection
      <4>2. [socket |-> p, route |-> r] \in Records
        BY DEF Records
      <4> QED BY <4>1, <4>2 DEF Send
    <3>3. CASE WorkerFails(p) \/ WorkerPasses(p)
      BY <3>3 DEF WorkerFails, WorkerPasses, Concludes, Send
    <3> QED BY <2>1, <3>1, <3>2, <3>3
  <2>4. events' \in Seq(ProbeEvents)
    BY <2>3 DEF ObservationTyped
  <2> QED BY <1>14, <2>2, <2>4 DEF WorkerStep, ObservationTyped
<1>15. CASE UNCHANGED observationVars
  BY <1>15 DEF observationVars, ObservationTyped, Unsettled, Capacity
<1> QED BY <1>1, <1>2, <1>3, <1>4, <1>5, <1>6, <1>7, <1>8, <1>9, <1>10, <1>11, <1>12, <1>13,
       <1>14, <1>15 DEF ObservationNext

LEMMA RegisteredKept ==
  ASSUME ObservationInv, [ObservationNext]_observationVars
  PROVE  Registered'
<1> USE DEF ObservationInv, Ended, NoSlot, Slots, Reports, Nobody, Blank, NoSession, NoWorkers,
        Outcomes, ProbeEvents, probeVars, sampleVars
<1>1. CASE BeginObservation \/ HangUp \/ DropGuard \/ DropPermit
  BY <1>1 DEF BeginObservation, HangUp, DropGuard, DropPermit, Registered, ObservationTyped,
     Dropped, Unregister
<1>2. CASE Dispatch \/ GrowsLate
  BY <1>2 DEF Dispatch, GrowsLate, Registered, ObservationTyped, MayStart
<1>3. CASE TakeCommand
  BY <1>3 DEF TakeCommand, Registered, ObservationTyped, Driving, StopProbes, Halted, StopResults
<1>4. CASE TakeEvent
  BY <1>4 DEF TakeEvent, Registered, ObservationTyped, Driving, Applies, Settles
<1>5. CASE BeginSample \/ ListProcesses \/ EndSample \/ Rest
  BY <1>5 DEF BeginSample, ListProcesses, EndSample, Rest, Registered, ObservationTyped, Sampled,
     Shown
<1>6. CASE Complete
  BY <1>6 DEF Complete, Registered, ObservationTyped, Dropped, Finished, Halted, StopResults
<1>7. CASE WorkerStep
  BY <1>7 DEF WorkerStep, Registered, ObservationTyped, Announce, ReportConnection, WorkerFails,
     WorkerPasses, Concludes, Send
<1>8. CASE UNCHANGED observationVars
  BY <1>8 DEF observationVars, Registered, ObservationTyped
<1> QED BY <1>1, <1>2, <1>3, <1>4, <1>5, <1>6, <1>7, <1>8 DEF ObservationNext

LEMMA OutsideKept ==
  ASSUME ObservationInv, [ObservationNext]_observationVars
  PROVE  OutsideRun'
<1> USE DEF ObservationInv, Ended, NoSlot, Slots, Reports, Nobody, Blank, NoSession, NoWorkers,
        Outcomes, ProbeEvents, probeVars, sampleVars
<1>1. CASE BeginObservation \/ HangUp \/ DropGuard \/ DropPermit
  BY <1>1 DEF BeginObservation, HangUp, DropGuard, DropPermit, OutsideRun, ObservationTyped,
     Registered, Dropped, Unregister
<1>2. CASE Dispatch \/ GrowsLate
  BY <1>2 DEF Dispatch, GrowsLate, OutsideRun, ObservationTyped, Registered, MayStart
<1>3. CASE TakeCommand
  BY <1>3 DEF TakeCommand, OutsideRun, ObservationTyped, Registered, Driving, StopProbes, Halted,
     StopResults
<1>4. CASE TakeEvent
  BY <1>4 DEF TakeEvent, OutsideRun, ObservationTyped, Registered, Driving, Applies, Settles
<1>5. CASE BeginSample \/ ListProcesses \/ EndSample \/ Rest
  BY <1>5 DEF BeginSample, ListProcesses, EndSample, Rest, OutsideRun, ObservationTyped,
     Registered, Sampled, Shown
<1>6. CASE Complete
  BY <1>6 DEF Complete, OutsideRun, ObservationTyped, Registered, Dropped, Finished, Halted,
     StopResults
<1>7. CASE WorkerStep
  BY <1>7 DEF WorkerStep, OutsideRun, ObservationTyped, Registered, Announce, ReportConnection,
     WorkerFails, WorkerPasses, Concludes, Send
<1>8. CASE UNCHANGED observationVars
  BY <1>8 DEF observationVars, OutsideRun, ObservationTyped, Registered
<1> QED BY <1>1, <1>2, <1>3, <1>4, <1>5, <1>6, <1>7, <1>8 DEF ObservationNext

LEMMA StartsKept ==
  ASSUME ObservationInv, [ObservationNext]_observationVars
  PROVE  StartsAhead'
<1> USE DEF ObservationInv, Ended, NoSlot, Slots, Reports, Nobody, Blank, NoSession, NoWorkers,
        Outcomes, ProbeEvents, probeVars, sampleVars
<1>1. CASE BeginObservation \/ HangUp \/ DropGuard \/ DropPermit
  BY <1>1 DEF BeginObservation, HangUp, DropGuard, DropPermit, StartsAhead, ObservationTyped,
     Registered, Started, Dropped, Unregister
<1>2. CASE Dispatch
  <2>1. slot \in Slots /\ commands \in Seq({"start", "stop"})
    BY <1>2 DEF Dispatch, ObservationTyped
  <2>2. CASE commands' = Append(commands, "start") /\ MayStart
             /\ slot' = [slot EXCEPT !.used = TRUE]
    <3>1. Started'
      BY <2>1, <2>2, CommandGiven DEF Started
    <3>2. slot'.ready = slot.ready /\ slot.ready
      BY <2>1, <2>2 DEF MayStart
    <3> QED BY <1>2, <2>1, <3>1, <3>2 DEF Dispatch, StartsAhead
  <2>3. CASE commands' = Append(commands, "stop") /\ UNCHANGED slot
    <3>1. Started => Started'
      BY <2>1, <2>3, CommandGiven DEF Started
    <3> QED BY <1>2, <2>1, <2>3, <3>1 DEF Dispatch, StartsAhead
  <2> QED BY <1>2, <2>2, <2>3 DEF Dispatch
<1>3. CASE GrowsLate
  BY <1>3 DEF GrowsLate, StartsAhead, ObservationTyped, Registered, Started
<1>4. CASE TakeCommand
  <2> SUFFICES ASSUME slot # NoSlot PROVE StartsAhead'
    BY <1>4 DEF TakeCommand, StartsAhead
  <2>1. /\ slot.used => slot.ready
        /\ slot.ready => report.ready
        /\ slot.used => report.status # "idle" \/ Started
    BY <1>4 DEF TakeCommand, Driving, StartsAhead
  <2>2. Started => Head(commands) = "start" \/ Started'
    BY <1>4, CommandTaken DEF TakeCommand, ObservationTyped, Started
  <2>3. report \in Reports
    BY DEF ObservationTyped
  <2>4. UNCHANGED slot
    BY <1>4 DEF TakeCommand
  <2>5. CASE Head(commands) = "stop" /\ StopProbes
    <3>1. report'.ready = report.ready
          /\ (report'.status = "idle" => report.status = "idle")
      BY <2>3, <2>5, HaltedReport DEF StopProbes
    <3>2. Started => Started'
      BY <2>2, <2>5
    <3>9. slot \in Slots /\ report.ready \in BOOLEAN /\ UNCHANGED slot
      BY <2>3, <2>4 DEF ObservationTyped
    <3> HIDE DEF ObservationInv, NoSlot, Ended, Reports
    <3> QED BY <2>1, <2>4, <3>1, <3>2, <3>9, SMT DEF StartsAhead
  <2>6. CASE report' = [report EXCEPT !.status = "running",
                                      !.results = [p \in Probe |-> "pending"]]
    <3>1. report'.ready = report.ready /\ report'.status # "idle"
      BY <2>3, <2>6
    <3>9. slot \in Slots /\ report.ready \in BOOLEAN /\ UNCHANGED slot
      BY <2>3, <2>4 DEF ObservationTyped
    <3> HIDE DEF ObservationInv, NoSlot, Ended, Reports
    <3> QED BY <2>1, <2>4, <3>1, <3>9, SMT DEF StartsAhead
  <2>7. CASE ~(report.status = "idle" /\ report.ready) /\ UNCHANGED report
    <3>1. slot.used => report.status # "idle" \/ Started'
      BY <2>1, <2>7, Zenon
    <3>9. slot \in Slots /\ report.ready \in BOOLEAN /\ UNCHANGED slot
      BY <2>3, <2>4 DEF ObservationTyped
    <3> HIDE DEF ObservationInv, NoSlot, Ended, Reports
    <3> QED BY <2>1, <2>4, <2>7, <3>1, <3>9, SMT DEF StartsAhead
  <2> QED BY <1>4, <2>5, <2>6, <2>7 DEF TakeCommand
<1>5. CASE TakeEvent
  BY <1>5 DEF TakeEvent, StartsAhead, ObservationTyped, Registered, Started, Driving, Applies,
     Settles
<1>6. CASE BeginSample
  BY <1>6 DEF BeginSample, StartsAhead, ObservationTyped, Registered, Started
<1>7. CASE ListProcesses
  BY <1>7 DEF ListProcesses, StartsAhead, ObservationTyped, Registered, Started
<1>8. CASE EndSample
  BY <1>8 DEF EndSample, StartsAhead, ObservationTyped, Registered, Started, Sampled, Shown
<1>9. CASE Rest
  BY <1>9 DEF Rest, StartsAhead, ObservationTyped, Registered, Started
<1>10. CASE Complete
  BY <1>10 DEF Complete, StartsAhead, ObservationTyped, Registered, Started, Dropped, Finished,
     Halted, StopResults
<1>11. CASE WorkerStep
  BY <1>11 DEF WorkerStep, StartsAhead, ObservationTyped, Registered, Started, Announce,
     ReportConnection, WorkerFails, WorkerPasses, Concludes, Send
<1>12. CASE UNCHANGED observationVars
  BY <1>12 DEF observationVars, StartsAhead, ObservationTyped, Registered, Started
<1> QED BY <1>1, <1>2, <1>3, <1>4, <1>5, <1>6, <1>7, <1>8, <1>9, <1>10, <1>11, <1>12
   DEF ObservationNext

LEMMA SettledKept ==
  ASSUME ObservationInv, [ObservationNext]_observationVars
  PROVE  SettledOnce'
<1> USE DEF ObservationInv, Ended, NoSlot, Slots, Reports, Nobody, Blank, NoSession, NoWorkers,
        Outcomes, ProbeEvents, probeVars, sampleVars
<1>1. CASE BeginObservation \/ HangUp \/ DropGuard \/ DropPermit
  BY <1>1 DEF BeginObservation, HangUp, DropGuard, DropPermit, SettledOnce, OutsideRun,
     StoppedQuiet, Unsettled, ObservationTyped, Dropped, Unregister
<1>2. CASE Dispatch \/ GrowsLate
  BY <1>2 DEF Dispatch, GrowsLate, SettledOnce, OutsideRun, StoppedQuiet, Unsettled,
     ObservationTyped, MayStart
<1>3. CASE TakeCommand
  <2>1. report \in Reports /\ ~report.completed
    BY <1>3 DEF TakeCommand, Driving, ObservationTyped, OutsideRun
  <2>2. CASE StopProbes
    BY <2>1, <2>2, HaltedReport DEF StopProbes, SettledOnce
  <2>3. CASE report' = [report EXCEPT !.status = "running",
                                      !.results = [p \in Probe |-> "pending"]]
    BY <2>1, <2>3 DEF SettledOnce
  <2>4. CASE UNCHANGED report
    BY <2>4 DEF SettledOnce
  <2> QED BY <1>3, <2>2, <2>3, <2>4 DEF TakeCommand
<1>4. CASE TakeEvent
  BY <1>4 DEF TakeEvent, SettledOnce, OutsideRun, StoppedQuiet, Unsettled, ObservationTyped,
     Driving, Applies, Settles
<1>5. CASE BeginSample
  BY <1>5 DEF BeginSample, SettledOnce, OutsideRun, StoppedQuiet, Unsettled, ObservationTyped
<1>6. CASE ListProcesses
  BY <1>6 DEF ListProcesses, SettledOnce, OutsideRun, StoppedQuiet, Unsettled, ObservationTyped
<1>7. CASE EndSample
  BY <1>7 DEF EndSample, SettledOnce, OutsideRun, StoppedQuiet, Unsettled, ObservationTyped,
     Sampled, Shown
<1>8. CASE Rest
  BY <1>8 DEF Rest, SettledOnce, OutsideRun, StoppedQuiet, Unsettled, ObservationTyped
<1>9. CASE Complete
  BY <1>9 DEF Complete, SettledOnce, OutsideRun, StoppedQuiet, Unsettled, ObservationTyped,
     Dropped, Finished, Halted, StopResults
<1>10. CASE WorkerStep
  BY <1>10 DEF WorkerStep, SettledOnce, OutsideRun, StoppedQuiet, Unsettled, ObservationTyped,
     Announce, ReportConnection, WorkerFails, WorkerPasses, Concludes, Send
<1>11. CASE UNCHANGED observationVars
  BY <1>11 DEF observationVars, SettledOnce, OutsideRun, StoppedQuiet, Unsettled
<1> QED BY <1>1, <1>2, <1>3, <1>4, <1>5, <1>6, <1>7, <1>8, <1>9, <1>10, <1>11 DEF ObservationNext

LEMMA StoppedKept ==
  ASSUME ObservationInv, [ObservationNext]_observationVars
  PROVE  StoppedQuiet'
<1> USE DEF ObservationInv, Ended, NoSlot, Slots, Reports, Nobody, Blank, NoSession, NoWorkers,
        Outcomes, ProbeEvents, probeVars, sampleVars
<1>1. CASE BeginObservation \/ HangUp \/ DropGuard \/ DropPermit
  BY <1>1 DEF BeginObservation, HangUp, DropGuard, DropPermit, StoppedQuiet, OutsideRun,
     ObservationTyped, Dropped, Unregister
<1>2. CASE Dispatch \/ GrowsLate
  BY <1>2 DEF Dispatch, GrowsLate, StoppedQuiet, OutsideRun, ObservationTyped, MayStart
<1>3. CASE TakeCommand
  <2>1. CASE StopProbes
    BY <2>1 DEF StopProbes, StoppedQuiet
  <2>2. CASE report' = [report EXCEPT !.status = "running",
                                      !.results = [p \in Probe |-> "pending"]]
    BY <2>2 DEF StoppedQuiet, ObservationTyped
  <2>3. CASE UNCHANGED <<report, session>>
    BY <2>3 DEF StoppedQuiet
  <2> QED BY <1>3, <2>1, <2>2, <2>3 DEF TakeCommand
<1>4. CASE TakeEvent
  BY <1>4 DEF TakeEvent, StoppedQuiet, OutsideRun, ObservationTyped, Driving, Applies, Settles
<1>5. CASE EndSample
  <2> SUFFICES ASSUME report'.status = "stopped" PROVE session' = NoSession
    BY DEF StoppedQuiet
  <2>1. report' = Sampled(report, Shown) /\ session' = [session EXCEPT !.pending = @ \ Shown]
    BY <1>5 DEF EndSample
  <2>2. report.status = "stopped"
    BY <2>1 DEF Sampled, ObservationTyped
  <2>3. session = NoSession
    BY <2>2 DEF StoppedQuiet
  <2> QED BY <2>1, <2>3
<1>6. CASE BeginSample \/ ListProcesses \/ Rest
  BY <1>6 DEF BeginSample, ListProcesses, Rest, StoppedQuiet, OutsideRun, ObservationTyped
<1>7. CASE Complete
  BY <1>7 DEF Complete, StoppedQuiet, OutsideRun, ObservationTyped, Dropped, Finished, Halted,
     StopResults
<1>8. CASE WorkerStep
  BY <1>8 DEF WorkerStep, StoppedQuiet, OutsideRun, ObservationTyped, Announce, ReportConnection,
     WorkerFails, WorkerPasses, Concludes, Send
<1>9. CASE UNCHANGED observationVars
  BY <1>9 DEF observationVars, StoppedQuiet, OutsideRun
<1> QED BY <1>1, <1>2, <1>3, <1>4, <1>5, <1>6, <1>7, <1>8, <1>9 DEF ObservationNext

LEMMA SeenKept ==
  ASSUME ObservationInv, [ObservationNext]_observationVars
  PROVE  SeenBefore'
<1> USE DEF ObservationInv, Ended, NoSlot, Slots, Reports, Nobody, Blank, NoSession, NoWorkers,
        Outcomes, ProbeEvents, probeVars, sampleVars
<1>1. CASE BeginObservation
  <2>1. Ended
    BY <1>1 DEF BeginObservation, Registered
  <2> QED BY <1>1, <2>1 DEF BeginObservation, SeenBefore, OutsideRun
<1>2. CASE HangUp \/ DropGuard \/ DropPermit
  BY <1>2 DEF HangUp, DropGuard, DropPermit, SeenBefore, OutsideRun, ObservationTyped, Dropped,
     Unregister
<1>3. CASE Dispatch \/ GrowsLate
  BY <1>3 DEF Dispatch, GrowsLate, SeenBefore, OutsideRun, ObservationTyped, MayStart
<1>4. CASE TakeCommand
  BY <1>4 DEF TakeCommand, SeenBefore, OutsideRun, ObservationTyped, Driving, StopProbes, Halted,
     StopResults
<1>5. CASE TakeEvent
  BY <1>5 DEF TakeEvent, SeenBefore, OutsideRun, ObservationTyped, Driving, Applies, Settles
<1>6. CASE BeginSample \/ ListProcesses \/ EndSample \/ Rest
  BY <1>6 DEF BeginSample, ListProcesses, EndSample, Rest, SeenBefore, OutsideRun,
     ObservationTyped, Sampled, Shown
<1>7. CASE Complete
  BY <1>7 DEF Complete, SeenBefore, OutsideRun, ObservationTyped, Dropped, Finished, Halted,
     StopResults
<1>8. CASE WorkerStep
  BY <1>8 DEF WorkerStep, SeenBefore, OutsideRun, ObservationTyped, Announce, ReportConnection,
     WorkerFails, WorkerPasses, Concludes, Send
<1>9. CASE UNCHANGED observationVars
  BY <1>9 DEF observationVars, SeenBefore, OutsideRun
<1> QED BY <1>1, <1>2, <1>3, <1>4, <1>5, <1>6, <1>7, <1>8, <1>9 DEF ObservationNext

LEMMA IdleKept ==
  ASSUME ObservationInv, [ObservationNext]_observationVars
  PROVE  IdleQuiet'
<1> USE DEF ObservationInv, IdleQuiet
<1>1. report \in Reports /\ report.results \in [Probe -> Outcomes]
  BY DEF ObservationTyped, Reports
<1>2. Halted(report).status = "idle" =>
        report.status = "idle" /\ Halted(report).results = report.results
  BY <1>1, HaltedReport DEF Unsettled
<1>3. CASE BeginObservation
  <2>1. Ended
    BY <1>3 DEF BeginObservation, Registered, Ended, ObservationTyped, Nobody
  <2> QED BY <1>3, <2>1 DEF BeginObservation, OutsideRun, probeVars, Blank
<1>4. CASE HangUp
  BY <1>4 DEF HangUp, Dropped
<1>5. CASE Complete
  <2>1. report'.status = Halted(report).status /\ report'.results = Halted(report).results
    BY <1>1, <1>5, HaltedReport DEF Complete, Finished, Reports
  <2> QED BY <1>2, <1>5, <2>1 DEF Complete, Dropped
<1>6. CASE TakeCommand
  <2>1. CASE StopProbes
    BY <1>2, <1>6, <2>1 DEF StopProbes, TakeCommand
  <2>2. CASE report' = [report EXCEPT !.status = "running",
                                      !.results = [p \in Probe |-> "pending"]]
    BY <1>1, <2>2 DEF Reports
  <2>3. CASE UNCHANGED <<worker, session, report>>
    BY <1>6, <2>3 DEF TakeCommand
  <2> QED BY <1>6, <2>1, <2>2, <2>3 DEF TakeCommand
<1>7. CASE TakeEvent
  <2>1. report.status # "idle"
    BY <1>7 DEF TakeEvent
  <2>2. report'.status \in {report.status, "completed"}
    BY <1>1, <1>7 DEF TakeEvent, Settles, Reports
  <2> QED BY <2>1, <2>2
<1>8. CASE EndSample
  <2>1. report'.status = report.status
    BY <1>1, <1>8 DEF EndSample, Sampled, Reports
  <2>2. ASSUME report.status = "idle"
        PROVE  worker' = NoWorkers /\ session' = NoSession
               /\ \A p \in Probe : report'.results[p] = "none"
    <3>1. Shown = {}
      BY <2>2 DEF Shown, NoSession
    <3>2. worker' = [p \in Probe |-> worker[p]] /\ session' = [session EXCEPT !.pending = @ \ {}]
      BY <1>8, <3>1 DEF EndSample
    <3>3. worker = NoWorkers /\ session = NoSession /\ \A p \in Probe : report.results[p] = "none"
      BY <1>2, <2>2 DEF IdleQuiet
    <3>4. worker' = NoWorkers
      BY <3>2, <3>3 DEF NoWorkers
    <3>5. session' = NoSession
      BY <3>2, <3>3 DEF NoSession
    <3>6. \A p \in Probe : report'.results[p] = "none"
      BY <1>1, <1>8, <3>1, <3>3 DEF EndSample, Sampled, Reports
    <3> QED BY <3>4, <3>5, <3>6
  <2> QED BY <1>8, <2>1, <2>2 DEF EndSample
<1>9. CASE WorkerStep
  <2>1. report.status # "idle"
    BY <1>9 DEF WorkerStep, Announce, ReportConnection, WorkerFails, WorkerPasses, NoWorkers
  <2> QED BY <1>9, <2>1 DEF WorkerStep
<1>10. CASE UNCHANGED <<report, probeVars>>
  BY <1>10 DEF probeVars
<1> QED BY <1>3, <1>4, <1>5, <1>6, <1>7, <1>8, <1>9, <1>10
   DEF ObservationNext, DropGuard, DropPermit, Dispatch, GrowsLate, BeginSample, ListProcesses,
       Rest, observationVars

\* What is in the queue once its first event is taken, and once one more is sent.
LEMMA EventTaken ==
  ASSUME ObservationTyped, events # <<>>, events' = Tail(events), NEW p \in Probe,
         NEW k \in {"registered", "result"}
  PROVE  /\ Head(events) \in ProbeEvents
         /\ Sent(k, p)' => Sent(k, p)
         /\ Passing(p)' => Passing(p)
         /\ About(Head(events), k, p) => Sent(k, p)
         /\ Passes(Head(events), p) => Passing(p)
         /\ SentOnce(k, p) => SentOnce(k, p)' /\ (About(Head(events), k, p) => ~Sent(k, p)')
<1>1. /\ Len(events) \in Nat /\ 1 \in 1 .. Len(events) /\ Head(events) = events[1]
      /\ Head(events) \in ProbeEvents /\ Len(events') = Len(events) - 1
      /\ \A i \in 1 .. Len(events') : events'[i] = events[i + 1]
  BY DEF ObservationTyped
<1>2. \A i \in 1 .. Len(events') : i + 1 \in 1 .. Len(events) /\ i + 1 # 1
  BY <1>1
<1>3. Sent(k, p)' => Sent(k, p)
  BY <1>1, <1>2 DEF Sent
<1>4. Passing(p)' => Passing(p)
  BY <1>1, <1>2 DEF Passing
<1>5. ASSUME SentOnce(k, p) PROVE SentOnce(k, p)'
  <2> SUFFICES ASSUME NEW i \in 1 .. Len(events'), NEW j \in 1 .. Len(events'),
                      About(events'[i], k, p), About(events'[j], k, p)
               PROVE  i = j
    BY DEF SentOnce
  <2>1. i + 1 = j + 1
    BY <1>1, <1>2, <1>5 DEF SentOnce
  <2> QED BY <1>1, <2>1
<1>6. ASSUME SentOnce(k, p), About(Head(events), k, p) PROVE ~Sent(k, p)'
  BY <1>1, <1>2, <1>6 DEF Sent, SentOnce
<1>7. (About(Head(events), k, p) => Sent(k, p)) /\ (Passes(Head(events), p) => Passing(p))
  BY <1>1 DEF Sent, Passing
<1> QED BY <1>1, <1>3, <1>4, <1>5, <1>6, <1>7

LEMMA EventSent ==
  ASSUME ObservationTyped, NEW e, events' = Append(events, e), NEW p \in Probe,
         NEW k \in {"registered", "result"}
  PROVE  /\ Sent(k, p)' <=> Sent(k, p) \/ About(e, k, p)
         /\ Passing(p)' <=> Passing(p) \/ Passes(e, p)
         /\ SentOnce(k, p) /\ ~(Sent(k, p) /\ About(e, k, p)) => SentOnce(k, p)'
<1>1. /\ Len(events) \in Nat /\ Len(events') = Len(events) + 1
      /\ events'[Len(events) + 1] = e
      /\ \A i \in 1 .. Len(events) : events'[i] = events[i] /\ i \in 1 .. Len(events')
      /\ Len(events) + 1 \in 1 .. Len(events')
      /\ \A i \in 1 .. Len(events') : i \in 1 .. Len(events) \/ i = Len(events) + 1
  BY DEF ObservationTyped
<1>2. Sent(k, p)' <=> Sent(k, p) \/ About(e, k, p)
  BY <1>1 DEF Sent
<1>3. Passing(p)' <=> Passing(p) \/ Passes(e, p)
  BY <1>1 DEF Passing
<1>4. ASSUME SentOnce(k, p), ~(Sent(k, p) /\ About(e, k, p)) PROVE SentOnce(k, p)'
  <2> SUFFICES ASSUME NEW i \in 1 .. Len(events'), NEW j \in 1 .. Len(events'),
                      About(events'[i], k, p), About(events'[j], k, p)
               PROVE  i = j
    BY DEF SentOnce
  <2> QED BY <1>1, <1>4 DEF Sent, SentOnce
<1> QED BY <1>2, <1>3, <1>4

LEMMA QueueSame ==
  ASSUME UNCHANGED events, NEW p
  PROVE  /\ Sent("registered", p)' <=> Sent("registered", p)
         /\ Sent("result", p)' <=> Sent("result", p)
         /\ Passing(p)' <=> Passing(p)
         /\ SentOnce("registered", p)' <=> SentOnce("registered", p)
         /\ SentOnce("result", p)' <=> SentOnce("result", p)
BY DEF Sent, SentOnce, Passing

LEMMA QueueEmpty ==
  ASSUME events = <<>>, NEW p
  PROVE  /\ ~Sent("registered", p) /\ ~Sent("result", p) /\ ~Passing(p)
         /\ SentOnce("registered", p) /\ SentOnce("result", p)
BY DEF Sent, SentOnce, Passing

\* An event changes no result but that of its own probe.
LEMMA EventShown ==
  ASSUME ObservationTyped, TakeEvent, NEW p \in Probe
  PROVE  \/ report'.results[p] = report.results[p]
         \/ About(Head(events), "result", p) /\ report'.results[p] = Head(events).outcome
<1> DEFINE e == Head(events)
<1>1. report \in Reports /\ report.results \in [Probe -> Outcomes]
  BY DEF ObservationTyped, Reports
<1>2. \/ UNCHANGED report
      \/ e.kind = "result" /\ report' = Settles(e.probe, e.outcome)
  BY DEF TakeEvent
<1>3. ASSUME NEW q, NEW o
      PROVE  Settles(q, o).results = [report.results EXCEPT ![q] = o]
  <2> DEFINE results == [report.results EXCEPT ![q] = o]
  <2> HIDE DEF results
  <2>1. Settles(q, o) =
          [report EXCEPT !.results = results,
             !.status = IF \A r \in Probe : results[r] \notin Unsettled
                        THEN "completed" ELSE @]
    BY DEF Settles, results
  <2> QED BY <1>1, <2>1 DEF Reports, results
<1> HIDE DEF e
<1>4. CASE UNCHANGED report
  BY <1>4
<1>5. CASE e.kind = "result" /\ report' = Settles(e.probe, e.outcome)
  <2>1. report'.results = [report.results EXCEPT ![e.probe] = e.outcome]
    BY <1>3, <1>5
  <2>2. report'.results[p] = IF p = e.probe THEN e.outcome ELSE report.results[p]
    BY <1>1, <2>1
  <2> QED BY <1>5, <2>2 DEF About, e
<1> QED BY <1>2, <1>4, <1>5

\* What a worker sends: that it is registered, a record, or how it ended.
LEMMA WorkerSends ==
  ASSUME NEW p, NEW q \in Probe,
         worker \in [Probe -> {"none", "handshake", "waiting", "traffic", "connected"}],
         Announce(q) \/ ReportConnection(q) \/ WorkerFails(q) \/ WorkerPasses(q)
  PROVE  \E e :
           /\ events' = Append(events, e)
           /\ Announce(q) \/ e.kind # "registered"
           /\ About(e, "result", p) => p = q /\ worker'[p] = "none"
           /\ Passes(e, p) => worker[p] \in {"traffic", "connected"}
<1>1. CASE Announce(q)
  <2>1. events' = Append(events, [kind |-> "registered", probe |-> q])
    BY <1>1 DEF Announce, Send
  <2> QED BY <1>1, <2>1 DEF About, Passes
<1>2. CASE ReportConnection(q)
  <2>1. PICK r \in Chain \cup {Unrouted} :
          events' = Append(events, [kind |-> "record", probe |-> q,
                                    record |-> [socket |-> q, route |-> r]])
    BY <1>2 DEF ReportConnection, Send
  <2> QED BY <2>1 DEF About, Passes
<1>3. ASSUME NEW o, Concludes(q, o), o = "passed" => worker[q] \in {"traffic", "connected"}
      PROVE  \E e :
           /\ events' = Append(events, e) /\ e.kind # "registered"
           /\ About(e, "result", p) => p = q /\ worker'[p] = "none"
           /\ Passes(e, p) => worker[p] \in {"traffic", "connected"}
  <2> DEFINE e == [kind |-> "result", probe |-> q, outcome |-> o]
  <2>1. events' = Append(events, e) /\ worker' = [worker EXCEPT ![q] = "none"]
    BY <1>3 DEF Concludes, Send
  <2>2. worker'[q] = "none"
    BY <2>1
  <2>3. e.kind = "result" /\ (About(e, "result", p) => p = q) /\ (Passes(e, p) => p = q /\ o = "passed")
    BY DEF About, Passes
  <2> HIDE DEF e
  <2> QED BY <1>3, <2>1, <2>2, <2>3
<1>4. CASE WorkerFails(q)
  BY <1>3, <1>4 DEF WorkerFails
<1>5. CASE WorkerPasses(q)
  BY <1>3, <1>5 DEF WorkerPasses
<1> QED BY <1>1, <1>2, <1>4, <1>5

\* A run begins and ends without workers and events.
LEMMA ProbesGone ==
  ASSUME ObservationInv, BeginObservation \/ HangUp \/ Complete
  PROVE  /\ events' = <<>> /\ worker' = NoWorkers /\ session' = NoSession
         /\ BeginObservation => \A p \in Probe : report'.results[p] = "none"
         /\ ~BeginObservation => \A p \in Probe :
              report'.results[p] \in {"passed", "failed"} => report'.results[p] = report.results[p]
<1>1. report \in Reports /\ report.results \in [Probe -> Outcomes]
  BY DEF ObservationInv, ObservationTyped, Reports
<1>2. CASE BeginObservation
  BY <1>2 DEF BeginObservation, ObservationInv, Registered, OutsideRun, Ended, ObservationTyped,
     Nobody, probeVars, Blank
<1>3. CASE HangUp
  BY <1>3 DEF HangUp, Dropped, BeginObservation, ObservationInv, ObservationTyped
<1>4. CASE Complete
  <2>1. report'.results = Halted(report).results
    BY <1>1, <1>4, HaltedReport DEF Complete, Finished, Reports
  <2>2. Halted(report).results = StopResults(report.results)
    BY <1>1 DEF Halted, Reports
  <2>3. \A p \in Probe :
          report'.results[p] \in {"passed", "failed"} => report'.results[p] = report.results[p]
    BY <1>1, <2>1, <2>2 DEF StopResults
  <2>4. ~BeginObservation
    BY <1>4 DEF Complete, BeginObservation, ObservationInv, ObservationTyped
  <2> QED BY <1>4, <2>3, <2>4 DEF Complete, Dropped
<1> QED BY <1>2, <1>3, <1>4

LEMMA AnnouncedKept ==
  ASSUME ObservationInv, [ObservationNext]_observationVars
  PROVE  Announced'
<1> SUFFICES ASSUME NEW p \in Probe
             PROVE
    /\ worker'[p] = "handshake" \/ p \in session'.pending \/ Beyond(p)' => ~Sent("registered", p)'
    /\ worker'[p] = "handshake" \/ Beyond(p)' => p \notin session'.pending
    /\ SentOnce("registered", p)'
  BY DEF Announced
<1>1. /\ worker[p] = "handshake" \/ p \in session.pending \/ Beyond(p) => ~Sent("registered", p)
      /\ worker[p] = "handshake" \/ Beyond(p) => p \notin session.pending
      /\ SentOnce("registered", p)
  BY DEF ObservationInv, Announced
<1>2. /\ ObservationTyped /\ report \in Reports /\ report.results \in [Probe -> Outcomes]
      /\ session \in [processes : SUBSET Probe, pending : SUBSET Probe]
      /\ worker \in [Probe -> {"none", "handshake", "waiting", "traffic", "connected"}]
  BY DEF ObservationInv, ObservationTyped, Reports
<1>3. Passing(p) => Sent("result", p)
  BY DEF Passing, Passes, Sent
<1>4. CASE BeginObservation \/ HangUp \/ Complete
  <2>1. events' = <<>> /\ worker' = NoWorkers /\ session' = NoSession
    BY <1>4, ProbesGone
  <2>2. ~Sent("registered", p)' /\ SentOnce("registered", p)'
    BY <2>1 DEF Sent, SentOnce
  <2> QED BY <2>1, <2>2 DEF NoSession, NoWorkers
<1>5. CASE TakeCommand
  <2>1. UNCHANGED events
    BY <1>5 DEF TakeCommand
  <2>2. /\ Sent("registered", p)' <=> Sent("registered", p)
        /\ Passing(p)' <=> Passing(p)
        /\ SentOnce("registered", p)'
    BY <1>1, <2>1, QueueSame
  <2>3. CASE StopProbes
    <3>1. report'.results[p] = "passed" => report.results[p] = "passed"
      BY <1>2, <2>3 DEF StopProbes, Halted, StopResults, Reports
    <3>2. worker'[p] = "none" /\ p \notin session'.pending
      BY <2>3 DEF StopProbes, NoWorkers, NoSession
    <3>3. Beyond(p)' => Beyond(p)
      BY <2>2, <3>1, <3>2 DEF Beyond
    <3> QED BY <1>1, <2>2, <3>2, <3>3
  <2>4. CASE report.status = "idle" /\ UNCHANGED session
    <3>1. events = <<>> /\ session = NoSession
      BY <2>4 DEF ObservationInv, IdleQuiet
    <3>2. ~Sent("registered", p) /\ p \notin session.pending
      BY <3>1, QueueEmpty DEF NoSession
    <3> QED BY <2>2, <2>4, <3>2
  <2>5. CASE UNCHANGED <<worker, session, report>>
    BY <1>1, <2>2, <2>5 DEF Beyond
  <2> QED BY <1>5, <2>3, <2>4, <2>5 DEF TakeCommand
<1>6. CASE TakeEvent
  <2>1. /\ Head(events) \in ProbeEvents /\ UNCHANGED worker
        /\ Sent("registered", p)' => Sent("registered", p)
        /\ Passing(p)' => Passing(p)
        /\ About(Head(events), "registered", p) =>
             Sent("registered", p) /\ ~Sent("registered", p)'
        /\ Passes(Head(events), p) => Passing(p)
        /\ SentOnce("registered", p)'
    BY <1>1, <1>2, <1>6, EventTaken DEF TakeEvent
  <2>2. report'.results[p] = "passed" =>
          report.results[p] = "passed" \/ Passes(Head(events), p)
    BY <1>2, <1>6, EventShown DEF Passes
  <2>3. p \in session'.pending =>
          p \in session.pending \/ About(Head(events), "registered", p)
    BY <1>2, <1>6 DEF TakeEvent, About
  <2>4. Beyond(p)' => Beyond(p)
    BY <2>1, <2>2 DEF Beyond
  <2> QED BY <1>1, <2>1, <2>3, <2>4
<1>7. CASE EndSample
  <2>1. UNCHANGED events
    BY <1>7 DEF EndSample
  <2>2. /\ Sent("registered", p)' <=> Sent("registered", p)
        /\ Passing(p)' <=> Passing(p)
        /\ SentOnce("registered", p)'
    BY <1>1, <2>1, QueueSame
  <2>3. report'.results[p] = "passed" => report.results[p] = "passed"
    BY <1>2, <1>7 DEF EndSample, Sampled, Reports
  <2>4. p \in session'.pending => p \in session.pending /\ p \notin Shown
    BY <1>2, <1>7 DEF EndSample
  <2>5. worker'[p] = worker[p] \/ (worker'[p] = "traffic" /\ p \in Shown)
    BY <1>2, <1>7 DEF EndSample
  <2>6. Shown \subseteq session.pending
    BY DEF Shown
  <2>7. Beyond(p)' => Beyond(p) \/ p \in Shown
    BY <2>2, <2>3, <2>5 DEF Beyond
  <2> QED BY <1>1, <2>2, <2>4, <2>5, <2>6, <2>7
<1>8. CASE WorkerStep
  <2>1. UNCHANGED <<report, session>>
    BY <1>8 DEF WorkerStep
  <2>2. PICK q \in Probe :
          Announce(q) \/ ReportConnection(q) \/ WorkerFails(q) \/ WorkerPasses(q)
    BY <1>8 DEF WorkerStep
  <2>3. CASE Announce(q)
    <3> DEFINE e == [kind |-> "registered", probe |-> q]
    <3>1. events' = Append(events, e) /\ worker[q] = "handshake"
          /\ worker' = [worker EXCEPT ![q] = "waiting"]
      BY <2>3 DEF Announce, Send
    <3>2. (About(e, "registered", p) <=> p = q) /\ ~Passes(e, p)
      BY DEF About, Passes
    <3> HIDE DEF e
    <3>3. worker'[p] = IF p = q THEN "waiting" ELSE worker[p]
      BY <1>2, <3>1
    <3>4. p = q => ~Beyond(p) /\ p \notin session.pending /\ ~Sent("registered", p)
      <4>1. p = q => ~Sent("result", p) /\ report.results[p] # "passed"
        BY <3>1 DEF ObservationInv, Concluded
      <4>2. p = q => ~Beyond(p)
        BY <1>3, <3>1, <4>1 DEF Beyond
      <4> QED BY <1>1, <3>1, <4>2
    <3>5. /\ Sent("registered", p)' <=> Sent("registered", p) \/ p = q
          /\ Passing(p)' <=> Passing(p)
          /\ SentOnce("registered", p)'
      BY <1>1, <1>2, <3>1, <3>2, <3>4, EventSent
    <3>6. Beyond(p)' => Beyond(p) /\ p # q
      BY <2>1, <3>3, <3>4, <3>5 DEF Beyond
    <3> QED BY <1>1, <2>1, <3>3, <3>4, <3>5, <3>6
  <2>4. CASE ReportConnection(q) \/ WorkerFails(q) \/ WorkerPasses(q)
    <3>1. PICK e : /\ events' = Append(events, e) /\ e.kind # "registered"
                   /\ Passes(e, p) => worker[p] \in {"traffic", "connected"}
      <4>1. ~Announce(q)
        BY <1>2, <2>4 DEF ReportConnection, WorkerFails, WorkerPasses, Concludes, Announce
      <4> QED BY <1>2, <2>4, <4>1, WorkerSends
    <3>2. worker'[p] = worker[p]
            \/ worker'[p] = "none"
            \/ (worker'[p] = "connected" /\ worker[p] = "traffic")
      BY <1>2, <2>4 DEF ReportConnection, WorkerFails, WorkerPasses, Concludes
    <3>3. ~About(e, "registered", p)
      BY <3>1 DEF About
    <3>4. /\ Sent("registered", p)' <=> Sent("registered", p)
          /\ Passing(p)' <=> Passing(p) \/ Passes(e, p)
          /\ SentOnce("registered", p)'
      BY <1>1, <1>2, <3>1, <3>3, EventSent
    <3>5. Beyond(p)' => Beyond(p)
      BY <2>1, <3>1, <3>2, <3>4 DEF Beyond
    <3> QED BY <1>1, <2>1, <3>2, <3>4, <3>5
  <2> QED BY <2>2, <2>3, <2>4
<1>9. CASE UNCHANGED <<report, probeVars>>
  <2>1. UNCHANGED <<worker, session, events, report>>
    BY <1>9 DEF probeVars
  <2> QED BY <1>1, <2>1, QueueSame DEF Beyond
<1> QED BY <1>4, <1>5, <1>6, <1>7, <1>8, <1>9
   DEF ObservationNext, DropGuard, DropPermit, Dispatch, GrowsLate, BeginSample, ListProcesses,
       Rest, observationVars

LEMMA ConcludedKept ==
  ASSUME ObservationInv, [ObservationNext]_observationVars
  PROVE  Concluded'
<1> SUFFICES ASSUME NEW p \in Probe
             PROVE
    /\ worker'[p] # "none" \/ report'.results[p] \in {"passed", "failed"} => ~Sent("result", p)'
    /\ worker'[p] # "none" => report'.results[p] \notin {"passed", "failed"}
    /\ SentOnce("result", p)'
  BY DEF Concluded
<1>1. /\ worker[p] # "none" \/ report.results[p] \in {"passed", "failed"} => ~Sent("result", p)
      /\ worker[p] # "none" => report.results[p] \notin {"passed", "failed"}
      /\ SentOnce("result", p)
  BY DEF ObservationInv, Concluded
<1>2. /\ ObservationTyped /\ report \in Reports /\ report.results \in [Probe -> Outcomes]
      /\ worker \in [Probe -> {"none", "handshake", "waiting", "traffic", "connected"}]
  BY DEF ObservationInv, ObservationTyped, Reports
<1>3. CASE BeginObservation \/ HangUp \/ Complete
  <2>1. events' = <<>> /\ worker' = NoWorkers
    BY <1>3, ProbesGone
  <2>2. ~Sent("result", p)' /\ SentOnce("result", p)'
    BY <2>1 DEF Sent, SentOnce
  <2> QED BY <2>1, <2>2 DEF NoWorkers
<1>4. CASE TakeCommand
  <2>1. UNCHANGED events
    BY <1>4 DEF TakeCommand
  <2>2. (Sent("result", p)' <=> Sent("result", p)) /\ SentOnce("result", p)'
    BY <1>1, <2>1, QueueSame
  <2>3. CASE StopProbes
    <3>1. report'.results[p] \in {"passed", "failed"} => report'.results[p] = report.results[p]
      BY <1>2, <2>3 DEF StopProbes, Halted, StopResults, Reports
    <3>2. worker'[p] = "none"
      BY <2>3 DEF StopProbes, NoWorkers
    <3> QED BY <1>1, <2>2, <3>1, <3>2
  <2>4. CASE /\ report.status = "idle"
             /\ report' = [report EXCEPT !.status = "running",
                                         !.results = [q \in Probe |-> "pending"]]
    <3>1. events = <<>>
      BY <2>4 DEF ObservationInv, IdleQuiet
    <3>2. ~Sent("result", p)
      BY <3>1, QueueEmpty
    <3>3. report'.results[p] = "pending"
      BY <1>2, <2>4 DEF Reports
    <3> QED BY <2>2, <3>2, <3>3
  <2>5. CASE UNCHANGED <<worker, report>>
    BY <1>1, <2>2, <2>5
  <2> QED BY <1>4, <2>3, <2>4, <2>5 DEF TakeCommand
<1>5. CASE TakeEvent
  <2>1. /\ Head(events) \in ProbeEvents /\ UNCHANGED worker
        /\ Sent("result", p)' => Sent("result", p)
        /\ About(Head(events), "result", p) => Sent("result", p) /\ ~Sent("result", p)'
        /\ SentOnce("result", p)'
    BY <1>1, <1>2, <1>5, EventTaken DEF TakeEvent
  <2>2. report'.results[p] = report.results[p] \/ About(Head(events), "result", p)
    BY <1>2, <1>5, EventShown
  <2> QED BY <1>1, <2>1, <2>2
<1>6. CASE EndSample
  <2>1. UNCHANGED events
    BY <1>6 DEF EndSample
  <2>2. (Sent("result", p)' <=> Sent("result", p)) /\ SentOnce("result", p)'
    BY <1>1, <2>1, QueueSame
  <2>3. report'.results[p] \in {report.results[p], "running"}
    BY <1>2, <1>6 DEF EndSample, Sampled, Reports
  <2>4. worker'[p] # "none" => worker[p] # "none"
    BY <1>2, <1>6 DEF EndSample
  <2> QED BY <1>1, <2>2, <2>3, <2>4
<1>7. CASE WorkerStep
  <2>1. UNCHANGED report
    BY <1>7 DEF WorkerStep
  <2>2. PICK q \in Probe :
          Announce(q) \/ ReportConnection(q) \/ WorkerFails(q) \/ WorkerPasses(q)
    BY <1>7 DEF WorkerStep
  <2>3. PICK e : /\ events' = Append(events, e)
                 /\ About(e, "result", p) => p = q /\ worker'[p] = "none"
    BY <1>2, <2>2, WorkerSends
  <2>4. worker[q] # "none" /\ (p # q => worker'[p] = worker[p])
    BY <1>2, <2>2 DEF Announce, ReportConnection, WorkerFails, WorkerPasses, Concludes
  <2>5. /\ Sent("result", p)' <=> Sent("result", p) \/ About(e, "result", p)
        /\ SentOnce("result", p)'
    BY <1>1, <1>2, <2>3, <2>4, EventSent
  <2> QED BY <1>1, <2>1, <2>3, <2>4, <2>5
<1>8. CASE UNCHANGED <<report, probeVars>>
  <2>1. UNCHANGED <<worker, events, report>>
    BY <1>8 DEF probeVars
  <2> QED BY <1>1, <2>1, QueueSame
<1> QED BY <1>3, <1>4, <1>5, <1>6, <1>7, <1>8
   DEF ObservationNext, DropGuard, DropPermit, Dispatch, GrowsLate, BeginSample, ListProcesses,
       Rest, observationVars

LEMMA ObservationInitial == ObservationInit => ObservationInv
<1> SUFFICES ASSUME ObservationInit PROVE ObservationInv
  OBVIOUS
<1>1. report \in Reports
  <2>1. [p \in Probe |-> "none"] \in [Probe -> Outcomes]
    BY DEF Outcomes
  <2> QED BY <2>1, Zenon DEF ObservationInit, Blank, Reports
<1>2. ObservationTyped
  BY <1>1 DEF ObservationInit, ObservationTyped, NoSlot, NoWorkers, NoSession
<1>3. Announced
  BY QueueEmpty DEF ObservationInit, Announced, Beyond, NoWorkers, NoSession, Blank
<1>4. Concluded
  BY QueueEmpty DEF ObservationInit, Concluded, NoWorkers, Blank
<1> QED BY <1>1, <1>2, <1>3, <1>4
 DEF ObservationInit, ObservationInv, Registered, OutsideRun, StartsAhead, Ended, SettledOnce,
     StoppedQuiet, SeenBefore, IdleQuiet, NoSlot, Nobody, Blank, NoWorkers, NoSession

LEMMA ObservationInvKept == ObservationInv /\ [ObservationNext]_observationVars => ObservationInv'
BY ObservationTypesKept, RegisteredKept, OutsideKept, StartsKept, SettledKept, StoppedKept,
   SeenKept, IdleKept, AnnouncedKept, ConcludedKept
   DEF ObservationInv

LEMMA RoutesStay ==
  ASSUME NEW all, NEW records, NEW e \in all, e.route # Unrouted
  PROVE  e \in Merged(all, records)
BY DEF Merged

\* No probe sends anything before a sample has listed it, an accepted start is carried out, a
\* completed report has nothing under way, and no route, no pass and no result of a stopped
\* observation is taken back: whatever order samples, commands and the events of the probes come
\* in, and whenever the caller hangs up (leak_detection_api.rs).  A failure is taken back only by
\* the end of the sample that listed the probe before.  For any number of observations, probes
\* and sockets.
THEOREM ReportsAlwaysHonest == ObservationSpec => ReportHonest
<1>1. ObservationInv => ProbesAccounted
  <2> SUFFICES ASSUME ObservationInv PROVE ProbesAccounted
    OBVIOUS
  <2>1. ProbesSeenFirst
    BY DEF ObservationInv, SeenBefore, ProbesSeenFirst
  <2>2. AcceptedStarts
    <3> SUFFICES ASSUME slot.id # Nobody, slot.used, Driving
                 PROVE  report.status # "idle" \/ Started
      BY DEF AcceptedStarts, Started
    <3>1. slot # NoSlot /\ ~Ended
      BY DEF NoSlot, Driving, Ended
    <3> QED BY <3>1, Zenon DEF ObservationInv, StartsAhead
  <2>3. CompletedSettled
    BY DEF ObservationInv, SettledOnce, OutsideRun, CompletedSettled
  <2>4. RegisteredRuns
    BY DEF ObservationInv, Registered, RegisteredRuns, NoSlot
  <2> QED BY <2>1, <2>2, <2>3, <2>4 DEF ProbesAccounted
<1>2. ObservationInv /\ [ObservationNext]_observationVars => [EvidenceKept]_observationVars
  <2> SUFFICES ASSUME ObservationInv, ObservationNext, count' = count PROVE EvidenceKept
    BY DEF EvidenceKept
  <2> DEFINE RoutesKept == \A e \in connections : e.route # Unrouted => e \in connections'
             PassKept(p) == report.results[p] = "passed" => report'.results[p] = "passed"
             FailureKept(p) == report.results[p] = "failed" =>
                \/ report'.results[p] = "failed"
                \/ stage = "listing" /\ p \in listed /\ report'.results[p] = "running"
  <2>1. /\ report \in Reports /\ session \in [processes : SUBSET Probe, pending : SUBSET Probe]
        /\ report.results \in [Probe -> Outcomes]
    BY DEF ObservationInv, ObservationTyped, Reports
  <2>2. report.status = "stopped" =>
          session = NoSession /\ \A p \in Probe : report.results[p] \notin Unsettled
    BY DEF ObservationInv, SettledOnce, StoppedQuiet
  <2>3. \A p \in Probe : Halted(report).results[p] =
          IF report.results[p] \in Unsettled THEN "stopped" ELSE report.results[p]
    BY <2>1 DEF Halted, StopResults, Reports
  <2>4. ASSUME report'.results = Halted(report).results, UNCHANGED connections
        PROVE  EvidenceKept
    <3>1. \A p \in Probe : PassKept(p) /\ FailureKept(p)
      BY <2>3, <2>4 DEF Unsettled
    <3>2. report.status = "stopped" => report'.results = report.results
      BY <2>1, <2>2, <2>4, HaltedReport
    <3> QED BY <2>4, <3>1, <3>2 DEF EvidenceKept
  <2>5. ASSUME report'.results = report.results, UNCHANGED connections
        PROVE  EvidenceKept
    BY <2>5 DEF EvidenceKept
  <2>6. CASE TakeCommand
    <3>1. UNCHANGED connections
      BY <2>6 DEF TakeCommand
    <3>2. CASE StopProbes
      BY <2>4, <3>1, <3>2 DEF StopProbes
    <3>3. CASE /\ report.status = "idle"
               /\ report' = [report EXCEPT !.status = "running",
                                           !.results = [p \in Probe |-> "pending"]]
      <4>1. \A p \in Probe : report.results[p] \notin {"passed", "failed"}
        BY <3>3 DEF ObservationInv, IdleQuiet
      <4> QED BY <2>1, <3>1, <3>3, <4>1 DEF EvidenceKept
    <3>4. CASE UNCHANGED report
      BY <2>5, <3>1, <3>4
    <3> QED BY <2>6, <3>2, <3>3, <3>4 DEF TakeCommand
  <2>7. CASE TakeEvent
    <3>1. connections' \in {connections, Merged(connections, {Head(events).record})}
      BY <2>7 DEF TakeEvent
    <3>2. report.status = "stopped" => report' = report
      BY <2>7 DEF TakeEvent, Applies
    <3>3. ASSUME NEW p \in Probe, report.results[p] \in {"passed", "failed"}
          PROVE  report'.results[p] = report.results[p]
      <4>1. ~About(Head(events), "result", p)
        BY <2>7, <3>3, EventTaken DEF TakeEvent, ObservationInv, Concluded
      <4> QED BY <2>7, <4>1, EventShown DEF ObservationInv
    <3> QED BY <3>1, <3>2, <3>3, RoutesStay DEF EvidenceKept
  <2>8. CASE EndSample
    <3>1. \E records : connections' = Merged(connections, records)
      BY <2>8 DEF EndSample
    <3>2. report'.results = [p \in Probe |-> IF p \in Shown THEN "running" ELSE report.results[p]]
      BY <2>1, <2>8 DEF EndSample, Sampled, Reports
    <3>3. \A p \in Shown : p \in listed /\ p \in session.pending
      BY DEF Shown
    <3>4. ASSUME NEW p \in Probe PROVE PassKept(p) /\ FailureKept(p)
      <4>1. report.results[p] = "passed" => p \notin Shown
        BY <3>3 DEF ObservationInv, Announced, Beyond
      <4> QED BY <2>8, <3>2, <3>3, <4>1 DEF EndSample
    <3>5. ASSUME report.status = "stopped" PROVE report'.results = report.results
      <4>1. Shown = {}
        BY <2>2, <3>5 DEF Shown, NoSession
      <4> QED BY <2>1, <3>2, <4>1
    <3> QED BY <3>1, <3>4, <3>5, RoutesStay DEF EvidenceKept
  <2>9. CASE Complete
    <3>1. report' = [Halted(report) EXCEPT !.ready = FALSE, !.completed = TRUE]
          /\ UNCHANGED connections
      BY <2>9 DEF Complete, Finished
    <3>2. Halted(report) \in Reports
      BY <2>1, HaltedReport
    <3>3. report'.results = Halted(report).results
      BY <3>1, <3>2 DEF Reports
    <3> QED BY <2>4, <3>1, <3>3
  <2>10. CASE UNCHANGED <<report, connections>>
    BY <2>5, <2>10
  <2>11. ~BeginObservation
    BY DEF BeginObservation, ObservationInv, ObservationTyped
  <2> QED BY <2>6, <2>7, <2>8, <2>9, <2>10, <2>11
     DEF ObservationNext, HangUp, DropGuard, DropPermit, Dispatch, GrowsLate, BeginSample,
         ListProcesses, Rest, WorkerStep
<1> QED BY <1>1, <1>2, ObservationInitial, ObservationInvKept, PTL
   DEF ObservationSpec, ReportHonest

==============================================================================
