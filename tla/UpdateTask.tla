----------------------------- MODULE UpdateTask -----------------------------
(***************************************************************************)
(* The daemon's update task (sempre-client): one task under a mutex, the   *)
(* workers that download or unpack a package and report to it by its id,   *)
(* the user's confirmation, and the installers it hands packages to, which *)
(* run detached from the daemon.  A worker whose task was given up keeps   *)
(* running and reports with its own id.  Byte counts, versions and logs    *)
(* are left out.                                                           *)
(***************************************************************************)
EXTENDS Naturals, FiniteSets

CONSTANT MaxTasks   \* bound: tasks begun in a behaviour

ASSUME MaxTasksAssumption == MaxTasks \in Nat

VARIABLES
  task,        \* the task the daemon shows, or NoTask
  prepared,    \* the id of the package kept for confirmation, 0 if none
  work,        \* per id, the stage its worker reports next, "none" or "ended"
  installers   \* ids whose installer is scheduled or runs

taskVars == <<task, prepared, work, installers>>

Ids == 1..MaxTasks
NoTask == [id |-> 0, state |-> "none", stage |-> "none"]
TaskState == {"none", "running", "failed", "cancelled"}
Working == {"checking", "resolving", "downloading", "verifying", "uploading", "extracting", "validating"}
TaskStage == Working \cup {"none", "awaiting_confirmation", "installing", "cancelled"}

TaskTypeOK ==
  /\ task \in [id : 0..MaxTasks, state : TaskState, stage : TaskStage]
  /\ prepared \in 0..MaxTasks
  /\ work \in [Ids -> Working \cup {"none", "ended"}]
  /\ installers \subseteq Ids

TaskInit ==
  /\ task = NoTask /\ prepared = 0
  /\ work = [i \in Ids |-> "none"] /\ installers = {}

\* The stages a worker reports, in their order: a release that is downloaded, an OpenWrt
\* release (two downloads, nothing to unpack) and an uploaded archive.  A proxied download
\* that fails is begun again without the proxy.  Which of them a worker follows is left open.
ReleaseSteps ==
  {<<"checking", "resolving">>, <<"resolving", "downloading">>, <<"downloading", "downloading">>,
   <<"downloading", "verifying">>, <<"verifying", "extracting">>, <<"extracting", "validating">>}
OpenwrtSteps ==
  {<<"checking", "resolving">>, <<"resolving", "downloading">>, <<"downloading", "downloading">>,
   <<"downloading", "validating">>}
UploadSteps ==
  {<<"uploading", "uploading">>, <<"uploading", "extracting">>, <<"extracting", "validating">>}

Following(stage) == {s \in Working : <<stage, s>> \in ReleaseSteps \cup OpenwrtSteps \cup UploadSteps}

\* Mutant of Current: any running task takes the report.
CurrentUnchecked(id) == task.state = "running"

\* A report is taken only from the running task's own worker.
Current(id) == task.id = id /\ task.state = "running"

Awaiting(id) == Current(id) /\ task.stage = "awaiting_confirmation"

NextId == Cardinality({i \in Ids : work[i] # "none"}) + 1

\* A task begins with the download of a release or with an upload.
BeginTask ==
  /\ task.state # "running" /\ NextId \in Ids
  /\ \E stage \in {"checking", "uploading"} :
       /\ task' = [id |-> NextId, state |-> "running", stage |-> stage]
       /\ work' = [work EXCEPT ![NextId] = stage]
  /\ prepared' = 0
  /\ UNCHANGED installers

\* The worker's next report: if its task is no longer the current one it gives up, except
\* that nobody looks at the answer to a progress report.
Report(id) ==
  /\ work[id] \in Working
  /\ \E stage \in Following(work[id]) :
       IF Current(id)
         THEN task' = [task EXCEPT !.stage = stage] /\ work' = [work EXCEPT ![id] = stage]
         ELSE /\ work' = [work EXCEPT ![id] = IF stage = work[id] THEN stage ELSE "ended"]
              /\ UNCHANGED task
  /\ UNCHANGED <<prepared, installers>>

\* The package is good: it waits for the user.
Ready(id) ==
  /\ work[id] = "validating"
  /\ work' = [work EXCEPT ![id] = "ended"]
  /\ IF Current(id)
       THEN task' = [task EXCEPT !.stage = "awaiting_confirmation"] /\ prepared' = id
       ELSE UNCHANGED <<task, prepared>>
  /\ UNCHANGED installers

FailTask(id) ==
  IF Current(id)
    THEN task' = [task EXCEPT !.state = "failed"] /\ prepared' = 0
    ELSE UNCHANGED <<task, prepared>>

\* A check, a download, an unpacking or a validation fails.
WorkFails(id) ==
  /\ work[id] \in Working
  /\ FailTask(id)
  /\ work' = [work EXCEPT ![id] = "ended"]
  /\ UNCHANGED installers

\* The package is taken out and an installer scheduled; if it cannot be, the task fails.
Confirm(id) ==
  /\ Awaiting(id)
  /\ \/ /\ task' = [task EXCEPT !.stage = "installing"]
        /\ prepared' = 0
        /\ installers' = installers \cup {id}
     \/ /\ task' = [task EXCEPT !.stage = "installing", !.state = "failed"]
        /\ prepared' = 0
        /\ UNCHANGED installers
  /\ UNCHANGED work

\* A confirmation that comes too early or a second time is refused, and fails the task.
ConfirmRefused(id) ==
  /\ ~Awaiting(id) /\ Current(id)
  /\ FailTask(id)
  /\ UNCHANGED <<work, installers>>

Cancel(id) ==
  /\ Awaiting(id)
  /\ task' = [task EXCEPT !.state = "cancelled", !.stage = "cancelled"]
  /\ prepared' = 0
  /\ UNCHANGED <<work, installers>>

\* The upload's connection goes away and its handler with it: nobody fails the task.
UploadDropped(id) ==
  /\ work[id] = "uploading"
  /\ work' = [work EXCEPT ![id] = "ended"]
  /\ UNCHANGED <<task, prepared, installers>>

TaskNext ==
  \/ BeginTask
  \/ \E id \in Ids :
       \/ Report(id) \/ Ready(id) \/ WorkFails(id) \/ UploadDropped(id)
       \/ Confirm(id) \/ ConfirmRefused(id) \/ Cancel(id)

\* The daemon's process ends: its tasks and workers are gone, an installer is not.
DaemonGone ==
  /\ task' = NoTask /\ prepared' = 0
  /\ work' = [i \in Ids |-> IF work[i] = "none" THEN "none" ELSE "ended"]
  /\ UNCHANGED installers

----------------------------------------------------------------------------
(* Properties.                                                             *)

\* A package is kept exactly while its own task, and no other, waits for confirmation,
\* whatever its worker, the user and the workers of given-up tasks do in between.
PackageAwaitsConfirmation ==
  \A id \in Ids : prepared = id <=> Awaiting(id)

\* A worker whose task was failed, cancelled or replaced changes neither the task nor the
\* package kept for it.
LateReportIgnored ==
  \A id \in Ids :
    work[id] # "none" /\ work'[id] # work[id] /\ (task.id # id \/ task.state # "running") =>
      \/ UNCHANGED <<task, prepared>>
      \/ task' = NoTask

\* An update is what its task says: a package waits exactly while its task can be confirmed,
\* and no worker of an earlier task interferes.
TaskHonest == [][PackageAwaitsConfirmation' /\ LateReportIgnored]_taskVars
=============================================================================
