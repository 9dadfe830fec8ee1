------------------------------ MODULE Updates ------------------------------
(***************************************************************************)
(* An installed Sempre that updates itself: the daemon's update task       *)
(* (UpdateTask) schedules an installer, the installer deploys the package  *)
(* (Deployment), and the deployment stops the daemon that holds the task   *)
(* and starts another.  A deployment may also be started from the command  *)
(* line.  One deployment runs; a second installer waits for it.            *)
(***************************************************************************)
EXTENDS Deployment, UpdateTask

allVars == <<vars, taskVars>>

UpdatesInit == Init /\ TaskInit

\* The task API answers while the daemon runs.
Ask == svc = "running" /\ TaskNext /\ UNCHANGED vars

\* A scheduled installer runs `sempre install`: it deploys a release.
RunInstaller == installers # {} /\ Begin("release") /\ UNCHANGED taskVars

\* The installer's process ends, before it began (its checks failed) or with its deployment.
InstallerEnds ==
  /\ \E id \in installers : installers' = installers \ {id}
  /\ pc \in {"idle", "done", "crashed"}
  /\ UNCHANGED <<vars, task, prepared, work>>

CommandLine == \E k \in Kind : Begin(k) /\ UNCHANGED taskVars

\* A step of the deployment, of the service manager or of the starting daemon.
Proceed ==
  /\ Transaction \/ Service \/ Capture \/ Ensure \/ Register \/ Health \/ UndoCommand
     \/ Boot \/ StopEnds \/ Crash
  /\ IF daemon # "none" /\ daemon' = "none" THEN DaemonGone ELSE UNCHANGED taskVars

UpdatesNext == Ask \/ RunInstaller \/ InstallerEnds \/ CommandLine \/ Proceed

UpdatesSpec == UpdatesInit /\ [][UpdatesNext]_allVars

UpdatesTypeOK == TypeOK /\ TaskTypeOK
=============================================================================
