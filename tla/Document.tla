------------------------------ MODULE Document ------------------------------
(***************************************************************************)
(* The part of the persisted state document (sempre-state, state.json) that *)
(* decides which core runs: the active deployment, the one to fall back to, *)
(* the one a rollback rejected, the user's intent and the runtime record.   *)
(* Every operator is the effect of one closure passed to Store::update, so  *)
(* a use of it is one atomic step: the store rewrites the whole document    *)
(* under its state lock.  Messages, timestamps and counters are left out;   *)
(* an error text is whether one is recorded.                                *)
(***************************************************************************)

CONSTANTS
    Deployments,    \* compiled deployments (core, version, configuration hash)
    Pids,           \* process identifiers the host hands out
    None            \* the Option::None of every field below

ASSUME DocumentAssumption == None \notin Deployments /\ None \notin Pids

Option(S) == S \cup {None}

DesiredStates == {"Running", "Stopped"}
RuntimeStates == {"Idle", "Starting", "Running", "Stopping", "Restarting",
                  "Stopped", "Failed"}
Transitional == {"Starting", "Stopping", "Restarting"}

Documents ==
    [active : Option(Deployments), lastGood : Option(Deployments),
     rejected : Option(Deployments), pending : BOOLEAN, error : BOOLEAN,
     desired : DesiredStates, state : RuntimeStates, pid : Option(Pids),
     core : BOOLEAN, runError : BOOLEAN]

\* A fresh installation: nothing selected, and the core wanted running.
DefaultDocument ==
    [active |-> None, lastGood |-> None, rejected |-> None, pending |-> FALSE,
     error |-> FALSE, desired |-> "Running", state |-> "Idle", pid |-> None,
     core |-> FALSE, runError |-> FALSE]

-----------------------------------------------------------------------------
(* Deployments: staging, rolling back, retrying.                           *)

Stage(doc, d) ==
    [doc EXCEPT !.active = d, !.rejected = None, !.pending = TRUE, !.error = FALSE]

CanRollBack(doc) == doc.lastGood # None /\ doc.active # doc.lastGood

RollBack(doc) ==
    [doc EXCEPT !.rejected = doc.active, !.active = doc.lastGood, !.pending = TRUE]

RetryRejected(doc) ==
    IF doc.rejected = None THEN doc
    ELSE [doc EXCEPT !.active = doc.rejected, !.rejected = None, !.pending = TRUE]

-----------------------------------------------------------------------------
(* What a user's action writes (stage_runtime_action).                     *)

StageStart(doc, d) ==
    LET staged == IF doc.active = None THEN Stage(doc, d) ELSE doc
    IN  [staged EXCEPT !.desired = "Running", !.runError = FALSE,
           !.state = IF doc.state = "Stopping" THEN "Restarting" ELSE "Starting"]

StageRestart(doc, d) ==
    LET staged == IF doc.active = None THEN Stage(doc, d) ELSE doc
    IN  [staged EXCEPT !.desired = "Running", !.runError = FALSE,
           !.state = IF doc.pid # None \/ doc.state = "Running"
                     THEN "Stopping" ELSE "Restarting"]

StageStop(doc) ==
    [doc EXCEPT !.desired = "Stopped",
        !.state = IF doc.pid # None \/ doc.state \in Transitional \cup {"Running"}
                  THEN "Stopping" ELSE "Stopped"]

PreparationFailed(doc) == [doc EXCEPT !.error = TRUE, !.runError = TRUE]

-----------------------------------------------------------------------------
(* What the supervisor writes (supervisor/state.rs, recovery.rs).          *)

MarkRecovered(doc, pid) ==
    IF pid = None \/ doc.pid # pid THEN doc
    ELSE [doc EXCEPT !.pid = None,
            !.state = IF doc.desired = "Running" THEN "Restarting" ELSE "Stopped"]

MarkInactive(doc, stopped) ==
    IF stopped \/ doc.desired = "Stopped"
    THEN [doc EXCEPT !.pid = None, !.state = "Stopped"]
    ELSE IF doc.runError \/ doc.error
    THEN [doc EXCEPT !.pid = None, !.state = "Failed"]
    ELSE [doc EXCEPT !.pid = None, !.state = "Idle", !.core = FALSE]

StartingAllowed(doc, plan) == doc.desired = "Running" /\ doc.active = plan

MarkStarting(doc, plan) ==
    IF StartingAllowed(doc, plan)
    THEN [doc EXCEPT !.core = TRUE, !.state = "Starting", !.pid = None]
    ELSE doc

\* Mutant of MarkStarted: the process is not recorded.
StartedForgetsPid(doc, pid) == [doc EXCEPT !.core = TRUE, !.state = "Starting"]

MarkStarted(doc, pid) ==
    [doc EXCEPT !.core = TRUE, !.state = "Starting", !.pid = pid]

\* Mutants of MarkHealthy: any healthy start clears what another deployment owes.
HealthyClearsRejected(doc, plan) ==
    IF doc.desired # "Running" THEN doc
    ELSE [doc EXCEPT !.state = "Running",
                     !.pending = @ /\ doc.active # plan,
                     !.error = FALSE, !.runError = FALSE]
HealthyClearsStaged(doc, plan) ==
    IF doc.desired # "Running" THEN doc
    ELSE [doc EXCEPT !.state = "Running",
                     !.pending = @ /\ doc.rejected # None,
                     !.error = FALSE, !.runError = FALSE]

MarkHealthy(doc, plan) ==
    IF doc.desired # "Running" THEN doc
    ELSE IF doc.active # plan \/ doc.rejected # None
    THEN [doc EXCEPT !.state = "Running"]
    ELSE [doc EXCEPT !.state = "Running", !.pending = FALSE,
                     !.error = FALSE, !.runError = FALSE]

\* Mutant of MarkStable: the document's deployment is trusted, not the running one.
StableTrustsStaged(doc, plan) ==
    IF doc.state = "Running" THEN [doc EXCEPT !.lastGood = doc.active] ELSE doc

MarkStable(doc, plan) ==
    IF doc.state = "Running" /\ doc.active = plan
    THEN [doc EXCEPT !.lastGood = doc.active]
    ELSE doc

MarkStopping(doc) == [doc EXCEPT !.state = "Stopping"]

MarkIntentionalExit(doc, serviceStopped) ==
    [doc EXCEPT !.pid = None,
        !.state = IF serviceStopped \/ doc.desired = "Stopped"
                  THEN "Stopped" ELSE "Restarting"]

\* Mutant of RecordFailure: the process of the failed run stays recorded.
FailureKeepsPid(doc) ==
    [doc EXCEPT !.error = TRUE, !.runError = TRUE,
        !.state = IF doc.desired = "Stopped" THEN "Stopped" ELSE "Failed"]

RecordFailure(doc) ==
    [doc EXCEPT !.error = TRUE, !.runError = TRUE, !.pid = None,
        !.state = IF doc.desired = "Stopped" THEN "Stopped" ELSE "Failed"]

(* A rolled-back document names the last healthy deployment, keeps the      *)
(* rejected one for a restart, and still owes the user that restart.        *)
RolledBack(doc) ==
    doc.rejected # None =>
        /\ doc.active = doc.lastGood
        /\ doc.active # doc.rejected
        /\ doc.pending
=============================================================================
