----------------------------- MODULE Deployment -----------------------------
(***************************************************************************)
(* Replacing an installed Sempre: the bundle's transaction of file swaps   *)
(* (sempre-bundle) and the manager's deployment around it, which stops the *)
(* native service, swaps the paths, registers and starts the service,      *)
(* waits for its health and otherwise puts everything back.                *)
(*                                                                         *)
(* A path is a member of Item and its content a version: "old" was there   *)
(* before, "new" comes from the bundle, "migrated" is the old document     *)
(* after a newer daemon rewrote its schema.  Staging runs before anything  *)
(* of the target changes and is one step.  Paths of one group are          *)
(* activated in any order (the code fixes one).  One deployment runs.  The *)
(* installer may die between any two file operations; no code recovers.    *)
(***************************************************************************)
EXTENDS Naturals, FiniteSets

CONSTANTS App,      \* application paths beside the executable: resources, tools, ui
          Ui,       \* those of them that a component deployment takes for data
          Stores,   \* data paths: configs, subscriptions, gateway, tunnels, ...
          File      \* the paths that are plain files

Exe == "executable"
Cores == "cores"
State == "state"
Item == App \cup Stores \cup {Exe, Cores, State}
Content == {"none", "old", "new", "migrated"}

ASSUME PathsAssumption ==
  /\ IsFiniteSet(App) /\ IsFiniteSet(Stores)
  /\ App \cap Stores = {} /\ Ui \subseteq App
  /\ {Exe, Cores, State} \cap (App \cup Stores) = {} /\ "none" \notin Item
  /\ File \subseteq Item /\ {Exe, State} \subseteq File

VARIABLES
  content,   \* what is at each target path
  backup,    \* what is at each path's backup name
  staged,    \* what waits at each path's staging name
  source,    \* what the bundle holds for each path
  todo,      \* swaps not yet activated, in the transaction
  active,    \* swaps activated
  had,       \* swaps that found a target to back up
  at,        \* the path whose swap is between its backup and its rename
  kind,      \* which deployment this is
  pc,        \* where the deployment is
  previous,  \* the service's state when the deployment looked
  repair,    \* what follows the rollback: the service's state, or its registration too
  outcome,   \* "none", "failed" or "committed"
  command,   \* the command link exists
  created,   \* this deployment created it
  svc,       \* the native service's state
  daemon,    \* the version of the executable the daemon process runs
  before,    \* content when the deployment began (observation)
  faults     \* what failed while things were put back (observation)

swapVars == <<content, backup, staged, source, todo, active, had, at>>
runVars == <<kind, pc, previous, repair, outcome, created, before, faults>>
hostVars == <<command, svc, daemon>>
vars == <<swapVars, runVars, hostVars>>

Bundle == {"release", "snapshot"}
Kind == Bundle \cup {"all", "core", "bin", "data"}
HasBin(k) == k \in Bundle \cup {"all", "bin"}
ServiceState == {"not_installed", "stopped", "start_pending", "running", "stop_pending"}
Up == {"start_pending", "running"}

\* A release replaces the application and brings cores and data only where there are none.
ReleaseSwaps == App \cup {Exe} \cup {i \in Stores \cup {Cores, State} : content[i] = "none"}

ComponentSwaps(k) ==
  UNION {IF k \in {"all", "bin"} THEN (App \ Ui) \cup {Exe} ELSE {},
         IF k \in {"all", "core"} THEN {Cores} ELSE {},
         IF k \in {"all", "data"} THEN Stores \cup Ui \cup {State} ELSE {}}

\* stage_merged_directory: what the bundle holds is copied over a copy of the target.
MergedDirectories(k) ==
  UNION {IF k \in {"all", "bin"} THEN App \ Ui ELSE {}, IF k = "core" THEN {Cores} ELSE {}}

Swapped(k) ==
  IF k = "release" THEN ReleaseSwaps ELSE IF k = "snapshot" THEN Item ELSE ComponentSwaps(k)

\* A bundle holds an executable and a document; everything else is optional.
Bundled == {b \in [Item -> {"none", "new"}] : b[Exe] = "new" /\ b[State] = "new"}

\* A release replaces the executable after the resources, the others begin with it.
Rank(k, i) ==
  IF k = "release"
    THEN IF i \in App THEN 1 ELSE IF i = Exe THEN 2 ELSE 3
    ELSE IF i = Exe THEN 1 ELSE 2

First(S) == {i \in S : \A j \in S : Rank(kind, i) <= Rank(kind, j)}
Latest(S) == {i \in S : \A j \in S : Rank(kind, j) <= Rank(kind, i)}

\* A file that replaces a file is copied to its backup, anything else is renamed.
FileBackup(i) == i \in had /\ i \in File /\ source[i] # "none"

TypeOK ==
  /\ content \in [Item -> Content] /\ backup \in [Item -> Content]
  /\ staged \in [Item -> Content] /\ source \in [Item -> {"none", "new"}]
  /\ todo \subseteq Item /\ active \subseteq Item /\ had \subseteq Item
  /\ at \in Item \cup {"none"}
  /\ kind \in Kind \cup {"none"}
  /\ pc \in {"idle", "stop", "capture", "activate", "place", "ensure", "install", "register",
             "start", "health", "commit", "undo_stop", "undo_command", "rollback", "restore",
             "restart", "done", "crashed"}
  /\ previous \in ServiceState /\ repair \in {"state", "registration"}
  /\ outcome \in {"none", "failed", "committed"}
  /\ command \in BOOLEAN /\ created \in BOOLEAN
  /\ svc \in ServiceState /\ daemon \in {"none", "old", "new"}
  /\ before \in [Item -> Content]
  /\ faults \subseteq {"stop", "start", "rollback", "service"}

Init ==
  /\ content \in [Item -> {"none", "old"}]
  /\ before = content
  /\ source \in Bundled
  /\ backup = [i \in Item |-> "none"] /\ staged = backup
  /\ todo = {} /\ active = {} /\ had = {} /\ at = "none"
  /\ kind = "none" /\ pc = "idle" /\ repair = "state" /\ outcome = "none"
  /\ command \in BOOLEAN /\ created = FALSE
  /\ svc \in {"not_installed", "stopped", "running"} /\ previous = svc
  /\ svc = "running" => content[Exe] = "old"
  /\ daemon = IF svc = "running" THEN "old" ELSE "none"
  /\ faults = {}

----------------------------------------------------------------------------
(* The native service, as its commands are answered.  A command may be     *)
(* refused without effect, or time out and take effect all the same.       *)

Stopped == svc \in {"not_installed", "stopped"}

StopService(result) ==
  \/ /\ Stopped /\ result = "ok" /\ UNCHANGED <<svc, daemon>>
  \/ /\ ~Stopped /\ result = "ok" /\ svc' = "stopped" /\ daemon' = "none"
  \/ /\ ~Stopped /\ result = "error" /\ svc' \in {svc, "stop_pending"} /\ UNCHANGED daemon

StartService(result) ==
  \/ /\ svc = "running" /\ result = "ok" /\ UNCHANGED <<svc, daemon>>
  \/ /\ svc \in {"stopped", "start_pending", "stop_pending"}
     /\ content[Exe] # "none"
     /\ result \in {"ok", "error"}
     /\ svc' = "start_pending"
     /\ daemon' = IF svc = "start_pending" THEN daemon ELSE content[Exe]
  \/ /\ svc # "running" /\ result = "error" /\ UNCHANGED <<svc, daemon>>

\* sempre_service::install: a failed registration is put back, or is left behind.
InstallService(result) ==
  /\ svc' = IF svc = "not_installed" /\ result = "ok" THEN "stopped" ELSE svc
  /\ UNCHANGED daemon

UninstallService(result) ==
  \/ result = "ok" /\ svc' = "not_installed" /\ daemon' = "none"
  \/ result = "error" /\ UNCHANGED <<svc, daemon>>

\* The daemon opens the document: it migrates an older one and refuses a newer one.
Boot ==
  /\ svc = "start_pending"
  /\ \/ /\ daemon = "new" /\ content[State] = "old"
        /\ content' \in {content, [content EXCEPT ![State] = "migrated"]}
        /\ svc' = "running" /\ UNCHANGED daemon
     \/ /\ daemon = "old" /\ content[State] \in {"migrated", "new"}
        /\ svc' = "stopped" /\ daemon' = "none" /\ UNCHANGED content
     \/ /\ ~(daemon = "old" /\ content[State] = "migrated")
        /\ svc' = "running" /\ UNCHANGED <<content, daemon>>
     \/ \* a daemon that cannot start exits
        /\ daemon = "new" /\ svc' = "stopped" /\ daemon' = "none" /\ UNCHANGED content
  /\ UNCHANGED <<backup, staged, source, todo, active, had, at, runVars, command>>

StopEnds ==
  /\ svc = "stop_pending" /\ svc' = "stopped" /\ daemon' = "none"
  /\ UNCHANGED <<swapVars, runVars, command>>

----------------------------------------------------------------------------
(* The deployment.                                                         *)

Fail(fault) == faults' = IF fault = "none" THEN faults ELSE faults \cup {fault}

\* Every swap copies what the bundle holds to a staging name beside its target.  A merged
\* directory that the bundle lacks keeps what the target has, or is an empty one.
Staging(k, i) ==
  IF i \notin Swapped(k) THEN "none"
  ELSE IF i \in MergedDirectories(k) /\ source[i] = "none" /\ content[i] # "none" THEN content[i]
  ELSE IF i \in MergedDirectories(k) THEN "new"
  ELSE source[i]
Stage(k) ==
  /\ kind' = k /\ todo' = Swapped(k)
  /\ staged' = [i \in Item |-> Staging(k, i)]

\* The service is looked at, and stopped if it is up.
Look ==
  /\ previous' = svc
  /\ pc' = IF svc \in {"not_installed", "stopped"} THEN "capture" ELSE "stop"

\* Checks, validation and staging: a failure drops the transaction, nothing changed.
BeginBundle(k) ==
  /\ pc = "idle" /\ k \in Bundle
  /\ Stage(k) /\ Look
  /\ UNCHANGED <<content, backup, source, active, had, at, repair, outcome, created, before, faults,
                 hostVars>>

\* A component is deployed into an installation that is there already.
BeginComponent(k) ==
  /\ pc = "idle" /\ k \in Kind \ Bundle
  /\ svc # "not_installed" /\ content[State] # "none"
  /\ Stage(k) /\ Look
  /\ UNCHANGED <<content, backup, source, active, had, at, repair, outcome, created, before, faults,
                 hostVars>>

Begin(k) == BeginBundle(k) \/ BeginComponent(k)

Finish(result) == pc' = "done" /\ outcome' = result

\* A bundle whose stop fails returns at once; a component deployment restores the service.
Stop ==
  /\ pc = "stop"
  /\ \E result \in {"ok", "error"} :
       /\ StopService(result)
       /\ IF result = "ok" THEN pc' = "capture" /\ UNCHANGED <<outcome, faults>>
          ELSE IF kind \in Bundle THEN Finish("failed") /\ Fail("stop")
          ELSE pc' = "restart" /\ outcome' = "failed" /\ UNCHANGED faults
  /\ staged' = IF pc' = "capture" THEN staged ELSE [i \in Item |-> "none"]
  /\ UNCHANGED <<content, backup, source, todo, active, had, at, kind, previous, repair, created,
                 before, command>>

\* On Windows the capture driver must let go of the resources first.
Capture ==
  /\ pc = "capture"
  /\ \/ pc' = "activate" /\ UNCHANGED <<outcome, staged>>
     \/ /\ App \cap todo # {}
        /\ pc' = "restart" /\ outcome' = "failed" /\ staged' = [i \in Item |-> "none"]
  /\ UNCHANGED <<content, backup, source, todo, active, had, at, kind, previous, repair, created,
                 before, faults, hostVars>>

\* Swap::activate, first half: the target goes to its backup.
BackUp(i) ==
  /\ pc = "activate" /\ i \in First(todo)
  /\ IF content[i] = "none" THEN UNCHANGED <<content, backup, had>>
     ELSE /\ had' = had \cup {i}
          /\ backup' = [backup EXCEPT ![i] = content[i]]
          /\ content' = IF i \in File /\ source[i] # "none" THEN content
                        ELSE [content EXCEPT ![i] = "none"]
  /\ at' = i /\ todo' = todo \ {i} /\ pc' = "place"
  /\ UNCHANGED <<staged, source, active, kind, previous, repair, outcome, created, before, faults,
                 hostVars>>

\* The backup cannot be taken: the whole transaction is rolled back.
BackUpFails(i) ==
  /\ pc = "activate" /\ i \in First(todo)
  /\ had' \in {had, IF content[i] = "none" THEN had ELSE had \cup {i}}
  /\ pc' = "rollback" /\ repair' = "state"
  /\ UNCHANGED <<content, backup, staged, source, todo, active, at, kind, previous, outcome, created,
                 before, faults, hostVars>>

\* Swap::activate, second half: what was staged takes the target's name.
Place ==
  /\ pc = "place"
  /\ content' = [content EXCEPT ![at] = staged[at]]
  /\ staged' = [staged EXCEPT ![at] = "none"]
  /\ active' = active \cup {at}
  /\ at' = "none" /\ pc' = "activate"
  /\ UNCHANGED <<backup, source, todo, had, kind, previous, repair, outcome, created, before, faults,
                 hostVars>>

\* The rename fails: a renamed backup goes back, if it can, and the rest is rolled back.
PlaceFails ==
  /\ pc = "place" /\ staged[at] # "none"
  /\ IF at \in had /\ ~FileBackup(at)
       THEN \/ /\ content' = [content EXCEPT ![at] = backup[at]]
               /\ backup' = [backup EXCEPT ![at] = "none"] /\ UNCHANGED faults
            \/ Fail("rollback") /\ UNCHANGED <<content, backup>>
       ELSE UNCHANGED <<content, backup, faults>>
  /\ at' = "none" /\ pc' = "rollback" /\ repair' = "state"
  /\ UNCHANGED <<staged, source, todo, active, had, kind, previous, outcome, created, before,
                 hostVars>>

Activated ==
  /\ pc = "activate" /\ todo = {}
  /\ pc' = CASE kind \in Bundle \cup {"all"} -> "ensure"
             [] kind = "bin" -> "install"
             [] OTHER -> "start"
  /\ UNCHANGED <<swapVars, kind, previous, repair, outcome, created, before, faults, hostVars>>

\* How a failure after activation is undone.
Undo(from) ==
  /\ pc' = IF kind \in Bundle /\ from # "ensure" THEN "undo_stop" ELSE "undo_command"
  /\ repair' = IF (kind \in Bundle /\ from = "ensure") \/ ~HasBin(kind) THEN "state"
               ELSE "registration"

Ensure ==
  /\ pc = "ensure"
  /\ \/ pc' = "install" /\ UNCHANGED repair
     \/ Undo("ensure")
  /\ UNCHANGED <<swapVars, kind, previous, outcome, created, before, faults, hostVars>>

Install ==
  /\ pc = "install"
  /\ \E result \in {"ok", "error"} :
       /\ InstallService(result)
       /\ IF result = "ok" THEN pc' = "register" /\ UNCHANGED repair ELSE Undo("install")
  /\ UNCHANGED <<swapVars, kind, previous, outcome, created, before, faults, command>>

Register ==
  /\ pc = "register"
  /\ \/ created' = ~command /\ command' = TRUE /\ pc' = "start" /\ UNCHANGED repair
     \/ ~command /\ Undo("register") /\ UNCHANGED <<command, created>>
  /\ UNCHANGED <<swapVars, kind, previous, outcome, before, faults, svc, daemon>>

\* A bundle always starts the service, a component only one that was running.
Start ==
  /\ pc = "start"
  /\ IF kind \notin Bundle /\ previous \notin Up
       THEN pc' = "commit" /\ outcome' = "committed" /\ UNCHANGED <<repair, faults, svc, daemon>>
       ELSE \E result \in {"ok", "error"} :
              /\ StartService(result)
              /\ IF result = "ok"
                   THEN /\ pc' = IF kind \in Bundle THEN "health" ELSE "commit"
                        /\ outcome' = IF kind \in Bundle THEN outcome ELSE "committed"
                        /\ UNCHANGED <<repair, faults>>
                   ELSE Undo("start") /\ Fail("start") /\ UNCHANGED outcome
  /\ UNCHANGED <<swapVars, kind, previous, created, before, command>>

\* Within thirty seconds the new daemon answers with its version, or it does not.
Health ==
  /\ pc = "health"
  /\ \/ svc = "running" /\ daemon = "new" /\ pc' = "commit" /\ outcome' = "committed"
        /\ UNCHANGED repair
     \/ Undo("health") /\ UNCHANGED outcome
  /\ UNCHANGED <<swapVars, kind, previous, created, before, faults, hostVars>>

\* RestoreTransaction::commit removes each backup; one it cannot remove stays behind.
CleanUp(i) ==
  /\ pc = "commit" /\ i \in active
  /\ active' = active \ {i}
  /\ backup' \in {backup, [backup EXCEPT ![i] = "none"]}
  /\ UNCHANGED <<content, staged, source, todo, had, at, runVars, hostVars>>

Commit ==
  /\ pc = "commit" /\ active = {} /\ Finish("committed")
  /\ UNCHANGED <<swapVars, kind, previous, repair, created, before, faults, hostVars>>

\* Mutant of UndoStop: the new daemon is left running while its files are put back.
UndoStopSkipped ==
  /\ pc = "undo_stop" /\ pc' = "undo_command"
  /\ UNCHANGED <<swapVars, kind, previous, repair, outcome, created, before, faults, hostVars>>

UndoStop ==
  /\ pc = "undo_stop"
  /\ \E result \in {"ok", "error"} :
       StopService(result) /\ Fail(IF result = "ok" THEN "none" ELSE "service")
  /\ pc' = "undo_command"
  /\ UNCHANGED <<swapVars, kind, previous, repair, outcome, created, before, command>>

UndoCommand ==
  /\ pc = "undo_command" /\ pc' = "rollback"
  /\ command' \in IF created THEN {FALSE, command} ELSE {command}
  /\ UNCHANGED <<swapVars, kind, previous, repair, outcome, created, before, faults, svc, daemon>>

\* Mutant of RollBack: a target whose backup was a copy is taken for untouched.
RollBackKeepsFiles(i) ==
  /\ pc = "rollback" /\ i \in Latest(active)
  /\ active' = active \ {i}
  /\ content' = [content EXCEPT ![i] = IF FileBackup(i) THEN @ ELSE IF i \in had THEN backup[i] ELSE "none"]
  /\ backup' = [backup EXCEPT ![i] = IF FileBackup(i) THEN @ ELSE "none"]
  /\ UNCHANGED <<staged, source, todo, had, at, kind, pc, previous, repair, outcome, created, before,
                 faults, hostVars>>

\* Swap::rollback of one activated swap, newest first; its failures are ignored.
RollBack(i) ==
  /\ pc = "rollback" /\ i \in Latest(active)
  /\ active' = active \ {i}
  /\ \/ /\ content' = [content EXCEPT ![i] = IF i \in had THEN backup[i] ELSE "none"]
        /\ backup' = [backup EXCEPT ![i] = "none"]
        /\ UNCHANGED faults
     \/ \* the target stays, or it is gone and its backup does not come back
        /\ content' \in {content, IF FileBackup(i) THEN content ELSE [content EXCEPT ![i] = "none"]}
        /\ Fail("rollback") /\ UNCHANGED backup
  /\ UNCHANGED <<staged, source, todo, had, at, kind, pc, previous, repair, outcome, created, before,
                 hostVars>>

RolledBack ==
  /\ pc = "rollback" /\ active = {}
  /\ staged' = [i \in Item |-> "none"]
  /\ pc' = IF repair = "registration" THEN "restore" ELSE "restart"
  /\ outcome' = "failed"
  /\ UNCHANGED <<content, backup, source, todo, active, had, at, kind, previous, repair, created,
                 before, faults, hostVars>>

\* restore_registration_after_rollback
RestoreRegistration ==
  /\ pc = "restore"
  /\ \E result \in {"ok", "error"} :
       /\ Fail(IF result = "ok" THEN "none" ELSE "service")
       /\ IF previous = "not_installed" THEN UninstallService(result) /\ pc' = "done"
          ELSE InstallService(result) /\ pc' = "restart"
  /\ UNCHANGED <<swapVars, kind, previous, repair, outcome, created, before, command>>

\* restore_service_state
RestoreService ==
  /\ pc = "restart"
  /\ \/ /\ previous \in Up
        /\ \E result \in {"ok", "error"} :
             StartService(result) /\ Fail(IF result = "ok" THEN "none" ELSE "service")
     \/ /\ previous \in {"stopped", "stop_pending"}
        /\ \E result \in {"ok", "error"} :
             StopService(result) /\ Fail(IF result = "ok" THEN "none" ELSE "service")
     \/ previous = "not_installed" /\ UNCHANGED <<svc, daemon, faults>>
  /\ Finish("failed")
  /\ UNCHANGED <<swapVars, kind, previous, repair, created, before, command>>

\* The installer dies.  Nothing finishes or undoes what it began.
Crash ==
  /\ pc \notin {"idle", "done", "crashed"} /\ pc' = "crashed"
  /\ UNCHANGED <<swapVars, kind, previous, repair, outcome, created, before, faults, hostVars>>

Transaction ==
  \/ \E i \in Item : BackUp(i) \/ BackUpFails(i) \/ CleanUp(i) \/ RollBack(i)
  \/ Place \/ PlaceFails \/ Activated \/ RolledBack \/ Commit

Service == Stop \/ Install \/ Start \/ UndoStop \/ RestoreRegistration \/ RestoreService

Next ==
  \/ \E k \in Kind : Begin(k)
  \/ Transaction \/ Service
  \/ Capture \/ Ensure \/ Register \/ Health \/ UndoCommand
  \/ Boot \/ StopEnds \/ Crash

Spec == Init /\ [][Next]_vars

----------------------------------------------------------------------------
(* Properties.                                                             *)

Kept(i, c) == c = before[i] \/ (i = State /\ before[i] = "old" /\ c = "migrated")

\* Until a deployment commits, every path that held something holds it at its target or at its
\* backup, wherever the installer dies and whatever rename or removal fails on the way back.
NothingLost ==
  outcome # "committed" =>
    \A i \in Item : before[i] # "none" => Kept(i, content[i]) \/ Kept(i, backup[i])

\* A deployment that failed and whose rollback met no error of its own left every path as it
\* found it (a release's document may have been migrated by the daemon it started).
PathsRestored ==
  pc = "done" /\ outcome = "failed" /\ "rollback" \notin faults =>
    \A i \in Item : Kept(i, content[i])

\* While a release is installed or rolled back, the new executable never stands next to
\* resources that are not the release's, even if the installer dies there.
ExecutableHasItsResources ==
  kind = "release" /\ content[Exe] = "new" /\ "rollback" \notin faults =>
    \A i \in App : content[i] = source[i]

\* A failed bundle leaves no daemon of the new version running, and a service that was up
\* is up again, unless it refused the document the new daemon had migrated.
ServiceRestored ==
  pc = "done" /\ outcome = "failed" /\ kind \in Bundle /\ faults \cap {"stop", "service", "rollback"} = {} =>
    /\ daemon # "new"
    /\ previous \in Up => svc \in Up \/ content[State] = "migrated"

\* Both halves of a rollback: the files of every path, and the service that uses them.
ReleaseRestored == PathsRestored /\ ServiceRestored

\* Wherever a deployment fails or its installer dies, nothing is lost, no executable meets
\* foreign resources, and a rollback gives back the files and the service it found.
DeploymentSafe == NothingLost /\ ExecutableHasItsResources /\ ReleaseRestored
=============================================================================
