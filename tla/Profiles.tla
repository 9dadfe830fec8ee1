------------------------------- MODULE Profiles -------------------------------
(***************************************************************************)
(* Subscription profiles (sempre-manager/src/subscription.rs,              *)
(* subscription_mutation.rs, subscription_catalog.rs, custom_node.rs and   *)
(* scheduler.rs).  Two files are kept in step without a transaction: the   *)
(* catalog of profiles, and the document, which says which profile is      *)
(* active and of which revision the stored configuration was built.  Most  *)
(* operations hold the operation lock; an import from the command line     *)
(* edits the catalog first and takes the lock only to activate.            *)
(*                                                                         *)
(* A core is selected, and the configuration is the one of its target.     *)
(***************************************************************************)
EXTENDS Integers, FiniteSets

CONSTANTS
    Profile,
    Source,         \* what a profile compiles: its sources and settings
    Imported,       \* the source an import adds
    Network,        \* the network and DNS settings a build depends on
    CustomNode,     \* what a custom node may say
    MaxRevision,    \* bound on the revisions of a profile
    MaxImports      \* bound on imports

\* An identifier not given yet, and one whose profile was deleted: it never comes back.
Unused == [revision |-> 0]
Deleted == [revision |-> -1]
NoBuild == [profile |-> "none"]
Quiet == [kind |-> "idle"]

VARIABLES
    catalog,        \* subscriptions.json: a profile per identifier, or none
    custom,         \* the custom node of the catalog
    activeProfile,  \* document.active_profile_id
    build,          \* document.config_builds: what the configuration claims to be
    configuration,  \* what the stored configuration was compiled from
    network,        \* the network settings' file
    holder,         \* the operation lock's holder and what it has read
    importer,       \* an import before it asks for the lock
    interval,       \* whether updates are scheduled
    overdue,        \* the last check is an interval ago
    wakeup,         \* the schedule's Notify
    scheduler,      \* the scheduler's task
    imports

profileVars ==
    <<catalog, custom, activeProfile, build, configuration, network, holder, importer,
      interval, overdue, wakeup, scheduler, imports>>
schedule == <<interval, overdue, wakeup, scheduler>>
builds == <<build, configuration>>

Known(p) == catalog[p].revision > 0
New(s) == [revision |-> 1, sources |-> s, node |-> TRUE]

\* What a profile compiles to: its sources, the custom node it refers to and the settings.
CompiledFrom(p, item) ==
    [profile |-> p, sources |-> item.sources,
     node |-> IF item.node THEN custom ELSE "none", network |-> network]
BuildOf(p, item) == [profile |-> p, revision |-> item.revision, network |-> network]

SchedulerAt(label) == [at |-> label]

ProfilesInit ==
    /\ catalog \in [Profile -> {Unused, New({})}]
    /\ \E p \in Profile : Known(p)
    /\ custom \in CustomNode /\ network \in Network
    /\ activeProfile \in {p \in Profile : Known(p)} \cup {"none"}
    /\ build = NoBuild /\ configuration = NoBuild
    /\ holder = Quiet /\ importer = Quiet
    /\ interval \in BOOLEAN /\ overdue \in BOOLEAN /\ wakeup = FALSE
    /\ scheduler = SchedulerAt("compute")
    /\ imports = 0

(***************************************************************************)
(* prepare_subscription_locked: read, compile, stage, record.              *)
(***************************************************************************)
LockFree == holder = Quiet
Unlock == holder' = Quiet

Compiling(p, activate, by) ==
    [kind |-> "compile", profile |-> p, activate |-> activate, by |-> by,
     read |-> catalog[p], now |-> activeProfile = p \/ activate]

\* A refresh or an activation asked for by a caller.
PrepareProfile ==
    /\ LockFree
    /\ \E p \in Profile, activate \in BOOLEAN :
         Known(p) /\ holder' = Compiling(p, activate, "caller")
    /\ UNCHANGED <<catalog, custom, activeProfile, network, importer, imports, builds, schedule>>

\* The start of a runtime compiles only what the document does not claim to have.
PrepareForRuntime ==
    /\ LockFree /\ activeProfile # "none" /\ Known(activeProfile)
    /\ build # BuildOf(activeProfile, catalog[activeProfile])
    /\ holder' = Compiling(activeProfile, FALSE, "caller")
    /\ UNCHANGED <<catalog, custom, activeProfile, network, importer, imports, builds, schedule>>

\* Whoever asked learns how it ended.
Ends(done) ==
    /\ Unlock
    /\ scheduler' = IF holder.by = "scheduler"
                    THEN SchedulerAt(IF done THEN "compute" ELSE "failed") ELSE scheduler
    /\ UNCHANGED <<interval, wakeup>>

\* Fetching and compiling fail, or yield the configuration of what was read.
Compile ==
    /\ holder.kind = "compile"
    /\ \/ Ends(FALSE) /\ UNCHANGED overdue
       \/ /\ holder' =
               [kind |-> "stage", by |-> holder.by, profile |-> holder.profile,
                activate |-> holder.activate, read |-> holder.read,
                now |-> holder.now,
                result |-> CompiledFrom(holder.profile, holder.read)]
          /\ UNCHANGED schedule
    /\ UNCHANGED <<catalog, custom, activeProfile, network, importer, imports, builds>>

\* activate_config_content_updating: one update of the document, or none of it.
StageBuild ==
    /\ holder.kind = "stage"
    /\ \/ /\ holder.now
          /\ build' = BuildOf(holder.profile, holder.read)
          /\ configuration' = holder.result
          /\ activeProfile' = IF holder.activate THEN holder.profile ELSE activeProfile
          /\ overdue' = FALSE
          /\ holder' = [holder EXCEPT !.kind = "record"]
          /\ UNCHANGED <<interval, wakeup, scheduler>>
       \/ /\ ~holder.now
          /\ holder' = [holder EXCEPT !.kind = "record"]
          /\ UNCHANGED <<activeProfile, builds, schedule>>
       \/ Ends(FALSE) /\ UNCHANGED <<overdue, activeProfile, builds>>
    /\ UNCHANGED <<catalog, custom, network, importer, imports>>

\* record_compilation writes back the profile it has compiled, metadata and all.
\* Without the revision check the profile is put back as it was read.
RecordsAlways == TRUE
MayRecord == catalog[holder.profile].revision = holder.read.revision

RecordCompilation ==
    /\ holder.kind = "record"
    /\ IF MayRecord
       THEN /\ catalog' = [catalog EXCEPT ![holder.profile].sources = holder.read.sources]
            /\ Ends(TRUE)
       ELSE UNCHANGED catalog /\ Ends(FALSE)
    /\ UNCHANGED <<overdue, custom, activeProfile, network, importer, imports, builds>>

(***************************************************************************)
(* Edits that hold the operation lock.                                     *)
(***************************************************************************)
Editable(p) == Known(p) /\ catalog[p].revision < MaxRevision
Edited(p, s) ==
    [catalog EXCEPT ![p].sources = s, ![p].revision = @ + 1]

SaveProfile ==
    /\ LockFree
    /\ \E p \in Profile, s \in SUBSET (Source \cup {Imported}) :
         Editable(p) /\ catalog' = Edited(p, s)
    /\ UNCHANGED <<custom, activeProfile, network, holder, importer, imports, builds, schedule>>

CreateProfile ==
    /\ LockFree
    /\ \E p \in Profile : catalog[p] = Unused /\ catalog' = [catalog EXCEPT ![p] = New({})]
    /\ UNCHANGED <<custom, activeProfile, network, holder, importer, imports, builds, schedule>>

\* The active profile stays, and so does the last one.
\* Without the lock: a profile is deleted while it is being activated.
MayDeleteUnlocked(p) == activeProfile # p
MayDelete(p) == LockFree /\ activeProfile # p

DeleteProfile ==
    /\ \E p \in Profile :
         /\ Known(p) /\ MayDelete(p)
         /\ \E q \in Profile \ {p} : Known(q)
         /\ catalog' = [catalog EXCEPT ![p] = Deleted]
    /\ UNCHANGED <<custom, activeProfile, network, holder, importer, imports, builds, schedule>>

\* A custom node that changes is a new revision of every profile that refers to it.
\* A node that changes behind the revision's back.
RevisedNever(item) == item
Revised(item) == [item EXCEPT !.revision = @ + 1]
SaveCustomNode ==
    /\ LockFree
    /\ \E n \in CustomNode, chosen \in SUBSET {p \in Profile : Known(p)} :
         /\ \A p \in Profile : Known(p) => Editable(p)
         /\ custom' = n
         /\ catalog' = [p \in Profile |->
              IF Known(p) /\ (catalog[p].node \/ p \in chosen)
              THEN [Revised(catalog[p]) EXCEPT !.node = p \in chosen]
              ELSE catalog[p]]
    /\ UNCHANGED <<activeProfile, network, holder, importer, imports, builds, schedule>>

\* set_subscription_source edits the catalog, then the document; when that fails it
\* puts the profile back, unless somebody has edited it since.
SetSource ==
    /\ LockFree
    /\ \E p \in Profile, s \in {{x} : x \in Source} \cup {{}} :
         /\ Editable(p) /\ (activeProfile # "none" => p = activeProfile) /\ s # catalog[p].sources
         /\ catalog' = Edited(p, s)
         /\ holder' = [kind |-> "document", profile |-> p, read |-> catalog[p], own |-> s]
    /\ UNCHANGED <<custom, activeProfile, network, importer, imports, builds, schedule>>

SetSourceRecord ==
    /\ holder.kind = "document"
    /\ \/ /\ activeProfile' = IF activeProfile = "none" THEN holder.profile ELSE activeProfile
          /\ Unlock
       \/ holder' = [holder EXCEPT !.kind = "undo"] /\ UNCHANGED activeProfile
    /\ UNCHANGED <<catalog, custom, network, importer, imports, builds, schedule>>

MayUndo == catalog[holder.profile].revision = holder.read.revision + 1
UndoSource ==
    /\ holder.kind = "undo"
    /\ catalog' = IF MayUndo THEN [catalog EXCEPT ![holder.profile] = holder.read]
                  ELSE catalog
    /\ Unlock
    /\ UNCHANGED <<custom, activeProfile, network, importer, imports, builds, schedule>>

\* The settings are saved, and the active profile is compiled for them.
UpdateNetwork ==
    /\ LockFree
    /\ \E n \in Network \ {network} : network' = n
    /\ holder' = IF activeProfile = "none" THEN Quiet ELSE [kind |-> "settings"]
    /\ UNCHANGED <<catalog, custom, activeProfile, importer, imports, builds, schedule>>

CompileForNetwork ==
    /\ holder.kind = "settings"
    /\ holder' = Compiling(activeProfile, FALSE, "caller")
    /\ UNCHANGED <<catalog, custom, activeProfile, network, importer, imports, builds, schedule>>

(***************************************************************************)
(* An import: it chooses and edits a profile without the lock.             *)
(***************************************************************************)
BeginImport ==
    /\ importer = Quiet /\ imports < MaxImports
    /\ \E p \in Profile :
         /\ Known(p) /\ (activeProfile # "none" => p = activeProfile)
         /\ importer' = [kind |-> "edit", profile |-> p]
    /\ imports' = imports + 1
    /\ UNCHANGED <<catalog, custom, activeProfile, network, holder, builds, schedule>>

\* The update looks the profile up again: it may be gone.
EditImport ==
    /\ importer.kind = "edit"
    /\ IF Known(importer.profile)
       THEN /\ Editable(importer.profile)
            /\ catalog' = Edited(importer.profile,
                                 catalog[importer.profile].sources \cup {Imported})
            /\ importer' = [importer EXCEPT !.kind = "activate"]
       ELSE importer' = Quiet /\ UNCHANGED catalog
    /\ UNCHANGED <<custom, activeProfile, network, holder, imports, builds, schedule>>

ActivateImport ==
    /\ importer.kind = "activate" /\ LockFree
    /\ importer' = Quiet
    /\ holder' = IF Known(importer.profile)
                    THEN Compiling(importer.profile, TRUE, "caller") ELSE Quiet
    /\ UNCHANGED <<catalog, custom, activeProfile, network, imports, builds, schedule>>

(***************************************************************************)
(* The schedule.                                                           *)
(***************************************************************************)
\* A change made in this process wakes the scheduler, one made by the command
\* line does not.
SetInterval ==
    /\ LockFree
    /\ interval' = ~interval /\ wakeup' \in BOOLEAN
    /\ UNCHANGED <<overdue, scheduler, catalog, custom, activeProfile, network, holder, importer,
                   imports, builds>>

Elapse ==
    /\ ~overdue /\ overdue' = TRUE
    /\ UNCHANGED <<interval, wakeup, scheduler, catalog, custom, activeProfile, network, holder,
                   importer, imports, builds>>

Scheduled ==
    /\ interval /\ activeProfile # "none" /\ Known(activeProfile)
    /\ catalog[activeProfile].sources \cap Source # {}

\* next_subscription_update: what is due within SCHEDULE_RECHECK is waited for, what is due
\* later or has nothing to update is looked at again.
\* Waiting only for a wakeup of this process.
UnscheduledSleeps == SchedulerAt("sleep")
Unscheduled == SchedulerAt("recheck")
ComputeDelay ==
    /\ scheduler.at = "compute"
    /\ \/ Scheduled /\ scheduler' = SchedulerAt("wait")
       \/ (Scheduled => ~overdue) /\ scheduler' = Unscheduled
    /\ UNCHANGED <<interval, overdue, wakeup, catalog, custom, activeProfile, network, holder,
                   importer, imports, builds>>

WaitEnds ==
    /\ \/ /\ scheduler.at \in {"wait", "recheck", "sleep"} /\ wakeup
          /\ wakeup' = FALSE /\ scheduler' = SchedulerAt("compute")
       \/ /\ scheduler.at \in {"wait", "recheck"} /\ UNCHANGED wakeup
          /\ scheduler' = SchedulerAt(IF scheduler.at = "wait" THEN "read" ELSE "compute")
    /\ UNCHANGED <<interval, overdue, catalog, custom, activeProfile, network, holder, importer,
                   imports, builds>>

\* update_active_subscription reads which profile is active, then waits for the lock.
ChooseUpdate ==
    /\ scheduler.at = "read"
    /\ scheduler' = IF activeProfile = "none" THEN SchedulerAt("compute")
                    ELSE [at |-> "ask", profile |-> activeProfile]
    /\ UNCHANGED <<interval, overdue, wakeup, catalog, custom, activeProfile, network, holder,
                   importer, imports, builds>>

ScheduledUpdate ==
    /\ scheduler.at = "ask" /\ LockFree
    /\ IF Known(scheduler.profile)
       THEN /\ holder' = Compiling(scheduler.profile, FALSE, "scheduler")
            /\ scheduler' = SchedulerAt("updating")
       ELSE scheduler' = SchedulerAt("failed") /\ UNCHANGED holder
    /\ UNCHANGED <<interval, overdue, wakeup, catalog, custom, activeProfile, network, importer,
                   imports, builds>>

\* record_subscription_failure counts as a check.
RecordFailedUpdate ==
    /\ scheduler.at = "failed"
    /\ scheduler' = SchedulerAt("compute") /\ overdue' = FALSE
    /\ UNCHANGED <<interval, wakeup, catalog, custom, activeProfile, network, holder, importer,
                   imports, builds>>

------------------------------------------------------------------------------
OperationStep ==
    \/ Compile \/ StageBuild \/ RecordCompilation
    \/ SetSourceRecord \/ UndoSource \/ CompileForNetwork
SchedulerStep ==
    \/ ComputeDelay \/ WaitEnds \/ ChooseUpdate \/ ScheduledUpdate \/ RecordFailedUpdate

EditStep ==
    \/ OperationStep
    \/ PrepareProfile \/ PrepareForRuntime
    \/ SaveProfile \/ CreateProfile \/ DeleteProfile \/ SaveCustomNode
    \/ SetSource \/ UpdateNetwork
    \/ BeginImport \/ EditImport \/ ActivateImport

ProfilesNext == EditStep \/ SchedulerStep \/ SetInterval \/ Elapse

\* The lock is polled, and every holder gives it back.
ProfilesFairness ==
    /\ WF_profileVars(OperationStep)
    /\ WF_profileVars(SchedulerStep) /\ SF_profileVars(ScheduledUpdate)
    /\ WF_profileVars(Elapse)

ProfilesSpec == ProfilesInit /\ [][ProfilesNext]_profileVars /\ ProfilesFairness

(***************************************************************************)
(* Properties.                                                             *)
(***************************************************************************)
ProfilesTypeOK ==
    /\ catalog \in [Profile -> {Unused, Deleted} \cup
         [revision : 1 .. MaxRevision, sources : SUBSET (Source \cup {Imported}),
          node : BOOLEAN]]
    /\ custom \in CustomNode /\ network \in Network
    /\ activeProfile \in Profile \cup {"none"}
    /\ interval \in BOOLEAN /\ overdue \in BOOLEAN /\ wakeup \in BOOLEAN

\* The two files agree: the document's active profile is one of the catalog
\* (delete_subscription_profile against an activation that is compiling it).
ActiveExists == activeProfile # "none" => Known(activeProfile)

\* What a start takes for current is current: when the document claims to have been
\* built from the catalog's revision and the saved settings, its configuration was
\* compiled from exactly these (prepare_active_subscription_for_runtime_locked).
BuildCurrent ==
    build # NoBuild /\ Known(build.profile)
      /\ build = BuildOf(build.profile, catalog[build.profile])
    => configuration = CompiledFrom(build.profile, catalog[build.profile])

\* The document's profile and build are those of the catalog, in the other file.
FilesOfProfileAgree == ActiveExists /\ BuildCurrent

\* Neither the record of a compilation nor the undoing of a source takes back what
\* an import has added to the profile meanwhile.
Own == IF holder.kind = "undo" THEN holder.own ELSE {}
EditsKept ==
    [][holder.kind \in {"record", "undo"} =>
         \A p \in Profile :
           Known(p) => catalog[p].sources \ Own \subseteq catalog'[p].sources]_profileVars

\* As long as an active profile has sources to update on a schedule, its last check never
\* stays an interval ago, whoever wrote the schedule (run_subscription_scheduler).
ScheduleFollowed == <>[]Scheduled => []<>~overdue

===============================================================================
