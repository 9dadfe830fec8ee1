------------------------------- MODULE Packages -------------------------------
(***************************************************************************)
(* What is downloaded and put in place of something that is in use: the    *)
(* web interface of the client (sempre-ui, web_ui_api), the dashboard of a *)
(* router's core (core_dashboard), a core that a task downloads            *)
(* (core_download_task) and, the other way round, the application that is  *)
(* removed (application_uninstall).  A directory is replaced by renaming   *)
(* two, by callers who do not know of each other; a download is accepted   *)
(* when its size and digest are those the release names (sempre-artifact). *)
(* Simplifications: a package is a number; a directory that is partly      *)
(* deleted is a torn one; each of the parts is explored by itself.         *)
(***************************************************************************)
EXTENDS Integers, FiniteSets

CONSTANTS
    Job,              \* callers of activate and remove
    MaxPackages, MaxTasks, MaxPackageFaults,
    ArtifactSize,     \* what the release says
    ExpandedLimit     \* MAX_EXPANDED_SIZE

ASSUME PackageAssumption == ArtifactSize \in Nat /\ ExpandedLimit \in Nat

VARIABLES
    part,             \* which of the parts
    proposal,         \* the package that waits for confirmation, 0 for none
    prepared,         \* packages so far
    current, backup,      \* the directories "current" and "current.previous"
    jobs,             \* what each caller does
    expected,         \* the package placed last
    spoiled, crowded, removed, \* see the properties
    dashboard, boot,  \* its directory; how far the start of the core has come
    installers,       \* the installs of the dashboard: that of this core, and one before
    shown, workers,    \* the download of a core that is shown, and every one there was
    guard,            \* the worker that has the operation lock, 0 for none
    fetch,            \* one download and the extraction of what it brought
    removal, remains,    \* the removal of the application, what is left of it
    packageFaults

packageVars ==
    <<part, proposal, prepared, current, backup, jobs, expected, spoiled, crowded, removed,
      dashboard, boot, installers, shown, workers, guard, fetch, removal, remains,
      packageFaults>>
uiVars == <<proposal, prepared, current, backup, jobs, expected, spoiled, crowded, removed>>
dashboardVars == <<dashboard, boot, installers>>
taskVars == <<shown, workers, guard>>

NoDirectory == [package |-> 0, whole |-> TRUE]
Torn(directory) ==
    IF directory = NoDirectory THEN directory ELSE [directory EXCEPT !.whole = FALSE]
IdleJob == [step |-> "idle", package |-> 0, alone |-> FALSE]
NoInstaller == [step |-> "off", backup |-> "missing"]
NoTask == [id |-> 0, state |-> "none", abortable |-> FALSE]
NoWorker == [step |-> "none", asked |-> 0, result |-> "none"]
NoFetch == [step |-> "off", sends |-> 0, written |-> 0, right |-> TRUE, file |-> "none",
            cached |-> "none", expanded |-> 0, disk |-> 0, inside |-> TRUE]
NoRemoval == [step |-> "off", purge |-> FALSE, shared |-> FALSE, problem |-> FALSE]
Installed == [service |-> TRUE, cores |-> TRUE, document |-> "names", programs |-> TRUE,
              purging |-> FALSE]   \* the cores were removed to remove the document too

PackageInit ==
    /\ part \in {"ui", "dashboard", "task", "fetch", "removal"}
    /\ proposal = 0 /\ prepared = 0 /\ current = NoDirectory /\ backup = NoDirectory
    /\ jobs = [j \in Job |-> IdleJob] /\ expected = 0
    /\ spoiled = FALSE /\ crowded = FALSE /\ removed = FALSE
    /\ dashboard = "missing" /\ boot = "down" /\ installers = [i \in 1..2 |-> NoInstaller]
    /\ shown = NoTask /\ workers = [w \in 1..MaxTasks |-> NoWorker] /\ guard = 0
    /\ fetch = NoFetch /\ removal = NoRemoval /\ remains = Installed /\ packageFaults = 0

PackageFault == packageFaults < MaxPackageFaults /\ packageFaults' = packageFaults + 1

(***************************************************************************)
(* The web interface: a package is prepared, shown, and activated when it  *)
(* is confirmed; the command line activates without asking.                *)
(***************************************************************************)
InUi == part = "ui" /\ UNCHANGED <<part, dashboardVars, taskVars, fetch, removal, remains>>
IdleCaller(j) == jobs[j] = IdleJob
Quiet == \A j \in Job : IdleCaller(j)

\* The archive is fetched, unpacked beside the others and read: nobody sees it yet.
PreparePackage == prepared < MaxPackages /\ prepared' = prepared + 1
\* UiUpdateTasks.prepare refuses a second one, whose directory is dropped with it.
Propose ==
    /\ InUi /\ proposal = 0 /\ PreparePackage /\ proposal' = prepared'
    /\ UNCHANGED <<current, backup, jobs, expected, spoiled, crowded, removed, packageFaults>>

Decline ==
    /\ InUi /\ proposal # 0 /\ proposal' = 0
    /\ UNCHANGED <<prepared, current, backup, jobs, expected, spoiled, crowded, removed>>
    /\ UNCHANGED packageFaults

StillProposed == proposal
\* What stays pending when a proposal is taken: nothing.
StillPending == 0
StartJob(j, step, package) ==
    /\ IdleCaller(j)
    /\ jobs' = [k \in Job |-> IF k = j THEN [step |-> step, package |-> package, alone |-> Quiet]
                              ELSE [jobs[k] EXCEPT !.alone = FALSE]]
    /\ spoiled' = (spoiled \/ ~Quiet)
    /\ crowded' = (crowded \/ \E k, l \in Job : k # l /\ ~IdleCaller(k) /\ ~IdleCaller(l))
    /\ UNCHANGED <<current, backup, expected, packageFaults>>

Confirm(j) ==
    /\ InUi /\ proposal # 0 /\ StartJob(j, "clear", proposal) /\ proposal' = StillPending
    /\ UNCHANGED <<prepared, removed>>
InstallAtOnce(j) ==
    /\ InUi /\ PreparePackage /\ StartJob(j, "clear", prepared') /\ UNCHANGED <<proposal, removed>>
RemoveUi(j) ==
    /\ InUi /\ expected # 0 /\ ~removed
    /\ StartJob(j, "delete", 0) /\ removed' = TRUE /\ UNCHANGED <<proposal, prepared>>

JobAt(j, step) == InUi /\ jobs[j].step = step
JobGoes(j, step) == jobs' = [jobs EXCEPT ![j].step = step]
JobEnds(j) == jobs' = [jobs EXCEPT ![j] = IdleJob]
Uncrowded == UNCHANGED <<proposal, prepared, spoiled, crowded, removed, packageFaults>>

\* remove_dir_all, of what an activation before may have left, or of what this one replaced.
DeletePrevious(j) ==
    \/ /\ JobAt(j, "clear")
       /\ backup' = Torn(backup) /\ JobGoes(j, IF backup = NoDirectory THEN "look" ELSE "cleared")
       /\ UNCHANGED <<current, expected>> /\ Uncrowded
    \/ /\ JobAt(j, "cleared") /\ backup' = NoDirectory /\ JobGoes(j, "look")
       /\ UNCHANGED <<current, expected>> /\ Uncrowded
    \/ /\ JobAt(j, "drop")
       /\ backup' = Torn(backup) /\ JobGoes(j, IF backup = NoDirectory THEN "end" ELSE "dropped")
       /\ UNCHANGED <<current, expected>> /\ Uncrowded
    \/ /\ JobAt(j, "dropped") /\ backup' = NoDirectory /\ JobGoes(j, "end")
       /\ UNCHANGED <<current, expected>> /\ Uncrowded

Look(j) ==
    /\ JobAt(j, "look") /\ JobGoes(j, IF current = NoDirectory THEN "place" ELSE "move")
    /\ UNCHANGED <<current, backup, expected>> /\ Uncrowded

\* A directory is not renamed onto another.
MoveAside(j) ==
    /\ JobAt(j, "move")
    /\ IF current = NoDirectory \/ backup # NoDirectory
       THEN JobEnds(j) /\ UNCHANGED <<current, backup>>
       ELSE backup' = current /\ current' = NoDirectory /\ JobGoes(j, "place")
    /\ UNCHANGED expected /\ Uncrowded

PlaceUi(j) ==
    /\ JobAt(j, "place") /\ UNCHANGED backup
    /\ IF current # NoDirectory THEN JobGoes(j, "restore") /\ UNCHANGED <<current, expected>>
       ELSE /\ current' = [package |-> jobs[j].package, whole |-> TRUE]
            /\ expected' = jobs[j].package /\ JobGoes(j, "drop")
    /\ Uncrowded

RestoreUi(j) ==
    /\ JobAt(j, "restore") /\ JobEnds(j) /\ UNCHANGED expected
    /\ IF backup # NoDirectory /\ current = NoDirectory
       THEN current' = backup /\ backup' = NoDirectory
       ELSE UNCHANGED <<current, backup>>
    /\ Uncrowded

\* What an activation of its own replaced is as good as new.
EndActivation(j) ==
    /\ JobAt(j, "end") /\ JobEnds(j)
    /\ spoiled' = (spoiled /\ ~jobs[j].alone)
    /\ UNCHANGED <<current, backup, expected, proposal, prepared, crowded, removed, packageFaults>>

DeleteUi(j) ==
    \/ /\ JobAt(j, "delete") /\ current' = Torn(current)
       /\ JobGoes(j, "deleted") /\ UNCHANGED <<backup, expected>> /\ Uncrowded
    \/ /\ JobAt(j, "deleted")
       /\ IF current.whole THEN UNCHANGED <<current, expected>>
          ELSE current' = NoDirectory /\ expected' = 0
       /\ JobEnds(j) /\ UNCHANGED backup /\ Uncrowded

\* A rename or a deletion fails; only that of the leftovers is ignored.
UiFails(j) ==
    /\ InUi /\ jobs[j].step \in {"clear", "move", "place", "restore", "drop", "deleted"}
    /\ PackageFault
    /\ CASE jobs[j].step = "clear" -> JobGoes(j, "look")
         [] jobs[j].step = "place" -> JobGoes(j, "restore")
         [] OTHER -> JobEnds(j)
    /\ spoiled' = (spoiled \/ jobs[j].step \in {"restore", "deleted"})
    /\ UNCHANGED <<current, backup, expected, proposal, prepared, crowded, removed>>

KillCaller(j) ==
    /\ InUi /\ ~IdleCaller(j) /\ PackageFault /\ spoiled' = TRUE /\ JobEnds(j)
    /\ UNCHANGED <<current, backup, expected, proposal, prepared, crowded, removed>>

UiNext ==
    \/ Propose \/ Decline
    \/ \E j \in Job :
         \/ Confirm(j) \/ InstallAtOnce(j) \/ RemoveUi(j) \/ DeletePrevious(j) \/ Look(j)
         \/ MoveAside(j) \/ PlaceUi(j) \/ RestoreUi(j) \/ EndActivation(j) \/ DeleteUi(j)
         \/ UiFails(j) \/ KillCaller(j)

(***************************************************************************)
(* The dashboard of a router's core.  The installs: 1 of the core that     *)
(* runs, 2 one that was still at work in its thread when its core stopped. *)
(***************************************************************************)
InDashboard == part = "dashboard" /\ UNCHANGED <<part, uiVars, taskVars, fetch, removal, remains>>
NotInstalling(i) == installers[i] = NoInstaller
StopInstall(i) == installers' = [installers EXCEPT ![i] = NoInstaller]

\* prepare: create the directory, look whether it is empty, write the placeholder.
PrepareDashboard ==
    \/ /\ InDashboard /\ boot = "down" /\ boot' = "made"
       /\ dashboard' = (IF dashboard = "missing" THEN "empty" ELSE dashboard)
       /\ UNCHANGED <<installers, packageFaults>>
    \/ /\ InDashboard /\ boot = "made"
       /\ boot' = (CASE dashboard = "missing" -> "down" [] dashboard = "empty" -> "fill"
                     [] OTHER -> "ready")
       /\ UNCHANGED <<dashboard, installers, packageFaults>>
    \/ /\ InDashboard /\ boot = "fill" /\ boot' = "ready" /\ dashboard' = "placeholder"
       /\ UNCHANGED <<installers, packageFaults>>

\* The core reads its directory; maintain_core_dashboard runs as long as the core does.
ServeDashboard ==
    /\ InDashboard /\ boot = "ready" /\ boot' = "up"
    /\ UNCHANGED <<dashboard, installers, packageFaults>>
EndServing ==
    /\ InDashboard /\ boot \in {"up", "kept"} /\ NotInstalling(2) /\ boot' = "down"
    /\ installers' = [installers EXCEPT ![2] = installers[1], ![1] = NoInstaller]
    /\ UNCHANGED <<dashboard, packageFaults>>

\* awaiting_download; the archive is fetched again after a failure.
InstallDashboard ==
    /\ InDashboard /\ boot = "up" /\ NotInstalling(1) /\ UNCHANGED <<dashboard, packageFaults>>
    /\ IF dashboard = "placeholder"
       THEN installers' = [installers EXCEPT ![1].step = "work"] /\ UNCHANGED boot
       ELSE boot' = "kept" /\ UNCHANGED installers

ReplaceDashboard(i) ==
    \/ /\ InDashboard /\ installers[i].step = "work" /\ UNCHANGED <<boot, packageFaults>>
       /\ IF dashboard = "missing" THEN StopInstall(i) /\ UNCHANGED dashboard
          ELSE /\ installers' =
                    [installers EXCEPT ![i] = [step |-> "moved", backup |-> dashboard]]
               /\ dashboard' = "missing"
    \/ /\ InDashboard /\ installers[i].step = "moved" /\ UNCHANGED <<boot, packageFaults>>
       /\ StopInstall(i)
       /\ dashboard' = (IF dashboard \in {"missing", "empty"} THEN "full" ELSE dashboard)

\* The archive is no dashboard; the second rename fails, and what was moved aside comes back.
InstallFails(i) ==
    /\ InDashboard /\ ~NotInstalling(i) /\ PackageFault /\ StopInstall(i) /\ UNCHANGED boot
    /\ dashboard' = (IF installers[i].step = "moved" /\ dashboard \in {"missing", "empty"}
                     THEN installers[i].backup ELSE dashboard)

KillServing ==
    /\ InDashboard /\ PackageFault /\ boot' = "down"
    /\ installers' = [i \in 1..2 |-> NoInstaller] /\ UNCHANGED dashboard

DashboardNext ==
    \/ PrepareDashboard \/ ServeDashboard \/ EndServing \/ InstallDashboard \/ KillServing
    \/ \E i \in 1..2 : ReplaceDashboard(i) \/ InstallFails(i)

(***************************************************************************)
(* A core that a task downloads (CoreDownloadTasks).  The handler begins   *)
(* it, spawns its worker and attaches the handle; the page cancels it by   *)
(* its id.  An aborted worker is dropped at its next await.                *)
(***************************************************************************)
InTask == part = "task" /\ UNCHANGED <<part, uiVars, dashboardVars, fetch, removal, remains>>
WorkerAt(w, step) == InTask /\ workers[w].step = step
IsShown(w) == shown.id = w /\ w # 0

BeginTask(w) ==
    /\ WorkerAt(w, "none") /\ (w > 1 => workers[w - 1].step # "none")
    /\ shown.state # "running"
    /\ shown' = [id |-> w, state |-> "running", abortable |-> FALSE]
    /\ workers' = [workers EXCEPT ![w].step = "begun"] /\ UNCHANGED <<guard, packageFaults>>

SpawnWorker(w) ==
    /\ WorkerAt(w, "begun") /\ workers' = [workers EXCEPT ![w].step = "guard"]
    /\ UNCHANGED <<shown, guard, packageFaults>>

AttachWorker(w) ==
    /\ InTask /\ workers[w].step \notin {"none", "begun"}
    /\ IsShown(w) /\ shown.state = "running" /\ ~shown.abortable
    /\ shown' = [shown EXCEPT !.abortable = TRUE] /\ UNCHANGED <<workers, guard, packageFaults>>

CancelTask ==
    /\ InTask /\ shown.id # 0 /\ shown' = NoTask /\ UNCHANGED <<guard, packageFaults>>
    /\ workers' = [w \in DOMAIN workers |->
                     IF IsShown(w) /\ shown.abortable THEN [workers[w] EXCEPT !.asked = 1]
                     ELSE workers[w]]

\* A worker that was asked to stop ends the poll it is in.
Polled(w, step, result) ==
    /\ workers[w].asked # 2
    /\ workers' = [workers EXCEPT ![w] =
         [step |-> step, result |-> result,
          asked |-> IF workers[w].asked = 0 THEN 0 ELSE 2]]

\* The operation lock, the release, the archive, its extraction and the version it says.
WorkOn(w) ==
    \/ WorkerAt(w, "guard") /\ guard = 0 /\ guard' = w /\ Polled(w, "resolve", "none")
       /\ UNCHANGED <<shown, packageFaults>>
    \/ WorkerAt(w, "resolve") /\ Polled(w, "download", "none")
       /\ UNCHANGED <<shown, guard, packageFaults>>
    \/ WorkerAt(w, "download") /\ Polled(w, "verify", "none")
       /\ UNCHANGED <<shown, guard, packageFaults>>

\* What is placed and recorded, the lock that is dropped and the end that is told are one poll.
EndWork(w, result) ==
    /\ Polled(w, "ended", result) /\ guard' = (IF guard = w THEN 0 ELSE guard)
    /\ shown' = (IF IsShown(w) THEN [shown EXCEPT !.state = result, !.abortable = FALSE]
                 ELSE shown)
WorkSucceeds(w) == WorkerAt(w, "verify") /\ EndWork(w, "succeeded") /\ UNCHANGED packageFaults
WorkFails(w) ==
    /\ InTask /\ workers[w].step \in {"guard", "resolve", "download", "verify"}
    /\ EndWork(w, "failed") /\ PackageFault

\* The guard and the temporary directories go with the future.
DropWorker(w) ==
    /\ InTask /\ workers[w].step \in {"guard", "resolve", "download", "verify"}
    /\ workers[w].asked # 0
    /\ workers' = [workers EXCEPT ![w] = [step |-> "ended", asked |-> 2, result |-> "aborted"]]
    /\ guard' = (IF guard = w THEN 0 ELSE guard) /\ UNCHANGED <<shown, packageFaults>>

TaskNext ==
    \/ CancelTask
    \/ \E w \in DOMAIN workers :
         \/ BeginTask(w) \/ SpawnWorker(w) \/ AttachWorker(w) \/ WorkOn(w) \/ WorkSucceeds(w)
         \/ WorkFails(w) \/ DropWorker(w)

(***************************************************************************)
(* One artifact (verified_with_progress) and its extraction (extract).     *)
(***************************************************************************)
InFetch(step) ==
    /\ part = "fetch" /\ fetch.step = step
    /\ UNCHANGED <<part, uiVars, dashboardVars, taskVars, removal, remains>>

\* RemoveOnDrop; nothing of the archive is used when extract fails.
Refuse == fetch' = [fetch EXCEPT !.step = "refused", !.file = "none"]

LookInCache ==
    /\ InFetch("off") /\ UNCHANGED packageFaults
    /\ \E cached \in {"none", "right", "wrong"} :
         IF cached = "right"
         THEN fetch' = [fetch EXCEPT !.step = "kept", !.cached = cached, !.file = "kept",
                          !.written = ArtifactSize]
         ELSE fetch' = [fetch EXCEPT !.step = "send", !.cached = "none"]

SendRequest ==
    /\ InFetch("send") /\ UNCHANGED packageFaults
    /\ \/ fetch' = [fetch EXCEPT !.step = "body", !.file = "partial"]
       \/ Refuse
\* Only a request that got no answer is sent again, twice.
RequestFails ==
    /\ InFetch("send") /\ PackageFault
    /\ IF fetch.sends < 2 THEN fetch' = [fetch EXCEPT !.sends = fetch.sends + 1] ELSE Refuse

Exceeds(size) == fetch.written + size > ArtifactSize
ReceiveChunk ==
    /\ InFetch("body") /\ UNCHANGED packageFaults
    /\ \E size \in 1..ArtifactSize, right \in BOOLEAN :
         IF Exceeds(size) THEN Refuse
         ELSE fetch' = [fetch EXCEPT !.written = fetch.written + size,
                          !.right = fetch.right /\ right]
Complete == fetch.written = ArtifactSize /\ fetch.right
EndBody ==
    /\ InFetch("body") /\ UNCHANGED packageFaults
    /\ IF Complete
       THEN fetch' = [fetch EXCEPT !.step = "kept", !.file = "kept", !.cached = "right"]
       ELSE Refuse
BreakBody == InFetch("body") /\ PackageFault /\ Refuse

\* The components of an entry's name; where it is written is as deep as this.
Names == UNION {[1..n -> {"name", ".", "..", "c:"}] : n \in 1..2}
Count(name, component) == Cardinality({i \in DOMAIN name : name[i] = component})
Depth(name) == Count(name, "name") - Count(name, "..")
SafeTarget(name) ==
    Count(name, "name") > 0 /\ \A i \in DOMAIN name : name[i] \notin {"..", "c:"}

\* An entry says a size; what it holds may be more.
ExtractEntry ==
    /\ InFetch("kept") /\ UNCHANGED packageFaults
    /\ \E said \in 1..ExpandedLimit, held \in 1..(ExpandedLimit + 1), name \in Names :
         IF fetch.expanded + said > ExpandedLimit \/ ~SafeTarget(name) \/ held > said
         THEN Refuse
         ELSE fetch' = [fetch EXCEPT !.expanded = fetch.expanded + said,
                          !.disk = fetch.disk + held,
                          !.inside = fetch.inside /\ Depth(name) > 0]

FetchNext ==
    \/ LookInCache \/ SendRequest \/ RequestFails \/ ReceiveChunk \/ EndBody \/ BreakBody
    \/ ExtractEntry

(***************************************************************************)
(* The removal of the application, with or without its configuration.      *)
(***************************************************************************)
InRemoval(step) ==
    /\ part = "removal" /\ removal.step = step
    /\ UNCHANGED <<part, uiVars, dashboardVars, taskVars, fetch>>
GoOn(step) == removal' = [removal EXCEPT !.step = step]
Problem(next) ==
    /\ PackageFault /\ UNCHANGED remains
    /\ removal' = [removal EXCEPT !.step = next, !.problem = TRUE]

BeginRemoval ==
    /\ InRemoval("off") /\ UNCHANGED <<remains, packageFaults>>
    /\ \E purge, shared \in BOOLEAN :
         removal' = [removal EXCEPT !.step = "service", !.purge = purge, !.shared = shared,
                        !.problem = FALSE]

\* sempre_service::uninstall and dns_capture::cleanup: an error ends it.
RemoveService ==
    /\ InRemoval("service")
    /\ \/ remains' = [remains EXCEPT !.service = FALSE] /\ GoOn("network")
          /\ UNCHANGED packageFaults
       \/ Problem("off")

\* What fails from here on is told at the end.
CleanNetwork ==
    /\ InRemoval("network")
    /\ \/ GoOn("retain") /\ UNCHANGED <<remains, packageFaults>>
       \/ Problem("retain")

\* retain_configuration resets the document before what it names is removed.
ResetDocument(document) == IF document = "names" THEN "reset" ELSE document
RetainConfiguration ==
    /\ InRemoval("retain")
    /\ \/ /\ remains' = (IF removal.purge THEN remains
                      ELSE [remains EXCEPT !.document = ResetDocument(@)])
          /\ GoOn("cores") /\ UNCHANGED packageFaults
       \/ ~removal.purge /\ Problem("off")

RemoveCores ==
    /\ InRemoval("cores")
    /\ \/ remains' = [remains EXCEPT !.cores = FALSE, !.purging = @ \/ removal.purge]
          /\ GoOn("home") /\ UNCHANGED packageFaults
       \/ Problem("home")
RemoveHome ==
    /\ InRemoval("home")
    /\ \/ /\ remains' = (IF removal.purge
                      THEN [remains EXCEPT !.document = "gone", !.cores = FALSE,
                              !.programs = @ /\ ~removal.shared]
                      ELSE remains)
          /\ GoOn("programs") /\ UNCHANGED packageFaults
       \/ removal.purge /\ Problem("programs")
RemovePrograms ==
    /\ InRemoval("programs")
    /\ \/ remains' = [remains EXCEPT !.programs = FALSE] /\ GoOn("off")
          /\ UNCHANGED packageFaults
       \/ Problem("off")
KillRemoval ==
    /\ part = "removal" /\ removal.step # "off" /\ PackageFault
    /\ removal' = [removal EXCEPT !.step = "off", !.problem = TRUE]
    /\ UNCHANGED <<part, uiVars, dashboardVars, taskVars, fetch, remains>>

RemovalNext ==
    \/ BeginRemoval \/ RemoveService \/ CleanNetwork \/ RetainConfiguration \/ RemoveCores
    \/ RemoveHome \/ RemovePrograms \/ KillRemoval

PackageNext == UiNext \/ DashboardNext \/ TaskNext \/ FetchNext \/ RemovalNext

-----------------------------------------------------------------------------
\* Callers that run at the same time may leave either package, and a fault the one before;
\* an activation that had the directories to itself leaves its own, whole.  What was removed
\* stays away, unless three faults follow each other: what the last activation had replaced is
\* not deleted, nor is it by the next one, which fails and restores it.
ActivationExact ==
    Quiet /\ ~spoiled =>
        /\ expected # 0 => current = [package |-> expected, whole |-> TRUE]
        /\ expected = 0 => current = NoDirectory \/ (removed /\ packageFaults > 2)

\* Activations that overlap without a fault never lose the interface, and do not tear it as
\* long as no more than two of them do: of three, one may restore what another is deleting.
InterfaceKept ==
    Quiet /\ packageFaults = 0 /\ ~removed /\ expected # 0 =>
        current # NoDirectory /\ (~crowded => current.whole)

\* A package is activated by one caller only, and is no proposal any more.
ActivatedOnce ==
    /\ \A j \in Job : proposal # 0 => jobs[j].package # proposal
    /\ \A j, k \in Job : j # k /\ jobs[j].package # 0 => jobs[j].package # jobs[k].package

\* A core that is about to read its dashboard finds one, unless an install is between its renames.
DashboardFound ==
    boot \in {"ready", "up", "kept"} /\ (\A i \in 1..2 : installers[i].step # "moved") =>
        dashboard \in {"placeholder", "full"}

\* What the page shows is what the worker of that id does or did.
ShownIsTrue ==
    /\ shown.id # 0 =>
         IF shown.state = "running"
         THEN workers[shown.id].step \notin {"none", "ended"} /\ workers[shown.id].asked = 0
         ELSE workers[shown.id].step = "ended" /\ workers[shown.id].result = shown.state
    /\ guard # 0 => workers[guard].step \in {"resolve", "download", "verify"}

\* What is kept has the size and the digest the release names, and expands to what is allowed,
\* in the directory it is given.
KeptIsVerified ==
    /\ fetch.file = "kept" => fetch.written = ArtifactSize /\ fetch.right
    /\ fetch.step = "refused" => fetch.file = "none"
    /\ fetch.disk <= ExpandedLimit /\ fetch.inside

\* A document that is kept names no core that was removed; a removal that met no error left
\* nothing of the programs.
RemovalConsistent ==
    /\ ~remains.cores /\ remains.document # "gone" =>
         remains.document = "reset" \/ remains.purging
    /\ removal.step = "off" /\ ~remains.service /\ ~removal.problem =>
         ~remains.cores /\ ~remains.programs /\ (removal.purge => remains.document = "gone")

PackagesSound ==
    /\ ActivationExact /\ InterfaceKept /\ ActivatedOnce
    /\ DashboardFound /\ ShownIsTrue /\ KeptIsVerified /\ RemovalConsistent
=============================================================================
