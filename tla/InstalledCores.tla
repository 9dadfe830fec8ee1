--------------------------- MODULE InstalledCores ---------------------------
(***************************************************************************)
(* The files the state document names: core versions, each in a directory   *)
(* of its own, and compiled configurations, each in a file named after its  *)
(* hash.  Installing, updating, selecting and removing cores (install.rs,   *)
(* update.rs, lifecycle.rs), activating a configuration (config.rs) and     *)
(* deleting superseded ones (config_retention.rs) change files and document *)
(* in separate steps under the operation lock.  The supervisor and a        *)
(* restart change which deployment is active without that lock.             *)
(* Simplifications:                                                         *)
(*   - a source is a core with one of its repositories; only sources of one *)
(*     core share configurations;                                           *)
(*   - the configuration lock is left out: whoever takes it holds the       *)
(*     operation lock;                                                      *)
(*   - a resolved release is any version; downloads, archives and digests   *)
(*     are left out, as is the core OpenWrt's firmware brings;              *)
(*   - modification times are left out: pruning keeps any one stale file.   *)
(*   - deleting a directory and renaming one back succeed (the code ignores *)
(*     it when they do not); the active profile of a configuration is left  *)
(*     out.                                                                 *)
(***************************************************************************)
EXTENDS Naturals, FiniteSets

CONSTANTS
    Sources, Cores,
    CoreOf,         \* the core of each source
    Versions, Hashes,
    Stable,         \* the one channel
    Faults,         \* what may go wrong: "write", "verify", "compile", "crash"
    None

ASSUME CoresAssumption ==
    /\ CoreOf \in [Sources -> Cores]
    /\ Stable \notin Versions
    /\ None \notin Versions \cup Hashes
    /\ Stable # None

References == Versions \cup {Stable}
Selections == [source : Sources, reference : References]
Deployments == [source : Sources, reference : References, version : Versions, hash : Hashes]
Documents ==
    [installed : [Sources -> SUBSET Versions], explicit : [Sources -> SUBSET Versions],
     channel : [Sources -> Versions \cup {None}], selected : Selections \cup {None},
     active : Deployments \cup {None}, lastGood : Deployments \cup {None},
     rejected : Deployments \cup {None}, configs : [Cores -> Hashes \cup {None}]]
Kinds == {"none", "install", "remove", "select", "activate", "prune"}
Steps == {"idle", "prepare", "record", "undo", "clean"}
Operations ==
    [kind : Kinds, step : Steps, source : Sources \cup {None},
     reference : References \cup {None}, version : Versions \cup {None},
     hash : Hashes \cup {None}, selected : Selections \cup {None},
     previous : Hashes \cup {None}, fresh : BOOLEAN]

VARIABLES
    doc,            \* the state document
    dirs,           \* version directories in place, by source
    moved,          \* version directories renamed to ".remove-...", by source
    files,          \* stored configurations
    op,             \* the operation that holds the operation lock
    kept,           \* hashes a prune has read from the document, with their cores
    sup,            \* the supervisor: its step, the deployment it runs, roll_back's check
    killed          \* history: an operation was killed before it ended

vars == <<doc, dirs, moved, files, op, kept, sup, killed>>

NoOp == [kind |-> "none", step |-> "idle", source |-> None, reference |-> None,
         version |-> None, hash |-> None, selected |-> None, previous |-> None,
         fresh |-> FALSE]

TypeOK ==
    /\ doc \in Documents
    /\ dirs \in [Sources -> SUBSET Versions] /\ moved \in [Sources -> SUBSET Versions]
    /\ files \subseteq Cores \X Hashes /\ kept \subseteq Cores \X Hashes
    /\ op \in Operations
    /\ sup \in [step : {"decide", "running", "proven", "pruning", "failed", "writing", "fatal"},
                plan : Deployments \cup {None}, available : BOOLEAN]
    /\ killed \in BOOLEAN

-----------------------------------------------------------------------------
(* The document. *)

(* What Document::validate refuses to write: a channel, a selection or an active
   deployment of a version that is not installed. *)
Valid(d) ==
    /\ \A s \in Sources : d.channel[s] \in d.installed[s] \cup {None}
    /\ d.selected # None =>
        IF d.selected.reference = Stable THEN d.channel[d.selected.source] # None
        ELSE d.selected.reference \in d.installed[d.selected.source]
    /\ d.active # None => d.active.version \in d.installed[d.active.source]

(* The version a reference stands for in a source. *)
Target(d, s, r) == IF r = Stable THEN d.channel[s] ELSE r

Resolve(d, s, r) == IF Target(d, s, r) \in d.installed[s] THEN Target(d, s, r) ELSE None

Named(d) == {d.active, d.lastGood, d.rejected} \ {None}

Config(dep) == <<CoreOf[dep.source], dep.hash>>

OnDisk(dep) == dep.version \in dirs[dep.source] /\ Config(dep) \in files

Stage(d, dep) == [d EXCEPT !.active = dep, !.rejected = None]

(* version_is_referenced, which decides what an advancing channel leaves installed. *)
Referenced(d, s, v) ==
    \/ /\ d.selected # None /\ d.selected.source = s
       /\ Target(d, s, d.selected.reference) = v
    \/ \E dep \in Named(d) : dep.source = s /\ dep.version = v

\* Mutant of Collectable: a version that was installed by its version goes.
CollectableWhenExact(d, s, v) ==
    ~Referenced(d, s, v) /\ v \in d.installed[s] /\ d.channel[s] # v

Collectable(d, s, v) ==
    /\ ~Referenced(d, s, v)
    /\ v \in d.installed[s] \ d.explicit[s]
    /\ d.channel[s] # v

Added(d, s, r, v) ==
    [d EXCEPT !.installed[s] = @ \cup {v},
              !.explicit[s] = IF r = Stable THEN @ ELSE @ \cup {v},
              !.channel[s] = IF r = Stable THEN v ELSE @]

(* The version record_installation removes with the channel's previous target, or None. *)
Superseded(d, s, r, v) ==
    IF /\ r = Stable /\ d.channel[s] \notin {None, v}
       /\ Collectable(Added(d, s, r, v), s, d.channel[s])
    THEN d.channel[s] ELSE None

Recorded(d, s, r, v) ==
    [Added(d, s, r, v) EXCEPT !.installed[s] = @ \ {Superseded(d, s, r, v)}]

(* reject_referenced_version, which guards an explicit removal. *)
InUse(d, s, v) ==
    \/ /\ d.selected # None /\ d.selected.source = s
       /\ Resolve(d, s, d.selected.reference) = v
    \/ /\ d.active # None /\ d.active.source = s /\ d.active.version = v

Removed(d, s, v) ==
    [d EXCEPT !.installed[s] = @ \ {v}, !.explicit[s] = @ \ {v},
              !.channel[s] = IF @ = v THEN None ELSE @]

RolledBack(d) == [d EXCEPT !.rejected = d.active, !.active = d.lastGood]

Retried(d) == [d EXCEPT !.rejected = None, !.active = d.rejected]

(* retained_hashes for every core. *)
Retained(d) ==
    {Config(dep) : dep \in Named(d)} \cup {f \in Cores \X Hashes : d.configs[f[1]] = f[2]}

-----------------------------------------------------------------------------
(* Locks and how an operation ends. *)

LockFree == op.kind = "none"

(* roll_back looks at the files inside its update, with the state lock held. *)
CanWrite == sup.step # "writing"

Begin(kind, s, r, v, selected, previous) ==
    /\ LockFree
    /\ op' = [kind |-> kind, step |-> "prepare", source |-> s, reference |-> r, version |-> v,
              hash |-> None, selected |-> selected, previous |-> previous, fresh |-> FALSE]

Finish == op' = NoOp

Advance(step) == op' = [op EXCEPT !.step = step]

At(kind, step) == op.kind = kind /\ op.step = step

-----------------------------------------------------------------------------
(* install_core.  update_cores installs a channel and, if that is selected, then selects it:
   two operations, with the lock released in between. *)

InstallBegin(s, r, v) ==
    /\ r \in {v, Stable}
    /\ Begin("install", s, r, v, None, None)
    /\ UNCHANGED <<doc, dirs, moved, files, kept, sup, killed>>

(* The release cannot be downloaded, or its binary reports another version. *)
InstallRejected ==
    /\ At("install", "prepare") /\ "verify" \in Faults
    /\ Finish
    /\ UNCHANGED <<doc, dirs, moved, files, kept, sup, killed>>

(* The staged copy of the release is renamed into place unless a binary is there already. *)
Placed == [dirs EXCEPT ![op.source] = @ \cup {op.version}]

InstallActivate ==
    /\ At("install", "prepare")
    /\ dirs' = Placed
    /\ op' = [op EXCEPT !.step = "record", !.fresh = op.version \notin dirs[op.source]]
    /\ UNCHANGED <<doc, moved, files, kept, sup, killed>>

InstallRecord ==
    LET next == Recorded(doc, op.source, op.reference, op.version)
        old == Superseded(doc, op.source, op.reference, op.version)
    IN
    /\ At("install", "record") /\ CanWrite
    /\ \/ /\ Valid(next)
          /\ doc' = next
          /\ IF old = None THEN Finish
             ELSE op' = [op EXCEPT !.step = "clean", !.version = old]
       \/ /\ ~Valid(next) \/ "write" \in Faults
          /\ Advance("undo")
          /\ UNCHANGED doc
    /\ UNCHANGED <<dirs, moved, files, kept, sup, killed>>

\* Mutants of InstallUndo: whatever directory is there goes; the new one stays.
UndoRemovesAny ==
    /\ At("install", "undo")
    /\ dirs' = [dirs EXCEPT ![op.source] = @ \ {op.version}]
    /\ Finish
    /\ UNCHANGED <<doc, moved, files, kept, sup, killed>>
UndoForgotten ==
    /\ At("install", "undo")
    /\ Finish
    /\ UNCHANGED <<doc, dirs, moved, files, kept, sup, killed>>

(* Only a directory this install put in place is taken away again. *)
InstallUndo ==
    /\ At("install", "undo")
    /\ dirs' = IF op.fresh THEN [dirs EXCEPT ![op.source] = @ \ {op.version}] ELSE dirs
    /\ Finish
    /\ UNCHANGED <<doc, moved, files, kept, sup, killed>>

InstallClean ==
    /\ At("install", "clean")
    /\ dirs' = [dirs EXCEPT ![op.source] = @ \ {op.version}]
    /\ Finish
    /\ UNCHANGED <<doc, moved, files, kept, sup, killed>>

-----------------------------------------------------------------------------
(* remove_core. *)

RemoveBegin(s, r) ==
    LET v == Resolve(doc, s, r) IN
    /\ v # None /\ ~InUse(doc, s, v)
    /\ Begin("remove", s, r, v, None, None)
    /\ UNCHANGED <<doc, dirs, moved, files, kept, sup, killed>>

(* stage_removal renames the directory, if there is one. *)
RemoveStage ==
    LET here == op.version \in dirs[op.source] IN
    /\ At("remove", "prepare")
    /\ dirs' = [dirs EXCEPT ![op.source] = @ \ {op.version}]
    /\ moved' = IF here THEN [moved EXCEPT ![op.source] = @ \cup {op.version}] ELSE moved
    /\ op' = [op EXCEPT !.step = "record", !.fresh = here]
    /\ UNCHANGED <<doc, files, kept, sup, killed>>

\* Mutant of RemovalRefused: the use of the version is not checked again.
RefusedUnlessInstalled == Resolve(doc, op.source, op.reference) # op.version

RemovalRefused ==
    \/ Resolve(doc, op.source, op.reference) # op.version
    \/ InUse(doc, op.source, op.version)

RemoveRecord ==
    LET next == Removed(doc, op.source, op.version) IN
    /\ At("remove", "record") /\ CanWrite
    /\ \/ /\ ~RemovalRefused /\ Valid(next)
          /\ doc' = next
          /\ Advance("clean")
       \/ /\ RemovalRefused \/ ~Valid(next) \/ "write" \in Faults
          /\ Advance("undo")
          /\ UNCHANGED doc
    /\ UNCHANGED <<dirs, moved, files, kept, sup, killed>>

RemoveUndo ==
    /\ At("remove", "undo")
    /\ IF op.fresh
       THEN /\ dirs' = [dirs EXCEPT ![op.source] = @ \cup {op.version}]
            /\ moved' = [moved EXCEPT ![op.source] = @ \ {op.version}]
       ELSE UNCHANGED <<dirs, moved>>
    /\ Finish
    /\ UNCHANGED <<doc, files, kept, sup, killed>>

RemoveClean ==
    /\ At("remove", "clean")
    /\ moved' = IF op.fresh THEN [moved EXCEPT ![op.source] = @ \ {op.version}] ELSE moved
    /\ Finish
    /\ UNCHANGED <<doc, dirs, files, kept, sup, killed>>

-----------------------------------------------------------------------------
(* select_core, and activate_config_content_updating for a compiled subscription. *)

SelectBegin(s, r) ==
    /\ Resolve(doc, s, r) # None
    /\ Begin("select", s, r, Resolve(doc, s, r), doc.selected, doc.configs[CoreOf[s]])
    /\ UNCHANGED <<doc, dirs, moved, files, kept, sup, killed>>

ActivateBegin ==
    /\ doc.selected # None
    /\ LET s == doc.selected.source
           r == doc.selected.reference
       IN /\ Resolve(doc, s, r) # None
          /\ Begin("activate", s, r, Resolve(doc, s, r), None, None)
    /\ UNCHANGED <<doc, dirs, moved, files, kept, sup, killed>>

(* prepare_config_content_for stores what was compiled, unless it is stored already. *)
Store(h) ==
    /\ files' = files \cup {<<CoreOf[op.source], h>>}
    /\ op' = [op EXCEPT !.step = "record", !.hash = h,
                        !.fresh = <<CoreOf[op.source], h>> \notin files]

(* A selection keeps the current configuration or compiles one for the new target; without
   one it only waits. *)
SelectPrepare ==
    /\ At("select", "prepare")
    /\ \/ op' = [op EXCEPT !.step = "record", !.hash = op.previous] /\ UNCHANGED files
       \/ op.previous # None /\ \E h \in Hashes : Store(h)
    /\ UNCHANGED <<doc, dirs, moved, kept, sup, killed>>

SelectRejected ==
    /\ At("select", "prepare") /\ op.previous # None /\ "compile" \in Faults
    /\ Finish
    /\ UNCHANGED <<doc, dirs, moved, files, kept, sup, killed>>

ActivatePrepare(h) ==
    /\ At("activate", "prepare")
    /\ Store(h)
    /\ UNCHANGED <<doc, dirs, moved, kept, sup, killed>>

Candidate == [source |-> op.source, reference |-> op.reference, version |-> op.version,
              hash |-> op.hash]

Configured(d) ==
    IF op.hash = None THEN d ELSE [d EXCEPT !.configs[CoreOf[op.source]] = op.hash]

\* Mutant of Selected: a deployment is staged without waiting for a configuration.
SelectedUnconfigured(d) ==
    LET chosen == [d EXCEPT
                    !.selected = [source |-> op.source, reference |-> op.reference],
                    !.explicit[op.source] =
                        IF op.reference = Stable THEN @ ELSE @ \cup {op.version}]
    IN Configured(IF d.active = Candidate THEN chosen ELSE Stage(chosen, Candidate))

Selected(d) ==
    LET chosen == [d EXCEPT
                    !.selected = [source |-> op.source, reference |-> op.reference],
                    !.explicit[op.source] =
                        IF op.reference = Stable THEN @ ELSE @ \cup {op.version}]
    IN Configured(IF op.hash = None \/ d.active = Candidate THEN chosen
                  ELSE Stage(chosen, Candidate))

(* An unchanged deployment is staged again when its runtime inputs changed; one that was
   rejected waits for a restart. *)
Activated(d, runtimeChanged) ==
    Configured(IF (d.active # Candidate \/ runtimeChanged) /\ d.rejected # Candidate
               THEN Stage(d, Candidate) ELSE d)

SelectionChanged ==
    \/ Resolve(doc, op.source, op.reference) # op.version
    \/ doc.selected # op.selected
    \/ doc.configs[CoreOf[op.source]] # op.previous

ActivationChanged ==
    \/ doc.selected # [source |-> op.source, reference |-> op.reference]
    \/ Resolve(doc, op.source, op.reference) # op.version

(* The update of the document that ends both operations; a failed one discards the file. *)
Record(kind, refused, next) ==
    /\ At(kind, "record") /\ CanWrite
    /\ \/ /\ ~refused /\ Valid(next)
          /\ doc' = next
          /\ Finish
       \/ /\ refused \/ ~Valid(next) \/ "write" \in Faults
          /\ Advance("undo")
          /\ UNCHANGED doc
    /\ UNCHANGED <<dirs, moved, files, kept, sup, killed>>

SelectRecord == Record("select", SelectionChanged, Selected(doc))

ActivateRecord ==
    \E runtimeChanged \in BOOLEAN :
        Record("activate", ActivationChanged, Activated(doc, runtimeChanged))

\* Mutant of Discard: a file that was there before is deleted with the failed update.
DiscardAny ==
    /\ At("select", "undo") \/ At("activate", "undo")
    /\ files' = files \ {<<CoreOf[op.source], op.hash>>}
    /\ Finish
    /\ UNCHANGED <<doc, dirs, moved, kept, sup, killed>>

Discard ==
    /\ At("select", "undo") \/ At("activate", "undo")
    /\ files' = IF op.fresh THEN files \ {<<CoreOf[op.source], op.hash>>} ELSE files
    /\ Finish
    /\ UNCHANGED <<doc, dirs, moved, kept, sup, killed>>

-----------------------------------------------------------------------------
(* The supervisor and a restart. *)

(* resolve_runtime_plan launches the active deployment if its files are there. *)
Launch ==
    /\ sup.step = "decide"
    /\ doc.active # None /\ OnDisk(doc.active)
    /\ sup' = [sup EXCEPT !.step = "running", !.plan = doc.active]
    /\ UNCHANGED <<doc, dirs, moved, files, op, kept, killed>>

(* The plan cannot be resolved, for missing files or another reason, or the core fails. *)
DeploymentFails ==
    /\ sup.step = "running" \/ (sup.step = "decide" /\ doc.active # None)
    /\ sup' = [sup EXCEPT !.step = "failed", !.plan = None]
    /\ UNCHANGED <<doc, dirs, moved, files, op, kept, killed>>

Reload ==
    /\ sup.step = "running"
    /\ sup' = [sup EXCEPT !.step = "decide", !.plan = None]
    /\ UNCHANGED <<doc, dirs, moved, files, op, kept, killed>>

MarkStable ==
    /\ sup.step = "running" /\ CanWrite
    /\ doc' = IF doc.active = sup.plan THEN [doc EXCEPT !.lastGood = doc.active] ELSE doc
    /\ sup' = [sup EXCEPT !.step = "proven"]
    /\ UNCHANGED <<dirs, moved, files, op, kept, killed>>

(* prune_superseded_configs gives way to an operation in progress. *)
PruneSkip ==
    /\ sup.step = "proven" /\ ~LockFree
    /\ sup' = [sup EXCEPT !.step = "running"]
    /\ UNCHANGED <<doc, dirs, moved, files, op, kept, killed>>

PruneBegin ==
    /\ sup.step = "proven" /\ LockFree
    /\ op' = [NoOp EXCEPT !.kind = "prune"]
    /\ kept' = Retained(doc)
    /\ sup' = [sup EXCEPT !.step = "pruning"]
    /\ UNCHANGED <<doc, dirs, moved, files, killed>>

OfCore(c, set) == {f \in set : f[1] = c}

\* Mutant of Prunable: the replaced version is kept only when nothing else is.
PrunableWhenProven(c, gone) ==
    LET stale == OfCore(c, files \ kept) IN
    IF Cardinality(OfCore(c, kept)) < 1 /\ stale # {}
    THEN \E previous \in stale : gone = stale \ {previous}
    ELSE gone = stale

(* The files of a core a prune deletes: all that are not kept, except one of them when fewer
   than two hashes are kept. *)
Prunable(c, gone) ==
    LET stale == OfCore(c, files \ kept) IN
    IF Cardinality(OfCore(c, kept)) < 2 /\ stale # {}
    THEN \E previous \in stale : gone = stale \ {previous}
    ELSE gone = stale

PruneDelete ==
    /\ op.kind = "prune" /\ sup.step = "pruning"
    /\ \E gone \in SUBSET files :
        /\ \A c \in Cores : Prunable(c, OfCore(c, gone))
        /\ files' = files \ gone
    /\ op' = NoOp
    /\ kept' = {}
    /\ sup' = [sup EXCEPT !.step = "running"]
    /\ UNCHANGED <<doc, dirs, moved, killed>>

(* roll_back: inside its update it looks at the files and then writes the document. *)
RollBackCheck ==
    /\ sup.step = "failed"
    /\ sup' = [sup EXCEPT !.step = "writing",
                          !.available = doc.lastGood # None /\ OnDisk(doc.lastGood)]
    /\ UNCHANGED <<doc, dirs, moved, files, op, kept, killed>>

(* An update the validation refuses ends the supervisor. *)
RollBackWrite ==
    LET next == IF sup.available /\ doc.active # doc.lastGood THEN RolledBack(doc) ELSE doc IN
    /\ sup.step = "writing"
    /\ doc' = IF Valid(next) THEN next ELSE doc
    /\ sup' = [step |-> IF Valid(next) THEN "decide" ELSE "fatal", plan |-> None,
               available |-> FALSE]
    /\ UNCHANGED <<dirs, moved, files, op, kept, killed>>

(* start_startup_task of a restart makes the rejected deployment active again. *)
Retry ==
    /\ doc.rejected # None /\ CanWrite
    /\ doc.active # None /\ OnDisk(doc.active)
    /\ Valid(Retried(doc))
    /\ doc' = Retried(doc)
    /\ UNCHANGED <<dirs, moved, files, op, kept, sup, killed>>

-----------------------------------------------------------------------------
(* Processes are killed; the system releases their locks. *)

OperationKilled ==
    /\ "crash" \in Faults
    /\ op.kind \notin {"none", "prune"}
    /\ op' = NoOp
    /\ killed' = TRUE
    /\ UNCHANGED <<doc, dirs, moved, files, kept, sup>>

(* The service manager starts the daemon again, also after the supervisor ended. *)
DaemonRestarted ==
    /\ "crash" \in Faults \/ sup.step = "fatal"
    /\ sup' = [step |-> "decide", plan |-> None, available |-> FALSE]
    /\ op' = IF op.kind = "prune" THEN NoOp ELSE op
    /\ kept' = {}
    /\ UNCHANGED <<doc, dirs, moved, files, killed>>

-----------------------------------------------------------------------------
Init ==
    /\ doc = [installed |-> [s \in Sources |-> {}], explicit |-> [s \in Sources |-> {}],
              channel |-> [s \in Sources |-> None], selected |-> None, active |-> None,
              lastGood |-> None, rejected |-> None, configs |-> [c \in Cores |-> None]]
    /\ dirs = [s \in Sources |-> {}] /\ moved = [s \in Sources |-> {}]
    /\ files = {} /\ kept = {}
    /\ op = NoOp
    /\ sup = [step |-> "decide", plan |-> None, available |-> FALSE]
    /\ killed = FALSE

Install ==
    \/ \E s \in Sources, r \in References, v \in Versions : InstallBegin(s, r, v)
    \/ InstallRejected \/ InstallActivate \/ InstallRecord \/ InstallUndo \/ InstallClean

Remove ==
    \/ \E s \in Sources, r \in References : RemoveBegin(s, r)
    \/ RemoveStage \/ RemoveRecord \/ RemoveUndo \/ RemoveClean

Configure ==
    \/ \E s \in Sources, r \in References : SelectBegin(s, r)
    \/ SelectPrepare \/ SelectRejected \/ SelectRecord
    \/ ActivateBegin \/ (\E h \in Hashes : ActivatePrepare(h)) \/ ActivateRecord
    \/ Discard

Supervise ==
    \/ Launch \/ DeploymentFails \/ Reload \/ MarkStable \/ RollBackCheck \/ RollBackWrite
    \/ PruneSkip \/ PruneBegin \/ PruneDelete
    \/ Retry

Next == Install \/ Remove \/ Configure \/ Supervise \/ OperationKilled \/ DaemonRestarted

Spec == Init /\ [][Next]_vars

-----------------------------------------------------------------------------
(* Properties. *)

(* The active deployment's core and configuration are never deleted: a removal may have
   renamed its directory, and puts it back, and what an install, a prune or a discarded
   compilation deletes is never named by it, whatever the supervisor and a restart made
   active in the meantime. *)
ActiveKept ==
    doc.active # None =>
        /\ doc.active.version \in dirs[doc.active.source] \cup moved[doc.active.source]
        /\ Config(doc.active) \in files

(* Rolling back and retrying find their configuration: those of the last healthy and of the
   rejected deployment are kept, as is the current one of every core. *)
ConfigsKept ==
    /\ \A dep \in Named(doc) : Config(dep) \in files
    /\ \A c \in Cores : doc.configs[c] # None => <<c, doc.configs[c]>> \in files

(* No operation computes a document that validation refuses to write, which would leave it
   failing half-way: what an install, a removal or a selection makes of the document keeps
   its references intact even after roll_back and a restart changed it underneath. *)
OperationsValid ==
    /\ At("install", "record") => Valid(Recorded(doc, op.source, op.reference, op.version))
    /\ At("remove", "record") /\ ~RemovalRefused => Valid(Removed(doc, op.source, op.version))
    /\ At("select", "record") /\ ~SelectionChanged => Valid(Selected(doc))
    /\ At("activate", "record") /\ ~ActivationChanged => Valid(Activated(doc, TRUE))

(* Every installed version has its directory, in place or renamed by a removal, and unless
   an operation was killed the directories are those of the installed versions whenever no
   operation is in progress, however the last one failed. *)
DirectoriesMatch ==
    /\ \A s \in Sources : doc.installed[s] \subseteq dirs[s] \cup moved[s]
    /\ LockFree /\ ~killed =>
        \A s \in Sources : dirs[s] = doc.installed[s] /\ moved[s] = {}

(* The files and the document stay in step: every configuration that the document names is
   stored, the active deployment's core is there, whoever made it active, and the directories
   are those of the versions installed.  The core that a rollback or a retry would go to may
   have been removed (remove_core spares only what is active or selected); it is refused then. *)
FilesMatch == ActiveKept /\ ConfigsKept /\ DirectoriesMatch

(* README: "An exact install is retained until explicitly removed. A channel is a weak
   reference to a concrete version": what an advancing channel takes away was neither
   installed by its version nor named by a deployment or the selection. *)
CollectsOnlyWeak ==
    [][\A s \in Sources : \A v \in doc.installed[s] \ doc'.installed[s] :
        \/ op.kind = "remove"
        \/ /\ v \notin doc.explicit[s]
           /\ \A dep \in Named(doc') : dep.source = s => dep.version # v
           /\ doc'.selected # None /\ doc'.selected.source = s
                => Target(doc', s, doc'.selected.reference) # v]_vars

(* "A proven deployment is its own rollback target, so keep the version it replaced": a
   prune leaves two configurations of a core in use if there were two.  Of a core nothing
   names, the leftovers of killed operations, it leaves one. *)
PreviousKept ==
    [][op.kind = "prune" =>
        \A c \in Cores :
            OfCore(c, Retained(doc)) # {} /\ Cardinality(OfCore(c, files)) >= 2
                => Cardinality(OfCore(c, files')) >= 2]_vars
=============================================================================
