------------------------ MODULE InstalledCoresProofs ------------------------
(***************************************************************************)
(* Proofs about InstalledCores for every set of sources, cores, versions    *)
(* and hashes and every choice of faults, killed operations and restarts    *)
(* included.                                                                *)
(***************************************************************************)
EXTENDS InstalledCores, FiniteSetTheorems, TLAPS

(* Recording an install and removing a version yield documents, and change  *)
(* nothing but what is installed, by which references.                      *)
LEMMA InstallTypes ==
    ASSUME NEW d \in Documents, NEW s \in Sources, NEW r \in References, NEW v \in Versions
    PROVE  /\ Added(d, s, r, v) \in Documents
           /\ Superseded(d, s, r, v) \in Versions \cup {None}
           /\ Recorded(d, s, r, v) \in Documents
           /\ Removed(d, s, v) \in Documents
<1> USE CoresAssumption DEF Documents
<1>1. Added(d, s, r, v) \in Documents
  BY DEF Added
<1>2. Superseded(d, s, r, v) \in Versions \cup {None}
  BY DEF Superseded
<1>3. Recorded(d, s, r, v) \in Documents
  BY <1>1 DEF Recorded
<1>4. Removed(d, s, v) \in Documents
  BY DEF Removed
<1> QED BY <1>1, <1>2, <1>3, <1>4

LEMMA InstalledByInstall ==
    ASSUME NEW d \in Documents, NEW s \in Sources, NEW r \in References, NEW v \in Versions
    PROVE  Recorded(d, s, r, v).installed =
                [d.installed EXCEPT ![s] = (@ \cup {v}) \ {Superseded(d, s, r, v)}]
<1> DEFINE old == Superseded(d, s, r, v)
           new == Added(d, s, r, v)
<1>1. Recorded(d, s, r, v) = [new EXCEPT !.installed[s] = @ \ {old}]
  BY DEF Recorded
<1>2. new \in Documents
  BY InstallTypes
<1>3. new.installed = [d.installed EXCEPT ![s] = @ \cup {v}]
  BY DEF Added, Documents
<1> HIDE DEF old, new
<1>4. Recorded(d, s, r, v).installed = [new.installed EXCEPT ![s] = @ \ {old}]
  BY <1>1, <1>2 DEF Documents
<1> QED BY <1>3, <1>4 DEF old, Documents

(* Staging, rolling back and retrying move deployments within the document. *)
LEMMA DeploymentTypes ==
    ASSUME NEW d \in Documents
    PROVE  /\ \A dep \in Deployments : Stage(d, dep) \in Documents
           /\ RolledBack(d) \in Documents
           /\ Retried(d) \in Documents
           /\ [d EXCEPT !.lastGood = d.active] \in Documents
BY DEF Documents, Stage, RolledBack, Retried

(* An operation that records a selection or an activation is complete.      *)
LEMMA SelectionTypes ==
    ASSUME NEW d \in Documents, op \in Operations,
           op.source \in Sources, op.reference \in References, op.version \in Versions,
           op.kind = "activate" => op.hash \in Hashes
    PROVE  /\ Selected(d) \in Documents
           /\ op.kind = "activate" =>
                \A changed \in BOOLEAN : Activated(d, changed) \in Documents
<1> DEFINE chosen == [d EXCEPT
                    !.selected = [source |-> op.source, reference |-> op.reference],
                    !.explicit[op.source] =
                        IF op.reference = Stable THEN @ ELSE @ \cup {op.version}]
<1>1. op.hash # None => Candidate \in Deployments
  BY DEF Candidate, Deployments, Operations
<1>2. chosen \in Documents
  BY DEF Documents, Selections
<1>3. ASSUME NEW x \in Documents PROVE Configured(x) \in Documents
  BY <1>3, CoresAssumption DEF Configured, Documents, Operations
<1>4. Selected(d) \in Documents
  <2>1. (IF op.hash = None \/ d.active = Candidate THEN chosen
                  ELSE Stage(chosen, Candidate)) \in Documents
    BY <1>1, <1>2, DeploymentTypes
  <2> QED BY <2>1, <1>3 DEF Selected
<1>5. ASSUME op.kind = "activate", NEW changed \in BOOLEAN
      PROVE  Activated(d, changed) \in Documents
  <2>1. Candidate \in Deployments
    BY <1>1, <1>5, CoresAssumption
  <2>2. (IF (d.active # Candidate \/ changed) /\ d.rejected # Candidate
               THEN Stage(d, Candidate) ELSE d) \in Documents
    BY <2>1, DeploymentTypes
  <2> QED BY <2>2, <1>3 DEF Activated
<1> QED BY <1>4, <1>5

(* An operation knows the version it is about, and an activation its        *)
(* configuration once that is compiled.                                     *)
OperationInv ==
    /\ op \in Operations
    /\ op.kind \notin {"none", "prune"} =>
        op.source \in Sources /\ op.reference \in References /\ op.version \in Versions
    /\ op.kind = "activate" =>
        op.step \in {"prepare", "record", "undo"} /\ (op.step = "record" => op.hash \in Hashes)

LEMMA OperationsEnd ==
    (op' = NoOp \/ op' = [NoOp EXCEPT !.kind = "prune"]) => OperationInv'
<1>1. NoOp \in Operations /\ NoOp.kind = "none"
  BY DEF NoOp, Operations, Kinds, Steps
<1>2. op' = NoOp => OperationInv'
  BY <1>1 DEF OperationInv
<1>3. ASSUME op' = [NoOp EXCEPT !.kind = "prune"] PROVE OperationInv'
  BY <1>1, <1>3 DEF OperationInv, Operations, Kinds
<1> QED BY <1>2, <1>3

LEMMA OperationsBegin ==
    ASSUME NEW s \in Sources, NEW r \in References, NEW v \in Versions,
           NEW kind \in {"install", "remove", "activate", "select"},
           NEW sel \in Selections \cup {None}, NEW prev \in Hashes \cup {None},
           op' = [kind |-> kind, step |-> "prepare", source |-> s, reference |-> r,
                  version |-> v, hash |-> None, selected |-> sel, previous |-> prev,
                  fresh |-> FALSE]
    PROVE  OperationInv'
BY DEF OperationInv, Operations, Kinds, Steps

LEMMA OperationsAdvance ==
    ASSUME OperationInv, op.kind \notin {"none", "prune"},
           \/ op' = [op EXCEPT !.step = "undo"]
           \/ /\ op.kind # "activate"
              /\ op' = [op EXCEPT !.step = "clean"]
           \/ /\ op.kind # "activate"
              /\ \E v \in Versions : op' = [op EXCEPT !.step = "clean", !.version = v]
           \/ /\ op.kind # "activate"
              /\ \E fresh \in BOOLEAN : op' = [op EXCEPT !.step = "record", !.fresh = fresh]
           \/ \E h \in Hashes, fresh \in BOOLEAN :
                op' = [op EXCEPT !.step = "record", !.hash = h, !.fresh = fresh]
           \/ op.kind = "select" /\ op' = [op EXCEPT !.step = "record", !.hash = op.previous]
    PROVE  OperationInv'
<1> USE DEF OperationInv, Operations, Kinds, Steps
<1>1. CASE op' = [op EXCEPT !.step = "undo"]
  BY <1>1
<1>2. CASE op.kind # "activate" /\ op' = [op EXCEPT !.step = "clean"]
  BY <1>2
<1>3. CASE op.kind # "activate"
             /\ \E v \in Versions : op' = [op EXCEPT !.step = "clean", !.version = v]
  BY <1>3
<1>4. CASE op.kind # "activate"
             /\ \E fresh \in BOOLEAN : op' = [op EXCEPT !.step = "record", !.fresh = fresh]
  BY <1>4
<1>5. CASE \E h \in Hashes, fresh \in BOOLEAN :
             op' = [op EXCEPT !.step = "record", !.hash = h, !.fresh = fresh]
  BY <1>5
<1>6. CASE op.kind = "select" /\ op' = [op EXCEPT !.step = "record", !.hash = op.previous]
  BY <1>6
<1> QED BY <1>1, <1>2, <1>3, <1>4, <1>5, <1>6


(* The types, and what an operation knows.                                  *)
TypeInv == TypeOK /\ OperationInv

LEMMA InstallTypesKept == TypeInv /\ (Install \/ Remove) => TypeInv'
<1> SUFFICES ASSUME TypeInv, Install \/ Remove PROVE TypeInv'
  OBVIOUS
<1> USE CoresAssumption DEF TypeInv, TypeOK, At, Finish, Advance
<1>0. op.kind \notin {"none", "prune"} =>
        op.source \in Sources /\ op.reference \in References /\ op.version \in Versions
  BY DEF OperationInv
<1>1. ASSUME NEW s \in Sources, NEW r \in References, NEW v \in Versions, InstallBegin(s, r, v)
      PROVE  TypeInv'
  <2>1. OperationInv'
    BY <1>1, OperationsBegin DEF InstallBegin, Begin
  <2> QED BY <1>1, <2>1 DEF InstallBegin, OperationInv
<1>2. CASE InstallRejected
  <2>1. OperationInv'
    BY <1>2, OperationsEnd DEF InstallRejected
  <2> QED BY <1>2, <2>1 DEF InstallRejected, OperationInv
<1>3. CASE InstallActivate
  <2>1. OperationInv'
    BY <1>3, OperationsAdvance DEF InstallActivate, OperationInv, Operations
  <2>2. dirs' \in [Sources -> SUBSET Versions]
    BY <1>0, <1>3 DEF InstallActivate, Placed
  <2> QED BY <1>3, <2>1, <2>2 DEF InstallActivate, OperationInv
<1>4. CASE InstallRecord
  <2>1. /\ Recorded(doc, op.source, op.reference, op.version) \in Documents
        /\ Superseded(doc, op.source, op.reference, op.version) \in Versions \cup {None}
    BY <1>0, <1>4, InstallTypes DEF InstallRecord
  <2>2. OperationInv'
    BY <1>4, <2>1, OperationsEnd, OperationsAdvance DEF InstallRecord, OperationInv, Operations
  <2> QED BY <1>4, <2>1, <2>2 DEF InstallRecord, OperationInv
<1>5. CASE InstallUndo
  <2>1. OperationInv'
    BY <1>5, OperationsEnd DEF InstallUndo
  <2> QED BY <1>0, <1>5, <2>1 DEF InstallUndo, OperationInv
<1>6. CASE InstallClean
  <2>1. OperationInv'
    BY <1>6, OperationsEnd DEF InstallClean
  <2> QED BY <1>0, <1>6, <2>1 DEF InstallClean, OperationInv
<1>7. ASSUME NEW s \in Sources, NEW r \in References, RemoveBegin(s, r)
      PROVE  TypeInv'
  <2>1. Resolve(doc, s, r) \in Versions
    BY <1>7 DEF RemoveBegin, Resolve, Target, Documents
  <2>2. OperationInv'
    BY <1>7, <2>1, OperationsBegin DEF RemoveBegin, Begin
  <2> QED BY <1>7, <2>2 DEF RemoveBegin, OperationInv
<1>8. CASE RemoveStage
  <2>1. op.kind \notin {"none", "prune", "activate"}
    BY <1>8 DEF RemoveStage
  <2>2. \E fresh \in BOOLEAN : op' = [op EXCEPT !.step = "record", !.fresh = fresh]
    <3> DEFINE here == op.version \in dirs[op.source]
    <3>1. op' = [op EXCEPT !.step = "record", !.fresh = here]
      BY <1>8 DEF RemoveStage, OperationInv, Operations
    <3>2. here \in BOOLEAN
      OBVIOUS
    <3> QED BY <3>1, <3>2, Zenon
  <2>3. OperationInv'
    BY <2>1, <2>2, OperationsAdvance, Zenon
  <2> QED BY <1>0, <1>8, <2>3 DEF RemoveStage, OperationInv
<1>9. CASE RemoveRecord
  <2>1. Removed(doc, op.source, op.version) \in Documents
    BY <1>0, <1>9, InstallTypes DEF RemoveRecord
  <2>2. OperationInv'
    BY <1>9, OperationsAdvance DEF RemoveRecord, OperationInv, Operations
  <2> QED BY <1>9, <2>1, <2>2 DEF RemoveRecord, OperationInv
<1>10. CASE RemoveUndo
  <2>1. OperationInv'
    BY <1>10, OperationsEnd DEF RemoveUndo
  <2> QED BY <1>0, <1>10, <2>1 DEF RemoveUndo, OperationInv
<1>11. CASE RemoveClean
  <2>1. OperationInv'
    BY <1>11, OperationsEnd DEF RemoveClean
  <2> QED BY <1>0, <1>11, <2>1 DEF RemoveClean, OperationInv
<1> QED BY <1>1, <1>2, <1>3, <1>4, <1>5, <1>6, <1>7, <1>8, <1>9, <1>10, <1>11
        DEF Install, Remove

LEMMA ConfigureTypesKept == TypeInv /\ Configure => TypeInv'
<1> SUFFICES ASSUME TypeInv, Configure PROVE TypeInv'
  OBVIOUS
<1> USE CoresAssumption DEF TypeInv, TypeOK, At, Finish, Advance
<1>0. /\ op.kind \notin {"none", "prune"} =>
            op.source \in Sources /\ op.reference \in References /\ op.version \in Versions
      /\ op.kind = "activate" /\ op.step = "record" => op.hash \in Hashes
  BY DEF OperationInv
<1>1. ASSUME NEW s \in Sources, NEW r \in References, SelectBegin(s, r)
      PROVE  TypeInv'
  <2>1. Resolve(doc, s, r) \in Versions
    BY <1>1 DEF SelectBegin, Resolve, Target, Documents
  <2>2. doc.selected \in Selections \cup {None} /\ doc.configs[CoreOf[s]] \in Hashes \cup {None}
    BY DEF Documents
  <2>3. OperationInv'
    BY <1>1, <2>1, <2>2, OperationsBegin DEF SelectBegin, Begin
  <2> QED BY <1>1, <2>3 DEF SelectBegin, OperationInv
<1>2. CASE SelectPrepare
  <2>1. OperationInv'
    BY <1>2, OperationsAdvance DEF SelectPrepare, Store, OperationInv, Operations
  <2>2. files' \subseteq Cores \X Hashes
    <3>1. CoreOf[op.source] \in Cores
      BY <1>0, <1>2 DEF SelectPrepare
    <3>2. files' = files \/ \E h \in Hashes : files' = files \cup {<<CoreOf[op.source], h>>}
      BY <1>2, Zenon DEF SelectPrepare, Store
    <3> QED BY <3>1, <3>2
  <2> QED BY <1>2, <2>1, <2>2 DEF SelectPrepare, OperationInv
<1>3. CASE SelectRejected
  <2>1. OperationInv'
    BY <1>3, OperationsEnd DEF SelectRejected
  <2> QED BY <1>3, <2>1 DEF SelectRejected, OperationInv
<1>4. CASE SelectRecord
  <2>1. Selected(doc) \in Documents
    BY <1>0, <1>4, SelectionTypes DEF SelectRecord, Record
  <2>2. OperationInv'
    BY <1>4, OperationsEnd, OperationsAdvance DEF SelectRecord, Record, OperationInv, Operations
  <2> QED BY <1>4, <2>1, <2>2 DEF SelectRecord, Record, OperationInv
<1>5. CASE ActivateBegin
  <2>1. doc.selected \in Selections
    BY <1>5 DEF ActivateBegin, Documents
  <2>2. Resolve(doc, doc.selected.source, doc.selected.reference) \in Versions
    BY <1>5, <2>1 DEF ActivateBegin, Resolve, Target, Documents, Selections
  <2>3. OperationInv'
    BY <1>5, <2>1, <2>2, OperationsBegin DEF ActivateBegin, Begin, Selections
  <2> QED BY <1>5, <2>3 DEF ActivateBegin, OperationInv
<1>6. ASSUME NEW h \in Hashes, ActivatePrepare(h)
      PROVE  TypeInv'
  <2>1. OperationInv'
    BY <1>6, OperationsAdvance DEF ActivatePrepare, Store, OperationInv, Operations
  <2>2. files' \subseteq Cores \X Hashes
    BY <1>0, <1>6 DEF ActivatePrepare, Store
  <2> QED BY <1>6, <2>1, <2>2 DEF ActivatePrepare, OperationInv
<1>7. CASE ActivateRecord
  <2>1. \A changed \in BOOLEAN : Activated(doc, changed) \in Documents
    BY <1>0, <1>7, SelectionTypes DEF ActivateRecord, Record
  <2>2. OperationInv'
    BY <1>7, OperationsEnd, OperationsAdvance DEF ActivateRecord, Record, OperationInv, Operations
  <2> QED BY <1>7, <2>1, <2>2 DEF ActivateRecord, Record, OperationInv
<1>8. CASE Discard
  <2>1. OperationInv'
    BY <1>8, OperationsEnd DEF Discard
  <2> QED BY <1>8, <2>1 DEF Discard, OperationInv
<1> QED BY <1>1, <1>2, <1>3, <1>4, <1>5, <1>6, <1>7, <1>8 DEF Configure

LEMMA SuperviseTypesKept == TypeInv /\ Supervise => TypeInv'
<1> SUFFICES ASSUME TypeInv, Supervise PROVE TypeInv'
  OBVIOUS
<1> USE CoresAssumption DEF TypeInv, TypeOK, OperationInv
<1>1. CASE Launch
  BY <1>1 DEF Launch, Documents
<1>2. CASE DeploymentFails \/ Reload
  BY <1>2 DEF DeploymentFails, Reload
<1>3. CASE MarkStable
  BY <1>3, DeploymentTypes DEF MarkStable
<1>4. CASE PruneSkip
  BY <1>4 DEF PruneSkip
<1>5. CASE PruneBegin
  <2>1. Retained(doc) \subseteq Cores \X Hashes
    BY DEF Retained, Named, Config, Documents, Deployments
  <2>2. OperationInv'
    BY <1>5, OperationsEnd DEF PruneBegin
  <2> QED BY <1>5, <2>1, <2>2 DEF PruneBegin
<1>6. CASE PruneDelete
  <2>1. OperationInv'
    BY <1>6, OperationsEnd DEF PruneDelete
  <2> QED BY <1>6, <2>1 DEF PruneDelete
<1>7. CASE RollBackCheck
  BY <1>7 DEF RollBackCheck, OnDisk
<1>8. CASE RollBackWrite
  BY <1>8, DeploymentTypes DEF RollBackWrite
<1>9. CASE Retry
  BY <1>9, DeploymentTypes DEF Retry
<1> QED BY <1>1, <1>2, <1>3, <1>4, <1>5, <1>6, <1>7, <1>8, <1>9 DEF Supervise

LEMMA TypeInvKept == TypeInv /\ [Next]_vars => TypeInv'
<1> SUFFICES ASSUME TypeInv, [Next]_vars PROVE TypeInv'
  OBVIOUS
<1>1. CASE OperationKilled \/ DaemonRestarted
  <2>1. OperationInv'
    <3>1. op' = NoOp \/ op' = op
      BY <1>1 DEF OperationKilled, DaemonRestarted
    <3> QED BY <3>1, OperationsEnd DEF TypeInv, OperationInv
  <2>2. CASE OperationKilled
    BY <2>1, <2>2 DEF OperationKilled, TypeInv, TypeOK, OperationInv
  <2>3. CASE DaemonRestarted
    BY <2>1, <2>3 DEF DaemonRestarted, TypeInv, TypeOK, OperationInv
  <2> QED BY <1>1, <2>2, <2>3
<1>2. CASE UNCHANGED vars
  BY <1>2 DEF vars, TypeInv, TypeOK, OperationInv
<1> QED BY <1>1, <1>2, InstallTypesKept, ConfigureTypesKept, SuperviseTypesKept DEF Next

(* The references of the document are intact, and what they name is there:  *)
(* a version directory in place or renamed, and never one that an install   *)
(* that failed is about to take away or a clean-up is about to delete.      *)
DirectoriesKept ==
    /\ \A s \in Sources : doc.installed[s] \subseteq dirs[s] \cup moved[s]
    /\ At("install", "record") => op.version \in dirs[op.source]
    /\ op.kind = "install" /\ op.step \in {"record", "undo"} /\ op.fresh
         => (op.version \in doc.installed[op.source] => op.version \in moved[op.source])
    /\ At("install", "clean") \/ At("remove", "clean")
         => op.version \notin doc.installed[op.source]

(* The configurations the document names are stored.  A prune keeps them,   *)
(* and the one an operation compiled is named by nobody until it records it.*)
Compiled == <<CoreOf[op.source], op.hash>>
Configuring == op.kind \in {"select", "activate"}
FilesKept ==
    /\ Retained(doc) \subseteq files
    /\ op.kind = "prune" => Retained(doc) \subseteq kept
    /\ Configuring /\ op.step = "prepare" => ~op.fresh
    /\ Configuring /\ op.step \in {"record", "undo"} /\ op.fresh => Compiled \notin Retained(doc)
    /\ Configuring /\ op.step = "record" /\ op.hash # None => Compiled \in files
    /\ At("select", "prepare") => op.previous = doc.configs[CoreOf[op.source]]

FilesInv == TypeInv /\ Valid(doc) /\ DirectoriesKept /\ FilesKept

LEMMA RetainedByInstall ==
    ASSUME NEW d \in Documents, NEW s \in Sources, NEW r \in References, NEW v \in Versions
    PROVE  Retained(Recorded(d, s, r, v)) = Retained(d) /\ Retained(Removed(d, s, v)) = Retained(d)
<1>1. ASSUME NEW x, x.active = d.active, x.lastGood = d.lastGood, x.rejected = d.rejected,
             x.configs = d.configs
      PROVE  Retained(x) = Retained(d)
  BY <1>1 DEF Retained, Named
<1>2. Retained(Recorded(d, s, r, v)) = Retained(d)
  BY <1>1 DEF Recorded, Added, Documents
<1>3. Retained(Removed(d, s, v)) = Retained(d)
  BY <1>1 DEF Removed, Documents
<1> QED BY <1>2, <1>3

LEMMA RetainedByMove ==
    ASSUME NEW d \in Documents
    PROVE  /\ Retained(RolledBack(d)) \subseteq Retained(d)
           /\ Retained(Retried(d)) \subseteq Retained(d)
           /\ Retained([d EXCEPT !.lastGood = d.active]) \subseteq Retained(d)
BY DEF Retained, Named, RolledBack, Retried, Documents

(* A selection and an activation name their own configuration besides.      *)
LEMMA RetainedConfigured ==
    ASSUME NEW d \in Documents, NEW x \in Documents, op \in Operations, op.source \in Sources,
           x.configs = d.configs, Named(x) \subseteq Named(d) \cup {Candidate},
           op.hash = None => Named(x) \subseteq Named(d)
    PROVE  Retained(Configured(x)) \subseteq
                Retained(d) \cup (IF op.hash = None THEN {} ELSE {Compiled})
<1>1. CASE op.hash = None
  BY <1>1 DEF Configured, Retained
<1>2. CASE op.hash # None
  <2>1. Configured(x) = [x EXCEPT !.configs[CoreOf[op.source]] = op.hash]
    BY <1>2 DEF Configured
  <2>2. /\ Named(Configured(x)) = Named(x)
        /\ Configured(x).configs = [d.configs EXCEPT ![CoreOf[op.source]] = op.hash]
    BY <2>1 DEF Named, Documents
  <2>3. Config(Candidate) = Compiled
    BY DEF Config, Candidate, Compiled
  <2>4. ASSUME NEW f \in Retained(Configured(x)) PROVE f \in Retained(d) \cup {Compiled}
    <3>1. CASE \E dep \in Named(x) : f = Config(dep)
      BY <2>3, <3>1 DEF Retained
    <3>2. CASE f \in Cores \X Hashes /\ Configured(x).configs[f[1]] = f[2]
      BY <2>2, <3>2, CoresAssumption DEF Retained, Compiled, Documents
    <3> QED BY <2>2, <2>4, <3>1, <3>2 DEF Retained
  <2> QED BY <1>2, <2>4
<1> QED BY <1>1, <1>2

LEMMA RetainedBySelection ==
    ASSUME NEW d \in Documents, op \in Operations, op.source \in Sources,
           op.reference \in References, op.version \in Versions
    PROVE  /\ Retained(Selected(d)) \subseteq
                Retained(d) \cup (IF op.hash = None THEN {} ELSE {Compiled})
           /\ op.hash # None => \A changed \in BOOLEAN :
                Retained(Activated(d, changed)) \subseteq Retained(d) \cup {Compiled}
<1> DEFINE chosen == [d EXCEPT
                    !.selected = [source |-> op.source, reference |-> op.reference],
                    !.explicit[op.source] =
                        IF op.reference = Stable THEN @ ELSE @ \cup {op.version}]
<1>1. op.hash # None => Candidate \in Deployments
  BY DEF Candidate, Deployments, Operations
<1>2. chosen \in Documents /\ chosen.configs = d.configs /\ Named(chosen) = Named(d)
  BY DEF Documents, Selections, Named
<1>3. ASSUME op.hash # None, NEW x \in Documents
      PROVE  /\ Stage(x, Candidate) \in Documents
             /\ Stage(x, Candidate).configs = x.configs
             /\ Named(Stage(x, Candidate)) \subseteq Named(x) \cup {Candidate}
  BY <1>1, <1>3 DEF Stage, Documents, Named
<1> HIDE DEF chosen
<1>4. Retained(Selected(d)) \subseteq
                Retained(d) \cup (IF op.hash = None THEN {} ELSE {Compiled})
  <2> DEFINE x == IF op.hash = None \/ d.active = Candidate THEN chosen
                  ELSE Stage(chosen, Candidate)
  <2>1. /\ x \in Documents /\ x.configs = d.configs
        /\ Named(x) \subseteq Named(d) \cup {Candidate}
        /\ op.hash = None => Named(x) \subseteq Named(d)
    BY <1>2, <1>3
  <2>2. Selected(d) = Configured(x)
    BY DEF Selected, chosen
  <2> HIDE DEF x
  <2> QED BY <2>1, <2>2, RetainedConfigured
<1>5. ASSUME op.hash # None, NEW changed \in BOOLEAN
      PROVE  Retained(Activated(d, changed)) \subseteq Retained(d) \cup {Compiled}
  <2> DEFINE x == IF (d.active # Candidate \/ changed) /\ d.rejected # Candidate
                  THEN Stage(d, Candidate) ELSE d
  <2>1. /\ x \in Documents /\ x.configs = d.configs
        /\ Named(x) \subseteq Named(d) \cup {Candidate}
    BY <1>3, <1>5
  <2>2. Activated(d, changed) = Configured(x)
    BY DEF Activated
  <2> HIDE DEF x
  <2> QED BY <1>5, <2>1, <2>2, RetainedConfigured
<1> QED BY <1>4, <1>5

(* The updates that change the document are refused when they break its     *)
(* references; marking a deployment healthy touches none of them.           *)
LEMMA ValidKept == TypeInv /\ Valid(doc) /\ [Next]_vars => Valid(doc)'
<1> SUFFICES ASSUME TypeInv, Valid(doc), [Next]_vars PROVE Valid(doc)'
  OBVIOUS
<1>1. \/ doc' = doc
      \/ Valid(doc')
      \/ doc' = [doc EXCEPT !.lastGood = doc.active]
  <2>1. CASE Install
    BY <2>1 DEF Install, InstallBegin, InstallRejected, InstallActivate, InstallRecord,
                InstallUndo, InstallClean
  <2>2. CASE Remove
    BY <2>2 DEF Remove, RemoveBegin, RemoveStage, RemoveRecord, RemoveUndo, RemoveClean
  <2>3. CASE Configure
    BY <2>3 DEF Configure, SelectBegin, SelectPrepare, SelectRejected, SelectRecord, ActivateBegin,
                ActivatePrepare, ActivateRecord, Record, Discard
  <2>4. CASE Supervise
    BY <2>4 DEF Supervise, Launch, DeploymentFails, Reload, MarkStable, PruneSkip, PruneBegin,
                PruneDelete, RollBackCheck, RollBackWrite, Retry
  <2>5. CASE OperationKilled \/ DaemonRestarted \/ UNCHANGED vars
    BY <2>5 DEF OperationKilled, DaemonRestarted, vars
  <2> QED BY <2>1, <2>2, <2>3, <2>4, <2>5 DEF Next
<1>2. CASE doc' = doc
  BY <1>2 DEF Valid, Target
<1>3. CASE Valid(doc')
  BY <1>3 DEF Valid
<1>4. CASE doc' = [doc EXCEPT !.lastGood = doc.active]
  BY <1>4 DEF Valid, TypeInv, TypeOK, Documents
<1> QED BY <1>1, <1>2, <1>3, <1>4

(* Only an install and a removal change what is installed.                  *)
LEMMA InstalledSame ==
    ASSUME TypeInv,
           \/ Configure \/ Supervise \/ OperationKilled \/ DaemonRestarted \/ UNCHANGED vars
    PROVE  doc'.installed = doc.installed
<1> USE DEF TypeInv, TypeOK, Documents
<1>1. ASSUME NEW x \in Documents, op.source \in Sources
      PROVE  Selected(x).installed = x.installed
  BY <1>1 DEF Selected, Configured, Stage
<1>2. ASSUME NEW x \in Documents, op.source \in Sources, NEW changed \in BOOLEAN
      PROVE  Activated(x, changed).installed = x.installed
  BY <1>2 DEF Activated, Configured, Stage
<1>3. CASE Configure
  <2>1. CASE SelectRecord
    BY <1>1, <2>1 DEF SelectRecord, Record, At, OperationInv
  <2>2. CASE ActivateRecord
    BY <1>2, <2>2 DEF ActivateRecord, Record, At, OperationInv
  <2> QED BY <1>3, <2>1, <2>2 DEF Configure, SelectBegin, SelectPrepare, SelectRejected,
            ActivateBegin, ActivatePrepare, Discard
<1>4. CASE Supervise
  BY <1>4 DEF Supervise, Launch, DeploymentFails, Reload, MarkStable, PruneSkip, PruneBegin,
              PruneDelete, RollBackCheck, RollBackWrite, Retry, RolledBack, Retried
<1>5. CASE OperationKilled \/ DaemonRestarted \/ UNCHANGED vars
  BY <1>5 DEF OperationKilled, DaemonRestarted, vars
<1> QED BY <1>3, <1>4, <1>5

LEMMA DirectoriesKeptByInstall ==
    TypeInv /\ DirectoriesKept /\ Install => DirectoriesKept'
<1> SUFFICES ASSUME TypeInv, DirectoriesKept, Install PROVE DirectoriesKept'
  OBVIOUS
<1> USE CoresAssumption DEF TypeInv, TypeOK, OperationInv, DirectoriesKept, At, Finish, Advance
<1>0. /\ doc.installed \in [Sources -> SUBSET Versions]
      /\ NoOp.kind = "none"
  BY DEF Documents, NoOp
<1>1. ASSUME NEW s \in Sources, NEW r \in References, NEW v \in Versions, InstallBegin(s, r, v)
      PROVE  DirectoriesKept'
  BY <1>1 DEF InstallBegin, Begin
<1>2. CASE InstallRejected
  BY <1>0, <1>2 DEF InstallRejected
<1>3. CASE InstallActivate
  BY <1>0, <1>3 DEF InstallActivate, Placed, Operations
<1>4. CASE InstallRecord
  <2> DEFINE old == Superseded(doc, op.source, op.reference, op.version)
  <2>1. op.source \in Sources /\ op.reference \in References /\ op.version \in Versions
    BY <1>4 DEF InstallRecord
  <2>2. CASE doc' = doc /\ op' = [op EXCEPT !.step = "undo"]
    BY <1>0, <1>4, <2>2 DEF InstallRecord, Operations
  <2>3. CASE /\ doc' = Recorded(doc, op.source, op.reference, op.version)
             /\ IF old = None THEN op' = NoOp
                ELSE op' = [op EXCEPT !.step = "clean", !.version = old]
    <3>1. doc'.installed = [doc.installed EXCEPT ![op.source] = (@ \cup {op.version}) \ {old}]
      BY <2>1, <2>3, InstalledByInstall
    <3>2. dirs' = dirs /\ moved' = moved /\ op.version \in dirs[op.source]
      BY <1>4 DEF InstallRecord
    <3>3. old \in Versions \cup {None}
      BY <2>1, InstallTypes
    <3> HIDE DEF old
    <3>4. op' = NoOp \/ op' = [op EXCEPT !.step = "clean", !.version = old]
      BY <2>3
    <3>5. \A s \in Sources : doc'.installed[s] \subseteq dirs'[s] \cup moved'[s]
      BY <1>0, <2>1, <3>1, <3>2
    <3>6. CASE op' = NoOp
      BY <1>0, <3>5, <3>6
    <3>7. CASE op' = [op EXCEPT !.step = "clean", !.version = old]
      <4>1. op'.kind = op.kind /\ op'.step = "clean" /\ op'.source = op.source /\ op'.version = old
        BY <3>7 DEF Operations
      <4>2. old \notin doc'.installed[op.source]
        BY <1>0, <2>1, <3>1
      <4> QED BY <3>5, <4>1, <4>2, <1>4 DEF InstallRecord
    <3> QED BY <3>4, <3>6, <3>7
  <2> QED BY <1>4, <2>2, <2>3 DEF InstallRecord
<1>5. CASE InstallUndo
  BY <1>0, <1>5 DEF InstallUndo
<1>6. CASE InstallClean
  BY <1>0, <1>6 DEF InstallClean
<1> QED BY <1>1, <1>2, <1>3, <1>4, <1>5, <1>6 DEF Install

LEMMA DirectoriesKeptByRemove ==
    TypeInv /\ DirectoriesKept /\ Remove => DirectoriesKept'
<1> SUFFICES ASSUME TypeInv, DirectoriesKept, Remove PROVE DirectoriesKept'
  OBVIOUS
<1> USE CoresAssumption DEF TypeInv, TypeOK, OperationInv, DirectoriesKept, At, Finish, Advance
<1>0. /\ doc.installed \in [Sources -> SUBSET Versions]
      /\ NoOp.kind = "none"
  BY DEF Documents, NoOp
<1>1. ASSUME NEW s \in Sources, NEW r \in References, RemoveBegin(s, r)
      PROVE  DirectoriesKept'
  BY <1>1 DEF RemoveBegin, Begin
<1>2. CASE RemoveStage
  BY <1>0, <1>2 DEF RemoveStage, Operations
<1>3. CASE RemoveRecord
  <2>1. op.source \in Sources /\ op.version \in Versions
    BY <1>3 DEF RemoveRecord
  <2>2. CASE doc' = doc /\ op' = [op EXCEPT !.step = "undo"]
    BY <1>0, <1>3, <2>2 DEF RemoveRecord, Operations
  <2>3. CASE /\ doc' = Removed(doc, op.source, op.version)
             /\ op' = [op EXCEPT !.step = "clean"]
    <3>1. doc'.installed = [doc.installed EXCEPT ![op.source] = @ \ {op.version}]
      BY <2>1, <2>3 DEF Removed, Documents
    <3>2. dirs' = dirs /\ moved' = moved
      BY <1>3 DEF RemoveRecord
    <3> QED BY <1>0, <1>3, <2>1, <2>3, <3>1, <3>2 DEF RemoveRecord, Operations
  <2> QED BY <1>3, <2>2, <2>3 DEF RemoveRecord
<1>4. CASE RemoveUndo
  BY <1>0, <1>4 DEF RemoveUndo
<1>5. CASE RemoveClean
  BY <1>0, <1>5 DEF RemoveClean
<1> QED BY <1>1, <1>2, <1>3, <1>4, <1>5 DEF Remove

LEMMA DirectoriesSame ==
    ASSUME Configure \/ Supervise \/ OperationKilled \/ DaemonRestarted \/ UNCHANGED vars
    PROVE  dirs' = dirs /\ moved' = moved
BY DEF Configure, SelectBegin, SelectPrepare, SelectRejected, SelectRecord, ActivateBegin,
       ActivatePrepare, ActivateRecord, Record, Discard, Supervise, Launch,
       DeploymentFails, Reload, MarkStable, PruneSkip, PruneBegin, PruneDelete,
       RollBackCheck, RollBackWrite, Retry, OperationKilled, DaemonRestarted, vars

LEMMA OperationSame ==
    ASSUME TypeInv, Configure \/ Supervise \/ DaemonRestarted \/ UNCHANGED vars
    PROVE  \/ op' = op
           \/ op.kind \notin {"install", "remove"} /\ op'.kind \notin {"install", "remove"}
<1> USE DEF TypeInv, TypeOK, OperationInv, NoOp, At, Begin, Finish, Advance, LockFree
<1>1. CASE Configure
  <2>1. CASE \E s \in Sources, r \in References : SelectBegin(s, r)
    BY <2>1 DEF SelectBegin
  <2>2. CASE SelectPrepare
    BY <2>2 DEF SelectPrepare, Store, Operations
  <2>3. CASE SelectRejected \/ Discard
    BY <2>3 DEF SelectRejected, Discard
  <2>4. CASE SelectRecord
    BY <2>4 DEF SelectRecord, Record, Operations
  <2>5. CASE ActivateBegin
    BY <2>5 DEF ActivateBegin
  <2>6. CASE \E h \in Hashes : ActivatePrepare(h)
    BY <2>6 DEF ActivatePrepare, Store, Operations
  <2>7. CASE ActivateRecord
    BY <2>7 DEF ActivateRecord, Record, Operations
  <2> QED BY <1>1, <2>1, <2>2, <2>3, <2>4, <2>5, <2>6, <2>7 DEF Configure
<1>2. CASE Supervise
  BY <1>2 DEF Supervise, Launch, DeploymentFails, Reload, MarkStable, PruneSkip, PruneBegin,
              PruneDelete, RollBackCheck, RollBackWrite, Retry
<1>3. CASE DaemonRestarted \/ UNCHANGED vars
  BY <1>3 DEF DaemonRestarted, vars
<1> QED BY <1>1, <1>2, <1>3

LEMMA DirectoriesKeptByStep == TypeInv /\ DirectoriesKept /\ [Next]_vars => DirectoriesKept'
<1> SUFFICES ASSUME TypeInv, DirectoriesKept, [Next]_vars PROVE DirectoriesKept'
  OBVIOUS
<1>1. CASE Configure \/ Supervise \/ OperationKilled \/ DaemonRestarted \/ UNCHANGED vars
  <2>1. doc'.installed = doc.installed /\ dirs' = dirs /\ moved' = moved
    BY <1>1, InstalledSame, DirectoriesSame
  <2>2. op' = op \/ op'.kind \notin {"install", "remove"}
    BY <1>1, OperationSame DEF OperationKilled, NoOp
  <2> QED BY <2>1, <2>2 DEF DirectoriesKept, At
<1> QED BY <1>1, DirectoriesKeptByInstall, DirectoriesKeptByRemove DEF Next

(* An install and a removal change neither the configurations nor what of   *)
(* them the document names.                                                 *)
LEMMA FilesKeptByInstall ==
    TypeInv /\ FilesKept /\ (Install \/ Remove) => FilesKept'
<1> SUFFICES ASSUME TypeInv, FilesKept, Install \/ Remove PROVE FilesKept'
  OBVIOUS
<1> USE DEF TypeInv, TypeOK, OperationInv, At
<1>1. files' = files
  BY DEF Install, InstallBegin, InstallRejected, InstallActivate, InstallRecord,
         InstallUndo, InstallClean, Remove, RemoveBegin, RemoveStage, RemoveRecord, RemoveUndo,
         RemoveClean
<1>2. doc' = doc \/ Retained(doc') = Retained(doc)
  <2>1. CASE InstallRecord
    BY <2>1, RetainedByInstall DEF InstallRecord
  <2>2. CASE RemoveRecord
    BY <2>2, RetainedByInstall DEF RemoveRecord
  <2> QED BY <2>1, <2>2 DEF Install, InstallBegin, InstallRejected, InstallActivate, InstallUndo,
         InstallClean, Remove, RemoveBegin, RemoveStage, RemoveUndo, RemoveClean
<1>3. op'.kind \in {"none", "install", "remove"}
  <2> USE DEF Finish, Advance, Begin, NoOp
  <2>1. CASE InstallRejected \/ InstallUndo \/ InstallClean \/ RemoveUndo \/ RemoveClean
    BY <2>1 DEF InstallRejected, InstallUndo, InstallClean, RemoveUndo, RemoveClean
  <2>2. CASE InstallActivate
    BY <2>2 DEF InstallActivate, Operations
  <2>3. CASE InstallRecord
    <3>1. CASE op' = NoOp
      BY <3>1
    <3>2. CASE op' = [op EXCEPT !.step = "undo"]
      BY <2>3, <3>2 DEF InstallRecord, Operations
    <3>3. CASE op' = [op EXCEPT !.step = "clean",
                        !.version = Superseded(doc, op.source, op.reference, op.version)]
      BY <2>3, <3>3 DEF InstallRecord, Operations
    <3> QED BY <2>3, <3>1, <3>2, <3>3 DEF InstallRecord
  <2>4. CASE RemoveStage
    BY <2>4 DEF RemoveStage, Operations
  <2>5. CASE RemoveRecord
    BY <2>5 DEF RemoveRecord, Operations
  <2>6. CASE \E s \in Sources, r \in References : \/ RemoveBegin(s, r)
                                                  \/ \E v \in Versions : InstallBegin(s, r, v)
    BY <2>6 DEF RemoveBegin, InstallBegin
  <2> QED BY <2>1, <2>2, <2>3, <2>4, <2>5, <2>6 DEF Install, Remove
<1>4. Retained(doc)' \subseteq files'
  BY <1>1, <1>2 DEF FilesKept
<1> QED BY <1>3, <1>4 DEF FilesKept, Configuring

LEMMA FilesKeptByConfigure == TypeInv /\ FilesKept /\ Configure => FilesKept'
<1> SUFFICES ASSUME TypeInv, FilesKept, Configure PROVE FilesKept'
  OBVIOUS
<1> USE DEF TypeInv, TypeOK, OperationInv, At, FilesKept, Configuring
<1>1. ASSUME NEW s \in Sources, NEW r \in References, SelectBegin(s, r)
      PROVE  FilesKept'
  <2>1. Retained(doc)' = Retained(doc)
    BY <1>1 DEF SelectBegin
  <2> QED BY <1>1, <2>1 DEF SelectBegin, Begin
<1>2. CASE SelectPrepare
  <2>1. Retained(doc)' = Retained(doc)
    BY <1>2 DEF SelectPrepare
  <2>2. CASE op' = [op EXCEPT !.step = "record", !.hash = op.previous] /\ UNCHANGED files
    <3>1. /\ op'.kind = "select" /\ op'.step = "record" /\ op'.fresh = FALSE
          /\ op'.hash = op.previous /\ op'.source = op.source
      BY <1>2, <2>2 DEF SelectPrepare, Operations
    <3>2. op'.hash # None => Compiled' \in Retained(doc)
      BY <1>2, <3>1, CoresAssumption DEF SelectPrepare, Compiled, Retained, Operations
    <3> QED BY <2>1, <2>2, <3>1, <3>2
  <2>3. CASE \E h \in Hashes : Store(h)
    <3>1. PICK h \in Hashes : Store(h)
      BY <2>3
    <3>2. /\ op'.kind = "select" /\ op'.step = "record" /\ op'.hash = h
          /\ op'.source = op.source /\ op'.fresh = (<<CoreOf[op.source], h>> \notin files)
      BY <1>2, <3>1 DEF SelectPrepare, Store, Operations
    <3>3. Compiled' = <<CoreOf[op.source], h>>
      BY <3>2 DEF Compiled
    <3> QED BY <2>1, <3>1, <3>2, <3>3 DEF Store
  <2> QED BY <1>2, <2>2, <2>3 DEF SelectPrepare
<1>3. CASE SelectRejected
  <2>1. Retained(doc)' = Retained(doc)
    BY <1>3 DEF SelectRejected
  <2> QED BY <1>3, <2>1 DEF SelectRejected, Finish, NoOp
<1>4. ASSUME At("select", "record") \/ At("activate", "record"),
             UNCHANGED <<doc, files>>, op' = [op EXCEPT !.step = "undo"]
      PROVE  FilesKept'
  <2>1. Retained(doc)' = Retained(doc)
    BY <1>4
  <2>2. /\ op'.kind = op.kind /\ op'.step = "undo" /\ op'.hash = op.hash
        /\ op'.source = op.source /\ op'.fresh = op.fresh
    BY <1>4 DEF Operations
  <2> QED BY <1>4, <2>1, <2>2 DEF Compiled
<1>5. ASSUME At("select", "record") \/ At("activate", "record"),
             Retained(doc') \subseteq
                Retained(doc) \cup (IF op.hash = None THEN {} ELSE {Compiled}),
             UNCHANGED files, op' = NoOp
      PROVE  FilesKept'
  <2>1. Retained(doc)' \subseteq files
    BY <1>5
  <2> QED BY <1>5, <2>1 DEF NoOp
<1>6. CASE SelectRecord
  <2>1. Retained(Selected(doc)) \subseteq
                Retained(doc) \cup (IF op.hash = None THEN {} ELSE {Compiled})
    BY <1>6, RetainedBySelection DEF SelectRecord, Record
  <2> QED BY <1>4, <1>5, <1>6, <2>1 DEF SelectRecord, Record, Finish, Advance
<1>7. CASE ActivateBegin
  <2>1. Retained(doc)' = Retained(doc)
    BY <1>7 DEF ActivateBegin
  <2> QED BY <1>7, <2>1 DEF ActivateBegin, Begin
<1>8. ASSUME NEW h \in Hashes, ActivatePrepare(h)
      PROVE  FilesKept'
  <2>1. Retained(doc)' = Retained(doc)
    BY <1>8 DEF ActivatePrepare
  <2>2. /\ op'.kind = "activate" /\ op'.step = "record" /\ op'.hash = h
        /\ op'.source = op.source /\ op'.fresh = (<<CoreOf[op.source], h>> \notin files)
    BY <1>8 DEF ActivatePrepare, Store, Operations
  <2>3. Compiled' = <<CoreOf[op.source], h>>
    BY <2>2 DEF Compiled
  <2> QED BY <1>8, <2>1, <2>2, <2>3 DEF ActivatePrepare, Store
<1>9. CASE ActivateRecord
  <2>1. \A changed \in BOOLEAN : Retained(Activated(doc, changed)) \subseteq
                Retained(doc) \cup (IF op.hash = None THEN {} ELSE {Compiled})
    BY <1>9, RetainedBySelection, CoresAssumption DEF ActivateRecord, Record
  <2> QED BY <1>4, <1>5, <1>9, <2>1 DEF ActivateRecord, Record, Finish, Advance
<1>10. CASE Discard
  <2>1. Retained(doc)' = Retained(doc)
    BY <1>10 DEF Discard
  <2>2. Retained(doc) \subseteq files'
    BY <1>10 DEF Discard, Compiled
  <2> QED BY <1>10, <2>1, <2>2 DEF Discard, Finish, NoOp
<1> QED BY <1>1, <1>2, <1>3, <1>6, <1>7, <1>8, <1>9, <1>10 DEF Configure

(* The supervisor and a restart only move deployments within the document,  *)
(* and a prune deletes nothing that it read from it.                        *)
LEMMA FilesKeptBySupervise ==
    ASSUME TypeInv, FilesKept,
           Supervise \/ OperationKilled \/ DaemonRestarted \/ UNCHANGED vars
    PROVE  FilesKept'
<1> USE DEF TypeInv, TypeOK, OperationInv, At, FilesKept, Configuring
<1>1. Retained(doc)' \subseteq Retained(doc)
  <2>1. CASE MarkStable
    BY <2>1, RetainedByMove DEF MarkStable
  <2>2. CASE RollBackWrite
    BY <2>2, RetainedByMove DEF RollBackWrite
  <2>3. CASE Retry
    BY <2>3, RetainedByMove DEF Retry
  <2>4. CASE doc' = doc
    BY <2>4
  <2> QED BY <2>1, <2>2, <2>3, <2>4 DEF Supervise, Launch, DeploymentFails, Reload, PruneSkip,
        PruneBegin, PruneDelete, RollBackCheck, OperationKilled, DaemonRestarted, vars
<1>2. CASE PruneBegin
  <2>1. Retained(doc)' = Retained(doc) /\ op'.kind = "prune"
    BY <1>2 DEF PruneBegin, NoOp
  <2> QED BY <1>2, <2>1 DEF PruneBegin
<1>3. CASE PruneDelete
  <2>1. kept \cap files \subseteq files'
    <3>1. PICK gone \in SUBSET files : /\ \A c \in Cores : Prunable(c, OfCore(c, gone))
                                       /\ files' = files \ gone
      BY <1>3 DEF PruneDelete
    <3>2. ASSUME NEW c \in Cores PROVE OfCore(c, gone) \subseteq files \ kept
      BY <3>1 DEF Prunable, OfCore
    <3>3. ASSUME NEW f \in gone PROVE f \notin kept
      <4>1. f[1] \in Cores /\ f \in OfCore(f[1], gone)
        BY <3>3 DEF OfCore
      <4> QED BY <3>2, <4>1
    <3> QED BY <3>1, <3>3
  <2>2. Retained(doc) \subseteq files'
    BY <1>3, <2>1 DEF PruneDelete
  <2> QED BY <1>1, <1>3, <2>2 DEF PruneDelete, NoOp
<1>4. CASE UNCHANGED <<files, op, kept>>
  <2>1. Compiled' = Compiled
    BY <1>4 DEF Compiled
  <2>2. doc'.configs = doc.configs
    BY <1>4 DEF Supervise, Launch, DeploymentFails, Reload, PruneSkip, PruneBegin, PruneDelete,
       RollBackCheck, OperationKilled, DaemonRestarted, vars, MarkStable, RollBackWrite, Retry,
       RolledBack, Retried, Documents
  <2> QED BY <1>1, <1>4, <2>1, <2>2
<1>5. CASE OperationKilled \/ DaemonRestarted
  <2>1. /\ files' = files
        /\ op' = NoOp \/ (op' = op /\ op.kind # "prune")
        /\ doc' = doc
    BY <1>5 DEF OperationKilled, DaemonRestarted
  <2>2. CASE op' = NoOp
    BY <1>1, <2>1, <2>2 DEF NoOp
  <2>3. CASE op' = op /\ op.kind # "prune"
    BY <1>1, <2>1, <2>3 DEF Compiled
  <2> QED BY <2>1, <2>2, <2>3
<1> QED BY <1>2, <1>3, <1>4, <1>5 DEF Supervise, Launch, DeploymentFails, Reload, PruneSkip,
       RollBackCheck, vars, MarkStable, RollBackWrite, Retry

LEMMA InitialFiles == Init => FilesInv
<1> SUFFICES ASSUME Init PROVE FilesInv
  OBVIOUS
<1>1. TypeInv
  <2>1. doc \in Documents
    BY DEF Init, Documents
  <2>2. NoOp \in Operations /\ NoOp.kind = "none"
    BY DEF NoOp, Operations, Kinds, Steps
  <2> QED BY <2>1, <2>2 DEF Init, TypeInv, TypeOK, OperationInv
<1>2. Valid(doc)
  BY DEF Init, Valid
<1>3. DirectoriesKept
  BY DEF Init, DirectoriesKept, At, NoOp
<1>4. Retained(doc) = {}
  BY CoresAssumption DEF Init, Retained, Named
<1>5. FilesKept
  BY <1>4 DEF Init, FilesKept, At, NoOp, Configuring
<1> QED BY <1>1, <1>2, <1>3, <1>5 DEF FilesInv

LEMMA FilesInvKept == FilesInv /\ [Next]_vars => FilesInv'
<1> SUFFICES ASSUME FilesInv, [Next]_vars PROVE FilesInv'
  OBVIOUS
<1>1. TypeInv'
  BY TypeInvKept DEF FilesInv
<1>2. Valid(doc)'
  BY ValidKept DEF FilesInv
<1>3. DirectoriesKept'
  BY DirectoriesKeptByStep DEF FilesInv
<1>4. FilesKept'
  BY FilesKeptByInstall, FilesKeptByConfigure, FilesKeptBySupervise DEF FilesInv, Next
<1> QED BY <1>1, <1>2, <1>3, <1>4 DEF FilesInv

LEMMA FilesInvariant == Spec => []FilesInv
BY InitialFiles, FilesInvKept, PTL DEF Spec

(* Every reachable state of the files and of the document is well typed.    *)
THEOREM InstalledCoresTypes == Spec => []TypeOK
BY FilesInvariant, PTL DEF FilesInv, TypeInv

(* Rolling back and retrying find their configuration: no install, update,  *)
(* removal, failed activation or prune deletes a configuration that the     *)
(* document names.                                                          *)
THEOREM ConfigurationsKept == Spec => []ConfigsKept
<1>1. FilesInv => ConfigsKept
  <2> SUFFICES ASSUME FilesInv PROVE ConfigsKept
    OBVIOUS
  <2>1. Retained(doc) \subseteq files /\ doc \in Documents
    BY DEF FilesInv, FilesKept, TypeInv, TypeOK
  <2>2. ASSUME NEW c \in Cores, doc.configs[c] # None
        PROVE  <<c, doc.configs[c]>> \in Retained(doc)
    BY <2>1, <2>2 DEF Retained, Documents
  <2> QED BY <2>1, <2>2 DEF ConfigsKept, Retained
<1> QED BY <1>1, FilesInvariant, PTL

(* The active deployment's core and configuration are there at every step   *)
(* of every operation, whatever the supervisor and a restart made active.   *)
THEOREM ActiveDeploymentKept == Spec => []ActiveKept
<1>1. FilesInv => ActiveKept
  <2> SUFFICES ASSUME FilesInv, doc.active # None
               PROVE  /\ doc.active.version
                            \in dirs[doc.active.source] \cup moved[doc.active.source]
                      /\ Config(doc.active) \in files
    BY DEF ActiveKept
  <2>1. doc.active \in Deployments
    BY DEF FilesInv, TypeInv, TypeOK, Documents
  <2>2. doc.active.version \in doc.installed[doc.active.source]
    BY DEF FilesInv, Valid
  <2>3. doc.active.version \in dirs[doc.active.source] \cup moved[doc.active.source]
    BY <2>1, <2>2 DEF FilesInv, DirectoriesKept, Deployments
  <2>4. Config(doc.active) \in files
    BY DEF FilesInv, FilesKept, Retained, Named
  <2> QED BY <2>3, <2>4
<1> QED BY <1>1, FilesInvariant, PTL

(* A channel that advances takes a version away only if it was not          *)
(* installed by its version and neither the selection nor a deployment      *)
(* names it.                                                                *)
THEOREM ChannelsCollectOnlyWeak == Spec => CollectsOnlyWeak
<1> DEFINE Weak ==
      \A s \in Sources : \A v \in doc.installed[s] \ doc'.installed[s] :
        \/ op.kind = "remove"
        \/ /\ v \notin doc.explicit[s]
           /\ \A dep \in Named(doc') : dep.source = s => dep.version # v
           /\ doc'.selected # None /\ doc'.selected.source = s
                => Target(doc', s, doc'.selected.reference) # v
<1>1. FilesInv /\ [Next]_vars => Weak
  <2> SUFFICES ASSUME TypeInv, [Next]_vars PROVE Weak
    BY DEF FilesInv
  <2>1. CASE Configure \/ Supervise \/ OperationKilled \/ DaemonRestarted \/ UNCHANGED vars
    BY <2>1, InstalledSame
  <2>2. CASE doc' = doc \/ op.kind = "remove"
    BY <2>2
  <2>3. CASE InstallRecord /\ doc' # doc
    <3> DEFINE new == Added(doc, op.source, op.reference, op.version)
               old == Superseded(doc, op.source, op.reference, op.version)
    <3>1. /\ doc' = Recorded(doc, op.source, op.reference, op.version)
          /\ op.source \in Sources /\ op.reference \in References /\ op.version \in Versions
          /\ doc \in Documents
      BY <2>3 DEF InstallRecord, At, TypeInv, TypeOK, OperationInv
    <3>2. doc'.installed = [doc.installed EXCEPT ![op.source] = (@ \cup {op.version}) \ {old}]
      BY <3>1, InstalledByInstall
    <3>3. ASSUME NEW s \in Sources, NEW v \in doc.installed[s] \ doc'.installed[s]
          PROVE  s = op.source /\ v = old /\ v \in Versions
      BY <3>1, <3>2, <3>3 DEF Documents
    <3>4. ASSUME old \in Versions
          PROVE  old = doc.channel[op.source] /\ Collectable(new, op.source, old)
                 /\ op.reference = Stable
      BY <3>4, CoresAssumption DEF Superseded
    <3>5. /\ new.explicit[op.source] = doc.explicit[op.source] \/ op.reference # Stable
          /\ doc'.selected = new.selected /\ doc'.channel = new.channel
          /\ Named(doc') = Named(new)
      BY <3>1 DEF Recorded, Added, Documents, Named
    <3> HIDE DEF new, old
    <3>6. ASSUME old \in Versions
          PROVE  /\ old \notin doc.explicit[op.source]
                 /\ \A dep \in Named(doc') : dep.source = op.source => dep.version # old
                 /\ doc'.selected # None /\ doc'.selected.source = op.source
                      => Target(doc', op.source, doc'.selected.reference) # old
      BY <3>4, <3>5, <3>6 DEF Collectable, Referenced, Target
    <3> QED BY <3>3, <3>6
  <2> QED BY <2>1, <2>2, <2>3 DEF Next, Install, InstallBegin, InstallRejected, InstallActivate,
        InstallUndo, InstallClean, Remove, RemoveBegin, RemoveStage, RemoveRecord, RemoveUndo,
        RemoveClean, At
<1>2. FilesInv /\ [Next]_vars => [Weak]_vars
  BY <1>1
<1> QED BY <1>2, FilesInvariant, PTL DEF Spec, CollectsOnlyWeak

(* What an operation makes of a valid document is valid, provided that it   *)
(* found what it depends on unchanged.                                      *)
LEMMA RecordedValid ==
    ASSUME NEW d \in Documents, Valid(d), NEW s \in Sources, NEW r \in {Stable} \cup Versions,
           NEW v \in Versions
    PROVE  Valid(Recorded(d, s, r, v))
<1> DEFINE old == Superseded(d, s, r, v)
           new == Recorded(d, s, r, v)
           added == Added(d, s, r, v)
<1>1. r \in References /\ new \in Documents
  BY InstallTypes DEF References
<1>2. new.installed = [d.installed EXCEPT ![s] = (@ \cup {v}) \ {old}]
  BY <1>1, InstalledByInstall
<1>3. /\ new.channel = [d.channel EXCEPT ![s] = IF r = Stable THEN v ELSE @]
      /\ new.selected = d.selected /\ new.active = d.active
      /\ added.channel = new.channel /\ added.selected = d.selected
      /\ Named(added) = Named(d)
  BY DEF Recorded, Added, Documents, Named
<1>4. ASSUME old \in Versions
      PROVE  old # v /\ r = Stable /\ ~Referenced(added, s, old)
  BY <1>4, CoresAssumption DEF Superseded, Collectable
<1>5. old \in Versions \cup {None}
  BY <1>1, InstallTypes
<1> HIDE DEF old, new, added
<1>6. ASSUME NEW x \in Sources PROVE new.channel[x] \in new.installed[x] \cup {None}
  <2>1. d.channel[x] \in d.installed[x] \cup {None}
    BY DEF Valid
  <2> QED BY <1>2, <1>3, <1>4, <1>5, <2>1, CoresAssumption DEF Documents
<1>7. ASSUME new.selected # None
      PROVE  IF new.selected.reference = Stable THEN new.channel[new.selected.source] # None
             ELSE new.selected.reference \in new.installed[new.selected.source]
  <2>1. /\ d.selected \in Selections /\ d.selected # None
        /\ IF d.selected.reference = Stable THEN d.channel[d.selected.source] # None
           ELSE d.selected.reference \in d.installed[d.selected.source]
    BY <1>3, <1>7 DEF Valid, Documents
  <2>2. CASE d.selected.reference = Stable
    BY <1>3, <2>1, <2>2, CoresAssumption DEF Documents, Selections
  <2>3. CASE d.selected.reference # Stable
    <3>1. d.selected.source = s => d.selected.reference # old
      BY <1>3, <1>4, <1>5, <2>1, <2>3, CoresAssumption
      DEF Referenced, Target, Selections, References
    <3> QED BY <1>2, <1>3, <2>1, <2>3, <3>1 DEF Documents, Selections
  <2> QED BY <2>2, <2>3
<1>8. ASSUME new.active # None
      PROVE  new.active.version \in new.installed[new.active.source]
  <2>1. /\ d.active \in Deployments /\ d.active \in Named(d)
        /\ d.active.version \in d.installed[d.active.source]
    BY <1>3, <1>8 DEF Valid, Documents, Named
  <2>2. d.active.source = s => d.active.version # old
    BY <1>3, <1>4, <2>1 DEF Referenced, Deployments
  <2> QED BY <1>2, <1>3, <2>1, <2>2 DEF Documents, Deployments
<1>9. Valid(new)
  BY <1>6, <1>7, <1>8 DEF Valid
<1> QED BY <1>9 DEF new

LEMMA RemovedValid ==
    ASSUME NEW d \in Documents, Valid(d), NEW s \in Sources, NEW v \in Versions,
           v \in d.installed[s], ~InUse(d, s, v)
    PROVE  Valid(Removed(d, s, v))
<1> DEFINE new == Removed(d, s, v)
<1>1. /\ new.installed = [d.installed EXCEPT ![s] = @ \ {v}]
      /\ new.channel = [d.channel EXCEPT ![s] = IF @ = v THEN None ELSE @]
      /\ new.selected = d.selected /\ new.active = d.active
  BY DEF Removed, Documents
<1> HIDE DEF new
<1>2. ASSUME NEW x \in Sources PROVE new.channel[x] \in new.installed[x] \cup {None}
  <2>1. d.channel[x] \in d.installed[x] \cup {None}
    BY DEF Valid
  <2> QED BY <1>1, <2>1 DEF Documents
<1>3. ASSUME new.selected # None
      PROVE  IF new.selected.reference = Stable THEN new.channel[new.selected.source] # None
             ELSE new.selected.reference \in new.installed[new.selected.source]
  <2>1. /\ d.selected \in Selections /\ d.selected # None
        /\ IF d.selected.reference = Stable THEN d.channel[d.selected.source] # None
           ELSE d.selected.reference \in d.installed[d.selected.source]
    BY <1>1, <1>3 DEF Valid, Documents
  <2>2. d.selected.source = s => Target(d, s, d.selected.reference) # v
    BY <2>1 DEF InUse, Resolve
  <2> QED BY <1>1, <2>1, <2>2 DEF Target, Documents, Selections
<1>4. ASSUME new.active # None
      PROVE  new.active.version \in new.installed[new.active.source]
  <2>1. /\ d.active \in Deployments /\ d.active # None
        /\ d.active.version \in d.installed[d.active.source]
    BY <1>1, <1>4 DEF Valid, Documents
  <2> QED BY <1>1, <2>1 DEF InUse, Documents, Deployments
<1>5. Valid(new)
  BY <1>2, <1>3, <1>4 DEF Valid
<1> QED BY <1>5 DEF new

LEMMA ConfiguredValid ==
    ASSUME NEW d \in Documents, Valid(d), op \in Operations, op.source \in Sources,
           op.reference \in References, op.version \in Versions,
           Resolve(d, op.source, op.reference) = op.version
    PROVE  /\ Valid(Selected(d))
           /\ op.hash # None => \A changed \in BOOLEAN : Valid(Activated(d, changed))
<1> DEFINE chosen == [d EXCEPT
                    !.selected = [source |-> op.source, reference |-> op.reference],
                    !.explicit[op.source] =
                        IF op.reference = Stable THEN @ ELSE @ \cup {op.version}]
<1>1. op.version \in d.installed[op.source] /\ Target(d, op.source, op.reference) = op.version
  BY CoresAssumption DEF Resolve
<1>2. ASSUME NEW x \in Documents, x.installed = d.installed, x.channel = d.channel,
             x.selected \in {d.selected, [source |-> op.source, reference |-> op.reference]},
             x.active \in {d.active, Candidate}
      PROVE  Valid(x)
  <2>1. \A s \in Sources : x.channel[s] \in x.installed[s] \cup {None}
    BY <1>2 DEF Valid
  <2>2. ASSUME x.selected # None
        PROVE  IF x.selected.reference = Stable THEN x.channel[x.selected.source] # None
               ELSE x.selected.reference \in x.installed[x.selected.source]
    <3>1. CASE x.selected = d.selected
      BY <1>2, <2>2, <3>1 DEF Valid
    <3>2. CASE x.selected = [source |-> op.source, reference |-> op.reference]
      BY <1>1, <1>2, <3>2, CoresAssumption DEF Target
    <3> QED BY <1>2, <3>1, <3>2
  <2>3. x.active # None => x.active.version \in x.installed[x.active.source]
    BY <1>1, <1>2 DEF Valid, Candidate
  <2> QED BY <2>1, <2>2, <2>3 DEF Valid
<1>3. ASSUME NEW x \in Documents
      PROVE  LET y == Configured(x) IN
             /\ y \in Documents
             /\ y.installed = x.installed /\ y.channel = x.channel
             /\ y.selected = x.selected /\ y.active = x.active
  BY CoresAssumption DEF Configured, Documents, Operations
<1>4. op.hash # None => Candidate \in Deployments
  BY DEF Candidate, Deployments, Operations
<1>5. ASSUME op.hash # None, NEW x \in Documents
      PROVE  /\ Stage(x, Candidate) \in Documents
             /\ Stage(x, Candidate).installed = x.installed
             /\ Stage(x, Candidate).channel = x.channel
             /\ Stage(x, Candidate).selected = x.selected
             /\ Stage(x, Candidate).active = Candidate
  BY <1>4, <1>5 DEF Stage, Documents
<1>6. /\ chosen \in Documents
      /\ chosen.installed = d.installed /\ chosen.channel = d.channel
      /\ chosen.selected = [source |-> op.source, reference |-> op.reference]
      /\ chosen.active = d.active
  BY DEF Documents, Selections
<1> HIDE DEF chosen
<1>7. Valid(Selected(d))
  <2> DEFINE x == IF op.hash = None \/ d.active = Candidate THEN chosen
                  ELSE Stage(chosen, Candidate)
  <2>1. /\ x \in Documents /\ x.installed = d.installed /\ x.channel = d.channel
        /\ x.selected = [source |-> op.source, reference |-> op.reference]
        /\ x.active \in {d.active, Candidate}
    BY <1>5, <1>6
  <2>2. Selected(d) = Configured(x)
    BY DEF Selected, chosen
  <2> HIDE DEF x
  <2> QED BY <1>2, <1>3, <2>1, <2>2
<1>8. ASSUME op.hash # None, NEW changed \in BOOLEAN
      PROVE  Valid(Activated(d, changed))
  <2> DEFINE x == IF (d.active # Candidate \/ changed) /\ d.rejected # Candidate
                  THEN Stage(d, Candidate) ELSE d
  <2>1. /\ x \in Documents /\ x.installed = d.installed /\ x.channel = d.channel
        /\ x.selected = d.selected /\ x.active \in {d.active, Candidate}
    BY <1>5, <1>8
  <2>2. Activated(d, changed) = Configured(x)
    BY DEF Activated
  <2> HIDE DEF x
  <2> QED BY <1>2, <1>3, <2>1, <2>2
<1> QED BY <1>7, <1>8

(* The validation of the document never stops an install, a removal, a      *)
(* selection or an activation half-way.                                     *)
THEOREM OperationsAlwaysValid == Spec => []OperationsValid
<1>1. FilesInv => OperationsValid
  <2> SUFFICES ASSUME TypeInv, Valid(doc) PROVE OperationsValid
    BY DEF FilesInv
  <2>0. /\ doc \in Documents /\ op \in Operations
        /\ op.kind \notin {"none", "prune"} =>
            op.source \in Sources /\ op.reference \in References /\ op.version \in Versions
        /\ At("activate", "record") => op.hash \in Hashes
    BY DEF TypeInv, TypeOK, OperationInv, At
  <2>1. ASSUME At("install", "record")
        PROVE  Valid(Recorded(doc, op.source, op.reference, op.version))
    BY <2>0, <2>1, RecordedValid DEF At, References
  <2>2. ASSUME At("remove", "record"), ~RemovalRefused
        PROVE  Valid(Removed(doc, op.source, op.version))
    <3>1. op.version \in doc.installed[op.source] /\ ~InUse(doc, op.source, op.version)
      BY <2>0, <2>2, CoresAssumption DEF RemovalRefused, Resolve, At
    <3> QED BY <2>0, <2>2, <3>1, RemovedValid DEF At
  <2>3. ASSUME At("select", "record"), ~SelectionChanged PROVE Valid(Selected(doc))
    BY <2>0, <2>3, ConfiguredValid DEF At, SelectionChanged
  <2>4. ASSUME At("activate", "record"), ~ActivationChanged PROVE Valid(Activated(doc, TRUE))
    BY <2>0, <2>4, ConfiguredValid, CoresAssumption DEF At, ActivationChanged
  <2> QED BY <2>1, <2>2, <2>3, <2>4 DEF OperationsValid
<1> QED BY <1>1, FilesInvariant, PTL

(* Unless an operation was killed, the directories are those of the         *)
(* installed versions, but for the version that an install or a removal in  *)
(* progress is about.                                                       *)
Plain(s) == dirs[s] = doc.installed[s] /\ moved[s] = {}
Placing == op.kind = "install" /\ op.step \in {"record", "undo"}
Removing == op.kind = "remove" /\ op.step \in {"record", "undo"}
DirectoriesExact ==
    /\ \A s \in Sources :
        Plain(s) \/ (s = op.source /\ op.kind \in {"install", "remove"})
    /\ op.kind \in {"install", "remove"} /\ op.step \in {"idle", "prepare"} => Plain(op.source)
    /\ Placing =>
        /\ dirs[op.source] = doc.installed[op.source] \cup {op.version}
        /\ op.fresh = (op.version \notin doc.installed[op.source])
        /\ moved[op.source] = {}
    /\ At("install", "clean") =>
        /\ dirs[op.source] = doc.installed[op.source] \cup {op.version}
        /\ op.version \notin doc.installed[op.source]
        /\ moved[op.source] = {}
    /\ At("remove", "prepare") => op.version \in doc.installed[op.source]
    /\ Removing =>
        /\ op.version \in doc.installed[op.source] /\ op.fresh
        /\ dirs[op.source] = doc.installed[op.source] \ {op.version}
        /\ moved[op.source] = {op.version}
    /\ At("remove", "clean") =>
        /\ op.fresh
        /\ dirs[op.source] = doc.installed[op.source]
        /\ moved[op.source] = {op.version}

LEMMA AddAndTake ==
    ASSUME NEW set, NEW v
    PROVE  /\ v \in set => set \cup {v} = set
           /\ v \notin set => (set \cup {v}) \ {v} = set
           /\ v \in set => (set \ {v}) \cup {v} = set
OBVIOUS

LEMMA ExactByInstall ==
    ASSUME TypeInv, DirectoriesExact, Install
    PROVE  DirectoriesExact'
<1> USE CoresAssumption DEF TypeInv, TypeOK, OperationInv, DirectoriesExact, Plain, Placing,
        Removing, At, Finish, Advance
<1>0. /\ doc.installed \in [Sources -> SUBSET Versions]
      /\ NoOp.kind = "none"
  BY DEF Documents, NoOp
<1>1. ASSUME NEW s \in Sources, NEW r \in References, NEW v \in Versions, InstallBegin(s, r, v)
      PROVE  DirectoriesExact'
  BY <1>1 DEF InstallBegin, Begin, LockFree
<1>2. CASE InstallRejected
  BY <1>0, <1>2 DEF InstallRejected
<1>3. CASE InstallActivate
  BY <1>0, <1>3 DEF InstallActivate, Placed, Operations
<1>4. CASE InstallRecord
  <2> DEFINE old == Superseded(doc, op.source, op.reference, op.version)
             new == Added(doc, op.source, op.reference, op.version)
  <2>1. op.source \in Sources /\ op.reference \in References /\ op.version \in Versions
    BY <1>4 DEF InstallRecord
  <2>2. CASE doc' = doc /\ op' = [op EXCEPT !.step = "undo"]
    <3>1. /\ op'.kind = "install" /\ op'.step = "undo" /\ op'.source = op.source
          /\ op'.version = op.version /\ op'.fresh = op.fresh
      BY <1>4, <2>2 DEF InstallRecord, Operations
    <3> QED BY <1>4, <2>2, <3>1 DEF InstallRecord
  <2>3. CASE /\ doc' = Recorded(doc, op.source, op.reference, op.version)
             /\ IF old = None THEN op' = NoOp
                ELSE op' = [op EXCEPT !.step = "clean", !.version = old]
    <3>1. doc'.installed = [doc.installed EXCEPT ![op.source] = (@ \cup {op.version}) \ {old}]
      BY <2>1, <2>3, InstalledByInstall
    <3>2. /\ dirs' = dirs /\ moved' = moved /\ moved[op.source] = {}
          /\ dirs[op.source] = doc.installed[op.source] \cup {op.version}
      BY <1>4 DEF InstallRecord
    <3>3. old \in Versions \cup {None}
      BY <2>1, InstallTypes
    <3>4. old # None => old \in doc.installed[op.source] \cup {op.version}
      <4>1. new.installed[op.source] = doc.installed[op.source] \cup {op.version}
        BY <2>1 DEF Added, Documents
      <4>2. old # None => old \in new.installed[op.source]
        BY <2>1, CoresAssumption DEF Superseded, Collectable
      <4> QED BY <4>1, <4>2
    <3> HIDE DEF old, new
    <3>5. \A s \in Sources : s # op.source => Plain(s)'
      BY <1>0, <1>4, <2>1, <3>1, <3>2
    <3>6. CASE old = None /\ op' = NoOp
      BY <1>0, <2>1, <3>1, <3>2, <3>5, <3>6
    <3>7. CASE old # None /\ op' = [op EXCEPT !.step = "clean", !.version = old]
      <4>1. /\ op'.kind = "install" /\ op'.step = "clean"
            /\ op'.source = op.source /\ op'.version = old
        BY <1>4, <3>7 DEF Operations, InstallRecord
      <4>2. /\ old \notin doc'.installed[op.source]
            /\ dirs'[op.source] = doc'.installed[op.source] \cup {old}
        BY <1>0, <2>1, <3>1, <3>2, <3>3, <3>4, <3>7
      <4> QED BY <3>2, <3>5, <4>1, <4>2
    <3> QED BY <2>3, <3>6, <3>7
  <2> QED BY <1>4, <2>2, <2>3 DEF InstallRecord
<1>5. CASE InstallUndo \/ InstallClean
  <2>1. op.source \in Sources /\ op.version \in Versions /\ op' = NoOp
    BY <1>5 DEF InstallUndo, InstallClean
  <2>2. /\ doc' = doc /\ moved' = moved /\ moved[op.source] = {}
        /\ dirs' = dirs \/ dirs' = [dirs EXCEPT ![op.source] = @ \ {op.version}]
    BY <1>5 DEF InstallUndo, InstallClean
  <2>3. dirs'[op.source] = doc.installed[op.source]
    <3>1. CASE op.version \in doc.installed[op.source]
      <4>1. dirs' = dirs
        BY <1>5, <3>1 DEF InstallUndo, InstallClean
      <4>2. dirs[op.source] = doc.installed[op.source]
        <5>1. dirs[op.source] = doc.installed[op.source] \cup {op.version}
          BY <1>5 DEF InstallUndo, InstallClean
        <5> QED BY <3>1, <5>1, AddAndTake
      <4> QED BY <4>1, <4>2
    <3>2. CASE op.version \notin doc.installed[op.source]
      <4>1. dirs' = [dirs EXCEPT ![op.source] = @ \ {op.version}]
        BY <1>5, <3>2 DEF InstallUndo, InstallClean
      <4>2. dirs[op.source] = doc.installed[op.source] \cup {op.version}
        BY <1>5 DEF InstallUndo, InstallClean
      <4>3. dirs'[op.source] = dirs[op.source] \ {op.version}
        BY <2>1, <4>1
      <4> QED BY <3>2, <4>2, <4>3, AddAndTake
    <3> QED BY <3>1, <3>2
  <2>4. \A s \in Sources : Plain(s)'
    BY <2>1, <2>2, <2>3
  <2> QED BY <1>0, <2>1, <2>4
<1> QED BY <1>1, <1>2, <1>3, <1>4, <1>5 DEF Install

LEMMA ExactByRemove ==
    ASSUME TypeInv, DirectoriesExact, Remove
    PROVE  DirectoriesExact'
<1> USE CoresAssumption DEF TypeInv, TypeOK, OperationInv, DirectoriesExact, Plain, Placing,
        Removing, At, Finish, Advance
<1>0. /\ doc.installed \in [Sources -> SUBSET Versions]
      /\ NoOp.kind = "none"
  BY DEF Documents, NoOp
<1>1. ASSUME NEW s \in Sources, NEW r \in References, RemoveBegin(s, r)
      PROVE  DirectoriesExact'
  <2>1. Resolve(doc, s, r) \in doc.installed[s]
    BY <1>1 DEF RemoveBegin, Resolve
  <2> QED BY <1>1, <2>1 DEF RemoveBegin, Begin, LockFree
<1>2. CASE RemoveStage
  <2>1. /\ op'.kind = "remove" /\ op'.step = "record" /\ op'.source = op.source
        /\ op'.version = op.version /\ op'.fresh = (op.version \in dirs[op.source])
    BY <1>2 DEF RemoveStage, Operations
  <2> QED BY <1>0, <1>2, <2>1 DEF RemoveStage
<1>3. CASE RemoveRecord
  <2>1. op.source \in Sources /\ op.version \in Versions
    BY <1>3 DEF RemoveRecord
  <2>2. ASSUME NEW step \in {"undo", "clean"}, op' = [op EXCEPT !.step = step]
        PROVE  /\ op'.kind = "remove" /\ op'.step = step /\ op'.source = op.source
               /\ op'.version = op.version /\ op'.fresh = op.fresh
    BY <1>3, <2>2 DEF RemoveRecord, Operations
  <2>3. CASE doc' = doc /\ op' = [op EXCEPT !.step = "undo"]
    BY <1>3, <2>2, <2>3 DEF RemoveRecord
  <2>4. CASE /\ doc' = Removed(doc, op.source, op.version)
             /\ op' = [op EXCEPT !.step = "clean"]
    <3>1. doc'.installed = [doc.installed EXCEPT ![op.source] = @ \ {op.version}]
      BY <2>1, <2>4 DEF Removed, Documents
    <3>2. /\ op'.kind = "remove" /\ op'.step = "clean" /\ op'.source = op.source
          /\ op'.version = op.version /\ op'.fresh = op.fresh
      BY <2>2, <2>4
    <3>3. /\ dirs' = dirs /\ moved' = moved /\ op.fresh
          /\ dirs[op.source] = doc.installed[op.source] \ {op.version}
          /\ moved[op.source] = {op.version}
      BY <1>3 DEF RemoveRecord
    <3>4. \A s \in Sources : s # op.source => Plain(s)'
      BY <1>0, <2>1, <3>1, <3>3
    <3>5. dirs'[op.source] = doc'.installed[op.source]
      BY <1>0, <2>1, <3>1, <3>3
    <3> QED BY <3>2, <3>3, <3>4, <3>5
  <2> QED BY <1>3, <2>3, <2>4 DEF RemoveRecord
<1>4. CASE RemoveUndo
  <2>1. op.source \in Sources /\ op.version \in doc.installed[op.source] /\ op' = NoOp
    BY <1>4 DEF RemoveUndo
  <2>2. /\ doc' = doc
        /\ dirs' = [dirs EXCEPT ![op.source] = @ \cup {op.version}]
        /\ moved' = [moved EXCEPT ![op.source] = @ \ {op.version}]
        /\ dirs[op.source] = doc.installed[op.source] \ {op.version}
        /\ moved[op.source] = {op.version}
    BY <1>4 DEF RemoveUndo
  <2>3. dirs'[op.source] = doc.installed[op.source]
    <3>1. dirs'[op.source] = dirs[op.source] \cup {op.version}
      BY <2>1, <2>2
    <3>2. dirs[op.source] = doc.installed[op.source] \ {op.version}
      BY <2>2
    <3>3. op.version \in doc.installed[op.source]
      BY <2>1
    <3> DEFINE installed == doc.installed[op.source]
    <3>4. (installed \ {op.version}) \cup {op.version} = installed
      <4> HIDE DEF installed
      <4> QED BY <3>3, AddAndTake DEF installed
    <3> QED BY <3>1, <3>2, <3>4
  <2>4. \A s \in Sources : Plain(s)'
    BY <2>1, <2>2, <2>3
  <2> QED BY <1>0, <2>1, <2>4
<1>5. CASE RemoveClean
  BY <1>0, <1>5 DEF RemoveClean
<1> QED BY <1>1, <1>2, <1>3, <1>4, <1>5 DEF Remove

(* However an operation failed, no version is left without its directory    *)
(* and no directory without its version.                                    *)
THEOREM DirectoriesAlwaysMatch == Spec => []DirectoriesMatch
<1> DEFINE Inv == FilesInv /\ (~killed => DirectoriesExact)
<1>1. Init => Inv
  <2> SUFFICES ASSUME Init, FilesInv PROVE DirectoriesExact
    BY InitialFiles
  <2> QED BY DEF Init, DirectoriesExact, Plain, Placing, Removing, At, NoOp
<1>2. Inv /\ [Next]_vars => Inv'
  <2> SUFFICES ASSUME FilesInv, ~killed => DirectoriesExact, [Next]_vars, ~killed'
               PROVE  DirectoriesExact'
    BY FilesInvKept
  <2>1. ~killed /\ ~OperationKilled
    BY DEF Next, vars, Install, InstallBegin, InstallRejected, InstallActivate, InstallRecord,
       InstallUndo, InstallClean, Remove, RemoveBegin, RemoveStage, RemoveRecord, RemoveUndo,
       RemoveClean, Configure, SelectBegin, SelectPrepare, SelectRejected, SelectRecord,
       ActivateBegin, ActivatePrepare, ActivateRecord, Record, Discard, Supervise, Launch,
       DeploymentFails, Reload, MarkStable, PruneSkip, PruneBegin, PruneDelete, RollBackCheck,
       RollBackWrite, Retry, OperationKilled, DaemonRestarted
  <2>2. CASE Configure \/ Supervise \/ DaemonRestarted \/ UNCHANGED vars
    <3>1. doc'.installed = doc.installed /\ dirs' = dirs /\ moved' = moved
      BY <2>2, InstalledSame, DirectoriesSame DEF FilesInv
    <3>2. op' = op \/ (/\ op.kind \notin {"install", "remove"}
                         /\ op'.kind \notin {"install", "remove"})
      BY <2>2, OperationSame DEF FilesInv
    <3> QED BY <2>1, <3>1, <3>2 DEF DirectoriesExact, Plain, Placing, Removing, At
  <2> QED BY <2>1, <2>2, ExactByInstall, ExactByRemove DEF FilesInv, Next
<1>3. Inv => DirectoriesMatch
  BY DEF FilesInv, DirectoriesKept, DirectoriesExact, Plain, LockFree, DirectoriesMatch
<1> QED BY <1>1, <1>2, <1>3, PTL DEF Spec

(* Through every operation, the configurations that the document names are *)
(* stored, the active deployment's core is there, and the directories are  *)
(* those of the versions installed.  Nothing is said of the core of any    *)
(* other deployment, the target of a rollback or of a retry among them.    *)
THEOREM FilesAlwaysMatch == Spec => []FilesMatch
BY ActiveDeploymentKept, ConfigurationsKept, DirectoriesAlwaysMatch, PTL DEF FilesMatch

(***************************************************************************)
(* Pruning.  There are finitely many stored configurations, and all that a *)
(* prune read from the document are stored when it deletes the others.     *)
(***************************************************************************)
PruneInv == IsFiniteSet(files) /\ (op.kind = "prune" => kept \subseteq files)

LEMMA PruneInvKept == FilesInv /\ PruneInv /\ [Next]_vars => PruneInv'
<1> SUFFICES ASSUME FilesInv, PruneInv, [Next]_vars PROVE PruneInv'
  OBVIOUS
<1> USE DEF FilesInv, TypeInv, TypeOK, PruneInv, At, NoOp, Finish, Advance, Begin, LockFree
<1>1. ASSUME UNCHANGED files, UNCHANGED kept, op'.kind = "prune" => op.kind = "prune"
      PROVE  PruneInv'
  BY <1>1
<1>2. ASSUME IsFiniteSet(files'), op'.kind # "prune" PROVE PruneInv'
  BY <1>2
<1>3. ASSUME NEW h \in Hashes, Store(h) PROVE IsFiniteSet(files') /\ op'.kind = op.kind
  BY <1>3, FS_AddElement DEF Store, Operations
<1>4. ASSUME files' \subseteq files PROVE IsFiniteSet(files')
  BY <1>4, FS_Subset
<1>5. CASE Install \/ Remove
  <2>1. UNCHANGED files /\ UNCHANGED kept
    BY <1>5 DEF Install, InstallBegin, InstallRejected, InstallActivate, InstallRecord,
       InstallUndo, InstallClean, Remove, RemoveBegin, RemoveStage, RemoveRecord, RemoveUndo,
       RemoveClean
  <2>2. op \in Operations
    OBVIOUS
  <2> HIDE DEF FilesInv, TypeInv, TypeOK, PruneInv
  <2>3. op'.kind # "prune"
    <3>1. ASSUME NEW s \in Sources, NEW r \in References, NEW v \in Versions,
                 InstallBegin(s, r, v) \/ RemoveBegin(s, r)
          PROVE  op'.kind # "prune"
      BY <3>1 DEF InstallBegin, RemoveBegin
    <3>2. CASE InstallRejected \/ InstallUndo \/ InstallClean \/ RemoveUndo \/ RemoveClean
      BY <3>2 DEF InstallRejected, InstallUndo, InstallClean, RemoveUndo, RemoveClean
    <3>3. CASE InstallRecord \/ RemoveRecord
      <4>1. /\ op.kind \in {"install", "remove"}
            /\ \/ Finish
               \/ \E step : Advance(step)
               \/ \E v : op' = [op EXCEPT !.step = "clean", !.version = v]
        <5>1. CASE InstallRecord
          BY <5>1, Zenon DEF InstallRecord
        <5>2. CASE RemoveRecord
          BY <5>2, Zenon DEF RemoveRecord
        <5> QED BY <3>3, <5>1, <5>2
      <4>2. CASE Finish
        BY <4>2
      <4>3. ASSUME NEW step, Advance(step) PROVE op'.kind = op.kind
        BY <2>2, <4>3 DEF Operations
      <4>4. ASSUME NEW v, op' = [op EXCEPT !.step = "clean", !.version = v]
            PROVE  op'.kind = op.kind
        BY <2>2, <4>4 DEF Operations
      <4> QED BY <4>1, <4>2, <4>3, <4>4
    <3>4. ASSUME op.kind # "prune",
                 \E fresh : op' = [op EXCEPT !.step = "record", !.fresh = fresh]
          PROVE  op'.kind # "prune"
      BY <2>2, <3>4 DEF Operations
    <3>5. CASE InstallActivate \/ RemoveStage
      BY <3>4, <3>5 DEF InstallActivate, RemoveStage
    <3> QED BY <1>5, <3>1, <3>2, <3>3, <3>5 DEF Install, Remove, RemoveBegin
  <2> QED BY <1>1, <2>1, <2>3
<1>7. CASE Configure
  <2>1. CASE \/ SelectRejected \/ SelectRecord \/ ActivateBegin \/ ActivateRecord
             \/ \E s \in Sources, r \in References : SelectBegin(s, r)
    BY <1>1, <2>1 DEF SelectBegin, SelectRejected, SelectRecord, ActivateBegin, ActivateRecord,
       Record, Operations
  <2>2. CASE SelectPrepare
    <3>1. CASE UNCHANGED files
      BY <1>1, <2>2, <3>1 DEF SelectPrepare, Store, Operations
    <3>2. CASE \E h \in Hashes : Store(h)
      BY <1>2, <1>3, <2>2, <3>2 DEF SelectPrepare
    <3> QED BY <2>2, <3>1, <3>2 DEF SelectPrepare
  <2>3. CASE \E h \in Hashes : ActivatePrepare(h)
    BY <1>2, <1>3, <2>3 DEF ActivatePrepare
  <2>4. CASE Discard
    BY <1>2, <1>4, <2>4 DEF Discard
  <2> QED BY <1>7, <2>1, <2>2, <2>3, <2>4 DEF Configure
<1>8. CASE Supervise
  <2>1. CASE PruneBegin
    BY <2>1 DEF PruneBegin, FilesKept
  <2>2. CASE PruneDelete
    BY <1>2, <1>4, <2>2 DEF PruneDelete
  <2>3. CASE \/ Launch \/ DeploymentFails \/ Reload \/ MarkStable \/ RollBackCheck
             \/ RollBackWrite \/ PruneSkip \/ Retry
    BY <1>1, <2>3 DEF Launch, DeploymentFails, Reload, MarkStable, RollBackCheck,
       RollBackWrite, PruneSkip, Retry
  <2> QED BY <1>8, <2>1, <2>2, <2>3 DEF Supervise
<1>9. CASE OperationKilled \/ DaemonRestarted
  BY <1>2, <1>9 DEF OperationKilled, DaemonRestarted
<1>10. CASE UNCHANGED vars
  BY <1>1, <1>10 DEF vars
<1> QED BY <1>5, <1>7, <1>8, <1>9, <1>10 DEF Next

(* What Prunable leaves of a core of which something is kept.               *)
LEMMA PrunedKeepsTwo ==
    ASSUME IsFiniteSet(files), kept \subseteq files, NEW c \in Cores, NEW gone \in SUBSET files,
           Prunable(c, OfCore(c, gone)), OfCore(c, kept) # {},
           Cardinality(OfCore(c, files)) >= 2
    PROVE  Cardinality(OfCore(c, files \ gone)) >= 2
<1> DEFINE K == OfCore(c, kept)
           F == OfCore(c, files)
           G == OfCore(c, gone)
           stale == OfCore(c, files \ kept)
<1>1. /\ IsFiniteSet(F) /\ IsFiniteSet(K) /\ K \subseteq F
      /\ stale = F \ K /\ OfCore(c, files \ gone) = F \ G
  <2>1. F \subseteq files /\ K \subseteq files
    BY DEF OfCore
  <2> QED BY <2>1, FS_Subset DEF OfCore
<1>2. IF Cardinality(K) < 2 /\ stale # {} THEN \E previous \in stale : G = stale \ {previous}
      ELSE G = stale
  BY DEF Prunable
<1>3. Cardinality(K) \in Nat /\ Cardinality(K) # 0
  BY <1>1, FS_CardinalityType, FS_EmptySet
<1> HIDE DEF K, F, G, stale
<1>4. CASE stale = {}
  BY <1>1, <1>2, <1>4 DEF F
<1>5. CASE stale # {} /\ ~(Cardinality(K) < 2)
  <2>1. F \ G = K
    BY <1>1, <1>2, <1>5
  <2> QED BY <1>1, <1>3, <1>5, <2>1
<1>6. CASE stale # {} /\ Cardinality(K) < 2
  <2>1. PICK previous \in stale : G = stale \ {previous}
    BY <1>2, <1>6
  <2>2. F \ G = K \cup {previous} /\ previous \notin K
    BY <1>1, <2>1
  <2>3. Cardinality(K \cup {previous}) = Cardinality(K) + 1
    BY <1>1, <2>2, FS_AddElement
  <2> QED BY <1>1, <1>3, <2>2, <2>3
<1> QED BY <1>4, <1>5, <1>6

(* A prune after a stable run leaves two configurations of a core in use if *)
(* there were two: the one that runs and the one it replaced.               *)
THEOREM PreviousAlwaysKept == Spec => PreviousKept
<1> DEFINE Two ==
      op.kind = "prune" =>
        \A c \in Cores :
            OfCore(c, Retained(doc)) # {} /\ Cardinality(OfCore(c, files)) >= 2
                => Cardinality(OfCore(c, files')) >= 2
<1>1. Init => PruneInv
  BY FS_EmptySet DEF Init, PruneInv, NoOp
<1>2. FilesInv /\ PruneInv /\ [Next]_vars => Two
  <2> SUFFICES ASSUME FilesInv, PruneInv, [Next]_vars, op.kind = "prune", NEW c \in Cores,
                      OfCore(c, Retained(doc)) # {}, Cardinality(OfCore(c, files)) >= 2
               PROVE  Cardinality(OfCore(c, files')) >= 2
    OBVIOUS
  <2>1. CASE PruneDelete
    <3>1. PICK gone \in SUBSET files : /\ \A d \in Cores : Prunable(d, OfCore(d, gone))
                                       /\ files' = files \ gone
      BY <2>1 DEF PruneDelete
    <3>2. OfCore(c, kept) # {}
      BY DEF FilesInv, FilesKept, OfCore
    <3> QED BY <3>1, <3>2, PrunedKeepsTwo DEF PruneInv
  <2>2. CASE files' = files
    BY <2>2
  <2>3. PruneDelete \/ files' = files
    <3> USE DEF At
    <3>1. CASE Install \/ Remove
      BY <3>1 DEF Install, InstallBegin, InstallRejected, InstallActivate, InstallRecord,
         InstallUndo, InstallClean, Remove, RemoveBegin, RemoveStage, RemoveRecord, RemoveUndo,
         RemoveClean
    <3>2. CASE Configure
      BY <3>2 DEF Configure, SelectBegin, SelectPrepare, SelectRejected, SelectRecord,
         ActivateBegin, ActivatePrepare, ActivateRecord, Record, Discard
    <3>3. CASE Supervise
      BY <3>3 DEF Supervise, Launch, DeploymentFails, Reload, MarkStable, RollBackCheck,
         RollBackWrite, PruneSkip, PruneBegin, Retry
    <3>4. CASE OperationKilled \/ DaemonRestarted \/ UNCHANGED vars
      BY <3>4 DEF OperationKilled, DaemonRestarted, vars
    <3> QED BY <3>1, <3>2, <3>3, <3>4 DEF Next
  <2> QED BY <2>1, <2>2, <2>3
<1> QED BY <1>1, <1>2, FilesInvariant, PruneInvKept, PTL DEF Spec, PreviousKept
=============================================================================
