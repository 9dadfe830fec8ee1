-------------------------------- MODULE Proxies --------------------------------
(***************************************************************************)
(* Subscription proxies: rows in the server's database that say what is    *)
(* wanted (subscription_proxies.rs, nodes_api.rs, proxy_node_binding.rs,   *)
(* relay_egress.rs, admin_api.rs), instances in a separate runtime process *)
(* (sempre-proxy), and the reconciliation that drives the second towards   *)
(* the first over HTTP (proxy_runtime.rs).                                 *)
(*                                                                         *)
(* A transaction that only reads and writes under locks it keeps to its    *)
(* end is one step; the ones that wait for HTTP, or that hold a shared     *)
(* lock on what they have read, are several.                               *)
(***************************************************************************)
EXTENDS Integers, FiniteSets

CONSTANTS
    Proxy, Owner,
    OwnerOf,           \* the account that creates each proxy
    Admin,             \* the accounts that are administrators at first
    Content,           \* configurations
    Rejected,          \* those an engine refuses
    LastRevision,      \* bound on the edits of each proxy
    MaxInstances,      \* the limit of the runtime (64)
    MaxDraining,       \* permits of the draining semaphore (16)
    MaxProxyFaults     \* bound on failures, restarts and administration

ASSUME ProxyAssumption ==
    /\ OwnerOf \in [Proxy -> Owner]
    /\ Rejected \subseteq Content
    /\ LastRevision \in [Proxy -> Nat \ {0}]
    /\ {MaxInstances, MaxDraining} \subseteq Nat \ {0}
    /\ MaxProxyFaults \in Nat

Revision == UNION {1..LastRevision[p] : p \in Proxy}
NoRow == [revision |-> 0]
Row ==
    [revision: Revision, content: Content, bound: BOOLEAN, enabled: BOOLEAN,
     active: Revision \cup {0}, activeContent: Content,
     status: {"starting", "running", "stopping", "stopped", "failed"}]
NoEdit == [doing |-> "none", bound |-> FALSE]
NoJob == [pc |-> "none", by |-> "none", reply |-> "none"]
NoCall == [revision |-> 0]
NoInstance == [revision |-> 0, alive |-> FALSE]

VARIABLES
    row,         \* subscription_proxies
    node,        \* the content of the custom node proxies may be bound to
    role,        \* of every account: "admin", "user" or "gone"
    references,  \* relay_egress_proxy_references
    used,        \* the proxies the sources of subscriptions name
    edit,        \* an update of a proxy that has read its content, or NoEdit
    chosen,       \* the references of a policy being saved; {} when none is
    job,         \* the transaction that holds the row for HTTP, or NoJob
    due,         \* scheduled reconciliations
    instance,    \* the runtime's instances
    call,        \* requests the runtime is handling
    updating,    \* the request that holds the runtime's update lock: a set
    retry,       \* the revision the runtime backs off from, or 0
    draining,    \* instances that serve their last requests
    accepted,    \* what the runtime has ever accepted
    proxyFaults

rowVars == <<row, node, role, references, used, edit, chosen>>
serverVars == <<job, due>>
runtimeVars == <<instance, call, updating, retry, draining, accepted>>
proxyVars == <<rowVars, serverVars, runtimeVars, proxyFaults>>

ProxyFault == proxyFaults < MaxProxyFaults /\ proxyFaults' = proxyFaults + 1

ProxiesInit ==
    /\ row = [p \in Proxy |-> NoRow]
    /\ node \in Content \ Rejected
    /\ role = [u \in Owner |-> IF u \in Admin THEN "admin" ELSE "user"]
    /\ references = {} /\ used = {} /\ edit = NoEdit /\ chosen = {}
    /\ job = [p \in Proxy |-> NoJob] /\ due = {}
    /\ instance = [p \in Proxy |-> NoInstance] /\ call = [p \in Proxy |-> NoCall]
    /\ updating = {} /\ retry = [p \in Proxy |-> 0] /\ draining = 0
    /\ accepted = {} /\ proxyFaults = 0

Exists(p) == row[p].revision > 0

(* FOR UPDATE on a row waits for a job and for the shared lock of a policy. *)
RowFree(p) == job[p] = NoJob /\ p \notin chosen
NodeFree == ~edit.bound
OwnerFree(u) == \A p \in chosen : OwnerOf[p] # u

-----------------------------------------------------------------------------
(* The editor. *)

CreateProxy ==
    /\ \E p \in Proxy, enabled \in BOOLEAN, bound \in BOOLEAN :
        /\ ~Exists(p) /\ RowFree(p) /\ role[OwnerOf[p]] # "gone"
        /\ instance[p] = NoInstance /\ call[p] = NoCall
        /\ \E content \in IF bound THEN {node} ELSE Content :
            row' = [row EXCEPT ![p] =
             [revision |-> 1, content |-> content, bound |-> bound, enabled |-> enabled,
              active |-> 0, activeContent |-> content,
              status |-> IF enabled THEN "starting" ELSE "stopped"]]
        /\ due' = due \cup {p}
    /\ UNCHANGED <<node, role, references, used, edit, chosen, job, runtimeVars, proxyFaults>>

(* An update that binds the node reads its content FOR SHARE. *)
ReadContent ==
    /\ edit = NoEdit
    /\ \E p \in Proxy, bound \in BOOLEAN, enabled \in BOOLEAN :
        /\ Exists(p) /\ row[p].revision < LastRevision[p]
        /\ \E content \in IF bound THEN {node} ELSE Content :
            edit' = [doing |-> "edit", proxy |-> p, bound |-> bound, enabled |-> enabled,
                     content |-> content]
    /\ UNCHANGED <<row, node, role, references, used, chosen, serverVars, runtimeVars, proxyFaults>>

UpdateProxy ==
    /\ edit # NoEdit /\ RowFree(edit.proxy)
    /\ IF Exists(edit.proxy)
       THEN /\ row' = [row EXCEPT ![edit.proxy] =
                  [@ EXCEPT !.revision = row[edit.proxy].revision + 1, !.content = edit.content,
                            !.bound = edit.bound, !.enabled = edit.enabled,
                            !.status = IF edit.enabled THEN "starting" ELSE "stopping"]]
            /\ due' = due \cup {edit.proxy}
       ELSE UNCHANGED <<row, due>>
    /\ edit' = NoEdit
    /\ UNCHANGED <<node, role, references, used, chosen, job, runtimeVars, proxyFaults>>

(* A patch without content switches the proxy on or off. *)
Switch ==
    /\ \E p \in Proxy :
        /\ Exists(p) /\ RowFree(p) /\ ProxyFault
        /\ row' = [row EXCEPT ![p].enabled = ~@,
                              ![p].status = IF row[p].enabled THEN "stopping" ELSE "starting"]
        /\ due' = due \cup {p}
    /\ UNCHANGED <<node, role, references, used, edit, chosen, job, runtimeVars>>

(* The custom node changes: every proxy bound to it changes with it. *)
UpdateNode ==
    /\ NodeFree
    /\ LET bound == {p \in Proxy : Exists(p) /\ row[p].bound}
       IN  /\ \A p \in bound : RowFree(p) /\ row[p].revision < LastRevision[p]
           /\ \E content \in Content \ {node} :
               /\ node' = content
               /\ row' = [p \in Proxy |->
                    IF p \in bound
                    THEN [row[p] EXCEPT !.revision = @ + 1, !.content = content,
                            !.status = IF row[p].enabled THEN "starting" ELSE "stopped"]
                    ELSE row[p]]
           /\ due' = due \cup bound
    /\ ProxyFault
    /\ UNCHANGED <<role, references, used, edit, chosen, job, runtimeVars>>

(* A subscription comes to name a proxy, or no longer does. *)
SaveSource ==
    /\ \E p \in Proxy :
        \/ Exists(p) /\ job[p] = NoJob /\ used' = used \cup {p}
        \/ used' = used \ {p}
    /\ used' # used /\ ProxyFault
    /\ UNCHANGED <<row, node, role, references, edit, chosen, serverVars, runtimeVars>>

(* save_policy locks the owners and the rows it is about to name. *)
CheckPolicy ==
    /\ chosen = {}
    /\ \E named \in (SUBSET Proxy) \ {{}} :
        /\ \A p \in named :
            Exists(p) /\ row[p].enabled /\ role[OwnerOf[p]] = "admin" /\ job[p] = NoJob
        /\ chosen' = named
    /\ UNCHANGED <<row, node, role, references, used, edit, serverVars, runtimeVars, proxyFaults>>

SavePolicy ==
    /\ chosen # {} /\ references' = chosen /\ chosen' = {}
    /\ UNCHANGED <<row, node, role, used, edit, serverVars, runtimeVars, proxyFaults>>

ClearPolicy ==
    /\ chosen = {} /\ references # {} /\ references' = {}
    /\ UNCHANGED <<row, node, role, used, edit, chosen, serverVars, runtimeVars, proxyFaults>>

(* change_role; the trigger protects the owner of a referenced proxy. *)
Owned(u) == {p \in Proxy : Exists(p) /\ OwnerOf[p] = u}
ChangeRole ==
    /\ \E u \in Owner :
        /\ role[u] # "gone" /\ OwnerFree(u)
        /\ role[u] = "admin" => Owned(u) \cap references = {}
        /\ role' = [role EXCEPT ![u] = IF @ = "admin" THEN "user" ELSE "admin"]
    /\ ProxyFault
    /\ UNCHANGED <<row, node, references, used, edit, chosen, serverVars, runtimeVars>>

(* delete_user: the rows go with the account, unless the policy names one. *)
DeleteOwner ==
    /\ \E u \in Owner :
        /\ role[u] # "gone" /\ OwnerFree(u)
        /\ Owned(u) \cap references = {} /\ \A p \in Owned(u) : RowFree(p)
        /\ role' = [role EXCEPT ![u] = "gone"]
        /\ row' = [p \in Proxy |-> IF p \in Owned(u) THEN NoRow ELSE row[p]]
    /\ ProxyFault
    /\ UNCHANGED <<node, references, used, edit, chosen, serverVars, runtimeVars>>

-----------------------------------------------------------------------------
(* remove and reconcile hold the row while they talk to the runtime. *)

RemoveProxy ==
    /\ \E p \in Proxy :
        /\ Exists(p) /\ RowFree(p) /\ p \notin references \cup used
        /\ job' = [job EXCEPT ![p] = [pc |-> "remove", by |-> "editor", reply |-> "none"]]
    /\ ProxyFault
    /\ UNCHANGED <<rowVars, due, runtimeVars>>

StopInstance(p) == instance' = [instance EXCEPT ![p] = NoInstance]

RemoveStops ==
    /\ \E p \in Proxy :
        /\ job[p].pc = "remove"
        /\ job' = [job EXCEPT ![p].pc = "delete"] /\ StopInstance(p)
    /\ UNCHANGED <<rowVars, due, call, updating, retry, draining, accepted, proxyFaults>>

DeleteRow ==
    /\ \E p \in Proxy :
        /\ job[p].pc = "delete"
        /\ row' = [row EXCEPT ![p] = NoRow] /\ job' = [job EXCEPT ![p] = NoJob]
    /\ UNCHANGED <<node, role, references, used, edit, chosen, due, runtimeVars, proxyFaults>>

(* FOR UPDATE SKIP LOCKED: a row in use is left to its user.  The periodic *)
(* loop takes one row at a time, a scheduled task takes its own.           *)
Take(p, by) ==
    /\ due' = due \ {p}
    /\ job' = IF ~Exists(p) \/ ~RowFree(p) THEN job
              ELSE [job EXCEPT ![p] =
                [pc |-> IF row[p].enabled THEN "status" ELSE "stop", by |-> by, reply |-> "none"]]
    /\ UNCHANGED <<rowVars, runtimeVars, proxyFaults>>

TakeScheduled == \E p \in due : Take(p, "task")

LoopIdle == \A p \in Proxy : job[p].by # "loop"
Visit(p) == LoopIdle /\ Exists(p) /\ RowFree(p) /\ Take(p, "loop")
TakeNext == \E p \in Proxy : Visit(p)

StopDisabled ==
    /\ \E p \in Proxy :
        /\ job[p].pc = "stop" /\ StopInstance(p)
        /\ row' = [row EXCEPT ![p].status = "stopped"] /\ job' = [job EXCEPT ![p] = NoJob]
    /\ UNCHANGED <<node, role, references, used, edit, chosen, due, call, updating, retry,
                   draining, accepted, proxyFaults>>

AskRuntime(p, pc, revision, content) ==
    /\ job' = [job EXCEPT ![p].pc = pc, ![p].reply = "none"]
    /\ call' = [call EXCEPT ![p] = [revision |-> revision, content |-> content]]

(* A fault: a pending edit is tried before the last working version.       *)
AskStatusEditFirst ==
    /\ \E p \in Proxy :
        /\ job[p].pc = "status" /\ call[p] = NoCall
        /\ AskRuntime(p, "apply", row[p].revision, row[p].content)
    /\ UNCHANGED <<rowVars, due, instance, updating, retry, draining, accepted, proxyFaults>>

(* The last working version is restored before a pending edit is tried.  A *)
(* lost answer, for whatever reason, is taken for a dead instance.        *)
AskStatus ==
    /\ \E p \in Proxy, lost \in BOOLEAN :
        /\ job[p].pc = "status" /\ call[p] = NoCall
        /\ IF lost THEN ProxyFault ELSE UNCHANGED proxyFaults
        /\ IF (lost \/ ~instance[p].alive) /\ row[p].active \notin {0, row[p].revision}
           THEN AskRuntime(p, "restore", row[p].active, row[p].activeContent)
           ELSE AskRuntime(p, "apply", row[p].revision, row[p].content)
    /\ UNCHANGED <<rowVars, due, instance, updating, retry, draining, accepted>>

(* A fault: the answer to the restoration is recorded as the edit's.       *)
RestoredRecorded ==
    /\ \E p \in Proxy :
        /\ job[p].pc = "restore" /\ job[p].reply # "none"
        /\ job' = [job EXCEPT ![p].pc = "apply"]
    /\ UNCHANGED <<rowVars, due, runtimeVars, proxyFaults>>

Restored ==
    /\ \E p \in Proxy :
        /\ job[p].pc = "restore" /\ job[p].reply # "none" /\ call[p] = NoCall
        /\ AskRuntime(p, "apply", row[p].revision, row[p].content)
    /\ UNCHANGED <<rowVars, due, instance, updating, retry, draining, accepted, proxyFaults>>

(* "SET active_revision=revision,active_configuration=configuration" *)
Record ==
    /\ \E p \in Proxy :
        /\ job[p].pc = "apply" /\ job[p].reply # "none"
        /\ row' = IF job[p].reply = "ok"
                  THEN [row EXCEPT ![p].active = row[p].revision,
                                   ![p].activeContent = row[p].content, ![p].status = "running"]
                  ELSE [row EXCEPT ![p].status = "failed"]
        /\ job' = [job EXCEPT ![p] = NoJob]
    /\ UNCHANGED <<node, role, references, used, edit, chosen, due, runtimeVars, proxyFaults>>

(* The runtime cannot be reached, an answer is lost, the commit fails: the *)
(* transaction is rolled back.                                             *)
JobFails ==
    /\ \E p \in Proxy :
        /\ job[p] # NoJob /\ job' = [job EXCEPT ![p] = NoJob]
    /\ ProxyFault
    /\ UNCHANGED <<rowVars, due, runtimeVars>>

ServerRestarts ==
    /\ job' = [p \in Proxy |-> NoJob] /\ due' = {}
    /\ edit' = NoEdit /\ chosen' = {}
    /\ ProxyFault
    /\ UNCHANGED <<row, node, role, references, used, runtimeVars>>

-----------------------------------------------------------------------------
(* The runtime. *)

Reply(p, answer) ==
    /\ call' = [call EXCEPT ![p] = NoCall]
    /\ job' = IF job[p].pc \in {"restore", "apply"} THEN [job EXCEPT ![p].reply = answer] ELSE job

Calling(p) == call[p] # NoCall /\ p \notin updating
HasRoom(p) ==
    IF instance[p] # NoInstance THEN draining < MaxDraining
    ELSE Cardinality({q \in Proxy : instance[q] # NoInstance}) < MaxInstances

(* The update lock is not had within five seconds, the revision is backed  *)
(* off from, the limit is reached or too many instances are draining.      *)
Refuse ==
    /\ \E p \in Proxy :
        /\ Calling(p)
        /\ \/ updating # {}
           \/ retry[p] = call[p].revision
        /\ Reply(p, "error")
    /\ UNCHANGED <<rowVars, due, instance, updating, retry, draining, accepted, proxyFaults>>

Current(p) == instance[p].alive /\ instance[p].revision = call[p].revision
NotRefused(p) == Calling(p) /\ updating = {} /\ retry[p] # call[p].revision

AlreadyRunning ==
    /\ \E p \in Proxy :
        /\ NotRefused(p) /\ Current(p)
        /\ Reply(p, "ok") /\ retry' = [retry EXCEPT ![p] = 0]
    /\ UNCHANGED <<rowVars, due, instance, updating, draining, accepted, proxyFaults>>

NoRoom ==
    /\ \E p \in Proxy :
        /\ NotRefused(p) /\ ~Current(p) /\ ~HasRoom(p)
        /\ Reply(p, "error") /\ retry' = [retry EXCEPT ![p] = call[p].revision]
    /\ UNCHANGED <<rowVars, due, instance, updating, draining, accepted, proxyFaults>>

Launch ==
    /\ \E p \in Proxy :
        /\ NotRefused(p) /\ ~Current(p) /\ HasRoom(p) /\ updating' = {p}
    /\ UNCHANGED <<rowVars, serverVars, instance, call, retry, draining, accepted, proxyFaults>>

(* The engine runs and the probe succeeds: the instance replaces the one   *)
(* before it, which drains.                                                *)
Launched ==
    /\ \E p \in updating :
        /\ call[p].content \notin Rejected
        /\ instance' = [instance EXCEPT ![p] = [revision |-> call[p].revision, alive |-> TRUE]]
        /\ draining' = IF instance[p] # NoInstance THEN draining + 1 ELSE draining
        /\ accepted' = accepted \cup {<<p, call[p].revision>>}
        /\ retry' = [retry EXCEPT ![p] = 0]
        /\ Reply(p, "ok")
    /\ updating' = {}
    /\ UNCHANGED <<rowVars, due, proxyFaults>>

LaunchFails ==
    /\ \E p \in updating :
        /\ \/ call[p].content \in Rejected /\ UNCHANGED proxyFaults
           \/ ProxyFault
        /\ retry' = [retry EXCEPT ![p] = call[p].revision]
        /\ Reply(p, "error")
    /\ updating' = {}
    /\ UNCHANGED <<rowVars, due, instance, draining, accepted>>

(* A request whose client is gone is dropped, if it is not done before. *)
Abandon ==
    /\ \E p \in Proxy :
        /\ call[p] # NoCall /\ job[p].pc \notin {"restore", "apply"}
        /\ call' = [call EXCEPT ![p] = NoCall] /\ updating' = updating \ {p}
    /\ UNCHANGED <<rowVars, serverVars, instance, retry, draining, accepted, proxyFaults>>

Drained ==
    /\ draining > 0 /\ draining' = draining - 1
    /\ UNCHANGED <<rowVars, serverVars, instance, call, updating, retry, accepted, proxyFaults>>

BackoffEnds ==
    /\ \E p \in Proxy : retry[p] # 0 /\ retry' = [retry EXCEPT ![p] = 0]
    /\ UNCHANGED <<rowVars, serverVars, instance, call, updating, draining, accepted, proxyFaults>>

InstanceExits ==
    /\ \E p \in Proxy : instance[p].alive /\ instance' = [instance EXCEPT ![p].alive = FALSE]
    /\ ProxyFault
    /\ UNCHANGED <<rowVars, serverVars, call, updating, retry, draining, accepted>>

RuntimeRestarts ==
    /\ instance' = [p \in Proxy |-> NoInstance] /\ call' = [p \in Proxy |-> NoCall]
    /\ updating' = {} /\ retry' = [p \in Proxy |-> 0] /\ draining' = 0
    /\ job' = [p \in Proxy |->
         IF job[p].pc \in {"restore", "apply"} /\ job[p].reply = "none"
         THEN [job[p] EXCEPT !.reply = "error"] ELSE job[p]]
    /\ ProxyFault
    /\ UNCHANGED <<rowVars, due, accepted>>

-----------------------------------------------------------------------------
EditorStep ==
    \/ CreateProxy \/ ReadContent \/ UpdateProxy \/ Switch \/ UpdateNode \/ SaveSource
    \/ CheckPolicy \/ SavePolicy \/ ClearPolicy \/ ChangeRole \/ DeleteOwner \/ RemoveProxy
ServerStep ==
    \/ RemoveStops \/ DeleteRow \/ StopDisabled \/ AskStatus \/ Restored \/ Record
RuntimeStep ==
    \/ Refuse \/ AlreadyRunning \/ NoRoom \/ Launch \/ Launched \/ LaunchFails
ProxyFaultStep == JobFails \/ ServerRestarts \/ InstanceExits \/ RuntimeRestarts

ProxiesNext ==
    \/ EditorStep \/ TakeScheduled \/ TakeNext \/ ServerStep
    \/ RuntimeStep \/ Abandon \/ Drained \/ BackoffEnds \/ ProxyFaultStep

(* The loop visits every row again and again; requests are answered, locks *)
(* given back, drains and backoffs end.                                    *)
ProxiesFairness ==
    /\ WF_proxyVars(TakeScheduled) /\ \A p \in Proxy : SF_proxyVars(Visit(p))
    /\ WF_proxyVars(ServerStep) /\ WF_proxyVars(RuntimeStep)
    /\ WF_proxyVars(Abandon) /\ WF_proxyVars(Drained) /\ WF_proxyVars(BackoffEnds)
    /\ WF_proxyVars(UpdateProxy \/ SavePolicy)

ProxiesSpec == ProxiesInit /\ [][ProxiesNext]_proxyVars /\ ProxiesFairness

-----------------------------------------------------------------------------
(* Properties. *)

(* "relay egress requires an enabled proxy owned by an administrator",     *)
(* against the demotion and the deletion of its owner and its own removal; *)
(* a proxy a subscription names exists unless its owner's account is gone; *)
(* a proxy bound to the custom node has the node's content.                *)
ReferencesHold ==
    /\ \A p \in references : Exists(p) /\ role[OwnerOf[p]] = "admin"
    /\ \A p \in used : Exists(p) \/ role[OwnerOf[p]] = "gone"
    /\ \A p \in Proxy : Exists(p) /\ row[p].bound => row[p].content = node

(* The revision recorded as active, which a restarted runtime is given     *)
(* again, is one the runtime has accepted, whatever was edited meanwhile.  *)
ActiveAccepted == \A p \in Proxy : Exists(p) /\ row[p].active # 0 => <<p, row[p].active>> \in accepted

(* A proxy's row agrees with what refers to it and with what its runtime  *)
(* has taken.                                                              *)
RowsAgree == ReferencesHold /\ ActiveAccepted

(* "restore the last working version before trying a pending edit": a      *)
(* proxy that stays enabled comes to run its revision, or the last working *)
(* one when the engine refuses it, after any restart on either side: with  *)
(* edits and faults bounded, it may not stay without it for ever.          *)
Wanted(p) == IF row[p].content \in Rejected THEN row[p].active ELSE row[p].revision
Wants(p) == Exists(p) /\ row[p].enabled /\ Wanted(p) # 0
Serves(p, r) == instance[p].alive /\ instance[p].revision = r
ProxyServed == \A p \in Proxy : []<>(Wants(p) => Serves(p, Wanted(p)))

===============================================================================
