------------------------------- MODULE RuleSets -------------------------------
(***************************************************************************)
(* The rule sets of a running core (rule_bootstrap and cn_routes of        *)
(* sempre-manager, rule_sets of sempre-subscription).  A core starts with  *)
(* what is cached, without the rules that need what is not; missing and    *)
(* outdated sets are downloaded through it and published as files that it  *)
(* watches.  The prefixes of one set, Cn, are routes of the host as well,  *)
(* which must cover what the core takes for granted.                       *)
(***************************************************************************)
EXTENDS Integers, FiniteSets

CONSTANTS
    Rule,            \* the remote rule sets of the configuration
    Cn,              \* the one whose prefixes bypass the TUN: geoip-cn
    Deployment,      \* deployments
    MaxRevision,     \* revisions of a set that its server publishes
    MaxRuleFaults    \* bound on failures, crashes and other holders of the gate

ASSUME RuleAssumption ==
    Cn \in Rule /\ "none" \notin Rule /\ MaxRevision \in Nat /\ MaxRuleFaults \in Nat

NoRuntime == [up |-> FALSE]
AtEase == [pc |-> "wait"]
Nothing == [r \in Rule |-> 0]

VARIABLES
    wanted,      \* the active deployment, or "none" if none shall run
    runtime,     \* the supervised core's plan
    served,      \* the revision a server has of a set
    ruleFile,    \* the revision in the file that the core watches
    entries,     \* the revision that the cache entry names
    outdated,         \* sets whose interval has passed
    bypass,      \* revisions of Cn whose prefixes are routed past the TUN
    refresh,     \* refresh_runtime_rules
    gate,        \* who holds runtime_rules_gate
    torn,        \* since the start an entry of Cn was not written after its file
    ruleFaults

ruleVars == <<wanted, runtime, served, ruleFile, entries, outdated, bypass, refresh, gate, torn,
              ruleFaults>>

RuleInit ==
    /\ wanted \in Deployment /\ runtime = NoRuntime
    /\ served = [r \in Rule |-> 1] /\ ruleFile = Nothing /\ entries \in {Nothing, served}
    /\ outdated = {} /\ bypass = {} /\ refresh = AtEase /\ gate = "free"
    /\ torn = FALSE /\ ruleFaults = 0

MayFail == ruleFaults < MaxRuleFaults /\ ruleFaults' = ruleFaults + 1

(***************************************************************************)
(* The start of a core.                                                    *)
(***************************************************************************)
\* cached_rule_set: the file is made what the entry names.
Repaired == [r \in Rule |-> IF entries[r] # 0 THEN entries[r] ELSE ruleFile[r]]

\* prepare_cn_source: Cn is fetched at once where it is not cached; if that fails, there are
\* no routes.
CnFetched == IF entries[Cn] = 0 THEN BOOLEAN ELSE {FALSE}

\* materialize: a set that is not cached is left out, with every rule that depends on it.
RuntimeStarts ==
    /\ ~runtime.up /\ wanted # "none"
    /\ \E fetched \in CnFetched :
         LET here == {r \in Rule : entries[r] # 0} \cup (IF fetched THEN {Cn} ELSE {})
             files == IF fetched THEN [Repaired EXCEPT ![Cn] = served[Cn]]
                      ELSE Repaired
             routes == IF Cn \in here THEN {files[Cn]} ELSE {}
         IN  /\ ruleFile' = files
             /\ entries' = IF fetched THEN [entries EXCEPT ![Cn] = served[Cn]] ELSE entries
             /\ runtime' = [up |-> TRUE, deployment |-> wanted, local |-> here,
                            routes |-> routes]
             /\ bypass' = routes
    /\ torn' = FALSE
    /\ UNCHANGED <<wanted, served, outdated, refresh, gate, ruleFaults>>

\* The core exits, is stopped or reloaded: the loops beside it are dropped where they wait.
Freed == IF gate = "refresh" THEN "free" ELSE gate
RuntimeStops ==
    /\ runtime.up /\ refresh.pc # "publish"
    /\ runtime' = NoRuntime /\ bypass' = {} /\ refresh' = AtEase /\ gate' = Freed
    /\ UNCHANGED <<wanted, served, ruleFile, entries, outdated, torn, ruleFaults>>

RuleCrash ==
    /\ MayFail
    /\ runtime' = NoRuntime /\ bypass' = {} /\ refresh' = AtEase
    /\ gate' = "free"
    /\ UNCHANGED <<wanted, served, ruleFile, entries, outdated, torn>>

\* Another deployment becomes active, or none shall run.
Select ==
    /\ MayFail /\ wanted' \in Deployment \cup {"none"}
    /\ UNCHANGED <<runtime, served, ruleFile, entries, outdated, bypass, refresh, gate, torn>>

RulesMove ==
    /\ \/ \E r \in Rule \ outdated : outdated' = outdated \cup {r} /\ UNCHANGED served
       \/ \E r \in Rule : served[r] < MaxRevision /\ served' = [served EXCEPT ![r] = @ + 1]
                          /\ UNCHANGED outdated
    /\ UNCHANGED <<wanted, runtime, ruleFile, entries, bypass, refresh, gate, torn, ruleFaults>>

\* Stops, tunnels and DNS updates take the gate for a while.
OtherHolds ==
    /\ \/ gate = "free" /\ MayFail /\ gate' = "other"
       \/ gate = "other" /\ gate' = "free" /\ UNCHANGED ruleFaults
    /\ UNCHANGED <<wanted, runtime, served, ruleFile, entries, outdated, bypass, refresh, torn>>

(***************************************************************************)
(* complete_rule_bootstrap and refresh_runtime_rules.                      *)
(***************************************************************************)
IsDue(r) == entries[r] = 0 \/ r \in outdated

\* Looking whether a set is due repairs its file, gate or not.
BeginRefresh ==
    /\ runtime.up /\ refresh = AtEase
    /\ \E r \in Rule : IsDue(r)
    /\ ruleFile' = Repaired
    /\ refresh' = [pc |-> "download", todo |-> {r \in Rule : IsDue(r)}, got |-> Nothing,
                   writing |-> "none"]
    /\ UNCHANGED <<wanted, runtime, served, entries, outdated, bypass, gate, torn, ruleFaults>>

\* Side by side; one that fails ends the refresh, for a minute.
Download ==
    /\ refresh.pc = "download"
    /\ \E r \in refresh.todo :
         refresh' = [refresh EXCEPT !.todo = @ \ {r}, !.got[r] = served[r]]
    /\ UNCHANGED <<wanted, runtime, served, ruleFile, entries, outdated, bypass, gate, torn,
                   ruleFaults>>

RefreshFails ==
    /\ refresh.pc \in {"download", "cover", "publish"} /\ MayFail
    /\ torn' = (torn \/ refresh.writing = Cn)
    /\ refresh' = AtEase /\ gate' = Freed
    /\ UNCHANGED <<wanted, runtime, served, ruleFile, entries, outdated, bypass>>

Enter ==
    /\ refresh.pc = "download" /\ refresh.todo = {} /\ gate = "free"
    /\ gate' = "refresh" /\ refresh' = [refresh EXCEPT !.pc = "cover"]
    /\ UNCHANGED <<wanted, runtime, served, ruleFile, entries, outdated, bypass, torn, ruleFaults>>

\* "Keep both snapshots bypassed until all cache publication completes."
\* Forgetting the set that is still in the file:
UnionForgetful == {refresh.got[Cn]}
Union == runtime.routes \cup {refresh.got[Cn], ruleFile[Cn]}
Cover ==
    /\ refresh.pc = "cover"
    /\ bypass' = IF refresh.got[Cn] # 0 /\ runtime.routes # {} THEN Union ELSE bypass
    /\ refresh' = [refresh EXCEPT !.pc = "check"]
    /\ UNCHANGED <<wanted, runtime, served, ruleFile, entries, outdated, gate, torn, ruleFaults>>

\* The check and the publication are not interrupted, but the daemon may die.
Check ==
    /\ refresh.pc = "check"
    /\ IF wanted = runtime.deployment
       THEN /\ refresh' = [refresh EXCEPT !.pc = "publish",
                                          !.todo = {r \in Rule : refresh.got[r] # 0}]
            /\ UNCHANGED gate
       ELSE refresh' = AtEase /\ gate' = "free"
    /\ UNCHANGED <<wanted, runtime, served, ruleFile, entries, outdated, bypass, torn, ruleFaults>>

\* accept_rule_set: the file that the core watches, then the entry that names it.
PublishFile ==
    /\ refresh.pc = "publish" /\ refresh.writing = "none"
    /\ \E r \in refresh.todo :
         /\ ruleFile' = [ruleFile EXCEPT ![r] = refresh.got[r]]
         /\ refresh' = [refresh EXCEPT !.writing = r]
    /\ UNCHANGED <<wanted, runtime, served, entries, outdated, bypass, gate, torn, ruleFaults>>

PublishEntry ==
    /\ refresh.pc = "publish" /\ refresh.writing # "none"
    /\ LET r == refresh.writing
       IN  /\ entries' = [entries EXCEPT ![r] = refresh.got[r]] /\ outdated' = outdated \ {r}
           /\ refresh' = [refresh EXCEPT !.todo = @ \ {r}, !.writing = "none"]
    /\ UNCHANGED <<wanted, runtime, served, ruleFile, bypass, gate, torn, ruleFaults>>

\* Ok(true): what was left out at the start needs another start.
EndRefresh ==
    /\ refresh.pc = "publish" /\ refresh.todo = {}
    /\ gate' = "free" /\ refresh' = AtEase
    /\ IF runtime.local = Rule THEN UNCHANGED <<runtime, bypass>>
       ELSE runtime' = NoRuntime /\ bypass' = {}
    /\ UNCHANGED <<wanted, served, ruleFile, entries, outdated, torn, ruleFaults>>

\* monitor_cn_routes: the routes of the file, when a set was published (cn_rules_changed) or
\* routes drifted, and no publication is under way.
FollowRules ==
    /\ runtime.up /\ runtime.routes # {} /\ gate = "free"
    /\ bypass' = {ruleFile[Cn]}
    /\ UNCHANGED <<wanted, runtime, served, ruleFile, entries, outdated, refresh, gate, torn,
                   ruleFaults>>

------------------------------------------------------------------------------
RuleNext ==
    \/ RuntimeStarts \/ RuntimeStops \/ RuleCrash \/ Select \/ RulesMove \/ OtherHolds
    \/ BeginRefresh \/ Download \/ RefreshFails \/ Enter \/ Cover \/ Check
    \/ PublishFile \/ PublishEntry \/ EndRefresh \/ FollowRules

RuleSpec == RuleInit /\ [][RuleNext]_ruleVars

(***************************************************************************)
(* Properties.                                                             *)
(***************************************************************************)
\* What the core takes for domestic is routed past its TUN, while sets are replaced, routes
\* drift and a publication fails; an entry that could not be written after its file may
\* bring the older set back under the routes of the newer.
CnCovered == runtime.up /\ runtime.routes # {} /\ ~torn => ruleFile[Cn] \in bypass

\* Every set that the running configuration names is there, and no older than it was
\* recorded; a file leads its entry.
SetsPresent ==
    runtime.up => /\ \A r \in runtime.local : ruleFile[r] > 0
                  /\ \A r \in Rule : ruleFile[r] >= entries[r]

\* A set is published under the gate and for the deployment that the core runs.
PublishedForRunning == refresh.pc = "publish" => runtime.up /\ gate = "refresh"

RulesCovered == CnCovered /\ SetsPresent /\ PublishedForRunning

===============================================================================
