-------------------------------- MODULE Sources --------------------------------
(***************************************************************************)
(* What the server loads from elsewhere: the sources of a subscription and *)
(* its rule providers, for a public request, a preview, a debug run or a   *)
(* draft (subscription_compile.rs, subscription_sources.rs,                *)
(* subscription_rules.rs); what clients ask of its relay (resource_relay.rs,*)
(* rules_api.rs) because the exporter sent them there (resource_export.rs);*)
(* and the network lists (network_api.rs).  All of it goes through the     *)
(* snapshot cache (source_cache.rs), redirects and retries (fetch.rs) and, *)
(* but for the nodes, the egress policy (relay_egress.rs).                 *)
(*                                                                         *)
(* One job at a time; a job loads its sources one after the other and its  *)
(* rule providers together.  A load keeps what it has read while policies, *)
(* proxies and the custom nodes of the subscription are edited.            *)
(***************************************************************************)
EXTENDS Integers, Sequences, SequencesExt

CONSTANTS
    Site,             \* hosts of the network
    Relay,            \* the server's own relay, as a host of a URL
    Documents,        \* the sources, providers and own nodes a subscription may have
    Lists,            \* the public lists, by the addresses they are tried at
    Routing,          \* the outbounds of each site a policy may choose
    Attempts,         \* 3 in the code
    Hops,             \* redirects that are followed: 5 in the code
    Window,           \* rule providers loaded at once: 4 in the code
    MaxSourceJobs,    \* bound on jobs
    MaxSourceEvents   \* bound on edits and on the passing of time

ASSUME SourcesAssumption ==
    /\ Relay \notin Site /\ Routing \subseteq [Site -> {"direct", "proxy"}]
    /\ {Attempts, Window, MaxSourceJobs} \subseteq Nat \ {0}
    /\ {Hops, MaxSourceEvents} \subseteq Nat
    /\ \A d \in Documents : \A i \in DOMAIN d.items : d.items[i].url \in Site \cup {""}
    /\ Lists \subseteq Seq(Site) \ {<<>>}

NoProxyRow == [active |-> 0, enabled |-> FALSE]
NoSourceJob == [kind |-> "none", pc |-> "none"]
NoLoad == [pc |-> "none"]

VARIABLES
    attached,      \* the selected custom node of the subscription is still attached
    policies,      \* every policy there was; the last is the current one
    proxyRow,      \* the proxy policies and sources name, or NoProxyRow: never
    stored,        \* subscription_source_snapshots, source_debug_cache and the lists
    sourceJob, load,
    sourceJobs, sourceEvents

settingVars == <<attached, policies, proxyRow, sourceEvents>>
sourceVars == <<settingVars, stored, sourceJob, load, sourceJobs>>

SourceEvent == sourceEvents < MaxSourceEvents /\ sourceEvents' = sourceEvents + 1

SourcesInit ==
    /\ attached = TRUE /\ \E r \in Routing : policies = <<r>>
    /\ proxyRow = [active |-> 1, enabled |-> TRUE]
    /\ stored = {}
    /\ sourceJob = NoSourceJob /\ load = [w \in 1..Window |-> NoLoad] /\ sourceJobs = 0
    /\ sourceEvents = 0

-----------------------------------------------------------------------------
(* What is edited meanwhile. *)

NamesProxy(table) == \E s \in DOMAIN table : table[s] = "proxy"

(* save_policy: of enabled proxies only. *)
ChangeEgress ==
    /\ \E r \in Routing :
        /\ r # Last(policies) /\ NamesProxy(r) => proxyRow.enabled
        /\ policies' = Append(policies, r)
    /\ SourceEvent
    /\ UNCHANGED <<attached, proxyRow, stored, sourceJob, load, sourceJobs>>

(* A new revision of the proxy serves, or it is switched. *)
ChangeProxy ==
    /\ \/ proxyRow' = [proxyRow EXCEPT !.enabled = ~@]
       \/ proxyRow.enabled /\ proxyRow' = [proxyRow EXCEPT !.active = @ + 1]
    /\ SourceEvent
    /\ UNCHANGED <<attached, policies, stored, sourceJob, load, sourceJobs>>

Attach ==
    /\ attached' = ~attached /\ SourceEvent
    /\ UNCHANGED <<policies, proxyRow, stored, sourceJob, load, sourceJobs>>

(* Snapshots outlive their time to live, and the list its day. *)
ExpireSnapshots ==
    /\ \E s \in stored : s.fresh
    /\ stored' = {[s EXCEPT !.fresh = FALSE] : s \in stored}
    /\ SourceEvent
    /\ UNCHANGED <<attached, policies, proxyRow, sourceJob, load, sourceJobs>>

-----------------------------------------------------------------------------
(* Jobs. *)

(* The cache a load reads: of the subscription, of everyone, or none. *)
CacheOf(kind) ==
    CASE kind \in {"preview", "debug"} -> "subscription"
      [] kind \in {"draft", "convert"} -> "global"
      [] kind = "production" -> "subscription"
      [] kind = "list" -> "memory"
      [] OTHER -> "none"
Stores(kind) == kind \in {"preview", "convert", "list"}
IncludesRules(kind) == kind \in {"debug", "draft"}

SourcesJob(kind) ==
    [kind |-> kind, pc |-> "nodes", selected |-> "none", items |-> <<>>, providers |-> <<>>,
     at |-> 0, stages |-> <<>>, used |-> <<>>, failed |-> 0, rules |-> <<>>, output |-> <<>>,
     report |-> "none"]

EnabledItems(document) == SelectSeq(document.items, LAMBDA item : item.enabled)

(* The items of a document that are enabled are a sequence of its items,   *)
(* and its providers are a sequence.                                       *)
ASSUME ItemsAssumption ==
    \A d \in Documents : /\ EnabledItems(d) \in Seq(ToSet(d.items))
                         /\ d.providers \in Seq(ToSet(d.providers))

MayBeginJob ==
    sourceJob = NoSourceJob /\ sourceJobs < MaxSourceJobs /\ sourceJobs' = sourceJobs + 1

(* saved_input, of the subscription as it was saved last; a draft comes    *)
(* with the request.                                                       *)
BeginSubscription ==
    /\ MayBeginJob
    /\ \E kind \in {"preview", "debug", "draft"}, document \in Documents :
        /\ document.selected = "attached" => attached
        /\ sourceJob' = [SourcesJob(kind) EXCEPT !.selected = document.selected,
            !.items = EnabledItems(document),
            !.providers = IF IncludesRules(kind) THEN document.providers ELSE <<>>]
    /\ UNCHANGED <<settingVars, stored, load>>

(* load_custom_nodes joins what was selected with what is attached now; a  *)
(* draft is not scoped to the subscription.                                *)
LoadNodes ==
    /\ sourceJob.pc = "nodes"
    /\ sourceJob' = [sourceJob EXCEPT !.pc =
           IF sourceJob.selected = "attached" /\ ~attached /\ sourceJob.kind # "draft"
           THEN "refused" ELSE "sources"]
    /\ UNCHANGED <<settingVars, stored, load, sourceJobs>>

EndSourcesJob ==
    /\ sourceJob.pc \in {"compiled", "answered", "refused"}
    /\ sourceJob' = NoSourceJob /\ load' = [w \in 1..Window |-> NoLoad]
    /\ UNCHANGED <<settingVars, stored, sourceJobs>>

(* The client hangs up: the work is dropped where it waits. *)
DropJob ==
    /\ sourceJob.pc \notin {"none", "compiled", "answered", "refused"}
    /\ sourceJob' = NoSourceJob /\ load' = [w \in 1..Window |-> NoLoad]
    /\ UNCHANGED <<settingVars, stored, sourceJobs>>

-----------------------------------------------------------------------------
(* A load: the policy if it is relayed, the cache, then attempts.          *)

Load(id, places) ==
    [pc |-> "lookup", id |-> id, places |-> places, policy |-> 0, proxied |-> FALSE, ttl |-> 1,
     key |-> [url |-> places[1]], kept |-> {}, attempt |-> 1, hop |-> 0, at |-> places[1],
     via |-> {}, answer |-> "error"]
Retried(url) == [a \in 1..Attempts |-> url]
NodeLoad(item) ==
    [Load("nodes", Retried(item.url)) EXCEPT
        !.proxied = item.proxied, !.ttl = item.ttl]
RelayLoad(id, places) == [Load(id, places) EXCEPT !.pc = "policy"]

StepLoad(w, l) == load' = [load EXCEPT ![w] = l]

(* What the relay is asked for, an administrator's test of it, the lists;  *)
(* and a source that is looked at by itself, as saved or past the cache.   *)
BeginSingle(kind, l) ==
    /\ MayBeginJob
    /\ sourceJob' = [SourcesJob(kind) EXCEPT !.pc = "single"] /\ StepLoad(1, l)
    /\ UNCHANGED <<settingVars, stored>>

BeginRelay ==
    \E url \in Site \cup {Relay} :
        \/ BeginSingle("convert", RelayLoad("convert", Retried(url)))
        \/ \E kind \in {"download", "test"} : BeginSingle(kind, RelayLoad(kind, <<url>>))

BeginList == \E list \in Lists : BeginSingle("list", RelayLoad("list", list))

BeginInspection ==
    \E document \in Documents, kind \in {"production", "bypass"} :
        \E item \in ToSet(document.items) :
            /\ item.kind = "url" /\ item.url # "" /\ item.ttl >= 0
            /\ kind = "production" => item.enabled
            /\ BeginSingle(kind, NodeLoad(item))

LoadPolicy(w) ==
    /\ load[w].pc = "policy"
    /\ StepLoad(w, [load[w] EXCEPT !.pc = "lookup", !.policy = Len(policies)])
    /\ UNCHANGED <<settingVars, stored, sourceJob, sourceJobs>>

(* cache_key, and for the relay the identity of the policy in it; the route *)
(* of a node source, whose proxy must be enabled.                          *)
KeyOf(l) ==
    [id |-> l.id, url |-> l.places[1], policy |-> l.policy,
     proxy |-> IF l.proxied \/ (l.policy > 0 /\ NamesProxy(policies[l.policy]))
               THEN proxyRow ELSE NoProxyRow]
LookupSnapshot(w) ==
    /\ load[w].pc = "lookup"
    /\ LET l == load[w]
           key == KeyOf(l)
           kept == {s \in stored : s.where = CacheOf(sourceJob.kind) /\ s.key = key}
       IN  StepLoad(w,
             IF l.proxied /\ ~proxyRow.enabled THEN [l EXCEPT !.pc = "got", !.answer = "error"]
             ELSE IF l.ttl > 0 /\ \E s \in kept : s.fresh
                  THEN [l EXCEPT !.pc = "got", !.key = key, !.answer = "fresh", !.kept = kept]
             ELSE [l EXCEPT !.pc = "hop", !.key = key,
                            !.kept = IF sourceJob.kind = "list" THEN {} ELSE kept])
    /\ UNCHANGED <<settingVars, stored, sourceJob, sourceJobs>>

(* One request: Policy::select for the host of this hop, or the route that *)
(* the source was given.  A proxy has another port for every revision.     *)
Outbound(l) ==
    IF l.policy > 0 THEN policies[l.policy][l.at] ELSE IF l.proxied THEN "proxy" ELSE "direct"
Resolves(l) == Outbound(l) = "proxy" => proxyRow.enabled
Passable(l) ==
    /\ l.policy > 0 => l.at # Relay /\ Resolves(l)
    /\ l.proxied => proxyRow = l.key.proxy
HopOf(l) == [at |-> l.at, outbound |-> Outbound(l), revision |-> proxyRow.active]

(* fetch_text_with_retry: a 200 ends it, and the last response is preferred *)
(* to the last error.  A list goes on to its next address.                 *)
LoadAnswered(l, answer) ==  \* where the redirects led is kept of a usable answer only
    [l EXCEPT !.pc = "got", !.answer = answer, !.attempt = 1, !.hop = 0, !.at = l.places[1],
              !.via = IF answer = "usable" THEN @ ELSE {}]
EndsAttempts(l, answer) == answer = "usable" \/ (answer = "empty" /\ l.id # "list")
Attempted(l, answer) ==
    IF EndsAttempts(l, answer) THEN LoadAnswered(l, answer)
    ELSE LET best == IF answer = "status" \/ l.answer = "status" THEN "status" ELSE "error"
         IN  IF l.attempt = Len(l.places) THEN LoadAnswered(l, best)
             ELSE [l EXCEPT !.attempt = @ + 1, !.at = l.places[l.attempt + 1], !.hop = 0,
                            !.via = {}, !.answer = best]
Hop(w) ==
    /\ load[w].pc = "hop"
    /\ LET l == load[w]
           gone == [l EXCEPT !.via = @ \cup {HopOf(l)}]
       IN  IF ~Passable(l) THEN StepLoad(w, Attempted(l, "error"))
           ELSE \/ \E answer \in {"usable", "empty", "status", "error"} :
                       StepLoad(w, Attempted(gone, answer))
                \/ \E site \in (Site \cup {Relay}) \ {l.at} :
                       StepLoad(w, IF l.hop = Hops THEN Attempted(gone, "error")
                                   ELSE [gone EXCEPT !.hop = @ + 1, !.at = site])
    /\ UNCHANGED <<settingVars, stored, sourceJob, sourceJobs>>

-----------------------------------------------------------------------------
(* load_inner after the attempts: what is used, and what is stored. *)

Good(l) == l.answer \in {"fresh", "usable"} \/ l.kept # {}
Result(l) ==
    IF l.answer = "usable" THEN [key |-> l.key, via |-> l.via, content |-> l.answer]
    ELSE LET s == CHOOSE s \in l.kept : TRUE
         IN  [key |-> s.key, via |-> s.via, content |-> s.content]
StoredAfter(l) ==
    LET where == CacheOf(sourceJob.kind)
        new == [where |-> where, by |-> sourceJob.kind, key |-> l.key, via |-> l.via,
                content |-> l.answer, fresh |-> TRUE]
        Replaced(s) ==
            s.where = where /\ (s.key = l.key \/ (where = "memory" /\ s.key.url = l.key.url))
    IN  IF l.answer = "usable" /\ Stores(sourceJob.kind)
        THEN {s \in stored : ~Replaced(s)} \cup {new} ELSE stored

(* load_sources: one enabled source after the other. *)
SourceUsed(used) ==
    sourceJob' = [sourceJob EXCEPT !.at = @ + 1, !.stages = Append(@, "ok"),
                                   !.used = Append(@, used)]
SourceFailed ==
    sourceJob' = [sourceJob EXCEPT !.at = @ + 1, !.stages = Append(@, "error"),
                                   !.failed = @ + 1]
CurrentItem == sourceJob.items[sourceJob.at + 1]
AtSource == sourceJob.pc = "sources" /\ sourceJob.at < Len(sourceJob.items) /\ load[1] = NoLoad

NextSource ==
    /\ AtSource
    /\ IF CurrentItem.kind = "url" /\ CurrentItem.url # "" /\ CurrentItem.ttl >= 0
       THEN StepLoad(1, NodeLoad(CurrentItem)) /\ UNCHANGED sourceJob
       ELSE /\ IF CurrentItem.kind = "raw" /\ CurrentItem.nodes
               THEN SourceUsed([of |-> sourceJob.at + 1, how |-> "inline"]) ELSE SourceFailed
            /\ UNCHANGED load
    /\ UNCHANGED <<settingVars, stored, sourceJobs>>

SourceLoaded ==
    /\ sourceJob.pc = "sources" /\ load[1].pc = "got"
    /\ IF Good(load[1])
       THEN SourceUsed([of |-> sourceJob.at + 1, how |-> "loaded", what |-> Result(load[1])])
       ELSE SourceFailed
    /\ stored' = StoredAfter(load[1]) /\ StepLoad(1, NoLoad)
    /\ UNCHANGED <<settingVars, sourceJobs>>

(* prepare_with_local: something must be left to compile. *)
AllFailed(stages) == (\E i \in DOMAIN stages : stages[i] = "error")
                     /\ \A i \in DOMAIN stages : stages[i] # "ok"
SourcesLoaded ==
    /\ sourceJob.pc = "sources" /\ sourceJob.at = Len(sourceJob.items)
    /\ sourceJob' = [sourceJob EXCEPT !.pc =
           IF /\ sourceJob.at > 0 /\ sourceJob.failed = sourceJob.at
              /\ sourceJob.selected = "none"
           THEN "refused" ELSE "rules"]
    /\ UNCHANGED <<settingVars, stored, load, sourceJobs>>

(* load_rule_snapshots: `buffered', so the results come in order and the   *)
(* first failure drops what is still being loaded.                         *)
SlotOf(i) == ((i - 1) % Window) + 1
StartProvider ==
    /\ sourceJob.pc = "rules"
    /\ \E i \in DOMAIN sourceJob.providers :
        /\ Len(sourceJob.rules) < i /\ i <= Len(sourceJob.rules) + Window
        /\ load[SlotOf(i)] = NoLoad
        /\ StepLoad(SlotOf(i), RelayLoad(sourceJob.providers[i].tag,
                                         Retried(sourceJob.providers[i].url)))
    /\ UNCHANGED <<settingVars, stored, sourceJob, sourceJobs>>

ProviderLoaded ==
    /\ sourceJob.pc = "rules" /\ Len(sourceJob.rules) < Len(sourceJob.providers)
    /\ LET w == SlotOf(Len(sourceJob.rules) + 1)
       IN  /\ load[w].pc = "got"
           /\ IF Good(load[w])
              THEN /\ sourceJob' = [sourceJob EXCEPT !.rules = Append(@, Result(load[w]))]
                   /\ StepLoad(w, NoLoad)
              ELSE /\ sourceJob' = [sourceJob EXCEPT !.pc = "refused"]
                   /\ load' = [x \in 1..Window |-> NoLoad]
    /\ UNCHANGED <<settingVars, stored, sourceJobs>>

(* A single load answers: the relay with any status it got, the test and    *)
(* the inspection with anything.                                           *)
Reported(kind, answer) ==
    \/ kind \in {"test", "production", "bypass"}
    \/ kind = "download" /\ answer # "error"
Report(l) == IF Good(l) THEN "ok" ELSE "error"  \* the nodes of what was used, or why not
SingleAnswers ==
    /\ sourceJob.pc = "single" /\ load[1].pc = "got"
    /\ sourceJob' = [sourceJob EXCEPT
           !.pc = IF Good(load[1]) \/ Reported(sourceJob.kind, load[1].answer)
                  THEN "answered" ELSE "refused",
           !.rules = IF Good(load[1]) THEN <<Result(load[1])>> ELSE <<>>,
           !.report = Report(load[1])]
    /\ stored' = StoredAfter(load[1]) /\ StepLoad(1, NoLoad)
    /\ UNCHANGED <<settingVars, sourceJobs>>

-----------------------------------------------------------------------------
(* compile, and run_debug around it.  The exporter sends the client to the *)
(* relay for every remote rule set that is not there already; one that a   *)
(* core cannot read is converted for its version.                          *)

Wrapped(book) ==
    IF book.url = Relay THEN [path |-> "relay", of |-> Relay]
    ELSE [path |-> IF book.clash THEN "convert" ELSE "download", of |-> book.url]
Exported(providers) == [i \in DOMAIN providers |-> Wrapped(providers[i])]
CompileSources ==
    /\ sourceJob.pc = "rules" /\ Len(sourceJob.rules) = Len(sourceJob.providers)
    /\ \E filtered \in BOOLEAN :
        LET nodes == ~filtered /\ (sourceJob.used # <<>> \/ sourceJob.selected # "none")
        IN  sourceJob' =
              IF ~nodes /\ AllFailed(sourceJob.stages) /\ IncludesRules(sourceJob.kind)
              THEN [sourceJob EXCEPT !.pc = "refused"]
              ELSE [sourceJob EXCEPT !.pc = "compiled", !.output = Exported(sourceJob.providers)]
    /\ UNCHANGED <<settingVars, stored, load, sourceJobs>>

SourcesNext ==
    \/ ChangeEgress \/ ChangeProxy \/ Attach \/ ExpireSnapshots
    \/ BeginSubscription \/ LoadNodes \/ BeginRelay \/ BeginList \/ BeginInspection
    \/ EndSourcesJob \/ DropJob
    \/ \E w \in 1..Window : LoadPolicy(w) \/ LookupSnapshot(w) \/ Hop(w)
    \/ NextSource \/ SourceLoaded \/ SourcesLoaded
    \/ StartProvider \/ ProviderLoaded \/ SingleAnswers \/ CompileSources

-----------------------------------------------------------------------------
(* Every request behind a content went the way its cache key stands for:   *)
(* each redirect by the outbound of its own host, under the policy that was *)
(* current when the load began and never under a later one, to no endpoint *)
(* of the relay, and by no older revision of a proxy (source_cache.rs,     *)
(* resource_relay.rs, relay_egress.rs).                                    *)
WentBy(key, hop) ==
    /\ hop.outbound = IF key.policy > 0 THEN policies[key.policy][hop.at]
                      ELSE IF key.proxy # NoProxyRow THEN "proxy" ELSE "direct"
    /\ hop.outbound = "proxy" => hop.revision >= key.proxy.active
Contents ==
    stored \cup ToSet(sourceJob.rules)
           \cup {u.what : u \in {v \in ToSet(sourceJob.used) : v.how = "loaded"}}
RouteKept ==
    LET all == IF sourceJob = NoSourceJob THEN stored ELSE Contents
    IN  \A c \in all : c.content = "usable" /\ \A hop \in c.via : WentBy(c.key, hop)

(* Looking at sources (a debug run, a draft, an inspection) leaves nothing *)
(* in a cache that others read; a key has one entry in each cache.         *)
CachesOfWriters ==
    \A s \in stored :
        /\ s.by \in {"preview", "convert", "list"}
        /\ \A t \in stored : t.where = s.where /\ t.key = s.key => t = s

(* The summary, the stages and the snapshots tell the same story of the    *)
(* sources, in their order, and a configuration without any node is not    *)
(* shown as the result of a debug run when every source failed.            *)
SourcesAccounted ==
    sourceJob # NoSourceJob =>
        LET job == sourceJob
        IN  /\ Len(job.used) + job.failed = job.at /\ job.at <= Len(job.items)
            /\ AllFailed(job.stages) <=> (job.at > 0 /\ job.failed = job.at)
            /\ \A i \in DOMAIN job.used :
                /\ job.stages[job.used[i].of] = "ok"
                /\ i > 1 => job.used[i - 1].of < job.used[i].of
                /\ job.used[i].how = "loaded" =>
                     job.used[i].what.key.url = job.items[job.used[i].of].url

(* What is compiled has a snapshot for each rule provider and in their     *)
(* order, and the exported addresses lead to the relay once each.          *)
RulesWhole ==
    sourceJob.pc = "compiled" =>
        /\ Len(sourceJob.rules) = Len(sourceJob.providers)
        /\ \A i \in DOMAIN sourceJob.rules :
            /\ sourceJob.rules[i].key.id = sourceJob.providers[i].tag
            /\ sourceJob.output[i].path = "relay" <=> sourceJob.output[i].of = Relay

SourcesSound == RouteKept /\ CachesOfWriters /\ SourcesAccounted /\ RulesWhole

===============================================================================
