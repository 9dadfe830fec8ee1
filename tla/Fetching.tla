------------------------------- MODULE Fetching -------------------------------
(***************************************************************************)
(* How the client reaches the network for its own downloads                *)
(* (sempre-subscription; fetch_proxy, fetch_proxy_rules, source_loading    *)
(* and rule_provider of sempre-manager).  Sources may name a proxy, hosts  *)
(* may have a rule; a proxy is a core that runs for one download only.     *)
(* The document of proxies and rules, the profiles and the cache change    *)
(* while downloads run.                                                    *)
(***************************************************************************)
EXTENDS Integers, Sequences

CONSTANTS
    FetchProxy,      \* identifiers of proxies
    Source,          \* sources of the profile that have a URL
    Provider,        \* rule providers, fetched like sources that name no proxy
    Host,            \* hosts that resources are requested of
    Job,             \* operations that download
    Usable,          \* contents that validation accepts
    Rulebook,        \* the rules that editors save
    MaxRedirects,    \* redirects that are followed
    MaxFetchEdits    \* bound on edits and revisions of the server

Item == Source \cup Provider
None == "none"

ASSUME FetchAssumption ==
    /\ FetchProxy \cap {None, "default", "direct", "system", "core"} = {}
    /\ Source \cap Provider = {} /\ MaxRedirects \in Nat

NoEntry == [content |-> None, via |-> None, fresh |-> FALSE]
Resting == [pc |-> "idle"]

VARIABLES
    proxies,      \* fetch_proxies: "absent", "off" or "on"
    rules,        \* its rules: [default, host]; a host without one has "default"
    named,        \* proxy_id of a source in the catalog
    entry,        \* cache entries by item and the proxy it named
    processes,    \* the proxies that run, each for its download
    download,     \* the operations
    requested,    \* the requests of a download: [what, via] (for the properties)
    coreProxy,    \* the daemon's core runs and has a local HTTP proxy
    conversion,   \* the revision that the conversion service serves
    fetchEdits

fetchVars == <<proxies, rules, named, entry, processes, download, requested, coreProxy,
               conversion, fetchEdits>>

Outbounds(r) == {r.default} \cup {r.host[h] : h \in Host}
Chosen(r, h) == IF r.host[h] = "default" THEN r.default ELSE r.host[h]
CacheKey(i, p) == <<i, p>>
CacheKeys == Item \X (FetchProxy \cup {None})

FetchInit ==
    /\ proxies \in [FetchProxy -> {"absent", "on"}]
    /\ rules = [default |-> "system", host |-> [h \in Host |-> "default"]]
    /\ named = [s \in Source |-> None]
    /\ entry = [k \in CacheKeys |-> NoEntry]
    /\ processes = {}
    /\ download = [j \in Job |-> Resting]
    /\ requested = [j \in Job |-> {}]
    /\ coreProxy \in BOOLEAN /\ conversion = 1 /\ fetchEdits = 0

(***************************************************************************)
(* Edits, each under the operation lock, and the world around.             *)
(***************************************************************************)
FetchEdit ==
    /\ fetchEdits < MaxFetchEdits /\ fetchEdits' = fetchEdits + 1
    /\ UNCHANGED <<entry, processes, download, requested>>

\* create_fetch_proxy, update_fetch_proxy: a rule may be left with a disabled proxy.
SaveProxy ==
    /\ FetchEdit
    /\ \E p \in FetchProxy, to \in {"on", "off"} : proxies' = [proxies EXCEPT ![p] = to]
    /\ UNCHANGED <<rules, named, coreProxy, conversion>>

\* remove_fetch_proxy: neither a source nor a rule names it.
UnusedBySources(p) == \A s \in Source : named[s] # p
MayRemove(p) == UnusedBySources(p) /\ p \notin Outbounds(rules)
RemoveFetchProxy ==
    /\ FetchEdit
    /\ \E p \in FetchProxy :
         /\ proxies[p] # "absent" /\ MayRemove(p)
         /\ proxies' = [proxies EXCEPT ![p] = "absent"]
    /\ UNCHANGED <<rules, named, coreProxy, conversion>>

\* update_resource_rules: of enabled proxies only.
SaveRules ==
    /\ FetchEdit
    /\ \E new \in Rulebook :
         /\ \A p \in Outbounds(new) \cap FetchProxy : proxies[p] = "on"
         /\ rules' = new
    /\ UNCHANGED <<proxies, named, coreProxy, conversion>>

\* A profile is saved: its sources may name any proxy, even one that is not there.
NameProxy ==
    /\ FetchEdit
    /\ \E s \in Source, p \in FetchProxy \cup {None} : named' = [named EXCEPT ![s] = p]
    /\ UNCHANGED <<proxies, rules, coreProxy, conversion>>

\* clear_cache, under any download; snapshots stay where they are.
ClearCache ==
    /\ fetchEdits < MaxFetchEdits /\ fetchEdits' = fetchEdits + 1
    /\ entry' = [k \in CacheKeys |-> NoEntry]
    /\ UNCHANGED <<proxies, rules, named, processes, download, requested, coreProxy, conversion>>

CacheExpires ==
    /\ \E k \in CacheKeys : entry[k].fresh /\ entry' = [entry EXCEPT ![k].fresh = FALSE]
    /\ UNCHANGED <<proxies, rules, named, processes, download, requested, coreProxy, conversion,
                   fetchEdits>>

\* The core of the daemon starts or stops; the service publishes another revision.
WorldMoves ==
    /\ FetchEdit
    /\ \/ coreProxy' = ~coreProxy /\ UNCHANGED conversion
       \/ conversion' = conversion + 1 /\ UNCHANGED coreProxy
    /\ UNCHANGED <<proxies, rules, named>>

(***************************************************************************)
(* A proxy of a download.                                                  *)
(***************************************************************************)
MayBegin(j) == download[j].pc \in {"idle", "done"}
Running(j) == {p \in FetchProxy : <<j, p>> \in processes}

\* start_fetch_proxy: without a usable core, a free port or a listener in time it fails.
Becomes(j, rec) == download' = [download EXCEPT ![j] = rec]
StartProxy(j, p, status) ==
    \/ /\ status = "on" /\ processes' = processes \cup {<<j, p>>}
       /\ Becomes(j, [download[j] EXCEPT !.starting = @ \ {p}, !.started = @ \cup {p}])
    \/ Becomes(j, [download[j] EXCEPT !.starting = @ \ {p}]) /\ UNCHANGED processes

\* A download ends, and with it the processes it kept (kill_on_drop).
Ends(j, rec) ==
    /\ Becomes(j, rec)
    /\ processes' = {x \in processes : x[1] # j}

ProxyExits ==
    /\ \E x \in processes : processes' = processes \ {x}
    /\ UNCHANGED <<proxies, rules, named, entry, download, requested, coreProxy, conversion,
                   fetchEdits>>

Requests(j, what, via) ==
    requested' = [requested EXCEPT ![j] = @ \cup {[what |-> what, via |-> via]}]

Quiet == UNCHANGED <<proxies, rules, named, coreProxy, conversion, fetchEdits>>

(***************************************************************************)
(* Sources and rule providers.                                             *)
(***************************************************************************)
\* load_profile_sources and load_rule_provider_snapshots.  Sources are loaded one after
\* another; providers side by side, and one that fails ends them all.  For providers
\* start_resource_routes reads the document and starts every proxy the rules name, and they
\* run until the last is loaded; but the routes are for fetch_rule_set only, and load asks
\* through the core where it has a proxy, or as the system does, whatever the rules say.
BeginSources ==
    /\ \E j \in Job, forced, persist \in BOOLEAN :
         /\ MayBegin(j)
         /\ requested' = [requested EXCEPT ![j] = {}]
         /\ Becomes(j, [pc |-> "proxies", forced |-> forced, persist |-> persist,
                        names |-> named, all |-> Source, todo |-> Source, listed |-> proxies,
                        flight |-> {}, via |-> "system", started |-> {},
                        starting |-> {named[s] : s \in Source} \ {None},
                        got |-> [i \in Source |-> None]])
    /\ UNCHANGED <<entry, processes>> /\ Quiet

BeginProviders ==
    /\ \E j \in Job, forced, persist \in BOOLEAN :
         /\ MayBegin(j) /\ Provider # {}
         /\ requested' = [requested EXCEPT ![j] = {}]
         /\ Becomes(j, [pc |-> "proxies", forced |-> forced, persist |-> persist,
                        names |-> [i \in Provider |-> None],
                        all |-> Provider, todo |-> Provider, listed |-> proxies, flight |-> {},
                        via |-> IF forced /\ coreProxy THEN "core" ELSE "system",
                        started |-> {}, starting |-> Outbounds(rules) \cap FetchProxy,
                        got |-> [i \in Provider |-> None]])
    /\ UNCHANGED <<entry, processes>> /\ Quiet

\* read_fetch_proxies fails, and with it the operation: nothing is requested.
NothingRead ==
    /\ \E j \in Job :
         /\ MayBegin(j) /\ requested' = [requested EXCEPT ![j] = {}]
         /\ \/ Becomes(j, [pc |-> "done", got |-> [i \in Provider |-> None]])
            \/ Becomes(j, [pc |-> "done", manifest |-> 0, artifact |-> 0])
    /\ UNCHANGED <<entry, processes>> /\ Quiet

\* start_source_proxies looks each proxy up in its turn, start_resource_routes in the
\* document it has read.  One that is off, gone or does not start only fails its sources.
Listed(j) == IF download[j].all = Provider THEN download[j].listed ELSE proxies
StartNamed ==
    /\ \E j \in Job :
         /\ download[j].pc = "proxies" /\ download[j].starting # {}
         /\ \E p \in download[j].starting : StartProxy(j, p, Listed(j)[p])
    /\ UNCHANGED <<entry, requested>> /\ Quiet

StartedAll ==
    /\ \E j \in Job :
         /\ download[j].pc = "proxies" /\ download[j].starting = {}
         /\ Becomes(j, [download[j] EXCEPT !.pc = "load"])
    /\ UNCHANGED <<entry, processes, requested>> /\ Quiet

\* The next item of a download that loads; sources wait for one another.
Waiting(j) ==
    IF download[j].all = Source /\ download[j].flight # {} THEN {} ELSE download[j].todo
Cached(j, i) == entry[CacheKey(i, download[j].names[i])]

\* Got or, with None, failed.  A failed provider is the failure of the operation.
Got(j, f, content) ==
    IF content = None /\ f.item \in Provider
    THEN [download[j] EXCEPT !.todo = {}, !.flight = {}, !.got = [i \in Provider |-> None]]
    ELSE [download[j] EXCEPT !.todo = @ \ {f.item}, !.flight = @ \ {f}, !.got[f.item] = content]

\* Fresh enough, or a provider at a start (cached_rule_provider): nothing is requested.
Suffices(j, i) ==
    /\ ~download[j].forced /\ Cached(j, i).content # None
    /\ Cached(j, i).fresh \/ i \in Provider

\* The client of a source: that of its proxy, if it was started, or none.
Via(j, i) == IF download[j].names[i] = None THEN download[j].via ELSE download[j].names[i]
\* A source whose proxy is missing going out directly:
RouteDirectly(j, i) ==
    IF Via(j, i) \in FetchProxy \ download[j].started THEN "system" ELSE Via(j, i)
Route(j, i) ==
    IF Via(j, i) \in FetchProxy \ download[j].started THEN None ELSE Via(j, i)

\* load_inner: from the cache, or three attempts of which each is a request.  The entry
\* that is there now stands by.
LoadItem ==
    /\ \E j \in Job :
         /\ download[j].pc = "load"
         /\ \E i \in Waiting(j) :
              LET f == [item |-> i, old |-> Cached(j, i).content]
              IN  IF Suffices(j, i) \/ Route(j, i) = None
                  THEN Becomes(j, Got(j, f, f.old)) /\ UNCHANGED requested
                  ELSE /\ Requests(j, i, Route(j, i))
                       /\ Becomes(j, [download[j] EXCEPT !.todo = @ \ {i}, !.flight = @ \cup {f}])
    /\ UNCHANGED <<entry, processes>> /\ Quiet

\* Every attempt failed, or what came is no subscription: the entry read before stands in.
DownloadFails ==
    /\ \E j \in Job :
         download[j].pc = "load" /\ \E f \in download[j].flight : Becomes(j, Got(j, f, f.old))
    /\ UNCHANGED <<entry, processes, requested>> /\ Quiet

\* The snapshot is stored before the entry that names it, and both writes may fail; an
\* inspection stores neither.
Downloaded ==
    /\ \E j \in Job :
         /\ download[j].pc = "load"
         /\ \E f \in download[j].flight, content \in Usable :
              /\ Via(j, f.item) \in FetchProxy => Via(j, f.item) \in Running(j)
              /\ \/ /\ download[j].persist
                    /\ entry' = [entry EXCEPT ![CacheKey(f.item, download[j].names[f.item])] =
                                   [content |-> content, via |-> Via(j, f.item), fresh |-> TRUE]]
                    /\ Becomes(j, Got(j, f, content))
                 \/ ~download[j].persist /\ UNCHANGED entry /\ Becomes(j, Got(j, f, content))
                 \/ download[j].persist /\ UNCHANGED entry /\ Becomes(j, Got(j, f, None))
    /\ UNCHANGED <<processes, requested>> /\ Quiet

\* for_compile: what failed is left out; if nothing is left, the compilation is refused.
EndSources ==
    /\ \E j \in Job :
         /\ download[j].pc = "load" /\ download[j].todo = {} /\ download[j].flight = {}
         /\ Ends(j, [pc |-> "done", got |-> download[j].got])
    /\ UNCHANGED <<entry, requested>> /\ Quiet

(***************************************************************************)
(* Resources, by the rules of their hosts.                                 *)
(***************************************************************************)
\* start_resource_routes reads the document once; resource_egress starts the proxy of the
\* first host only and follows redirects with it.  A conversion is a manifest, then the
\* artifact it describes, of the same origin: by the rules for a deployment ("remote",
\* render_remote), and as the system asks, with no redirect, for the subscription a user
\* renders ("rendered", render_subscription_profile).
ProxiesFor(kind, h) ==
    {p \in FetchProxy : \/ kind \in {"routes", "remote"} /\ p \in Outbounds(rules)
                        \/ kind = "egress" /\ p = Chosen(rules, h)}
BeginResource ==
    /\ \E j \in Job, h \in Host, kind \in {"routes", "egress", "remote", "rendered"} :
         /\ MayBegin(j)
         /\ requested' = [requested EXCEPT ![j] = {}]
         /\ Becomes(j, [pc |-> "routes", kind |-> kind, rules |-> rules, proxies |-> proxies,
                        starting |-> ProxiesFor(kind, h), started |-> {}, first |-> h, host |-> h,
                        left |-> MaxRedirects, manifest |-> 0])
    /\ UNCHANGED <<entry, processes>> /\ Quiet

StartRoute ==
    /\ \E j \in Job :
         /\ download[j].pc = "routes" /\ download[j].starting # {}
         /\ \E p \in download[j].starting : StartProxy(j, p, download[j].proxies[p])
    /\ UNCHANGED <<entry, requested>> /\ Quiet

RoutesStarted ==
    /\ \E j \in Job :
         /\ download[j].pc = "routes" /\ download[j].starting = {}
         /\ Becomes(j, [download[j] EXCEPT !.pc = "resource"])
    /\ UNCHANGED <<entry, processes, requested>> /\ Quiet

HostOf(j) == IF download[j].kind = "egress" THEN download[j].first ELSE download[j].host

\* client_for: the route of this host; if its proxy could not start, the request fails.
WayTo(j) ==
    IF download[j].kind = "rendered" THEN "system" ELSE Chosen(download[j].rules, HostOf(j))
RequestResource ==
    /\ \E j \in Job :
         LET via == WayTo(j)
         IN  /\ download[j].pc = "resource"
             /\ IF via \in FetchProxy \ download[j].started
                THEN Ends(j, [pc |-> "done", manifest |-> 0, artifact |-> 0])
                     /\ UNCHANGED requested
                ELSE /\ Requests(j, HostOf(j), via)
                     /\ Becomes(j, [download[j] EXCEPT !.pc = "sent"]) /\ UNCHANGED processes
    /\ UNCHANGED entry /\ Quiet

Answering(j) ==
    /\ download[j].pc = "sent"
    /\ WayTo(j) \in FetchProxy => WayTo(j) \in Running(j)

Redirected ==
    /\ \E j \in Job, h \in Host :
         /\ Answering(j) /\ download[j].left > 0 /\ download[j].kind # "rendered"
         /\ Becomes(j, [download[j] EXCEPT !.pc = "resource", !.host = h, !.left = @ - 1])
    /\ UNCHANGED <<entry, processes, requested>> /\ Quiet

\* A document of the service that is not the one its manifest describes is refused.
Accepted(j) == download[j].manifest = conversion
Answered ==
    /\ \E j \in Job :
         /\ Answering(j)
         /\ IF download[j].kind \in {"remote", "rendered"} /\ download[j].manifest = 0
            THEN /\ Becomes(j, [download[j] EXCEPT !.pc = "resource", !.host = download[j].first,
                                 !.left = MaxRedirects, !.manifest = conversion])
                 /\ UNCHANGED processes
            ELSE Ends(j, [pc |-> "done", manifest |-> download[j].manifest,
                          artifact |-> IF Accepted(j) THEN conversion ELSE 0])
    /\ UNCHANGED <<entry, requested>> /\ Quiet

ResourceFails ==
    /\ \E j \in Job :
         download[j].pc = "sent" /\ Ends(j, [pc |-> "done", manifest |-> 0, artifact |-> 0])
    /\ UNCHANGED <<entry, requested>> /\ Quiet

------------------------------------------------------------------------------
FetchNext ==
    \/ SaveProxy \/ RemoveFetchProxy \/ SaveRules \/ NameProxy \/ ClearCache \/ CacheExpires
    \/ WorldMoves \/ ProxyExits
    \/ BeginSources \/ BeginProviders \/ NothingRead \/ StartNamed \/ StartedAll
    \/ LoadItem \/ DownloadFails \/ Downloaded \/ EndSources
    \/ BeginResource \/ StartRoute \/ RoutesStarted \/ RequestResource \/ Redirected
    \/ Answered \/ ResourceFails

FetchSpec == FetchInit /\ [][FetchNext]_fetchVars

(***************************************************************************)
(* Properties.                                                             *)
(***************************************************************************)
\* "Falling back to a direct request would expose the subscription address": a source that
\* names a proxy is asked through it or not at all, whatever is edited, removed or dies while
\* the download runs.  So is, at each redirect, a resource that goes by the rules, of a host
\* whose rule names a proxy.  Rule providers and the conversions a user renders do not go by
\* the rules, though fetch_proxy_rules.rs:1-3 says that remote subscriptions do and makes no
\* exception: nothing is said of their way but that no proxy was chosen for them.
OnTheirWay ==
    \A j \in Job :
      /\ download[j].pc # "idle" /\ "names" \in DOMAIN download[j] =>
           \A r \in requested[j] :
             /\ download[j].names[r.what] # None => r.via = download[j].names[r.what]
             /\ download[j].names[r.what] = None => r.via \in {"system", "core"}
      /\ "rules" \in DOMAIN download[j] =>
           \A r \in requested[j] :
             r.via = IF download[j].kind = "rendered" THEN "system"
                     ELSE Chosen(download[j].rules, r.what)

\* What is in the cache came through the proxy its key names.
CacheHonest ==
    \A k \in CacheKeys : entry[k] # NoEntry =>
      /\ k[2] # None => entry[k].via = k[2]
      /\ k[2] = None => entry[k].via \in {"system", "core"}

\* Rules name proxies that exist, so that a removal changes the way of no download.
RulesResolve == \A p \in Outbounds(rules) \cap FetchProxy : proxies[p] # "absent"

\* No proxy outlives its download.
ProxiesEnd == \A x \in processes : download[x[1]].pc \notin {"idle", "done"}

\* A conversion that was accepted is the one its manifest described, whatever is published
\* between the two requests.
ArtifactMatches ==
    \A j \in Job : download[j].pc = "done" /\ "artifact" \in DOMAIN download[j] =>
      download[j].artifact \in {0, download[j].manifest}

\* Downloads keep to the way they were given: their own proxy, or the rules where they go by
\* them.
DownloadsKeepTheirWay ==
    OnTheirWay /\ CacheHonest /\ RulesResolve /\ ProxiesEnd /\ ArtifactMatches

===============================================================================
