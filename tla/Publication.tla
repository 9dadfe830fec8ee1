------------------------------ MODULE Publication ------------------------------
(***************************************************************************)
(* Subscriptions of the server and what it publishes of them: the editor's *)
(* optimistic saves (subscriptions.rs), and the public requests            *)
(* (public_api.rs) that read a saved subscription, load its source through *)
(* the snapshot cache (source_cache.rs), compile it (resource_export.rs),  *)
(* persist the artifact and fall back on the last good one.                *)
(*                                                                         *)
(* One subscription with one source.  A request is one statement of the    *)
(* database per step, so that saves, edits of a custom node, changes of    *)
(* the relay policy and other requests fall between any two of them.       *)
(***************************************************************************)
EXTENDS Integers, FiniteSets

CONSTANTS
    Editor, Request,
    Config,           \* what may be saved
    Relayed,          \* the configurations whose source is fetched by relay
    NodeContent,      \* contents of the custom node of the subscription
    MaxClock,         \* bound on the database's clock
    MaxEgress,        \* bound on the revisions of the relay policy
    MaxOrigin,        \* bound on the contents of the origin of the source
    MaxPublicEvents   \* bound on what happens around the requests

ASSUME PublicationAssumption ==
    /\ Relayed \subseteq Config /\ "none" \notin NodeContent
    /\ {MaxClock, MaxEgress, MaxOrigin} \subseteq Nat \ {0} /\ MaxPublicEvents \in Nat

NoSnapshot == [content |-> 0]
NotCompiled == [input |-> <<>>]
Idle == [pc |-> "idle"]

VARIABLES
    saved,       \* the row: version counts the saves, at is updated_at
    nodes,       \* content of the enabled custom node, or "none"
    egress,      \* revision of the relay policy and of its proxies
    clock,       \* of the database
    origin,      \* what the source has now; up: whether it answers
    snapshots,   \* subscription_source_snapshots, by cache key
    artifacts,   \* subscription_artifacts
    compiled,    \* the latest entry of the compile cache
    draft,       \* what each editor has loaded: 0, or the version and its time
    request,
    publicEvents

contextVars == <<saved, nodes, egress, clock, origin, draft, publicEvents>>
storeVars == <<snapshots, artifacts, compiled>>
publicVars == <<contextVars, storeVars, request>>

Event == publicEvents < MaxPublicEvents /\ publicEvents' = publicEvents + 1

PublicInit ==
    /\ \E c \in Config : saved = [version |-> 1, at |-> 1, config |-> c]
    /\ nodes = "none"
    /\ egress = 1 /\ clock = 1 /\ origin = [content |-> 1, up |-> TRUE]
    /\ snapshots = [key \in Config \X (0..MaxEgress) |-> NoSnapshot]
    /\ artifacts = {} /\ compiled = NotCompiled
    /\ draft = [e \in Editor |-> [version |-> 0, at |-> 0]]
    /\ request = [r \in Request |-> Idle] /\ publicEvents = 0

Later(a, b) == IF a > b THEN a ELSE b

-----------------------------------------------------------------------------
(* The editors.  "GREATEST(clock_timestamp(), updated_at + 1 microsecond)" *)
LoadDraft ==
    /\ \E e \in Editor :
        draft' = [draft EXCEPT ![e] = [version |-> saved.version, at |-> saved.at]]
    /\ draft' # draft /\ saved.version > 0
    /\ UNCHANGED <<saved, nodes, egress, clock, origin, publicEvents, storeVars, request>>

NextAtClock(at) == clock  \* a fault: the clock alone
NextAt(at) == Later(clock, at + 1)

SaveDraft ==
    /\ \E e \in Editor, c \in Config :
        /\ draft[e].version > 0 /\ saved.version > 0 /\ draft[e].at = saved.at
        /\ saved' = [version |-> saved.version + 1, at |-> NextAt(saved.at), config |-> c]
        /\ draft' = [draft EXCEPT ![e] = [version |-> saved'.version, at |-> saved'.at]]
    /\ Event
    /\ UNCHANGED <<nodes, egress, clock, origin, storeVars, request>>

RefuseSave ==
    /\ \E e \in Editor :
        /\ draft[e].version > 0 /\ (saved.version = 0 \/ draft[e].at # saved.at)
        /\ draft' = [draft EXCEPT ![e] = [version |-> 0, at |-> 0]]
    /\ UNCHANGED <<saved, nodes, egress, clock, origin, publicEvents, storeVars, request>>

(* Snapshots and artifacts go with the subscription. *)
RemoveSubscription ==
    /\ saved.version > 0 /\ saved' = [saved EXCEPT !.version = 0]
    /\ snapshots' = [key \in DOMAIN snapshots |-> NoSnapshot] /\ artifacts' = {}
    /\ Event
    /\ UNCHANGED <<nodes, egress, clock, origin, compiled, draft, request>>

(* The content of the node, or its assignment, changes the answer without  *)
(* changing updated_at; so does the relay policy.                          *)
ChangeNodes ==
    /\ nodes' \in (NodeContent \cup {"none"}) \ {nodes} /\ Event
    /\ UNCHANGED <<saved, egress, clock, origin, draft, storeVars, request>>

ChangePolicy ==
    /\ egress < MaxEgress /\ egress' = egress + 1 /\ Event
    /\ UNCHANGED <<saved, nodes, clock, origin, draft, storeVars, request>>

(* Time passes, the source changes, fails or comes back.                   *)
Around ==
    /\ \/ clock < MaxClock /\ clock' = clock + 1 /\ UNCHANGED origin
       \/ /\ origin.content < MaxOrigin /\ origin' = [origin EXCEPT !.content = @ + 1]
          /\ UNCHANGED clock
       \/ origin' = [origin EXCEPT !.up = ~@] /\ UNCHANGED clock
    /\ Event
    /\ UNCHANGED <<saved, nodes, egress, draft, storeVars, request>>

Expire ==
    /\ \E key \in DOMAIN snapshots :
        /\ snapshots[key] # NoSnapshot /\ snapshots[key].fresh
        /\ snapshots' = [snapshots EXCEPT ![key].fresh = FALSE]
    /\ Event
    /\ UNCHANGED <<saved, nodes, egress, clock, origin, draft, artifacts, compiled, request>>

-----------------------------------------------------------------------------
(* A public request. *)

Become(r, value) == request' = [request EXCEPT ![r] = value]

(* One repeatable-read snapshot of the row and the selected nodes. *)
Find ==
    /\ \E r \in Request :
        /\ request[r].pc = "idle" /\ saved.version > 0
        /\ Become(r, [pc |-> "found", at |-> saved.at, config |-> saved.config])
    /\ UNCHANGED <<contextVars, storeVars>>

(* prepare_local loads the nodes, revision_hash the policy. *)
Prepare ==
    /\ \E r \in Request :
        /\ request[r].pc = "found"
        /\ Become(r, [pc |-> "prepared", at |-> request[r].at, config |-> request[r].config,
                      node |-> nodes])
    /\ UNCHANGED <<contextVars, storeVars>>

Hash ==
    /\ \E r \in Request :
        /\ request[r].pc = "prepared"
        /\ Become(r, [pc |-> "hashed", at |-> request[r].at, config |-> request[r].config,
                      node |-> request[r].node, egress |-> egress])
    /\ UNCHANGED <<contextVars, storeVars>>

(* The policy is loaded again; a relayed source is cached per policy. *)
SourceKey(config) == <<config, IF config \in Relayed THEN egress ELSE 0>>

Fresh(key) == IF snapshots[key] = NoSnapshot THEN FALSE ELSE snapshots[key].fresh

Lookup ==
    /\ \E r \in Request :
        /\ request[r].pc = "hashed"
        /\ LET key == SourceKey(request[r].config)
               found == snapshots[key]
           IN  Become(r, [pc |-> IF Fresh(key) THEN "loaded" ELSE "fetch",
                          at |-> request[r].at, config |-> request[r].config,
                          node |-> request[r].node, egress |-> request[r].egress, key |-> key,
                          content |-> found.content, stale |-> FALSE,
                          under |-> IF found = NoSnapshot THEN egress ELSE found.under,
                          policy |-> egress])
    /\ UNCHANGED <<contextVars, storeVars>>

Fetch ==
    /\ \E r \in Request :
        /\ request[r].pc = "fetch" /\ origin.up
        /\ Become(r, [request[r] EXCEPT !.pc = "store", !.content = origin.content,
                                       !.under = request[r].policy])
    /\ UNCHANGED <<contextVars, storeVars>>

(* The write fails when the subscription is gone. *)
StoreSnapshot ==
    /\ \E r \in Request :
        /\ request[r].pc = "store"
        /\ IF saved.version > 0
           THEN /\ snapshots' = [snapshots EXCEPT ![request[r].key] =
                     [content |-> request[r].content, under |-> request[r].under, fresh |-> TRUE]]
                /\ Become(r, [request[r] EXCEPT !.pc = "loaded"])
           ELSE Become(r, [request[r] EXCEPT !.pc = "failed"]) /\ UNCHANGED snapshots
    /\ UNCHANGED <<contextVars, artifacts, compiled>>

(* A stale snapshot, or no source at all beside a node of one's own. *)
FetchFails ==
    /\ \E r \in Request :
        /\ request[r].pc = "fetch" /\ ~origin.up
        /\ IF request[r].content = 0 /\ request[r].node = "none"
           THEN Become(r, [request[r] EXCEPT !.pc = "failed"])
           ELSE Become(r, [request[r] EXCEPT !.pc = "loaded", !.stale = TRUE])
    /\ UNCHANGED <<contextVars, storeVars>>

(* The identity of an input: updated_at and all that is compiled. *)
InputUntimed(q) == <<0, q.config, q.node, q.content>>  \* a fault: without updated_at
Input(q) == <<q.at, q.config, q.node, q.content>>
RevisionHash(q) == <<q.at, q.config, q.node, q.egress>>
Compiled(q) == [config |-> q.config, node |-> q.node, content |-> q.content]

CompileCached ==
    /\ \E r \in Request :
        /\ request[r].pc = "loaded"
        /\ LET q == request[r]
               entry == IF compiled.input = Input(q) THEN compiled
                        ELSE [input |-> Input(q), output |-> Compiled(q)]
           IN  /\ compiled' = entry
               /\ Become(r, [pc |-> "persist", at |-> q.at, config |-> q.config,
                             node |-> q.node, egress |-> q.egress, stale |-> q.stale,
                             under |-> q.under, input |-> Input(q), output |-> entry.output])
    /\ UNCHANGED <<contextVars, snapshots, artifacts>>

(* "ON CONFLICT (.., input_hash, content_hash) DO UPDATE SET revision_hash" *)
Conflicts(q) == {a \in artifacts : a.input = q.input /\ a.output = q.output}
Answer(r, artifact, stale) ==
    Become(r, [pc |-> "answered", at |-> request[r].at, config |-> request[r].config,
               node |-> request[r].node, egress |-> request[r].egress,
               artifact |-> artifact, stale |-> stale])

Persist ==
    /\ \E r \in Request :
        /\ request[r].pc = "persist" /\ saved.version > 0
        /\ LET q == request[r]
               old == Conflicts(q)
               at == IF old = {} THEN q.at ELSE (CHOOSE a \in old : TRUE).at
               row == [input |-> q.input, output |-> q.output, at |-> at, under |-> q.under,
                       revision |-> RevisionHash(q)]
           IN  artifacts' = (artifacts \ old) \cup {row} /\ Answer(r, row, q.stale)
    /\ UNCHANGED <<contextVars, snapshots, compiled>>

PersistFails ==
    /\ \E r \in Request :
        /\ request[r].pc = "persist" /\ Become(r, [request[r] EXCEPT !.pc = "failed"])
        /\ IF saved.version > 0 THEN Event ELSE UNCHANGED publicEvents
    /\ UNCHANGED <<saved, nodes, egress, clock, origin, draft, storeVars>>

(* last_good *)
LastGood(q) == {a \in artifacts : a.revision = RevisionHash(q)}

FallBackOnArtifact ==
    /\ \E r \in Request :
        /\ request[r].pc = "failed"
        /\ IF LastGood(request[r]) = {} THEN Become(r, Idle)
           ELSE \E a \in LastGood(request[r]) : Answer(r, a, TRUE)
    /\ UNCHANGED <<contextVars, storeVars>>

Respond ==
    /\ \E r \in Request : request[r].pc = "answered" /\ Become(r, Idle)
    /\ UNCHANGED <<contextVars, storeVars>>

PublicNext ==
    \/ LoadDraft \/ SaveDraft \/ RefuseSave \/ RemoveSubscription
    \/ ChangeNodes \/ ChangePolicy \/ Around \/ Expire
    \/ Find \/ Prepare \/ Hash \/ Lookup \/ Fetch \/ StoreSnapshot \/ FetchFails
    \/ CompileCached \/ Persist \/ PersistFails \/ FallBackOnArtifact \/ Respond

PublicSpec == PublicInit /\ [][PublicNext]_publicVars

-----------------------------------------------------------------------------
(* Properties. *)

(* "Older drafts must report a conflict": a save is applied only to the    *)
(* version its editor has loaded, even when the clock stands still.        *)
EditsBuildOnEachOther ==
    [][saved'.version > saved.version =>
         \E e \in Editor : draft[e].version = saved.version /\ draft'[e] # draft[e]]_publicVars

(* What is answered, compiled now or long ago, was made of the saved       *)
(* revision, the configuration and the node the request has read, and, if  *)
(* its source is relayed, was fetched under no older policy than it found: *)
(* a change of the policy prevents "reuse of a cached result or fallback   *)
(* artifact from the previous policy".                                     *)
Matches(q) ==
    /\ q.artifact.at = q.at
    /\ q.artifact.output.config = q.config /\ q.artifact.output.node = q.node
    /\ q.config \in Relayed /\ q.artifact.output.content # 0 => q.artifact.under >= q.egress
AnswersMatch == \A r \in Request : request[r].pc = "answered" => Matches(request[r])

===============================================================================
