---------------------------- MODULE ExchangeProofs ----------------------------
(***************************************************************************)
(* Proofs about what is stored and fetched: the server's accounts, for any *)
(* number of users, invitations and tabs, its public subscriptions, for    *)
(* any number of editors and requests, and what it loads for them          *)
(* (Sources); on the client, the way of every download (Fetching).         *)
(***************************************************************************)
EXTENDS MCExchanges, FiniteSetTheorems, TLAPS


(***************************************************************************)
(* Accounts: types.                                                        *)
(***************************************************************************)
Registrations ==
    {NotAsked} \cup [pc : {"waiting"}, code : Code \cup {NoCode}]
    \cup [pc : {"counted"}, code : Code \cup {NoCode}, first : BOOLEAN, allowed : BOOLEAN]
Changes ==
    {NoChange} \cup [pc : {"read"}, user : User, prior : Key \cup {NoKey}, key : Key \cup {NoKey}]

AccountsTyped ==
    /\ account \in [User -> Role \cup {"none"}] /\ founders \subseteq User /\ open \in BOOLEAN
    /\ registering \in [User -> Registrations] /\ advisory \subseteq User
    /\ avatarKey \in [User -> Key \cup {NoKey}] /\ avatars \subseteq [id : Key, owner : User]
    /\ change \in [Tab -> Changes]

LEMMA AccountsTypedKept == AccountsTyped /\ [AccountsNext]_accountVars => AccountsTyped'
<1> SUFFICES ASSUME AccountsTyped, [AccountsNext]_accountVars PROVE AccountsTyped'
  OBVIOUS
<1> USE AccountAssumption DEF AccountsTyped, Registrations, Changes, userVars, avatarVars
<1>1. CASE AskToRegister
  BY <1>1 DEF AskToRegister
<1>2. CASE CountUsers
  <2> DEFINE Counted(u) == [pc |-> "counted", code |-> registering[u].code,
                            first |-> Registered = {}, allowed |-> open]
  <2>1. PICK u \in User :
          /\ registering[u].pc = "waiting" /\ advisory' = advisory \cup {u}
          /\ registering' = [registering EXCEPT ![u] = Counted(u)]
    BY <1>2, Zenon DEF CountUsers
  <2>2. registering[u].code \in Code \cup {NoCode} BY <2>1 DEF NotAsked
  <2>3. (Registered = {}) \in BOOLEAN OBVIOUS
  <2>4. Counted(u) \in Registrations BY <2>2, <2>3
  <2> HIDE DEF Counted
  <2> QED BY <1>2, <2>1, <2>4 DEF CountUsers
<1>3. CASE Register
  BY <1>3 DEF Register, EndRegistration, Role
<1>4. CASE RefuseRegistration
  BY <1>4 DEF RefuseRegistration, EndRegistration
<1>5. CASE UpdateSettings
  BY <1>5 DEF UpdateSettings
<1>6. CASE CreateUser
  BY <1>6 DEF CreateUser
<1>7. CASE PatchRole
  BY <1>7 DEF PatchRole
<1>8. CASE DeleteUser
  BY <1>8 DEF DeleteUser
<1>9. CASE ChangeInvitation
  BY <1>9 DEF ChangeInvitation
<1>10. CASE ReadAvatar
  BY <1>10 DEF ReadAvatar, Registered
<1>11. CASE ChangeAvatar
  <2>1. PICK t \in Tab : /\ change[t] # NoChange
                         /\ change' = [change EXCEPT ![t] = NoChange]
                         /\ avatarKey' = [avatarKey EXCEPT ![change[t].user] = change[t].key]
                         /\ avatars' \subseteq avatars \cup
                              (IF change[t].key = NoKey THEN {}
                               ELSE {[id |-> change[t].key, owner |-> change[t].user]})
    BY <1>11 DEF ChangeAvatar
  <2> QED BY <1>11, <2>1 DEF ChangeAvatar
<1>12. CASE AvatarFails
  BY <1>12 DEF AvatarFails
<1>13. CASE UNCHANGED accountVars
  BY <1>13 DEF accountVars
<1> QED BY <1>1, <1>2, <1>3, <1>4, <1>5, <1>6, <1>7, <1>8, <1>9, <1>10, <1>11, <1>12, <1>13
       DEF AccountsNext

(***************************************************************************)
(* Registration: who has counted holds the lock, so that what was counted  *)
(* stays true until the account is there; a superadmin stays one.          *)
(***************************************************************************)
Counting ==
    /\ \A u \in User : registering[u].pc = "counted" => u \in advisory
    /\ \A u, v \in advisory : u = v
    /\ \A u \in User : registering[u].pc = "counted" =>
         IF registering[u].first THEN Registered = {} ELSE Superadmins # {}
    /\ founders \subseteq Superadmins /\ \A u, v \in founders : u = v
    /\ Registered # {} => Superadmins # {}

LEMMA CountingKept ==
    AccountsTyped /\ Counting /\ [AccountsNext]_accountVars => Counting'
<1> SUFFICES ASSUME AccountsTyped, Counting, [AccountsNext]_accountVars PROVE Counting'
  OBVIOUS
<1> USE AccountAssumption
    DEF AccountsTyped, Registrations, Counting, userVars, avatarVars, Registered, Superadmins
<1>1. CASE AskToRegister
  BY <1>1 DEF AskToRegister
<1>2. CASE CountUsers
  <2>1. PICK u \in User :
          /\ advisory = {} /\ advisory' = advisory \cup {u}
          /\ registering' = [registering EXCEPT ![u] =
               [pc |-> "counted", code |-> registering[u].code, first |-> Registered = {},
                allowed |-> open]]
    BY <1>2 DEF CountUsers, AdvisoryFree
  <2>2. \A v \in User : v # u => registering'[v] = registering[v] BY <2>1
  <2>3. registering'[u].pc = "counted" /\ registering'[u].first = (Registered = {}) BY <2>1
  <2> QED BY <1>2, <2>1, <2>2, <2>3 DEF CountUsers
<1>3. CASE Register
  <2>1. PICK u \in User :
          /\ registering[u].pc = "counted" /\ account[u] = "none"
          /\ registering' = [registering EXCEPT ![u] = NotAsked] /\ advisory' = advisory \ {u}
          /\ account' = [account EXCEPT ![u] = IF registering[u].first THEN "superadmin"
                                               ELSE "user"]
          /\ founders' = IF registering[u].first THEN founders \cup {u} ELSE founders
    BY <1>3 DEF Register, EndRegistration, Accepts
  <2>2. \A v \in User : registering'[v].pc # "counted"
    BY <2>1 DEF NotAsked
  <2>3. CASE registering[u].first
    <3>1. founders = {} BY <2>1, <2>3
    <3> QED BY <2>1, <2>2, <2>3, <3>1
  <2>4. CASE ~registering[u].first
    <3>1. Superadmins # {} /\ founders' = founders BY <2>1, <2>4
    <3>2. \A v \in User : v \in Superadmins => v \in Superadmins' BY <2>1, <2>4
    <3> QED BY <2>1, <2>2, <3>1, <3>2
  <2> QED BY <2>3, <2>4
<1>4. CASE RefuseRegistration
  BY <1>4 DEF RefuseRegistration, EndRegistration, NotAsked
<1>5. CASE UpdateSettings
  BY <1>5 DEF UpdateSettings
<1>6. CASE CreateUser
  BY <1>6 DEF CreateUser, Role
<1>7. CASE PatchRole
  BY <1>7 DEF PatchRole, Administrable, Protected, Role
<1>8. CASE DeleteUser
  BY <1>8 DEF DeleteUser, Administrable, Protected, Role
<1>9. CASE ChangeInvitation
  BY <1>9 DEF ChangeInvitation
<1>10. CASE ReadAvatar
  BY <1>10 DEF ReadAvatar
<1>11. CASE ChangeAvatar
  BY <1>11 DEF ChangeAvatar
<1>12. CASE AvatarFails
  BY <1>12 DEF AvatarFails
<1>13. CASE UNCHANGED accountVars
  BY <1>13 DEF accountVars
<1> QED BY <1>1, <1>2, <1>3, <1>4, <1>5, <1>6, <1>7, <1>8, <1>9, <1>10, <1>11, <1>12, <1>13
       DEF AccountsNext

(***************************************************************************)
(* Avatars: the lock on a row keeps the key that was read the one that is  *)
(* stored until the avatar it names is replaced.                           *)
(***************************************************************************)
RowsLocked ==
    /\ \A s, t \in Tab : change[s] # NoChange /\ change[s].user = change[t].user => s = t
    /\ \A t \in Tab : change[t] # NoChange => change[t].prior = avatarKey[change[t].user]
    /\ AvatarsMatch

LEMMA RowsLockedKept ==
    AccountsTyped /\ RowsLocked /\ [AccountsNext]_accountVars => RowsLocked'
<1> SUFFICES ASSUME AccountsTyped, RowsLocked, [AccountsNext]_accountVars PROVE RowsLocked'
  OBVIOUS
<1> USE AccountAssumption DEF AccountsTyped, RowsLocked, avatarVars
<1>1. ASSUME UNCHANGED avatarVars PROVE RowsLocked'
  BY <1>1 DEF AvatarsMatch
<1>8. CASE DeleteUser
  <2>1. PICK u \in User : /\ \A t \in Tab : change[t].user # u
                          /\ avatarKey' = [avatarKey EXCEPT ![u] = NoKey]
                          /\ avatars' = {a \in avatars : a.owner # u}
                          /\ change' = change
    BY <1>8 DEF DeleteUser, Unlocked
  <2>2. AvatarsMatch'
    <3> SUFFICES ASSUME NEW v \in User
                 PROVE {a \in avatars' : a.owner = v} =
                         IF avatarKey'[v] = NoKey THEN {}
                         ELSE {[id |-> avatarKey'[v], owner |-> v]}
      BY DEF AvatarsMatch
    <3>1. CASE v = u BY <2>1, <3>1
    <3>2. CASE v # u
      <4>1. {a \in avatars' : a.owner = v} = {a \in avatars : a.owner = v} BY <2>1, <3>2
      <4> QED BY <2>1, <3>2, <4>1 DEF AvatarsMatch
    <3> QED BY <3>1, <3>2
  <2> QED BY <2>1, <2>2 DEF Changes, NoChange
<1>10. CASE ReadAvatar
  <2>1. PICK t \in Tab, u \in User, k \in Key \cup {NoKey} :
          /\ change[t] = NoChange /\ \A s \in Tab : change[s].user # u
          /\ change' = [change EXCEPT ![t] =
               [pc |-> "read", user |-> u, prior |-> avatarKey[u], key |-> k]]
          /\ UNCHANGED <<avatarKey, avatars>>
    BY <1>10 DEF ReadAvatar, AvatarRowFree, Unlocked, Registered
  <2>2. AvatarsMatch' BY <2>1 DEF AvatarsMatch
  <2> QED BY <2>1, <2>2 DEF Changes, NoChange
<1>11. CASE ChangeAvatar
  <2>1. PICK t \in Tab :
          LET q == change[t]
              kept == {a \in avatars : ~(a.id = q.prior /\ a.owner = q.user)}
          IN  /\ q # NoChange
              /\ avatarKey' = [avatarKey EXCEPT ![q.user] = q.key]
              /\ avatars' = IF q.key = NoKey THEN kept
                            ELSE kept \cup {[id |-> q.key, owner |-> q.user]}
              /\ change' = [change EXCEPT ![t] = NoChange]
    BY <1>11 DEF ChangeAvatar
  <2> DEFINE u == change[t].user
             key == change[t].key
  <2>2. u \in User /\ key \in Key \cup {NoKey} /\ change[t].prior = avatarKey[u]
    BY <2>1 DEF Changes
  <2>3. AvatarsMatch'
    <3> SUFFICES ASSUME NEW v \in User
                 PROVE {a \in avatars' : a.owner = v} =
                         IF avatarKey'[v] = NoKey THEN {}
                         ELSE {[id |-> avatarKey'[v], owner |-> v]}
      BY DEF AvatarsMatch
    <3>1. CASE v = u
      <4>1. avatarKey'[v] = key BY <2>1, <2>2, <3>1
      <4>2. \A a \in avatars : a.owner = u => a.id = avatarKey[u]
        BY <2>2 DEF AvatarsMatch
      <4>3. \A a \in avatars' : a.owner = u =>
              key # NoKey /\ a = [id |-> key, owner |-> u]
        BY <2>1, <2>2, <4>2
      <4>4. key # NoKey => [id |-> key, owner |-> u] \in avatars' BY <2>1
      <4> QED BY <3>1, <4>1, <4>3, <4>4
    <3>2. CASE v # u
      <4>1. {a \in avatars' : a.owner = v} = {a \in avatars : a.owner = v}
        BY <2>1, <3>2
      <4> QED BY <2>1, <2>2, <3>2, <4>1 DEF AvatarsMatch
    <3> QED BY <3>1, <3>2
  <2> QED BY <2>1, <2>2, <2>3 DEF Changes, NoChange
<1>12. CASE AvatarFails
  BY <1>12 DEF AvatarFails, AvatarsMatch, Changes, NoChange
<1> QED BY <1>1, <1>8, <1>10, <1>11, <1>12
       DEF AccountsNext, accountVars, AskToRegister, CountUsers, Register, RefuseRegistration,
           UpdateSettings, CreateUser, PatchRole, ChangeInvitation

(* However many register, are administered and change their avatars at     *)
(* once: one founder, always a superadmin, and every avatar is the one its *)
(* account names (auth.rs, admin_api.rs, account_api.rs).                  *)
THEOREM AccountsAlwaysAgree == AccountsSpec => []AccountsAgree
<1> DEFINE Inv == AccountsTyped /\ Counting /\ RowsLocked
<1>1. AccountsInit => Inv
  BY AccountAssumption
     DEF AccountsInit, AccountsTyped, Registrations, Changes, Counting, RowsLocked, AvatarsMatch,
         Registered, Superadmins, NotAsked, NoChange
<1>2. Inv /\ [AccountsNext]_accountVars => Inv'
  BY AccountsTypedKept, CountingKept, RowsLockedKept
<1>3. Inv => AccountsAgree
  <2> SUFFICES ASSUME Inv PROVE Cardinality(founders) <= 1
    BY DEF RowsLocked, Counting, AccountsAgree, Founded
  <2>1. CASE founders = {}
    BY <2>1, FS_EmptySet
  <2>2. CASE founders # {}
    <3>1. PICK u \in founders : TRUE BY <2>2
    <3>2. founders = {u} BY <3>1 DEF Counting
    <3>3. Cardinality(founders) = 1 BY <3>2, FS_Singleton, Zenon
    <3> QED BY <3>3
  <2> QED BY <2>1, <2>2
<1> QED BY <1>1, <1>2, <1>3, PTL DEF AccountsSpec

(***************************************************************************)
(* Publication: the editors.                                               *)
(***************************************************************************)
Drafts ==
    /\ saved \in [version : Nat, at : Nat, config : Config]
    /\ clock \in Nat
    /\ draft \in [Editor -> [version : Nat, at : Nat]]
    /\ \A e \in Editor : draft[e].version > 0 =>
         /\ draft[e].at <= saved.at
         /\ draft[e].at = saved.at /\ saved.version > 0 => draft[e].version = saved.version

\* A save moves updated_at, so that every other draft is older from then on.
LEMMA DraftsKept ==
    Drafts /\ [PublicNext]_publicVars =>
      /\ Drafts'
      /\ saved'.version > saved.version =>
           \E e \in Editor : draft[e].version = saved.version /\ draft'[e] # draft[e]
<1> SUFFICES ASSUME Drafts, [PublicNext]_publicVars
             PROVE /\ Drafts'
                   /\ saved'.version > saved.version =>
                        \E e \in Editor : draft[e].version = saved.version /\ draft'[e] # draft[e]
  OBVIOUS
<1> USE DEF Drafts
<1>1. CASE LoadDraft
  BY <1>1 DEF LoadDraft
<1>2. CASE SaveDraft
  <2>1. PICK e \in Editor, c \in Config :
          /\ draft[e].version > 0 /\ saved.version > 0 /\ draft[e].at = saved.at
          /\ saved' = [version |-> saved.version + 1, at |-> NextAt(saved.at), config |-> c]
          /\ draft' = [draft EXCEPT ![e] = [version |-> saved'.version, at |-> saved'.at]]
    BY <1>2 DEF SaveDraft
  <2>2. NextAt(saved.at) \in Nat /\ NextAt(saved.at) > saved.at BY DEF NextAt, Later
  <2>3. clock' = clock BY <1>2 DEF SaveDraft
  <2>4. draft'[e] # draft[e] BY <2>1
  <2>5. \A d \in Editor : d # e => draft'[d] = draft[d] BY <2>1
  <2> QED BY <2>1, <2>2, <2>3, <2>4, <2>5
<1>3. CASE RefuseSave
  BY <1>3 DEF RefuseSave
<1>4. CASE RemoveSubscription
  BY <1>4 DEF RemoveSubscription
<1>5. CASE Around
  BY <1>5 DEF Around
<1>6. ASSUME UNCHANGED <<saved, clock, draft>>
      PROVE Drafts' /\ saved' = saved
  BY <1>6
<1>7. CASE ChangeNodes \/ ChangePolicy \/ Expire \/ PersistFails
  BY <1>6, <1>7 DEF ChangeNodes, ChangePolicy, Expire, PersistFails
<1>8. ASSUME UNCHANGED contextVars PROVE Drafts' /\ saved' = saved
  BY <1>6, <1>8 DEF contextVars
<1>9. CASE \/ Find \/ Prepare \/ Hash \/ Lookup \/ Fetch \/ StoreSnapshot \/ FetchFails
           \/ CompileCached \/ Persist \/ FallBackOnArtifact \/ Respond
           \/ UNCHANGED publicVars
  <2>1. UNCHANGED contextVars
    BY <1>9, Zenon DEF Find, Prepare, Hash, Lookup, Fetch, StoreSnapshot, FetchFails,
       CompileCached, Persist, FallBackOnArtifact, Respond, publicVars
  <2> QED BY <1>8, <2>1
<1> QED BY <1>1, <1>2, <1>3, <1>4, <1>5, <1>7, <1>9, Zenon DEF PublicNext

(* For any number of editors, even while the clock stands still, a save   *)
(* replaces the version its editor has loaded                              *)
(* (subscriptions.rs).                                                     *)
THEOREM EditsAlwaysBuild == PublicSpec => EditsBuildOnEachOther
<1>1. PublicInit => Drafts
  BY DEF PublicInit, Drafts
<1>2. Drafts /\ [PublicNext]_publicVars =>
        /\ Drafts'
        /\ [saved'.version > saved.version =>
              \E e \in Editor : draft[e].version = saved.version /\ draft'[e] # draft[e]]_publicVars
  BY DraftsKept
<1> QED BY <1>1, <1>2, PTL DEF PublicSpec, EditsBuildOnEachOther

(***************************************************************************)
(* Publication: what is stored, and what a request holds at each stage.    *)
(***************************************************************************)
Nodes == NodeContent \cup {"none"}
Revisions == Nat \X Config \X Nodes \X Nat
Outputs == [config : Config, node : Nodes, content : Nat]
Artifacts == [input : Revisions, output : Outputs, at : Nat, under : Nat, revision : Revisions]
SourceKeys == Config \X (0..MaxEgress)

\* An artifact is found again by its revision, or by its input; both tell what it is made of.
MadeAsNamed(a) ==
    /\ a.input = <<a.at, a.output.config, a.output.node, a.output.content>>
    /\ a.revision = <<a.at, a.output.config, a.output.node, a.revision[4]>>
    /\ a.output.config \in Relayed /\ a.output.content # 0 => a.under >= a.revision[4]

Stored ==
    /\ saved \in [version : Nat, at : Nat, config : Config] /\ nodes \in Nodes
    /\ egress \in 1..MaxEgress /\ clock \in Nat /\ origin \in [content : Nat, up : BOOLEAN]
    /\ snapshots \in
         [SourceKeys -> {NoSnapshot} \cup [content : Nat, under : Nat, fresh : BOOLEAN]]
    /\ \A c \in Relayed, p \in 0..MaxEgress :
         snapshots[<<c, p>>] # NoSnapshot => snapshots[<<c, p>>].under >= p
    /\ artifacts \subseteq Artifacts /\ \A a \in artifacts : MadeAsNamed(a)
    /\ compiled \in {NotCompiled} \cup [input : Revisions, output : Outputs]
    /\ compiled # NotCompiled =>
         compiled.output = [config |-> compiled.input[2], node |-> compiled.input[3],
                            content |-> compiled.input[4]]

PublicLoads ==
    [pc : {"fetch", "store", "loaded", "failed"}, at : Nat, config : Config, node : Nodes,
     egress : Nat, key : SourceKeys, content : Nat, stale : BOOLEAN, under : Nat, policy : Nat]
Persisting ==
    [pc : {"persist", "failed"}, at : Nat, config : Config, node : Nodes, egress : Nat,
     stale : BOOLEAN, under : Nat, input : Revisions, output : Outputs]
PublicStages ==
    {Idle} \cup [pc : {"found"}, at : Nat, config : Config]
    \cup [pc : {"prepared"}, at : Nat, config : Config, node : Nodes]
    \cup [pc : {"hashed"}, at : Nat, config : Config, node : Nodes, egress : Nat]
    \cup PublicLoads \cup Persisting
    \cup [pc : {"answered"}, at : Nat, config : Config, node : Nodes, egress : Nat,
          artifact : Artifacts, stale : BOOLEAN]

\* The policy was read for the revision first and for the source afterwards: what comes of the
\* source was fetched under no older one.
Traced(q, e) ==
    /\ q.pc = "hashed" => q.egress <= e
    /\ q.pc \in {"fetch", "store", "loaded"} =>
         /\ q.egress <= q.policy
         /\ q.key = <<q.config, IF q.config \in Relayed THEN q.policy ELSE 0>>
         /\ q.config \in Relayed /\ q.content # 0 => q.under >= q.policy
         /\ q.pc = "store" => q.under = q.policy
    /\ q.pc = "persist" =>
         /\ q.input = <<q.at, q.config, q.node, q.output.content>>
         /\ q.output.config = q.config /\ q.output.node = q.node
         /\ q.config \in Relayed /\ q.output.content # 0 => q.under >= q.egress
    /\ q.pc = "answered" => Matches(q)

PublicInv ==
    /\ Stored /\ request \in [Request -> PublicStages]
    /\ \A r \in Request : Traced(request[r], egress)

LEMMA MovesOn ==
    ASSUME NEW r \in Request, NEW q, PublicInv, Stored', Become(r, q), q \in PublicStages,
           Traced(q, egress'), egress' >= egress
    PROVE  PublicInv'
<1>1. request' = [request EXCEPT ![r] = q] BY DEF Become
<1>2. request' \in [Request -> PublicStages] /\ Traced(request'[r], egress') BY <1>1 DEF PublicInv
<1>3. ASSUME NEW s \in Request, s # r PROVE Traced(request'[s], egress')
  <2>1. request'[s] = request[s] /\ request[s] \in PublicStages /\ Traced(request[s], egress)
    BY <1>1, <1>3 DEF PublicInv
  <2>2. request[s].pc = "hashed" => request[s].egress \in Nat
    BY <2>1 DEF PublicStages, PublicLoads, Persisting, Idle
  <2>3. egress \in Nat /\ egress' \in Nat BY PublicationAssumption DEF PublicInv, Stored
  <2> QED BY <2>1, <2>2, <2>3 DEF Traced, Matches
<1> QED BY <1>2, <1>3 DEF PublicInv

LEMMA Waits ==
    PublicInv /\ Stored' /\ UNCHANGED request /\ egress' >= egress => PublicInv'
<1> SUFFICES ASSUME PublicInv, Stored', UNCHANGED request, egress' >= egress,
                    NEW s \in Request
             PROVE Traced(request[s], egress')
  BY DEF PublicInv
<1>1. request[s] \in PublicStages /\ Traced(request[s], egress) BY DEF PublicInv
<1>2. request[s].pc = "hashed" => request[s].egress \in Nat
  BY <1>1 DEF PublicStages, PublicLoads, Persisting, Idle
<1>3. egress \in Nat /\ egress' \in Nat BY PublicationAssumption DEF PublicInv, Stored
<1> QED BY <1>1, <1>2, <1>3 DEF Traced, Matches

\* What happens around the requests.
LEMMA ContextKept ==
    ASSUME PublicInv,
           \/ LoadDraft \/ SaveDraft \/ RefuseSave \/ RemoveSubscription \/ ChangeNodes
           \/ ChangePolicy \/ Around \/ Expire \/ UNCHANGED publicVars
    PROVE  PublicInv'
<1> USE PublicationAssumption
<1>1. egress \in Nat /\ MaxEgress \in Nat BY DEF PublicInv, Stored
<1>2. CASE LoadDraft \/ RefuseSave \/ UNCHANGED publicVars
  <2>1. UNCHANGED <<saved, nodes, egress, clock, origin, storeVars, request>>
    BY <1>2 DEF LoadDraft, RefuseSave, publicVars, contextVars
  <2>2. Stored' BY <2>1 DEF PublicInv, Stored, storeVars
  <2> QED BY <1>1, <2>1, <2>2, Waits
<1>3. CASE SaveDraft
  <2>1. saved' \in [version : Nat, at : Nat, config : Config]
    BY <1>3 DEF SaveDraft, NextAt, Later, PublicInv, Stored
  <2>2. UNCHANGED <<nodes, egress, clock, origin, storeVars, request>>
    BY <1>3 DEF SaveDraft
  <2>3. Stored' BY <2>1, <2>2 DEF PublicInv, Stored, storeVars
  <2> QED BY <1>1, <2>2, <2>3, Waits
<1>4. CASE RemoveSubscription
  <2>1. saved' \in [version : Nat, at : Nat, config : Config] /\ artifacts' = {}
    BY <1>4 DEF RemoveSubscription, PublicInv, Stored
  <2>2. snapshots' = [key \in SourceKeys |-> NoSnapshot]
    BY <1>4 DEF RemoveSubscription, PublicInv, Stored
  <2>3. UNCHANGED <<nodes, egress, clock, origin, compiled>> BY <1>4 DEF RemoveSubscription
  <2>4. \A c \in Relayed, p \in 0..MaxEgress : snapshots'[<<c, p>>] = NoSnapshot
    BY <2>2 DEF SourceKeys
  <2>5. Stored' BY <2>1, <2>2, <2>3, <2>4 DEF PublicInv, Stored
  <2> QED BY <1>1, <1>4, <2>5, Waits DEF RemoveSubscription
<1>5. CASE ChangeNodes
  <2>1. Stored' BY <1>5 DEF ChangeNodes, PublicInv, Stored, storeVars, Nodes
  <2> QED BY <1>1, <1>5, <2>1, Waits DEF ChangeNodes
<1>6. CASE ChangePolicy
  <2>1. Stored' BY <1>1, <1>6 DEF ChangePolicy, PublicInv, Stored, storeVars
  <2> QED BY <1>1, <1>6, <2>1, Waits DEF ChangePolicy
<1>7. CASE Around
  <2>1. origin' \in [content : Nat, up : BOOLEAN] /\ clock' \in Nat
    <3>1. CASE origin' = origin BY <1>7, <3>1 DEF Around, PublicInv, Stored
    <3>2. CASE origin' = [origin EXCEPT !.content = @ + 1] /\ clock' = clock
      BY <3>2 DEF PublicInv, Stored
    <3>3. CASE origin' = [origin EXCEPT !.up = ~@] /\ clock' = clock
      <4>1. (~origin.up) \in BOOLEAN OBVIOUS
      <4> QED BY <3>3, <4>1 DEF PublicInv, Stored
    <3> QED BY <1>7, <3>1, <3>2, <3>3 DEF Around
  <2>2. UNCHANGED <<saved, nodes, egress, storeVars, request>> BY <1>7 DEF Around
  <2>3. Stored' BY <2>1, <2>2 DEF PublicInv, Stored, storeVars
  <2> QED BY <1>1, <2>2, <2>3, Waits
<1>8. CASE Expire
  <2>1. PICK key \in SourceKeys :
          /\ snapshots[key] # NoSnapshot
          /\ snapshots' = [snapshots EXCEPT ![key].fresh = FALSE]
    BY <1>8 DEF Expire, PublicInv, Stored
  <2>2. snapshots[key] \in [content : Nat, under : Nat, fresh : BOOLEAN]
    BY <2>1 DEF PublicInv, Stored
  <2>3. /\ snapshots'[key] \in [content : Nat, under : Nat, fresh : BOOLEAN]
        /\ snapshots'[key].under = snapshots[key].under
        /\ \A k \in SourceKeys : k # key => snapshots'[k] = snapshots[k]
    BY <2>1, <2>2 DEF PublicInv, Stored
  <2>4. UNCHANGED <<saved, nodes, egress, clock, origin, artifacts, compiled, request>>
    BY <1>8 DEF Expire
  <2>5. \A c \in Relayed, p \in 0..MaxEgress :
          snapshots'[<<c, p>>] # NoSnapshot => snapshots'[<<c, p>>].under >= p
    <3> SUFFICES ASSUME NEW c \in Relayed, NEW p \in 0..MaxEgress,
                        snapshots'[<<c, p>>] # NoSnapshot
                 PROVE  snapshots'[<<c, p>>].under >= p
      OBVIOUS
    <3>1. <<c, p>> \in SourceKeys BY DEF SourceKeys
    <3> QED BY <2>1, <2>3, <3>1 DEF PublicInv, Stored
  <2>6. Stored' BY <2>1, <2>2, <2>3, <2>4, <2>5 DEF PublicInv, Stored
  <2> QED BY <1>1, <2>4, <2>6, Waits
<1> QED BY <1>2, <1>3, <1>4, <1>5, <1>6, <1>7, <1>8

\* A request up to the source it has loaded.
LEMMA LoadingKept ==
    ASSUME PublicInv, Find \/ Prepare \/ Hash \/ Lookup \/ Fetch \/ FetchFails
    PROVE  PublicInv'
<1> USE PublicationAssumption
<1>0. UNCHANGED <<contextVars, storeVars>>
  BY Zenon DEF Find, Prepare, Hash, Lookup, Fetch, FetchFails
<1>1. /\ egress \in Nat /\ MaxEgress \in Nat /\ UNCHANGED <<contextVars, storeVars>>
      /\ egress' = egress
  BY <1>0 DEF PublicInv, Stored, contextVars
<1>2. Stored' BY <1>1 DEF PublicInv, Stored, contextVars, storeVars
<1>3. CASE Find
  <2>1. PICK r \in Request :
          Become(r, [pc |-> "found", at |-> saved.at, config |-> saved.config])
    BY <1>3 DEF Find
  <2>2. [pc |-> "found", at |-> saved.at, config |-> saved.config] \in PublicStages
    BY DEF PublicInv, Stored, PublicStages
  <2> QED BY <1>1, <1>2, <2>1, <2>2, MovesOn DEF Traced
<1>4. CASE Prepare
  <2>1. PICK r \in Request : /\ request[r].pc = "found"
                             /\ Become(r, [pc |-> "prepared", at |-> request[r].at,
                                           config |-> request[r].config, node |-> nodes])
    BY <1>4 DEF Prepare
  <2>2. request[r] \in [pc : {"found"}, at : Nat, config : Config]
    BY <2>1 DEF PublicInv, PublicStages, PublicLoads, Persisting, Idle
  <2>3. [pc |-> "prepared", at |-> request[r].at, config |-> request[r].config,
         node |-> nodes] \in PublicStages
    BY <2>2 DEF PublicInv, Stored, PublicStages
  <2> QED BY <1>1, <1>2, <2>1, <2>3, MovesOn DEF Traced
<1>5. CASE Hash
  <2>1. PICK r \in Request :
          /\ request[r].pc = "prepared"
          /\ Become(r, [pc |-> "hashed", at |-> request[r].at, config |-> request[r].config,
                        node |-> request[r].node, egress |-> egress])
    BY <1>5 DEF Hash
  <2>2. request[r] \in [pc : {"prepared"}, at : Nat, config : Config, node : Nodes]
    BY <2>1 DEF PublicInv, PublicStages, PublicLoads, Persisting, Idle
  <2>3. [pc |-> "hashed", at |-> request[r].at, config |-> request[r].config,
         node |-> request[r].node, egress |-> egress] \in PublicStages
    BY <1>1, <2>2 DEF PublicStages
  <2> QED BY <1>1, <1>2, <2>1, <2>3, MovesOn DEF Traced
<1>6. CASE Lookup
  <2> DEFINE Q(r) == LET key == SourceKey(request[r].config)
                         found == snapshots[key]
                     IN  [pc |-> IF Fresh(key) THEN "loaded" ELSE "fetch",
                          at |-> request[r].at, config |-> request[r].config,
                          node |-> request[r].node, egress |-> request[r].egress, key |-> key,
                          content |-> found.content, stale |-> FALSE,
                          under |-> IF found = NoSnapshot THEN egress ELSE found.under,
                          policy |-> egress]
  <2>1. PICK r \in Request : request[r].pc = "hashed" /\ Become(r, Q(r))
    BY <1>6 DEF Lookup
  <2>2. /\ request[r] \in [pc : {"hashed"}, at : Nat, config : Config, node : Nodes,
                           egress : Nat]
        /\ request[r].egress <= egress
    BY <2>1 DEF PublicInv, PublicStages, PublicLoads, Persisting, Idle, Traced
  <2> DEFINE c == request[r].config
             key == SourceKey(c)
  <2>3. key \in SourceKeys /\ key = <<c, IF c \in Relayed THEN egress ELSE 0>>
    BY <1>1, <2>2 DEF SourceKey, SourceKeys, PublicInv, Stored
  <2>4. snapshots[key] \in {NoSnapshot} \cup [content : Nat, under : Nat, fresh : BOOLEAN]
    BY <2>3 DEF PublicInv, Stored
  <2>5. c \in Relayed /\ snapshots[key] # NoSnapshot => snapshots[key].under >= egress
    BY <2>3 DEF PublicInv, Stored
  <2>6. /\ snapshots[key].content \in Nat
        /\ snapshots[key] = NoSnapshot => snapshots[key].content = 0
    BY <2>4 DEF NoSnapshot
  <2>7. (IF snapshots[key] = NoSnapshot THEN egress ELSE snapshots[key].under) \in Nat
    BY <1>1, <2>4
  <2>8. Q(r) \in PublicLoads /\ Q(r).pc \in {"loaded", "fetch"}
    <3>1. (IF Fresh(key) THEN "loaded" ELSE "fetch") \in {"loaded", "fetch"} OBVIOUS
    <3> QED BY <1>1, <2>2, <2>3, <2>6, <2>7, <3>1 DEF PublicLoads
  <2>9. Traced(Q(r), egress') BY <1>1, <2>2, <2>3, <2>5, <2>6, <2>8 DEF Traced
  <2> HIDE DEF Q
  <2> QED BY <1>1, <1>2, <2>1, <2>8, <2>9, MovesOn DEF PublicStages
<1>7. CASE Fetch
  <2> DEFINE Q(r) == [request[r] EXCEPT !.pc = "store", !.content = origin.content,
                                        !.under = request[r].policy]
  <2>1. PICK r \in Request : request[r].pc = "fetch" /\ Become(r, Q(r))
    BY <1>7 DEF Fetch
  <2>2. request[r] \in PublicLoads /\ Traced(request[r], egress)
    BY <2>1 DEF PublicInv, PublicStages, PublicLoads, Persisting, Idle
  <2>3. origin.content \in Nat BY DEF PublicInv, Stored
  <2>4. Q(r) \in PublicLoads BY <2>2, <2>3 DEF PublicLoads
  <2>5. Q(r).pc = "store" /\ Q(r).under = request[r].policy /\ Q(r).policy = request[r].policy
        /\ Q(r).egress = request[r].egress /\ Q(r).key = request[r].key
        /\ Q(r).config = request[r].config
    BY <2>2 DEF PublicLoads
  <2>6. request[r].policy \in Nat BY <2>2 DEF PublicLoads
  <2>7. Traced(Q(r), egress') BY <2>1, <2>2, <2>5, <2>6 DEF Traced
  <2> HIDE DEF Q
  <2> QED BY <1>1, <1>2, <2>1, <2>4, <2>7, MovesOn DEF PublicStages
<1>8. CASE FetchFails
  <2>1. PICK r \in Request : /\ request[r].pc = "fetch"
                             /\ \/ Become(r, [request[r] EXCEPT !.pc = "failed"])
                                \/ Become(r, [request[r] EXCEPT !.pc = "loaded", !.stale = TRUE])
    BY <1>8 DEF FetchFails
  <2>2. request[r] \in PublicLoads /\ Traced(request[r], egress)
    BY <2>1 DEF PublicInv, PublicStages, PublicLoads, Persisting, Idle
  <2>3. /\ [request[r] EXCEPT !.pc = "failed"] \in PublicLoads
        /\ Traced([request[r] EXCEPT !.pc = "failed"], egress')
    BY <1>1, <2>1, <2>2 DEF PublicLoads, Traced
  <2>4. /\ [request[r] EXCEPT !.pc = "loaded", !.stale = TRUE] \in PublicLoads
        /\ Traced([request[r] EXCEPT !.pc = "loaded", !.stale = TRUE], egress')
    BY <1>1, <2>1, <2>2 DEF PublicLoads, Traced
  <2> QED BY <1>1, <1>2, <2>1, <2>3, <2>4, MovesOn DEF PublicStages
<1> QED BY <1>3, <1>4, <1>5, <1>6, <1>7, <1>8

\* A request that stores, compiles and answers.
LEMMA AnsweringKept ==
    ASSUME PublicInv,
           StoreSnapshot \/ CompileCached \/ Persist \/ PersistFails \/ FallBackOnArtifact
           \/ Respond
    PROVE  PublicInv'
<1> USE PublicationAssumption
<1>0. UNCHANGED <<saved, nodes, egress, clock, origin, draft>>
  BY Zenon DEF StoreSnapshot, CompileCached, Persist, PersistFails, FallBackOnArtifact, Respond,
               contextVars
<1>1. egress \in Nat /\ MaxEgress \in Nat /\ egress' = egress
  BY <1>0 DEF PublicInv, Stored
<1>2. ASSUME UNCHANGED storeVars PROVE Stored'
  BY <1>0, <1>2 DEF PublicInv, Stored, storeVars
<1>3. CASE StoreSnapshot
  <2> DEFINE V(q) == [content |-> q.content, under |-> q.under, fresh |-> TRUE]
  <2>1. PICK r \in Request :
          /\ request[r].pc = "store"
          /\ \/ /\ snapshots' = [snapshots EXCEPT ![request[r].key] = V(request[r])]
                /\ Become(r, [request[r] EXCEPT !.pc = "loaded"])
             \/ Become(r, [request[r] EXCEPT !.pc = "failed"]) /\ UNCHANGED snapshots
    BY <1>3 DEF StoreSnapshot
  <2> DEFINE q == request[r]
  <2>2. q \in PublicLoads /\ Traced(q, egress)
    BY <2>1 DEF PublicInv, PublicStages, PublicLoads, Persisting, Idle
  <2>3. UNCHANGED <<artifacts, compiled>> BY <1>3 DEF StoreSnapshot
  <2>4. CASE snapshots' = [snapshots EXCEPT ![q.key] = V(q)]
             /\ Become(r, [q EXCEPT !.pc = "loaded"])
    <3>1. /\ q.key \in SourceKeys /\ q.policy \in Nat /\ q.under = q.policy
          /\ q.key = <<q.config, IF q.config \in Relayed THEN q.policy ELSE 0>>
      BY <2>1, <2>2 DEF PublicLoads, Traced
    <3>2. V(q) \in [content : Nat, under : Nat, fresh : BOOLEAN] BY <2>2 DEF PublicLoads
    <3>3. \A c \in Relayed, p \in 0..MaxEgress :
            snapshots'[<<c, p>>] # NoSnapshot => snapshots'[<<c, p>>].under >= p
      <4> SUFFICES ASSUME NEW c \in Relayed, NEW p \in 0..MaxEgress,
                          snapshots'[<<c, p>>] # NoSnapshot
                   PROVE  snapshots'[<<c, p>>].under >= p
        OBVIOUS
      <4>1. <<c, p>> \in SourceKeys BY DEF SourceKeys
      <4>2. CASE <<c, p>> = q.key
        <5>1. c = q.config /\ p = q.policy BY <3>1, <4>2
        <5>2. snapshots'[<<c, p>>] = V(q) BY <2>4, <4>1, <4>2 DEF PublicInv, Stored
        <5> QED BY <3>1, <5>1, <5>2
      <4>3. CASE <<c, p>> # q.key
        BY <2>4, <4>1, <4>3 DEF PublicInv, Stored
      <4> QED BY <4>2, <4>3
    <3>4. Stored' BY <1>0, <2>3, <2>4, <3>1, <3>2, <3>3 DEF PublicInv, Stored
    <3>5. [q EXCEPT !.pc = "loaded"] \in PublicLoads /\ Traced([q EXCEPT !.pc = "loaded"], egress')
      BY <1>1, <2>1, <2>2 DEF PublicLoads, Traced
    <3> QED BY <1>1, <2>4, <3>4, <3>5, MovesOn DEF PublicStages
  <2>5. CASE Become(r, [q EXCEPT !.pc = "failed"]) /\ UNCHANGED snapshots
    <3>1. Stored' BY <1>2, <2>3, <2>5 DEF storeVars
    <3>2. [q EXCEPT !.pc = "failed"] \in PublicLoads /\ Traced([q EXCEPT !.pc = "failed"], egress')
      BY <2>2 DEF PublicLoads, Traced
    <3> QED BY <1>1, <2>5, <3>1, <3>2, MovesOn DEF PublicStages
  <2> QED BY <2>1, <2>4, <2>5
<1>4. CASE CompileCached
  <2> DEFINE E(q) == IF compiled.input = Input(q) THEN compiled
                     ELSE [input |-> Input(q), output |-> Compiled(q)]
             Q(q) == [pc |-> "persist", at |-> q.at, config |-> q.config,
                      node |-> q.node, egress |-> q.egress, stale |-> q.stale,
                      under |-> q.under, input |-> Input(q), output |-> E(q).output]
  <2>1. PICK r \in Request : /\ request[r].pc = "loaded" /\ compiled' = E(request[r])
                             /\ Become(r, Q(request[r]))
    BY <1>4 DEF CompileCached
  <2> DEFINE q == request[r]
  <2>2. q \in PublicLoads /\ Traced(q, egress)
    BY <2>1 DEF PublicInv, PublicStages, PublicLoads, Persisting, Idle
  <2>3. Input(q) \in Revisions /\ Compiled(q) \in Outputs
    BY <2>2 DEF Input, Compiled, Revisions, Outputs, PublicLoads
  <2>4. Input(q) # <<>> BY DEF Input
  <2>5. E(q) = [input |-> Input(q), output |-> Compiled(q)]
    <3>1. CASE compiled.input = Input(q)
      <4>1. compiled # NotCompiled BY <2>4, <3>1 DEF NotCompiled
      <4>2. compiled \in [input : Revisions, output : Outputs]
        BY <4>1 DEF PublicInv, Stored
      <4>3. compiled.output = Compiled(q)
        BY <3>1, <4>1 DEF PublicInv, Stored, Input, Compiled
      <4> QED BY <3>1, <4>2, <4>3
    <3> QED BY <3>1
  <2>6. UNCHANGED <<snapshots, artifacts>> BY <1>4 DEF CompileCached
  <2>7. compiled'.output = [config |-> compiled'.input[2], node |-> compiled'.input[3],
                            content |-> compiled'.input[4]]
    BY <2>1, <2>5 DEF Input, Compiled
  <2>8. compiled' \in [input : Revisions, output : Outputs] BY <2>1, <2>3, <2>5
  <2>9. Stored' BY <1>0, <2>6, <2>7, <2>8 DEF PublicInv, Stored
  <2>10. Q(q) \in Persisting BY <2>2, <2>3, <2>5 DEF Persisting, PublicLoads
  <2>11. Traced(Q(q), egress')
    <3>1. /\ q.egress \in Nat /\ q.policy \in Nat /\ q.under \in Nat /\ q.egress <= q.policy
          /\ q.config \in Relayed /\ q.content # 0 => q.under >= q.policy
      BY <2>1, <2>2 DEF PublicLoads, Traced
    <3>2. Q(q).output = Compiled(q) BY <2>5
    <3> QED BY <3>1, <3>2 DEF Traced, Input, Compiled
  <2> HIDE DEF Q, E
  <2> QED BY <1>1, <2>1, <2>9, <2>10, <2>11, MovesOn DEF PublicStages
<1>5. CASE Persist
  <2> DEFINE At(q) == IF Conflicts(q) = {} THEN q.at ELSE (CHOOSE a \in Conflicts(q) : TRUE).at
             Made(q) == [input |-> q.input, output |-> q.output, at |-> At(q),
                        under |-> q.under, revision |-> RevisionHash(q)]
  <2>1. PICK r \in Request : /\ request[r].pc = "persist"
                             /\ artifacts' = (artifacts \ Conflicts(request[r]))
                                               \cup {Made(request[r])}
                             /\ Answer(r, Made(request[r]), request[r].stale)
    BY <1>5 DEF Persist
  <2> DEFINE q == request[r]
  <2>2. q \in Persisting /\ Traced(q, egress)
    BY <2>1 DEF PublicInv, PublicStages, PublicLoads, Persisting, Idle
  <2>3. /\ q.input = <<q.at, q.config, q.node, q.output.content>>
        /\ q.output.config = q.config /\ q.output.node = q.node
        /\ q.config \in Relayed /\ q.output.content # 0 => q.under >= q.egress
    BY <2>1, <2>2 DEF Traced
  <2>4. At(q) = q.at
    <3>1. \A a \in Conflicts(q) : a \in artifacts /\ a.input = q.input BY DEF Conflicts
    <3>2. \A a \in Conflicts(q) : a.at = q.at
      BY <2>3, <3>1 DEF PublicInv, Stored, MadeAsNamed
    <3> QED BY <3>2
  <2>5. RevisionHash(q) \in Revisions BY <2>2 DEF RevisionHash, Revisions, Persisting
  <2>6. Made(q) = [input |-> q.input, output |-> q.output, at |-> q.at, under |-> q.under,
                  revision |-> RevisionHash(q)]
    BY <2>4
  <2> HIDE DEF Made, At
  <2>7. Made(q) \in Artifacts BY <2>2, <2>5, <2>6 DEF Artifacts, Persisting
  <2>8. MadeAsNamed(Made(q)) BY <2>3, <2>6 DEF MadeAsNamed, RevisionHash
  <2>9. UNCHANGED <<snapshots, compiled>> BY <1>5 DEF Persist
  <2>10. artifacts' \subseteq Artifacts /\ \A a \in artifacts' : MadeAsNamed(a)
    BY <2>1, <2>7, <2>8 DEF PublicInv, Stored
  <2>11. Stored' BY <1>0, <2>9, <2>10 DEF PublicInv, Stored
  <2> DEFINE A == [pc |-> "answered", at |-> q.at, config |-> q.config, node |-> q.node,
                   egress |-> q.egress, artifact |-> Made(q), stale |-> q.stale]
  <2>12. A \in PublicStages BY <2>2, <2>7 DEF PublicStages, Persisting
  <2>13. Traced(A, egress') BY <2>3, <2>6 DEF Traced, Matches
  <2> QED BY <1>1, <2>1, <2>11, <2>12, <2>13, MovesOn DEF Answer
<1>6. CASE PersistFails
  <2>1. PICK r \in Request : /\ request[r].pc = "persist"
                             /\ Become(r, [request[r] EXCEPT !.pc = "failed"])
    BY <1>6 DEF PersistFails
  <2>2. Stored' BY <1>2, <1>6 DEF PersistFails
  <2>3. request[r] \in Persisting
    BY <2>1 DEF PublicInv, PublicStages, PublicLoads, Persisting, Idle
  <2>4. /\ [request[r] EXCEPT !.pc = "failed"] \in Persisting
        /\ Traced([request[r] EXCEPT !.pc = "failed"], egress')
    BY <2>3 DEF Persisting, Traced
  <2> QED BY <1>1, <2>1, <2>2, <2>4, MovesOn DEF PublicStages
<1>7. CASE FallBackOnArtifact
  <2>1. PICK r \in Request :
          /\ request[r].pc = "failed"
          /\ \/ Become(r, Idle)
             \/ \E a \in LastGood(request[r]) : Answer(r, a, TRUE)
    BY <1>7 DEF FallBackOnArtifact
  <2>2. Stored' BY <1>2, <1>7 DEF FallBackOnArtifact
  <2>3. CASE Become(r, Idle)
    BY <1>1, <2>2, <2>3, MovesOn DEF PublicStages, Traced, Idle
  <2>4. ASSUME NEW a \in LastGood(request[r]), Answer(r, a, TRUE) PROVE PublicInv'
    <3> DEFINE q == request[r]
               A == [pc |-> "answered", at |-> q.at, config |-> q.config, node |-> q.node,
                     egress |-> q.egress, artifact |-> a, stale |-> TRUE]
    <3>1. q \in PublicLoads \cup Persisting
      BY <2>1 DEF PublicInv, PublicStages, PublicLoads, Persisting, Idle
    <3>2. /\ q.at \in Nat /\ q.config \in Config /\ q.node \in Nodes /\ q.egress \in Nat
      BY <3>1 DEF PublicLoads, Persisting
    <3>3. a \in Artifacts /\ MadeAsNamed(a) /\ a.revision = RevisionHash(q)
      BY <2>4 DEF LastGood, PublicInv, Stored
    <3>4. A \in PublicStages BY <3>2, <3>3 DEF PublicStages
    <3>5. Matches(A) BY <3>3 DEF Matches, MadeAsNamed, RevisionHash
    <3>6. Traced(A, egress') BY <3>5 DEF Traced
    <3> QED BY <1>1, <2>2, <2>4, <3>4, <3>6, MovesOn DEF Answer
  <2> QED BY <2>1, <2>3, <2>4
<1>8. CASE Respond
  <2>1. PICK r \in Request : Become(r, Idle) BY <1>8 DEF Respond
  <2>2. Stored' BY <1>2, <1>8 DEF Respond
  <2> QED BY <1>1, <2>1, <2>2, MovesOn DEF PublicStages, Traced, Idle
<1> QED BY <1>3, <1>4, <1>5, <1>6, <1>7, <1>8

LEMMA PublicBegins == PublicInit => PublicInv
<1> SUFFICES ASSUME PublicInit PROVE PublicInv
  OBVIOUS
<1>1. Stored
  BY PublicationAssumption DEF PublicInit, Stored, SourceKeys, Nodes, NotCompiled, NoSnapshot
<1>2. request \in [Request -> PublicStages] /\ \A r \in Request : Traced(request[r], egress)
  BY DEF PublicInit, PublicStages, Idle, Traced
<1> QED BY <1>1, <1>2 DEF PublicInv

LEMMA PublicKept == PublicInv /\ [PublicNext]_publicVars => PublicInv'
  BY ContextKept, LoadingKept, AnsweringKept DEF PublicNext

LEMMA PublicImplies == PublicInv => AnswersMatch
  BY DEF PublicInv, Traced, AnswersMatch

(* For any number of requests, however saves, edits of a node, changes of  *)
(* the policy and lost sources fall between their steps: what is answered, *)
(* from whichever cache, was made of the revision, the configuration and   *)
(* the node the request has read, under no older policy (public_api.rs).   *)
THEOREM AnswersAlwaysMatch == PublicSpec => []AnswersMatch
  BY PublicBegins, PublicKept, PublicImplies, PTL DEF PublicSpec


(***************************************************************************)
(* Fetching: what a download is at each stage.                             *)
(***************************************************************************)
ProxyNames == FetchProxy \cup {None}
Obtainable == Usable \cup {None}
Entries == [content : Obtainable, via : ProxyNames \cup {"system", "core"}, fresh : BOOLEAN]
Loads(A) ==
    [pc : {"proxies", "load"}, forced : BOOLEAN, persist : BOOLEAN, names : [A -> ProxyNames],
     all : {A}, todo : SUBSET A, flight : SUBSET [item : A, old : Obtainable],
     via : {"system", "core"}, started : SUBSET FetchProxy, starting : SUBSET FetchProxy,
     listed : [FetchProxy -> {"absent", "off", "on"}], got : [A -> Obtainable]]
Loading == Loads(Source) \cup Loads(Provider)
Books == Rulebook \cup {[default |-> "system", host |-> [h \in Host |-> "default"]]}
Resources ==
    [pc : {"routes", "resource", "sent"}, rules : Books,
     kind : {"routes", "egress", "remote", "rendered"},
     proxies : [FetchProxy -> {"absent", "off", "on"}], starting : SUBSET FetchProxy,
     started : SUBSET FetchProxy, first : Host, host : Host, left : Int, manifest : Int]
DoneLoading == [pc : {"done"}, got : [Source -> Obtainable] \cup [Provider -> Obtainable]]
DoneResource == [pc : {"done"}, manifest : Int, artifact : Int]
Downloads == {Resting} \cup Loading \cup Resources \cup DoneLoading \cup DoneResource

LEMMA Shapes ==
    /\ \A d \in Loading : DOMAIN d = {"pc", "forced", "persist", "names", "all", "todo", "flight",
                            "via", "started", "starting", "listed", "got"}
    /\ \A d \in Resources : DOMAIN d = {"pc", "kind", "rules", "proxies", "starting", "started",
                              "first", "host", "left", "manifest"}
    /\ \A d \in DoneLoading : DOMAIN d = {"pc", "got"}
    /\ \A d \in DoneResource : DOMAIN d = {"pc", "manifest", "artifact"}
    /\ DOMAIN Resting = {"pc"}
BY DEF Loading, Loads, Resources, DoneLoading, DoneResource, Resting

LEMMA Stages ==
    ASSUME NEW d \in Downloads
    PROVE  /\ d.pc \in {"proxies", "load"} <=> d \in Loading
           /\ d.pc \in {"routes", "resource", "sent"} <=> d \in Resources
           /\ "names" \in DOMAIN d <=> d \in Loading
           /\ "rules" \in DOMAIN d <=> d \in Resources
           /\ d.pc = "done" <=> d \in DoneLoading \cup DoneResource
           /\ d.pc = "idle" <=> d = Resting
BY Shapes DEF Downloads, Loading, Loads, Resources, DoneLoading, DoneResource, Resting

(***************************************************************************)
(* Fetching: the invariant, and the steps.                                 *)
(***************************************************************************)
FetchTyped ==
    /\ proxies \in [FetchProxy -> {"absent", "off", "on"}] /\ rules \in Books
    /\ named \in [Source -> ProxyNames] /\ entry \in [CacheKeys -> Entries]
    /\ processes \subseteq Job \X FetchProxy /\ download \in [Job -> Downloads]
    /\ requested = [j \in Job |-> requested[j]] /\ conversion \in Int

OwnWay(d, asked) ==
    /\ d \in Loading =>
         \A r \in asked : /\ d.names[r.what] # None => r.via = d.names[r.what]
                          /\ d.names[r.what] = None => r.via \in {"system", "core"}
    /\ d \in Resources =>
         \A r \in asked :
           r.via = IF d.kind = "rendered" THEN "system" ELSE Chosen(d.rules, r.what)
Matched(d) == d \in DoneResource => d.artifact \in {0, d.manifest}
Works(d) == d \in Loading \cup Resources

FetchInv ==
    /\ FetchTyped
    /\ \A j \in Job : OwnWay(download[j], requested[j]) /\ Matched(download[j])
    /\ \A x \in processes : Works(download[x[1]])
    /\ CacheHonest /\ RulesResolve

\* One download moves, and the others do not.
LEMMA OneMoves ==
    ASSUME FetchInv, NEW j \in Job, NEW rec \in Downloads, Becomes(j, rec), Quiet,
           requested' = [requested EXCEPT ![j] = requested'[j]],
           OwnWay(rec, requested'[j]), Matched(rec),
           processes' \subseteq Job \X FetchProxy,
           \A x \in processes' : (x \in processes \/ x[1] = j) /\ (x[1] = j => Works(rec)),
           entry' \in [CacheKeys -> Entries], CacheHonest'
    PROVE  FetchInv'
<1>1. /\ download' \in [Job -> Downloads] /\ download'[j] = rec
      /\ \A k \in Job : k # j => download'[k] = download[k]
  BY DEF FetchInv, FetchTyped, Becomes
<1>2. /\ requested' = [k \in Job |-> requested'[k]]
      /\ \A k \in Job : k # j => requested'[k] = requested[k]
  BY DEF FetchInv, FetchTyped
<1>3. \A k \in Job : OwnWay(download'[k], requested'[k]) /\ Matched(download'[k])
  BY <1>1, <1>2 DEF FetchInv
<1>4. \A x \in processes' : Works(download'[x[1]])
  BY <1>1 DEF FetchInv
<1>5. RulesResolve' BY DEF FetchInv, RulesResolve, Quiet, Outbounds
<1>6. FetchTyped' BY <1>1, <1>2 DEF FetchInv, FetchTyped, Quiet
<1> QED BY <1>3, <1>4, <1>5, <1>6 DEF FetchInv

\* The same, where the cache and the running proxies stay.
LEMMA OnlyMoves ==
    ASSUME FetchInv, NEW j \in Job, NEW rec \in Downloads, Becomes(j, rec), Quiet,
           requested' = [requested EXCEPT ![j] = requested'[j]],
           OwnWay(rec, requested'[j]), Matched(rec), UNCHANGED <<entry, processes>>,
           Works(rec) \/ ~Works(download[j])
    PROVE  FetchInv'
<1>1. processes' \subseteq Job \X FetchProxy BY DEF FetchInv, FetchTyped
<1>2. \A x \in processes' : (x \in processes \/ x[1] = j) /\ (x[1] = j => Works(rec))
  BY DEF FetchInv
<1>3. entry' \in [CacheKeys -> Entries] BY DEF FetchInv, FetchTyped
<1>4. CacheHonest' BY DEF FetchInv, CacheHonest
<1> QED BY <1>1, <1>2, <1>3, <1>4, OneMoves

\* A download that ends drops its proxies.
LEMMA OneEnds ==
    ASSUME FetchInv, NEW j \in Job, NEW rec \in DoneLoading \cup DoneResource, Ends(j, rec),
           Quiet, UNCHANGED <<entry, requested>>, Matched(rec)
    PROVE  FetchInv'
<1>1. processes' \subseteq Job \X FetchProxy BY DEF FetchInv, FetchTyped, Ends
<1>2. \A x \in processes' : (x \in processes \/ x[1] = j) /\ (x[1] = j => Works(rec))
  BY DEF Ends
<1>3. entry' \in [CacheKeys -> Entries] BY DEF FetchInv, FetchTyped
<1>4. CacheHonest' BY DEF FetchInv, CacheHonest
<1>5. rec \in Downloads BY DEF Downloads
<1>6. OwnWay(rec, requested'[j])
  BY <1>5, Stages DEF OwnWay, Loading, Loads, Resources, DoneLoading, DoneResource
<1>7. requested' = [requested EXCEPT ![j] = requested'[j]] BY DEF FetchInv, FetchTyped
<1> QED BY <1>1, <1>2, <1>3, <1>4, <1>5, <1>6, <1>7, OneMoves DEF Ends

\* Edits and events leave the downloads alone.
LEMMA EditsKeep ==
    FetchInv /\ (SaveProxy \/ RemoveFetchProxy \/ SaveRules \/ NameProxy \/ ClearCache
                 \/ CacheExpires \/ WorldMoves \/ ProxyExits) => FetchInv'
<1> USE DEF FetchEdit
<1>1. ASSUME FetchInv, UNCHANGED <<processes, download, requested, rules, proxies>>,
             FetchTyped', CacheHonest' PROVE FetchInv'
  BY <1>1 DEF FetchInv, RulesResolve
<1>2. ASSUME FetchInv, UNCHANGED entry PROVE CacheHonest' BY <1>2 DEF FetchInv, CacheHonest
<1>3. ASSUME FetchInv, SaveProxy PROVE FetchInv'
  <2>1. PICK p \in FetchProxy, to \in {"on", "off"} : proxies' = [proxies EXCEPT ![p] = to]
    BY <1>3 DEF SaveProxy
  <2>2. RulesResolve' BY <1>3, <2>1 DEF SaveProxy, FetchInv, FetchTyped, RulesResolve, Outbounds
  <2>3. FetchTyped' BY <1>3, <2>1 DEF SaveProxy, FetchInv, FetchTyped
  <2> QED BY <1>2, <1>3, <2>2, <2>3 DEF SaveProxy, FetchInv
<1>4. ASSUME FetchInv, RemoveFetchProxy PROVE FetchInv'
  <2>1. PICK p \in FetchProxy : MayRemove(p) /\ proxies' = [proxies EXCEPT ![p] = "absent"]
    BY <1>4 DEF RemoveFetchProxy
  <2>2. RulesResolve'
    BY <1>4, <2>1 DEF RemoveFetchProxy, MayRemove, FetchInv, FetchTyped, RulesResolve, Outbounds
  <2>3. FetchTyped' BY <1>4, <2>1 DEF RemoveFetchProxy, FetchInv, FetchTyped
  <2> QED BY <1>2, <1>4, <2>2, <2>3 DEF RemoveFetchProxy, FetchInv
<1>5. ASSUME FetchInv, SaveRules PROVE FetchInv'
  <2>1. PICK new \in Rulebook : /\ \A p \in Outbounds(new) \cap FetchProxy : proxies[p] = "on"
                                /\ rules' = new
    BY <1>5 DEF SaveRules
  <2>2. RulesResolve' BY <1>5, <2>1 DEF SaveRules, RulesResolve, Outbounds
  <2>3. FetchTyped' BY <1>5, <2>1 DEF SaveRules, FetchInv, FetchTyped, Books
  <2> QED BY <1>2, <1>5, <2>2, <2>3 DEF SaveRules, FetchInv
<1>6. ASSUME FetchInv, NameProxy PROVE FetchInv'
  <2>1. FetchTyped' BY <1>6 DEF NameProxy, FetchInv, FetchTyped, ProxyNames
  <2> QED BY <1>1, <1>2, <1>6, <2>1 DEF NameProxy
<1>7. ASSUME FetchInv, ClearCache PROVE FetchInv'
  <2>1. entry' \in [CacheKeys -> Entries]
    BY <1>7 DEF ClearCache, NoEntry, Entries, Obtainable, ProxyNames
  <2>2. FetchTyped' BY <1>7, <2>1 DEF ClearCache, FetchInv, FetchTyped
  <2>3. CacheHonest' BY <1>7 DEF ClearCache, CacheHonest
  <2> QED BY <1>1, <1>7, <2>2, <2>3 DEF ClearCache
<1>8. ASSUME FetchInv, CacheExpires PROVE FetchInv'
  <2>1. PICK k \in CacheKeys : entry[k].fresh /\ entry' = [entry EXCEPT ![k].fresh = FALSE]
    BY <1>8 DEF CacheExpires
  <2>2. entry[k] \in Entries BY <1>8 DEF FetchInv, FetchTyped
  <2>3. /\ entry' \in [CacheKeys -> Entries] /\ entry'[k].via = entry[k].via
        /\ \A q \in CacheKeys : q # k => entry'[q] = entry[q]
    BY <1>8, <2>1, <2>2 DEF FetchInv, FetchTyped, Entries
  <2>4. entry[k] # NoEntry BY <2>1 DEF NoEntry
  <2>5. CacheHonest' BY <1>8, <2>3, <2>4 DEF FetchInv, CacheHonest
  <2>6. FetchTyped' BY <1>8, <2>3 DEF CacheExpires, FetchInv, FetchTyped
  <2> QED BY <1>1, <1>8, <2>5, <2>6 DEF CacheExpires
<1>9. ASSUME FetchInv, WorldMoves PROVE FetchInv'
  <2>1. FetchTyped' BY <1>9 DEF WorldMoves, FetchInv, FetchTyped
  <2> QED BY <1>1, <1>2, <1>9, <2>1 DEF WorldMoves
<1>10. ASSUME FetchInv, ProxyExits PROVE FetchInv'
  <2>1. PICK x \in processes : processes' = processes \ {x} BY <1>10 DEF ProxyExits
  <2>2. FetchTyped' BY <1>10, <2>1 DEF ProxyExits, FetchInv, FetchTyped
  <2>3. RulesResolve' BY <1>10 DEF ProxyExits, FetchInv, RulesResolve, Outbounds
  <2> QED BY <1>2, <1>10, <2>1, <2>2, <2>3 DEF ProxyExits, FetchInv
<1> QED BY <1>3, <1>4, <1>5, <1>6, <1>7, <1>8, <1>9, <1>10

\* What a download that loads does to itself.
LEMMA LoadingOf ==
    ASSUME FetchInv, NEW j \in Job, download[j].pc \in {"proxies", "load"}
    PROVE  /\ download[j] \in Loading /\ Works(download[j])
           /\ \A rec \in Loading : rec.names = download[j].names =>
                rec \in Downloads /\ OwnWay(rec, requested[j]) /\ Matched(rec) /\ Works(rec)
<1>1. download[j] \in Loading BY Stages DEF FetchInv, FetchTyped
<1>2. \A rec \in Loading : rec \in Downloads /\ Matched(rec) /\ rec \notin Resources
  <2> SUFFICES ASSUME NEW rec \in Loading
               PROVE rec \in Downloads /\ Matched(rec) /\ rec \notin Resources OBVIOUS
  <2>1. rec \in Downloads BY DEF Downloads
  <2>2. rec.pc \in {"proxies", "load"} BY <2>1, Stages
  <2> QED BY <2>1, <2>2, Stages DEF Matched
<1> QED BY <1>1, <1>2 DEF FetchInv, OwnWay, Works

LEMMA ResourceOf ==
    ASSUME FetchInv, NEW j \in Job, download[j].pc \in {"routes", "resource", "sent"}
    PROVE  /\ download[j] \in Resources /\ Works(download[j])
           /\ \A rec \in Resources : rec.rules = download[j].rules /\ rec.kind = download[j].kind =>
                rec \in Downloads /\ OwnWay(rec, requested[j]) /\ Matched(rec) /\ Works(rec)
<1>1. download[j] \in Resources BY Stages DEF FetchInv, FetchTyped
<1>2. \A rec \in Resources : rec \in Downloads /\ Matched(rec) /\ rec \notin Loading
  <2> SUFFICES ASSUME NEW rec \in Resources
               PROVE rec \in Downloads /\ Matched(rec) /\ rec \notin Loading OBVIOUS
  <2>1. rec \in Downloads BY DEF Downloads
  <2>2. rec.pc \in {"routes", "resource", "sent"} BY <2>1, Stages
  <2> QED BY <2>1, <2>2, Stages DEF Matched
<1> QED BY <1>1, <1>2 DEF FetchInv, OwnWay, Works

LEMMA SameRequests ==
    ASSUME FetchInv, NEW j \in Job, UNCHANGED requested
    PROVE  requested' = [requested EXCEPT ![j] = requested'[j]]
BY DEF FetchInv, FetchTyped

LEMMA Requested ==
    ASSUME FetchInv, NEW j \in Job, NEW new, requested' = [requested EXCEPT ![j] = new]
    PROVE  requested'[j] = new /\ requested' = [requested EXCEPT ![j] = requested'[j]]
BY DEF FetchInv, FetchTyped

LEMMA BeginningsKeep ==
    FetchInv /\ (BeginSources \/ BeginProviders \/ BeginResource \/ NothingRead) => FetchInv'
<1> USE FetchAssumption
<1>1. ASSUME FetchInv, NEW j \in Job, MayBegin(j) PROVE ~Works(download[j])
  BY <1>1, Stages DEF MayBegin, FetchInv, FetchTyped, Works
<1>2. ASSUME FetchInv, NEW j \in Job, NEW rec \in Loading \cup Resources, MayBegin(j), Quiet,
             Becomes(j, rec), requested' = [requested EXCEPT ![j] = {}],
             UNCHANGED <<entry, processes>>
      PROVE  FetchInv'
  <2>1. rec \in Downloads BY DEF Downloads
  <2>2. rec.pc \in {"proxies", "load", "routes", "resource", "sent"} BY <2>1, Stages
  <2>3. Matched(rec) BY <2>1, <2>2, Stages DEF Matched
  <2>4. requested'[j] = {} /\ requested' = [requested EXCEPT ![j] = requested'[j]]
    BY <1>2, Requested
  <2>5. OwnWay(rec, requested'[j]) BY <2>4 DEF OwnWay
  <2> QED BY <1>1, <1>2, <2>1, <2>3, <2>4, <2>5, OnlyMoves
<1>3. ASSUME FetchInv, BeginSources PROVE FetchInv'
  <2>1. PICK j \in Job, forced, persist \in BOOLEAN :
          /\ MayBegin(j) /\ requested' = [requested EXCEPT ![j] = {}]
          /\ Becomes(j, [pc |-> "proxies", forced |-> forced, persist |-> persist,
                         names |-> named, all |-> Source, todo |-> Source, listed |-> proxies,
                         flight |-> {}, via |-> "system", started |-> {},
                         starting |-> {named[s] : s \in Source} \ {None},
                         got |-> [i \in Source |-> None]])
    BY <1>3 DEF BeginSources
  <2>2. {named[s] : s \in Source} \ {None} \subseteq FetchProxy /\ named \in [Source -> ProxyNames]
    BY <1>3 DEF FetchInv, FetchTyped, ProxyNames
  <2>3. [pc |-> "proxies", forced |-> forced, persist |-> persist,
         names |-> named, all |-> Source, todo |-> Source, listed |-> proxies,
         flight |-> {}, via |-> "system", started |-> {},
         starting |-> {named[s] : s \in Source} \ {None},
         got |-> [i \in Source |-> None]] \in Loading
    BY <1>3, <2>2 DEF Loading, Loads, Obtainable, FetchInv, FetchTyped
  <2> QED BY <1>2, <1>3, <2>1, <2>3 DEF BeginSources
<1>4. ASSUME FetchInv, BeginProviders PROVE FetchInv'
  <2>1. PICK j \in Job, forced, persist \in BOOLEAN :
          /\ MayBegin(j) /\ requested' = [requested EXCEPT ![j] = {}]
          /\ Becomes(j, [pc |-> "proxies", forced |-> forced, persist |-> persist,
                         names |-> [i \in Provider |-> None],
                         all |-> Provider, todo |-> Provider, listed |-> proxies,
                         flight |-> {},
                         via |-> IF forced /\ coreProxy THEN "core" ELSE "system",
                         started |-> {}, starting |-> Outbounds(rules) \cap FetchProxy,
                         got |-> [i \in Provider |-> None]])
    BY <1>4 DEF BeginProviders
  <2>2. [pc |-> "proxies", forced |-> forced, persist |-> persist,
         names |-> [i \in Provider |-> None],
         all |-> Provider, todo |-> Provider, listed |-> proxies, flight |-> {},
         via |-> IF forced /\ coreProxy THEN "core" ELSE "system",
         started |-> {}, starting |-> Outbounds(rules) \cap FetchProxy,
         got |-> [i \in Provider |-> None]] \in Loading
    BY <1>4 DEF Loading, Loads, Obtainable, ProxyNames, FetchInv, FetchTyped
  <2> QED BY <1>2, <1>4, <2>1, <2>2 DEF BeginProviders
<1>5. ASSUME FetchInv, BeginResource PROVE FetchInv'
  <2>1. PICK j \in Job, h \in Host, kind \in {"routes", "egress", "remote", "rendered"} :
          /\ MayBegin(j) /\ requested' = [requested EXCEPT ![j] = {}]
          /\ Becomes(j, [pc |-> "routes", kind |-> kind, rules |-> rules,
                         proxies |-> proxies,
                         starting |-> ProxiesFor(kind, h), started |-> {},
                         first |-> h, host |-> h,
                         left |-> MaxRedirects, manifest |-> 0])
    BY <1>5 DEF BeginResource
  <2>2. ProxiesFor(kind, h) \subseteq FetchProxy BY DEF ProxiesFor
  <2>4. [pc |-> "routes", kind |-> kind, rules |-> rules, proxies |-> proxies,
         starting |-> ProxiesFor(kind, h), started |-> {}, first |-> h, host |-> h,
         left |-> MaxRedirects, manifest |-> 0] \in Resources
    BY <1>5, <2>2 DEF Resources, FetchInv, FetchTyped
  <2> QED BY <1>2, <1>5, <2>1, <2>4 DEF BeginResource
<1>6. ASSUME FetchInv, NothingRead PROVE FetchInv'
  <2>1. PICK j \in Job, rec \in {[pc |-> "done", got |-> [i \in Provider |-> None]],
                                 [pc |-> "done", manifest |-> 0, artifact |-> 0]} :
          MayBegin(j) /\ requested' = [requested EXCEPT ![j] = {}] /\ Becomes(j, rec)
    BY <1>6 DEF NothingRead
  <2>2. rec \in DoneLoading \cup DoneResource
    BY <2>1 DEF DoneLoading, DoneResource, Obtainable
  <2>3. rec \in Downloads /\ rec.pc = "done" BY <2>2 DEF Downloads, DoneLoading, DoneResource
  <2>4. Matched(rec) BY <2>1, <2>2, Shapes DEF Matched
  <2>5. rec \notin Loading /\ rec \notin Resources BY <2>3, Stages
  <2>6. requested'[j] = {} /\ requested' = [requested EXCEPT ![j] = requested'[j]]
    BY <1>6, <2>1, Requested
  <2>7. OwnWay(rec, requested'[j]) BY <2>5 DEF OwnWay
  <2> QED BY <1>1, <1>6, <2>1, <2>3, <2>4, <2>6, <2>7, OnlyMoves DEF NothingRead
<1> QED BY <1>3, <1>4, <1>5, <1>6

\* A proxy that is started, or not, for the download.
LEMMA StartsKeep ==
    ASSUME FetchInv, NEW j \in Job, Works(download[j]), NEW p \in download[j].starting,
           NEW status, StartProxy(j, p, status), UNCHANGED <<entry, requested>>, Quiet
    PROVE  FetchInv'
<1> DEFINE tried == [download[j] EXCEPT !.starting = @ \ {p}]
           started == [download[j] EXCEPT !.starting = @ \ {p}, !.started = @ \cup {p}]
<1>1. p \in FetchProxy BY DEF Works, Loading, Loads, Resources
<1>4. \A rec \in {tried, started} :
        rec \in Downloads /\ OwnWay(rec, requested'[j]) /\ Matched(rec) /\ Works(rec)
  <2>1. CASE download[j] \in Loading
    <3>1. /\ tried \in Loading /\ tried.names = download[j].names
          /\ started \in Loading /\ started.names = download[j].names
      BY <1>1, <2>1 DEF Loading, Loads
    <3>2. download[j].pc \in {"proxies", "load"} BY <2>1 DEF Loading, Loads
    <3> QED BY <3>1, <3>2, LoadingOf
  <2>2. CASE download[j] \in Resources
    <3>1. /\ tried \in Resources /\ tried.rules = download[j].rules
          /\ tried.kind = download[j].kind
          /\ started \in Resources /\ started.rules = download[j].rules
          /\ started.kind = download[j].kind
      BY <1>1, <2>2 DEF Resources
    <3>2. download[j].pc \in {"routes", "resource", "sent"} BY <2>2 DEF Resources
    <3> QED BY <3>1, <3>2, ResourceOf
  <2> QED BY <2>1, <2>2 DEF Works
<1> HIDE DEF tried, started
<1>5. requested' = [requested EXCEPT ![j] = requested'[j]] BY SameRequests
<1>6. entry' \in [CacheKeys -> Entries] /\ CacheHonest'
  BY DEF FetchInv, FetchTyped, CacheHonest
<1>7. CASE Becomes(j, tried) /\ UNCHANGED processes
  BY <1>4, <1>5, <1>7, OnlyMoves
<1>8. CASE Becomes(j, started) /\ processes' = processes \cup {<<j, p>>}
  <2>1. processes' \subseteq Job \X FetchProxy BY <1>1, <1>8 DEF FetchInv, FetchTyped
  <2>2. \A x \in processes' : (x \in processes \/ x[1] = j) /\ (x[1] = j => Works(started))
    BY <1>4, <1>8
  <2> QED BY <1>4, <1>5, <1>6, <1>8, <2>1, <2>2, OneMoves
<1> QED BY <1>7, <1>8 DEF StartProxy, tried, started
\* What a loaded item leaves.
LEMMA GotLoads ==
    ASSUME NEW j \in Job, download[j] \in Loading, NEW content \in Obtainable,
           NEW f \in [item : download[j].all, old : Obtainable]
    PROVE  Got(j, f, content) \in Loading /\ Got(j, f, content).names = download[j].names
<1> USE FetchAssumption
<1>1. CASE content = None /\ f.item \in Provider
  <2>1. download[j] \in Loads(Provider)
    <3>1. download[j] \in Loads(Source) => f.item \in Source BY DEF Loads
    <3> QED BY <1>1, <3>1 DEF Loading
  <2>2. Got(j, f, content) = [download[j] EXCEPT !.todo = {}, !.flight = {},
                                                 !.got = [i \in Provider |-> None]]
    BY <1>1 DEF Got
  <2>3. [i \in Provider |-> None] \in [Provider -> Obtainable] BY DEF Obtainable
  <2> DEFINE none == [i \in Provider |-> None]
  <2> HIDE DEF none
  <2>4. [download[j] EXCEPT !.todo = {}, !.flight = {}, !.got = none] \in Loads(Provider)
    BY <2>1, <2>3 DEF Loads, none
  <2>5. [download[j] EXCEPT !.todo = {}, !.flight = {}, !.got = none].names = download[j].names
    BY <2>1 DEF Loads
  <2> QED BY <2>2, <2>4, <2>5 DEF Loading, none
<1>2. CASE ~(content = None /\ f.item \in Provider)
  <2>1. Got(j, f, content) =
          [download[j] EXCEPT !.todo = @ \ {f.item}, !.flight = @ \ {f},
                              !.got[f.item] = content]
    BY <1>2 DEF Got
  <2>2. ASSUME NEW A, download[j] \in Loads(A)
        PROVE  Got(j, f, content) \in Loads(A) /\ Got(j, f, content).names = download[j].names
    <3> DEFINE got == [download[j].got EXCEPT ![f.item] = content]
               todo == download[j].todo \ {f.item}
               flight == download[j].flight \ {f}
    <3>1. f.item \in A BY <2>2 DEF Loads
    <3>2. got \in [A -> Obtainable] /\ todo \in SUBSET A
          /\ flight \in SUBSET [item : A, old : Obtainable]
      BY <2>2, <3>1 DEF Loads
    <3>3. Got(j, f, content) = [download[j] EXCEPT !.todo = todo, !.flight = flight, !.got = got]
      BY <2>1
    <3> HIDE DEF got, todo, flight
    <3> QED BY <2>2, <3>2, <3>3 DEF Loads
  <2> QED BY <2>2 DEF Loading
<1> QED BY <1>1, <1>2

LEMMA CachedEntry ==
    ASSUME FetchInv, NEW j \in Job, download[j] \in Loading, NEW i \in download[j].all
    PROVE  /\ CacheKey(i, download[j].names[i]) \in CacheKeys
           /\ download[j].names[i] \in ProxyNames /\ Cached(j, i) \in Entries
<1>1. i \in Item /\ download[j].names[i] \in ProxyNames BY DEF Loading, Loads, Item
<1>2. CacheKey(i, download[j].names[i]) \in CacheKeys
  BY <1>1 DEF CacheKey, CacheKeys, ProxyNames
<1> QED BY <1>1, <1>2 DEF Cached, FetchInv, FetchTyped

LEMMA LoadsKeep ==
    FetchInv /\ (StartNamed \/ StartedAll \/ LoadItem \/ DownloadFails \/ Downloaded \/ EndSources)
      => FetchInv'
<1>1. ASSUME FetchInv, StartNamed PROVE FetchInv'
  <2>1. PICK j \in Job : /\ download[j].pc = "proxies"
                         /\ \E p \in download[j].starting : StartProxy(j, p, Listed(j)[p])
    BY <1>1 DEF StartNamed
  <2>2. Works(download[j]) BY <1>1, <2>1, LoadingOf
  <2> QED BY <1>1, <2>1, <2>2, StartsKeep DEF StartNamed
<1>2. ASSUME FetchInv, StartedAll PROVE FetchInv'
  <2>1. PICK j \in Job : /\ download[j].pc = "proxies"
                         /\ Becomes(j, [download[j] EXCEPT !.pc = "load"])
    BY <1>2 DEF StartedAll
  <2> DEFINE rec == [download[j] EXCEPT !.pc = "load"]
  <2>2. download[j] \in Loading BY <1>2, <2>1, LoadingOf
  <2>3. rec \in Loading /\ rec.names = download[j].names BY <2>2 DEF Loading, Loads
  <2> HIDE DEF rec
  <2>4. rec \in Downloads /\ OwnWay(rec, requested[j]) /\ Matched(rec) /\ Works(rec)
    BY <1>2, <2>1, <2>3, LoadingOf
  <2>5. Becomes(j, rec) BY <2>1 DEF rec
  <2> QED BY <1>2, <2>4, <2>5, OnlyMoves, SameRequests DEF StartedAll
<1>3. ASSUME FetchInv, NEW j \in Job, download[j].pc = "load", Quiet,
             UNCHANGED <<entry, processes, requested>>, NEW content \in Obtainable,
             NEW f \in [item : download[j].all, old : Obtainable], Becomes(j, Got(j, f, content))
      PROVE  FetchInv'
  <2>1. download[j] \in Loading BY <1>3, LoadingOf
  <2>2. Got(j, f, content) \in Loading /\ Got(j, f, content).names = download[j].names
    BY <1>3, <2>1, GotLoads
  <2>3. /\ Got(j, f, content) \in Downloads /\ OwnWay(Got(j, f, content), requested[j])
        /\ Matched(Got(j, f, content)) /\ Works(Got(j, f, content))
    BY <1>3, <2>2, LoadingOf
  <2> QED BY <1>3, <2>3, OnlyMoves, SameRequests
<1>4. ASSUME FetchInv, LoadItem PROVE FetchInv'
  <2>j. PICK j \in Job :
          /\ download[j].pc = "load"
          /\ \E i \in Waiting(j) :
               LET f == [item |-> i, old |-> Cached(j, i).content]
               IN  IF Suffices(j, i) \/ Route(j, i) = None
                   THEN Becomes(j, Got(j, f, f.old)) /\ UNCHANGED requested
                   ELSE /\ Requests(j, i, Route(j, i))
                        /\ Becomes(j, [download[j] EXCEPT !.todo = @ \ {i},
                                                          !.flight = @ \cup {f}])
    BY <1>4 DEF LoadItem
  <2>1. PICK i \in Waiting(j) :
          /\ download[j].pc = "load"
          /\ LET f == [item |-> i, old |-> Cached(j, i).content]
             IN  IF Suffices(j, i) \/ Route(j, i) = None
                 THEN Becomes(j, Got(j, f, f.old)) /\ UNCHANGED requested
                 ELSE /\ Requests(j, i, Route(j, i))
                      /\ Becomes(j, [download[j] EXCEPT !.todo = @ \ {i},
                                                        !.flight = @ \cup {f}])
    BY <2>j
  <2> DEFINE f == [item |-> i, old |-> Cached(j, i).content]
             rec == [download[j] EXCEPT !.todo = @ \ {i}, !.flight = @ \cup {f}]
  <2>2. download[j] \in Loading BY <1>4, <2>1, LoadingOf
  <2>3. i \in download[j].all BY <2>2 DEF Waiting, Loading, Loads
  <2>4. Cached(j, i) \in Entries BY <1>4, <2>2, <2>3, CachedEntry
  <2>5. f \in [item : download[j].all, old : Obtainable] /\ f.old \in Obtainable
    BY <2>3, <2>4 DEF Entries
  <2>6. rec \in Loading /\ rec.names = download[j].names
    <3>1. ASSUME NEW A, download[j] \in Loads(A)
          PROVE  rec \in Loads(A) /\ rec.names = download[j].names
      BY <2>5, <3>1 DEF Loads
    <3> QED BY <2>2, <3>1 DEF Loading
  <2>7. CASE Suffices(j, i) \/ Route(j, i) = None
    <3>1. Becomes(j, Got(j, f, f.old)) /\ UNCHANGED requested BY <2>1, <2>7
    <3> HIDE DEF f
    <3> QED BY <1>3, <1>4, <2>1, <2>5, <3>1 DEF LoadItem
  <2>8. CASE ~(Suffices(j, i) \/ Route(j, i) = None)
    <3>1. Requests(j, i, Route(j, i)) /\ Becomes(j, rec) BY <2>1, <2>8
    <3> HIDE DEF rec
    <3>2. requested' = [requested EXCEPT
                          ![j] = requested[j] \cup {[what |-> i, via |-> Route(j, i)]}]
      BY <3>1 DEF Requests
    <3>3. requested'[j] = requested[j] \cup {[what |-> i, via |-> Route(j, i)]}
          /\ requested' = [requested EXCEPT ![j] = requested'[j]]
      BY <1>4, <3>2, Requested
    <3>4. rec \in Downloads /\ OwnWay(rec, requested[j]) /\ Matched(rec) /\ Works(rec)
      BY <1>4, <2>1, <2>6, LoadingOf
    <3>5. /\ rec.names[i] # None => Route(j, i) = rec.names[i]
          /\ rec.names[i] = None => Route(j, i) \in {"system", "core"}
      <4>1. download[j].via \in {"system", "core"} BY <2>2 DEF Loading, Loads
      <4> QED BY <2>6, <2>8, <4>1 DEF Route, Via
    <3>6. rec \notin Resources BY <2>6, <3>4, Stages
    <3>7. OwnWay(rec, requested'[j]) BY <2>6, <3>3, <3>4, <3>5, <3>6 DEF OwnWay
    <3> QED BY <1>4, <3>1, <3>3, <3>4, <3>7, OnlyMoves DEF LoadItem
  <2> QED BY <2>7, <2>8
<1>5. ASSUME FetchInv, NEW j \in Job, download[j].pc = "load", NEW f \in download[j].flight
      PROVE  f \in [item : download[j].all, old : Obtainable] /\ f.old \in Obtainable
  BY <1>5, LoadingOf DEF Loading, Loads
<1>6. ASSUME FetchInv, DownloadFails PROVE FetchInv'
  <2>1. PICK j \in Job : download[j].pc = "load"
                         /\ \E f \in download[j].flight : Becomes(j, Got(j, f, f.old))
    BY <1>6 DEF DownloadFails
  <2> QED BY <1>3, <1>5, <1>6, <2>1 DEF DownloadFails
<1>7. ASSUME FetchInv, Downloaded PROVE FetchInv'
  <2>j. PICK j \in Job :
          /\ download[j].pc = "load"
          /\ \E f \in download[j].flight, content \in Usable :
               \/ /\ download[j].persist
                  /\ entry' = [entry EXCEPT ![CacheKey(f.item, download[j].names[f.item])] =
                                 [content |-> content, via |-> Via(j, f.item), fresh |-> TRUE]]
                  /\ Becomes(j, Got(j, f, content))
               \/ ~download[j].persist /\ UNCHANGED entry /\ Becomes(j, Got(j, f, content))
               \/ download[j].persist /\ UNCHANGED entry /\ Becomes(j, Got(j, f, None))
    BY <1>7 DEF Downloaded
  <2>1. PICK f \in download[j].flight, content \in Usable :
          /\ download[j].pc = "load"
          /\ \/ /\ download[j].persist
                /\ entry' = [entry EXCEPT ![CacheKey(f.item, download[j].names[f.item])] =
                               [content |-> content, via |-> Via(j, f.item), fresh |-> TRUE]]
                /\ Becomes(j, Got(j, f, content))
             \/ ~download[j].persist /\ UNCHANGED entry /\ Becomes(j, Got(j, f, content))
             \/ download[j].persist /\ UNCHANGED entry /\ Becomes(j, Got(j, f, None))
    BY <2>j
  <2>2. /\ f \in [item : download[j].all, old : Obtainable]
        /\ content \in Obtainable /\ None \in Obtainable
    BY <1>5, <1>7, <2>1 DEF Obtainable
  <2>3. CASE UNCHANGED entry BY <1>3, <1>7, <2>1, <2>2, <2>3 DEF Downloaded
  <2>4. CASE /\ entry' = [entry EXCEPT ![CacheKey(f.item, download[j].names[f.item])] =
                            [content |-> content, via |-> Via(j, f.item), fresh |-> TRUE]]
             /\ Becomes(j, Got(j, f, content))
    <3> DEFINE key == CacheKey(f.item, download[j].names[f.item])
               new == [content |-> content, via |-> Via(j, f.item), fresh |-> TRUE]
    <3>1. download[j] \in Loading BY <1>7, <2>1, LoadingOf
    <3>2. key \in CacheKeys /\ key[2] = download[j].names[f.item] /\ key[2] \in ProxyNames
      BY <1>7, <2>2, <3>1, CachedEntry DEF CacheKey
    <3>3. download[j].via \in {"system", "core"} BY <3>1 DEF Loading, Loads
    <3>4. /\ key[2] # None => Via(j, f.item) = key[2]
          /\ key[2] = None => Via(j, f.item) \in {"system", "core"}
      BY <3>2, <3>3 DEF Via
    <3>5. new \in Entries BY <2>2, <3>2, <3>4 DEF Entries, ProxyNames
    <3>6. entry' = [entry EXCEPT ![key] = new] BY <2>4
    <3>7. new.via = Via(j, f.item) OBVIOUS
    <3> HIDE DEF key, new
    <3>8. entry' \in [CacheKeys -> Entries] BY <1>7, <3>5, <3>6 DEF FetchInv, FetchTyped
    <3>9. CacheHonest'
      BY <1>7, <3>2, <3>4, <3>6, <3>7 DEF FetchInv, FetchTyped, CacheHonest
    <3>10. Got(j, f, content) \in Loading /\ Got(j, f, content).names = download[j].names
      BY <2>2, <3>1, GotLoads
    <3>11. /\ Got(j, f, content) \in Downloads /\ OwnWay(Got(j, f, content), requested[j])
           /\ Matched(Got(j, f, content)) /\ Works(Got(j, f, content))
      BY <1>7, <2>1, <3>10, LoadingOf
    <3>12. UNCHANGED <<processes, requested>> /\ Quiet BY <1>7 DEF Downloaded
    <3>13. processes' \subseteq Job \X FetchProxy
           /\ \A x \in processes' : x \in processes
      BY <1>7, <3>12 DEF FetchInv, FetchTyped
    <3> QED BY <1>7, <2>4, <3>8, <3>9, <3>11, <3>12, <3>13, OneMoves, SameRequests
  <2> QED BY <2>1, <2>3, <2>4
<1>8. ASSUME FetchInv, EndSources PROVE FetchInv'
  <2>1. PICK j \in Job : /\ download[j].pc = "load"
                         /\ Ends(j, [pc |-> "done", got |-> download[j].got])
    BY <1>8 DEF EndSources
  <2>2. [pc |-> "done", got |-> download[j].got] \in DoneLoading
    BY <1>8, <2>1, LoadingOf DEF Loading, Loads, DoneLoading
  <2>3. Matched([pc |-> "done", got |-> download[j].got])
    BY <2>2, Shapes DEF Matched
  <2> QED BY <1>8, <2>1, <2>2, <2>3, OneEnds DEF EndSources
<1> QED BY <1>1, <1>2, <1>4, <1>6, <1>7, <1>8
\* A resource asks the route of its host, and what is accepted is what was described.
LEMMA ResourcesKeep ==
    FetchInv /\ (StartRoute \/ RoutesStarted \/ RequestResource \/ Redirected \/ Answered
                 \/ ResourceFails) => FetchInv'
<1> USE FetchAssumption
<1>1. ASSUME FetchInv, StartRoute PROVE FetchInv'
  <2>1. PICK j \in Job : /\ download[j].pc = "routes"
                         /\ \E p \in download[j].starting :
                              StartProxy(j, p, download[j].proxies[p])
    BY <1>1 DEF StartRoute
  <2>2. Works(download[j]) BY <1>1, <2>1, ResourceOf
  <2> QED BY <1>1, <2>1, <2>2, StartsKeep DEF StartRoute
<1>2. ASSUME FetchInv, NEW j \in Job, download[j].pc \in {"routes", "resource", "sent"}, Quiet,
             NEW rec \in Resources, rec.rules = download[j].rules,
             rec.kind = download[j].kind, Becomes(j, rec),
             UNCHANGED <<entry, processes, requested>>
      PROVE  FetchInv'
  <2>1. rec \in Downloads /\ OwnWay(rec, requested[j]) /\ Matched(rec) /\ Works(rec)
    BY <1>2, ResourceOf
  <2> QED BY <1>2, <2>1, OnlyMoves, SameRequests
<1>3. ASSUME FetchInv, NEW j \in Job, NEW manifest \in Int, NEW artifact \in {0, manifest},
             Ends(j, [pc |-> "done", manifest |-> manifest, artifact |-> artifact]),
             UNCHANGED <<entry, requested>>, Quiet
      PROVE  FetchInv'
  <2> DEFINE rec == [pc |-> "done", manifest |-> manifest, artifact |-> artifact]
  <2>1. rec \in DoneResource BY DEF DoneResource
  <2>2. Matched(rec) BY DEF Matched
  <2> QED BY <1>3, <2>1, <2>2, OneEnds
<1>4. ASSUME FetchInv, RoutesStarted PROVE FetchInv'
  <2>1. PICK j \in Job : /\ download[j].pc = "routes"
                         /\ Becomes(j, [download[j] EXCEPT !.pc = "resource"])
    BY <1>4 DEF RoutesStarted
  <2>2. download[j] \in Resources BY <1>4, <2>1, ResourceOf
  <2>3. /\ [download[j] EXCEPT !.pc = "resource"] \in Resources
        /\ [download[j] EXCEPT !.pc = "resource"].rules = download[j].rules
        /\ [download[j] EXCEPT !.pc = "resource"].kind = download[j].kind
    BY <2>2 DEF Resources
  <2> QED BY <1>2, <1>4, <2>1, <2>3 DEF RoutesStarted
<1>5. ASSUME FetchInv, RequestResource PROVE FetchInv'
  <2>1. PICK j \in Job :
          LET via == WayTo(j)
          IN  /\ download[j].pc = "resource"
              /\ IF via \in FetchProxy \ download[j].started
                 THEN Ends(j, [pc |-> "done", manifest |-> 0, artifact |-> 0])
                      /\ UNCHANGED requested
                 ELSE /\ Requests(j, HostOf(j), via)
                      /\ Becomes(j, [download[j] EXCEPT !.pc = "sent"]) /\ UNCHANGED processes
    BY <1>5 DEF RequestResource
  <2> DEFINE via == WayTo(j)
             rec == [download[j] EXCEPT !.pc = "sent"]
  <2>2. CASE via \in FetchProxy \ download[j].started
    <3>1. Ends(j, [pc |-> "done", manifest |-> 0, artifact |-> 0]) /\ UNCHANGED requested
      BY <2>1, <2>2
    <3> QED BY <1>3, <1>5, <3>1 DEF RequestResource
  <2>3. CASE via \notin FetchProxy \ download[j].started
    <3>1. Requests(j, HostOf(j), via) /\ Becomes(j, rec) /\ UNCHANGED processes BY <2>1, <2>3
    <3>2. requested' = [requested EXCEPT
                          ![j] = requested[j] \cup {[what |-> HostOf(j), via |-> via]}]
      BY <3>1 DEF Requests
    <3>3. requested'[j] = requested[j] \cup {[what |-> HostOf(j), via |-> via]}
          /\ requested' = [requested EXCEPT ![j] = requested'[j]]
      BY <1>5, <3>2, Requested
    <3>4. download[j] \in Resources BY <1>5, <2>1, ResourceOf
    <3>5. /\ rec \in Resources /\ rec.rules = download[j].rules
          /\ rec.kind = download[j].kind
      BY <3>4 DEF Resources
    <3> HIDE DEF rec
    <3>6. rec \in Downloads /\ OwnWay(rec, requested[j]) /\ Matched(rec) /\ Works(rec)
      BY <1>5, <2>1, <3>5, ResourceOf
    <3>7. rec \notin Loading
      <4>1. rec.pc \in {"routes", "resource", "sent"} BY <3>5 DEF Resources
      <4> QED BY <3>6, <4>1, Stages
    <3>8. \A r \in requested'[j] :
            r.via = IF rec.kind = "rendered" THEN "system" ELSE Chosen(rec.rules, r.what)
      BY <3>3, <3>5, <3>6 DEF OwnWay, WayTo
    <3>9. OwnWay(rec, requested'[j]) BY <3>7, <3>8 DEF OwnWay
    <3> QED BY <1>5, <3>1, <3>3, <3>6, <3>9, OnlyMoves DEF RequestResource
  <2> QED BY <2>2, <2>3
<1>6. ASSUME FetchInv, Redirected PROVE FetchInv'
  <2>1. PICK j \in Job, h \in Host :
          /\ Answering(j)
          /\ Becomes(j, [download[j] EXCEPT !.pc = "resource", !.host = h, !.left = @ - 1])
    BY <1>6 DEF Redirected
  <2> DEFINE left == download[j].left - 1
             rec == [download[j] EXCEPT !.pc = "resource", !.host = h, !.left = left]
  <2>2. download[j].pc = "sent" BY <2>1 DEF Answering
  <2>3. download[j] \in Resources BY <1>6, <2>2, ResourceOf
  <2>b. Becomes(j, rec) BY <2>1
  <2>l. left \in Int BY <2>3 DEF Resources
  <2> HIDE DEF left
  <2>4. rec \in Resources /\ rec.rules = download[j].rules /\ rec.kind = download[j].kind
    BY <2>3, <2>l DEF Resources
  <2> HIDE DEF rec
  <2> QED BY <1>2, <1>6, <2>b, <2>2, <2>4 DEF Redirected
<1>7. ASSUME FetchInv, Answered PROVE FetchInv'
  <2>1. PICK j \in Job :
          /\ Answering(j)
          /\ IF download[j].kind \in {"remote", "rendered"} /\ download[j].manifest = 0
             THEN /\ Becomes(j, [download[j] EXCEPT !.pc = "resource",
                                  !.host = download[j].first,
                                  !.left = MaxRedirects, !.manifest = conversion])
                  /\ UNCHANGED processes
             ELSE Ends(j, [pc |-> "done", manifest |-> download[j].manifest,
                           artifact |-> IF Accepted(j) THEN conversion ELSE 0])
    BY <1>7 DEF Answered
  <2>2. download[j].pc = "sent" BY <2>1 DEF Answering
  <2>3. download[j] \in Resources BY <1>7, <2>2, ResourceOf
  <2>4. conversion \in Int BY <1>7 DEF FetchInv, FetchTyped
  <2>5. CASE download[j].kind \in {"remote", "rendered"} /\ download[j].manifest = 0
    <3> DEFINE rec == [download[j] EXCEPT !.pc = "resource", !.host = download[j].first,
                                          !.left = MaxRedirects, !.manifest = conversion]
    <3>0. download[j].first \in Host /\ MaxRedirects \in Int BY <2>3 DEF Resources
    <3> DEFINE first == download[j].first
    <3> HIDE DEF first
    <3>1. [download[j] EXCEPT !.pc = "resource", !.host = first,
                              !.left = MaxRedirects, !.manifest = conversion] \in Resources
      BY <2>3, <2>4, <3>0 DEF Resources, first
    <3>2. rec.rules = download[j].rules /\ rec.kind = download[j].kind BY <2>3 DEF Resources
    <3>3. rec \in Resources BY <3>1 DEF first
    <3>4. Becomes(j, rec) /\ UNCHANGED processes BY <2>1, <2>5
    <3> HIDE DEF rec
    <3> QED BY <1>2, <1>7, <2>2, <3>2, <3>3, <3>4 DEF Answered
  <2>6. CASE ~(download[j].kind \in {"remote", "rendered"} /\ download[j].manifest = 0)
    <3> DEFINE artifact == IF Accepted(j) THEN conversion ELSE 0
    <3>1. download[j].manifest \in Int /\ artifact \in {0, download[j].manifest}
      BY <2>3 DEF Resources, Accepted
    <3>2. Ends(j, [pc |-> "done", manifest |-> download[j].manifest, artifact |-> artifact])
      BY <2>1, <2>6
    <3> HIDE DEF artifact
    <3> QED BY <1>3, <1>7, <3>1, <3>2 DEF Answered
  <2> QED BY <2>5, <2>6
<1>8. ASSUME FetchInv, ResourceFails PROVE FetchInv'
  <2>1. PICK j \in Job : Ends(j, [pc |-> "done", manifest |-> 0, artifact |-> 0])
    BY <1>8 DEF ResourceFails
  <2> QED BY <1>3, <1>8, <2>1 DEF ResourceFails
<1> QED BY <1>1, <1>4, <1>5, <1>6, <1>7, <1>8

\* Whatever is edited, removed, cleared or dies while downloads run: a source that names a
\* proxy is asked through it or not at all, and so is, at each redirect, a resource that goes
\* by the rules, of a host whose rule names one.  The cache says by which way its contents
\* came, no rule names a proxy that is gone, no proxy outlives its download, and a conversion
\* that is accepted is the one described.  Rule providers and the conversions that a user
\* renders do not go by the rules, and nothing is claimed of a rule for their hosts.  For every
\* set of operations, sources, providers, proxies and rules.
THEOREM DownloadsAlwaysKeepTheirWay == FetchSpec => []DownloadsKeepTheirWay
<1>1. FetchInit => FetchInv
  <2> SUFFICES ASSUME FetchInit PROVE FetchInv OBVIOUS
  <2> USE FetchAssumption
  <2>1. download \in [Job -> Downloads] /\ \A j \in Job : download[j] = Resting
    BY DEF FetchInit, Downloads
  <2>2. \A j \in Job : OwnWay(download[j], requested[j]) /\ Matched(download[j])
    <3>1. Resting \in Downloads /\ Resting \notin Loading /\ Resting \notin Resources
          /\ Resting \notin DoneResource
      BY Stages DEF Downloads, Resting
    <3> QED BY <2>1, <3>1 DEF OwnWay, Matched
  <2>3. entry \in [CacheKeys -> Entries] /\ CacheHonest
    BY DEF FetchInit, NoEntry, Entries, Obtainable, ProxyNames, CacheHonest
  <2>4. rules \in Books BY DEF FetchInit, Books
  <2>5. named \in [Source -> ProxyNames] BY DEF FetchInit, ProxyNames
  <2>6. requested = [j \in Job |-> requested[j]] BY DEF FetchInit
  <2>7. RulesResolve
    <3>1. Outbounds(rules) \subseteq {"system", "default"} BY DEF FetchInit, Outbounds
    <3> QED BY <3>1 DEF RulesResolve
  <2> QED BY <2>1, <2>2, <2>3, <2>4, <2>5, <2>6, <2>7 DEF FetchInit, FetchInv, FetchTyped
<1>2. FetchInv /\ [FetchNext]_fetchVars => FetchInv'
  <2>1. FetchInv /\ UNCHANGED fetchVars => FetchInv'
    BY DEF fetchVars, FetchInv, FetchTyped, CacheHonest, RulesResolve, Outbounds
  <2> QED BY <2>1, EditsKeep, BeginningsKeep, LoadsKeep, ResourcesKeep DEF FetchNext
<1>3. FetchInv => DownloadsKeepTheirWay
  <2> SUFFICES ASSUME FetchInv PROVE DownloadsKeepTheirWay OBVIOUS
  <2>1. \A j \in Job : download[j] \in Downloads BY DEF FetchInv, FetchTyped
  <2>2. OnTheirWay BY <2>1, Stages DEF FetchInv, OwnWay, OnTheirWay
  <2>3. ProxiesEnd
    <3>1. \A x \in processes : x[1] \in Job BY DEF FetchInv, FetchTyped
    <3>2. \A d \in Downloads : Works(d) => d.pc \notin {"idle", "done"}
      BY Stages DEF Works
    <3> QED BY <2>1, <3>1, <3>2 DEF FetchInv, ProxiesEnd
  <2>4. ArtifactMatches
    <3>1. \A d \in Downloads : d.pc = "done" /\ "artifact" \in DOMAIN d => d \in DoneResource
      BY Stages, Shapes
    <3> QED BY <2>1, <3>1 DEF FetchInv, Matched, ArtifactMatches
  <2> QED BY <2>2, <2>3, <2>4 DEF DownloadsKeepTheirWay, FetchInv
<1> QED BY <1>1, <1>2, <1>3, PTL DEF FetchSpec

(***************************************************************************)
(* Sources: the shapes of what is kept, of a load and of a job.            *)
(***************************************************************************)
IsSeq(s) == s \in Seq(ToSet(s))
IsEntry(s) == s = [where |-> s.where, by |-> s.by, key |-> s.key, via |-> s.via,
                   content |-> s.content, fresh |-> s.fresh]
IsLoad(l) == l = [pc |-> l.pc, id |-> l.id, places |-> l.places, policy |-> l.policy,
                  proxied |-> l.proxied, ttl |-> l.ttl, key |-> l.key, kept |-> l.kept,
                  attempt |-> l.attempt, hop |-> l.hop, at |-> l.at, via |-> l.via,
                  answer |-> l.answer]
IsJob(j) == j = [kind |-> j.kind, pc |-> j.pc, selected |-> j.selected, items |-> j.items,
                 providers |-> j.providers, at |-> j.at, stages |-> j.stages, used |-> j.used,
                 failed |-> j.failed, rules |-> j.rules, output |-> j.output,
                 report |-> j.report]

(* A content that is usable and whose requests all went its way, under a    *)
(* policy that there is: later policies change nothing about it.            *)
Sound(c) ==
    /\ c.content = "usable" /\ c.key.policy \in 0..Len(policies)
    /\ \A hop \in c.via : WentBy(c.key, hop)

(* The key of a load stands for the way the load goes. *)
Keyed(l) ==
    /\ l.key.id = l.id /\ l.key.url = l.places[1] /\ l.key.policy = l.policy
    /\ l.key.proxy.active \in 0..proxyRow.active
    /\ l.policy = 0 => (l.proxied <=> l.key.proxy # NoProxyRow)
    /\ \A hop \in l.via : WentBy(l.key, hop)
LoadSound(l) ==
    /\ IsLoad(l) /\ l.policy \in 0..Len(policies)
    /\ \/ /\ l.pc \in {"policy", "lookup"} /\ l.kept = {} /\ l.via = {} /\ l.answer = "error"
       \/ /\ l.pc = "hop" /\ l.answer \in {"error", "status"} /\ Keyed(l)
       \/ /\ l.pc = "got"
          /\ l.answer = "fresh" => l.kept # {}
          /\ Good(l) => Keyed(l)
    /\ \A s \in l.kept : Sound(s) /\ s.key = l.key

SettingsSound ==
    /\ policies \in Seq(Routing) /\ proxyRow \in [active : Nat \ {0}, enabled : BOOLEAN]
StoredSound ==
    /\ CachesOfWriters /\ \A s \in stored : IsEntry(s) /\ Sound(s)
LoadsSound ==
    /\ DOMAIN load = 1..Window
    /\ \A w \in 1..Window : load[w] # NoLoad => LoadSound(load[w])

UseSound(items, stages, at, u) ==
    /\ u.of \in 1..at /\ stages[u.of] = "ok"
    /\ u.how = "loaded" => Sound(u.what) /\ u.what.key.url = items[u.of].url
Account(items, stages, uses, failed, at) ==
    /\ IsSeq(items) /\ IsSeq(stages) /\ IsSeq(uses)
    /\ failed \in Nat /\ Len(stages) = at /\ Len(uses) + failed = at /\ at <= Len(items)
    /\ \A i \in 1..at : stages[i] \in {"ok", "error"}
    /\ (\E i \in 1..at : stages[i] = "ok") <=> Len(uses) > 0
    /\ \A i \in 1..Len(uses) : UseSound(items, stages, at, uses[i])
    /\ \A i \in 2..Len(uses) : uses[i - 1].of < uses[i].of
Accounted(j) == Account(j.items, j.stages, j.used, j.failed, j.at)
Ruled(j) ==
    /\ IsSeq(j.providers) /\ IsSeq(j.rules)
    /\ \A i \in 1..Len(j.rules) : Sound(j.rules[i])
    /\ j.pc \in {"nodes", "sources"} => Len(j.rules) = 0
    /\ j.pc \in {"rules", "compiled"} =>
         /\ Len(j.rules) <= Len(j.providers)
         /\ \A i \in 1..Len(j.rules) : j.rules[i].key.id = j.providers[i].tag
    /\ j.pc = "compiled" =>
         Len(j.rules) = Len(j.providers) /\ j.output = Exported(j.providers)

(* Which loads a job has, by where it is. *)
NoLoads(W) == \A w \in W : load[w] = NoLoad
LoadsOf(j) ==
    /\ j.pc \in {"none", "nodes"} => NoLoads(1..Window)
    /\ j.pc = "sources" =>
         /\ NoLoads(2..Window)
         /\ load[1] # NoLoad =>
              j.at < Len(j.items) /\ load[1].places[1] = j.items[j.at + 1].url
    /\ j.pc = "rules" =>
         \A i \in (Len(j.rules) + 1)..(Len(j.rules) + Window) :
             i <= Len(j.providers) /\ load[SlotOf(i)] # NoLoad =>
                 load[SlotOf(i)].id = j.providers[i].tag
JobSound ==
    /\ sourceJob # NoSourceJob =>
         /\ IsJob(sourceJob) /\ sourceJob.pc # "none"
         /\ Accounted(sourceJob) /\ Ruled(sourceJob)
    /\ LoadsOf(sourceJob)

SourcesInv == SettingsSound /\ StoredSound /\ LoadsSound /\ JobSound

LEMMA Appends ==
  ASSUME NEW s, NEW e, IsSeq(s)
  PROVE  /\ Len(s) \in Nat /\ Len(Append(s, e)) = Len(s) + 1 /\ IsSeq(Append(s, e))
         /\ \A i \in 1..Len(s) : Append(s, e)[i] = s[i]
         /\ Append(s, e)[Len(s) + 1] = e
<1> DEFINE S == ToSet(s) \cup {e}
<1>1. s \in Seq(S) BY DEF IsSeq, ToSet
<1>2. /\ Append(s, e) \in Seq(S) /\ Len(s) \in Nat /\ Len(Append(s, e)) = Len(s) + 1
      /\ \A i \in 1..Len(s) : Append(s, e)[i] = s[i]
      /\ Append(s, e)[Len(s) + 1] = e
  BY <1>1
<1>3. DOMAIN Append(s, e) = 1..Len(Append(s, e)) BY <1>2
<1>4. IsSeq(Append(s, e)) BY <1>2, <1>3 DEF IsSeq, ToSet
<1> QED BY <1>2, <1>4

LEMMA Sequences == ASSUME NEW S, NEW s \in Seq(S) PROVE IsSeq(s)
<1>1. DOMAIN s = 1..Len(s) /\ Len(s) \in Nat OBVIOUS
<1> QED BY <1>1 DEF IsSeq, ToSet

LEMMA SlotsDiffer ==
  ASSUME NEW m \in Nat, NEW i \in (m + 1)..(m + Window), NEW k \in (m + 1)..(m + Window), i # k
  PROVE  SlotOf(i) # SlotOf(k)
<1> Window \in Nat \ {0} BY SourcesAssumption
<1> DEFINE Q(n) == (n - 1) \div Window
           R(n) == (n - 1) % Window
<1>1. \A n \in Nat : n - 1 = Window * Q(n) + R(n) /\ Q(n) \in Int /\ R(n) \in 0..(Window - 1)
  OBVIOUS
<1>2. SUFFICES ASSUME R(i) = R(k) PROVE FALSE
  BY <1>1 DEF SlotOf
<1>3. i \in Nat /\ k \in Nat OBVIOUS
<1>4. i - k = Window * (Q(i) - Q(k)) BY <1>1, <1>2, <1>3
<1>5. Q(i) - Q(k) \in Int BY <1>1, <1>3
<1> DEFINE d == Q(i) - Q(k)
<1>6. d # 0 BY <1>4, <1>5, <1>3
<1> HIDE DEF d
<1>7. Window * d >= Window \/ Window * d <= -Window BY <1>5, <1>6 DEF d
<1> QED BY <1>4, <1>7 DEF d

LEMMA SlotsRepeat == \A i \in Nat \ {0} : SlotOf(i + Window) = SlotOf(i)
<1> Window \in Nat \ {0} BY SourcesAssumption
<1> TAKE i \in Nat \ {0}
<1> DEFINE q == (i - 1) \div Window
           r == (i - 1) % Window
           p == (i + Window - 1) \div Window
           s == (i + Window - 1) % Window
<1>1. /\ q \in Int /\ r \in 0..(Window - 1) /\ i - 1 = Window * q + r
      /\ p \in Int /\ s \in 0..(Window - 1) /\ i + Window - 1 = Window * p + s
  OBVIOUS
<1> HIDE DEF q, r, p, s
<1>2. s - r = Window * ((q + 1) - p) BY <1>1
<1> DEFINE d == (q + 1) - p
<1>3. d \in Int BY <1>1
<1> HIDE DEF d
<1>4. d = 0 \/ Window * d >= Window \/ Window * d <= -Window BY <1>3
<1>5. s = r BY <1>1, <1>2, <1>4 DEF d
<1>6. SlotOf(i + Window) = s + 1 /\ SlotOf(i) = r + 1 BY DEF SlotOf, r, s
<1> QED BY <1>5, <1>6

(***************************************************************************)
(* Settings only grow: a policy is never changed, a proxy's revision never *)
(* goes back.  What is sound remains so.                                   *)
(***************************************************************************)
Grown ==
    /\ Len(policies) <= Len(policies') /\ proxyRow.active <= proxyRow'.active
    /\ \A i \in 1..Len(policies) : policies'[i] = policies[i]

LEMMA SettingsKept ==
  ASSUME SettingsSound, [SourcesNext]_sourceVars
  PROVE  SettingsSound' /\ Grown
<1>1. CASE UNCHANGED <<policies, proxyRow>>
  BY <1>1 DEF SettingsSound, Grown
<1>2. CASE ChangeEgress
  <2>1. PICK r \in Routing : policies' = Append(policies, r) /\ proxyRow' = proxyRow
    BY <1>2 DEF ChangeEgress
  <2>2. policies \in Seq(Routing) /\ proxyRow \in [active : Nat \ {0}, enabled : BOOLEAN]
    BY DEF SettingsSound
  <2>3. /\ policies' \in Seq(Routing) /\ Len(policies') = Len(policies) + 1
        /\ \A i \in 1..Len(policies) : policies'[i] = policies[i]
    BY <2>1, <2>2
  <2> QED BY <2>1, <2>2, <2>3 DEF SettingsSound, Grown
<1>3. CASE ChangeProxy
  <2>1. proxyRow \in [active : Nat \ {0}, enabled : BOOLEAN] BY DEF SettingsSound
  <2>2. CASE proxyRow' = [proxyRow EXCEPT !.active = @ + 1]
    BY <1>3, <2>1, <2>2 DEF ChangeProxy, SettingsSound, Grown
  <2>3. CASE proxyRow' = [proxyRow EXCEPT !.enabled = ~@]
    <3>1. PICK a \in Nat \ {0}, e \in BOOLEAN : proxyRow = [active |-> a, enabled |-> e]
      BY <2>1
    <3>2. (~e) \in BOOLEAN OBVIOUS
    <3>3. PICK d \in BOOLEAN : proxyRow' = [active |-> a, enabled |-> d]
      BY <2>3, <3>1, <3>2, Zenon
    <3> QED BY <1>3, <3>1, <3>3 DEF ChangeProxy, SettingsSound, Grown
  <2> QED BY <1>3, <2>2, <2>3 DEF ChangeProxy
<1> QED
  BY <1>1, <1>2, <1>3 DEF SourcesNext, sourceVars, settingVars, Attach, ExpireSnapshots,
     BeginSubscription, LoadNodes, BeginRelay, BeginList, BeginInspection, BeginSingle,
     EndSourcesJob, DropJob, LoadPolicy, LookupSnapshot, Hop, NextSource, SourceLoaded,
     SourcesLoaded, StartProvider, ProviderLoaded, SingleAnswers, CompileSources

LEMMA WayKept ==
  ASSUME SettingsSound, SettingsSound', Grown, NEW key, key.policy \in 0..Len(policies), NEW hop,
         WentBy(key, hop)
  PROVE  WentBy(key, hop)'
<1>1. key.policy > 0 => policies'[key.policy] = policies[key.policy]
  BY DEF Grown, SettingsSound
<1> QED BY <1>1 DEF WentBy

LEMMA SoundKept ==
  ASSUME SettingsSound, SettingsSound', Grown, NEW c, Sound(c)
  PROVE  Sound(c)'
<1>1. c.key.policy \in 0..Len(policies') BY DEF Sound, Grown, SettingsSound
<1> QED BY <1>1, WayKept DEF Sound

LEMMA LoadKept ==
  ASSUME SettingsSound, SettingsSound', Grown, NEW l, LoadSound(l)
  PROVE  LoadSound(l)'
<1>1. l.policy \in 0..Len(policies') BY DEF LoadSound, Grown, SettingsSound
<1>2. ASSUME Keyed(l) PROVE Keyed(l)'
  <2>1. l.key.proxy.active \in 0..proxyRow'.active BY <1>2 DEF Keyed, Grown, SettingsSound
  <2>2. \A hop \in l.via : WentBy(l.key, hop)'
    BY <1>2, WayKept DEF Keyed, LoadSound
  <2> QED BY <1>2, <2>1, <2>2 DEF Keyed
<1>3. \A s \in l.kept : Sound(s)' BY SoundKept DEF LoadSound
<1> QED BY <1>1, <1>2, <1>3 DEF LoadSound, IsLoad, Good

LEMMA JobKept ==
  ASSUME SettingsSound, SettingsSound', Grown, NEW j
  PROVE  (Accounted(j) => Accounted(j)') /\ (Ruled(j) => Ruled(j)')
<1>1. \A items, stages, at, u : UseSound(items, stages, at, u) => UseSound(items, stages, at, u)'
  BY SoundKept DEF UseSound
<1>2. Accounted(j) => Accounted(j)' BY <1>1 DEF Accounted, Account
<1>3. Ruled(j) => Ruled(j)' BY SoundKept DEF Ruled
<1> QED BY <1>2, <1>3

(***************************************************************************)
(* Sources: the steps of a load.                                           *)
(***************************************************************************)
Same(l, m) == m.id = l.id /\ m.places = l.places

LEMMA LoadsBegin ==
  ASSUME SettingsSound
  PROVE  /\ \A id, places : LET l == RelayLoad(id, places)
                            IN  LoadSound(l) /\ l.id = id /\ l.places = places
         /\ \A item : LET l == NodeLoad(item)
                      IN  LoadSound(l) /\ l.places[1] = item.url
<1>1. 0 \in 0..Len(policies) BY DEF SettingsSound
<1> DEFINE Begun(pc, id, places, proxied, ttl) ==
             [pc |-> pc, id |-> id, places |-> places, policy |-> 0, proxied |-> proxied,
              ttl |-> ttl, key |-> [url |-> places[1]], kept |-> {}, attempt |-> 1, hop |-> 0,
              at |-> places[1], via |-> {}, answer |-> "error"]
<1>2. ASSUME NEW pc \in {"policy", "lookup"}, NEW id, NEW places, NEW proxied, NEW ttl
      PROVE  LoadSound(Begun(pc, id, places, proxied, ttl))
  BY <1>1 DEF LoadSound, IsLoad
<1>3. ASSUME NEW id, NEW places, NEW l, l = RelayLoad(id, places)
      PROVE  l = Begun("policy", id, places, FALSE, 1)
  BY <1>3 DEF RelayLoad, Load
<1>4. ASSUME NEW item, NEW l, l = NodeLoad(item)
      PROVE  /\ l = Begun("lookup", "nodes", Retried(item.url), item.proxied, item.ttl)
             /\ l.places[1] = item.url
  <2>1. l = Begun("lookup", "nodes", Retried(item.url), item.proxied, item.ttl)
    BY <1>4 DEF NodeLoad, Load
  <2>2. Attempts \in Nat \ {0} BY SourcesAssumption
  <2>3. Retried(item.url)[1] = item.url BY <2>2 DEF Retried
  <2> QED BY <2>1, <2>3
<1>5. \A id, places : /\ Begun("policy", id, places, FALSE, 1).id = id
                      /\ Begun("policy", id, places, FALSE, 1).places = places
  OBVIOUS
<1> HIDE DEF Begun
<1>6. ASSUME NEW id, NEW places, NEW l, l = RelayLoad(id, places)
      PROVE  LoadSound(l) /\ l.id = id /\ l.places = places
  <2>1. l = Begun("policy", id, places, FALSE, 1) BY <1>3, <1>6
  <2>2. LoadSound(Begun("policy", id, places, FALSE, 1))
    <3>1. "policy" \in {"policy", "lookup"} OBVIOUS
    <3> QED BY <1>2, <3>1, Zenon
  <2> QED BY <1>5, <2>1, <2>2, Zenon
<1>7. ASSUME NEW item, NEW l, l = NodeLoad(item)
      PROVE  LoadSound(l) /\ l.places[1] = item.url
  BY <1>2, <1>4, <1>7
<1> QED BY <1>6, <1>7

LEMMA PolicyLoads ==
  ASSUME SettingsSound, NEW l, LoadSound(l), l.pc = "policy",
         NEW m, m = [l EXCEPT !.pc = "lookup", !.policy = Len(policies)]
  PROVE  LoadSound(m) /\ Same(l, m)
<1>1. m = [pc |-> "lookup", id |-> l.id, places |-> l.places, policy |-> Len(policies),
           proxied |-> l.proxied, ttl |-> l.ttl, key |-> l.key, kept |-> l.kept,
           attempt |-> l.attempt, hop |-> l.hop, at |-> l.at, via |-> l.via, answer |-> l.answer]
  BY DEF LoadSound, IsLoad
<1>2. Len(policies) \in 0..Len(policies) BY DEF SettingsSound
<1>3. IsLoad(m) BY <1>1 DEF IsLoad
<1> QED BY <1>1, <1>2, <1>3 DEF LoadSound, Same

LEMMA LookedUp ==
  ASSUME SettingsSound, NEW l, LoadSound(l), l.pc = "lookup",
         NEW pc, NEW key, NEW kept, NEW answer,
         NEW m, m = [l EXCEPT !.pc = pc, !.key = key, !.kept = kept, !.answer = answer],
         \/ pc = "got" /\ answer = "error" /\ kept = {}
         \/ /\ key = KeyOf(l) /\ \A s \in kept : Sound(s) /\ s.key = key
            /\ \/ pc = "got" /\ answer = "fresh" /\ kept # {}
               \/ pc = "hop" /\ answer = "error"
  PROVE  LoadSound(m) /\ Same(l, m)
<1>1. m = [pc |-> pc, id |-> l.id, places |-> l.places, policy |-> l.policy,
           proxied |-> l.proxied, ttl |-> l.ttl, key |-> key, kept |-> kept,
           attempt |-> l.attempt, hop |-> l.hop, at |-> l.at, via |-> l.via, answer |-> answer]
  BY DEF LoadSound, IsLoad
<1>2. IsLoad(m) BY <1>1 DEF IsLoad
<1>3. l.via = {} /\ l.policy \in 0..Len(policies) BY DEF LoadSound
<1>4. CASE pc = "got" /\ answer = "error" /\ kept = {}
  BY <1>1, <1>2, <1>3, <1>4 DEF LoadSound, Same, Good
<1>5. CASE key = KeyOf(l) /\ \A s \in kept : Sound(s) /\ s.key = key
  <2>1. /\ key.id = l.id /\ key.url = l.places[1] /\ key.policy = l.policy
        /\ key.proxy = IF l.proxied \/ (l.policy > 0 /\ NamesProxy(policies[l.policy]))
                       THEN proxyRow ELSE NoProxyRow
    BY <1>5 DEF KeyOf
  <2>2. proxyRow.active \in Nat \ {0} BY DEF SettingsSound
  <2>3. key.proxy.active \in 0..proxyRow.active
    BY <2>1, <2>2 DEF NoProxyRow
  <2>4. proxyRow # NoProxyRow BY <2>2 DEF NoProxyRow
  <2>5. l.policy = 0 => (l.proxied <=> key.proxy # NoProxyRow)
    BY <2>1, <2>4
  <2>6. Keyed(m)
    BY <1>1, <1>3, <2>1, <2>3, <2>5 DEF Keyed
  <2> QED BY <1>1, <1>2, <1>3, <1>5, <2>6 DEF LoadSound, Same, Good
<1> QED BY <1>4, <1>5

LEMMA AttemptsKeep ==
  ASSUME SettingsSound, NEW l, LoadSound(l), l.pc = "hop", NEW answer, answer # "fresh",
         NEW m, m = Attempted(l, answer)
  PROVE  LoadSound(m) /\ Same(l, m)
<1> DEFINE Best == IF answer = "status" \/ l.answer = "status" THEN "status" ELSE "error"
<1>1. ASSUME NEW a, a # "fresh", NEW n, n = LoadAnswered(l, a)
      PROVE  LoadSound(n) /\ Same(l, n)
  <2> DEFINE Way == IF a = "usable" THEN l.via ELSE {}
  <2>1. n = [pc |-> "got", id |-> l.id, places |-> l.places, policy |-> l.policy,
             proxied |-> l.proxied, ttl |-> l.ttl, key |-> l.key, kept |-> l.kept,
             attempt |-> 1, hop |-> 0, at |-> l.places[1], via |-> Way, answer |-> a]
    BY <1>1 DEF LoadAnswered, LoadSound, IsLoad
  <2>2. IsLoad(n) BY <2>1 DEF IsLoad
  <2>3. Keyed(n) BY <2>1 DEF Keyed, LoadSound
  <2> QED BY <1>1, <2>1, <2>2, <2>3 DEF LoadSound, Same
<1>2. CASE m = [l EXCEPT !.attempt = @ + 1, !.at = l.places[l.attempt + 1], !.hop = 0,
                         !.via = {}, !.answer = Best]
  <2>1. m = [pc |-> "hop", id |-> l.id, places |-> l.places, policy |-> l.policy,
             proxied |-> l.proxied, ttl |-> l.ttl, key |-> l.key, kept |-> l.kept,
             attempt |-> l.attempt + 1, hop |-> 0, at |-> l.places[l.attempt + 1],
             via |-> {}, answer |-> Best]
    BY <1>2 DEF LoadSound, IsLoad
  <2>2. IsLoad(m) BY <2>1 DEF IsLoad
  <2>3. Keyed(m) BY <2>1 DEF Keyed, LoadSound
  <2> QED BY <2>1, <2>2, <2>3 DEF LoadSound, Same
<1>3. Best # "fresh" OBVIOUS
<1>4. \/ m = LoadAnswered(l, answer) \/ m = LoadAnswered(l, Best)
      \/ m = [l EXCEPT !.attempt = @ + 1, !.at = l.places[l.attempt + 1], !.hop = 0,
                       !.via = {}, !.answer = Best]
  BY Zenon DEF Attempted
<1> QED BY <1>1, <1>2, <1>3, <1>4

(* Every hop goes by the outbound that its key stands for. *)
LEMMA HopsKeep ==
  ASSUME SettingsSound, NEW l, LoadSound(l), l.pc = "hop", Passable(l),
         NEW m, m = [l EXCEPT !.via = @ \cup {HopOf(l)}]
  PROVE  LoadSound(m) /\ Same(l, m) /\ m.pc = "hop"
<1>1. /\ l.key.policy = l.policy /\ l.key.proxy.active \in 0..proxyRow.active
      /\ l.policy = 0 => (l.proxied <=> l.key.proxy # NoProxyRow)
      /\ l.policy \in Nat
  BY DEF LoadSound, Keyed, SettingsSound
<1>2. WentBy(l.key, HopOf(l))
  BY <1>1 DEF WentBy, HopOf, Outbound, SettingsSound
<1>3. m = [pc |-> "hop", id |-> l.id, places |-> l.places, policy |-> l.policy,
           proxied |-> l.proxied, ttl |-> l.ttl, key |-> l.key, kept |-> l.kept,
           attempt |-> l.attempt, hop |-> l.hop, at |-> l.at,
           via |-> l.via \cup {HopOf(l)}, answer |-> l.answer]
  BY DEF LoadSound, IsLoad
<1>4. IsLoad(m) BY <1>3 DEF IsLoad
<1>5. Keyed(m) BY <1>2, <1>3 DEF Keyed, LoadSound
<1> QED BY <1>3, <1>4, <1>5 DEF LoadSound, Same

LEMMA RedirectsKeep ==
  ASSUME SettingsSound, NEW l, LoadSound(l), l.pc = "hop", NEW site,
         NEW m, m = [l EXCEPT !.hop = @ + 1, !.at = site]
  PROVE  LoadSound(m) /\ Same(l, m)
<1>1. m = [pc |-> "hop", id |-> l.id, places |-> l.places, policy |-> l.policy,
           proxied |-> l.proxied, ttl |-> l.ttl, key |-> l.key, kept |-> l.kept,
           attempt |-> l.attempt, hop |-> l.hop + 1, at |-> site,
           via |-> l.via, answer |-> l.answer]
  BY DEF LoadSound, IsLoad
<1>2. IsLoad(m) BY <1>1 DEF IsLoad
<1>3. Keyed(m) BY <1>1 DEF Keyed, LoadSound
<1> QED BY <1>1, <1>2, <1>3 DEF LoadSound, Same

(* What is taken from a load went the way of the load's own key. *)
LEMMA ResultSound ==
  ASSUME NEW l, LoadSound(l), l.pc = "got", Good(l)
  PROVE  /\ Sound(Result(l)) /\ Result(l).key = l.key
         /\ l.key.id = l.id /\ l.key.url = l.places[1]
<1>1. /\ l.key.id = l.id /\ l.key.url = l.places[1] /\ l.key.policy = l.policy
      /\ \A hop \in l.via : WentBy(l.key, hop)
      /\ l.policy \in 0..Len(policies)
  BY DEF LoadSound, Keyed
<1>2. CASE l.answer = "usable"
  BY <1>1, <1>2 DEF Result, Sound
<1>3. CASE l.answer # "usable"
  <2> DEFINE s == CHOOSE s \in l.kept : TRUE
  <2>1. l.kept # {} BY <1>3 DEF Good, LoadSound
  <2>2. s \in l.kept BY <2>1
  <2>3. Sound(s) /\ s.key = l.key BY <2>2 DEF LoadSound
  <2>4. Result(l) = [key |-> s.key, via |-> s.via, content |-> s.content]
    BY <1>3 DEF Result
  <2> HIDE DEF s
  <2> QED BY <1>1, <2>3, <2>4 DEF Sound
<1> QED BY <1>2, <1>3

LEMMA StoringKeeps ==
  ASSUME StoredSound, NEW l, LoadSound(l), l.pc = "got", stored' = StoredAfter(l),
         UNCHANGED <<policies, proxyRow>>
  PROVE  StoredSound'
<1> DEFINE where == CacheOf(sourceJob.kind)
           new == [where |-> where, by |-> sourceJob.kind, key |-> l.key, via |-> l.via,
                   content |-> l.answer, fresh |-> TRUE]
<1>1. CASE stored' = stored
  BY <1>1 DEF StoredSound, CachesOfWriters, IsEntry, Sound, WentBy
<1>2. CASE l.answer = "usable" /\ Stores(sourceJob.kind)
  <2>1. stored' \subseteq stored \cup {new} BY <1>2 DEF StoredAfter
  <2>2. \A s \in stored' : s = new \/ (s \in stored /\ ~(s.where = where /\ s.key = l.key))
    BY <1>2 DEF StoredAfter
  <2>3. IsEntry(new) BY DEF IsEntry
  <2>4. Sound(new)
    BY <1>2 DEF Sound, LoadSound, Keyed, Good
  <2>5. new.by \in {"preview", "convert", "list"} /\ new.where = where /\ new.key = l.key
    BY <1>2 DEF Stores
  <2> HIDE DEF new, where
  <2>6. \A s \in stored' : IsEntry(s) /\ Sound(s) /\ s.by \in {"preview", "convert", "list"}
    BY <2>1, <2>3, <2>4, <2>5 DEF StoredSound, CachesOfWriters
  <2>7. \A s, t \in stored' : t.where = s.where /\ t.key = s.key => t = s
    BY <2>2, <2>5 DEF StoredSound, CachesOfWriters
  <2>8. \A s \in stored' : Sound(s)' BY <2>6 DEF Sound, WentBy
  <2> QED BY <2>6, <2>7, <2>8 DEF StoredSound, CachesOfWriters, IsEntry
<1> QED BY <1>1, <1>2 DEF StoredAfter

LEMMA ExpiryKeeps ==
  ASSUME StoredSound, ExpireSnapshots
  PROVE  StoredSound'
<1> DEFINE Old(s) == [s EXCEPT !.fresh = FALSE]
<1>1. stored' = {Old(s) : s \in stored} /\ UNCHANGED <<policies, proxyRow>>
  BY DEF ExpireSnapshots
<1>2. ASSUME NEW s \in stored
      PROVE  /\ Old(s) = [where |-> s.where, by |-> s.by, key |-> s.key, via |-> s.via,
                          content |-> s.content, fresh |-> FALSE]
             /\ IsEntry(Old(s)) /\ Sound(Old(s))
  <2>0. IsEntry(s) BY DEF StoredSound
  <2>1. ASSUME NEW o, o = Old(s)
        PROVE  o = [where |-> s.where, by |-> s.by, key |-> s.key, via |-> s.via,
                    content |-> s.content, fresh |-> FALSE]
    BY <2>0, <2>1 DEF IsEntry
  <2>2. Sound(s) BY DEF StoredSound
  <2> HIDE DEF Old
  <2> QED BY <2>1, <2>2 DEF IsEntry, Sound
<1> HIDE DEF Old
<1>3. \A s \in stored' : IsEntry(s) /\ Sound(s) /\ s.by \in {"preview", "convert", "list"}
  BY <1>1, <1>2 DEF StoredSound, CachesOfWriters
<1>4. \A s, t \in stored' : t.where = s.where /\ t.key = s.key => t = s
  BY <1>1, <1>2 DEF StoredSound, CachesOfWriters
<1>5. \A s \in stored' : Sound(s)' BY <1>1, <1>3 DEF Sound, WentBy
<1> QED BY <1>3, <1>4, <1>5 DEF StoredSound, CachesOfWriters, IsEntry

LEMMA LoadsMove ==
  ASSUME SourcesInv, NEW w \in 1..Window, LoadPolicy(w) \/ LookupSnapshot(w) \/ Hop(w)
  PROVE  \E l : /\ load' = [load EXCEPT ![w] = l] /\ load[w] # NoLoad
                /\ LoadSound(l) /\ Same(load[w], l)
<1> DEFINE l == load[w]
<1>0. l.pc \in {"policy", "lookup", "hop"} BY DEF LoadPolicy, LookupSnapshot, Hop
<1>1. l # NoLoad BY <1>0 DEF NoLoad
<1>2. LoadSound(l) /\ SettingsSound /\ StoredSound BY <1>1 DEF SourcesInv, LoadsSound
<1>3. CASE LoadPolicy(w)
  <2> DEFINE m == [l EXCEPT !.pc = "lookup", !.policy = Len(policies)]
  <2>1. l.pc = "policy" /\ load' = [load EXCEPT ![w] = m] BY <1>3 DEF LoadPolicy, StepLoad
  <2> HIDE DEF l
  <2>2. LoadSound(m) /\ Same(l, m) BY <1>2, <2>1, PolicyLoads
  <2> QED BY <1>1, <2>1, <2>2 DEF l
<1>4. CASE LookupSnapshot(w)
  <2> DEFINE key == KeyOf(l)
             kept == {s \in stored : s.where = CacheOf(sourceJob.kind) /\ s.key = key}
             M(pc, k, S, a) == [l EXCEPT !.pc = pc, !.key = k, !.kept = S, !.answer = a]
  <2>1. l.pc = "lookup" BY <1>4 DEF LookupSnapshot
  <2>2. l.kept = {} /\ l.answer = "error" /\ IsLoad(l) BY <1>2, <2>1 DEF LoadSound
  <2>3. \A s \in kept : Sound(s) /\ s.key = key BY <1>2 DEF StoredSound
  <2>4. \/ load' = [load EXCEPT ![w] = [l EXCEPT !.pc = "got", !.answer = "error"]]
        \/ /\ kept # {}
           /\ load' = [load EXCEPT ![w] = [l EXCEPT !.pc = "got", !.key = key,
                                                    !.answer = "fresh", !.kept = kept]]
        \/ \E S \in {{}, kept} :
             load' = [load EXCEPT ![w] = [l EXCEPT !.pc = "hop", !.key = key, !.kept = S]]
    BY <1>4 DEF LookupSnapshot, StepLoad
  <2>5. /\ [l EXCEPT !.pc = "got", !.answer = "error"] = M("got", l.key, {}, "error")
        /\ [l EXCEPT !.pc = "got", !.key = key, !.answer = "fresh", !.kept = kept]
             = M("got", key, kept, "fresh")
        /\ \A S \in {{}, kept} :
             [l EXCEPT !.pc = "hop", !.key = key, !.kept = S] = M("hop", key, S, "error")
    BY <2>2 DEF IsLoad
  <2> HIDE DEF l, key, kept, M
  <2>6. ASSUME NEW m,
               \/ m = M("got", l.key, {}, "error")
               \/ kept # {} /\ m = M("got", key, kept, "fresh")
               \/ \E S \in {{}, kept} : m = M("hop", key, S, "error")
        PROVE  LoadSound(m) /\ Same(l, m)
    <3>1. CASE m = M("got", l.key, {}, "error")
      BY <1>2, <2>1, <3>1, LookedUp DEF M
    <3>2. CASE kept # {} /\ m = M("got", key, kept, "fresh")
      BY <1>2, <2>1, <2>3, <3>2, LookedUp DEF M, key
    <3>3. ASSUME NEW S \in {{}, kept}, m = M("hop", key, S, "error")
          PROVE  LoadSound(m) /\ Same(l, m)
      BY <1>2, <2>1, <2>3, <3>3, LookedUp DEF M, key
    <3> QED BY <2>6, <3>1, <3>2, <3>3
  <2>7. \E m : /\ load' = [load EXCEPT ![w] = m]
               /\ \/ m = M("got", l.key, {}, "error")
                  \/ kept # {} /\ m = M("got", key, kept, "fresh")
                  \/ \E S \in {{}, kept} : m = M("hop", key, S, "error")
    BY <2>4, <2>5
  <2> QED BY <1>1, <2>6, <2>7 DEF l
<1>5. CASE Hop(w)
  <2> DEFINE gone == [l EXCEPT !.via = @ \cup {HopOf(l)}]
  <2>1. l.pc = "hop" BY <1>5 DEF Hop
  <2>2. \/ load' = [load EXCEPT ![w] = Attempted(l, "error")]
        \/ /\ Passable(l)
           /\ \/ \E answer \in {"usable", "empty", "status", "error"} :
                   load' = [load EXCEPT ![w] = Attempted(gone, answer)]
              \/ \E site : load' = [load EXCEPT ![w] = [gone EXCEPT !.hop = @ + 1, !.at = site]]
    BY <1>5 DEF Hop, StepLoad
  <2> HIDE DEF l, gone
  <2>3. CASE load' = [load EXCEPT ![w] = Attempted(l, "error")]
    BY <1>1, <1>2, <2>1, <2>3, AttemptsKeep DEF l
  <2>4. CASE Passable(l) /\ load' # [load EXCEPT ![w] = Attempted(l, "error")]
    <3>1. LoadSound(gone) /\ Same(l, gone) /\ gone.pc = "hop"
      BY <1>2, <2>1, <2>4, HopsKeep DEF gone
    <3>2. ASSUME NEW answer \in {"usable", "empty", "status", "error"},
                 load' = [load EXCEPT ![w] = Attempted(gone, answer)]
          PROVE  LoadSound(Attempted(gone, answer)) /\ Same(l, Attempted(gone, answer))
      BY <1>2, <3>1, AttemptsKeep DEF Same
    <3>3. ASSUME NEW site
          PROVE  LET m == [gone EXCEPT !.hop = @ + 1, !.at = site]
                 IN  LoadSound(m) /\ Same(l, m)
      BY <1>2, <3>1, RedirectsKeep DEF Same
    <3> QED BY <1>1, <2>2, <2>4, <3>2, <3>3 DEF l
  <2> QED BY <2>2, <2>3, <2>4
<1> QED BY <1>3, <1>4, <1>5

LEMMA SlotsRange ==
  1 \in 1..Window /\ \A i \in Nat \ {0} : SlotOf(i) \in 1..Window
<1> Window \in Nat \ {0} BY SourcesAssumption
<1> QED BY DEF SlotOf

(***************************************************************************)
(* Sources: what a step does to the loads.                                 *)
(***************************************************************************)
AllDropped == load' = [x \in 1..Window |-> NoLoad]
OneBecomes(w, l) == load' = [load EXCEPT ![w] = l] /\ (l = NoLoad \/ LoadSound(l))

LEMMA LoadSteps ==
  ASSUME SourcesInv, [SourcesNext]_sourceVars
  PROVE  load' = load \/ AllDropped \/ \E w \in 1..Window : \E l : OneBecomes(w, l)
<1>0. SettingsSound /\ LoadsSound /\ JobSound BY DEF SourcesInv
<1>1. 1 \in 1..Window BY SlotsRange
<1>2. CASE BeginRelay \/ BeginList \/ BeginInspection
  <2>1. ASSUME NEW kind, NEW l, BeginSingle(kind, l), LoadSound(l)
        PROVE  \E w \in 1..Window : \E m : OneBecomes(w, m)
    BY <1>1, <2>1 DEF BeginSingle, StepLoad, OneBecomes
  <2>2. \/ \E kind, id, places : BeginSingle(kind, RelayLoad(id, places))
        \/ \E kind, item : BeginSingle(kind, NodeLoad(item))
    BY <1>2 DEF BeginRelay, BeginList, BeginInspection
  <2> QED BY <1>0, <2>1, <2>2, LoadsBegin
<1>3. CASE EndSourcesJob \/ DropJob
  BY <1>3 DEF EndSourcesJob, DropJob, AllDropped
<1>4. ASSUME NEW w \in 1..Window, LoadPolicy(w) \/ LookupSnapshot(w) \/ Hop(w)
      PROVE  \E m : OneBecomes(w, m)
  BY <1>4, LoadsMove DEF OneBecomes
<1>5. CASE NextSource
  BY <1>0, <1>1, <1>5, LoadsBegin DEF NextSource, StepLoad, OneBecomes
<1>6. CASE SourceLoaded \/ SingleAnswers
  BY <1>1, <1>6 DEF SourceLoaded, SingleAnswers, StepLoad, OneBecomes
<1>7. CASE StartProvider
  <2>1. PICK i \in DOMAIN sourceJob.providers :
          /\ Len(sourceJob.rules) < i
          /\ StepLoad(SlotOf(i), RelayLoad(sourceJob.providers[i].tag,
                                           Retried(sourceJob.providers[i].url)))
    BY <1>7 DEF StartProvider
  <2>2. sourceJob # NoSourceJob BY <1>7 DEF StartProvider, NoSourceJob
  <2>3. i \in Nat \ {0} BY <1>0, <2>2 DEF JobSound, Ruled, IsSeq
  <2> QED BY <1>0, <2>1, <2>3, SlotsRange, LoadsBegin DEF StepLoad, OneBecomes
<1>8. CASE ProviderLoaded
  <2>1. sourceJob # NoSourceJob BY <1>8 DEF ProviderLoaded, NoSourceJob
  <2>2. Len(sourceJob.rules) + 1 \in Nat \ {0} BY <1>0, <2>1 DEF JobSound, Ruled, IsSeq
  <2> QED BY <1>8, <2>2, SlotsRange DEF ProviderLoaded, StepLoad, OneBecomes, AllDropped
<1>9. CASE UNCHANGED load
  BY <1>9
<1> QED
  BY <1>2, <1>3, <1>4, <1>5, <1>6, <1>7, <1>8, <1>9 DEF SourcesNext, sourceVars,
     ChangeEgress, ChangeProxy, Attach, ExpireSnapshots, BeginSubscription, LoadNodes,
     SourcesLoaded, CompileSources

LEMMA LoadsKept ==
  ASSUME SourcesInv, [SourcesNext]_sourceVars, SettingsSound', Grown
  PROVE  LoadsSound'
<1>0. SettingsSound /\ LoadsSound BY DEF SourcesInv
<1>1. \A l : LoadSound(l) => LoadSound(l)' BY <1>0, LoadKept
<1>2. CASE load' = load BY <1>0, <1>1, <1>2 DEF LoadsSound
<1>3. CASE AllDropped BY <1>3 DEF AllDropped, LoadsSound
<1>4. ASSUME NEW w \in 1..Window, NEW l, OneBecomes(w, l)
      PROVE  LoadsSound'
  BY <1>0, <1>1, <1>4 DEF LoadsSound, OneBecomes
<1> QED BY <1>2, <1>3, <1>4, LoadSteps

LEMMA StoredKept ==
  ASSUME SourcesInv, [SourcesNext]_sourceVars, SettingsSound', Grown
  PROVE  StoredSound'
<1>0. SettingsSound /\ StoredSound /\ LoadsSound BY DEF SourcesInv
<1>1. CASE UNCHANGED stored
  <2>1. \A s \in stored : Sound(s)' BY <1>0, SoundKept DEF StoredSound
  <2> QED BY <1>0, <1>1, <2>1 DEF StoredSound, CachesOfWriters, IsEntry
<1>2. CASE ExpireSnapshots BY <1>0, <1>2, ExpiryKeeps
<1>3. CASE SourceLoaded \/ SingleAnswers
  <2>1. /\ load[1].pc = "got" /\ stored' = StoredAfter(load[1])
        /\ UNCHANGED <<policies, proxyRow>>
    BY <1>3 DEF SourceLoaded, SingleAnswers, settingVars
  <2>2. load[1] # NoLoad BY <2>1 DEF NoLoad
  <2>3. LoadSound(load[1]) BY <1>0, <2>2, SlotsRange DEF LoadsSound
  <2> QED BY <1>0, <2>1, <2>3, StoringKeeps
<1> QED
  BY <1>1, <1>2, <1>3 DEF SourcesNext, sourceVars, ChangeEgress, ChangeProxy, Attach,
     BeginSubscription, LoadNodes, BeginRelay, BeginList, BeginInspection, BeginSingle,
     EndSourcesJob, DropJob, LoadPolicy, LookupSnapshot, Hop, NextSource,
     SourcesLoaded, StartProvider, ProviderLoaded, CompileSources

(***************************************************************************)
(* Sources: what a step does to the job.                                   *)
(***************************************************************************)
LEMMA Ranges ==
  ASSUME NEW items, NEW stages, NEW uses, NEW failed, NEW at,
         Account(items, stages, uses, failed, at)
  PROVE  at \in Nat /\ Len(uses) \in 0..at /\ Len(items) \in Nat /\ at <= Len(items)
<1>1. Len(uses) \in Nat /\ Len(items) \in Nat /\ Len(stages) \in Nat /\ failed \in Nat
  BY Appends DEF Account
<1> QED BY <1>1 DEF Account

(* One more stage: of those before it the account says what it said. *)
AfterStage(items, stages, uses, at, stage, after) ==
    /\ IsSeq(after) /\ Len(after) = at + 1
    /\ \A i \in 1..(at + 1) : after[i] \in {"ok", "error"}
    /\ (\E i \in 1..(at + 1) : after[i] = "ok") <=> (stage = "ok" \/ Len(uses) > 0)
    /\ after[at + 1] = stage
    /\ \A u : UseSound(items, stages, at, u) => UseSound(items, after, at + 1, u)
LEMMA StageAppends ==
  ASSUME NEW items, NEW stages, NEW uses, NEW failed, NEW at,
         Account(items, stages, uses, failed, at), NEW stage \in {"ok", "error"},
         NEW after, after = Append(stages, stage)
  PROVE  AfterStage(items, stages, uses, at, stage, after)
<1>1. at \in Nat /\ Len(stages) = at /\ IsSeq(stages) BY Ranges DEF Account
<1>2. /\ IsSeq(after) /\ Len(after) = at + 1 /\ after[at + 1] = stage
      /\ \A i \in 1..at : after[i] = stages[i]
  BY <1>1, Appends
<1>3. /\ \A i \in 1..(at + 1) : i \in 1..at \/ i = at + 1
      /\ \A i \in 1..at : i \in 1..(at + 1)
      /\ at + 1 \in 1..(at + 1)
  BY <1>1
<1>4. \A i \in 1..(at + 1) : after[i] \in {"ok", "error"}
  BY <1>2, <1>3 DEF Account
<1>5. (\E i \in 1..(at + 1) : after[i] = "ok") <=> (stage = "ok" \/ Len(uses) > 0)
  BY <1>2, <1>3 DEF Account
<1>6. ASSUME NEW u, UseSound(items, stages, at, u)
      PROVE  UseSound(items, after, at + 1, u)
  BY <1>2, <1>3, <1>6 DEF UseSound
<1> QED BY <1>2, <1>4, <1>5, <1>6 DEF AfterStage

LEMMA FailureCounts ==
  ASSUME NEW items, NEW stages, NEW uses, NEW failed, NEW at,
         Account(items, stages, uses, failed, at), at < Len(items)
  PROVE  Account(items, Append(stages, "error"), uses, failed + 1, at + 1)
<1> DEFINE after == Append(stages, "error")
<1> HIDE DEF after
<1>0. after = Append(stages, "error") /\ "error" \in {"ok", "error"} BY DEF after
<1>1. /\ IsSeq(after) /\ Len(after) = at + 1
      /\ \A i \in 1..(at + 1) : after[i] \in {"ok", "error"}
      /\ (\E i \in 1..(at + 1) : after[i] = "ok") <=> Len(uses) > 0
      /\ \A u : UseSound(items, stages, at, u) => UseSound(items, after, at + 1, u)
  <2>1. AfterStage(items, stages, uses, at, "error", after) BY <1>0, StageAppends
  <2> QED BY <2>1 DEF AfterStage
<1>2. /\ at \in Nat /\ Len(uses) \in 0..at /\ Len(items) \in Nat /\ failed \in Nat
      /\ Len(uses) + failed = at
  BY Ranges DEF Account
<1>3. failed + 1 \in Nat /\ Len(uses) + (failed + 1) = at + 1 /\ at + 1 <= Len(items)
  BY <1>2
<1>4. Account(items, after, uses, failed + 1, at + 1) BY <1>1, <1>3 DEF Account
<1> QED BY <1>0, <1>4

LEMMA UseCounts ==
  ASSUME NEW items, NEW stages, NEW uses, NEW failed, NEW at,
         Account(items, stages, uses, failed, at), at < Len(items),
         NEW u, u.of = at + 1,
         u.how = "loaded" => Sound(u.what) /\ u.what.key.url = items[u.of].url
  PROVE  Account(items, Append(stages, "ok"), Append(uses, u), failed, at + 1)
<1> DEFINE after == Append(stages, "ok")
           all == Append(uses, u)
<1> HIDE DEF after, all
<1>0. after = Append(stages, "ok") /\ "ok" \in {"ok", "error"} BY DEF after
<1>1. /\ IsSeq(after) /\ Len(after) = at + 1
      /\ \A i \in 1..(at + 1) : after[i] \in {"ok", "error"}
      /\ \E i \in 1..(at + 1) : after[i] = "ok"
      /\ after[at + 1] = "ok"
      /\ \A v : UseSound(items, stages, at, v) => UseSound(items, after, at + 1, v)
  <2>1. AfterStage(items, stages, uses, at, "ok", after) BY <1>0, StageAppends
  <2> QED BY <2>1 DEF AfterStage
<1>2. /\ at \in Nat /\ Len(uses) \in 0..at /\ Len(items) \in Nat /\ failed \in Nat
      /\ Len(uses) + failed = at /\ IsSeq(uses)
  BY Ranges DEF Account
<1>3. /\ IsSeq(all) /\ Len(all) = Len(uses) + 1 /\ all[Len(uses) + 1] = u
      /\ \A i \in 1..Len(uses) : all[i] = uses[i]
  BY <1>2, Appends DEF all
<1>4. UseSound(items, after, at + 1, u) BY <1>1, <1>2 DEF UseSound
<1>5. \A i \in 1..Len(all) : i \in 1..Len(uses) \/ i = Len(uses) + 1 BY <1>2, <1>3
<1>6. \A i \in 1..Len(all) : UseSound(items, after, at + 1, all[i])
  BY <1>1, <1>3, <1>4, <1>5 DEF Account
<1>7. ASSUME NEW i \in 2..Len(all) PROVE all[i - 1].of < all[i].of
  <2>1. i - 1 \in 1..Len(uses) /\ all[i - 1] = uses[i - 1] BY <1>2, <1>3
  <2>2. CASE i \in 2..Len(uses)
    BY <1>3, <2>1, <2>2 DEF Account
  <2>3. CASE i = Len(uses) + 1
    <3>1. uses[i - 1].of \in 1..at BY <2>1 DEF Account, UseSound
    <3> QED BY <1>2, <1>3, <2>1, <2>3, <3>1
  <2> QED BY <1>2, <1>3, <2>2, <2>3
<1>8. Len(all) > 0 /\ Len(all) + failed = at + 1 /\ at + 1 <= Len(items) BY <1>2, <1>3
<1>9. IsSeq(items) BY DEF Account
<1>10. Account(items, after, all, failed, at + 1)
  BY <1>1, <1>2, <1>3, <1>6, <1>7, <1>8, <1>9 DEF Account
<1> QED BY <1>10 DEF after, all

(* The next source is used, or it failed. *)
Counts(j, k, u) ==
    \/ k = [j EXCEPT !.at = @ + 1, !.stages = Append(@, "error"), !.failed = @ + 1]
    \/ /\ k = [j EXCEPT !.at = @ + 1, !.stages = Append(@, "ok"), !.used = Append(@, u)]
       /\ u.how = "loaded" => Sound(u.what) /\ u.what.key.url = j.items[u.of].url
LEMMA SourcesCount ==
  ASSUME NEW j, IsJob(j), Accounted(j), j.at < Len(j.items),
         NEW k, NEW u, u.of = j.at + 1, Counts(j, k, u)
  PROVE  /\ IsJob(k) /\ Accounted(k)
         /\ k.pc = j.pc /\ k.items = j.items /\ k.providers = j.providers /\ k.rules = j.rules
<1> DEFINE Counted(stage, uses, failed) ==
      [kind |-> j.kind, pc |-> j.pc, selected |-> j.selected, items |-> j.items,
       providers |-> j.providers, at |-> j.at + 1, stages |-> Append(j.stages, stage),
       used |-> uses, failed |-> failed, rules |-> j.rules, output |-> j.output,
       report |-> j.report]
<1>1. CASE k = [j EXCEPT !.at = @ + 1, !.stages = Append(@, "error"), !.failed = @ + 1]
  <2>1. k = Counted("error", j.used, j.failed + 1) BY <1>1 DEF IsJob
  <2>2. Account(j.items, Append(j.stages, "error"), j.used, j.failed + 1, j.at + 1)
    BY FailureCounts DEF Accounted
  <2> QED BY <2>1, <2>2 DEF IsJob, Accounted
<1>2. CASE /\ k = [j EXCEPT !.at = @ + 1, !.stages = Append(@, "ok"), !.used = Append(@, u)]
           /\ u.how = "loaded" => Sound(u.what) /\ u.what.key.url = j.items[u.of].url
  <2>1. k = Counted("ok", Append(j.used, u), j.failed) BY <1>2 DEF IsJob
  <2>2. Account(j.items, Append(j.stages, "ok"), Append(j.used, u), j.failed, j.at + 1)
    BY <1>2, UseCounts DEF Accounted
  <2> QED BY <2>1, <2>2 DEF IsJob, Accounted
<1> QED BY <1>1, <1>2 DEF Counts

LEMMA JobMoves ==
  ASSUME NEW j, IsJob(j), Accounted(j), NEW pc, NEW taken, NEW output, NEW report,
         NEW k, k = [j EXCEPT !.pc = pc, !.rules = taken, !.output = output, !.report = report]
  PROVE  /\ IsJob(k) /\ Accounted(k) /\ k.pc = pc /\ k.rules = taken /\ k.output = output
         /\ k.items = j.items /\ k.providers = j.providers /\ k.at = j.at
<1>1. k = [kind |-> j.kind, pc |-> pc, selected |-> j.selected, items |-> j.items,
           providers |-> j.providers, at |-> j.at, stages |-> j.stages,
           used |-> j.used, failed |-> j.failed, rules |-> taken, output |-> output,
           report |-> report]
  BY DEF IsJob
<1> QED BY <1>1 DEF IsJob, Accounted

(* Where only the stage changes. *)
LEMMA JobTurns ==
  ASSUME NEW j, IsJob(j), Accounted(j), NEW pc, NEW k, k = [j EXCEPT !.pc = pc]
  PROVE  /\ IsJob(k) /\ Accounted(k) /\ k.pc = pc /\ k.rules = j.rules /\ k.output = j.output
         /\ k.items = j.items /\ k.providers = j.providers /\ k.at = j.at
<1>1. k = [kind |-> j.kind, pc |-> pc, selected |-> j.selected, items |-> j.items,
           providers |-> j.providers, at |-> j.at, stages |-> j.stages,
           used |-> j.used, failed |-> j.failed, rules |-> j.rules, output |-> j.output,
           report |-> j.report]
  BY DEF IsJob
<1> QED BY <1>1 DEF IsJob, Accounted

NewJob(kind, pc, selected, items, books) ==
    [kind |-> kind, pc |-> pc, selected |-> selected, items |-> items,
     providers |-> books, at |-> 0, stages |-> <<>>, used |-> <<>>, failed |-> 0,
     rules |-> <<>>, output |-> <<>>, report |-> "none"]

LEMMA JobBegins ==
  ASSUME NEW kind, NEW pc \in {"nodes", "single"}, NEW selected, NEW items, NEW books,
         IsSeq(items), IsSeq(books),
         NEW k, k = NewJob(kind, pc, selected, items, books)
  PROVE  IsJob(k) /\ Accounted(k) /\ Ruled(k) /\ k.pc = pc /\ k # NoSourceJob
<1>1. /\ k.pc = pc /\ k.items = items /\ k.providers = books /\ k.at = 0 /\ k.stages = <<>>
      /\ k.used = <<>> /\ k.failed = 0 /\ k.rules = <<>> /\ IsJob(k)
  BY DEF NewJob, IsJob
<1>2. IsSeq(<<>>) /\ Len(<<>>) = 0 BY DEF IsSeq
<1>3. Len(items) \in Nat BY Appends
<1>4. Account(items, <<>>, <<>>, 0, 0) BY <1>2, <1>3 DEF Account
<1>5. Accounted(k) BY <1>1, <1>4 DEF Accounted
<1>6. Ruled(k) BY <1>1, <1>2 DEF Ruled
<1>7. k # NoSourceJob BY <1>1 DEF NoSourceJob
<1> QED BY <1>1, <1>5, <1>6, <1>7

JobMade(j) ==
    /\ j # NoSourceJob => IsJob(j) /\ j.pc # "none" /\ Accounted(j) /\ Ruled(j)
    /\ LoadsOf(j)'

LEMMA JobsBegin ==
  ASSUME SourcesInv, BeginSubscription \/ BeginRelay \/ BeginList \/ BeginInspection
  PROVE  \E k : k = sourceJob' /\ JobMade(k)
<1>1. CASE BeginSubscription
  <2>1. PICK kind, document, books :
          /\ document \in Documents /\ books \in {<<>>, document.providers}
          /\ sourceJob' = [SourcesJob(kind) EXCEPT !.selected = document.selected,
               !.items = EnabledItems(document), !.providers = books]
    BY <1>1 DEF BeginSubscription
  <2>2. IsSeq(EnabledItems(document)) BY <2>1, ItemsAssumption, Sequences
  <2>3. IsSeq(books)
    <3>1. IsSeq(<<>>) BY DEF IsSeq
    <3> QED BY <2>1, <3>1, ItemsAssumption, Sequences
  <2>4. sourceJob' = NewJob(kind, "nodes", document.selected, EnabledItems(document), books)
    BY <2>1 DEF SourcesJob, NewJob
  <2>5. PICK k : k = sourceJob' OBVIOUS
  <2>6. IsJob(k) /\ Accounted(k) /\ Ruled(k) /\ k.pc = "nodes" /\ k # NoSourceJob
    BY <2>2, <2>3, <2>4, <2>5, JobBegins
  <2>7. sourceJob = NoSourceJob /\ load' = load BY <1>1 DEF BeginSubscription, MayBeginJob
  <2>8. NoLoads(1..Window) BY <2>7 DEF SourcesInv, JobSound, LoadsOf, NoSourceJob
  <2>9. LoadsOf(k)' BY <2>6, <2>7, <2>8 DEF LoadsOf, NoLoads
  <2> QED BY <2>5, <2>6, <2>9 DEF JobMade
<1>2. CASE BeginRelay \/ BeginList \/ BeginInspection
  <2>1. PICK kind : sourceJob' = [SourcesJob(kind) EXCEPT !.pc = "single"]
    BY <1>2 DEF BeginRelay, BeginList, BeginInspection, BeginSingle
  <2>2. sourceJob' = NewJob(kind, "single", "none", <<>>, <<>>)
    BY <2>1 DEF SourcesJob, NewJob
  <2>3. IsSeq(<<>>) BY DEF IsSeq
  <2>4. PICK k : k = sourceJob' OBVIOUS
  <2>5. IsJob(k) /\ Accounted(k) /\ Ruled(k) /\ k.pc = "single" /\ k # NoSourceJob
    BY <2>2, <2>3, <2>4, JobBegins
  <2>6. LoadsOf(k)' BY <2>5 DEF LoadsOf
  <2> QED BY <2>4, <2>5, <2>6 DEF JobMade
<1> QED BY <1>1, <1>2

(* The loads of a job move under it. *)
LEMMA MovesKeep ==
  ASSUME SourcesInv, NEW w \in 1..Window, LoadPolicy(w) \/ LookupSnapshot(w) \/ Hop(w)
  PROVE  \E k : k = sourceJob' /\ JobMade(k)
<1>1. PICK l : /\ load' = [load EXCEPT ![w] = l] /\ load[w] # NoLoad
               /\ LoadSound(l) /\ Same(load[w], l)
  BY LoadsMove
<1>2. sourceJob' = sourceJob BY DEF LoadPolicy, LookupSnapshot, Hop
<1>3. /\ DOMAIN load = 1..Window /\ JobSound BY DEF SourcesInv, LoadsSound
<1>4. \A x \in 1..Window : /\ load'[x] = NoLoad <=> load[x] = NoLoad
                           /\ load'[x].id = load[x].id /\ load'[x].places = load[x].places
  BY <1>1, <1>3 DEF Same, LoadSound, NoLoad
<1>5. PICK k : k = sourceJob OBVIOUS
<1>6. 1 \in 1..Window /\ 2..Window \subseteq 1..Window BY SlotsRange
<1>7. k.pc = "rules" => Len(k.rules) \in Nat
  BY <1>3, <1>5, Appends DEF JobSound, Ruled, NoSourceJob
<1>8. LoadsOf(k) BY <1>3, <1>5 DEF JobSound
<1>9. /\ k.pc \in {"none", "nodes"} => NoLoads(1..Window)'
      /\ k.pc = "sources" => NoLoads(2..Window)'
  BY <1>4, <1>6, <1>8 DEF LoadsOf, NoLoads
<1>10. k.pc = "sources" /\ load'[1] # NoLoad =>
         k.at < Len(k.items) /\ load'[1].places[1] = k.items[k.at + 1].url
  BY <1>4, <1>6, <1>8 DEF LoadsOf
<1>11. ASSUME k.pc = "rules", NEW i \in (Len(k.rules) + 1)..(Len(k.rules) + Window),
              i <= Len(k.providers), load'[SlotOf(i)] # NoLoad
       PROVE  load'[SlotOf(i)].id = k.providers[i].tag
  <2>0. Window \in Nat BY SourcesAssumption
  <2>1. i \in Nat \ {0} BY <1>7, <1>11, <2>0
  <2>2. SlotOf(i) \in 1..Window BY <2>1, SlotsRange
  <2> QED BY <1>4, <1>8, <1>11, <2>2 DEF LoadsOf
<1>12. LoadsOf(k)' BY <1>9, <1>10, <1>11 DEF LoadsOf
<1> QED BY <1>2, <1>3, <1>5, <1>12 DEF JobMade, JobSound

(* All there is to say of a job at its sources. *)
LEMMA AtTheSources ==
  ASSUME SourcesInv, sourceJob.pc = "sources"
  PROVE  /\ sourceJob # NoSourceJob /\ IsJob(sourceJob) /\ Accounted(sourceJob)
         /\ Ruled(sourceJob) /\ NoLoads(2..Window) /\ DOMAIN load = 1..Window
         /\ load[1] # NoLoad => /\ LoadSound(load[1]) /\ sourceJob.at < Len(sourceJob.items)
                                /\ load[1].places[1] = sourceJob.items[sourceJob.at + 1].url
         /\ SettingsSound /\ sourceJob.at \in Nat /\ Len(sourceJob.items) \in Nat
         /\ \A x \in 1..Window : x = 1 \/ x \in 2..Window
         /\ 1 \in 1..Window /\ 1 \notin 2..Window
<1>1. sourceJob # NoSourceJob BY DEF NoSourceJob
<1>2. 1 \in 1..Window BY SlotsRange
<1>3. Accounted(sourceJob) BY <1>1 DEF SourcesInv, JobSound
<1>4. sourceJob.at \in Nat /\ Len(sourceJob.items) \in Nat BY <1>3, Ranges DEF Accounted
<1>5. Window \in Nat BY SourcesAssumption
<1>6. (\A x \in 1..Window : x = 1 \/ x \in 2..Window) /\ 1 \notin 2..Window BY <1>5
<1> QED BY <1>1, <1>2, <1>3, <1>4, <1>6 DEF SourcesInv, JobSound, LoadsSound, LoadsOf

LEMMA SourcesKeep ==
  ASSUME SourcesInv, NextSource \/ SourceLoaded
  PROVE  \E k : k = sourceJob' /\ JobMade(k)
<1> DEFINE j == sourceJob
<1>1. j.pc = "sources" BY DEF NextSource, AtSource, SourceLoaded
<1>2. /\ j # NoSourceJob /\ IsJob(j) /\ Accounted(j) /\ Ruled(j) /\ NoLoads(2..Window)
      /\ DOMAIN load = 1..Window /\ SettingsSound
      /\ load[1] # NoLoad => /\ LoadSound(load[1]) /\ j.at < Len(j.items)
                             /\ load[1].places[1] = j.items[j.at + 1].url
      /\ (\A x \in 1..Window : x = 1 \/ x \in 2..Window) /\ 1 \in 1..Window /\ 1 \notin 2..Window
      /\ 2..Window \subseteq 1..Window
  BY <1>1, AtTheSources
<1>3. ASSUME NEW u, NEW k, k = sourceJob', j.at < Len(j.items), u.of = j.at + 1,
             Counts(j, k, u),
             (load' = load /\ load[1] = NoLoad) \/ load' = [load EXCEPT ![1] = NoLoad]
      PROVE  JobMade(k)
  <2> HIDE DEF j
  <2>1. /\ IsJob(k) /\ Accounted(k) /\ k.pc = "sources" /\ k.providers = j.providers
        /\ k.rules = j.rules
    BY <1>1, <1>2, <1>3, SourcesCount
  <2>2. Ruled(k) BY <1>1, <1>2, <2>1 DEF Ruled
  <2>3. load'[1] = NoLoad /\ \A x \in 2..Window : load'[x] = NoLoad
    BY <1>2, <1>3 DEF NoLoads
  <2>4. LoadsOf(k)' BY <2>1, <2>3 DEF LoadsOf, NoLoads
  <2> QED BY <2>1, <2>2, <2>4 DEF JobMade
<1>4. CASE NextSource /\ sourceJob' # sourceJob
  <2> DEFINE u == [of |-> j.at + 1, how |-> "inline"]
  <2>1. /\ j.at < Len(j.items) /\ load' = load /\ load[1] = NoLoad
        /\ \/ sourceJob' = [j EXCEPT !.at = @ + 1, !.stages = Append(@, "error"),
                                     !.failed = @ + 1]
           \/ sourceJob' = [j EXCEPT !.at = @ + 1, !.stages = Append(@, "ok"),
                                     !.used = Append(@, u)]
    BY <1>4 DEF NextSource, AtSource, SourceUsed, SourceFailed
  <2>2. u.of = j.at + 1 /\ u.how # "loaded" OBVIOUS
  <2> HIDE DEF u, j
  <2>3. PICK k : k = sourceJob' OBVIOUS
  <2>4. Counts(j, k, u) BY <2>1, <2>2, <2>3 DEF Counts
  <2> QED BY <1>3, <2>1, <2>2, <2>3, <2>4
<1>5. CASE NextSource /\ sourceJob' = sourceJob
  <2>1. load[1] = NoLoad /\ j.at < Len(j.items) BY <1>5 DEF NextSource, AtSource
  <2>2. CASE load' = [load EXCEPT ![1] = NodeLoad(CurrentItem)]
    <3>1. NodeLoad(CurrentItem).places[1] = j.items[j.at + 1].url
      BY <1>2, LoadsBegin DEF CurrentItem
    <3>2. load'[1].places[1] = j.items[j.at + 1].url /\ \A x \in 2..Window : load'[x] = NoLoad
      BY <1>2, <2>2, <3>1 DEF NoLoads
    <3>3. PICK k : k = sourceJob OBVIOUS
    <3>4. LoadsOf(k)' BY <1>1, <2>1, <3>2, <3>3 DEF LoadsOf, NoLoads
    <3> QED BY <1>1, <1>2, <1>5, <3>3, <3>4 DEF JobMade
  <2>3. CASE load' = load
    <3>1. PICK k : k = sourceJob OBVIOUS
    <3>2. LoadsOf(k)' BY <1>1, <1>2, <2>1, <2>3, <3>1 DEF LoadsOf, NoLoads
    <3> QED BY <1>1, <1>2, <1>5, <3>1, <3>2 DEF JobMade
  <2> QED BY <1>5, <2>2, <2>3 DEF NextSource, StepLoad
<1>6. CASE SourceLoaded
  <2> DEFINE u == [of |-> j.at + 1, how |-> "loaded", what |-> Result(load[1])]
  <2>1. /\ load[1].pc = "got" /\ load' = [load EXCEPT ![1] = NoLoad]
        /\ \/ sourceJob' = [j EXCEPT !.at = @ + 1, !.stages = Append(@, "error"),
                                     !.failed = @ + 1]
           \/ /\ sourceJob' = [j EXCEPT !.at = @ + 1, !.stages = Append(@, "ok"),
                                        !.used = Append(@, u)]
              /\ Good(load[1])
    BY <1>6 DEF SourceLoaded, SourceUsed, SourceFailed, StepLoad
  <2>2. load[1] # NoLoad BY <2>1 DEF NoLoad
  <2>3. Good(load[1]) => /\ Sound(Result(load[1])) /\ Result(load[1]).key = load[1].key
                         /\ load[1].key.url = load[1].places[1]
    BY <1>2, <2>1, <2>2, ResultSound
  <2>4. u.of = j.at + 1 /\ u.what = Result(load[1]) OBVIOUS
  <2> HIDE DEF u, j
  <2>5. Good(load[1]) => Sound(u.what) /\ u.what.key.url = j.items[u.of].url
    BY <1>2, <2>2, <2>3, <2>4
  <2>6. PICK k : k = sourceJob' OBVIOUS
  <2>7. Counts(j, k, u) BY <2>1, <2>5, <2>6 DEF Counts
  <2> QED BY <1>2, <1>3, <2>1, <2>2, <2>4, <2>6, <2>7
<1> QED BY <1>4, <1>5, <1>6

(* Turns at which only the stage of the job is another, with the loads it  *)
(* has there.                                                              *)
LEMMA TurnsKeep ==
  ASSUME SourcesInv, LoadNodes \/ SourcesLoaded
  PROVE  \E k : k = sourceJob' /\ JobMade(k)
<1> DEFINE j == sourceJob
<1>1. j.pc \in {"nodes", "sources"} BY DEF LoadNodes, SourcesLoaded
<1>2. j # NoSourceJob BY <1>1 DEF NoSourceJob
<1>3. IsJob(j) /\ Accounted(j) /\ Ruled(j) BY <1>2 DEF SourcesInv, JobSound
<1>4. NoLoads(1..Window)
  <2>1. CASE LoadNodes BY <2>1 DEF LoadNodes, SourcesInv, JobSound, LoadsOf
  <2>2. CASE SourcesLoaded
    <3>1. j.pc = "sources" /\ j.at = Len(j.items) BY <2>2 DEF SourcesLoaded
    <3> QED BY <3>1, AtTheSources DEF NoLoads
  <2> QED BY <2>1, <2>2
<1>5. PICK pc \in {"refused", "sources", "rules"} :
        sourceJob' = [j EXCEPT !.pc = pc] /\ load' = load
  BY DEF LoadNodes, SourcesLoaded
<1>6. PICK k : k = sourceJob' OBVIOUS
<1> HIDE DEF j
<1>7. IsJob(k) /\ Accounted(k) /\ k.pc = pc /\ k.rules = j.rules /\ k.providers = j.providers
  BY <1>3, <1>5, <1>6, JobTurns
<1>8. Len(j.rules) = 0 /\ Len(k.providers) \in Nat
  BY <1>1, <1>3, <1>7, Appends DEF Ruled
<1>9. Ruled(k) BY <1>3, <1>7, <1>8 DEF Ruled
<1>10. \A w \in 1..Window : load'[w] = NoLoad BY <1>4, <1>5 DEF NoLoads
<1>11. Window \in Nat BY SourcesAssumption
<1>12. 1 \in 1..Window /\ 2..Window \subseteq 1..Window
       /\ \A i \in Nat \ {0} : SlotOf(i) \in 1..Window
  BY <1>11, SlotsRange
<1>13. \A i \in (Len(k.rules) + 1)..(Len(k.rules) + Window) : load'[SlotOf(i)] = NoLoad
  BY <1>7, <1>8, <1>10, <1>11, <1>12
<1>14. LoadsOf(k)' BY <1>7, <1>10, <1>12, <1>13 DEF LoadsOf, NoLoads
<1> QED BY <1>6, <1>7, <1>9, <1>14 DEF JobMade

(* All there is to say of a job at its rules. *)
LEMMA AtTheRules ==
  ASSUME SourcesInv, sourceJob.pc = "rules"
  PROVE  /\ sourceJob # NoSourceJob /\ IsJob(sourceJob) /\ Accounted(sourceJob)
         /\ Ruled(sourceJob) /\ DOMAIN load = 1..Window /\ SettingsSound
         /\ Len(sourceJob.rules) \in Nat /\ Len(sourceJob.providers) \in Nat
         /\ Len(sourceJob.rules) <= Len(sourceJob.providers)
         /\ DOMAIN sourceJob.providers = 1..Len(sourceJob.providers)
         /\ \A w \in 1..Window : load[w] # NoLoad => LoadSound(load[w])
         /\ \A i \in (Len(sourceJob.rules) + 1)..(Len(sourceJob.rules) + Window) :
              i <= Len(sourceJob.providers) /\ load[SlotOf(i)] # NoLoad =>
                load[SlotOf(i)].id = sourceJob.providers[i].tag
<1>1. sourceJob # NoSourceJob BY DEF NoSourceJob
<1>2. /\ IsJob(sourceJob) /\ Accounted(sourceJob) /\ Ruled(sourceJob) /\ LoadsOf(sourceJob)
      /\ SettingsSound /\ DOMAIN load = 1..Window
      /\ \A w \in 1..Window : load[w] # NoLoad => LoadSound(load[w])
  BY <1>1 DEF SourcesInv, JobSound, LoadsSound
<1>3. Len(sourceJob.rules) \in Nat /\ Len(sourceJob.providers) \in Nat
  BY <1>2, Appends DEF Ruled
<1>4. DOMAIN sourceJob.providers = 1..Len(sourceJob.providers)
  BY <1>2 DEF Ruled, IsSeq
<1> QED BY <1>1, <1>2, <1>3, <1>4 DEF Ruled, LoadsOf

LEMMA StartsProvider ==
  ASSUME SourcesInv, StartProvider
  PROVE  \E k : k = sourceJob' /\ JobMade(k)
<1>1. sourceJob.pc = "rules" /\ sourceJob' = sourceJob BY DEF StartProvider
<1>2. PICK k : k = sourceJob OBVIOUS
<1>3. /\ k # NoSourceJob /\ IsJob(k) /\ Accounted(k) /\ Ruled(k) /\ DOMAIN load = 1..Window
      /\ Len(k.rules) \in Nat /\ SettingsSound /\ DOMAIN k.providers = 1..Len(k.providers)
      /\ \A i \in (Len(k.rules) + 1)..(Len(k.rules) + Window) :
           i <= Len(k.providers) /\ load[SlotOf(i)] # NoLoad =>
             load[SlotOf(i)].id = k.providers[i].tag
      /\ Len(k.providers) \in Nat
  BY <1>1, <1>2, AtTheRules
<1>4. PICK n \in DOMAIN k.providers : \E places :
        /\ Len(k.rules) < n /\ n <= Len(k.rules) + Window
        /\ load' = [load EXCEPT ![SlotOf(n)] = RelayLoad(k.providers[n].tag, places)]
  BY <1>2 DEF StartProvider, StepLoad
<1>5. PICK l : load' = [load EXCEPT ![SlotOf(n)] = l] /\ l.id = k.providers[n].tag
  <2>1. PICK places : load' = [load EXCEPT ![SlotOf(n)] = RelayLoad(k.providers[n].tag, places)]
    BY <1>4
  <2>2. RelayLoad(k.providers[n].tag, places).id = k.providers[n].tag BY <1>3, LoadsBegin
  <2> QED BY <2>1, <2>2
<1>6. Window \in Nat BY SourcesAssumption
<1>7. n \in (Len(k.rules) + 1)..(Len(k.rules) + Window) BY <1>3, <1>4, <1>6
<1>8. ASSUME NEW i \in (Len(k.rules) + 1)..(Len(k.rules) + Window),
             i <= Len(k.providers), load'[SlotOf(i)] # NoLoad
      PROVE  load'[SlotOf(i)].id = k.providers[i].tag
  <2>1. i \in Nat \ {0} BY <1>3, <1>6
  <2>2. SlotOf(i) \in 1..Window BY <2>1, SlotsRange
  <2>3. i # n => SlotOf(i) # SlotOf(n) BY <1>3, <1>7, SlotsDiffer
  <2> QED BY <1>3, <1>5, <1>8, <2>2, <2>3
<1>9. LoadsOf(k)' BY <1>1, <1>2, <1>8 DEF LoadsOf
<1> QED BY <1>1, <1>2, <1>3, <1>9 DEF JobMade

LEMMA ProvidersKeep ==
  ASSUME SourcesInv, ProviderLoaded
  PROVE  \E k : k = sourceJob' /\ JobMade(k)
<1> DEFINE j == sourceJob
           w == SlotOf(Len(j.rules) + 1)
           c == Result(load[w])
<1>1. j.pc = "rules" /\ Len(j.rules) < Len(j.providers) /\ load[w].pc = "got"
  BY DEF ProviderLoaded
<1>2. /\ j # NoSourceJob /\ IsJob(j) /\ Accounted(j) /\ Ruled(j) /\ DOMAIN load = 1..Window
      /\ Len(j.rules) \in Nat /\ SettingsSound /\ Len(j.providers) \in Nat
      /\ \A i \in (Len(j.rules) + 1)..(Len(j.rules) + Window) :
           i <= Len(j.providers) /\ load[SlotOf(i)] # NoLoad =>
             load[SlotOf(i)].id = j.providers[i].tag
      /\ \A x \in 1..Window : load[x] # NoLoad => LoadSound(load[x])
  BY <1>1, AtTheRules
<1>3. PICK k : k = sourceJob' OBVIOUS
<1>4. \/ k = [j EXCEPT !.pc = "refused"]
      \/ /\ Good(load[w]) /\ load' = [load EXCEPT ![w] = NoLoad]
         /\ k = [j EXCEPT !.rules = Append(@, c)]
  BY <1>3 DEF ProviderLoaded, StepLoad
<1>5. Window \in Nat \ {0} BY SourcesAssumption
<1>6. CASE k = [j EXCEPT !.pc = "refused"]
  <2>0. IsJob(j) /\ Accounted(j) BY <1>2
  <2> HIDE DEF j
  <2>1. IsJob(k) /\ Accounted(k) /\ k.pc = "refused" /\ k.rules = j.rules
        /\ k.providers = j.providers
    BY <2>0, <1>6, JobTurns
  <2>2. Ruled(k) BY <1>2, <2>1 DEF Ruled
  <2>3. LoadsOf(k)' BY <2>1 DEF LoadsOf
  <2> QED BY <1>3, <2>1, <2>2, <2>3 DEF JobMade
<1>7. CASE /\ Good(load[w]) /\ load' = [load EXCEPT ![w] = NoLoad]
           /\ k = [j EXCEPT !.rules = Append(@, c)]
  <2>1. w \in 1..Window /\ load[w] # NoLoad
    BY <1>1, <1>2, SlotsRange DEF NoLoad
  <2>2. Len(j.rules) + 1 \in (Len(j.rules) + 1)..(Len(j.rules) + Window) BY <1>2, <1>5
  <2>3. load[w].id = j.providers[Len(j.rules) + 1].tag BY <1>1, <1>2, <2>1, <2>2
  <2>4. Sound(c) /\ c.key.id = j.providers[Len(j.rules) + 1].tag
    BY <1>1, <1>2, <1>7, <2>1, <2>3, ResultSound
  <2> HIDE DEF j, c
  <2>5. k = [kind |-> j.kind, pc |-> j.pc, selected |-> j.selected, items |-> j.items,
             providers |-> j.providers, at |-> j.at, stages |-> j.stages,
             used |-> j.used, failed |-> j.failed, rules |-> Append(j.rules, c),
             output |-> j.output, report |-> j.report]
    BY <1>2, <1>7 DEF IsJob
  <2>6. /\ IsJob(k) /\ Accounted(k) /\ k.pc = "rules" /\ k.rules = Append(j.rules, c)
        /\ k.providers = j.providers
    BY <1>1, <1>2, <2>5 DEF IsJob, Accounted
  <2>7. IsSeq(j.rules) BY <1>2 DEF Ruled
  <2>8. /\ IsSeq(k.rules) /\ Len(k.rules) = Len(j.rules) + 1
        /\ \A i \in 1..Len(j.rules) : k.rules[i] = j.rules[i]
        /\ k.rules[Len(j.rules) + 1] = c
    BY <2>6, <2>7, Appends
  <2>9. \A i \in 1..Len(k.rules) : i \in 1..Len(j.rules) \/ i = Len(j.rules) + 1
    BY <1>2, <2>8
  <2>10. \A i \in 1..Len(k.rules) :
           Sound(k.rules[i]) /\ k.rules[i].key.id = k.providers[i].tag
    BY <1>1, <1>2, <2>4, <2>6, <2>8, <2>9 DEF Ruled
  <2>11. Len(k.rules) <= Len(k.providers) BY <1>1, <1>2, <2>6, <2>8
  <2>12. IsSeq(k.providers) BY <1>2, <2>6 DEF Ruled
  <2>13. Ruled(k) BY <2>6, <2>8, <2>10, <2>11, <2>12 DEF Ruled
  <2>14. ASSUME NEW i \in (Len(k.rules) + 1)..(Len(k.rules) + Window),
                i <= Len(k.providers), load'[SlotOf(i)] # NoLoad
         PROVE  load'[SlotOf(i)].id = k.providers[i].tag
    <3>0. PICK m \in Nat, n \in Nat : m = Len(j.rules) /\ n = Len(k.rules) /\ n = m + 1
      BY <1>2, <2>8
    <3>1. SlotOf(i) \in 1..Window
      <4>1. i \in Nat \ {0} BY <1>5, <3>0
      <4> QED BY <4>1, SlotsRange
    <3>2. load[SlotOf(i)] # NoLoad /\ load'[SlotOf(i)] = load[SlotOf(i)] /\ SlotOf(i) # w
      BY <1>2, <1>7, <2>14, <3>1
    <3>3. i # Len(j.rules) + 1 + Window
      <4>1. SlotOf(Len(j.rules) + 1 + Window) = SlotOf(Len(j.rules) + 1)
        BY <1>2, <1>5, SlotsRepeat
      <4> QED BY <3>2, <4>1
    <3>4. i \in (Len(j.rules) + 1)..(Len(j.rules) + Window)
      <4>1. i \in (n + 1)..(n + Window) /\ i # m + 1 + Window BY <3>0, <3>3
      <4>2. i \in (m + 1)..(m + Window) BY <1>5, <3>0, <4>1
      <4> QED BY <3>0, <4>2
    <3> QED BY <1>2, <2>6, <2>14, <3>2, <3>4
  <2>15. LoadsOf(k)' BY <2>6, <2>14 DEF LoadsOf
  <2> QED BY <1>3, <2>6, <2>13, <2>15 DEF JobMade
<1> QED BY <1>4, <1>6, <1>7

LEMMA AnswersKeep ==
  ASSUME SourcesInv, SingleAnswers
  PROVE  \E k : k = sourceJob' /\ JobMade(k)
<1> DEFINE j == sourceJob
           c == Result(load[1])
<1>1. j.pc = "single" /\ load[1].pc = "got" BY DEF SingleAnswers
<1>2. j # NoSourceJob /\ load[1] # NoLoad BY <1>1 DEF NoSourceJob, NoLoad
<1>3. /\ IsJob(j) /\ Accounted(j) /\ Ruled(j) /\ LoadSound(load[1]) /\ SettingsSound
  BY <1>2, SlotsRange DEF SourcesInv, JobSound, LoadsSound
<1>4. PICK pc, taken, report :
        /\ sourceJob' = [j EXCEPT !.pc = pc, !.rules = taken, !.report = report]
        /\ pc \in {"answered", "refused"}
        /\ taken = <<>> \/ (Good(load[1]) /\ taken = <<c>>)
  BY DEF SingleAnswers
<1>5. Good(load[1]) => Sound(c) BY <1>1, <1>3, ResultSound
<1>6. PICK k : k = sourceJob' OBVIOUS
<1> HIDE DEF j, c
<1>7. k = [kind |-> j.kind, pc |-> pc, selected |-> j.selected, items |-> j.items,
           providers |-> j.providers, at |-> j.at, stages |-> j.stages,
           used |-> j.used, failed |-> j.failed, rules |-> taken, output |-> j.output,
           report |-> report]
  BY <1>3, <1>4, <1>6 DEF IsJob
<1>8. IsJob(k) /\ Accounted(k) /\ k.pc = pc /\ k.rules = taken /\ k.providers = j.providers
  BY <1>3, <1>7 DEF IsJob, Accounted
<1>9. IsSeq(taken) /\ \A i \in 1..Len(taken) : Sound(taken[i])
  <2>1. CASE taken = <<>> BY <2>1 DEF IsSeq
  <2>2. CASE Good(load[1]) /\ taken = <<c>>
    <3>1. <<c>> \in Seq({c}) /\ Len(<<c>>) = 1 /\ <<c>>[1] = c OBVIOUS
    <3>2. IsSeq(<<c>>) BY <3>1, Sequences
    <3> QED BY <1>5, <2>2, <3>1, <3>2
  <2> QED BY <1>4, <2>1, <2>2
<1>10. Ruled(k) BY <1>3, <1>4, <1>8, <1>9 DEF Ruled
<1>11. LoadsOf(k)' BY <1>4, <1>8 DEF LoadsOf
<1> QED BY <1>4, <1>6, <1>8, <1>10, <1>11 DEF JobMade

LEMMA CompilingKeeps ==
  ASSUME SourcesInv, CompileSources
  PROVE  \E k : k = sourceJob' /\ JobMade(k)
<1> DEFINE j == sourceJob
<1>1. j.pc = "rules" /\ Len(j.rules) = Len(j.providers) BY DEF CompileSources
<1>2. IsJob(j) /\ Accounted(j) /\ Ruled(j) BY <1>1, AtTheRules
<1>3. PICK k : k = sourceJob' OBVIOUS
<1>4. \/ k = [j EXCEPT !.pc = "refused"]
      \/ k = [j EXCEPT !.pc = "compiled", !.output = Exported(j.providers)]
  BY <1>3 DEF CompileSources
<1> HIDE DEF j
<1> DEFINE K(pc, output) ==
      [kind |-> j.kind, pc |-> pc, selected |-> j.selected, items |-> j.items,
       providers |-> j.providers, at |-> j.at, stages |-> j.stages,
       used |-> j.used, failed |-> j.failed, rules |-> j.rules, output |-> output,
       report |-> j.report]
<1>5. PICK pc, output :
        /\ k = K(pc, output)
        /\ pc = "refused" \/ (pc = "compiled" /\ output = Exported(j.providers))
  <2>1. CASE k = [j EXCEPT !.pc = "refused"]
    <3>1. k = K("refused", j.output) BY <1>2, <2>1 DEF IsJob
    <3> HIDE DEF K
    <3> QED BY <3>1
  <2>2. CASE k = [j EXCEPT !.pc = "compiled", !.output = Exported(j.providers)]
    <3>1. k = K("compiled", Exported(j.providers)) BY <1>2, <2>2 DEF IsJob
    <3> HIDE DEF K
    <3> QED BY <3>1
  <2> QED BY <1>4, <2>1, <2>2
<1>6. IsJob(k) /\ Accounted(k) /\ k.pc = pc /\ k.rules = j.rules /\ k.providers = j.providers
      /\ k.output = output
  BY <1>2, <1>5 DEF IsJob, Accounted
<1>7. Ruled(k) BY <1>1, <1>2, <1>5, <1>6 DEF Ruled
<1>8. LoadsOf(k)' BY <1>5, <1>6 DEF LoadsOf
<1> QED BY <1>3, <1>5, <1>6, <1>7, <1>8 DEF JobMade

LEMMA JobsKept ==
  ASSUME SourcesInv, [SourcesNext]_sourceVars, SettingsSound', Grown
  PROVE  JobSound'
<1>0. SettingsSound /\ JobSound BY DEF SourcesInv
<1>1. SUFFICES \E k : k = sourceJob' /\ JobMade(k)
  <2>1. PICK k : k = sourceJob' /\ JobMade(k) BY <1>1
  <2>2. (Accounted(k) => Accounted(k)') /\ (Ruled(k) => Ruled(k)') BY <1>0, JobKept
  <2>3. IsJob(k) => IsJob(k)' BY DEF IsJob
  <2> QED BY <2>1, <2>2, <2>3 DEF JobSound, JobMade
<1>2. CASE UNCHANGED <<sourceJob, load>>
  <2>1. PICK k : k = sourceJob OBVIOUS
  <2>2. LoadsOf(k)' BY <1>0, <1>2, <2>1 DEF JobSound, LoadsOf, NoLoads
  <2> QED BY <1>0, <1>2, <2>1, <2>2 DEF JobSound, JobMade
<1>3. CASE EndSourcesJob \/ DropJob
  <2>1. sourceJob' = NoSourceJob /\ load' = [w \in 1..Window |-> NoLoad]
    BY <1>3 DEF EndSourcesJob, DropJob
  <2>2. LoadsOf(NoSourceJob)' BY <2>1 DEF LoadsOf, NoLoads, NoSourceJob
  <2> QED BY <2>1, <2>2 DEF JobMade
<1>4. CASE BeginSubscription \/ BeginRelay \/ BeginList \/ BeginInspection
  BY <1>4, JobsBegin
<1>5. CASE \E w \in 1..Window : LoadPolicy(w) \/ LookupSnapshot(w) \/ Hop(w)
  BY <1>5, MovesKeep
<1>6. CASE NextSource \/ SourceLoaded BY <1>6, SourcesKeep
<1>7. CASE LoadNodes \/ SourcesLoaded BY <1>7, TurnsKeep
<1>8. CASE StartProvider BY <1>8, StartsProvider
<1>9. CASE ProviderLoaded BY <1>9, ProvidersKeep
<1>10. CASE SingleAnswers BY <1>10, AnswersKeep
<1>11. CASE CompileSources BY <1>11, CompilingKeeps
<1> QED
  BY <1>2, <1>3, <1>4, <1>5, <1>6, <1>7, <1>8, <1>9, <1>10, <1>11 DEF SourcesNext, sourceVars,
     ChangeEgress, ChangeProxy, Attach, ExpireSnapshots

LEMMA SourcesBegin == SourcesInit => SourcesInv
<1> SUFFICES ASSUME SourcesInit PROVE SourcesInv
  OBVIOUS
<1>1. PICK r \in Routing : policies = <<r>> BY DEF SourcesInit
<1>2. /\ proxyRow = [active |-> 1, enabled |-> TRUE] /\ stored = {} /\ sourceJob = NoSourceJob
      /\ load = [w \in 1..Window |-> NoLoad]
  BY DEF SourcesInit
<1>3. SettingsSound BY <1>1, <1>2 DEF SettingsSound
<1>4. StoredSound BY <1>2 DEF StoredSound, CachesOfWriters
<1>5. LoadsSound BY <1>2 DEF LoadsSound
<1>6. JobSound BY <1>2 DEF JobSound, LoadsOf, NoLoads, NoSourceJob
<1> QED BY <1>3, <1>4, <1>5, <1>6 DEF SourcesInv

LEMMA SourcesInvKept == SourcesInv /\ [SourcesNext]_sourceVars => SourcesInv'
<1> SUFFICES ASSUME SourcesInv, [SourcesNext]_sourceVars PROVE SourcesInv'
  OBVIOUS
<1>1. SettingsSound' /\ Grown BY SettingsKept DEF SourcesInv
<1> QED BY <1>1, StoredKept, LoadsKept, JobsKept DEF SourcesInv

LEMMA SourcesImply == SourcesInv => SourcesSound
<1> SUFFICES ASSUME SourcesInv PROVE SourcesSound
  OBVIOUS
<1> DEFINE j == sourceJob
<1>1. j # NoSourceJob =>
        /\ Account(j.items, j.stages, j.used, j.failed, j.at) /\ Ruled(j)
        /\ IsSeq(j.rules) /\ IsSeq(j.used) /\ IsSeq(j.stages) /\ IsSeq(j.providers)
  BY DEF SourcesInv, JobSound, Accounted, Account, Ruled
<1>2. RouteKept
  <2>1. \A c \in stored : Sound(c) BY DEF SourcesInv, StoredSound
  <2>2. ASSUME j # NoSourceJob, NEW c \in ToSet(j.rules) PROVE Sound(c)
    <3>1. DOMAIN j.rules = 1..Len(j.rules) BY <1>1, <2>2 DEF IsSeq
    <3>2. PICK i \in 1..Len(j.rules) : c = j.rules[i] BY <2>2, <3>1 DEF ToSet
    <3> QED BY <1>1, <2>2, <3>2 DEF Ruled
  <2>3. ASSUME j # NoSourceJob, NEW u \in ToSet(j.used), u.how = "loaded" PROVE Sound(u.what)
    <3>1. DOMAIN j.used = 1..Len(j.used) BY <1>1, <2>3 DEF IsSeq
    <3>2. PICK i \in 1..Len(j.used) : u = j.used[i] BY <2>3, <3>1 DEF ToSet
    <3> QED BY <1>1, <2>3, <3>2 DEF Account, UseSound
  <2> QED BY <2>1, <2>2, <2>3 DEF RouteKept, Contents, Sound
<1>3. CachesOfWriters BY DEF SourcesInv, StoredSound
<1>4. SourcesAccounted
  <2> SUFFICES ASSUME j # NoSourceJob PROVE SourcesAccounted
    BY DEF SourcesAccounted
  <2>1. /\ j.at \in Nat /\ Len(j.used) \in 0..j.at /\ j.failed \in Nat
        /\ Len(j.used) + j.failed = j.at /\ j.at <= Len(j.items)
        /\ DOMAIN j.stages = 1..j.at /\ DOMAIN j.used = 1..Len(j.used)
    BY <1>1, Ranges DEF Account, IsSeq
  <2>2. AllFailed(j.stages) <=> (j.at > 0 /\ j.failed = j.at)
    <3>1. (\E i \in 1..j.at : j.stages[i] = "ok") <=> Len(j.used) > 0 BY <1>1 DEF Account
    <3>2. \A i \in 1..j.at : j.stages[i] \in {"ok", "error"} BY <1>1 DEF Account
    <3>3. j.failed = j.at <=> ~(Len(j.used) > 0) BY <2>1
    <3>4. j.at > 0 <=> \E i \in 1..j.at : TRUE BY <2>1
    <3> QED BY <2>1, <3>1, <3>2, <3>3, <3>4 DEF AllFailed
  <2>3. ASSUME NEW i \in DOMAIN j.used
        PROVE  /\ j.stages[j.used[i].of] = "ok"
               /\ i > 1 => j.used[i - 1].of < j.used[i].of
               /\ j.used[i].how = "loaded" =>
                    j.used[i].what.key.url = j.items[j.used[i].of].url
    <3>1. i \in 1..Len(j.used) BY <2>1
    <3>2. i > 1 => i \in 2..Len(j.used) BY <2>1, <3>1
    <3> QED BY <1>1, <3>1, <3>2 DEF Account, UseSound
  <2> QED BY <2>1, <2>2, <2>3 DEF SourcesAccounted
<1>5. RulesWhole
  <2> SUFFICES ASSUME j.pc = "compiled" PROVE RulesWhole
    BY DEF RulesWhole
  <2>1. j # NoSourceJob BY DEF NoSourceJob
  <2>2. /\ Len(j.rules) = Len(j.providers) /\ j.output = Exported(j.providers)
        /\ DOMAIN j.rules = 1..Len(j.rules) /\ DOMAIN j.providers = 1..Len(j.providers)
        /\ \A i \in 1..Len(j.rules) : j.rules[i].key.id = j.providers[i].tag
    BY <1>1, <2>1 DEF Ruled, IsSeq
  <2>3. \A book : Wrapped(book).path = "relay" <=> Wrapped(book).of = Relay
    BY DEF Wrapped
  <2>4. \A i \in DOMAIN j.rules : j.output[i] = Wrapped(j.providers[i])
    BY <2>2 DEF Exported
  <2> QED BY <2>2, <2>3, <2>4 DEF RulesWhole
<1> QED BY <1>2, <1>3, <1>4, <1>5 DEF SourcesSound

(***************************************************************************)
(* What is answered, whoever asks: the public requests, as AnswersMatch    *)
(* has it, and what is loaded for them.                                    *)
(***************************************************************************)
LEMMA ExchangesBegin == ExchangeInit => PublicInv /\ SourcesInv
  BY PublicBegins, SourcesBegin DEF ExchangeInit

LEMMA ExchangesKeep ==
  PublicInv /\ SourcesInv /\ [ExchangeNext]_exchangeVars => PublicInv' /\ SourcesInv'
<1> SUFFICES ASSUME PublicInv, SourcesInv, [ExchangeNext]_exchangeVars
             PROVE  PublicInv' /\ SourcesInv'
  OBVIOUS
<1>1. [PublicNext]_publicVars BY DEF ExchangeNext, exchangeVars
<1>2. [SourcesNext]_sourceVars BY DEF ExchangeNext, exchangeVars
<1> QED BY <1>1, <1>2, PublicKept, SourcesInvKept

(* Of what is loaded every request went the way its cache key stands for,  *)
(* looking at sources leaves nothing in a cache that others read, the      *)
(* stages tell what was used and what failed, and what is compiled has the *)
(* rules of each provider; the answers to public requests match.           *)
THEOREM AnswersAlwaysSound == ExchangeSpec => []AnswersSound
<1>1. PublicInv /\ SourcesInv => AnswersSound
  BY PublicImplies, SourcesImply DEF AnswersSound
<1> QED BY <1>1, ExchangesBegin, ExchangesKeep, PTL DEF ExchangeSpec

===============================================================================
