-------------------------------- MODULE Accounts --------------------------------
(***************************************************************************)
(* The server's accounts: registration and invitations (auth.rs,           *)
(* admin_api.rs), administration of roles (admin_api.rs) and avatars       *)
(* (account_api.rs).  A transaction is one step per statement whose order  *)
(* with other transactions matters; locks are held to its end.             *)
(***************************************************************************)
EXTENDS Integers, FiniteSets

CONSTANTS
    User,             \* e-mail addresses
    Code,             \* invitation codes
    Tab,              \* requests that change an avatar
    Key,              \* avatar ids
    MaxAccountEvents  \* bound on what administrators do and on expiry


Role == {"user", "admin", "superadmin"}
NoCode == "no code"
NoKey == "no key"
NotAsked == [pc |-> "none"]
NoChange == [pc |-> "none", user |-> "nobody", key |-> NoKey]

ASSUME AccountAssumption ==
    MaxAccountEvents \in Nat /\ NoKey \notin Key /\ "nobody" \notin User

VARIABLES
    account,      \* users: the role, or "none"
    founders,     \* the accounts that were made superadmin by registering
    open,         \* system_settings.allow_registration
    invitation,   \* "none", "open", "expired", or the account that used it
    registering,  \* requests to register
    advisory,     \* the holder of the registration lock: a set
    avatarKey,    \* settings->>'avatarKey'
    avatars,      \* user_avatars: ids and owners
    change,       \* transactions on avatars
    accountEvents

userVars == <<account, founders, open, invitation>>
avatarVars == <<avatarKey, avatars, change>>
accountVars == <<userVars, registering, advisory, avatarVars, accountEvents>>

Administration == accountEvents < MaxAccountEvents /\ accountEvents' = accountEvents + 1

AccountsInit ==
    /\ account = [u \in User |-> "none"] /\ founders = {} /\ open = TRUE
    /\ invitation = [c \in Code |-> "none"]
    /\ registering = [u \in User |-> NotAsked] /\ advisory = {}
    /\ avatarKey = [u \in User |-> NoKey] /\ avatars = {}
    /\ change = [t \in Tab |-> NoChange] /\ accountEvents = 0

Registered == {u \in User : account[u] # "none"}
Unlocked(u) == \A t \in Tab : change[t].user # u

-----------------------------------------------------------------------------
(* Registration. *)

AskToRegister ==
    /\ \E u \in User, c \in Code \cup {NoCode} :
        /\ registering[u] = NotAsked
        /\ registering' = [registering EXCEPT ![u] = [pc |-> "waiting", code |-> c]]
    /\ UNCHANGED <<userVars, advisory, avatarVars, accountEvents>>

(* pg_advisory_xact_lock, then the count under the lock. *)
AdvisoryIgnored == TRUE  \* a fault: no advisory lock
AdvisoryFree == advisory = {}

CountUsers ==
    /\ \E u \in User :
        /\ registering[u].pc = "waiting" /\ AdvisoryFree
        /\ advisory' = advisory \cup {u}
        /\ registering' = [registering EXCEPT ![u] =
             [pc |-> "counted", code |-> registering[u].code, first |-> Registered = {},
              allowed |-> open]]
    /\ UNCHANGED <<userVars, avatarVars, accountEvents>>

Accepts(u) ==
    LET q == registering[u]
    IN  /\ account[u] = "none"
        /\ q.first \/ q.allowed \/ q.code # NoCode
        /\ q.first \/ q.code = NoCode \/ q.code \in {c \in Code : invitation[c] = "open"}

EndRegistration(u) ==
    /\ registering' = [registering EXCEPT ![u] = NotAsked] /\ advisory' = advisory \ {u}

Register ==
    /\ \E u \in User :
        /\ registering[u].pc = "counted" /\ Accepts(u) /\ EndRegistration(u)
        /\ account' = [account EXCEPT ![u] = IF registering[u].first THEN "superadmin" ELSE "user"]
        /\ founders' = IF registering[u].first THEN founders \cup {u} ELSE founders
        /\ invitation' = IF registering[u].first THEN invitation
                         ELSE [c \in Code |-> IF c = registering[u].code THEN u ELSE invitation[c]]
    /\ UNCHANGED <<open, avatarVars, accountEvents>>

RefuseRegistration ==
    /\ \E u \in User :
        registering[u].pc = "counted" /\ ~Accepts(u) /\ EndRegistration(u)
    /\ UNCHANGED <<userVars, avatarVars, accountEvents>>

-----------------------------------------------------------------------------
(* Administration. *)

Superadmins == {u \in User : account[u] = "superadmin"}
Administered == \E u \in User : account[u] \in {"admin", "superadmin"}

UpdateSettings ==
    /\ Administered /\ open' = ~open /\ Administration
    /\ UNCHANGED <<account, founders, invitation, registering, advisory, avatarVars>>

CreateUser ==
    /\ \E u \in User, r \in Role :
        /\ account[u] = "none" /\ account' = [account EXCEPT ![u] = r]
    /\ Superadmins # {} /\ Administration
    /\ UNCHANGED <<founders, open, invitation, registering, advisory, avatarVars>>

(* "WHERE id=$1 AND role<>'superadmin'", by another superadmin *)
Protected(u) == account[u] = "superadmin"
Administrable(u) == account[u] # "none" /\ ~Protected(u) /\ Superadmins \ {u} # {}

PatchRole ==
    /\ \E u \in User, r \in Role :
        /\ Administrable(u) /\ Unlocked(u) /\ account' = [account EXCEPT ![u] = r]
    /\ Administration
    /\ UNCHANGED <<founders, open, invitation, registering, advisory, avatarVars>>

DeleteUser ==
    /\ \E u \in User :
        /\ Administrable(u) /\ Unlocked(u)
        /\ account' = [account EXCEPT ![u] = "none"]
        /\ avatarKey' = [avatarKey EXCEPT ![u] = NoKey]
        /\ avatars' = {a \in avatars : a.owner # u}
    /\ Administration
    /\ UNCHANGED <<founders, open, invitation, registering, advisory, change>>

ChangeInvitation ==
    /\ \E c \in Code :
        \/ /\ Superadmins # {} /\ invitation[c] = "none"
           /\ invitation' = [invitation EXCEPT ![c] = "open"]
        \/ /\ Superadmins # {} /\ invitation[c] # "none"
           /\ invitation' = [invitation EXCEPT ![c] = "none"]
        \/ invitation[c] = "open" /\ invitation' = [invitation EXCEPT ![c] = "expired"]
    /\ Administration
    /\ UNCHANGED <<account, founders, open, registering, advisory, avatarVars>>

-----------------------------------------------------------------------------
(* Avatars: "SELECT settings->>'avatarKey' ... FOR UPDATE" *)
RowUnlocked(u) == TRUE  \* a fault: the row is read without a lock
AvatarRowFree(u) == Unlocked(u)

ReadAvatar ==
    /\ \E t \in Tab, u \in Registered, k \in Key \cup {NoKey} :
        /\ change[t] = NoChange /\ AvatarRowFree(u)
        /\ k # NoKey => (\A a \in avatars : a.id # k) /\ (\A s \in Tab : change[s].key # k)
        /\ change' = [change EXCEPT ![t] =
             [pc |-> "read", user |-> u, prior |-> avatarKey[u], key |-> k]]
    /\ UNCHANGED <<userVars, registering, advisory, avatarKey, avatars, accountEvents>>

(* upload_avatar, or delete_avatar without a key. *)
ChangeAvatar ==
    /\ \E t \in Tab :
        /\ change[t] # NoChange
        /\ LET q == change[t]
               kept == {a \in avatars : ~(a.id = q.prior /\ a.owner = q.user)}
           IN  /\ avatarKey' = [avatarKey EXCEPT ![q.user] = q.key]
               /\ avatars' = IF q.key = NoKey THEN kept
                             ELSE kept \cup {[id |-> q.key, owner |-> q.user]}
        /\ change' = [change EXCEPT ![t] = NoChange]
    /\ UNCHANGED <<userVars, registering, advisory, accountEvents>>

AvatarFails ==
    /\ \E t \in Tab : change[t] # NoChange /\ change' = [change EXCEPT ![t] = NoChange]
    /\ UNCHANGED <<userVars, registering, advisory, avatarKey, avatars, accountEvents>>

AccountsNext ==
    \/ AskToRegister \/ CountUsers \/ Register \/ RefuseRegistration
    \/ UpdateSettings \/ CreateUser \/ PatchRole \/ DeleteUser \/ ChangeInvitation
    \/ ReadAvatar \/ ChangeAvatar \/ AvatarFails

AccountsSpec == AccountsInit /\ [][AccountsNext]_accountVars

-----------------------------------------------------------------------------
(* Properties. *)

(* However many register at once, one account becomes superadmin by it,    *)
(* and from then on there always is a superadmin, whoever administers whom. *)
Founded ==
    /\ Cardinality(founders) <= 1
    /\ Registered # {} => Superadmins # {}

(* The key in an account's settings names the one avatar it owns.          *)
AvatarsMatch ==
    \A u \in User : {a \in avatars : a.owner = u} =
        IF avatarKey[u] = NoKey THEN {} ELSE {[id |-> avatarKey[u], owner |-> u]}

(* What is written in two places by requests that race: the first account and
   its role, an avatar and the key that names it. *)
AccountsAgree == Founded /\ AvatarsMatch

===============================================================================
