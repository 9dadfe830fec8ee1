--------------------------------- MODULE Dhcp ---------------------------------
(***************************************************************************)
(* The gateway's DHCP server (sempre-gateway).  One task answers the       *)
(* packets in turn, from a table of leases kept in memory and from the     *)
(* reservations of the configuration it was started with.  Answers are     *)
(* broadcast once and may be lost.                                         *)
(*                                                                         *)
(* Time is counted in ticks: a lease, and a client's claim to the address  *)
(* it was acknowledged, carry the ticks they have left.  Host names, the   *)
(* other options and the packets' layout are left out.  A reservation may  *)
(* lie in the range, and two of them may name one address: the code's      *)
(* validation (model.rs) only checks that they parse.                      *)
(***************************************************************************)
EXTENDS Integers, FiniteSets

CONSTANTS
    Mac,            \* the clients
    Address,        \* the range, in order: numbers
    Reservations,   \* the configurations: partial functions from Mac to numbers
    LeaseTime,      \* ticks a lease lasts (option 51)
    MaxStarts,      \* bound: how often the server is started
    MaxRevocations  \* bound: how many leases the user revokes

ASSUME DhcpAssumption ==
    /\ IsFiniteSet(Address) /\ Address \subseteq Nat \ {0}
    /\ LeaseTime \in Nat \ {0}
    /\ MaxStarts \in Nat /\ MaxRevocations \in Nat
    /\ \A r \in Reservations : DOMAIN r \subseteq Mac /\ \A m \in DOMAIN r : r[m] \in Nat

\* The configuration that a gateway begins with.
NoReservation == {[m \in {} |-> 0]}

VARIABLES
    saved,        \* the reservations of the configuration on disk
    reserved,     \* the reservations the server was started with
    serving,      \* is there a server?
    leases,       \* its table: per client an address and the ticks left, 0 when expired or absent
    claim,        \* per client the address it holds, and for how long it believes so
    starts, revocations

dhcpVars == <<saved, reserved, serving, leases, claim, starts, revocations>>

Entry == [ip : Nat, left : 0 .. LeaseTime]
Blank == [ip |-> 0, left |-> 0]

Live(table, m) == table[m].left > 0
Kept(table, ip) == \E m \in Mac : Live(table, m) /\ table[m].ip = ip
ReservedIp(ip) == \E m \in DOMAIN reserved : reserved[m] = ip

InUseUnreserved(ip) == Kept(leases, ip)
InUse(ip) == Kept(leases, ip) \/ ReservedIp(ip)

\* allocate(): the addresses the server may answer client m with, one or none.
FirstFree == {ip \in Address : ~InUse(ip) /\ \A other \in Address : other < ip => InUse(other)}

Allocation(m) ==
    IF m \in DOMAIN reserved THEN {reserved[m]}
    ELSE IF Live(leases, m) THEN {leases[m].ip}
    ELSE FirstFree

\* ... and what it leaves in the table: a fresh lease only when the address was found in the range.
Recorded(m, ip) ==
    leases' = IF m \in DOMAIN reserved \/ Live(leases, m) THEN leases
             ELSE [leases EXCEPT ![m] = [ip |-> ip, left |-> LeaseTime]]

-------------------------------------------------------------------------------

DhcpInit ==
    /\ saved \in Reservations
    /\ reserved = saved
    /\ serving = FALSE
    /\ leases = [m \in Mac |-> Blank]
    /\ claim = [m \in Mac |-> Blank]
    /\ starts = 0 /\ revocations = 0

\* DHCPDISCOVER: the address is put aside and offered; the offer binds nobody.
DhcpDiscover(m) ==
    /\ serving
    /\ \E ip \in Allocation(m) : Recorded(m, ip)
    /\ UNCHANGED <<saved, reserved, serving, claim, starts, revocations>>

\* DHCPREQUEST: the same allocation, acknowledged for the whole lease time;
\* the acknowledgement may be lost.
Request(m) ==
    /\ serving
    /\ \E ip \in Allocation(m) :
         /\ Recorded(m, ip)
         /\ \/ claim' = [claim EXCEPT ![m] = [ip |-> ip, left |-> LeaseTime]]
            \/ UNCHANGED claim
    /\ UNCHANGED <<saved, reserved, serving, starts, revocations>>

\* The user revokes a lease in the table; the client is not told.
Revoke(m) ==
    /\ serving /\ leases[m] # Blank /\ revocations < MaxRevocations
    /\ leases' = [leases EXCEPT ![m] = Blank]
    /\ revocations' = revocations + 1
    /\ UNCHANGED <<saved, reserved, serving, claim, starts>>

\* The user saves another configuration: the server keeps the one it was started with.
UpdateGateway ==
    /\ \E r \in Reservations \ {saved} : saved' = r
    /\ UNCHANGED <<reserved, serving, leases, claim, starts, revocations>>

\* The manager starts the gateway with a core: any server is stopped first
\* and the new one begins with the saved configuration and an empty table.
StartServer ==
    /\ starts < MaxStarts
    /\ serving' = TRUE
    /\ reserved' = saved
    /\ leases' = [m \in Mac |-> Blank]
    /\ starts' = starts + 1
    /\ UNCHANGED <<saved, claim, revocations>>

StopServer ==
    /\ serving
    /\ serving' = FALSE
    /\ leases' = [m \in Mac |-> Blank]
    /\ UNCHANGED <<saved, reserved, claim, starts, revocations>>

Aged(entry) == [entry EXCEPT !.left = IF @ = 0 THEN 0 ELSE @ - 1]

Tick ==
    /\ leases' = [m \in Mac |-> Aged(leases[m])]
    /\ claim' = [m \in Mac |-> Aged(claim[m])]
    /\ UNCHANGED <<saved, reserved, serving, starts, revocations>>

DhcpNext ==
    \/ \E m \in Mac : DhcpDiscover(m) \/ Request(m) \/ Revoke(m)
    \/ UpdateGateway \/ StartServer \/ StopServer
    \/ Tick

DhcpSpec == DhcpInit /\ [][DhcpNext]_dhcpVars

-------------------------------------------------------------------------------

DhcpTypeOK ==
    /\ saved \in Reservations /\ reserved \in Reservations
    /\ serving \in BOOLEAN
    /\ leases \in [Mac -> Entry] /\ claim \in [Mac -> Entry]
    /\ starts \in 0 .. MaxStarts /\ revocations \in 0 .. MaxRevocations

(***************************************************************************)
(* No address is put aside for two clients: the unexpired leases of the    *)
(* table differ from each other and from every reserved address, through   *)
(* expiry, revocation, reuse and restarts with other reservations (dhcp.rs *)
(* allocate, ip_in_use).                                                   *)
(***************************************************************************)
LeasesDistinct ==
    \A m \in Mac : Live(leases, m) =>
        /\ leases[m].ip \in Address
        /\ ~ReservedIp(leases[m].ip)
        /\ \A n \in Mac \ {m} : Live(leases, n) => leases[n].ip # leases[m].ip

(***************************************************************************)
(* No two clients hold, by acknowledgements that have not run out, one     *)
(* address.  The test discover_allocates_and_request_renews_the_same_      *)
(* address says that a request renews the lease; the code acknowledges the  *)
(* request for the whole lease time without extending the lease            *)
(* (dhcp.rs:161), so the address is handed on while its holder keeps it.   *)
(***************************************************************************)
AddressesDistinct ==
    \A m, n \in Mac : m # n /\ Live(claim, m) /\ Live(claim, n) => claim[m].ip # claim[n].ip

===============================================================================
