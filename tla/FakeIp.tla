-------------------------------- MODULE FakeIp --------------------------------
(***************************************************************************)
(* The range that fake addresses are taken from: which one an automatic    *)
(* profile is compiled with, so that it collides with no route of the host *)
(* and stays the same as long as it can (recommended_fakeip and            *)
(* fakeip_selection), and how the TUN of a starting core out-ranks the     *)
(* routes that collide all the same (fakeip_routes).                       *)
(* Simplifications: one family of addresses; a prefix is its bits; the     *)
(* default route is no route here.                                         *)
(***************************************************************************)
EXTENDS Naturals, Sequences

CONSTANTS
    Width,         \* bits of an address
    Pools,         \* where a range may be taken from, the preferred pool first
    Longest,       \* the smallest range that is worth while
    OtherRoute,       \* destinations that other programs may route
    Written,       \* ranges that a user may write into a profile
    Unset,        \* no range, no build, no core
    MaxRouteChanges

VARIABLES
    foreign,       \* the destinations that others route
    sample,        \* the routes as they were read some seconds ago
    range,         \* the range that the user wrote into the profile; Absent is automatic
    key,           \* the target of a compilation, which an update of the core changes
    build,         \* the configuration that was compiled last
    tun,           \* the core that runs: its range, and the routes of its TUN
    routeChanges

fakeVars == <<foreign, sample, range, key, build, tun, routeChanges>>

Destinations == UNION {[1..n -> {0, 1}] : n \in 0..Width}
Default == Pools[1].pool
Covers(p, q) == Len(p) <= Len(q) /\ \A i \in 1..Len(p) : p[i] = q[i]
Overlaps(p, q) == Covers(p, q) \/ Covers(q, p)
Free(p, routes) == \A r \in routes : ~Overlaps(p, r)

\* No address is in two of the pools, and what is offered of one fits into it.
ASSUME FakeAssumption ==
    /\ Width \in Nat /\ Longest \in 0..Width
    /\ Pools \in Seq([pool : Destinations, minimum : 0..Longest]) /\ Pools # <<>>
    /\ \A i, j \in DOMAIN Pools : i # j => ~Overlaps(Pools[i].pool, Pools[j].pool)
    /\ OtherRoute \subseteq Destinations /\ Written \subseteq Destinations
    /\ Unset \notin Destinations

Automatic == range = Unset

FakeInit ==
    /\ foreign \in {{}, OtherRoute} /\ sample = Unset /\ range = Unset /\ key = 0
    /\ build = Unset /\ tun = Unset /\ routeChanges = 0

(***************************************************************************)
(* The choice of a range.                                                  *)
(***************************************************************************)
\* The larger of two ranges, of equal ones the first.
Larger(p, q) ==
    IF p = Unset THEN q ELSE IF q = Unset THEN p ELSE IF Len(q) < Len(p) THEN q ELSE p

\* largest_free_subnet, in the subnets that a pool is divided into to begin with.
LargestFree(from, routes) ==
    LET best[p \in Destinations] ==
            IF Len(p) >= from.minimum /\ Free(p, routes) THEN p
            ELSE IF Len(p) >= Longest THEN Unset
            ELSE Larger(best[Append(p, 0)], best[Append(p, 1)])
    IN  best[from.pool]

\* check_range: the first pool that has anything to offer.
Recommendation(routes) ==
    LET offers == [i \in DOMAIN Pools |-> LargestFree(Pools[i], routes)]
        some == {i \in DOMAIN Pools : offers[i] # Unset}
    IN  IF some = {} THEN Unset ELSE offers[CHOOSE i \in some : \A j \in some : i <= j]

\* selected_auto_fakeip_ranges: a range that was found automatically, for the same target.
\* A range that is not the default one must be marked as found.
RetainedUnmarked == IF build # Unset /\ build.key = key /\ build.range = Default
                    THEN Default ELSE Unset
Retained ==
    IF /\ build # Unset /\ build.key = key
       /\ build.range # Default => build.found
    THEN build.range ELSE Unset

\* recommended_dns.
RecommendedRange(routes) ==
    LET first == IF Retained # Unset /\ Free(Retained, routes) THEN Retained ELSE Default
    IN  IF Free(first, routes) THEN first ELSE Recommendation(routes)

\* fakeip_system_routes: what the core itself routes is left out.
Seen == IF sample # Unset THEN sample ELSE foreign

(***************************************************************************)
(* Compilation, and the routes of the TUN.                                 *)
(***************************************************************************)
\* apply_recommended_fakeip and subscription_config_build.
Compile ==
    /\ LET chosen == IF Automatic THEN RecommendedRange(Seen) ELSE range
       IN  /\ chosen # Unset
           /\ build' = [range |-> chosen, key |-> key,
                        found |-> Automatic /\ chosen # Default]
    /\ sample' = IF Automatic THEN Seen ELSE sample
    /\ UNCHANGED <<foreign, range, key, tun, routeChanges>>

NoRange ==
    /\ Automatic /\ RecommendedRange(Seen) = Unset
    /\ sample' = Seen /\ UNCHANGED <<foreign, range, key, build, tun, routeChanges>>

\* refine_routes: both halves of what somebody routes inside the range.
Refinement(fake, routes) ==
    {Append(r, bit) : r \in {s \in routes : Covers(fake, s) /\ Len(s) < Width}, bit \in {0, 1}}

\* adapt_runtime_config reads the routes anew; the core that ran before has stopped.  If the
\* routes cannot be read, or the configuration not written, the core starts with what it had.
StartTun ==
    /\ tun = Unset /\ build # Unset
    /\ \E refined \in BOOLEAN :
        tun' = [range |-> build.range, known |-> foreign, refined |-> refined,
                routes |-> {build.range} \cup
                           IF refined THEN Refinement(build.range, foreign) ELSE {}]
    /\ sample' = Unset
    /\ UNCHANGED <<foreign, range, key, build, routeChanges>>

StopTun ==
    /\ tun # Unset /\ tun' = Unset /\ sample' = Unset
    /\ UNCHANGED <<foreign, range, key, build, routeChanges>>

\* fakeip_pending_change: what would be compiled now is not what runs.
Pending == tun # Unset /\ Automatic /\ RecommendedRange(Seen) \notin {Unset, tun.range}

LookAtRoutes ==
    /\ sample = Unset /\ sample' = foreign
    /\ UNCHANGED <<foreign, range, key, build, tun, routeChanges>>
SampleAges ==
    /\ sample # Unset /\ sample' = Unset
    /\ UNCHANGED <<foreign, range, key, build, tun, routeChanges>>

WriteProfile ==
    /\ range' \in ({Unset} \cup Written) \ {range}
    /\ UNCHANGED <<foreign, sample, key, build, tun, routeChanges>>
UpdateTarget ==
    /\ key = 0 /\ key' = 1
    /\ UNCHANGED <<foreign, sample, range, build, tun, routeChanges>>

RoutesChange ==
    /\ routeChanges < MaxRouteChanges /\ routeChanges' = routeChanges + 1
    /\ \E r \in OtherRoute : foreign' = IF r \in foreign THEN foreign \ {r} ELSE foreign \cup {r}
    /\ UNCHANGED <<sample, range, key, build, tun>>

------------------------------------------------------------------------------
FakeNext ==
    \/ Compile \/ NoRange \/ StartTun \/ StopTun \/ LookAtRoutes \/ SampleAges
    \/ WriteProfile \/ UpdateTarget \/ RoutesChange

FakeSpec == FakeInit /\ [][FakeNext]_fakeVars

(***************************************************************************)
(* Where a packet goes: along the longest destination that covers it.      *)
(***************************************************************************)
Addresses == {p \in Destinations : Len(p) = Width}
ReachesTun(a) ==
    \E r \in tun.routes : /\ Covers(r, a)
                          /\ \A f \in foreign : Covers(f, a) => Len(f) < Len(r)

\* A route to a single address is the only thing that a refined TUN cannot out-rank.
FakeAddressesReachTun ==
    tun # Unset /\ tun.refined /\ tun.known = foreign =>
        \A a \in Addresses : Covers(tun.range, a) /\ a \notin foreign => ReachesTun(a)

\* The range that is offered collides with nothing, and nothing larger in its pool or in a
\* better one was free.
Offers(from, routes) ==
    {p \in Destinations : /\ Covers(from.pool, p) /\ Len(p) \in from.minimum..Longest
                      /\ Free(p, routes)}
RangeFreeAndLargest ==
    LET found == Recommendation(Seen)
    IN  \A i \in DOMAIN Pools : \A p \in Offers(Pools[i], Seen) :
            /\ found # Unset /\ Free(found, Seen)
            /\ Covers(Pools[i].pool, found) => Len(found) <= Len(p)
            /\ \E j \in 1..i : Covers(Pools[j].pool, found)

\* A core whose range collides is told to be restarted, one whose range was found
\* automatically and is still free is not.
PendingTold ==
    tun # Unset /\ Automatic =>
        /\ ~Free(tun.range, Seen) /\ RecommendedRange(Seen) # Unset => Pending
        /\ build # Unset /\ build.range = tun.range /\ build.key = key
             /\ (build.found \/ build.range = Default) /\ Free(tun.range, Seen) => ~Pending

FakeIpSound ==
    build # Unset => FakeAddressesReachTun /\ RangeFreeAndLargest /\ PendingTold

==============================================================================
