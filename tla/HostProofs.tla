------------------------------ MODULE HostProofs ------------------------------
(***************************************************************************)
(* Proofs about what a client does beside its core, for any number of      *)
(* services, prefixes, gateways, rule sets and networks: what is taken     *)
(* over of the host, its resolver (SystemDns) and its routes (CnRoutes),   *)
(* comes back, what a core reads as domestic is routed (RuleSets), and the *)
(* mode of the core is that of the network (NetworkModes).                 *)
(***************************************************************************)
EXTENDS MCHost, ClientProofs, SequenceTheorems, TLAPS

(***************************************************************************)
(* SystemDns.  A restore works through the services of the ownership file, *)
(* and a takeover begins when there is no such file.                       *)
(***************************************************************************)
DnsTasks ==
    [doing : {"done", "restore", "takeover"}, todo : SUBSET Service,
     next : {"takeover", "end"}, done : SUBSET Service]
DnsTyped ==
    /\ setting \in [Service -> Setting] /\ original \in [Service -> Setting]
    /\ attached \subseteq Service /\ missed \subseteq Service /\ file \subseteq Service
    /\ task \in {Idle} \cup DnsTasks

\* What is left of a restoration is what still points at the frontend; a takeover has recorded
\* settings of the user's for all it takes.
DnsWorking ==
    /\ task.doing = "done" => file = {}
    /\ task.doing = "restore" => \A s \in Service \ missed : Taken(s) => s \in task.todo
    /\ task.doing = "restore" => task.todo \subseteq file
    /\ task.doing = "takeover" =>
         /\ task.todo \cup task.done \subseteq file
         /\ \A s \in file \ missed : original[s] \in Value
DnsInv == DnsTyped /\ OriginalsKept /\ DnsWorking

LEMMA IdleIsIdle == task = Idle => task.doing = "none"
BY DEF Idle

LEMMA DoingIs ==
    ASSUME NEW what \in {"done", "restore", "takeover"}, NEW todo \in SUBSET Service,
           NEW next \in {"takeover", "end"}
    PROVE  /\ Doing(what, todo, next) \in DnsTasks
           /\ Doing(what, todo, next).doing = what /\ Doing(what, todo, next).todo = todo
           /\ Doing(what, todo, next).done = {}
BY DEF Doing, DnsTasks

\* A restoration begins with all that is recorded.
LEMMA RestorationBegins ==
    ASSUME DnsTyped, NEW next \in {"takeover", "end"}
    PROVE  /\ RestoreThen(next) \in DnsTasks
           /\ RestoreThen(next).doing = IF file = {} THEN "done" ELSE "restore"
           /\ file # {} => RestoreThen(next).todo = file
BY DoingIs DEF RestoreThen, DnsTyped

\* A task that has begun does so from the file as it is.
LEMMA DnsTaskBegins ==
    ASSUME DnsTyped, OriginalsKept, NEW next \in {"takeover", "end"},
           task' = RestoreThen(next), setting' \in [Service -> Setting],
           \A s \in Service \ missed : Taken(s)' => Taken(s),
           UNCHANGED <<attached, file, original, missed>>
    PROVE  DnsInv'
<1>1. DnsTyped' BY RestorationBegins DEF DnsTyped
<1>2. OriginalsKept' BY DEF OriginalsKept
<1>3. DnsWorking' BY RestorationBegins DEF DnsWorking, OriginalsKept
<1> QED BY <1>1, <1>2, <1>3 DEF DnsInv

LEMMA DnsKept == DnsInv /\ [DnsNext]_dnsVars => DnsInv'
<1> SUFFICES ASSUME DnsInv, [DnsNext]_dnsVars PROVE DnsInv'
  OBVIOUS
<1>t. DnsTyped /\ OriginalsKept /\ DnsWorking BY DEF DnsInv
<1>i. Idle.doing = "none" /\ Managed \notin Value BY SystemDnsAssumption DEF Idle
<1>1. CASE Apply
  BY <1>t, <1>1, DnsTaskBegins DEF Apply, DnsTyped, Taken
<1>2. CASE Restore
  BY <1>t, <1>2, DnsTaskBegins DEF Restore, DnsTyped, Taken
<1>3. CASE RestoreService
  <2>1. PICK s \in task.todo :
          /\ task' = [task EXCEPT !.todo = @ \ {s}]
          /\ setting' = IF s \in attached /\ Taken(s)
                        THEN [setting EXCEPT ![s] = original[s]] ELSE setting
          /\ missed' = IF s \in attached THEN missed ELSE missed \cup {s}
    BY <1>3 DEF RestoreService
  <2>2. task \in DnsTasks /\ task.doing = "restore" /\ s \in file /\ s \in Service
    BY <1>t, <1>i, <1>3 DEF RestoreService, DnsTyped, DnsWorking
  <2>3. task' \in DnsTasks /\ task'.doing = "restore" /\ task'.todo = task.todo \ {s}
    BY <2>1, <2>2 DEF DnsTasks
  <2>4. DnsTyped'
    BY <1>t, <1>3, <2>1, <2>2, <2>3 DEF RestoreService, DnsTyped
  <2>5. \A x \in Service \ missed' : Taken(x)' => x # s /\ x \notin missed /\ Taken(x)
    <3> SUFFICES ASSUME NEW x \in Service \ missed', Taken(x)'
                 PROVE  x # s /\ x \notin missed /\ Taken(x)
      OBVIOUS
    <3>1. x \notin missed BY <2>1
    <3>2. CASE x = s
      <4>1. s \in attached BY <2>1, <3>2
      <4>2. ~Taken(s) => setting' = setting BY <2>1
      <4>3. Taken(s) => original[s] \in Value /\ setting'[s] = original[s]
        BY <1>t, <2>1, <2>2, <3>1, <3>2, <4>1 DEF OriginalsKept, DnsTyped
      <4> QED BY <1>i, <3>2, <4>2, <4>3 DEF Taken
    <3>3. CASE x # s
      BY <1>t, <2>1, <3>1, <3>3 DEF Taken, DnsTyped
    <3> QED BY <3>2, <3>3
  <2>6. OriginalsKept' BY <1>t, <1>3, <2>5 DEF OriginalsKept, RestoreService
  <2>7. DnsWorking' BY <1>t, <1>3, <2>2, <2>3, <2>5 DEF DnsWorking, RestoreService
  <2> QED BY <2>4, <2>6, <2>7 DEF DnsInv
<1>4. CASE RemoveFile
  <2>1. task \in DnsTasks BY <1>t, <1>i, <1>4 DEF RemoveFile, DnsTyped
  <2>2. task' \in DnsTasks /\ task'.doing = "done"
    BY <1>4, <2>1, DoingIs DEF RemoveFile, DnsTasks
  <2>3. \A s \in Service \ missed : ~Taken(s) BY <1>t, <1>4 DEF RemoveFile, DnsWorking
  <2>4. DnsTyped' BY <1>t, <1>4, <2>2 DEF RemoveFile, DnsTyped
  <2>5. OriginalsKept' BY <1>4, <2>3 DEF RemoveFile, OriginalsKept, Taken
  <2>6. DnsWorking' BY <1>4, <2>2 DEF RemoveFile, DnsWorking
  <2> QED BY <2>4, <2>5, <2>6 DEF DnsInv
<1>5. CASE End
  BY <1>t, <1>i, <1>5 DEF End, DnsInv, DnsTyped, OriginalsKept, DnsWorking, Taken
<1>6. CASE Capture
  <2>1. PICK chosen \in SUBSET attached :
          file' = chosen /\ original' = setting /\ task' = Doing("takeover", chosen, "end")
    BY <1>6 DEF Capture
  <2>2. /\ task' \in DnsTasks /\ task'.doing = "takeover" /\ task'.todo = chosen
        /\ task'.done = {}
    BY <1>t, <2>1, DoingIs DEF DnsTyped
  <2>3. \A s \in Service \ missed : ~Taken(s) /\ setting[s] \in Value
    BY <1>t, <1>6 DEF Capture, DnsWorking, OriginalsKept, DnsTyped, Taken, Setting
  <2>4. DnsTyped' BY <1>t, <1>6, <2>1, <2>2 DEF Capture, DnsTyped
  <2>5. OriginalsKept' BY <1>6, <2>3 DEF Capture, OriginalsKept, Taken
  <2>6. DnsWorking' BY <1>t, <1>6, <2>1, <2>2, <2>3 DEF Capture, DnsWorking, DnsTyped
  <2> QED BY <2>4, <2>5, <2>6 DEF DnsInv
<1>7. CASE TakeOver
  <2>1. PICK s \in task.todo :
          /\ setting' = [setting EXCEPT ![s] = Managed]
          /\ task' = [task EXCEPT !.todo = @ \ {s}, !.done = @ \cup {s}]
    BY <1>7 DEF TakeOver
  <2>2. /\ task \in DnsTasks /\ task.doing = "takeover" /\ s \in file
        /\ \A x \in file \ missed : original[x] \in Value
    BY <1>t, <1>i, <1>7 DEF TakeOver, DnsTyped, DnsWorking
  <2>3. /\ task' \in DnsTasks /\ task'.doing = "takeover"
        /\ task'.todo = task.todo \ {s} /\ task'.done = task.done \cup {s}
    <3>1. s \in Service BY <2>2 DEF DnsTasks
    <3> QED BY <2>1, <2>2, <3>1 DEF DnsTasks
  <2>4. DnsTyped' BY <1>t, <1>7, <2>1, <2>2, <2>3 DEF TakeOver, DnsTyped, Setting
  <2>5. OriginalsKept' BY <1>t, <1>7, <2>1, <2>2 DEF TakeOver, OriginalsKept, Taken, DnsTyped
  <2>6. DnsWorking' BY <1>t, <1>7, <2>2, <2>3 DEF TakeOver, DnsWorking
  <2> QED BY <2>4, <2>5, <2>6 DEF DnsInv
<1>8. CASE TakenOver
  BY <1>t, <1>i, <1>8 DEF TakenOver, DnsInv, DnsTyped, OriginalsKept, DnsWorking, Taken
<1>9. CASE TakeOverFails
  <2>1. /\ task.done \subseteq file /\ \A s \in file \ missed : original[s] \in Value
    BY <1>t, <1>9 DEF TakeOverFails, DnsWorking
  <2>2. setting' \in [Service -> Setting]
    BY <1>t, <1>9 DEF TakeOverFails, DnsTyped
  <2>3. \A s \in Service \ missed : Taken(s)' => Taken(s)
    BY <1>t, <1>i, <1>9, <2>1 DEF TakeOverFails, DnsTyped, Taken
  <2> QED BY <1>t, <1>9, <2>2, <2>3, DnsTaskBegins DEF TakeOverFails
<1>10. CASE Stop
  BY <1>t, <1>i, <1>10 DEF Stop, DnsInv, DnsTyped, OriginalsKept, DnsWorking, Taken
<1>11. CASE UserSets
  <2>1. PICK s \in Service, v \in Value : setting' = [setting EXCEPT ![s] = v]
    BY <1>11 DEF UserSets
  <2>2. \A x \in Service : Taken(x)' => Taken(x)
    BY <1>t, <1>i, <2>1 DEF DnsTyped, Taken
  <2>3. DnsTyped' BY <1>t, <1>11, <2>1 DEF UserSets, DnsTyped, Setting
  <2> QED BY <1>t, <1>11, <2>2, <2>3 DEF UserSets, DnsInv, OriginalsKept, DnsWorking
<1>12. CASE Detach
  BY <1>t, <1>12 DEF Detach, DnsInv, DnsTyped, OriginalsKept, DnsWorking, Taken
<1>13. CASE Attach
  BY <1>t, <1>13 DEF Attach, DnsInv, DnsTyped, OriginalsKept, DnsWorking, Taken
<1>14. CASE UNCHANGED dnsVars
  BY <1>t, <1>14 DEF dnsVars, DnsInv, DnsTyped, OriginalsKept, DnsWorking, Taken
<1> QED BY <1>1, <1>2, <1>3, <1>4, <1>5, <1>6, <1>7, <1>8, <1>9, <1>10, <1>11, <1>12, <1>13,
           <1>14 DEF DnsNext

LEMMA DnsBegins == DnsInit => DnsInv
BY SystemDnsAssumption
   DEF DnsInit, DnsInv, DnsTyped, OriginalsKept, DnsWorking, Taken, Idle, Setting

\* No operation on the resolver, whatever fails or is cut short, leaves a service with Sempre's
\* address that the ownership file does not give back.
THEOREM OriginalsAlwaysKept == DnsSpec => []OriginalsKept
<1>1. DnsInv => OriginalsKept BY DEF DnsInv
<1> QED BY <1>1, DnsBegins, DnsKept, PTL DEF DnsSpec

(***************************************************************************)
(* CnRoutes.  All that is in the table is in the journal, or was a moment  *)
(* ago and will be taken away; the fallback is there only with the direct  *)
(* routes of what is published.                                            *)
(***************************************************************************)
RoutesTyped ==
    /\ table \subseteq Route /\ orphans \subseteq Route
    /\ policy \in BOOLEAN /\ verified \in BOOLEAN /\ dropped \in BOOLEAN
    /\ uplink \in Gateway \cup {None} /\ journal \in Journal
    /\ work \in Work \cup {NoWork}
    /\ phase \in {"off", "starting", "running", "inactive", "idle"}
    /\ published \subseteq Prefix /\ plan \subseteq Prefix

Reconciling == work # NoWork
Covered(S, t) == \A p \in S : \E g \in Gateway : Direct(p, g) \in t
Guarded(S, t) == Fallback \in t => Covered(S, t)

\* Who reconciles, when, and what for.
Whose ==
    /\ work.who = "start" => phase = "starting"
    /\ work.who \in {"monitor", "refresh"} => phase = "running"
    /\ work.who = "stop" => phase = "inactive" /\ work.mode = "cleanup"
    /\ work.failed <=> (work.mode = "cleanup" /\ work.who # "stop")
    /\ work.pc \in {"discover", "add"} => work.mode = "apply"

\* What the table is to become: nothing, or the plan of a gateway.
Aim(w) == w.target = {} \/ \E g \in Gateway : w.target = Plan(w.prefixes, g)
Aims ==
    /\ work.mode = "cleanup" => work.target = {}
    /\ work.mode = "apply" =>
         published \subseteq work.prefixes /\ work.candidate \subseteq work.prefixes
    /\ work.pc # "discover" => Aim(work)

\* Between the two, the table holds what is written ahead; and what is aimed at is there or
\* still to be added, unless the system has taken routes meanwhile.
Writes ==
    work.pc \in {"add", "policy", "remove"} =>
    /\ work.adds \subseteq work.target /\ work.removes \cap work.target = {}
    /\ table \subseteq work.journal.routes /\ work.adds \subseteq work.journal.routes
    /\ work.journal.routes \subseteq journal.routes
    /\ work.journal.routes \subseteq work.target \cup work.removes
    /\ work.clean \/ dropped
    /\ work.clean => work.target \subseteq table \cup work.adds
    /\ work.pc # "add" => work.adds = {}
    /\ work.mode = "apply" => journal.policy
    /\ work.pc # "remove" => work.journal.policy = journal.policy
    /\ work.pc = "remove" => /\ work.journal.policy <=> work.mode = "apply"
                             /\ policy => work.journal.policy

RoutesKept ==
    /\ orphans = {} /\ Recoverable
    /\ ~dropped => Guarded(published, table)
    /\ phase = "starting" => plan = published
    /\ Reconciling => Whose /\ Aims /\ Writes
RoutesInv == RoutesTyped /\ (~detached => RoutesKept)

LEMMA NoWorkIsNone == NoWork \notin Work /\ (work = NoWork <=> ~Reconciling)
BY DEF NoWork, Work, Who, Reconciling

\* The routes of a plan.
LEMMA PlanOf ==
    ASSUME NEW S, NEW g \in Gateway
    PROVE  /\ Fallback \in Plan(S, g) /\ \A p \in S : Direct(p, g) \in Plan(S, g)
           /\ \A r \in Plan(S, g) : r = Fallback \/ \E p \in S : r = Direct(p, g)
BY RouteAssumption DEF Plan

LEMMA PlanTyped ==
    ASSUME NEW S \in SUBSET Prefix, NEW g \in Gateway \cup {None}
    PROVE  Plan(S, g) \subseteq Route
<1>1. CASE g = None BY <1>1 DEF Plan
<1>2. CASE g # None
  BY <1>2, PlanOf DEF Direct, Route
<1> QED BY <1>1, <1>2

LEMMA DirectIs ==
    /\ \A p \in Prefix : \A g : Direct(p, g) # Fallback /\ Direct(p, g).dst = p
                            /\ Direct(p, g).dst # Fallback.dst
    /\ \A r \in Route : ~IsFallback(r) => r.dst \in Prefix /\ r = Direct(r.dst, r.via)
                                          /\ r.via \in Gateway
BY RouteAssumption DEF Direct, Fallback, Route, IsFallback

\* A table that has all of a plan with its fallback has the direct routes.
LEMMA AimCovers ==
    ASSUME NEW w, Aim(w), Fallback \in w.target, NEW t, w.target \ {Fallback} \subseteq t,
           NEW S \in SUBSET Prefix, S \subseteq w.prefixes
    PROVE  Covered(S, t)
<1>1. PICK g \in Gateway : w.target = Plan(w.prefixes, g) BY DEF Aim
<1>2. \A p \in S : Direct(p, g) \in w.target /\ Direct(p, g) # Fallback BY <1>1, PlanOf, DirectIs
<1> QED BY <1>2 DEF Covered

\* Whatever is installed replaces a direct route by a direct route.
LEMMA InstallKeeps ==
    ASSUME table \subseteq Route, NEW r \in Route, NEW S \in SUBSET Prefix, Covered(S, table)
    PROVE  Covered(S, Install(r))
<1> SUFFICES ASSUME NEW p \in S PROVE \E g \in Gateway : Direct(p, g) \in Install(r)
  BY DEF Covered
<1>1. PICK g \in Gateway : Direct(p, g) \in table BY DEF Covered
<1>2. CASE r.dst # p BY <1>1, <1>2, DirectIs DEF Install
<1>3. CASE r.dst = p
  <2>1. ~IsFallback(r) BY <1>3, DirectIs DEF IsFallback
  <2>2. r = Direct(p, r.via) /\ r.via \in Gateway BY <1>3, <2>1, DirectIs
  <2> QED BY <2>2 DEF Install
<1> QED BY <1>2, <1>3

LEMMA InstallGuards ==
    ASSUME table \subseteq Route, NEW r \in Route, r # Fallback, NEW S \in SUBSET Prefix,
           Guarded(S, table)
    PROVE  Guarded(S, Install(r))
BY InstallKeeps DEF Guarded, Install

LEMMA InstallTyped == table \subseteq Route => \A r \in Route : Install(r) \subseteq Route
BY DEF Install

\* What is in a plan has one route for each destination.
LEMMA InstallFills ==
    ASSUME NEW w, Aim(w), w.prefixes \subseteq Prefix, NEW a, a \subseteq w.target, NEW r \in a,
           w.target \subseteq table \cup a
    PROVE  w.target \subseteq Install(r) \cup (a \ {r})
<1>1. PICK g \in Gateway : w.target = Plan(w.prefixes, g) BY DEF Aim
<1>2. \A o \in w.target : o.dst = r.dst => o = r
  BY <1>1, PlanOf, DirectIs
<1> QED BY <1>2 DEF Install

(***************************************************************************)
(* CnRoutes: types.                                                        *)
(***************************************************************************)
LEMMA StepsTyped ==
    ASSUME RoutesTyped, Reconciling
    PROVE  /\ work \in Work /\ NextAdds \subseteq work.adds /\ NextRemoves \subseteq work.removes
           /\ work.adds \subseteq Route /\ work.removes \subseteq Route
           /\ work.target \subseteq Route /\ work.prefixes \subseteq Prefix
           /\ work.candidate \subseteq Prefix /\ work.journal \in Journal
<1>1. work \in Work BY DEF RoutesTyped, Reconciling
<1>2. /\ work.adds \subseteq Route /\ work.removes \subseteq Route
      /\ work.target \subseteq Route /\ work.prefixes \subseteq Prefix
      /\ work.candidate \subseteq Prefix /\ work.journal \in Journal
  BY <1>1 DEF Work
<1> QED BY <1>1, <1>2 DEF NextAdds, NextRemoves

LEMMA BeginTyped ==
    ASSUME NEW who \in Who, NEW mode \in {"apply", "cleanup"},
           NEW prefixes \in SUBSET Prefix, NEW candidate \in SUBSET Prefix,
           Begin(who, mode, prefixes, candidate)
    PROVE  work' \in Work
BY DEF Begin, Work, NoJournal, Journal

LEMMA SucceedTyped ==
    ASSUME RoutesTyped, Reconciling, NEW clean \in BOOLEAN, Succeed(clean)
    PROVE  /\ work' = NoWork /\ dropped' \in BOOLEAN
           /\ phase' \in {"off", "starting", "running", "inactive", "idle"}
           /\ published' \subseteq Prefix
<1>1. work.candidate \subseteq Prefix BY StepsTyped
<1> QED BY <1>1 DEF Succeed, RoutesTyped, CoreGone

LEMMA GiveUpTyped ==
    ASSUME RoutesTyped, GiveUp
    PROVE  /\ work' = NoWork /\ table' \subseteq Route
           /\ phase' \in {"off", "starting", "running", "inactive", "idle"}
BY DEF GiveUp, RoutesTyped, CoreGone

LEMMA RoutesTypes == RoutesTyped /\ [Next]_vars => RoutesTyped'
<1> SUFFICES ASSUME RoutesTyped, [Next]_vars PROVE RoutesTyped'
  OBVIOUS
<1> USE DEF osVars, CoreGone
<1>p. \A s \in Snapshots : s \subseteq Prefix BY RouteAssumption
<1>t. /\ table \subseteq Route /\ journal \in Journal /\ published \subseteq Prefix
      /\ plan \subseteq Prefix /\ orphans \subseteq Route
  BY DEF RoutesTyped
<1>1. CASE StartCore BY <1>1 DEF StartCore, RoutesTyped
<1>2. CASE StartRoutes
  <2>1. work' \in Work BY <1>2, <1>t, BeginTyped DEF StartRoutes, Who
  <2> QED BY <1>2, <2>1 DEF StartRoutes, RoutesTyped
<1>3. CASE OpenEvents BY <1>3 DEF OpenEvents, RoutesTyped
<1>4. CASE Monitor
  <2>1. work' \in Work BY <1>4, <1>t, BeginTyped DEF Monitor, Who, SnapshotNow
  <2> QED BY <1>4, <2>1 DEF Monitor, RoutesTyped
<1>5. CASE Refresh
  <2>1. PICK c \in Snapshots : Begin("refresh", "apply", plan \cup c \cup published, c)
    BY <1>5 DEF Refresh
  <2>2. work' \in Work
    <3>1. plan \cup c \cup published \in SUBSET Prefix /\ c \in SUBSET Prefix BY <1>p, <1>t
    <3> QED BY <2>1, <3>1, BeginTyped DEF Who
  <2> QED BY <1>5, <2>2 DEF Refresh, RoutesTyped
<1>6. CASE Deactivate BY <1>6 DEF Deactivate, RoutesTyped
<1>7. CASE StopRoutes
  <2>1. work' \in Work BY <1>7, BeginTyped DEF StopRoutes, Who
  <2> QED BY <1>7, <2>1 DEF StopRoutes, RoutesTyped
<1>8. CASE Discover
  <2>1. work \in Work /\ work.prefixes \subseteq Prefix
    BY <1>8, StepsTyped DEF Discover, At, Reconciling
  <2>2. Plan(work.prefixes, uplink) \subseteq Route BY <2>1, PlanTyped DEF RoutesTyped
  <2>3. work' \in Work BY <1>8, <2>1, <2>2 DEF Discover, Work
  <2> QED BY <1>8, <2>3 DEF Discover, RoutesTyped
<1>9. CASE DiscoverFails BY <1>9, GiveUpTyped DEF DiscoverFails, RoutesTyped
<1>10. CASE AlreadyThere
  <2>1. Reconciling /\ Succeed(TRUE) BY <1>10 DEF AlreadyThere, At, Reconciling
  <2> QED BY <1>10, <2>1, SucceedTyped DEF AlreadyThere, RoutesTyped
<1>11. CASE Observe
  <2>1. Reconciling BY <1>11 DEF Observe, At, Reconciling
  <2>2. work \in Work /\ work.target \subseteq Route BY <2>1, StepsTyped
  <2> DEFINE installed == table \cap (journal.routes \cup work.target)
             adds == work.target \ installed
             ahead == [routes |-> installed \cup adds,
                       policy |-> work.mode = "apply" \/ journal.policy]
  <2>3. installed \subseteq Route /\ adds \subseteq Route BY <1>t, <2>2
  <2>4. ahead \in Journal BY <1>t, <2>3 DEF Journal
  <2>5. /\ work' = [work EXCEPT !.pc = IF work.mode = "apply" THEN "add" ELSE "policy",
                                !.adds = adds, !.removes = installed \ work.target,
                                !.journal = ahead, !.clean = TRUE]
        /\ journal' = WriteAhead(ahead)
    BY <1>11 DEF Observe
  <2> HIDE DEF adds, ahead, installed
  <2>6. work' \in Work BY <2>2, <2>3, <2>4, <2>5 DEF Work
  <2>7. journal' \in Journal BY <1>t, <2>4, <2>5 DEF WriteAhead
  <2> QED BY <1>11, <2>6, <2>7 DEF Observe, RoutesTyped
<1>12. CASE Add
  <2>1. Reconciling BY <1>12 DEF Add, At, Reconciling
  <2>2. PICK r \in NextAdds : table' = Install(r) /\ work' = [work EXCEPT !.adds = @ \ {r}]
    BY <1>12 DEF Add
  <2>3. work' \in Work /\ table' \subseteq Route
    <3>1. r \in Route /\ work \in Work BY <2>1, <2>2, StepsTyped
    <3> QED BY <1>t, <2>2, <3>1, InstallTyped DEF Work
  <2> QED BY <1>12, <2>3 DEF Add, RoutesTyped
<1>13. CASE StepFails
  <2>1. Reconciling BY <1>13 DEF StepFails, Reconciling
  <2>2. work \in Work BY <2>1, StepsTyped
  <2>3. CASE work.mode = "apply"
    <3>1. FallBack BY <1>13, <2>3 DEF StepFails, Broken
    <3>2. work' \in Work BY <2>2, <3>1 DEF FallBack, Work
    <3> QED BY <1>13, <3>1, <3>2 DEF StepFails, FallBack, RoutesTyped
  <2>4. CASE work.mode # "apply"
    BY <1>13, <2>4, GiveUpTyped DEF StepFails, Broken, RoutesTyped
  <2> QED BY <2>3, <2>4
<1>14. CASE AddsDone
  <2>1. work \in Work BY <1>14, StepsTyped DEF AddsDone, At, Reconciling
  <2>2. work' \in Work BY <1>14, <2>1 DEF AddsDone, Work
  <2> QED BY <1>14, <2>2 DEF AddsDone, RoutesTyped
<1>15. CASE Policy
  <2>1. work \in Work /\ work.journal \in Journal BY <1>15, StepsTyped DEF Policy, At, Reconciling
  <2>2. [work.journal EXCEPT !.policy = (work.mode = "apply")] \in Journal BY <2>1 DEF Journal
  <2>3. work' \in Work BY <1>15, <2>1, <2>2 DEF Policy, Work
  <2>4. policy' \in BOOLEAN BY <1>15 DEF Policy, RoutesTyped
  <2> QED BY <1>15, <2>3, <2>4 DEF Policy, RoutesTyped
<1>16. CASE RemoveRoutes
  <2>1. Reconciling BY <1>16 DEF RemoveRoutes, At, Reconciling
  <2>2. PICK r \in NextRemoves :
          LET rest == [work.journal EXCEPT !.routes = @ \ {r}]
          IN  /\ table' = table \ {r} /\ journal' = rest
              /\ work' = [work EXCEPT !.removes = @ \ {r}, !.journal = rest]
    BY <1>16 DEF RemoveRoutes
  <2>3. work \in Work /\ work.journal \in Journal BY <2>1, StepsTyped
  <2>4. [work.journal EXCEPT !.routes = @ \ {r}] \in Journal BY <2>3 DEF Journal
  <2>5. work' \in Work BY <2>2, <2>3, <2>4 DEF Work
  <2> QED BY <1>16, <1>t, <2>2, <2>4, <2>5 DEF RemoveRoutes, RoutesTyped
<1>17. CASE Finish
  <2>1. Reconciling BY <1>17 DEF Finish, At, Reconciling
  <2>2. work \in Work /\ work.journal \in Journal /\ work.target \subseteq Route BY <2>1, StepsTyped
  <2>3. journal' \in Journal BY <1>17, <2>2 DEF Finish, Journal
  <2>4. work.clean \in BOOLEAN BY <2>2 DEF Work
  <2>5. CASE work.failed
    BY <1>17, <2>3, <2>5, GiveUpTyped DEF Finish, RoutesTyped
  <2>6. CASE ~work.failed
    BY <1>17, <2>1, <2>3, <2>4, <2>6, SucceedTyped DEF Finish, RoutesTyped
  <2> QED BY <2>5, <2>6
<1>18. CASE InterruptRoutes
  <2>1. orphans' \subseteq Route
    <3>1. PICK batch \in InFlight : orphans' = orphans \cup batch BY <1>18 DEF InterruptRoutes
    <3>2. batch \subseteq Route
      <4>1. CASE At("add") /\ detached
        BY <3>1, <4>1, StepsTyped DEF InFlight, At, Reconciling
      <4>2. CASE ~(At("add") /\ detached) BY <3>1, <4>2 DEF InFlight
      <4> QED BY <4>1, <4>2
    <3> QED BY <1>t, <3>1, <3>2
  <2> QED BY <1>18, <1>t, <2>1 DEF InterruptRoutes, RoutesTyped
<1>19. CASE Crash BY <1>19 DEF Crash, RoutesTyped
<1>20. CASE BatchEnds
  <2>1. PICK r \in orphans : /\ orphans' = orphans \ {r}
                             /\ table' = IF IsFallback(r) THEN table ELSE Install(r)
    BY <1>20 DEF BatchEnds
  <2> QED BY <1>20, <1>t, <2>1, InstallTyped DEF BatchEnds, RoutesTyped
<1>21. CASE UplinkMoves
  <2>1. PICK lost \in {{}, {r \in table : r.via = uplink}} :
          /\ table' = table \ lost /\ dropped' = (dropped \/ lost # {})
          /\ work' = IF work # NoWork /\ lost # {} THEN [work EXCEPT !.clean = FALSE] ELSE work
    BY <1>21 DEF UplinkMoves
  <2>2. work' \in Work \cup {NoWork}
    <3>1. CASE Reconciling /\ lost # {}
      <4>1. work \in Work BY <3>1, StepsTyped
      <4> QED BY <2>1, <3>1, <4>1 DEF Reconciling, Work
    <3>2. CASE ~(Reconciling /\ lost # {}) BY <2>1, <3>2 DEF Reconciling, RoutesTyped
    <3> QED BY <3>1, <3>2
  <2> QED BY <1>21, <1>t, <2>1, <2>2 DEF UplinkMoves, RoutesTyped
<1>22. CASE UNCHANGED vars BY <1>22 DEF vars, memoryVars, RoutesTyped
<1> QED BY <1>1, <1>2, <1>3, <1>4, <1>5, <1>6, <1>7, <1>8, <1>9, <1>10, <1>11, <1>12, <1>13,
           <1>14, <1>15, <1>16, <1>17, <1>18, <1>19, <1>20, <1>21, <1>22
       DEF Next, CallerStep, ReconcileStep, FaultStep

(***************************************************************************)
(* CnRoutes: the steps, where no batch outlives its caller.                *)
(***************************************************************************)
LEMMA OnDuty ==
    ASSUME RoutesTyped, RoutesKept, Reconciling
    PROVE  phase \in {"starting", "running", "inactive"}
<1>1. work.who \in Who BY StepsTyped DEF Work
<1> QED BY <1>1 DEF RoutesKept, Whose, Who

LEMMA GuardedIs ==
    /\ ~Exposed <=> Guarded(published, table)
    /\ (~Exposed)' <=> Guarded(published', table')
BY DEF Exposed, Guarded, Covered

\* A table that only loses its fallback stays guarded and recoverable.
LEMMA FallbackGoes ==
    ASSUME RoutesKept, table' \in {table, table \ {Fallback}},
           UNCHANGED <<policy, journal, published>>,
           phase' = "idle" => phase = "idle"
    PROVE  /\ Recoverable' /\ (dropped = dropped' => (~dropped' => Guarded(published', table')))
<1>1. Guarded(published, table) => Guarded(published', table')
  BY DEF Guarded, Covered, Fallback, Direct
<1> QED BY <1>1 DEF RoutesKept, Recoverable

\* A reconciliation begins.
LEMMA Begun ==
    ASSUME RoutesTyped, RoutesKept, NEW who \in Who, NEW mode \in {"apply", "cleanup"},
           NEW prefixes \in SUBSET Prefix, NEW candidate \in SUBSET Prefix,
           Begin(who, mode, prefixes, candidate),
           UNCHANGED <<table, policy, journal, orphans, dropped, published, plan, phase>>,
           who = "start" => phase = "starting",
           who \in {"monitor", "refresh"} => phase = "running",
           who = "stop" <=> mode = "cleanup", who = "stop" => phase = "inactive",
           mode = "apply" => published \cup candidate \subseteq prefixes
    PROVE  RoutesKept'
<1>1. /\ work'.who = who /\ work'.mode = mode /\ work'.failed = FALSE
      /\ work'.pc = (IF mode = "apply" THEN "discover" ELSE "observe")
      /\ work'.prefixes = prefixes /\ work'.candidate = candidate /\ work'.target = {}
  BY DEF Begin
<1>2. Whose' BY <1>1 DEF Whose
<1>3. Aims' BY <1>1 DEF Aims, Aim
<1>4. Writes' BY <1>1 DEF Writes
<1>5. Recoverable' BY DEF RoutesKept, Recoverable
<1>6. ~dropped' => Guarded(published, table)' BY DEF RoutesKept, Guarded, Covered
<1> QED BY <1>2, <1>3, <1>4, <1>5, <1>6 DEF RoutesKept

\* It ends.
LEMMA Ended ==
    ASSUME work' = NoWork, orphans' = {}, Recoverable',
           ~dropped' => Guarded(published', table'),
           phase' = "starting" => plan' = published'
    PROVE  RoutesKept'
BY DEF RoutesKept, Reconciling, Guarded, Covered

\* It ends well: the table holds what was aimed at.
LEMMA SucceededWell ==
    ASSUME RoutesTyped, RoutesKept, Reconciling, NEW clean \in BOOLEAN, Succeed(clean),
           UNCHANGED <<plan, orphans, table>>,
           table' \subseteq journal'.routes, policy' => journal'.policy,
           table \subseteq work.target, clean => work.target \subseteq table,
           Aim(work), ~clean => dropped,
           work.mode = "cleanup" => ~policy'
    PROVE  RoutesKept'
<1>w. Whose /\ Aims BY DEF RoutesKept
<1>1. work' = NoWork BY DEF Succeed
<1>2. ~dropped' => Guarded(published', table')
  <2> SUFFICES ASSUME ~dropped', Fallback \in table PROVE Covered(published', table)
    BY DEF Guarded
  <2>1. Fallback \in work.target OBVIOUS
  <2>2. work.mode = "apply" BY <2>1, StepsTyped, <1>w DEF Aims, Work
  <2>3. published' \subseteq Prefix /\ published' \subseteq work.prefixes
    BY <1>w, <2>2, SucceedTyped DEF Aims, Succeed
  <2>4. clean BY DEF Succeed, RoutesTyped
  <2>5. work.target \ {Fallback} \subseteq table BY <2>4
  <2> QED BY <2>1, <2>3, <2>5, AimCovers
<1>3. phase' = "starting" => plan' = published'
  BY <1>w DEF Succeed, CoreGone, RoutesKept, Whose
<1>4. phase' = "idle" => table' = {} /\ ~policy'
  <2> SUFFICES ASSUME phase' = "idle" PROVE work.mode = "cleanup"
    BY <1>w DEF Aims
  <2>1. phase # "idle" BY OnDuty
  <2> QED BY <1>w, <2>1 DEF Succeed, Whose
<1>5. Recoverable' BY <1>4 DEF Recoverable
<1> QED BY <1>1, <1>2, <1>3, <1>5, Ended DEF RoutesKept

\* It is given up.
LEMMA GivenUp ==
    ASSUME RoutesTyped, RoutesKept, Reconciling, GiveUp,
           UNCHANGED <<plan, orphans, published, policy, journal, dropped>>
    PROVE  RoutesKept'
<1>1. work' = NoWork /\ table' \in {table, table \ {Fallback}} BY DEF GiveUp
<1>2. phase' # "starting" \/ phase' = phase BY DEF GiveUp, CoreGone
<1>3. phase' = "idle" => phase = "idle" BY DEF GiveUp, CoreGone
<1>4. phase' = "starting" => plan' = published' BY <1>2 DEF RoutesKept
<1>5. orphans' = {} BY DEF RoutesKept
<1> QED BY <1>1, <1>3, <1>4, <1>5, FallbackGoes, Ended

\* A step of the work that leaves the table and what is published, or only adds to the table.
LEMMA Ahead ==
    ASSUME RoutesKept, RoutesTyped, Reconciling,
           UNCHANGED <<orphans, plan, published, phase, dropped>>,
           table' \subseteq journal'.routes, policy' => journal'.policy,
           ~dropped' => Guarded(published', table'),
           Reconciling' => Whose' /\ Aims' /\ Writes'
    PROVE  RoutesKept'
<1>1. phase # "idle" BY OnDuty
<1>2. Recoverable' BY <1>1 DEF Recoverable
<1>3. ~dropped' => Guarded(published, table)' BY DEF Guarded, Covered
<1> QED BY <1>2, <1>3 DEF RoutesKept

LEMMA DiscoverKept == RoutesTyped /\ RoutesKept /\ Discover => RoutesKept'
<1> SUFFICES ASSUME RoutesTyped, RoutesKept, Discover PROVE RoutesKept'
  OBVIOUS
<1>1. Reconciling /\ work \in Work /\ work.pc = "discover"
  BY StepsTyped DEF Discover, At, Reconciling
<1>w. Whose /\ Aims BY <1>1 DEF RoutesKept
<1>2. /\ work'.who = work.who /\ work'.mode = work.mode /\ work'.failed = work.failed
      /\ work'.prefixes = work.prefixes /\ work'.candidate = work.candidate
      /\ work'.pc = "observe" /\ work'.target = Plan(work.prefixes, uplink)
  BY <1>1 DEF Discover, Work
<1>3. work.mode = "apply" BY <1>1, <1>w DEF Whose
<1>4. uplink = None \/ uplink \in Gateway BY DEF RoutesTyped
<1>5. Aim(work)'
  <2>1. CASE uplink = None BY <1>2, <2>1 DEF Aim, Plan
  <2>2. CASE uplink \in Gateway BY <1>2, <2>2 DEF Aim
  <2> QED BY <1>4, <2>1, <2>2
<1>6. Whose' BY <1>w, <1>2, <1>3 DEF Whose, Discover
<1>7. Aims' BY <1>w, <1>2, <1>3, <1>5 DEF Aims, Discover
<1>8. Writes' BY <1>2 DEF Writes
<1>9. /\ UNCHANGED <<orphans, plan, published, phase, dropped, table, policy, journal>>
  BY DEF Discover, osVars
<1> QED BY <1>1, <1>6, <1>7, <1>8, <1>9, Ahead DEF RoutesKept, Recoverable

LEMMA ObserveKept == RoutesTyped /\ RoutesKept /\ Observe => RoutesKept'
<1> SUFFICES ASSUME RoutesTyped, RoutesKept, Observe PROVE RoutesKept'
  OBVIOUS
<1> DEFINE installed == table \cap (journal.routes \cup work.target)
           adds == work.target \ installed
           ahead == [routes |-> installed \cup adds,
                     policy |-> work.mode = "apply" \/ journal.policy]
<1>1. Reconciling /\ work \in Work /\ work.pc = "observe" /\ journal \in Journal
  BY StepsTyped DEF Observe, At, Reconciling, RoutesTyped
<1>w. Whose /\ Aims /\ Recoverable /\ work.mode \in {"apply", "cleanup"}
  BY <1>1 DEF RoutesKept, Work
<1>2. /\ work' = [work EXCEPT !.pc = IF work.mode = "apply" THEN "add" ELSE "policy",
                              !.adds = adds, !.removes = installed \ work.target,
                              !.journal = ahead, !.clean = TRUE]
      /\ journal' = IF work.mode = "apply" THEN ahead ELSE journal
      /\ UNCHANGED <<orphans, plan, published, phase, dropped, table, policy>>
  BY DEF Observe, WriteAhead, osVars
<1>3. /\ installed = table /\ ahead.routes = table \cup adds
      /\ ahead.policy = (work.mode = "apply" \/ journal.policy)
  BY <1>w DEF Recoverable
<1>4. adds = work.target \ table BY <1>3
<1> HIDE DEF ahead, adds, installed
<1>5. /\ work'.who = work.who /\ work'.mode = work.mode /\ work'.failed = work.failed
      /\ work'.prefixes = work.prefixes /\ work'.candidate = work.candidate
      /\ work'.pc = (IF work.mode = "apply" THEN "add" ELSE "policy")
      /\ work'.target = work.target /\ work'.adds = adds
      /\ work'.removes = installed \ work.target /\ work'.journal = ahead /\ work'.clean = TRUE
  BY <1>1, <1>2 DEF Work
<1>6. Whose' BY <1>w, <1>2, <1>5 DEF Whose
<1>7. Aims' BY <1>w, <1>1, <1>2, <1>5 DEF Aims, Aim
<1>8. table \subseteq journal'.routes /\ (policy => journal'.policy)
  BY <1>w, <1>2, <1>3 DEF Recoverable
<1>9. Writes'
  <2>1. CASE work.mode = "apply"
    BY <1>2, <1>3, <1>4, <1>5, <2>1 DEF Writes
  <2>2. CASE work.mode = "cleanup"
    <3>1. work.target = {} /\ adds = {} BY <1>w, <1>4, <2>2 DEF Aims
    <3> QED BY <1>w, <1>1, <1>2, <1>3, <1>5, <2>2, <3>1 DEF Writes, Recoverable, Journal
  <2> QED BY <1>w, <2>1, <2>2
<1> QED BY <1>1, <1>2, <1>6, <1>7, <1>8, <1>9, Ahead DEF RoutesKept

LEMMA AddKept == RoutesTyped /\ RoutesKept /\ Add => RoutesKept'
<1> SUFFICES ASSUME RoutesTyped, RoutesKept, Add PROVE RoutesKept'
  OBVIOUS
<1>1. Reconciling /\ work \in Work /\ work.pc = "add" /\ work.prefixes \subseteq Prefix
  BY StepsTyped DEF Add, At, Reconciling
<1>w. Whose /\ Aims /\ Writes /\ Recoverable BY <1>1 DEF RoutesKept
<1>2. PICK r \in NextAdds : table' = Install(r) /\ work' = [work EXCEPT !.adds = @ \ {r}]
  BY DEF Add
<1>3. UNCHANGED <<orphans, plan, published, phase, dropped, policy, journal>> BY DEF Add
<1>4. r \in work.adds /\ r \in Route /\ table \subseteq Route /\ published \subseteq Prefix
  BY <1>1, <1>2, StepsTyped DEF RoutesTyped
<1>5. /\ work'.who = work.who /\ work'.mode = work.mode /\ work'.failed = work.failed
      /\ work'.prefixes = work.prefixes /\ work'.candidate = work.candidate
      /\ work'.pc = "add" /\ work'.target = work.target /\ work'.adds = work.adds \ {r}
      /\ work'.removes = work.removes /\ work'.journal = work.journal /\ work'.clean = work.clean
  BY <1>1, <1>2 DEF Work
<1>6. Whose' BY <1>1, <1>w, <1>3, <1>5 DEF Whose
<1>7. Aims' BY <1>1, <1>w, <1>3, <1>5 DEF Aims, Aim
<1>8. Install(r) \subseteq table \cup {r} BY DEF Install
<1>9. work.clean => work.target \subseteq Install(r) \cup (work.adds \ {r})
  <2>1. Aim(work) BY <1>1, <1>w DEF Aims
  <2> QED BY <1>1, <1>w, <1>4, <2>1, InstallFills DEF Writes
<1>10. Writes'
  <2>1. /\ work.adds \subseteq work.target /\ work.removes \cap work.target = {}
        /\ table \subseteq work.journal.routes /\ work.adds \subseteq work.journal.routes
        /\ work.journal.routes \subseteq journal.routes
        /\ work.journal.routes \subseteq work.target \cup work.removes
        /\ work.clean \/ dropped
        /\ work.mode = "apply" => journal.policy
        /\ work.journal.policy = journal.policy
    BY <1>1, <1>w DEF Writes
  <2>2. Install(r) \subseteq work.journal.routes BY <1>4, <1>8, <2>1
  <2> QED BY <1>2, <1>3, <1>4, <1>5, <1>9, <2>1, <2>2 DEF Writes
<1>11. table' \subseteq journal'.routes /\ (policy' => journal'.policy)
  BY <1>1, <1>w, <1>2, <1>3, <1>4, <1>8 DEF Recoverable, Writes
<1>12. ~dropped' => Guarded(published', table')
  <2> SUFFICES ASSUME ~dropped PROVE Guarded(published, Install(r))
    BY <1>2, <1>3
  <2>1. Guarded(published, table) BY DEF RoutesKept
  <2>2. CASE r # Fallback BY <1>4, <2>1, <2>2, InstallGuards
  <2>3. CASE r = Fallback
    <3>1. work.adds \subseteq {Fallback} BY <1>2, <2>3 DEF NextAdds, IsFallback
    <3>2. /\ Fallback \in work.target /\ work.target \ {Fallback} \subseteq table /\ Aim(work)
          /\ published \subseteq work.prefixes
      BY <1>1, <1>w, <1>4, <2>3, <3>1 DEF Writes, Aims, Whose
    <3>3. Covered(published, table) BY <1>4, <3>2, AimCovers
    <3> QED BY <1>4, <3>3, InstallKeeps DEF Guarded
  <2> QED BY <2>2, <2>3
<1> QED BY <1>1, <1>3, <1>6, <1>7, <1>10, <1>11, <1>12, Ahead

LEMMA AddsDoneKept == RoutesTyped /\ RoutesKept /\ AddsDone => RoutesKept'
<1> SUFFICES ASSUME RoutesTyped, RoutesKept, AddsDone PROVE RoutesKept'
  OBVIOUS
<1>1. Reconciling /\ work \in Work /\ work.pc = "add" /\ work.adds = {}
  BY StepsTyped DEF AddsDone, At, Reconciling
<1>w. Whose /\ Aims /\ Writes /\ Recoverable BY <1>1 DEF RoutesKept
<1>3. UNCHANGED <<orphans, plan, published, phase, dropped, policy, journal, table>>
  BY DEF AddsDone, osVars
<1>5. /\ work'.who = work.who /\ work'.mode = work.mode /\ work'.failed = work.failed
      /\ work'.prefixes = work.prefixes /\ work'.candidate = work.candidate
      /\ work'.pc = "policy" /\ work'.target = work.target /\ work'.adds = work.adds
      /\ work'.removes = work.removes /\ work'.journal = work.journal /\ work'.clean = work.clean
  BY <1>1 DEF Work, AddsDone
<1>6. Whose' BY <1>w, <1>3, <1>5 DEF Whose
<1>7. Aims' BY <1>w, <1>1, <1>3, <1>5 DEF Aims, Aim
<1>8. Writes' BY <1>1, <1>w, <1>3, <1>5 DEF Writes
<1> QED BY <1>1, <1>3, <1>6, <1>7, <1>8, <1>w, Ahead DEF RoutesKept, Recoverable

LEMMA PolicyKept == RoutesTyped /\ RoutesKept /\ Policy => RoutesKept'
<1> SUFFICES ASSUME RoutesTyped, RoutesKept, Policy PROVE RoutesKept'
  OBVIOUS
<1>1. Reconciling /\ work \in Work /\ work.pc = "policy" /\ work.journal \in Journal
  BY StepsTyped DEF Policy, At, Reconciling
<1>w. Whose /\ Aims /\ Writes /\ Recoverable /\ work.mode \in {"apply", "cleanup"}
  BY <1>1 DEF RoutesKept, Work
<1>3. UNCHANGED <<orphans, plan, published, phase, dropped, journal, table>> BY DEF Policy
<1>4. policy' = IF work.mode = "apply" THEN TRUE ELSE policy /\ ~work.journal.policy
  BY DEF Policy
<1>5. /\ work'.who = work.who /\ work'.mode = work.mode /\ work'.failed = work.failed
      /\ work'.prefixes = work.prefixes /\ work'.candidate = work.candidate
      /\ work'.pc = "remove" /\ work'.target = work.target /\ work'.adds = work.adds
      /\ work'.removes = work.removes /\ work'.journal.routes = work.journal.routes
      /\ work'.journal.policy = (work.mode = "apply") /\ work'.clean = work.clean
  BY <1>1 DEF Work, Policy, Journal
<1>6. Whose' BY <1>w, <1>3, <1>5 DEF Whose
<1>7. Aims' BY <1>w, <1>1, <1>3, <1>5 DEF Aims, Aim
<1>8. policy' => work.mode = "apply" /\ journal.policy
  BY <1>1, <1>w, <1>4 DEF Writes, Recoverable
<1>9. Writes' BY <1>1, <1>w, <1>3, <1>5, <1>8 DEF Writes
<1> QED BY <1>1, <1>3, <1>6, <1>7, <1>8, <1>9, <1>w, Ahead DEF RoutesKept, Recoverable

LEMMA RemoveKept == RoutesTyped /\ RoutesKept /\ RemoveRoutes => RoutesKept'
<1> SUFFICES ASSUME RoutesTyped, RoutesKept, RemoveRoutes PROVE RoutesKept'
  OBVIOUS
<1>1. Reconciling /\ work \in Work /\ work.pc = "remove" /\ work.journal \in Journal
  BY StepsTyped DEF RemoveRoutes, At, Reconciling
<1>w. Whose /\ Aims /\ Writes BY <1>1 DEF RoutesKept
<1>2. PICK r \in NextRemoves :
        LET rest == [work.journal EXCEPT !.routes = @ \ {r}]
        IN  /\ table' = table \ {r} /\ journal' = rest
            /\ work' = [work EXCEPT !.removes = @ \ {r}, !.journal = rest]
  BY DEF RemoveRoutes
<1>3. UNCHANGED <<orphans, plan, published, phase, dropped, policy>> BY DEF RemoveRoutes
<1>4. r \in work.removes /\ published \subseteq Prefix
  BY <1>1, <1>2, StepsTyped DEF RoutesTyped
<1>5. /\ work'.who = work.who /\ work'.mode = work.mode /\ work'.failed = work.failed
      /\ work'.prefixes = work.prefixes /\ work'.candidate = work.candidate
      /\ work'.pc = "remove" /\ work'.target = work.target /\ work'.adds = work.adds
      /\ work'.removes = work.removes \ {r}
      /\ journal' = work'.journal /\ work'.journal.routes = work.journal.routes \ {r}
      /\ work'.journal.policy = work.journal.policy /\ work'.clean = work.clean
  BY <1>1, <1>2 DEF Work, Journal
<1>6. Whose' BY <1>w, <1>3, <1>5 DEF Whose
<1>7. Aims' BY <1>w, <1>1, <1>3, <1>5 DEF Aims, Aim
<1>8. /\ r \notin work.target /\ table \subseteq work.target \cup work.removes
      /\ work.adds = {} /\ (policy => work.journal.policy)
      /\ work.journal.policy = (work.mode = "apply")
  BY <1>1, <1>w, <1>4 DEF Writes, Journal
<1>9. Writes' BY <1>1, <1>w, <1>2, <1>3, <1>5, <1>8 DEF Writes
<1>10. table' \subseteq journal'.routes /\ (policy' => journal'.policy)
  BY <1>1, <1>w, <1>2, <1>3, <1>5, <1>8 DEF Writes
<1>11. ~dropped' => Guarded(published', table')
  <2> SUFFICES ASSUME ~dropped, Fallback \in table, r # Fallback
               PROVE Covered(published, table \ {r})
    BY <1>2, <1>3 DEF Guarded
  <2>1. Fallback \notin work.removes BY <1>2 DEF NextRemoves
  <2>2. /\ Fallback \in work.target /\ work.target \subseteq table /\ Aim(work)
        /\ published \subseteq work.prefixes
    BY <1>1, <1>w, <1>8, <2>1 DEF Writes, Aims, Work
  <2>3. work.target \ {Fallback} \subseteq table \ {r} BY <1>8, <2>2
  <2> QED BY <1>4, <2>2, <2>3, AimCovers
<1> QED BY <1>1, <1>3, <1>6, <1>7, <1>9, <1>10, <1>11, Ahead

LEMMA StepFailsKept == RoutesTyped /\ RoutesKept /\ StepFails => RoutesKept'
<1> SUFFICES ASSUME RoutesTyped, RoutesKept, StepFails PROVE RoutesKept'
  OBVIOUS
<1>1. /\ Reconciling /\ work \in Work /\ work.pc \in {"add", "policy", "remove"}
      /\ work.mode \in {"apply", "cleanup"} /\ Broken
      /\ UNCHANGED <<policy, journal, plan, published, orphans, dropped>>
  BY StepsTyped DEF StepFails, Reconciling, Work
<1>w. Whose /\ Aims /\ Writes /\ Recoverable BY <1>1 DEF RoutesKept
<1>2. CASE work.mode = "apply"
  <2>1. /\ work' = [work EXCEPT !.mode = "cleanup", !.failed = TRUE, !.pc = "observe",
                                !.target = {}]
        /\ UNCHANGED <<table, phase>>
    BY <1>1, <1>2 DEF Broken, FallBack
  <2>2. /\ work'.who = work.who /\ work'.mode = "cleanup" /\ work'.failed = TRUE
        /\ work'.pc = "observe" /\ work'.target = {}
        /\ work'.prefixes = work.prefixes /\ work'.candidate = work.candidate
    BY <1>1, <2>1 DEF Work
  <2>3. Whose' BY <1>w, <1>1, <1>2, <2>1, <2>2 DEF Whose
  <2>4. Aims' BY <2>2 DEF Aims, Aim
  <2>5. Writes' BY <2>2 DEF Writes
  <2> QED BY <1>1, <1>w, <2>1, <2>3, <2>4, <2>5, Ahead DEF RoutesKept, Recoverable
<1>3. CASE work.mode = "cleanup" BY <1>1, <1>3, GivenUp DEF Broken
<1> QED BY <1>1, <1>2, <1>3

LEMMA DiscoverFailsKept == RoutesTyped /\ RoutesKept /\ DiscoverFails => RoutesKept'
BY GivenUp DEF DiscoverFails, At, Reconciling

LEMMA AlreadyThereKept == RoutesTyped /\ RoutesKept /\ AlreadyThere => RoutesKept'
<1> SUFFICES ASSUME RoutesTyped, RoutesKept, AlreadyThere PROVE RoutesKept'
  OBVIOUS
<1>1. /\ Reconciling /\ work.pc = "observe" /\ work.mode = "apply"
      /\ journal.routes = work.target /\ work.target \subseteq table
      /\ Succeed(TRUE) /\ UNCHANGED <<table, policy, journal, plan, orphans>>
  BY DEF AlreadyThere, At, Reconciling, Settled, osVars
<1>2. Aims /\ Recoverable BY <1>1 DEF RoutesKept
<1>3. Aim(work) /\ table \subseteq work.target BY <1>1, <1>2 DEF Aims, Recoverable
<1> QED BY <1>1, <1>2, <1>3, SucceededWell DEF Recoverable

LEMMA FinishKept == RoutesTyped /\ RoutesKept /\ Finish => RoutesKept'
<1> SUFFICES ASSUME RoutesTyped, RoutesKept, Finish PROVE RoutesKept'
  OBVIOUS
<1>1. /\ Reconciling /\ work \in Work /\ work.pc = "remove" /\ work.removes = {}
      /\ work.journal \in Journal /\ work.clean \in BOOLEAN /\ work.mode \in {"apply", "cleanup"}
      /\ journal' = [work.journal EXCEPT !.routes = work.target]
      /\ UNCHANGED <<policy, plan, orphans>>
  BY StepsTyped DEF Finish, At, Reconciling, Work
<1>w. Whose /\ Aims /\ Writes /\ Recoverable BY <1>1 DEF RoutesKept
<1>2. journal'.routes = work.target /\ journal'.policy = work.journal.policy
  BY <1>1 DEF Journal
<1>3. /\ table \subseteq work.target /\ Aim(work) /\ (work.clean \/ dropped)
      /\ (work.clean => work.target \subseteq table)
      /\ (policy => work.journal.policy) /\ (work.journal.policy <=> work.mode = "apply")
  BY <1>1, <1>w DEF Writes, Aims
<1>4. CASE work.failed
  <2>1. GiveUp /\ UNCHANGED <<published, dropped>> BY <1>4 DEF Finish
  <2>2. work' = NoWork /\ table' \in {table, table \ {Fallback}} BY <2>1 DEF GiveUp
  <2>3. phase' # "starting" \/ phase' = phase BY <2>1 DEF GiveUp, CoreGone
  <2>4. phase' # "idle" BY <1>1, <2>1, OnDuty DEF GiveUp, CoreGone
  <2>5. work.target = {} BY <1>w, <1>4 DEF Whose, Aims
  <2>6. Recoverable' BY <1>1, <1>2, <1>3, <2>2, <2>4 DEF Recoverable
  <2>7. Guarded(published', table') BY <1>3, <2>2, <2>5 DEF Guarded
  <2>8. phase' = "starting" => plan' = published' BY <1>1, <2>1, <2>3 DEF RoutesKept
  <2> QED BY <1>1, <2>2, <2>6, <2>7, <2>8, Ended DEF RoutesKept
<1>5. CASE ~work.failed
  <2>1. Succeed(work.clean) /\ UNCHANGED table BY <1>5 DEF Finish
  <2> QED BY <1>1, <1>2, <1>3, <2>1, SucceededWell
<1> QED BY <1>4, <1>5

LEMMA CallersKept == RoutesTyped /\ RoutesKept /\ CallerStep => RoutesKept'
<1> SUFFICES ASSUME RoutesTyped, RoutesKept, CallerStep PROVE RoutesKept'
  OBVIOUS
<1> USE DEF osVars
<1>t. published \in SUBSET Prefix /\ plan \in SUBSET Prefix BY DEF RoutesTyped
<1>1. CASE StartCore
  <2>1. ~Reconciling BY <1>1, OnDuty DEF StartCore
  <2> QED BY <1>1, <2>1 DEF StartCore, RoutesKept, Reconciling, Recoverable, Guarded, Covered
<1>2. CASE StartRoutes
  <2>1. plan = published BY <1>2 DEF StartRoutes, RoutesKept
  <2> QED BY <1>2, <1>t, <2>1, Begun DEF StartRoutes, Who
<1>3. CASE OpenEvents
  BY <1>3 DEF OpenEvents, RoutesKept, Reconciling, Recoverable, Guarded, Covered, Whose, Aims, Aim,
              Writes
<1>4. CASE Monitor BY <1>4, <1>t, Begun DEF Monitor, Who, SnapshotNow
<1>5. CASE Refresh
  <2>1. PICK c \in Snapshots : Begin("refresh", "apply", plan \cup c \cup published, c)
    BY <1>5 DEF Refresh
  <2>2. c \in SUBSET Prefix /\ plan \cup c \cup published \in SUBSET Prefix
    BY <1>t, RouteAssumption
  <2> QED BY <1>5, <2>1, <2>2, Begun DEF Refresh, Who
<1>6. CASE Deactivate
  <2>1. ~Reconciling BY <1>6, OnDuty DEF Deactivate
  <2> QED BY <1>6, <2>1 DEF Deactivate, RoutesKept, Reconciling, Recoverable, Guarded, Covered
<1>7. CASE StopRoutes BY <1>7, Begun DEF StopRoutes, Who
<1> QED BY <1>1, <1>2, <1>3, <1>4, <1>5, <1>6, <1>7 DEF CallerStep

LEMMA InterruptKept ==
    RoutesTyped /\ RoutesKept /\ ~detached /\ (InterruptRoutes \/ Crash) => RoutesKept'
<1> SUFFICES ASSUME RoutesTyped, RoutesKept, ~detached, InterruptRoutes \/ Crash
             PROVE  RoutesKept'
  OBVIOUS
<1>1. /\ work' = NoWork /\ table' = table \ {Fallback}
      /\ UNCHANGED <<policy, journal, plan, published, dropped>>
  BY DEF InterruptRoutes, Crash
<1>2. orphans' = {} BY DEF InterruptRoutes, Crash, InFlight, RoutesKept
<1>3. phase' \in {"off", phase} /\ (phase' = "starting" => phase = "starting")
  BY DEF InterruptRoutes, Crash, CoreGone
<1>4. phase' = "idle" => phase = "idle" BY <1>3
<1>5. phase' = "starting" => plan' = published' BY <1>1, <1>3 DEF RoutesKept
<1> QED BY <1>1, <1>2, <1>4, <1>5, FallbackGoes, Ended

LEMMA UplinkKept == RoutesTyped /\ RoutesKept /\ UplinkMoves => RoutesKept'
<1> SUFFICES ASSUME RoutesTyped, RoutesKept, UplinkMoves PROVE RoutesKept'
  OBVIOUS
<1>1. PICK lost \in {{}, {r \in table : r.via = uplink}} :
        /\ table' = table \ lost /\ dropped' = (dropped \/ lost # {})
        /\ work' = IF work # NoWork /\ lost # {} THEN [work EXCEPT !.clean = FALSE] ELSE work
  BY DEF UplinkMoves
<1>2. UNCHANGED <<policy, journal, phase, plan, published, orphans>> BY DEF UplinkMoves
<1>3. Recoverable' BY <1>1, <1>2 DEF RoutesKept, Recoverable
<1>4. ~dropped' => Guarded(published', table') BY <1>1, <1>2 DEF RoutesKept, Guarded, Covered
<1>5. Reconciling' => Whose' /\ Aims' /\ Writes'
  <2> SUFFICES ASSUME Reconciling' PROVE Whose' /\ Aims' /\ Writes'
    OBVIOUS
  <2>1. Reconciling /\ work \in Work BY <1>1, StepsTyped DEF Reconciling
  <2>2. /\ work'.who = work.who /\ work'.mode = work.mode /\ work'.failed = work.failed
        /\ work'.prefixes = work.prefixes /\ work'.candidate = work.candidate
        /\ work'.pc = work.pc /\ work'.target = work.target /\ work'.adds = work.adds
        /\ work'.removes = work.removes /\ work'.journal = work.journal
        /\ (work'.clean => lost = {} /\ work.clean)
        /\ (lost = {} => work'.clean = work.clean)
    BY <1>1, <2>1 DEF Work, Reconciling
  <2>w. Whose /\ Aims /\ Writes BY <2>1 DEF RoutesKept
  <2>3. Whose' BY <1>2, <2>2, <2>w DEF Whose
  <2>4. Aims' BY <1>2, <2>2, <2>w DEF Aims, Aim
  <2>5. Writes' BY <1>1, <1>2, <2>2, <2>w DEF Writes
  <2> QED BY <2>3, <2>4, <2>5
<1>6. ~dropped' => Guarded(published, table)' BY <1>4 DEF Guarded, Covered
<1> QED BY <1>2, <1>3, <1>5, <1>6 DEF RoutesKept

LEMMA RoutesKeep == RoutesInv /\ [Next]_vars => RoutesInv'
<1> SUFFICES ASSUME RoutesInv, [Next]_vars PROVE RoutesInv'
  OBVIOUS
<1>1. RoutesTyped /\ RoutesTyped' BY RoutesTypes DEF RoutesInv
<1>2. detached' = detached
  BY DEF Next, CallerStep, ReconcileStep, FaultStep, StartCore, StartRoutes, OpenEvents, Monitor,
         Refresh, Deactivate, StopRoutes, Discover, AlreadyThere, Observe, Add, AddsDone, Policy,
         RemoveRoutes, Finish, DiscoverFails, StepFails, InterruptRoutes, Crash, BatchEnds,
         UplinkMoves, osVars, vars
<1>3. ASSUME ~detached PROVE RoutesKept'
  <2>1. RoutesKept BY <1>3 DEF RoutesInv
  <2>2. CASE CallerStep BY <1>1, <2>1, <2>2, CallersKept
  <2>3. CASE ReconcileStep
    BY <1>1, <2>1, <2>3, DiscoverKept, AlreadyThereKept, ObserveKept, AddKept, AddsDoneKept,
       PolicyKept, RemoveKept, FinishKept DEF ReconcileStep
  <2>4. CASE FaultStep
    <3>1. ~BatchEnds BY <2>1 DEF BatchEnds, RoutesKept
    <3> QED BY <1>1, <1>3, <2>1, <2>4, <3>1, DiscoverFailsKept, StepFailsKept, InterruptKept,
               UplinkKept DEF FaultStep
  <2>5. CASE UNCHANGED vars
    BY <2>1, <2>5 DEF vars, osVars, memoryVars, RoutesKept, Reconciling, Recoverable, Guarded,
                      Covered,
                      Whose, Aims, Aim, Writes
  <2> QED BY <2>2, <2>3, <2>4, <2>5 DEF Next
<1> QED BY <1>1, <1>2, <1>3 DEF RoutesInv

LEMMA RoutesInit == Init => RoutesInv
<1> SUFFICES ASSUME Init PROVE RoutesInv
  OBVIOUS
<1>1. \A s \in Snapshots : s \subseteq Prefix BY RouteAssumption
<1>2. RoutesTyped BY <1>1 DEF Init, RoutesTyped, NoJournal, Journal
<1>3. RoutesKept
  BY DEF Init, RoutesKept, Recoverable, NoJournal, Guarded, Reconciling
<1> QED BY <1>2, <1>3 DEF RoutesInv

LEMMA RoutesWell == RoutesInv => RoutesSafe
BY GuardedIs DEF RoutesInv, RoutesKept, RoutesSafe, RoutesJournaled, PublishedStaysDirect

(* Whatever fails, is interrupted or changes in the network, all owned     *)
(* routes and rules are in the journal, and while the fallback sends all   *)
(* into the TUN what is published as direct stays direct.  Where a batch   *)
(* of commands outlives the caller that gave it up (macOS) neither is      *)
(* claimed once one does.                                                  *)
THEOREM RoutesAlwaysSafe == Spec => []RoutesSafe
<1>1. RoutesInv /\ [Next]_vars => RoutesInv' BY RoutesKeep
<1> QED BY <1>1, RoutesInit, RoutesWell, PTL DEF Spec

(***************************************************************************)
(* RuleSets: types.                                                        *)
(***************************************************************************)
RunningCores ==
    [up : {TRUE}, deployment : Deployment \cup {"none"}, local : SUBSET Rule, routes : SUBSET Nat]
Refreshes ==
    [pc : {"download", "cover", "check", "publish"}, todo : SUBSET Rule,
     got : [Rule -> Nat], writing : Rule \cup {"none"}]

Up == runtime # NoRuntime
Refreshing == refresh # AtEase

RulesTyped ==
    /\ runtime \in {NoRuntime} \cup RunningCores /\ wanted \in Deployment \cup {"none"}
    /\ served \in [Rule -> Nat] /\ ruleFile \in [Rule -> Nat] /\ entries \in [Rule -> Nat]
    /\ bypass \subseteq Nat /\ torn \in BOOLEAN
    /\ refresh \in {AtEase} \cup Refreshes /\ gate \in {"free", "refresh", "other"}
    /\ Refreshing => Up

LEMMA UpIsUp == RulesTyped => (Up <=> runtime.up)
<1>1. CASE runtime = NoRuntime BY <1>1 DEF Up, NoRuntime
<1>2. ASSUME RulesTyped, runtime # NoRuntime PROVE Up /\ runtime.up
  <2>1. runtime \in RunningCores BY <1>2 DEF RulesTyped
  <2>2. runtime.up = TRUE BY <2>1 DEF RunningCores
  <2> QED BY <1>2, <2>2 DEF Up
<1> QED BY <1>1, <1>2

LEMMA RefreshingIs ==
    RulesTyped => /\ Refreshing <=> refresh.pc # "wait"
                  /\ Refreshing <=> refresh \in Refreshes
BY DEF RulesTyped, Refreshing, Refreshes, AtEase

LEMMA RepairedFile ==
    RulesTyped => /\ Repaired \in [Rule -> Nat]
                  /\ \A r \in Rule : /\ Repaired[r] >= entries[r]
                                     /\ entries[r] # 0 => Repaired[r] = entries[r]
BY DEF RulesTyped, Repaired

\* A start, taken apart.
LEMMA StartOf ==
    ASSUME RulesTyped, RuntimeStarts
    PROVE  /\ ~Up /\ UNCHANGED <<wanted, served, refresh, gate>> /\ torn' = FALSE
           /\ runtime' \in RunningCores
           /\ ruleFile' \in [Rule -> Nat] /\ entries' \in [Rule -> Nat]
           /\ \A r \in Rule : ruleFile'[r] >= entries'[r]
           /\ \A r \in Rule : entries'[r] \in {entries[r], served[r]}
           /\ \A r \in runtime'.local : entries'[r] > 0 \/ entries'[r] = served[r]
           /\ bypass' = runtime'.routes
           /\ runtime'.routes # {} =>
                /\ Cn \in runtime'.local /\ ruleFile'[Cn] = entries'[Cn]
                /\ ruleFile'[Cn] \in bypass'
<1> USE RuleAssumption
<1>1. ~Up /\ UNCHANGED <<wanted, served, refresh, gate>> /\ torn' = FALSE
  BY UpIsUp DEF RuntimeStarts
<1>2. PICK fetched \in CnFetched :
        LET here == {r \in Rule : entries[r] # 0} \cup (IF fetched THEN {Cn} ELSE {})
            files == IF fetched THEN [Repaired EXCEPT ![Cn] = served[Cn]] ELSE Repaired
            past == IF Cn \in here THEN {files[Cn]} ELSE {}
        IN  /\ ruleFile' = files
            /\ entries' = IF fetched THEN [entries EXCEPT ![Cn] = served[Cn]] ELSE entries
            /\ runtime' = [up |-> TRUE, deployment |-> wanted, local |-> here,
                           routes |-> past]
            /\ bypass' = past
  BY DEF RuntimeStarts
<1>3. CASE fetched
  <2> DEFINE here == {r \in Rule : entries[r] # 0} \cup {Cn}
             files == [Repaired EXCEPT ![Cn] = served[Cn]]
  <2>1. /\ ruleFile' = files /\ entries' = [entries EXCEPT ![Cn] = served[Cn]]
        /\ runtime' = [up |-> TRUE, deployment |-> wanted, local |-> here,
                       routes |-> {files[Cn]}]
        /\ bypass' = {files[Cn]}
    BY <1>2, <1>3
  <2>2. files \in [Rule -> Nat] /\ files[Cn] = served[Cn]
        /\ \A r \in Rule : r # Cn => files[r] >= entries[r]
    BY RepairedFile DEF RulesTyped
  <2>3. entries' \in [Rule -> Nat] /\ entries'[Cn] = served[Cn]
        /\ \A r \in Rule : r # Cn => entries'[r] = entries[r]
    BY <2>1 DEF RulesTyped
  <2> HIDE DEF files
  <2>4. runtime' \in RunningCores BY <2>1, <2>2 DEF RunningCores, RulesTyped
  <2> QED BY <1>1, <2>1, <2>2, <2>3, <2>4 DEF RulesTyped
<1>4. CASE ~fetched
  <2> DEFINE here == {r \in Rule : entries[r] # 0}
             past == IF Cn \in here THEN {Repaired[Cn]} ELSE {}
  <2>1. /\ ruleFile' = Repaired /\ entries' = entries
        /\ runtime' = [up |-> TRUE, deployment |-> wanted, local |-> here, routes |-> past]
        /\ bypass' = past
    BY <1>2, <1>4
  <2>2. past \subseteq Nat BY RepairedFile
  <2>3. runtime' \in RunningCores BY <2>1, <2>2 DEF RunningCores, RulesTyped
  <2> QED BY <1>1, <2>1, <2>3, RepairedFile DEF RulesTyped
<1> QED BY <1>3, <1>4

\* What the invariants read of a refresh that is under way.
RefreshAt(pcs) == Refreshing /\ refresh.pc \in pcs
Writing == IF Refreshing THEN refresh.writing ELSE "none"

LEMMA RulesTypedKept == RulesTyped /\ [RuleNext]_ruleVars => RulesTyped'
<1> SUFFICES ASSUME RulesTyped, [RuleNext]_ruleVars PROVE RulesTyped'
  OBVIOUS
<1> USE RuleAssumption
<1>0. Refreshing => refresh \in Refreshes /\ Up BY RefreshingIs DEF RulesTyped
<1>1. CASE RuntimeStarts
  <2>1. outdated' = outdated /\ bypass' \subseteq Nat
    BY <1>1, StartOf DEF RuntimeStarts, RunningCores
  <2>2. ~Refreshing' BY <1>0, <1>1, StartOf DEF Refreshing
  <2> QED BY <1>1, <2>1, <2>2, StartOf DEF RulesTyped
<1>2. CASE RuntimeStops \/ RuleCrash
  BY <1>2 DEF RuntimeStops, RuleCrash, RulesTyped, Freed, Refreshing
<1>3. CASE Select \/ OtherHolds
  BY <1>3 DEF Select, OtherHolds, RulesTyped, Refreshing, Up
<1>4. CASE RulesMove
  BY <1>4 DEF RulesMove, RulesTyped, Refreshing, Up
<1>5. CASE BeginRefresh
  <2>1. refresh' \in Refreshes BY <1>5 DEF BeginRefresh, Refreshes, Nothing
  <2>2. Up' BY <1>5, UpIsUp DEF BeginRefresh, Up
  <2> QED BY <1>5, <2>1, <2>2, RepairedFile DEF BeginRefresh, RulesTyped
<1>6. CASE Download
  <2>1. PICK r \in refresh.todo :
          refresh' = [refresh EXCEPT !.todo = @ \ {r}, !.got[r] = served[r]]
    BY <1>6 DEF Download
  <2>2. refresh \in Refreshes /\ Up BY <1>0, <1>6 DEF Download, Refreshing, AtEase
  <2>3. refresh' \in Refreshes BY <2>1, <2>2 DEF Refreshes, RulesTyped
  <2> QED BY <1>6, <2>2, <2>3 DEF Download, RulesTyped, Up
<1>7. CASE RefreshFails
  <2>1. torn' \in BOOLEAN
    <3>1. (refresh.writing = Cn) \in BOOLEAN OBVIOUS
    <3>2. torn' = (torn \/ refresh.writing = Cn) BY <1>7 DEF RefreshFails
    <3> QED BY <3>1, <3>2 DEF RulesTyped
  <2> QED BY <1>7, <2>1 DEF RefreshFails, RulesTyped, Freed, Refreshing
<1>8. CASE Enter
  <2>1. refresh' \in Refreshes /\ Up
    BY <1>0, <1>8 DEF Enter, Refreshing, AtEase, Refreshes
  <2> QED BY <1>8, <2>1 DEF Enter, RulesTyped, Up
<1>9. CASE Cover
  <2>1. refresh \in Refreshes /\ Up BY <1>0, <1>9 DEF Cover, Refreshing, AtEase
  <2>2. refresh' \in Refreshes BY <1>9, <2>1 DEF Cover, Refreshes
  <2>3. Union \subseteq Nat
    <3>1. runtime.routes \subseteq Nat BY <2>1 DEF Up, RulesTyped, RunningCores
    <3>2. refresh.got[Cn] \in Nat /\ ruleFile[Cn] \in Nat
      BY <2>1 DEF Refreshes, RulesTyped
    <3> QED BY <3>1, <3>2 DEF Union
  <2>4. bypass' \in {Union, bypass} BY <1>9 DEF Cover
  <2> QED BY <1>9, <2>1, <2>2, <2>3, <2>4 DEF Cover, RulesTyped, Up
<1>10. CASE Check
  <2>1. refresh \in Refreshes /\ Up BY <1>0, <1>10 DEF Check, Refreshing, AtEase
  <2>2. refresh' \in {AtEase} \cup Refreshes /\ gate' \in {gate, "free"}
    <3>1. CASE wanted = runtime.deployment
      <4>1. refresh' = [refresh EXCEPT !.pc = "publish",
                                       !.todo = {r \in Rule : refresh.got[r] # 0}]
            /\ gate' = gate
        BY <1>10, <3>1 DEF Check
      <4> QED BY <2>1, <4>1 DEF Refreshes
    <3>2. CASE wanted # runtime.deployment BY <1>10, <3>2 DEF Check
    <3> QED BY <3>1, <3>2
  <2> QED BY <1>10, <2>1, <2>2 DEF Check, RulesTyped, Up
<1>11. CASE PublishFile
  <2>1. refresh \in Refreshes /\ Up BY <1>0, <1>11 DEF PublishFile, Refreshing, AtEase
  <2>2. refresh' \in Refreshes /\ ruleFile' \in [Rule -> Nat]
    BY <1>11, <2>1 DEF PublishFile, Refreshes, RulesTyped
  <2> QED BY <1>11, <2>1, <2>2 DEF PublishFile, RulesTyped, Up
<1>12. CASE PublishEntry
  <2>1. refresh \in Refreshes /\ Up BY <1>0, <1>12 DEF PublishEntry, Refreshing, AtEase
  <2>2. refresh' \in Refreshes /\ entries' \in [Rule -> Nat]
    BY <1>12, <2>1 DEF PublishEntry, Refreshes, RulesTyped
  <2> QED BY <1>12, <2>1, <2>2 DEF PublishEntry, RulesTyped, Up
<1>13. CASE EndRefresh
  BY <1>13 DEF EndRefresh, RulesTyped, Refreshing
<1>14. CASE FollowRules
  BY <1>14 DEF FollowRules, RulesTyped, Refreshing, Up
<1>15. CASE UNCHANGED ruleVars
  BY <1>15 DEF ruleVars, RulesTyped, Refreshing, Up
<1> QED BY <1>1, <1>2, <1>3, <1>4, <1>5, <1>6, <1>7, <1>8, <1>9, <1>10, <1>11, <1>12, <1>13,
           <1>14, <1>15 DEF RuleNext

(***************************************************************************)
(* RuleSets: what is cached only becomes newer, and a refresh works under  *)
(* the gate with what it downloaded.                                       *)
(***************************************************************************)
Advancing ==
    /\ \A r \in Rule : served[r] > 0 /\ entries[r] <= served[r]
    /\ Refreshing => \A r \in Rule :
         refresh.got[r] # 0 => entries[r] <= refresh.got[r] /\ refresh.got[r] <= served[r]
    /\ RefreshAt({"download", "cover", "check"}) => refresh.writing = "none"
    /\ RefreshAt({"cover", "check", "publish"}) => gate = "refresh"
    /\ RefreshAt({"publish"}) =>
         /\ refresh.todo \subseteq {r \in Rule : refresh.got[r] # 0}
         /\ refresh.writing # "none" =>
              refresh.writing \in refresh.todo
              /\ ruleFile[refresh.writing] = refresh.got[refresh.writing]

\* The routes past the TUN and the files of a running core.
Covering ==
    Up =>
    /\ runtime.routes # {} => Cn \in runtime.local
    /\ \A r \in runtime.local : entries[r] > 0
    /\ \A r \in Rule : ruleFile[r] >= entries[r]
    /\ runtime.routes # {} /\ ~torn =>
         /\ ruleFile[Cn] \in bypass
         /\ ruleFile[Cn] = entries[Cn] \/ Writing = Cn
    /\ RefreshAt({"check", "publish"}) /\ runtime.routes # {} /\ refresh.got[Cn] # 0 =>
         refresh.got[Cn] \in bypass

RulesInv == RulesTyped /\ Advancing /\ Covering

LEMMA AdvancingKept ==
    RulesTyped /\ RulesTyped' /\ Advancing /\ [RuleNext]_ruleVars => Advancing'
<1> SUFFICES ASSUME RulesTyped, RulesTyped', Advancing, [RuleNext]_ruleVars PROVE Advancing'
  OBVIOUS
<1> USE RuleAssumption
<1>0. Refreshing => refresh \in Refreshes /\ Up BY RefreshingIs DEF RulesTyped
<1>1. CASE RuntimeStarts
  <2>1. refresh = AtEase /\ refresh' = AtEase /\ UNCHANGED served
    BY <1>0, <1>1, StartOf DEF Refreshing
  <2>2. \A r \in Rule : entries'[r] \in {entries[r], served[r]} BY <1>1, StartOf
  <2> QED BY <2>1, <2>2 DEF Advancing, RefreshAt, Refreshing, RulesTyped
<1>2. CASE RuntimeStops \/ RuleCrash \/ RefreshFails \/ EndRefresh
  <2>1. refresh' = AtEase /\ UNCHANGED <<served, entries>>
    BY <1>2 DEF RuntimeStops, RuleCrash, RefreshFails, EndRefresh
  <2> QED BY <2>1 DEF Advancing, RefreshAt, Refreshing
<1>3. CASE Select \/ FollowRules \/ UNCHANGED ruleVars
  <2>1. UNCHANGED <<served, entries, refresh, ruleFile, gate>>
    BY <1>3 DEF Select, FollowRules, ruleVars
  <2> QED BY <2>1 DEF Advancing, RefreshAt, Refreshing
<1>4. CASE OtherHolds
  <2>1. UNCHANGED <<served, entries, refresh, ruleFile>> /\ gate # "refresh"
    BY <1>4 DEF OtherHolds
  <2> QED BY <2>1 DEF Advancing, RefreshAt, Refreshing
<1>5. CASE RulesMove
  <2>1. UNCHANGED <<entries, refresh, ruleFile, gate>> /\ \A r \in Rule : served'[r] >= served[r]
    BY <1>5 DEF RulesMove, RulesTyped
  <2>2. Refreshing => refresh.got \in [Rule -> Nat] BY <1>0 DEF Refreshes
  <2> QED BY <2>1, <2>2 DEF Advancing, RefreshAt, Refreshing, RulesTyped
<1>6. CASE BeginRefresh
  <2>1. /\ UNCHANGED <<served, entries>> /\ refresh'.pc = "download"
        /\ refresh'.got = Nothing /\ refresh'.writing = "none"
    BY <1>6 DEF BeginRefresh
  <2> QED BY <2>1 DEF Advancing, RefreshAt, Refreshing, Nothing
<1>7. CASE Download
  <2>1. PICK r \in refresh.todo :
          refresh' = [refresh EXCEPT !.todo = @ \ {r}, !.got[r] = served[r]]
    BY <1>7 DEF Download
  <2>2. refresh \in Refreshes /\ refresh.pc = "download" /\ Refreshing /\ r \in Rule
    BY <1>0, <1>7 DEF Download, Refreshing, AtEase, Refreshes
  <2>3. /\ refresh'.pc = "download" /\ refresh'.writing = refresh.writing
        /\ refresh'.got = [refresh.got EXCEPT ![r] = served[r]]
    BY <2>1, <2>2 DEF Refreshes
  <2>4. UNCHANGED <<served, entries>> BY <1>7 DEF Download
  <2>5. \A q \in Rule : refresh'.got[q] # 0 =>
          entries[q] <= refresh'.got[q] /\ refresh'.got[q] <= served[q]
    BY <2>2, <2>3 DEF Advancing, RulesTyped, Refreshes
  <2>6. refresh.writing = "none" BY <2>2 DEF Advancing, RefreshAt
  <2> QED BY <2>3, <2>4, <2>5, <2>6 DEF Advancing, RefreshAt, Refreshing
<1>8. CASE Enter \/ Cover
  <2>1. refresh \in Refreshes /\ refresh.pc \in {"download", "cover"} /\ Refreshing
    BY <1>0, <1>8 DEF Enter, Cover, Refreshing, AtEase
  <2>2. /\ refresh'.pc \in {"cover", "check"} /\ refresh'.writing = refresh.writing
        /\ refresh'.got = refresh.got
    BY <1>8, <2>1 DEF Refreshes, Enter, Cover
  <2>3. UNCHANGED <<served, entries>> BY <1>8 DEF Enter, Cover
  <2>4. gate' = "refresh" BY <1>8, <2>1 DEF Enter, Cover, Advancing, RefreshAt
  <2> QED BY <2>1, <2>2, <2>3, <2>4 DEF Advancing, RefreshAt, Refreshing
<1>9. CASE Check
  <2>1. refresh \in Refreshes /\ refresh.pc = "check" /\ Refreshing
    BY <1>0, <1>9 DEF Check, Refreshing, AtEase
  <2>2. UNCHANGED <<served, entries>> BY <1>9 DEF Check
  <2>3. CASE refresh' = AtEase BY <2>2, <2>3 DEF Advancing, RefreshAt, Refreshing
  <2>4. CASE refresh' # AtEase
    <3>1. /\ gate' = gate
          /\ refresh' = [refresh EXCEPT !.pc = "publish",
                                        !.todo = {r \in Rule : refresh.got[r] # 0}]
      BY <1>9, <2>4 DEF Check
    <3>2. /\ refresh'.pc = "publish" /\ refresh'.writing = "none" /\ refresh'.got = refresh.got
          /\ refresh'.todo = {r \in Rule : refresh.got[r] # 0}
      BY <2>1, <3>1 DEF Advancing, RefreshAt, Refreshes
    <3> QED BY <2>1, <2>2, <3>1, <3>2 DEF Advancing, RefreshAt, Refreshing
  <2> QED BY <2>3, <2>4
<1>10. CASE PublishFile
  <2>1. PICK r \in refresh.todo : /\ ruleFile' = [ruleFile EXCEPT ![r] = refresh.got[r]]
                                  /\ refresh' = [refresh EXCEPT !.writing = r]
    BY <1>10 DEF PublishFile
  <2>2. refresh \in Refreshes /\ refresh.pc = "publish" /\ Refreshing /\ r \in Rule
    BY <1>0, <1>10 DEF PublishFile, Refreshing, AtEase, Refreshes
  <2>3. /\ refresh'.pc = "publish" /\ refresh'.writing = r /\ refresh'.got = refresh.got
        /\ refresh'.todo = refresh.todo /\ ruleFile'[r] = refresh.got[r]
    BY <2>1, <2>2 DEF Refreshes, RulesTyped
  <2>4. UNCHANGED <<served, entries, gate>> BY <1>10 DEF PublishFile
  <2> QED BY <2>2, <2>3, <2>4 DEF Advancing, RefreshAt, Refreshing
<1>11. CASE PublishEntry
  <2> DEFINE r == refresh.writing
  <2>1. refresh \in Refreshes /\ refresh.pc = "publish" /\ Refreshing /\ r # "none" /\ r \in Rule
    BY <1>0, <1>11 DEF PublishEntry, Refreshing, AtEase, Refreshes
  <2>2. /\ refresh' = [refresh EXCEPT !.todo = @ \ {r}, !.writing = "none"]
        /\ entries' = [entries EXCEPT ![r] = refresh.got[r]]
    BY <1>11 DEF PublishEntry
  <2>3. /\ refresh'.pc = "publish" /\ refresh'.writing = "none" /\ refresh'.got = refresh.got
        /\ refresh'.todo \subseteq refresh.todo
    BY <2>1, <2>2 DEF Refreshes
  <2>4. UNCHANGED <<served, gate>> BY <1>11 DEF PublishEntry
  <2>5. \A q \in Rule : entries'[q] = IF q = r THEN refresh.got[r] ELSE entries[q]
    BY <2>1, <2>2 DEF RulesTyped
  <2>6. refresh.got[r] # 0 /\ refresh.got[r] \in Nat BY <2>1 DEF Advancing, RefreshAt, Refreshes
  <2> HIDE DEF r
  <2>7. \A q \in Rule : entries'[q] <= served[q]
    BY <2>1, <2>5, <2>6 DEF Advancing, RulesTyped
  <2>8. \A q \in Rule : refresh.got[q] # 0 =>
          entries'[q] <= refresh.got[q] /\ refresh.got[q] <= served[q]
    BY <2>1, <2>5, <2>6 DEF Advancing, RulesTyped
  <2> QED BY <2>1, <2>3, <2>4, <2>7, <2>8 DEF Advancing, RefreshAt, Refreshing
<1> QED BY <1>1, <1>2, <1>3, <1>4, <1>5, <1>6, <1>7, <1>8, <1>9, <1>10, <1>11 DEF RuleNext

LEMMA CoveringKept ==
    RulesInv /\ RulesTyped' /\ Advancing' /\ [RuleNext]_ruleVars => Covering'
<1> SUFFICES ASSUME RulesInv, RulesTyped', Advancing', [RuleNext]_ruleVars PROVE Covering'
  OBVIOUS
<1> USE RuleAssumption DEF RulesInv
<1>0. Refreshing => refresh \in Refreshes /\ Up BY RefreshingIs DEF RulesTyped
<1>u. Up => runtime \in RunningCores BY DEF Up, RulesTyped
<1>1. CASE RuntimeStarts
  <2>1. refresh' = AtEase BY <1>0, <1>1, StartOf DEF Refreshing
  <2>2. \A r \in runtime'.local : entries'[r] > 0
    BY <1>1, StartOf DEF Advancing, RunningCores, RulesTyped
  <2>3. /\ runtime'.routes # {} => Cn \in runtime'.local /\ ruleFile'[Cn] \in bypass'
                                   /\ ruleFile'[Cn] = entries'[Cn]
        /\ \A r \in Rule : ruleFile'[r] >= entries'[r]
    BY <1>1, StartOf
  <2> QED BY <2>1, <2>2, <2>3 DEF Covering, RefreshAt, Refreshing
<1>2. CASE RuntimeStops \/ RuleCrash
  <2>1. runtime' = NoRuntime BY <1>2 DEF RuntimeStops, RuleCrash
  <2> QED BY <2>1 DEF Covering, Up
<1>3. CASE Select \/ RulesMove \/ OtherHolds \/ UNCHANGED ruleVars
  <2>1. UNCHANGED <<runtime, ruleFile, entries, bypass, refresh, torn>>
    BY <1>3 DEF Select, RulesMove, OtherHolds, ruleVars
  <2> QED BY <2>1 DEF Covering, Up, Writing, RefreshAt, Refreshing
<1>4. CASE BeginRefresh
  <2>1. /\ Up /\ ruleFile' = Repaired /\ refresh = AtEase /\ refresh'.pc = "download"
        /\ refresh'.writing = "none" /\ UNCHANGED <<runtime, entries, bypass, torn>>
    BY <1>4, UpIsUp DEF BeginRefresh
  <2>2. Writing = "none" BY <2>1 DEF Writing, Refreshing
  <2>3. runtime.routes # {} => Cn \in Rule /\ entries[Cn] > 0
    BY <1>u, <2>1 DEF Covering, RunningCores
  <2>4. runtime.routes # {} /\ ~torn => ruleFile'[Cn] \in bypass /\ ruleFile'[Cn] = entries[Cn]
    BY <2>1, <2>2, <2>3, RepairedFile DEF Covering
  <2> QED BY <2>1, <2>4, RepairedFile DEF Covering, Up, RefreshAt, Refreshing
<1>5. CASE Download \/ Enter
  <2>a. refresh.pc = "download" BY <1>5 DEF Download, Enter
  <2>0. refresh \in Refreshes /\ Refreshing /\ refresh.pc = "download"
    BY <1>0, <2>a DEF Refreshing, AtEase
  <2>1. refresh.writing = "none" BY <2>0 DEF Advancing, RefreshAt
  <2>2. UNCHANGED <<runtime, ruleFile, entries, bypass, torn>> BY <1>5 DEF Download, Enter
  <2>3. refresh'.pc \in {"download", "cover"} BY <1>5, <2>0 DEF Download, Enter, Refreshes
  <2>4. Writing # Cn BY <2>1 DEF Writing
  <2> QED BY <2>2, <2>3, <2>4 DEF Covering, Up, RefreshAt
<1>6. CASE RefreshFails
  <2>1. /\ refresh' = AtEase /\ UNCHANGED <<runtime, ruleFile, entries, bypass>>
        /\ Refreshing /\ torn' = (torn \/ refresh.writing = Cn)
    BY <1>6 DEF RefreshFails, Refreshing, AtEase
  <2>2. ~torn' => ~torn /\ Writing # Cn BY <2>1 DEF Writing
  <2> QED BY <2>1, <2>2 DEF Covering, Up, RefreshAt, Refreshing
<1>7. CASE Cover
  <2>1. /\ refresh \in Refreshes /\ Refreshing /\ Up /\ refresh.pc = "cover"
        /\ refresh.writing = "none"
    BY <1>0, <1>7 DEF Cover, Refreshing, AtEase, Advancing, RefreshAt
  <2>2. /\ refresh'.pc = "check" /\ refresh'.got = refresh.got
        /\ UNCHANGED <<runtime, ruleFile, entries, torn>>
    BY <1>7, <2>1 DEF Cover, Refreshes
  <2>3. bypass' = IF refresh.got[Cn] # 0 /\ runtime.routes # {} THEN Union ELSE bypass
    BY <1>7 DEF Cover
  <2>4. Writing # Cn BY <2>1 DEF Writing
  <2>5. runtime.routes # {} /\ ~torn => ruleFile[Cn] \in bypass' /\ ruleFile[Cn] = entries[Cn]
    BY <2>1, <2>3, <2>4 DEF Covering, Union
  <2>6. runtime.routes # {} /\ refresh.got[Cn] # 0 => refresh.got[Cn] \in bypass'
    BY <2>3 DEF Union
  <2> QED BY <2>1, <2>2, <2>5, <2>6 DEF Covering, Up, RefreshAt
<1>8. CASE Check
  <2>1. /\ refresh \in Refreshes /\ Refreshing /\ Up /\ refresh.pc = "check"
        /\ refresh.writing = "none"
    BY <1>0, <1>8 DEF Check, Refreshing, AtEase, Advancing, RefreshAt
  <2>2. UNCHANGED <<runtime, ruleFile, entries, torn, bypass>> BY <1>8 DEF Check
  <2>3. Refreshing' => refresh'.got = refresh.got
    BY <1>8, <2>1 DEF Check, Refreshes, Refreshing
  <2>4. Writing # Cn BY <2>1 DEF Writing
  <2>5. runtime.routes # {} /\ refresh.got[Cn] # 0 => refresh.got[Cn] \in bypass
    BY <2>1 DEF Covering, RefreshAt
  <2>6. RefreshAt({"check", "publish"})' /\ runtime'.routes # {} /\ refresh'.got[Cn] # 0 =>
          refresh'.got[Cn] \in bypass'
    BY <2>2, <2>3, <2>5 DEF RefreshAt
  <2> QED BY <2>1, <2>2, <2>4, <2>6 DEF Covering, Up
<1>9. CASE PublishFile
  <2>1. PICK r \in refresh.todo : /\ ruleFile' = [ruleFile EXCEPT ![r] = refresh.got[r]]
                                  /\ refresh' = [refresh EXCEPT !.writing = r]
    BY <1>9 DEF PublishFile
  <2>2. /\ refresh \in Refreshes /\ refresh.pc = "publish" /\ Refreshing /\ Up /\ r \in Rule
        /\ refresh.writing = "none"
    BY <1>0, <1>9 DEF PublishFile, Refreshing, AtEase, Refreshes
  <2>3. /\ Refreshing' /\ refresh'.writing = r /\ refresh'.got = refresh.got
        /\ refresh'.pc = "publish"
        /\ \A q \in Rule : ruleFile'[q] = IF q = r THEN refresh.got[r] ELSE ruleFile[q]
    BY <2>1, <2>2 DEF Refreshes, RulesTyped, Refreshing, AtEase
  <2>4. UNCHANGED <<runtime, entries, bypass, torn>> BY <1>9 DEF PublishFile
  <2>5. refresh.got[r] # 0 BY <2>2 DEF Advancing, RefreshAt
  <2>6. Writing # Cn /\ Writing' = r BY <2>2, <2>3 DEF Writing
  <2>7. \A q \in Rule : ruleFile'[q] >= entries[q]
    BY <2>2, <2>3, <2>5 DEF Advancing, Covering, RulesTyped, Refreshes
  <2>8. runtime.routes # {} /\ refresh.got[Cn] # 0 => refresh.got[Cn] \in bypass
    BY <2>2 DEF Covering, RefreshAt
  <2>9. runtime.routes # {} /\ ~torn =>
          ruleFile'[Cn] \in bypass /\ (ruleFile'[Cn] = entries[Cn] \/ Writing' = Cn)
    <3>1. CASE r = Cn BY <2>3, <2>5, <2>6, <2>8, <3>1
    <3>2. CASE r # Cn BY <2>2, <2>3, <2>6, <3>2 DEF Covering
    <3> QED BY <3>1, <3>2
  <2>10. RefreshAt({"check", "publish"})' /\ runtime'.routes # {} /\ refresh'.got[Cn] # 0 =>
          refresh'.got[Cn] \in bypass'
    BY <2>3, <2>4, <2>8
  <2> QED BY <2>2, <2>4, <2>7, <2>9, <2>10 DEF Covering, Up
<1>10. CASE PublishEntry
  <2> DEFINE r == refresh.writing
  <2>1. /\ refresh \in Refreshes /\ refresh.pc = "publish" /\ Refreshing /\ Up
        /\ r # "none" /\ r \in Rule
    BY <1>0, <1>10 DEF PublishEntry, Refreshing, AtEase, Refreshes
  <2>2. /\ refresh' = [refresh EXCEPT !.todo = @ \ {r}, !.writing = "none"]
        /\ entries' = [entries EXCEPT ![r] = refresh.got[r]]
        /\ UNCHANGED <<runtime, ruleFile, bypass, torn>>
    BY <1>10 DEF PublishEntry
  <2>3. refresh'.got = refresh.got /\ refresh.got \in [Rule -> Nat]
    BY <2>1, <2>2 DEF Refreshes
  <2>4. ruleFile[r] = refresh.got[r] /\ refresh.got[r] # 0 BY <2>1 DEF Advancing, RefreshAt
  <2>5. \A q \in Rule : entries'[q] = IF q = r THEN refresh.got[r] ELSE entries[q]
    BY <2>1, <2>2 DEF RulesTyped
  <2>6. Writing = r BY <2>1 DEF Writing
  <2> HIDE DEF r
  <2>7. \A q \in Rule : ruleFile[q] >= entries'[q]
    BY <2>1, <2>3, <2>4, <2>5 DEF Covering, RulesTyped
  <2>8. \A q \in runtime.local : entries'[q] > 0
    BY <1>u, <2>1, <2>3, <2>4, <2>5 DEF Covering, RulesTyped, RunningCores
  <2>9. runtime.routes # {} /\ ~torn => ruleFile[Cn] \in bypass /\ ruleFile[Cn] = entries'[Cn]
    BY <2>1, <2>4, <2>5, <2>6 DEF Covering
  <2>10. runtime.routes # {} /\ refresh.got[Cn] # 0 => refresh.got[Cn] \in bypass
    BY <2>1 DEF Covering, RefreshAt
  <2>11. RefreshAt({"check", "publish"})' /\ runtime'.routes # {} /\ refresh'.got[Cn] # 0 =>
          refresh'.got[Cn] \in bypass'
    BY <2>2, <2>3, <2>10
  <2> QED BY <2>1, <2>2, <2>7, <2>8, <2>9, <2>11 DEF Covering, Up
<1>11. CASE EndRefresh
  <2>1. /\ Refreshing /\ Up /\ refresh.pc = "publish" /\ refresh.todo = {} /\ refresh' = AtEase
        /\ UNCHANGED <<ruleFile, entries, torn>>
    BY <1>0, <1>11 DEF EndRefresh, Refreshing, AtEase
  <2>2. Writing = "none" BY <2>1 DEF Writing, Advancing, RefreshAt
  <2>3. CASE UNCHANGED <<runtime, bypass>>
    BY <2>1, <2>2, <2>3 DEF Covering, Up, RefreshAt, Refreshing
  <2>4. CASE runtime' = NoRuntime BY <2>4 DEF Covering, Up
  <2> QED BY <1>11, <2>3, <2>4 DEF EndRefresh
<1>12. CASE FollowRules
  <2>1. /\ Up /\ gate = "free" /\ bypass' = {ruleFile[Cn]}
        /\ UNCHANGED <<runtime, ruleFile, entries, refresh, torn>>
    BY <1>12, UpIsUp DEF FollowRules
  <2>2. ~RefreshAt({"check", "publish"}) BY <2>1 DEF Advancing, RefreshAt
  <2> QED BY <2>1, <2>2 DEF Covering, Up, RefreshAt, Writing, Refreshing
<1> QED BY <1>1, <1>2, <1>3, <1>4, <1>5, <1>6, <1>7, <1>8, <1>9, <1>10, <1>11, <1>12
     DEF RuleNext

\* While a core runs, the files it watches are there and no older than recorded, sets are
\* published under the gate only, and what it takes for domestic is routed past its TUN:
\* replace_rules covers both revisions before the file changes.  For every set of rule
\* sets, revision and number of faults.
THEOREM RulesStayCovered == RuleSpec => []RulesCovered
<1>1. RuleInit => RulesInv
  <2> SUFFICES ASSUME RuleInit PROVE RulesInv OBVIOUS
  <2>1. RulesTyped
    <3>1. served \in [Rule -> Nat] /\ Nothing \in [Rule -> Nat] BY DEF RuleInit, Nothing
    <3>2. ruleFile \in [Rule -> Nat] /\ entries \in [Rule -> Nat] BY <3>1 DEF RuleInit
    <3> QED BY <3>1, <3>2 DEF RuleInit, RulesTyped, Refreshing
  <2>2. Advancing BY RuleAssumption DEF RuleInit, Advancing, Nothing, RefreshAt, Refreshing
  <2>3. Covering BY DEF RuleInit, Covering, Up
  <2> QED BY <2>1, <2>2, <2>3 DEF RulesInv
<1>2. RulesInv /\ [RuleNext]_ruleVars => RulesInv'
  BY RulesTypedKept, AdvancingKept, CoveringKept DEF RulesInv
<1>3. RulesInv => RulesCovered
  <2> SUFFICES ASSUME RulesInv PROVE RulesCovered OBVIOUS
  <2>1. runtime.up <=> Up BY UpIsUp DEF RulesInv
  <2>2. CnCovered BY <2>1 DEF CnCovered, RulesInv, Covering
  <2>3. SetsPresent
    <3> SUFFICES ASSUME Up PROVE /\ \A r \in runtime.local : ruleFile[r] > 0
                                 /\ \A r \in Rule : ruleFile[r] >= entries[r]
      BY <2>1 DEF SetsPresent
    <3>1. runtime.local \subseteq Rule BY DEF RulesInv, RulesTyped, Up, RunningCores
    <3> QED BY <3>1 DEF RulesInv, Covering, RulesTyped
  <2>4. PublishedForRunning
    BY <2>1 DEF PublishedForRunning, RulesInv, Advancing, RulesTyped, RefreshAt, Refreshing, AtEase
  <2> QED BY <2>2, <2>3, <2>4 DEF RulesCovered
<1> QED BY <1>1, <1>2, <1>3, PTL DEF RuleSpec

(***************************************************************************)
(* Both, with all else a client does beside its core.                      *)
(***************************************************************************)
LEMMA HostParts ==
    /\ HostInit => Init /\ DnsInit
    /\ [HostNext]_hostVars => [Next]_vars /\ [DnsNext]_dnsVars
<1>1. HostInit => Init /\ DnsInit BY DEF HostInit
<1>2. HostNext => [Next]_vars /\ [DnsNext]_dnsVars BY Zenon DEF HostNext
<1>3. UNCHANGED hostVars => UNCHANGED vars /\ UNCHANGED dnsVars BY DEF hostVars
<1> QED BY <1>1, <1>2, <1>3

\* What was taken over of the host comes back: the owned routes and rules are all in the journal
\* and never expose what is to stay direct, and the ownership file gives every service back.
THEOREM HostAlwaysRestored == HostSpec => []HostRestored
<1>1. HostInit => RoutesInv /\ DnsInv BY HostParts, RoutesInit, DnsBegins
<1>2. RoutesInv /\ [HostNext]_hostVars => RoutesInv' BY HostParts, RoutesKeep
<1>3. DnsInv /\ [HostNext]_hostVars => DnsInv' BY HostParts, DnsKept
<1>4. RoutesInv /\ DnsInv => HostRestored BY RoutesWell DEF HostRestored, DnsInv
<1> QED BY <1>1, <1>2, <1>3, <1>4, PTL DEF HostSpec

(***************************************************************************)
(* NetworkModes.  The last of the probes that follow an event or a saved   *)
(* setting looks at the network itself: the answer that is kept is older   *)
(* than the event by then.  What it wants is what the core is given.       *)
(***************************************************************************)
CoreSteps == {"activate", "start", "activated", "idle", "waiting", "probe", "patch"}
WatchSteps == CoreSteps \cup {"off", "retrying", "compare"}
Looks == [network : Network \cup {Nowhere}, mac : BOOLEAN]
Watches ==
    [step : WatchSteps, count : Nat, timer : Nat, ok : BOOLEAN, moved : BOOLEAN,
     wanted : Network \cup {RuleMode, Nowhere}, initial : Looks \cup {Nowhere}]
CoreModes == [mode : Network \cup {RuleMode}, modes : {Network, {RuleMode}}]
ModesTyped ==
    /\ link \in Network \cup {Nowhere} /\ neighbour \in BOOLEAN /\ automatic \in BOOLEAN
    /\ saved \in BOOLEAN /\ routeEvent \in BOOLEAN
    /\ seen \in [value : Looks \cup {Nowhere}, age : 0..TTL]
    /\ seen.age < TTL => seen.value \in Looks
    /\ watch \in Watches
    /\ watch.step \in {"probe", "patch"} => watch.count \in 0..3
    /\ watch.step \in CoreSteps => core \in CoreModes

\* What a probe after the first will see is not older than the last event that was heard.
SecondProbe ==
    /\ watch.step \in {"probe", "compare"} /\ watch.count > 0
    /\ watch.step = "probe" => automatic /\ ~saved
Timely == SecondProbe /\ ~routeEvent => seen.age + watch.timer >= TTL \/ seen.value.network = link

\* Nothing is left to be heard; events do not matter without the automatism.
AllHeard == ~saved /\ (automatic => ~routeEvent)
Target == IF automatic /\ link \in Known THEN link ELSE RuleMode
Patching == watch.step = "patch" /\ AllHeard /\ watch.ok /\ watch.count > 0 => watch.wanted = Target
Following ==
    watch.step = "waiting" /\ AllHeard /\ watch.ok =>
        core.mode = IF Target \in core.modes THEN Target ELSE RuleMode
Comparing ==
    watch.step = "retrying" /\ ~routeEvent /\ watch.ok /\ watch.initial.mac =>
        link = watch.initial.network
ModeInv == ModesTyped /\ Timely /\ Patching /\ Following /\ Comparing

LEMMA DelaysAre == Len(Delays) = 3 /\ Delays[1] = 2 /\ Delays[2] = 3 /\ Delays[3] = 4
BY DEF Delays

LEMMA AsleepIs ==
    /\ Asleep \in Watches /\ Asleep.step = "off" /\ Asleep.ok = FALSE /\ Asleep.count = 0
    /\ Asleep = [Asleep EXCEPT !.step = "off"]
    /\ \A s \in WatchSteps :
         /\ [Asleep EXCEPT !.step = s] \in Watches /\ [Asleep EXCEPT !.step = s].step = s
         /\ [Asleep EXCEPT !.step = s].ok = FALSE /\ [Asleep EXCEPT !.step = s].count = 0
<1>1. /\ Asleep \in Watches /\ Asleep.step = "off" /\ Asleep.ok = FALSE /\ Asleep.count = 0
      /\ \A s \in WatchSteps :
           /\ [Asleep EXCEPT !.step = s] \in Watches /\ [Asleep EXCEPT !.step = s].step = s
           /\ [Asleep EXCEPT !.step = s].ok = FALSE /\ [Asleep EXCEPT !.step = s].count = 0
  BY DEF Asleep, Watches, WatchSteps, CoreSteps
<1>2. PICK a \in Watches : a = Asleep BY <1>1
<1>3. a = [a EXCEPT !.step = "off"] BY <1>1, <1>2 DEF Watches
<1> QED BY <1>1, <1>2, <1>3

LEMMA LookIs ==
    ASSUME ModesTyped
    PROVE  /\ Here \in Looks /\ Here.network = link
           /\ Observed \in Looks
           /\ Noted \in [value : Looks \cup {Nowhere}, age : 0..TTL]
           /\ Noted.age < TTL => Noted.value \in Looks
           /\ Noted = seen \/ Noted.value.network = link
<1>1. Here \in Looks /\ Here.network = link BY DEF Here, Looks, ModesTyped
<1> QED BY <1>1 DEF ModesTyped, Observed, Noted, Fresh, TTL

\* A probe that comes late enough does not see what was there before the event.
LEMMA ProbeSees ==
    ASSUME ModesTyped, Timely, SecondProbe, watch.timer = 0, ~routeEvent
    PROVE  Observed.network = link
<1>1. ~Fresh => Observed.network = link BY LookIs DEF Observed
<1>2. Fresh => Observed = seen.value BY DEF Observed
<1>3. seen.age + watch.timer >= TTL => ~Fresh BY DEF ModesTyped, Fresh, TTL
<1> QED BY <1>1, <1>2, <1>3 DEF Timely

LEMMA FinalIs ==
    ASSUME ModesTyped, NEW o \in Looks
    PROVE  /\ Desired(o) \in Network \cup {RuleMode} /\ Final(o) \in BOOLEAN
           /\ Final(o) /\ (automatic => o.network = link) => Desired(o) = Target
<1>1. Final(o) \in BOOLEAN BY DEF Final, ModesTyped, Looks
<1>2. Desired(o) \in Network \cup {RuleMode} BY DEF Desired, Known
<1>3. ASSUME Final(o), automatic => o.network = link PROVE Desired(o) = Target
  BY <1>3, ModeAssumption DEF Final, Desired, Target, Known, Looks, ModesTyped
<1> QED BY <1>1, <1>2, <1>3

LEMMA ContinueIs ==
    ASSUME NEW w \in Watches, w.step = "patch", w.count \in 1..4
    PROVE  \E c \in Watches : /\ c = Continue(w) /\ c.ok = w.ok
                              /\ c.step \in {"waiting", "probe"}
                              /\ c.step = "waiting" => w.count > 1
                              /\ c.step = "probe" => c.timer >= TTL /\ c.count \in 0..3
<1>1. CASE ModeSettled(w)
  <2>1. Continue(w) = [w EXCEPT !.step = "waiting", !.count = 0] BY <1>1 DEF Continue
  <2>2. w.count > 1 BY <1>1, DelaysAre DEF ModeSettled
  <2>3. /\ [w EXCEPT !.step = "waiting", !.count = 0] \in Watches
        /\ [w EXCEPT !.step = "waiting", !.count = 0].ok = w.ok
        /\ [w EXCEPT !.step = "waiting", !.count = 0].step = "waiting"
    BY DEF Watches, WatchSteps, CoreSteps
  <2> QED BY <2>1, <2>2, <2>3
<1>2. CASE ~ModeSettled(w)
  <2>0. PICK d : d = Delays[w.count] OBVIOUS
  <2>1. Continue(w) = [w EXCEPT !.step = "probe", !.timer = d] BY <1>2, <2>0 DEF Continue
  <2>2. w.count \in 1..3 BY <1>2, DelaysAre DEF ModeSettled
  <2>3. d \in Nat /\ d >= TTL BY <2>0, <2>2, DelaysAre DEF TTL
  <2>4. /\ [w EXCEPT !.step = "probe", !.timer = d] \in Watches
        /\ [w EXCEPT !.step = "probe", !.timer = d].ok = w.ok
        /\ [w EXCEPT !.step = "probe", !.timer = d].step = "probe"
        /\ [w EXCEPT !.step = "probe", !.timer = d].timer = d
        /\ [w EXCEPT !.step = "probe", !.timer = d].count = w.count
    BY <2>3 DEF Watches, WatchSteps, CoreSteps
  <2>5. Continue(w).count \in 0..3 BY <2>1, <2>2, <2>4
  <2> QED BY <2>1, <2>3, <2>4, <2>5
<1> QED BY <1>1, <1>2

\* Where a look at the network is under way or none was made, there is nothing to show.
LEMMA NothingShown ==
    ASSUME watch.step \notin {"waiting", "probe", "patch", "compare", "retrying"}
    PROVE  Timely /\ Patching /\ Following /\ Comparing
BY DEF Timely, SecondProbe, Patching, Following, Comparing

LEMMA Restarted ==
    ASSUME ModesTyped, NEW s \in WatchSteps, watch' = [Asleep EXCEPT !.step = s],
           link' = link, neighbour' = neighbour, automatic' = automatic, saved' = saved,
           routeEvent' \in BOOLEAN, seen' \in {seen, Noted},
           s \in CoreSteps => core' \in CoreModes
    PROVE  ModeInv'
<1>1. watch' \in Watches /\ watch'.step = s /\ watch'.ok = FALSE /\ watch'.count = 0
  BY AsleepIs
<1>2. ModesTyped' BY <1>1, LookIs DEF ModesTyped
<1>3. (Timely /\ Patching /\ Following /\ Comparing)'
  BY <1>1 DEF Timely, SecondProbe, Patching, Following, Comparing
<1> QED BY <1>2, <1>3 DEF ModeInv

LEMMA SeenAnew ==
    ASSUME ModesTyped, seen' = Noted,
           UNCHANGED <<link, neighbour, automatic, saved, core, routeEvent>>,
           watch' \in Watches, watch'.step \in {"probe", "patch"} => watch'.count \in 0..3,
           watch'.step \in CoreSteps => watch.step \in CoreSteps
    PROVE  ModesTyped'
BY LookIs DEF ModesTyped

LEMMA ModeKept == ModeInv /\ [ModeNext]_modeVars => ModeInv'
<1> SUFFICES ASSUME ModeInv, [ModeNext]_modeVars PROVE ModeInv' OBVIOUS
<1>0. ModesTyped /\ Timely /\ Patching /\ Following /\ Comparing BY DEF ModeInv
<1>1. CASE MoveTo
  <2>1. /\ watch' = [watch EXCEPT !.moved = routeEvent']
        /\ routeEvent' = (watch.step \notin {"off", "activate", "start"})
        /\ link' \in Network \cup {Nowhere} /\ neighbour' = (link' = Nowhere)
        /\ UNCHANGED <<seen, automatic, saved, core>>
    BY <1>0, <1>1 DEF MoveTo
  <2>2. PICK e \in BOOLEAN : e = routeEvent' BY <2>1
  <2>3. watch' = [watch EXCEPT !.moved = e] BY <2>1, <2>2
  <2>4. /\ watch' \in Watches /\ watch'.step = watch.step /\ watch'.count = watch.count
        /\ watch'.timer = watch.timer /\ watch'.ok = watch.ok /\ watch'.wanted = watch.wanted
        /\ watch'.initial = watch.initial
    BY <1>0, <2>3 DEF Watches, ModesTyped
  <2>5. ModesTyped' BY <1>0, <2>1, <2>2, <2>4 DEF ModesTyped
  <2>6. Timely' /\ Comparing' BY <2>1, <2>4 DEF Timely, SecondProbe, Comparing
  <2>7. automatic => Patching' /\ Following'
    BY <2>1, <2>4 DEF Patching, Following, AllHeard
  <2>8. ~automatic => Target = RuleMode /\ Target' = RuleMode BY <2>1 DEF Target
  <2>9. ~automatic => Patching' /\ Following'
    BY <1>0, <2>1, <2>4, <2>8 DEF Patching, Following, AllHeard
  <2> QED BY <2>5, <2>6, <2>7, <2>9 DEF ModeInv
<1>2. CASE Resolve
  BY <1>0, <1>2 DEF Resolve, Elsewhere, ModeInv, ModesTyped, Timely, SecondProbe, Patching,
                    Following, Comparing, AllHeard, Target
<1>3. CASE Save
  <2>1. ModesTyped' BY <1>0, <1>3 DEF Save, ModesTyped
  <2>2. (Timely /\ Patching /\ Following /\ Comparing)'
    BY <1>0, <1>3 DEF Save, Timely, SecondProbe, Patching, Following, Comparing, AllHeard
  <2> QED BY <2>1, <2>2 DEF ModeInv
<1>4. CASE Second
  <2>1. /\ seen' = [seen EXCEPT !.age = IF seen.age < TTL THEN seen.age + 1 ELSE seen.age]
        /\ watch' = [watch EXCEPT !.timer =
                       IF watch.timer > 0 THEN watch.timer - 1 ELSE watch.timer]
        /\ UNCHANGED <<link, neighbour, automatic, saved, core, routeEvent>>
    BY <1>4 DEF Second
  <2>2. /\ watch' \in Watches /\ watch'.step = watch.step /\ watch'.count = watch.count
        /\ watch'.timer = (IF watch.timer > 0 THEN watch.timer - 1 ELSE watch.timer)
        /\ watch'.ok = watch.ok /\ watch'.wanted = watch.wanted /\ watch'.initial = watch.initial
        /\ watch.timer \in Nat
    BY <1>0, <2>1 DEF Watches, ModesTyped
  <2>3. /\ seen' \in [value : Looks \cup {Nowhere}, age : 0..TTL]
        /\ seen'.value = seen.value /\ seen.age \in 0..TTL
        /\ seen'.age = (IF seen.age < TTL THEN seen.age + 1 ELSE seen.age)
    BY <1>0, <2>1 DEF ModesTyped, TTL
  <2>4. ModesTyped' BY <1>0, <2>1, <2>2, <2>3 DEF ModesTyped, TTL
  <2>5. Timely' BY <1>0, <2>1, <2>2, <2>3 DEF Timely, SecondProbe, TTL
  <2>6. Patching' /\ Following' /\ Comparing'
    BY <1>0, <2>1, <2>2 DEF Patching, Following, Comparing, AllHeard, Target
  <2> QED BY <2>4, <2>5, <2>6 DEF ModeInv
<1>5. CASE ShowStatus
  <2>1. seen' = Noted /\ UNCHANGED <<link, neighbour, automatic, saved, core, watch, routeEvent>>
    BY <1>5 DEF ShowStatus
  <2>2. ModesTyped' BY <1>0, <2>1, SeenAnew DEF ModesTyped
  <2>3. Timely' BY <1>0, <2>1, LookIs DEF Timely, SecondProbe
  <2> QED BY <1>0, <2>1, <2>2, <2>3 DEF ModeInv, Patching, Following, Comparing, AllHeard, Target
<1>6. CASE CoreStarts
  BY <1>0, <1>6, Restarted DEF CoreStarts, CoreModes, WatchSteps, CoreSteps
<1>7. CASE ProbeAtStart
  <2>1. /\ watch.step = "activate" /\ seen' = Noted
        /\ UNCHANGED <<link, neighbour, automatic, saved, core, routeEvent>>
        /\ watch' = [watch EXCEPT !.step = "start", !.wanted = Desired(Observed),
                                  !.ok = Final(Observed)]
    BY <1>7 DEF ProbeAtStart, Probe
  <2>2. watch' \in Watches /\ watch'.step = "start"
    BY <1>0, <2>1, LookIs, FinalIs DEF Watches, ModesTyped, WatchSteps, CoreSteps
  <2>3. ModesTyped' BY <1>0, <2>1, <2>2, SeenAnew DEF CoreSteps
  <2> QED BY <2>2, <2>3 DEF ModeInv, Timely, SecondProbe, Patching, Following, Comparing
<1>8. CASE PatchAtStart
  <2>1. watch.step \in CoreSteps /\ core' = CorePatched(watch.wanted)
    BY <1>8 DEF PatchAtStart, CoreSteps
  <2>2. core' \in CoreModes BY <1>0, <2>1 DEF CorePatched, ModesTyped, CoreModes
  <2> QED
    BY <1>0, <1>8, <2>2, Restarted
    DEF PatchAtStart, Elsewhere, ModesTyped, WatchSteps, CoreSteps
<1>9. CASE StartFails
  <2>1. PICK s \in {"activate", "activated"} : watch' = [Asleep EXCEPT !.step = s]
    BY <1>9 DEF StartFails
  <2>2. core' \in CoreModes BY <1>0, <1>9 DEF StartFails, ModesTyped, CoreSteps
  <2> QED BY <1>0, <1>9, <2>1, <2>2, Restarted DEF StartFails, ModesTyped, WatchSteps, CoreSteps
<1>10. CASE OpenSocket
  <2>1. core' \in CoreModes BY <1>0, <1>10 DEF OpenSocket, ModesTyped, CoreSteps
  <2> QED BY <1>0, <1>10, <2>1, Restarted DEF OpenSocket, WatchSteps, CoreSteps
<1>11. CASE HearEvent \/ HearSettings
  <2>1. CASE HearEvent /\ ~automatic
    BY <1>0, <2>1 DEF HearEvent, ModeInv, ModesTyped, Timely, SecondProbe, Patching, Following,
                      Comparing, AllHeard, Target, Waits
  <2>2. CASE (HearEvent /\ automatic) \/ HearSettings
    <3>0. PICK made : made = IF automatic THEN 0 ELSE 3 OBVIOUS
    <3>1. /\ watch' = [watch EXCEPT !.step = "probe", !.count = made, !.timer = 0, !.ok = FALSE]
          /\ made \in 0..3 /\ (made = 0 \/ ~automatic)
      <4>1. CASE HearEvent /\ automatic BY <3>0, <4>1 DEF HearEvent, Settle
      <4>2. CASE HearSettings
        <5>1. made = IF automatic THEN 0 ELSE Len(Delays) BY <3>0, DelaysAre
        <5>2. Settle(made) BY <4>2, <5>1 DEF HearSettings
        <5> QED BY <3>0, <5>2 DEF Settle
      <4> QED BY <2>2, <4>1, <4>2
    <3>2. /\ watch.step \in {"idle", "waiting"}
          /\ UNCHANGED <<seen, core, automatic, link, neighbour>>
          /\ routeEvent' \in {routeEvent, FALSE} /\ saved' \in {saved, FALSE}
      BY <2>2 DEF HearEvent, HearSettings, Waits
    <3>5. watch \in Watches BY <1>0 DEF ModesTyped
    <3>6. /\ watch' = [watch EXCEPT !.step = "probe", !.count = made, !.timer = 0, !.ok = FALSE]
          /\ made \in Nat
      BY <3>1
    <3>3. /\ watch' \in Watches /\ watch'.step = "probe" /\ watch'.count = made
          /\ watch'.ok = FALSE
      BY <3>5, <3>6 DEF Watches, WatchSteps, CoreSteps
    <3>7. made \in 0..3 BY <3>1
    <3>4. ModesTyped' BY <1>0, <3>2, <3>3, <3>7 DEF ModesTyped, CoreSteps
    <3> QED
      BY <3>1, <3>2, <3>3, <3>4
      DEF ModeInv, Timely, SecondProbe, Patching, Following, Comparing
  <2> QED BY <1>11, <2>1, <2>2
<1>12. CASE ProbeAgain
  <2>1. /\ watch.step = "probe" /\ watch.timer = 0 /\ seen' = Noted
        /\ UNCHANGED <<link, neighbour, automatic, saved, core, routeEvent>>
        /\ watch' = [watch EXCEPT !.step = "patch", !.wanted = Desired(Observed),
                                  !.ok = Final(Observed)]
    BY <1>12 DEF ProbeAgain, Probe
  <2>2. Observed \in Looks BY <1>0, LookIs
  <2>3. /\ watch' \in Watches /\ watch'.step = "patch" /\ watch'.count = watch.count
        /\ watch'.ok = Final(Observed) /\ watch'.wanted = Desired(Observed)
    BY <1>0, <2>1, <2>2, FinalIs DEF Watches, ModesTyped, WatchSteps, CoreSteps
  <2>4. ModesTyped'
    BY <1>0, <2>1, <2>3, SeenAnew DEF CoreSteps, ModesTyped
  <2>5. AllHeard /\ watch.count > 0 /\ automatic => Observed.network = link
    BY <1>0, <2>1, ProbeSees DEF AllHeard, SecondProbe
  <2>6. Patching'
    <3> SUFFICES ASSUME AllHeard', watch'.ok, watch'.count > 0 PROVE watch'.wanted = Target'
      BY DEF Patching
    <3>1. AllHeard /\ watch.count > 0 /\ Final(Observed) BY <2>1, <2>3 DEF AllHeard
    <3>2. Desired(Observed) = Target BY <1>0, <2>2, <2>5, <3>1, FinalIs
    <3> QED BY <2>1, <2>3, <3>2 DEF Target
  <2> QED BY <2>3, <2>4, <2>6 DEF ModeInv, Timely, SecondProbe, Following, Comparing
<1>13. CASE PatchMode \/ PatchModeFails
  <2>1. PICK o \in BOOLEAN :
          /\ watch' = Continue([watch EXCEPT !.count = watch.count + 1, !.ok = o])
          /\ o => core' = CorePatched(watch.wanted) /\ o = watch.ok
          /\ core' \in {core, CorePatched(watch.wanted)}
    <3>1. CASE PatchMode
      <4>1. [watch EXCEPT !.count = watch.count + 1] =
            [watch EXCEPT !.count = watch.count + 1, !.ok = watch.ok] /\ watch.ok \in BOOLEAN
        BY <1>0 DEF ModesTyped, Watches
      <4> QED BY <3>1, <4>1 DEF PatchMode
    <3>2. CASE PatchModeFails BY <3>2 DEF PatchModeFails
    <3> QED BY <1>13, <3>1, <3>2
  <2>2. /\ watch.step = "patch" /\ seen' = seen
        /\ UNCHANGED <<link, neighbour, automatic, saved, routeEvent>>
    BY <1>13 DEF PatchMode, PatchModeFails
  <2>3. PICK w : w = [watch EXCEPT !.count = watch.count + 1, !.ok = o] OBVIOUS
  <2>11. watch \in Watches /\ watch.count \in 0..3 BY <1>0, <2>2 DEF ModesTyped
  <2>12. PICK n : n = watch.count + 1 OBVIOUS
  <2>13. n \in 1..4 BY <2>11, <2>12
  <2>4. /\ w \in Watches /\ w.step = "patch" /\ w.count = watch.count + 1 /\ w.count \in 1..4
        /\ w.ok = o
    <3>1. w = [watch EXCEPT !.count = n, !.ok = o] /\ n \in Nat BY <2>3, <2>12, <2>13
    <3>2. w \in Watches /\ w.step = watch.step /\ w.count = n /\ w.ok = o
      BY <3>1, <2>11 DEF Watches
    <3> QED BY <2>2, <2>12, <2>13, <3>2
  <2>5. /\ watch' \in Watches /\ watch'.ok = o /\ watch'.step \in {"waiting", "probe"}
        /\ watch'.step = "waiting" => watch.count + 1 > 1
        /\ watch'.step = "probe" => watch'.timer >= TTL /\ watch'.count \in 0..3
    BY <2>1, <2>3, <2>4, ContinueIs
  <2>6. core \in CoreModes BY <1>0, <2>2 DEF ModesTyped, CoreSteps
  <2>7. core' \in CoreModes BY <2>1, <2>6 DEF CorePatched, CoreModes
  <2>8. ModesTyped' BY <1>0, <2>2, <2>5, <2>7 DEF ModesTyped
  <2>9. Timely'
    BY <1>0, <2>2, <2>5 DEF Timely, SecondProbe, ModesTyped, TTL, Watches
  <2>10. Following'
    <3> SUFFICES ASSUME watch'.step = "waiting", AllHeard', watch'.ok
                 PROVE  core'.mode = IF Target' \in core'.modes THEN Target' ELSE RuleMode
      BY DEF Following
    <3>1. watch.ok /\ core' = CorePatched(watch.wanted) /\ AllHeard /\ watch.count > 0
      BY <1>0, <2>1, <2>2, <2>5 DEF AllHeard, ModesTyped, Watches
    <3>2. watch.wanted = Target /\ Target' = Target
      BY <1>0, <2>2, <3>1 DEF Patching, Target
    <3> QED BY <2>6, <3>1, <3>2 DEF CorePatched, CoreModes
  <2> QED BY <2>5, <2>8, <2>9, <2>10 DEF ModeInv, Patching, Comparing
<1>14. CASE CoreEnds
  <2>1. watch' = [Asleep EXCEPT !.step = "off"] BY <1>14, AsleepIs DEF CoreEnds
  <2> QED BY <1>0, <1>14, <2>1, Restarted DEF CoreEnds, WatchSteps, CoreSteps
<1>15. CASE AwaitChange
  <2>1. /\ seen' = Noted /\ routeEvent' = FALSE
        /\ watch' = [Asleep EXCEPT !.step = "retrying", !.initial = Observed]
        /\ UNCHANGED <<link, neighbour, automatic, saved, core>>
    BY <1>15 DEF AwaitChange
  <2>2. PICK o \in Looks : o = Observed BY <1>0, LookIs
  <2>3. PICK a \in Watches : a = Asleep /\ a.ok = FALSE BY AsleepIs
  <2>4. watch' = [a EXCEPT !.step = "retrying", !.initial = o] BY <2>1, <2>2, <2>3
  <2>5. watch' \in Watches /\ watch'.step = "retrying" /\ watch'.ok = FALSE
    BY <2>3, <2>4 DEF Watches, WatchSteps, CoreSteps
  <2>6. ModesTyped' BY <1>0, <2>1, <2>5, LookIs DEF ModesTyped, CoreSteps
  <2> QED BY <2>5, <2>6 DEF ModeInv, Timely, SecondProbe, Patching, Following, Comparing
<1>16. CASE NoticeEvent
  <2>1. /\ watch' = [watch EXCEPT !.step = "compare", !.count = 0, !.timer = 0]
        /\ routeEvent' = FALSE /\ UNCHANGED <<link, neighbour, seen, automatic, saved, core>>
    BY <1>16 DEF NoticeEvent
  <2>2. watch' \in Watches /\ watch'.step = "compare" /\ watch'.count = 0
    BY <1>0, <2>1 DEF ModesTyped, Watches, WatchSteps, CoreSteps
  <2>3. ModesTyped' BY <1>0, <2>1, <2>2 DEF ModesTyped, CoreSteps
  <2> QED BY <2>2, <2>3 DEF ModeInv, Timely, SecondProbe, Patching, Following, Comparing
<1>17. CASE Compare
  <2>1. /\ watch.step = "compare" /\ watch.timer = 0 /\ seen' = Noted
        /\ UNCHANGED <<link, neighbour, automatic, saved, core, routeEvent>>
    BY <1>17 DEF Compare
  <2>2. CASE watch' = Asleep
    <3>1. watch' = [Asleep EXCEPT !.step = "off"] BY <2>2, AsleepIs
    <3> QED BY <1>0, <2>1, <3>1, Restarted DEF WatchSteps, CoreSteps, ModesTyped
  <2>3. CASE watch' = [watch EXCEPT !.count = 1, !.timer = TTL]
    <3>1. /\ watch' \in Watches /\ watch'.step = "compare" /\ watch'.timer = TTL
      BY <1>0, <2>1, <2>3 DEF ModesTyped, Watches, TTL
    <3>2. ModesTyped' BY <1>0, <2>1, <3>1, SeenAnew DEF CoreSteps
    <3>3. Timely' BY <3>1, <3>2 DEF Timely, ModesTyped, TTL
    <3> QED BY <3>1, <3>2, <3>3 DEF ModeInv, Patching, Following, Comparing
  <2>4. CASE /\ watch' = [watch EXCEPT !.step = "retrying", !.ok = Observed.mac]
             /\ ~Differs(watch.initial, Observed) /\ watch.count # 0
    <3>1. PICK o \in Looks : o = Observed BY <1>0, LookIs
    <3>2. watch' = [watch EXCEPT !.step = "retrying", !.ok = o.mac] /\ o.mac \in BOOLEAN
      BY <2>4, <3>1 DEF Looks
    <3>3. /\ watch' \in Watches /\ watch'.step = "retrying" /\ watch'.ok = o.mac
          /\ watch'.initial = watch.initial
      BY <1>0, <3>2 DEF ModesTyped, Watches, WatchSteps, CoreSteps
    <3>4. ModesTyped' BY <1>0, <2>1, <3>3, SeenAnew DEF CoreSteps
    <3>5. Comparing'
      <4> SUFFICES ASSUME ~routeEvent, o.mac, watch.initial.mac PROVE link = watch.initial.network
        BY <2>1, <3>3 DEF Comparing
      <4>1. SecondProbe BY <1>0, <2>1, <2>4 DEF SecondProbe, ModesTyped, Watches
      <4>2. o.network = link BY <1>0, <2>1, <3>1, <4>1, ProbeSees
      <4>3. watch.initial.network = o.network BY <2>4, <3>1 DEF Differs
      <4> QED BY <4>2, <4>3
    <3> QED BY <3>3, <3>4, <3>5 DEF ModeInv, Timely, SecondProbe, Patching, Following
  <2> QED BY <1>17, <2>2, <2>3, <2>4 DEF Compare
<1>18. CASE UNCHANGED modeVars
  BY <1>0, <1>18 DEF modeVars, ModeInv, ModesTyped, Timely, SecondProbe, Patching, Following,
                     Comparing, AllHeard, Target
<1> QED BY <1>1, <1>2, <1>3, <1>4, <1>5, <1>6, <1>7, <1>8, <1>9, <1>10, <1>11, <1>12, <1>13,
           <1>14, <1>15, <1>16, <1>17, <1>18 DEF ModeNext

LEMMA ModesBegin == ModeInit => ModeInv
<1> SUFFICES ASSUME ModeInit PROVE ModeInv OBVIOUS
<1>1. watch \in Watches /\ watch.step = "off" BY AsleepIs DEF ModeInit
<1>2. seen \in [value : Looks \cup {Nowhere}, age : 0..TTL] /\ ~(seen.age < TTL)
  BY DEF ModeInit, TTL
<1>3. ModesTyped BY <1>1, <1>2 DEF ModeInit, ModesTyped, CoreSteps
<1> QED BY <1>1, <1>3, NothingShown DEF ModeInv

LEMMA ModesFollow == ModeInv => ModeFollows
<1> SUFFICES ASSUME ModeInv PROVE ModeFollows OBVIOUS
<1>1. ModeIsOfNetwork
  BY DEF ModeInv, Following, AllHeard, Target, ModeIsOfNetwork
<1>2. ChangeEndsWait BY DEF ModeInv, Comparing, ChangeEndsWait
<1> QED BY <1>1, <1>2 DEF ModeFollows

\* Once all that happened was heard, the mode of the core is that of the network the host is
\* in, and a core that could not be started is tried again when the network is another.
THEOREM ModeAlwaysFollows == ModeSpec => []ModeFollows
<1> QED BY ModesBegin, ModesFollow, ModeKept, PTL DEF ModeSpec

(***************************************************************************)
(* FakeIp.  Prefixes.                                                      *)
(***************************************************************************)
LEMMA NumbersAre == Width \in Nat /\ Longest \in 0..Width /\ Unset \notin Destinations
BY FakeAssumption

LEMMA DestinationIs ==
    ASSUME NEW p
    PROVE  p \in Destinations <=> p \in Seq({0, 1}) /\ Len(p) <= Width
<1> USE NumbersAre
<1>1. ASSUME p \in Destinations PROVE p \in Seq({0, 1}) /\ Len(p) <= Width
  <2>1. PICK n \in 0..Width : p \in [1..n -> {0, 1}] BY <1>1 DEF Destinations
  <2> QED BY <2>1
<1>2. ASSUME p \in Seq({0, 1}), Len(p) <= Width PROVE p \in Destinations
  <2>1. Len(p) \in 0..Width /\ p \in [1..Len(p) -> {0, 1}] BY <1>2
  <2> QED BY <2>1 DEF Destinations
<1> QED BY <1>1, <1>2

LEMMA LenIs == ASSUME NEW p \in Destinations PROVE Len(p) \in 0..Width
BY DestinationIs, NumbersAre

LEMMA HalfIs ==
    ASSUME NEW p \in Destinations, Len(p) < Width, NEW bit \in {0, 1}
    PROVE  /\ Append(p, bit) \in Destinations /\ Len(Append(p, bit)) = Len(p) + 1
           /\ Covers(p, Append(p, bit))
<1>1. p \in Seq({0, 1}) BY DestinationIs
<1>2. Append(p, bit) \in Seq({0, 1}) /\ Len(Append(p, bit)) = Len(p) + 1
  BY <1>1
<1>3. \A i \in 1..Len(p) : Append(p, bit)[i] = p[i]
  BY <1>1
<1>4. Len(p) \in Nat /\ Len(p) + 1 <= Width BY <1>1, NumbersAre
<1>5. Append(p, bit) \in Destinations BY <1>2, <1>4, DestinationIs
<1>6. Covers(p, Append(p, bit)) BY <1>2, <1>3, <1>4 DEF Covers
<1> QED BY <1>2, <1>5, <1>6

\* What is longer is in one of the halves.
LEMMA HalfCovers ==
    ASSUME NEW p \in Destinations, NEW q \in Destinations, Covers(p, q), Len(p) < Len(q)
    PROVE  /\ q[Len(p) + 1] \in {0, 1} /\ Len(p) < Width
           /\ Covers(Append(p, q[Len(p) + 1]), q)
<1> DEFINE bit == q[Len(p) + 1]
<1>1. p \in Seq({0, 1}) /\ q \in Seq({0, 1}) /\ Len(q) <= Width BY DestinationIs
<1>2. bit \in {0, 1} BY <1>1
<1>3. Len(Append(p, bit)) = Len(p) + 1 BY <1>1
<1>4. \A i \in 1..(Len(p) + 1) : Append(p, bit)[i] = q[i] BY <1>1 DEF Covers
<1> QED BY <1>1, <1>2, <1>3, <1>4, NumbersAre DEF Covers

LEMMA CoversItself == ASSUME NEW p PROVE Covers(p, p) <=> Len(p) <= Len(p)
BY DEF Covers

LEMMA CoversTwice ==
    ASSUME NEW p \in Destinations, NEW q \in Destinations, NEW r \in Destinations,
           Covers(p, q), Covers(q, r)
    PROVE  Covers(p, r)
BY LenIs, NumbersAre DEF Covers

\* Of two destinations with a common address, one is in the other.
LEMMA CoversAlike ==
    ASSUME NEW p \in Destinations, NEW q \in Destinations, NEW r \in Destinations,
           Covers(p, r), Covers(q, r)
    PROVE  /\ Len(p) <= Len(q) => Covers(p, q)
           /\ Len(q) <= Len(p) => Covers(q, p)
           /\ Overlaps(p, q)
<1>1. Len(p) \in Nat /\ Len(q) \in Nat /\ Len(r) \in Nat BY LenIs, NumbersAre
<1>2. Len(p) <= Len(q) => Covers(p, q) BY <1>1 DEF Covers
<1>3. Len(q) <= Len(p) => Covers(q, p) BY <1>1 DEF Covers
<1> QED BY <1>1, <1>2, <1>3 DEF Overlaps

LEMMA SameLength ==
    ASSUME NEW p \in Destinations, NEW q \in Destinations, Covers(p, q), Len(q) <= Len(p)
    PROVE  p = q
<1>1. p \in Seq({0, 1}) /\ q \in Seq({0, 1}) BY DestinationIs
<1>2. Len(p) = Len(q) /\ \A i \in 1..Len(p) : p[i] = q[i] BY <1>1 DEF Covers
<1> QED BY <1>1, <1>2, SeqEqual

(***************************************************************************)
(* The search for a range.  What it finds below a prefix depends on what   *)
(* it finds below longer ones, which end somewhere.                        *)
(***************************************************************************)
FoundBelow(b, p, minimum, others) ==
    IF Len(p) >= minimum /\ Free(p, others) THEN p
    ELSE IF Len(p) >= Longest THEN Unset
    ELSE Larger(b[Append(p, 0)], b[Append(p, 1)])
Searches(b, minimum, others) == b = [p \in Destinations |-> FoundBelow(b, p, minimum, others)]

LEMMA SearchIs ==
    ASSUME NEW from, NEW others
    PROVE  LargestFree(from, others) =
               (CHOOSE b : Searches(b, from.minimum, others))[from.pool]
BY DEF LargestFree, Searches, FoundBelow

LEMMA FoundAlike ==
    ASSUME NEW b, NEW c, NEW p \in Destinations, NEW minimum, NEW others,
           \A q \in Destinations : Len(q) = Len(p) + 1 => b[q] = c[q]
    PROVE  FoundBelow(b, p, minimum, others) = FoundBelow(c, p, minimum, others)
<1>1. CASE Len(p) >= Longest BY <1>1 DEF FoundBelow
<1>2. CASE Len(p) < Longest
  <2>1. Len(p) < Width BY <1>2, LenIs, NumbersAre
  <2>2. b[Append(p, 0)] = c[Append(p, 0)] /\ b[Append(p, 1)] = c[Append(p, 1)] BY <2>1, HalfIs
  <2> QED BY <2>2 DEF FoundBelow
<1> QED BY <1>1, <1>2, LenIs, NumbersAre

\* A function that is right for prefixes of a length can be made right for those that are one
\* bit shorter.
LEMMA SearchExists ==
    ASSUME NEW minimum, NEW others
    PROVE  \E b : Searches(b, minimum, others)
<1> DEFINE Right(b, k) ==
               /\ b = [p \in Destinations |-> b[p]]
               /\ \A p \in Destinations : Len(p) >= k => b[p] = FoundBelow(b, p, minimum, others)
           reached == {k \in Nat : \E b : Right(b, k)}
<1>1. Width + 1 \in reached
  <2>1. Right([p \in Destinations |-> p], Width + 1) BY LenIs, NumbersAre
  <2>2. Width + 1 \in Nat BY NumbersAre
  <2> HIDE DEF Right
  <2> QED BY <2>1, <2>2
<1>2. PICK k \in reached : \A j \in reached : k <= j
  <2> HIDE DEF reached
  <2>1. reached \subseteq Nat BY DEF reached
  <2> QED BY <1>1, <2>1, LeastNatural
<1>3. k = 0
  <2> SUFFICES ASSUME k # 0 PROVE FALSE OBVIOUS
  <2>1. k \in Nat /\ k - 1 \in Nat BY <1>2
  <2>2. PICK b : Right(b, k) BY <1>2
  <2> DEFINE c == [p \in Destinations |->
                      IF Len(p) = k - 1 THEN FoundBelow(b, p, minimum, others) ELSE b[p]]
  <2>3. ASSUME NEW p \in Destinations, Len(p) >= k - 1
        PROVE  c[p] = FoundBelow(c, p, minimum, others)
    <3>1. Len(p) \in Nat BY LenIs, NumbersAre
    <3>2. \A q \in Destinations : Len(q) = Len(p) + 1 => c[q] = b[q] BY <2>1, <2>3, <3>1
    <3>3. FoundBelow(c, p, minimum, others) = FoundBelow(b, p, minimum, others)
      <4>1. \A q \in Destinations : Len(q) = Len(p) + 1 => c[q] = b[q] BY <3>2
      <4> HIDE DEF c, reached, Right
      <4>2. \A g, h : (\A q \in Destinations : Len(q) = Len(p) + 1 => g[q] = h[q]) =>
                FoundBelow(g, p, minimum, others) = FoundBelow(h, p, minimum, others)
        BY FoundAlike
      <4> QED BY <4>1, <4>2
    <3>4. c[p] = FoundBelow(b, p, minimum, others)
      <4>1. CASE Len(p) = k - 1 BY <4>1
      <4>2. CASE Len(p) >= k BY <2>1, <2>2, <4>2
      <4> QED BY <2>1, <2>3, <3>1, <4>1, <4>2
    <3> QED BY <3>3, <3>4
  <2>4. c = [p \in Destinations |-> c[p]] OBVIOUS
  <2>5. Right(c, k - 1)
    <3> HIDE DEF c
    <3> QED BY <2>3, <2>4
  <2>6. k - 1 \in reached
    <3> HIDE DEF Right, c
    <3> QED BY <2>1, <2>5
  <2> QED BY <1>2, <2>1, <2>6
<1>4. PICK b : Right(b, 0) BY <1>2, <1>3
<1>5. Searches(b, minimum, others) BY <1>4, LenIs, NumbersAre DEF Searches
<1> QED BY <1>5

Suits(q, p, minimum, others) ==
    q \in Destinations /\ Covers(p, q) /\ Len(q) >= minimum /\ Free(q, others)
FoundRight(found, p, minimum, others) ==
    /\ found # Unset => Suits(found, p, minimum, others)
    /\ \A q : Suits(q, p, minimum, others) /\ Len(q) <= Longest =>
                  found # Unset /\ Len(found) <= Len(q)

LEMMA FoundFromHalves ==
    ASSUME NEW b, NEW minimum \in Nat, NEW others, NEW p \in Destinations,
           \A q \in Destinations : Len(q) = Len(p) + 1 => FoundRight(b[q], q, minimum, others)
    PROVE  FoundRight(FoundBelow(b, p, minimum, others), p, minimum, others)
<1> DEFINE found == FoundBelow(b, p, minimum, others)
<1>1. Len(p) \in 0..Width /\ Width \in Nat /\ Longest \in Nat /\ Longest <= Width
  BY LenIs, NumbersAre
<1>2. p # Unset /\ Covers(p, p) BY <1>1, NumbersAre, CoversItself
<1>3. CASE Len(p) >= minimum /\ Free(p, others)
  <2>1. found = p BY <1>3 DEF FoundBelow
  <2>2. \A q : Suits(q, p, minimum, others) => Len(p) <= Len(q) BY DEF Suits, Covers
  <2> QED BY <1>2, <1>3, <2>1, <2>2 DEF FoundRight, Suits
<1>4. CASE ~(Len(p) >= minimum /\ Free(p, others)) /\ Len(p) >= Longest
  <2>1. found = Unset BY <1>4 DEF FoundBelow
  <2>2. \A q : ~(Suits(q, p, minimum, others) /\ Len(q) <= Longest)
    <3> SUFFICES ASSUME NEW q, Suits(q, p, minimum, others), Len(q) <= Longest PROVE FALSE
      OBVIOUS
    <3>1. q \in Destinations /\ Covers(p, q) /\ Len(q) >= minimum /\ Free(q, others)
      BY DEF Suits
    <3>2. Len(q) \in Nat BY <3>1, LenIs, NumbersAre
    <3>3. p = q BY <1>1, <1>4, <3>1, <3>2, SameLength
    <3> QED BY <1>4, <3>1, <3>3
  <2> QED BY <2>1, <2>2 DEF FoundRight
<1>5. CASE ~(Len(p) >= minimum /\ Free(p, others)) /\ Len(p) < Longest
  <2> DEFINE half(bit) == b[Append(p, bit)]
  <2>1. Len(p) < Width BY <1>1, <1>5
  <2>2. found = Larger(half(0), half(1)) BY <1>1, <1>5 DEF FoundBelow
  <2>3. \A bit \in {0, 1} : /\ Append(p, bit) \in Destinations
                            /\ Covers(p, Append(p, bit))
                            /\ FoundRight(half(bit), Append(p, bit), minimum, others)
    BY <2>1, HalfIs
  <2> HIDE DEF half, found
  <2>4. \A bit \in {0, 1} : half(bit) # Unset => Suits(half(bit), p, minimum, others)
    <3> SUFFICES ASSUME NEW bit \in {0, 1}, half(bit) # Unset
                 PROVE  Suits(half(bit), p, minimum, others)
      OBVIOUS
    <3>1. Suits(half(bit), Append(p, bit), minimum, others) BY <2>3 DEF FoundRight
    <3>2. half(bit) \in Destinations /\ Covers(Append(p, bit), half(bit)) BY <3>1 DEF Suits
    <3>3. Covers(p, half(bit)) BY <2>3, <3>2, CoversTwice
    <3> QED BY <3>1, <3>3 DEF Suits
  <2>5. \A bit \in {0, 1} : half(bit) # Unset => Len(half(bit)) \in Nat
    BY <2>4, LenIs, NumbersAre DEF Suits
  <2>6. found # Unset => Suits(found, p, minimum, others)
    BY <2>2, <2>4 DEF Larger
  <2>7. ASSUME NEW q, Suits(q, p, minimum, others), Len(q) <= Longest
        PROVE  found # Unset /\ Len(found) <= Len(q)
    <3>1. q \in Destinations /\ Covers(p, q) /\ Len(q) >= minimum /\ Free(q, others)
      BY <2>7 DEF Suits
    <3>2. Len(q) \in Nat BY <3>1, LenIs, NumbersAre
    <3>3. Len(p) < Len(q)
      <4> SUFFICES ASSUME Len(q) <= Len(p) PROVE FALSE BY <1>1, <3>2
      <4>1. p = q BY <3>1, SameLength
      <4> QED BY <1>5, <3>1, <4>1
    <3>4. PICK bit \in {0, 1} : Covers(Append(p, bit), q)
      <4>1. q[Len(p) + 1] \in {0, 1} /\ Covers(Append(p, q[Len(p) + 1]), q)
        BY <3>1, <3>3, HalfCovers
      <4> QED BY <4>1
    <3>5. Suits(q, Append(p, bit), minimum, others) BY <3>1, <3>4 DEF Suits
    <3>6. half(bit) # Unset /\ Len(half(bit)) <= Len(q)
      BY <2>3, <2>7, <3>5 DEF FoundRight
    <3>7. CASE bit = 0
      <4>1. half(0) # Unset /\ Len(half(0)) <= Len(q) BY <3>6, <3>7
      <4>2. found = half(0) \/ (found = half(1) /\ half(1) # Unset /\ Len(half(1)) < Len(half(0)))
        BY <2>2, <4>1 DEF Larger
      <4> QED BY <2>5, <3>2, <4>1, <4>2
    <3>8. CASE bit = 1
      <4>1. half(1) # Unset /\ Len(half(1)) <= Len(q) BY <3>6, <3>8
      <4>2. \/ found = half(1)
            \/ found = half(0) /\ half(0) # Unset /\ ~(Len(half(1)) < Len(half(0)))
        BY <2>2, <4>1 DEF Larger
      <4> QED BY <2>5, <3>2, <4>1, <4>2
    <3> QED BY <3>7, <3>8
  <2> QED BY <2>6, <2>7 DEF FoundRight, found
<1> QED BY <1>1, <1>3, <1>4, <1>5

LEMMA SearchFinds ==
    ASSUME NEW b, NEW minimum \in Nat, NEW others, Searches(b, minimum, others)
    PROVE  \A p \in Destinations : FoundRight(b[p], p, minimum, others)
<1> DEFINE Wrong(p) == ~FoundRight(b[p], p, minimum, others)
           depths == {k \in Nat : \E p \in Destinations : k = Width - Len(p) /\ Wrong(p)}
<1> HIDE DEF Wrong
<1> SUFFICES ASSUME depths # {} PROVE FALSE
  <2>1. \A p \in Destinations : Width - Len(p) \in Nat BY LenIs, NumbersAre
  <2>2. \A p \in Destinations : ~Wrong(p) BY <2>1
  <2> QED BY <2>2 DEF Wrong
<1>1. PICK m \in depths : \A k \in depths : m <= k
  <2>1. depths \subseteq Nat OBVIOUS
  <2> HIDE DEF depths
  <2> QED BY <2>1, LeastNatural
<1>2. PICK p \in Destinations : m = Width - Len(p) /\ Wrong(p) BY <1>1
<1>3. ASSUME NEW q \in Destinations, Len(q) = Len(p) + 1
      PROVE  FoundRight(b[q], q, minimum, others)
  <2>1. Width - Len(q) \in Nat /\ Width - Len(q) < m BY <1>2, <1>3, LenIs, NumbersAre
  <2>2. Width - Len(q) \notin depths BY <1>1, <2>1
  <2> QED BY <2>1, <2>2 DEF Wrong
<1>4. b[p] = FoundBelow(b, p, minimum, others)
  BY DEF Searches
<1>5. FoundRight(b[p], p, minimum, others) BY <1>3, <1>4, FoundFromHalves
<1> QED BY <1>2, <1>5 DEF Wrong

\* What a pool has to offer, and nothing larger in it was free.
LEMMA LargestIsFree ==
    ASSUME NEW i \in DOMAIN Pools, NEW others
    PROVE  LET found == LargestFree(Pools[i], others) IN
           /\ found # Unset =>
                found \in Destinations /\ Covers(Pools[i].pool, found) /\ Free(found, others)
           /\ \A p \in Offers(Pools[i], others) : found # Unset /\ Len(found) <= Len(p)
<1> DEFINE from == Pools[i]
           found == LargestFree(from, others)
<1>1. from.pool \in Destinations /\ from.minimum \in Nat
  <2>1. Pools \in Seq([pool : Destinations, minimum : 0..Longest]) BY FakeAssumption
  <2>2. i \in 1..Len(Pools) BY <2>1, LenProperties
  <2>3. from \in [pool : Destinations, minimum : 0..Longest] BY <2>1, <2>2, ElementOfSeq
  <2> QED BY <2>3, NumbersAre
<1>2. Searches(CHOOSE b : Searches(b, from.minimum, others), from.minimum, others)
  BY SearchExists
<1>3. FoundRight(found, from.pool, from.minimum, others)
  <2> DEFINE b == CHOOSE b : Searches(b, from.minimum, others)
  <2>1. found = b[from.pool] BY SearchIs
  <2>2. Searches(b, from.minimum, others) BY <1>2
  <2> HIDE DEF b, found, from
  <2> QED BY <1>1, <2>1, <2>2, SearchFinds
<1>4. \A p \in Offers(from, others) :
          Suits(p, from.pool, from.minimum, others) /\ Len(p) <= Longest
  BY <1>1, NumbersAre, LenIs DEF Offers, Suits
<1> QED BY <1>3, <1>4 DEF FoundRight, Suits

LEMMA PoolIs ==
    ASSUME NEW i \in DOMAIN Pools
    PROVE  i \in Nat \ {0} /\ Pools[i].pool \in Destinations /\ 1..i \subseteq DOMAIN Pools
<1>1. Pools \in Seq([pool : Destinations, minimum : 0..Longest]) BY FakeAssumption
<1>2. DOMAIN Pools = 1..Len(Pools) /\ Len(Pools) \in Nat BY <1>1, LenProperties
<1>3. Pools[i] \in [pool : Destinations, minimum : 0..Longest] BY <1>1, <1>2, ElementOfSeq
<1> QED BY <1>2, <1>3

Offering(others) == {i \in DOMAIN Pools : LargestFree(Pools[i], others) # Unset}

LEMMA OfferingIs ==
    ASSUME NEW others
    PROVE  LET some == Offering(others)
               first == CHOOSE i \in some : \A j \in some : i <= j
           IN  /\ some = {i \in DOMAIN Pools : LargestFree(Pools[i], others) # Unset}
               /\ some = {} => Recommendation(others) = Unset
               /\ first \in some =>
                    Recommendation(others) = LargestFree(Pools[first], others)
<1> DEFINE offers == [i \in DOMAIN Pools |-> LargestFree(Pools[i], others)]
           some == {i \in DOMAIN Pools : offers[i] # Unset}
<1>1. Recommendation(others) =
          IF some = {} THEN Unset ELSE offers[CHOOSE i \in some : \A j \in some : i <= j]
  BY DEF Recommendation
<1>2. some = Offering(others) BY DEF Offering
<1>3. \A i \in Offering(others) : offers[i] = LargestFree(Pools[i], others) BY DEF Offering
<1> HIDE DEF offers, some
<1> QED BY <1>1, <1>2, <1>3 DEF Offering

\* The range that is offered is free, and comes from the first pool that has any to offer.
LEMMA OfferIs ==
    ASSUME NEW others, Recommendation(others) # Unset
    PROVE  \E i \in DOMAIN Pools :
               /\ Recommendation(others) = LargestFree(Pools[i], others)
               /\ \A j \in DOMAIN Pools : LargestFree(Pools[j], others) # Unset => i <= j
<1> DEFINE some == Offering(others)
           first == CHOOSE i \in some : \A j \in some : i <= j
<1>1. /\ some = {i \in DOMAIN Pools : LargestFree(Pools[i], others) # Unset}
      /\ some = {} => Recommendation(others) = Unset
      /\ first \in some => Recommendation(others) = LargestFree(Pools[first], others)
  BY OfferingIs
<1> HIDE DEF some
<1>2. some # {} BY <1>1
<1>3. some \subseteq Nat BY <1>1, PoolIs
<1>4. \E i \in some : \A j \in some : i <= j
  BY <1>2, <1>3, LeastNatural
<1>5. first \in some /\ \A j \in some : first <= j BY <1>4
<1> HIDE DEF first
<1> QED BY <1>1, <1>2, <1>5

LEMMA NoOffer ==
    ASSUME NEW others, Recommendation(others) = Unset
    PROVE  \A i \in DOMAIN Pools : LargestFree(Pools[i], others) = Unset
<1> DEFINE some == Offering(others)
           first == CHOOSE i \in some : \A j \in some : i <= j
<1>1. /\ some = {i \in DOMAIN Pools : LargestFree(Pools[i], others) # Unset}
      /\ some = {} => Recommendation(others) = Unset
      /\ first \in some => Recommendation(others) = LargestFree(Pools[first], others)
  BY OfferingIs
<1> HIDE DEF some
<1>2. some = {}
  <2> SUFFICES ASSUME some # {} PROVE FALSE OBVIOUS
  <2>1. some \subseteq Nat BY <1>1, PoolIs
  <2>2. \E i \in some : \A j \in some : i <= j BY <2>1, LeastNatural
  <2>3. first \in some BY <2>2
  <2> HIDE DEF first
  <2> QED BY <1>1, <2>3
<1> QED BY <1>1, <1>2

LEMMA OfferIsLargest ==
    ASSUME NEW others, NEW i \in DOMAIN Pools, NEW p \in Offers(Pools[i], others)
    PROVE  LET found == Recommendation(others) IN
           /\ found # Unset /\ Free(found, others)
           /\ Covers(Pools[i].pool, found) => Len(found) <= Len(p)
           /\ \E j \in 1..i : Covers(Pools[j].pool, found)
<1> DEFINE found == Recommendation(others)
<1>1. LargestFree(Pools[i], others) # Unset BY LargestIsFree
<1>2. found # Unset BY <1>1, NoOffer
<1>3. PICK k \in DOMAIN Pools :
          /\ found = LargestFree(Pools[k], others)
          /\ \A j \in DOMAIN Pools : LargestFree(Pools[j], others) # Unset => k <= j
  BY <1>2, OfferIs
<1>4. found \in Destinations /\ Covers(Pools[k].pool, found) /\ Free(found, others)
  BY <1>2, <1>3, LargestIsFree
<1>5. k \in 1..i BY <1>1, <1>3, PoolIs
<1>6. ASSUME Covers(Pools[i].pool, found) PROVE Len(found) <= Len(p)
  <2>1. Overlaps(Pools[i].pool, Pools[k].pool)
    BY <1>4, <1>6, PoolIs, CoversAlike
  <2>2. i = k BY <2>1, FakeAssumption
  <2> QED BY <1>3, <2>2, LargestIsFree
<1> QED BY <1>2, <1>4, <1>5, <1>6

LEMMA RecommendedIsFree ==
    ASSUME NEW others, RecommendedRange(others) # Unset
    PROVE  Free(RecommendedRange(others), others)
<1>1. Recommendation(others) # Unset => Free(Recommendation(others), others)
  BY OfferIs, LargestIsFree
<1> QED BY <1>1 DEF RecommendedRange

LEMMA RecommendedIsRange ==
    ASSUME NEW others, Retained \in Destinations \cup {Unset}
    PROVE  RecommendedRange(others) \in Destinations \cup {Unset}
<1>1. Default \in Destinations
  <2>1. Pools \in Seq([pool : Destinations, minimum : 0..Longest]) /\ Pools # <<>>
    BY FakeAssumption
  <2>2. 1 \in DOMAIN Pools BY <2>1, EmptySeq, LenProperties
  <2> QED BY <2>2, PoolIs DEF Default
<1>2. Recommendation(others) \in Destinations \cup {Unset} BY OfferIs, LargestIsFree
<1> QED BY <1>1, <1>2 DEF RecommendedRange

(***************************************************************************)
(* The routes of a core that runs are those of its range.                  *)
(***************************************************************************)
FakeInv ==
    /\ foreign \subseteq OtherRoute
    /\ range \in Destinations \cup {Unset}
    /\ build # Unset => build.range \in Destinations
    /\ tun # Unset => /\ tun.range \in Destinations
                      /\ tun.refined =>
                            tun.routes = {tun.range} \cup Refinement(tun.range, tun.known)

LEMMA FakeBegins == FakeInit => FakeInv
BY DEF FakeInit, FakeInv

LEMMA FakeKept == FakeInv /\ [FakeNext]_fakeVars => FakeInv'
<1> SUFFICES ASSUME FakeInv, [FakeNext]_fakeVars PROVE FakeInv' OBVIOUS
<1> USE DEF FakeInv
<1>1. CASE Compile
  <2>1. Retained \in Destinations \cup {Unset} BY DEF Retained
  <2>2. PICK chosen : /\ chosen = IF Automatic THEN RecommendedRange(Seen) ELSE range
                      /\ chosen # Unset
                      /\ build' = [range |-> chosen, key |-> key,
                                   found |-> Automatic /\ chosen # Default]
    BY <1>1 DEF Compile
  <2>3. chosen \in Destinations BY <2>1, <2>2, RecommendedIsRange
  <2>4. build'.range = chosen BY <2>2
  <2>5. UNCHANGED <<foreign, range, tun>> BY <1>1 DEF Compile
  <2> QED BY <2>3, <2>4, <2>5
<1>2. CASE StartTun
  <2>1. PICK refined \in BOOLEAN :
            tun' = [range |-> build.range, known |-> foreign, refined |-> refined,
                    routes |-> {build.range} \cup
                               IF refined THEN Refinement(build.range, foreign) ELSE {}]
    BY <1>2 DEF StartTun
  <2>3. /\ tun'.range = build.range /\ tun'.known = foreign
        /\ tun'.refined => tun'.routes = {build.range} \cup Refinement(build.range, foreign)
    BY <2>1
  <2>2. UNCHANGED <<foreign, range, build>> /\ build # Unset BY <1>2 DEF StartTun
  <2> QED BY <2>2, <2>3
<1>3. CASE WriteProfile
  <2>1. range' \in Destinations \cup {Unset} BY <1>3, FakeAssumption DEF WriteProfile
  <2>2. UNCHANGED <<foreign, build, tun>> BY <1>3 DEF WriteProfile
  <2> QED BY <2>1, <2>2
<1>4. CASE RoutesChange
  <2>1. foreign' \subseteq OtherRoute BY <1>4 DEF RoutesChange
  <2>2. UNCHANGED <<range, build, tun>> BY <1>4 DEF RoutesChange
  <2> QED BY <2>1, <2>2
<1>5. CASE StopTun BY <1>5 DEF StopTun
<1>6. CASE NoRange \/ LookAtRoutes \/ SampleAges \/ UpdateTarget \/ UNCHANGED fakeVars
  <2>1. UNCHANGED <<foreign, range, build, tun>>
    BY <1>6 DEF NoRange, LookAtRoutes, SampleAges, UpdateTarget, fakeVars
  <2> QED BY <2>1
<1> QED BY <1>1, <1>2, <1>3, <1>4, <1>5, <1>6 DEF FakeNext

\* The longest route of others that an address is in is halved, unless it is the address.
LEMMA TunReached == FakeInv => FakeAddressesReachTun
<1> SUFFICES ASSUME FakeInv, tun # Unset, tun.refined, tun.known = foreign, NEW a \in Addresses,
                    Covers(tun.range, a), a \notin foreign
             PROVE  ReachesTun(a)
  BY DEF FakeAddressesReachTun
<1>1. a \in Destinations /\ Len(a) = Width BY DEF Addresses
<1>2. foreign \subseteq Destinations BY FakeAssumption DEF FakeInv
<1>3. tun.range \in Destinations /\ tun.routes = {tun.range} \cup Refinement(tun.range, foreign)
  BY DEF FakeInv
<1> DEFINE inside == {f \in foreign : Covers(f, a) /\ Covers(tun.range, f)}
<1>4. \A f \in foreign : Covers(f, a) /\ f \notin inside => Len(f) < Len(tun.range)
  BY <1>1, <1>2, <1>3, CoversAlike, LenIs, NumbersAre
<1>5. CASE inside = {}
  <2>1. \A f \in foreign : Covers(f, a) => Len(f) < Len(tun.range) BY <1>4, <1>5
  <2> QED BY <1>3, <2>1 DEF ReachesTun
<1>6. CASE inside # {}
  <2> DEFINE short == {Width - Len(f) : f \in inside}
  <2>1. \A f \in inside : Len(f) \in 0..Width /\ Width - Len(f) \in Nat
    BY <1>2, LenIs, NumbersAre
  <2>2. short \subseteq Nat /\ short # {} BY <1>6, <2>1
  <2>3. PICK m \in short : \A k \in short : m <= k
    <3> HIDE DEF short
    <3> QED BY <2>2, LeastNatural
  <2>4. PICK f \in inside : m = Width - Len(f) BY <2>3
  <2>5. \A g \in inside : Len(g) <= Len(f)
    <3> SUFFICES ASSUME NEW g \in inside PROVE Len(g) <= Len(f) OBVIOUS
    <3>1. Width - Len(g) \in short OBVIOUS
    <3>2. m <= Width - Len(g) BY <2>3, <3>1
    <3> HIDE DEF short, inside
    <3> QED BY <2>1, <2>4, <3>2, NumbersAre
  <2>6. f \in Destinations /\ Covers(f, a) /\ Covers(tun.range, f) /\ f # a
    BY <1>2
  <2>7. Len(f) < Len(a)
    <3> SUFFICES ASSUME Len(a) <= Len(f) PROVE FALSE
      BY <1>1, <2>1, NumbersAre
    <3> QED BY <1>1, <2>6, SameLength
  <2> DEFINE half == Append(f, a[Len(f) + 1])
  <2>8. a[Len(f) + 1] \in {0, 1} /\ Len(f) < Width /\ Covers(half, a)
    BY <1>1, <2>6, <2>7, HalfCovers
  <2>9. Len(half) = Len(f) + 1 BY <2>6, <2>8, HalfIs
  <2>10. half \in Refinement(tun.range, foreign)
    BY <2>6, <2>8 DEF Refinement
  <2>11. \A g \in foreign : Covers(g, a) => Len(g) < Len(half)
    <3> SUFFICES ASSUME NEW g \in foreign, Covers(g, a) PROVE Len(g) < Len(half) OBVIOUS
    <3>1. Len(g) \in Nat /\ Len(f) \in Nat /\ Len(tun.range) \in Nat
      BY <1>2, <1>3, <2>6, LenIs, NumbersAre
    <3>2. Len(tun.range) <= Len(f) BY <2>6 DEF Covers
    <3>3. g \in inside => Len(g) <= Len(f) BY <2>5
    <3>4. g \notin inside => Len(g) < Len(tun.range) BY <1>4
    <3> HIDE DEF inside, half
    <3> QED BY <2>9, <3>1, <3>2, <3>3, <3>4
  <2>12. half \in tun.routes BY <1>3, <2>10
  <2> HIDE DEF half, inside
  <2> QED BY <2>8, <2>11, <2>12 DEF ReachesTun
<1> QED BY <1>5, <1>6

LEMMA FakeHolds == FakeInv => FakeIpSound
<1> SUFFICES ASSUME FakeInv, build # Unset PROVE FakeAddressesReachTun /\ RangeFreeAndLargest /\ PendingTold
  BY DEF FakeIpSound
<1>1. RangeFreeAndLargest BY OfferIsLargest DEF RangeFreeAndLargest
<1>2. PendingTold
  <2> SUFFICES ASSUME tun # Unset, Automatic
               PROVE  /\ ~Free(tun.range, Seen) /\ RecommendedRange(Seen) # Unset => Pending
                      /\ build.range = tun.range /\ build.key = key
                           /\ (build.found \/ build.range = Default) /\ Free(tun.range, Seen)
                           => ~Pending
    BY DEF PendingTold
  <2>1. ASSUME ~Free(tun.range, Seen), RecommendedRange(Seen) # Unset PROVE Pending
    BY <2>1, RecommendedIsFree DEF Pending
  <2>2. ASSUME build.range = tun.range, build.key = key,
               build.found \/ build.range = Default, Free(tun.range, Seen)
        PROVE  ~Pending
    <3>1. build.range # Unset BY NumbersAre DEF FakeInv
    <3>2. Retained = build.range BY <2>2 DEF Retained
    <3>3. RecommendedRange(Seen) = tun.range BY <2>2, <3>1, <3>2 DEF RecommendedRange
    <3> QED BY <3>3 DEF Pending
  <2> QED BY <2>1, <2>2
<1> QED BY <1>1, <1>2, TunReached

\* Every fake address that nobody else routes alone reaches the TUN of a core that was started
\* on the routes as they are; the range that is offered is free, and the largest of the first
\* pool that has one; and a change of range is announced exactly when it is needed.
THEOREM FakeAlwaysSound == FakeSpec => []FakeIpSound
<1> QED BY FakeBegins, FakeKept, FakeHolds, PTL DEF FakeSpec

(***************************************************************************)
(* Capture, packages and the choice of a core: in a run that is about one  *)
(* of them it takes its own steps, and in any other it rests.              *)
(***************************************************************************)
CapturePartInv ==
    /\ focus = "gateway" => InterceptInv
    /\ focus = "router" => CaptureInv
PackagePartInv ==
    /\ focus = "packages" => PackageInv
    /\ focus = "choice" => ChoiceInv

LEMMA CapturePartBegins == HostInit => CapturePartInv
BY InterceptStarts, CaptureStarts DEF HostInit, CapturePartInv

LEMMA PackagePartBegins == HostInit => PackagePartInv
BY PackagesBegin, ChoiceBegins DEF HostInit, PackagePartInv

LEMMA PartsStep ==
    [HostNext]_hostVars =>
        /\ UNCHANGED focus
        /\ focus = "gateway" => [InterceptNext]_interceptVars
        /\ focus = "router" => [CaptureNext]_captureVars
        /\ focus = "packages" => [PackageNext]_packageVars
        /\ focus = "choice" => [ChoiceNext]_choiceVars
<1>1. HostNext => UNCHANGED focus BY Zenon DEF HostNext
<1>2. HostNext => [InterceptNext]_interceptVars BY Zenon DEF HostNext
<1>3. HostNext => [CaptureNext]_captureVars BY Zenon DEF HostNext
<1>4. HostNext => [PackageNext]_packageVars BY Zenon DEF HostNext
<1>5. HostNext => [ChoiceNext]_choiceVars BY Zenon DEF HostNext
<1>6. UNCHANGED hostVars =>
          UNCHANGED <<interceptVars, captureVars, packageVars, choiceVars, focus>>
  BY DEF hostVars
<1> QED BY <1>1, <1>2, <1>3, <1>4, <1>5, <1>6

\* On a gateway and on a router, packets go where they are wanted, and the tables of other
\* programs stay.  What a failed command of a gateway takes away is named in InterceptionSound;
\* what a withdrawal that failed and a reload that failed, or put back a script it had read
\* before a job or a withdrawal, take away of a router's rules, in CaptureHolds.
THEOREM CaptureAlwaysSound == HostSpec => []CaptureSound
<1>1. CapturePartInv /\ [HostNext]_hostVars => CapturePartInv'
  <2>1. focus = "gateway" /\ CapturePartInv /\ [HostNext]_hostVars => InterceptInv'
    BY PartsStep, InterceptKept DEF CapturePartInv
  <2>2. focus = "router" /\ CapturePartInv /\ [HostNext]_hostVars => CaptureInv'
    BY PartsStep, CaptureKept DEF CapturePartInv
  <2> QED BY <2>1, <2>2, PartsStep DEF CapturePartInv
<1>2. CapturePartInv => CaptureSound
  BY InterceptInvHolds, CaptureInvHolds DEF CapturePartInv, CaptureSound
<1> QED BY <1>1, <1>2, CapturePartBegins, PTL DEF HostSpec

\* What is downloaded is what was released, what it replaces is there until it is, and the core
\* that is chosen, and runs, is one that can do what was asked of it.
THEOREM PackagesAlwaysKept == HostSpec => []PackagesKept
<1>1. PackagePartInv /\ [HostNext]_hostVars => PackagePartInv'
  <2>1. focus = "packages" /\ PackagePartInv /\ [HostNext]_hostVars => PackageInv'
    BY PartsStep, PackagesKeep DEF PackagePartInv
  <2>2. focus = "choice" /\ PackagePartInv /\ [HostNext]_hostVars => ChoiceInv'
    BY PartsStep, ChoiceKept DEF PackagePartInv
  <2> QED BY <2>1, <2>2, PartsStep DEF PackagePartInv
<1>2. PackagePartInv => PackagesKept
  BY PackageInvHolds, ChoiceInvHolds DEF PackagePartInv, PackagesKept
<1> QED BY <1>1, <1>2, PackagePartBegins, PTL DEF HostSpec

(***************************************************************************)
(* The network: the same, but for what a watch at rest says of the mode.   *)
(***************************************************************************)
NetworkPartInv ==
    /\ IF focus = "ranges" THEN FakeInv ELSE build = Unset
    /\ IF focus = "modes" THEN ModeInv ELSE watch.step = "off"

LEMMA NetworkPartBegins == HostInit => NetworkPartInv
<1> SUFFICES ASSUME HostInit PROVE NetworkPartInv OBVIOUS
<1>1. IF focus = "ranges" THEN FakeInv ELSE build = Unset
  BY FakeBegins DEF HostInit, FakeAtRest
<1>2. IF focus = "modes" THEN ModeInv ELSE watch.step = "off"
  BY ModesBegin DEF HostInit, ModesAtRest
<1> QED BY <1>1, <1>2 DEF NetworkPartInv

LEMMA NetworkPartKept == NetworkPartInv /\ [HostNext]_hostVars => NetworkPartInv'
<1> SUFFICES ASSUME NetworkPartInv, [HostNext]_hostVars PROVE NetworkPartInv' OBVIOUS
<1>1. UNCHANGED focus BY PartsStep
<1>2. IF focus = "ranges" THEN FakeInv' ELSE build' = Unset
  <2>1. CASE focus = "ranges"
    <3>1. [FakeNext]_fakeVars
      <4>1. HostNext => [FakeNext]_fakeVars BY Zenon DEF HostNext
      <4>2. UNCHANGED hostVars => UNCHANGED fakeVars BY DEF hostVars
      <4> QED BY <4>1, <4>2
    <3> QED BY <2>1, <3>1, FakeKept DEF NetworkPartInv
  <2>2. CASE focus # "ranges"
    <3>1. HostNext => UNCHANGED fakeVars BY Zenon, <2>2 DEF HostNext
    <3>2. UNCHANGED hostVars => UNCHANGED fakeVars BY DEF hostVars
    <3>3. UNCHANGED build BY <3>1, <3>2 DEF fakeVars
    <3> QED BY <2>2, <3>3 DEF NetworkPartInv
  <2> QED BY <2>1, <2>2
<1>3. IF focus = "modes" THEN ModeInv' ELSE watch'.step = "off"
  <2>1. CASE focus = "modes"
    <3>1. [ModeNext]_modeVars
      <4>1. HostNext => [ModeNext]_modeVars BY Zenon DEF HostNext
      <4>2. UNCHANGED hostVars => UNCHANGED modeVars BY DEF hostVars
      <4> QED BY <4>1, <4>2
    <3> QED BY <2>1, <3>1, ModeKept DEF NetworkPartInv
  <2>2. CASE focus # "modes"
    <3>1. HostNext => UNCHANGED modeVars BY Zenon, <2>2 DEF HostNext
    <3>2. UNCHANGED hostVars => UNCHANGED modeVars BY DEF hostVars
    <3>3. UNCHANGED watch BY <3>1, <3>2 DEF modeVars
    <3> QED BY <2>2, <3>3 DEF NetworkPartInv
  <2> QED BY <2>1, <2>2
<1> QED BY <1>1, <1>2, <1>3 DEF NetworkPartInv

\* The range of fake addresses suits the routes of the host, and the mode of the core is that of
\* the network the host is in.
THEOREM NetworkAlwaysFollowed == HostSpec => []NetworkFollowed
<1>1. NetworkPartInv => NetworkFollowed
  <2> SUFFICES ASSUME NetworkPartInv PROVE FakeIpSound /\ ModeFollows BY DEF NetworkFollowed
  <2>1. FakeIpSound
    <3>1. build = Unset => FakeIpSound BY DEF FakeIpSound
    <3> QED BY <3>1, FakeHolds DEF NetworkPartInv
  <2>2. ModeFollows
    <3>1. watch.step = "off" => ModeFollows BY DEF ModeFollows, ModeIsOfNetwork, ChangeEndsWait
    <3> QED BY <3>1, ModesFollow DEF NetworkPartInv
  <2> QED BY <2>1, <2>2
<1> QED BY <1>1, NetworkPartBegins, NetworkPartKept, PTL DEF HostSpec

(***************************************************************************)
(* Traffic.  It is so of a host whose other parts move too.                *)
(***************************************************************************)
LEMMA TrafficOfHost == [HostNext]_hostVars => [TrafficNext]_trafficVars
BY DEF HostNext, hostVars

\* What is shown of the traffic was carried and counted once, survives an orderly stop of the
\* daemon, and goes from its old end only.
THEOREM TrafficAlwaysKept == HostSpec => TrafficKept
<1>1. HostInit => TrafficInit BY DEF HostInit
<1>2. TrafficInit /\ [][TrafficNext]_trafficVars => TrafficKept
  BY HistoryAlwaysHonest DEF TrafficSpec
<1> QED BY <1>1, <1>2, TrafficOfHost, PTL DEF HostSpec
===============================================================================
