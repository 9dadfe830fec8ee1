----------------------------- MODULE MCUpdates -----------------------------
(***************************************************************************)
(* What is kept in several files that change together: the client and its  *)
(* resources, the DNS settings and what is generated from them, the        *)
(* profiles and the configuration built of them; and what a client reports *)
(* of its probes, and answers to DNS queries.  These share no state; one   *)
(* run explores each of them with the others at rest.                      *)
(*                                                                         *)
(* Updates: one path of each group, so that every way to swap is           *)
(* exercised: a file and a directory, found and missing at the target and  *)
(* in the bundle.  Two tasks meet while no deployment runs; a deployment   *)
(* from the command line starts in a daemon without a task, and at most    *)
(* one task has begun when an installer deploys.                           *)
(*                                                                         *)
(* DNS: settings that differ in the rule files, in the upstreams and in    *)
(* what needs another core configuration.                                  *)
(*                                                                         *)
(* Profiles: every operation, and no schedule (MCServices has it).         *)
(*                                                                         *)
(* Queries: rules that keep a name local, send it to the core, rewrite it  *)
(* or leave it to the strategy, with two, one and no local upstreams.      *)
(***************************************************************************)
EXTENDS Updates, DnsPublication, Profiles, Observation, Resolver, TLC

VARIABLE focus

MCSet(shape, r1, r2, upstream) ==
  [shape |-> shape, rules |-> ("r1" :> r1 @@ "r2" :> r2), upstream |-> upstream]
MCSettings ==
  {MCSet("s", "a", "a", "u"), MCSet("s", "b", "b", "u"), MCSet("s", "a", "a", "v"),
   MCSet("t", "b", "a", "u")}

MCRules(first, second) == "q1" :> first @@ "q2" :> second
MCConfig ==
  {[listen |-> "p", rule |-> MCRules("local", "none"), locals |-> <<"l1", "l2">>,
    responseFirst |-> TRUE],
   [listen |-> "p", rule |-> MCRules("none", "remote"), locals |-> <<"l1">>,
    responseFirst |-> FALSE],
   [listen |-> "o", rule |-> MCRules("rewrite", "none"), locals |-> <<>>,
    responseFirst |-> TRUE]}

DnsAtRest ==
  /\ settings = CHOOSE s \in Settings : TRUE
  /\ servers = CHOOSE v \in Server : TRUE
UpdatesAtRest ==
  /\ content = [i \in Item |-> "old"] /\ source = [i \in Item |-> "new"]
  /\ svc = "running" /\ ~command
ProfilesAtRest ==
  /\ catalog = [p \in Profile |-> New({})] /\ activeProfile = "none"
  /\ custom = CHOOSE n \in CustomNode : TRUE
  /\ network = CHOOSE n \in Network : TRUE

MCInit ==
  /\ UpdatesInit /\ DnsInit /\ ProfilesInit /\ ObservationInit /\ ResolverInit
  /\ ~interval /\ ~overdue
  /\ \/ /\ focus = "updates"
        /\ DnsAtRest /\ ProfilesAtRest /\ command = (svc = "running")
        /\ \E missing \in {{}, Item, Stores \cup {State}} :
             content = [i \in Item |-> IF i \in missing THEN "none" ELSE "old"]
        /\ \E missing \in {{}, App \cup Stores \cup {Cores}} :
             source = [i \in Item |-> IF i \in missing THEN "none" ELSE "new"]
     \/ focus = "dns" /\ UpdatesAtRest /\ ProfilesAtRest
     \/ focus = "profiles" /\ UpdatesAtRest /\ DnsAtRest /\ activeProfile # "none"
     \/ focus \in {"observation", "queries"} /\ UpdatesAtRest /\ DnsAtRest /\ ProfilesAtRest

MCNext ==
  /\ UNCHANGED focus
  /\ \/ /\ focus = "updates" /\ UpdatesNext
        /\ UNCHANGED <<dnsVars, profileVars, observationVars, resolverVars>>
     \/ /\ focus = "dns" /\ DnsNext
        /\ UNCHANGED <<allVars, profileVars, observationVars, resolverVars>>
     \/ /\ focus = "profiles" /\ EditStep
        /\ UNCHANGED <<schedule, allVars, dnsVars, observationVars, resolverVars>>
     \/ /\ focus = "observation" /\ ObservationNext
        /\ UNCHANGED <<allVars, dnsVars, profileVars, resolverVars>>
     \/ /\ focus = "queries" /\ ResolverNext
        /\ UNCHANGED <<allVars, dnsVars, profileVars, observationVars>>

Bound ==
  /\ kind \in Kind \ {"release"} => NextId = 1
  /\ kind = "release" => NextId <= 2 /\ \A id \in Ids : work[id] \in {"none", "ended"}

mcVars == <<allVars, dnsVars, profileVars, observationVars, resolverVars, focus>>
MCSpec == MCInit /\ [][MCNext]_mcVars
=============================================================================
