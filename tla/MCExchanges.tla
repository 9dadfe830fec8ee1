-------------------------------- MODULE MCExchanges --------------------------------
(***************************************************************************)
(* What is exchanged over the network: the server's accounts, public       *)
(* subscriptions and proxies, and the client's downloads.  They share no   *)
(* state; one run explores each of them with the others at rest.           *)
(***************************************************************************)
EXTENDS Accounts, Publication, Proxies, Fetching, Sources, TLC

VARIABLE focus

MCOwnerOf == [p \in Proxy |-> IF p = "p1" THEN "u1" ELSE "u2"]
MCLastRevision == [p \in Proxy |-> IF p = "p1" THEN 2 ELSE 1]
MCRule(d, a, b) == [default |-> d, host |-> "h1" :> a @@ "h2" :> b]
MCRulebook == {MCRule("system", "f1", "default"), MCRule("f1", "direct", "f2")}

AnyOf(S) == CHOOSE x \in S : TRUE
PublicAtRest == saved.config = AnyOf(Config)
ProxiesAtRest == node = AnyOf(Content \ Rejected)
MCItem(kind, url, proxied, ttl) ==
    [enabled |-> TRUE, kind |-> kind, nodes |-> kind = "raw", url |-> url, ttl |-> ttl,
     proxied |-> proxied]
MCBook(tag, url, clash) == [tag |-> tag, url |-> url, clash |-> clash]
MCDocument(selected, items, books) ==
    [selected |-> selected, items |-> items, providers |-> books]
MCEmpty == [MCItem("raw", "", FALSE, 1) EXCEPT !.nodes = FALSE]
MCDocuments ==
    {MCDocument("none", <<MCItem("url", "s1", TRUE, 1)>>, <<>>),
     MCDocument("manual", <<MCItem("url", "s2", FALSE, 0), MCEmpty>>, <<>>),
     MCDocument("none", <<MCItem("url", "", FALSE, 1), [MCEmpty EXCEPT !.enabled = FALSE]>>,
                <<>>),
     MCDocument("manual", <<MCItem("raw", "", FALSE, 1)>>, <<MCBook("b1", Relay, TRUE)>>),
     MCDocument("attached", <<>>, <<MCBook("b1", "s1", TRUE), MCBook("b2", "s2", FALSE)>>)}
MCLists == {<<"s1", "s2">>}
MCRouting == {[s \in Site |-> IF s = "s1" THEN "proxy" ELSE "direct"], [s \in Site |-> "direct"]}
SourcesAtRest == policies = <<AnyOf(Routing)>>
FetchBegin == proxies = [p \in FetchProxy |-> "on"]

ExchangeInit ==
    /\ AccountsInit /\ PublicInit /\ ProxiesInit /\ FetchInit /\ SourcesInit
    /\ focus \in {"accounts", "publication", "proxies", "fetching", "sources"}
    /\ focus = "publication" \/ PublicAtRest
    /\ focus = "proxies" \/ ProxiesAtRest
    /\ focus = "sources" \/ SourcesAtRest
    /\ FetchBegin /\ (focus = "fetching" \/ coreProxy)

ExchangeNext ==
    /\ UNCHANGED focus
    /\ \/ /\ focus = "accounts" /\ AccountsNext
          /\ UNCHANGED <<publicVars, proxyVars, fetchVars, sourceVars>>
       \/ /\ focus = "publication" /\ PublicNext
          /\ UNCHANGED <<accountVars, proxyVars, fetchVars, sourceVars>>
       \/ /\ focus = "proxies" /\ ProxiesNext
          /\ UNCHANGED <<accountVars, publicVars, fetchVars, sourceVars>>
       \/ /\ focus = "fetching" /\ FetchNext
          /\ UNCHANGED <<accountVars, publicVars, proxyVars, sourceVars>>
       \/ /\ focus = "sources" /\ SourcesNext
          /\ UNCHANGED <<accountVars, publicVars, proxyVars, fetchVars>>

(* What is answered: by the public requests of a subscription, and by what *)
(* is loaded for them (RouteKept, CachesOfWriters, SourcesAccounted and    *)
(* RulesWhole of Sources).                                                 *)
AnswersSound == (focus = "publication" => AnswersMatch) /\ (focus = "sources" => SourcesSound)

exchangeVars == <<accountVars, publicVars, proxyVars, fetchVars, sourceVars, focus>>
ExchangeSpec == ExchangeInit /\ [][ExchangeNext]_exchangeVars

===============================================================================
