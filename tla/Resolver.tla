------------------------------- MODULE Resolver -------------------------------
(***************************************************************************)
(* The DNS frontend's resolver (sempre-dns: dns, resolver, upstream).      *)
(* Queries are served concurrently, each under the configuration that was  *)
(* current when it came in; an update replaces the configuration under     *)
(* them.  An upstream is asked over a new connection or over one that an   *)
(* earlier query left in a pool; connections break, are closed by the      *)
(* server while idle, and answers come late or never.                      *)
(***************************************************************************)
EXTENDS Integers, Sequences, SequencesExt

CONSTANTS
    Query,           \* the queries of clients
    Config,          \* configurations: [listen, rule, locals, responseFirst]
    Remote,          \* the upstream of what no rule keeps local: the core
    Datagram,        \* upstreams that are asked over a UDP socket of the query's own
    Connection,      \* connections to upstreams
    MaxIdle,         \* how many of them a pool keeps of an upstream
    MaxStates        \* bound on the configurations of a run

NoState == 0
Unset == "none"
Free == [upstream |-> Unset]

\* A query and a connection have names, and the local upstreams of a configuration an order.
ASSUME ResolverAssumption ==
    /\ Unset \notin Query /\ Unset \notin Connection
    /\ \A config \in Config : config.locals \in Seq(ToSet(config.locals))

VARIABLES
    current,     \* Resolver.state: which of the states queries take now
    state,       \* the states: [config, pool]
    query,       \* where a query is
    connection,  \* a connection, what the server owes on it and has answered
    asked,       \* the upstreams that have seen a query (for the properties)
    heard        \* the queries an upstream has answered (for the properties)

resolverVars == <<current, state, query, connection, asked, heard>>

Serving(qs, q) == qs[q].pc = "asking"
IdleIn(s) == UNION {ToSet(s.pool[u]) : u \in DOMAIN s.pool}
Emptied(s) == [s EXCEPT !.pool = [u \in DOMAIN @ |-> <<>>]]

ResolverInit ==
    /\ current = NoState
    /\ state = <<>>
    /\ query = [q \in Query |-> [pc |-> "idle"]]
    /\ connection = [c \in Connection |-> Free]
    /\ asked = [q \in Query |-> {}] /\ heard = {}

\* What a step leaves.  A state is dropped, with the connections it pooled, when it is
\* neither the current one nor that of a query.
Leave(cur, states, queries, connections) ==
    LET dead == {s \in DOMAIN states :
                   s # cur /\ \A q \in Query : Serving(queries, q) => queries[q].state # s}
        closed == UNION {IdleIn(states[s]) : s \in dead}
    IN  /\ current' = cur
        /\ state' = [s \in DOMAIN states |->
                       IF s \in dead THEN Emptied(states[s]) ELSE states[s]]
        /\ query' = queries
        /\ connection' = [c \in Connection |->
                            IF c \in closed THEN Free ELSE connections[c]]

(***************************************************************************)
(* What a configuration makes of a name.                                   *)
(***************************************************************************)
\* exchange_local and exchange_named.
Locals(config) == IF config.locals = <<>> THEN <<Remote>> ELSE config.locals
Named(config, upstream) ==
    IF upstream = "local" THEN Locals(config)
    ELSE IF upstream = "remote" THEN <<Remote>> ELSE <<upstream>>

Asking(s, phase, upstreams) ==
    [pc |-> "asking", state |-> s, phase |-> phase, todo |-> upstreams,
     local |-> Unset, connection |-> Unset, pooled |-> FALSE]
Done(s, outcome, about) == [pc |-> outcome, state |-> s, about |-> about]

\* Rewrites, the rejection of HTTPS records and rule sets come before any strategy.
Decided(q, s) ==
    LET config == state[s].config
        rule == config.rule[q]
    IN  IF rule \in {"rewrite", "reject"} THEN Done(s, "answered", q)
        ELSE IF rule # "none" THEN Asking(s, "only", Named(config, rule))
        ELSE IF config.responseFirst THEN Asking(s, "local", Locals(config))
        ELSE Asking(s, "only", <<Remote>>)

(***************************************************************************)
(* The service.                                                            *)
(***************************************************************************)
Upstreams(config) ==
    ToSet(config.locals) \cup {Remote} \cup {config.rule[q] : q \in Query}
NewState(config) == [config |-> config, pool |-> [u \in Upstreams(config) |-> <<>>]]

\* DnsService::start: the listeners are bound, all of them or none.
StartFrontend ==
    /\ current = NoState /\ Len(state) < MaxStates
    /\ \E config \in Config :
         Leave(Len(state) + 1, Append(state, NewState(config)), query, connection)
    /\ UNCHANGED <<asked, heard>>

\* update: what is served meanwhile keeps the state it began with.
Update ==
    /\ current # NoState /\ Len(state) < MaxStates
    /\ \E config \in Config :
         /\ config.listen = state[current].config.listen
         /\ Leave(Len(state) + 1, Append(state, NewState(config)), query, connection)
    /\ UNCHANGED <<asked, heard>>

\* stop: the queries that are being served are aborted and get no answer.
StopFrontend ==
    /\ current # NoState
    /\ Leave(NoState, state,
             [q \in Query |-> IF Serving(query, q)
                              THEN Done(query[q].state, "aborted", Unset) ELSE query[q]],
             [c \in Connection |-> Free])
    /\ UNCHANGED <<asked, heard>>

Receive ==
    /\ current # NoState
    /\ \E q \in Query :
         /\ query[q].pc = "idle"
         /\ query' = [query EXCEPT ![q] = Decided(q, current)]
    /\ UNCHANGED <<current, state, connection, asked, heard>>

(***************************************************************************)
(* resolve: one exchange after another.                                    *)
(***************************************************************************)
Onward(q, phase, upstreams) ==
    [query[q] EXCEPT !.phase = phase, !.todo = upstreams,
                     !.connection = Unset, !.pooled = FALSE]

\* Without an answer of the remote upstream, the local one stands.
OrNothing(q) == Done(query[q].state, "failed", Unset)
OrLocal(q) ==
    IF query[q].local = Unset THEN Done(query[q].state, "failed", Unset)
    ELSE Done(query[q].state, "answered", query[q].local)

Failed(q) ==
    IF Len(query[q].todo) > 1 THEN Onward(q, query[q].phase, Tail(query[q].todo))
    ELSE IF query[q].phase = "local" THEN Onward(q, "remote", <<Remote>>)
    ELSE OrLocal(q)

Succeeded(q, answer) ==
    IF query[q].phase = "local" /\ answer.kind = "foreign"
    THEN [Onward(q, "remote", <<Remote>>) EXCEPT !.local = answer.about]
    ELSE Done(query[q].state, "answered", answer.about)

Target(q) == Head(query[q].todo)
Pool(q) == state[query[q].state].pool[Target(q)]
Without(set) == [c \in Connection |-> IF c \in set THEN Free ELSE connection[c]]

\* An exchange that fails or takes too long drops its connection.
ExchangeFails(q) ==
    /\ Leave(current, state, [query EXCEPT ![q] = Failed(q)], Without({query[q].connection}))
    /\ UNCHANGED <<asked, heard>>

(***************************************************************************)
(* exchange_inner: a pooled connection or a new one.                       *)
(***************************************************************************)
Sends(q, c, pooled) ==
    /\ query' = [query EXCEPT ![q].connection = c, ![q].pooled = pooled]
    /\ asked' = [asked EXCEPT ![q] = @ \cup {Target(q)}]
    /\ UNCHANGED <<current, heard>>

Pooling(q, pool) == state' = [state EXCEPT ![query[q].state].pool[Target(q)] = pool]

\* The latest one, after those that idled for too long were dropped.
Reuse(q) ==
    \E i \in 1 .. Len(Pool(q)) :
      LET c == Last(Pool(q))
      IN  /\ Pooling(q, SubSeq(Pool(q), i, Len(Pool(q)) - 1))
          /\ connection' = [Without(ToSet(SubSeq(Pool(q), 1, i - 1))) EXCEPT
                              ![c].owed = Append(@, q)]
          /\ Sends(q, c, TRUE)

OpenNew(q, dropped) ==
    \E c \in Connection :
      /\ connection[c] = Free
      /\ connection' = [Without(dropped) EXCEPT
           ![c] = [upstream |-> Target(q), owed |-> <<q>>, answers |-> <<>>, open |-> TRUE]]
      /\ Sends(q, c, FALSE)

Connect(q) == Pooling(q, <<>>) /\ OpenNew(q, ToSet(Pool(q)))

\* Also: the upstream's name cannot be resolved.
ConnectFails(q) == Pool(q) = <<>> /\ ExchangeFails(q)

BeginExchange ==
    \E q \in Query :
      /\ Serving(query, q) /\ query[q].connection = Unset
      /\ Reuse(q) \/ Connect(q) \/ ConnectFails(q)

\* Put back when its answer has been read.  Put back when the query was sent, it would
\* carry an answer that nobody waits for.
Recycled(q, c) ==
    IF Target(q) \notin Datagram /\ Len(Pool(q)) < MaxIdle
    THEN Append(Pool(q), c) ELSE Pool(q)

\* The next answer on the connection is taken: two queries may have one identifier.
Read ==
    \E q \in Query :
      /\ Serving(query, q) /\ query[q].connection # Unset
      /\ LET c == query[q].connection
             answer == Head(connection[c].answers)
             pool == Recycled(q, c)
         IN  /\ connection[c].answers # <<>>
             /\ Leave(current, [state EXCEPT ![query[q].state].pool[Target(q)] = pool],
                      [query EXCEPT ![q] = Succeeded(q, answer)],
                      IF c \in ToSet(pool)
                      THEN [connection EXCEPT ![c].answers = Tail(@)] ELSE Without({c}))
             /\ heard' = heard \cup {q}
      /\ UNCHANGED asked

\* A pooled connection that was closed meanwhile is replaced by a new one, once.
Broken ==
    \E q \in Query :
      /\ Serving(query, q) /\ query[q].connection # Unset
      /\ LET c == query[q].connection
         IN  /\ ~connection[c].open /\ connection[c].answers = <<>>
             /\ IF query[q].pooled THEN OpenNew(q, {c}) /\ UNCHANGED state
                ELSE ExchangeFails(q)

TimesOut ==
    \E q \in Query :
      Serving(query, q) /\ query[q].connection # Unset /\ ExchangeFails(q)

(***************************************************************************)
(* The servers.                                                            *)
(***************************************************************************)
Answer ==
    /\ \E c \in Connection, kind \in {"domestic", "foreign"} :
         /\ connection[c] # Free /\ connection[c].open /\ connection[c].owed # <<>>
         /\ connection' = [connection EXCEPT
              ![c].owed = Tail(@),
              ![c].answers = Append(@, [about |-> Head(connection[c].owed), kind |-> kind])]
    /\ UNCHANGED <<current, state, query, asked, heard>>

Close ==
    /\ \E c \in Connection :
         /\ connection[c] # Free /\ connection[c].open
         /\ connection' = [connection EXCEPT ![c].open = FALSE]
    /\ UNCHANGED <<current, state, query, asked, heard>>

------------------------------------------------------------------------------
ResolverNext ==
    \/ StartFrontend \/ Update \/ StopFrontend \/ Receive
    \/ BeginExchange \/ Read \/ Broken \/ TimesOut
    \/ Answer \/ Close

ResolverSpec == ResolverInit /\ [][ResolverNext]_resolverVars

(***************************************************************************)
(* Properties.                                                             *)
(***************************************************************************)
\* No client gets the answer to another one's question, however connections are pooled,
\* time out and are closed (recycle).
OwnAnswers == \A q \in Query : query[q].pc = "answered" => query[q].about = q

\* A name is asked of no upstream but those the configuration it came in under allows,
\* whatever is updated meanwhile.
Allowed(config, q) ==
    IF config.rule[q] \in {"rewrite", "reject"} THEN {}
    ELSE IF config.rule[q] # "none" THEN ToSet(Named(config, config.rule[q]))
    ELSE IF config.responseFirst THEN ToSet(Locals(config)) \cup {Remote}
    ELSE {Remote}
AskedAllowed ==
    \A q \in Query :
      query[q].pc # "idle" =>
        asked[q] \subseteq Allowed(state[query[q].state].config, q)

\* A pooled connection is in one pool, and neither used nor owed an answer.
Live(s) == s = current \/ \E q \in Query : Serving(query, q) /\ query[q].state = s
PoolsQuiet ==
    \A s \in DOMAIN state : \A u \in DOMAIN state[s].pool :
      \A i \in 1 .. Len(state[s].pool[u]) :
        LET c == state[s].pool[u][i] IN
          /\ Live(s) /\ connection[c] # Free /\ connection[c].upstream = u
          /\ connection[c].answers = <<>> /\ connection[c].owed = <<>>
          /\ \A q \in Query : Serving(query, q) => query[q].connection # c
          /\ \A j \in 1 .. Len(state[s].pool[u]) : i # j => state[s].pool[u][j] # c

\* A query fails only if every upstream it was sent to has: an answer of the local one,
\* even a foreign one, is better than none.
FailsUnanswered == \A q \in Query : query[q].pc = "failed" => q \notin heard

\* A query gets its own answer, of an upstream it may be asked of, whenever there is one.
QueriesAnswered == OwnAnswers /\ AskedAllowed /\ PoolsQuiet /\ FailsUnanswered

===============================================================================
