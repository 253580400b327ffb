----------------------------- MODULE Endpoints -----------------------------
(***************************************************************************)
(* Which method an endpoint id stands for.  No id is ever sent: the server *)
(* lines up its services' dispatch tables when it is compiled, the client  *)
(* adds up the endpoint counts of the hello (client.cc), a generated stub  *)
(* adds a method's rank among its own service's ids, and the command line  *)
(* client repeats the sums over the discovery response (call.cc).  A wrong *)
(* sum does not fail: it calls another method.                             *)
(*                                                                         *)
(* A build is one version of a service as it was compiled into a program:  *)
(* [uuid, name, major, minor, methods], its methods, [name, id, streaming],*)
(* in the order of the .proto file.  One thread uses the stubs here;       *)
(* ClientSession and Server have the concurrency.                          *)
(***************************************************************************)
EXTENDS Integers, Sequences, FiniteSets

CONSTANTS
    Builds,           \* the versions of services there are
    NoUuid,           \* a uuid option that UuidStringToBytes cannot parse
    Discovery,        \* the build of the discovery service
    ServerLists,      \* the sequences of builds a server may be made of
    StubLists,        \* the sequences of builds a client may have stubs for
    Versions,         \* the protocol versions of servers
    ProtocolVersion   \* the client's

Methods == UNION {{b.methods[p] : p \in DOMAIN b.methods} : b \in Builds}

ASSUME BuildsAssumption ==
    /\ Discovery \in Builds
    /\ \A b \in Builds : /\ b.major \in Nat /\ b.minor \in Nat
                         /\ b.methods \in Seq(Methods)
    /\ \A m \in Methods : m.id \in Nat
    /\ ServerLists \subseteq Seq(Builds)
    /\ StubLists \subseteq Seq(Builds)

None == [service |-> "none"]

\* EchoService and EchoMethod: what the generator refuses to compile.
Accepted(b) ==
    /\ b.uuid # NoUuid
    /\ \A p \in DOMAIN b.methods : b.methods[p].id # 0
    /\ \A p, q \in DOMAIN b.methods : p # q => b.methods[p].id # b.methods[q].id

VARIABLES
    services,  \* Server::service_descriptions: builds, the discovery first
    table,     \* Server::dispatch_table, as far as it has been concatenated
    starts,    \* history: the length of table before each service
    version,   \* the server's protocol version
    phase,     \* "compile", "hello", "running" or "failed"
    stubs,     \* the builds of the stubs passed to connect()
    read,      \* read_services_def: service definitions read
    offset,    \*   and its offset
    bound,     \* stubs[s]->rpc_offset, 0 while stubs[s]->client is null
    boundTo,   \* history: the service that bound it
    scan,      \* the loop of the command line client over the services
    request,   \* the request on its way, or None
    reached,   \* the last request and the method that got it, or None
    subscribed,\* the subscriptions of the server, with the id each keeps
    callbacks, \* Client::event_callbacks
    delivered  \* the last event and the callback that got it, or None

compileVars == <<services, version, stubs>>
tableVars == <<table, starts>>
helloVars == <<read, offset, bound, boundTo>>
callVars == <<scan, request, reached>>
eventVars == <<subscribed, callbacks, delivered>>
vars == <<compileVars, tableVars, phase, helloVars, callVars, eventVars>>

-----------------------------------------------------------------------------
(***************************************************************************)
(* The order of a service's methods: the generator sorts them by id.       *)
(***************************************************************************)

Before(b, q, p) ==
    \/ b.methods[q].id < b.methods[p].id
    \/ b.methods[q].id = b.methods[p].id /\ q < p
Rank(b, p) == 1 + Cardinality({q \in DOMAIN b.methods : Before(b, q, p)})

\* The positions of the methods, sorted.
Dispatch(b) ==
    [k \in 1..Len(b.methods) |-> CHOOSE p \in DOMAIN b.methods : Rank(b, p) = k]

Method(b, k) == b.methods[Dispatch(b)[k]]

\* The first position with this property in a sequence that has one.
FirstIn(positions) == CHOOSE p \in positions : \A q \in positions : p <= q

\* Mutant: the client counts from 0.
FirstEndpointZero == 0

\* The offset of the first service.
FirstEndpoint == 1

Init ==
    /\ services \in {<<Discovery>> \o list : list \in ServerLists}
    /\ stubs \in StubLists
    /\ \A i \in DOMAIN services : Accepted(services[i])
    /\ \A s \in DOMAIN stubs : Accepted(stubs[s])
    /\ version \in Versions
    /\ table = <<>> /\ starts = <<>>
    /\ phase = "compile"
    /\ read = 0 /\ offset = FirstEndpoint
    /\ bound = [s \in DOMAIN stubs |-> 0]
    /\ boundTo = [s \in DOMAIN stubs |-> 0]
    /\ scan = None /\ request = None /\ reached = None
    /\ subscribed = {}
    /\ callbacks = <<>>
    /\ delivered = None

-----------------------------------------------------------------------------
(***************************************************************************)
(* The server's table and the client's offsets.                            *)
(***************************************************************************)

\* Mutant: the tables are put in front of one another.
AppendServiceInFront ==
    /\ phase = "compile" /\ Len(starts) < Len(services)
    /\ LET i == Len(starts) + 1
       IN  table' = [k \in 1..Len(services[i].methods) |->
                        [service |-> i, at |-> Dispatch(services[i])[k]]] \o table
    /\ starts' = Append(starts, Len(table))
    /\ UNCHANGED <<compileVars, phase, helloVars, callVars, eventVars>>

\* concatenate_arrays: the dispatch tables, one service after the other.
AppendService ==
    /\ phase = "compile" /\ Len(starts) < Len(services)
    /\ LET i == Len(starts) + 1
       IN  table' = table \o [k \in 1..Len(services[i].methods) |->
                                 [service |-> i, at |-> Dispatch(services[i])[k]]]
    /\ starts' = Append(starts, Len(table))
    /\ UNCHANGED <<compileVars, phase, helloVars, callVars, eventVars>>

\* The server's hello starts with its protocol version.
ReadVersion ==
    /\ phase = "compile" /\ Len(starts) = Len(services)
    /\ phase' = IF version = ProtocolVersion THEN "hello" ELSE "failed"
    /\ UNCHANGED <<compileVars, tableVars, helloVars, callVars, eventVars>>

\* handle_service_def: the first stub of the service's uuid is the one.
Matching(def) == {s \in DOMAIN stubs : stubs[s].uuid = def.uuid}
\* handle_service_def: the versions go together.
Usable(stub, def) == stub.major = def.major /\ stub.minor <= def.minor

\* Mutant: the endpoints of a service nobody has a stub for do not count.
ReadServiceDefSkips ==
    /\ phase = "hello" /\ read < Len(services)
    /\ read' = read + 1
    /\ LET def == services[read + 1]
           s == FirstIn(Matching(def))
       IN  \/ /\ Matching(def) = {}
              /\ UNCHANGED <<phase, offset, bound, boundTo>>
           \/ /\ Matching(def) # {} /\ ~Usable(stubs[s], def)
              /\ phase' = "failed"
              /\ UNCHANGED <<offset, bound, boundTo>>
           \/ /\ Matching(def) # {} /\ Usable(stubs[s], def)
              /\ bound' = [bound EXCEPT ![s] = offset]
              /\ boundTo' = [boundTo EXCEPT ![s] = read + 1]
              /\ offset' = offset + Len(def.methods)
              /\ UNCHANGED phase
    /\ UNCHANGED <<compileVars, tableVars, callVars, eventVars>>

\* One service of the hello.
ReadServiceDef ==
    /\ phase = "hello" /\ read < Len(services)
    /\ read' = read + 1
    /\ LET def == services[read + 1]
           s == FirstIn(Matching(def))
       IN  \/ /\ Matching(def) = {}
              /\ offset' = offset + Len(def.methods)
              /\ UNCHANGED <<phase, bound, boundTo>>
           \/ /\ Matching(def) # {} /\ ~Usable(stubs[s], def)
              /\ phase' = "failed"
              /\ UNCHANGED <<offset, bound, boundTo>>
           \/ /\ Matching(def) # {} /\ Usable(stubs[s], def)
              /\ bound' = [bound EXCEPT ![s] = offset]
              /\ boundTo' = [boundTo EXCEPT ![s] = read + 1]
              /\ offset' = offset + Len(def.methods)
              /\ UNCHANGED phase
    /\ UNCHANGED <<compileVars, tableVars, callVars, eventVars>>

EndHello ==
    /\ phase = "hello" /\ read = Len(services)
    /\ phase' = "running"
    /\ UNCHANGED <<compileVars, tableVars, helloVars, callVars, eventVars>>

-----------------------------------------------------------------------------
(***************************************************************************)
(* Requests.                                                               *)
(***************************************************************************)

Idle == phase = "running" /\ request = None /\ scan = None

\* A stub's method k, in the order of ids, which the stub counts from 0.
StubRequest(s, k, kind) ==
    [service |-> stubs[s].uuid, by |-> "stub", kind |-> kind, stub |-> s, k |-> k,
     endpoint |-> bound[s] + k - 1]

\* A method of a connected stub, its subscribe_ or its unsubscribe_ method.
StubCall(s, k) ==
    /\ Idle /\ bound[s] # 0
    /\ ~Method(stubs[s], k).streaming
    /\ request' = StubRequest(s, k, "call")
    /\ UNCHANGED <<compileVars, tableVars, phase, helloVars, scan, reached, eventVars>>

\* Mutant: the callback is kept under the server's number of the endpoint.
StubSubscribeZeroBased(s, k) ==
    /\ Idle /\ bound[s] # 0
    /\ Method(stubs[s], k).streaming
    /\ request' = StubRequest(s, k, "subscribe")
    /\ LET id == request'.endpoint - 1
       IN  callbacks' = [e \in DOMAIN callbacks \cup {id} |->
                            IF e = id THEN <<s, k>> ELSE callbacks[e]]
    /\ UNCHANGED <<compileVars, tableVars, phase, helloVars, scan, reached,
                   subscribed, delivered>>

StubSubscribe(s, k) ==
    /\ Idle /\ bound[s] # 0
    /\ Method(stubs[s], k).streaming
    /\ request' = StubRequest(s, k, "subscribe")
    /\ LET id == request'.endpoint
       IN  callbacks' = [e \in DOMAIN callbacks \cup {id} |->
                            IF e = id THEN <<s, k>> ELSE callbacks[e]]
    /\ UNCHANGED <<compileVars, tableVars, phase, helloVars, scan, reached,
                   subscribed, delivered>>

StubUnsubscribe(s, k) ==
    /\ Idle /\ bound[s] # 0
    /\ Method(stubs[s], k).streaming
    /\ bound[s] + k - 1 \in DOMAIN callbacks
    /\ request' = StubRequest(s, k, "unsubscribe")
    /\ UNCHANGED <<compileVars, tableVars, phase, helloVars, scan, reached, eventVars>>

\* call(): a service and a method by name, looked up in the discovery's
\* answer, where methods are in the order of the .proto file.
CliCall(service, method) ==
    /\ Idle
    /\ scan' = [service |-> service, method |-> method, at |-> 1, endpoint |-> 1]
    /\ UNCHANGED <<compileVars, tableVars, phase, helloVars, request, reached, eventVars>>

CliSkip ==
    /\ scan # None /\ scan.at <= Len(services)
    /\ services[scan.at].name # scan.service
    /\ scan' = [scan EXCEPT !.at = @ + 1,
                            !.endpoint = @ + Len(services[scan.at].methods)]
    /\ UNCHANGED <<compileVars, tableVars, phase, helloVars, request, reached, eventVars>>

\* Mutant: the methods are counted in the order of the .proto file.
CliRankDeclared(b, p) == p - 1

\* The methods whose ids are smaller.
CliRank(b, p) == Cardinality({q \in DOMAIN b.methods : b.methods[q].id < b.methods[p].id})

\* The first service of that name: its method is called, unless it streams.
CliMatch ==
    /\ scan # None /\ scan.at <= Len(services)
    /\ services[scan.at].name = scan.service
    /\ LET b == services[scan.at]
           named == {p \in DOMAIN b.methods : b.methods[p].name = scan.method}
           p == FirstIn(named)
       IN  request' = IF named # {} /\ ~b.methods[p].streaming
                      THEN [service |-> scan.service, by |-> "cli", kind |-> "call",
                            method |-> scan.method,
                            endpoint |-> scan.endpoint + CliRank(b, p)]
                      ELSE None
    /\ scan' = None
    /\ UNCHANGED <<compileVars, tableVars, phase, helloVars, reached, eventVars>>

\* No service of that name.
CliGiveUp ==
    /\ scan # None /\ scan.at > Len(services)
    /\ scan' = None
    /\ UNCHANGED <<compileVars, tableVars, phase, helloVars, request, reached, eventVars>>

\* accept() and handle_request: an endpoint beyond the table is Unknown,
\* which ends the client's session.
Dispatched(endpoint) ==
    IF endpoint - 1 >= Len(table) THEN None ELSE table[endpoint]

\* The method gets the request; a subscription keeps the id it came with,
\* and the stub drops its callback once the end of one is acknowledged.
HandleRequest ==
    /\ phase = "running" /\ request # None
    /\ request' = None
    /\ reached' = [service |-> "reached", request |-> request,
                   entry |-> Dispatched(request.endpoint)]
    /\ phase' = IF reached'.entry = None THEN "failed" ELSE phase
    /\ subscribed' =
         CASE request.kind = "subscribe" ->
                subscribed \cup {[entry |-> reached'.entry, id |-> request.endpoint - 1]}
           [] request.kind = "unsubscribe" ->
                {x \in subscribed : x.entry # reached'.entry}
           [] OTHER -> subscribed
    /\ callbacks' = IF request.kind = "unsubscribe"
                    THEN [e \in DOMAIN callbacks \ {request.endpoint} |-> callbacks[e]]
                    ELSE callbacks
    /\ UNCHANGED <<compileVars, tableVars, helloVars, scan, delivered>>

\* send_event and handle_event: the id goes out one-based again.
SendEvent(x) ==
    /\ phase = "running" /\ request = None
    /\ x \in subscribed
    /\ delivered' = [service |-> "delivered", entry |-> x.entry,
                     to |-> IF x.id + 1 \in DOMAIN callbacks
                            THEN callbacks[x.id + 1] ELSE <<>>]
    /\ UNCHANGED <<compileVars, tableVars, phase, helloVars, callVars,
                   subscribed, callbacks>>

Hello == AppendService \/ ReadVersion \/ ReadServiceDef \/ EndHello
StubStep ==
    \E s \in DOMAIN stubs : \E k \in 1..Len(stubs[s].methods) :
        StubCall(s, k) \/ StubSubscribe(s, k) \/ StubUnsubscribe(s, k)
CliStep ==
    \/ \E b \in Builds : \E m \in Methods : CliCall(b.name, m.name)
    \/ CliSkip
    \/ CliMatch
    \/ CliGiveUp
Next ==
    \/ Hello
    \/ StubStep
    \/ CliStep
    \/ HandleRequest
    \/ \E x \in subscribed : SendEvent(x)
Spec == Init /\ [][Next]_vars

-----------------------------------------------------------------------------
(***************************************************************************)
(* Properties.                                                             *)
(***************************************************************************)

\* The types of the tables and offsets (server.cc:81-94, client.cc:602-650).
\* A connected stub's offset is not 0, which is the client's goodbye.
TypeOK ==
    /\ services \in Seq(Builds) /\ stubs \in Seq(Builds)
    /\ starts \in Seq(Nat) /\ Len(starts) <= Len(services)
    /\ read \in 0..Len(services)
    /\ offset \in Nat \ {0}
    /\ phase \in {"compile", "hello", "running", "failed"}
    /\ bound \in [DOMAIN stubs -> Nat]
    /\ boundTo \in [DOMAIN stubs -> 0..Len(services)]

\* A stub's offset is where the server's table has its service
\* (client.cc:607-625, 681-682 and server.cc:81-94, made by two programs that
\* never exchange it), whichever services come before, between and after,
\* with a stub or without; and the service is one it can be used with.
OffsetsAgree ==
    \A s \in DOMAIN stubs : bound[s] # 0 =>
        LET i == boundTo[s]
            b == services[i]
        IN  /\ b.uuid = stubs[s].uuid /\ b.major = stubs[s].major
            /\ stubs[s].minor <= b.minor
            /\ \A k \in 1..Len(b.methods) :
                 table[bound[s] + k - 1] = [service |-> i, at |-> Dispatch(b)[k]]

\* What the versions of a service must keep for that to be of use, which
\* nothing checks: a newer minor version has every method of an older one at
\* the same rank, so its new methods have the greatest ids.
Evolution ==
    \A old, new \in Builds :
        old.uuid = new.uuid /\ Usable(old, new) =>
            /\ Len(old.methods) <= Len(new.methods)
            /\ \A k \in 1..Len(old.methods) :
                 /\ Method(old, k).id = Method(new, k).id
                 /\ Method(old, k).streaming = Method(new, k).streaming

\* A method called through a stub is the one that runs (plugin 2311-2333,
\* 2964-3001; server.cc:181-189): of the stub's service, and with the id the
\* method has in the stub's .proto file, however old that file is.
StubReachesItsMethod ==
    reached # None /\ reached.request.by = "stub" =>
        /\ reached.entry # None
        /\ LET b == services[reached.entry.service]
               stub == stubs[reached.request.stub]
           IN  /\ b.uuid = stub.uuid
               /\ b.methods[reached.entry.at].id = Method(stub, reached.request.k).id

\* A method called by its name is the one that runs (call.cc:452-486):
\* whatever the ids, and in whatever order the .proto file declares them.
CliReachesNamedMethod ==
    reached # None /\ reached.request.by = "cli" =>
        /\ reached.entry # None
        /\ LET b == services[reached.entry.service]
           IN  /\ b.name = reached.request.service
               /\ b.methods[reached.entry.at].name = reached.request.method

\* An event goes to the callback that subscribed to it (plugin 2573, 2606,
\* 3018-3053; client.cc:213-227): the id the client registers, the one-based
\* endpoint it sends, the zero-based id the server keeps and the one-based id
\* of the event are four numbers of one method.
EventsReachSubscriber ==
    delivered # None =>
        /\ delivered.to # <<>>
        /\ LET b == services[delivered.entry.service]
               stub == stubs[delivered.to[1]]
           IN  /\ b.uuid = stub.uuid
               /\ b.methods[delivered.entry.at].id = Method(stub, delivered.to[2]).id
=============================================================================
