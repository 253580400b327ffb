-------------------------------- MODULE Server --------------------------------
(***************************************************************************)
(* serialrpc::ServerBase (server.cc, server_impl.cc) and the server half   *)
(* of a generated service with event streams                               *)
(* (protoc_serialrpc_plugin.cc:2522-2712).  One thread accepts sessions,   *)
(* one after the other, over the same serial::Conn; one thread per event   *)
(* stream emits events through the callback the service got when it was    *)
(* subscribed; another thread may call send_goodbye.                       *)
(*                                                                         *)
(* A message is written whole under conn.write_mtx, so it is one step.     *)
(* The service is the user's.  The library has no lock for event_conn and  *)
(* the callbacks, so what an emitter may meet depends on the service: it   *)
(* holds a mutex of its own, svcMtx, over its subscriptions and emissions, *)
(* or, as the services of the tests and of README.md:219-237 do, it holds  *)
(* none (fault "unlocked").  The client is external: any                   *)
(* request may come next; known is the set of events for which a generated *)
(* stub has a callback registered when it reads what the server writes     *)
(* next (plugin.cc:3018-3053): registered before the subscription is sent, *)
(* removed after its teardown is acknowledged.                             *)
(***************************************************************************)
EXTENDS Naturals, FiniteSets

CONSTANTS
    Events,       \* the streaming methods of the service
    Acceptor,     \* the thread in serve()
    Firmware,     \* the thread that calls send_goodbye
    Nobody,       \* the owner of a free mutex; no event
    FaultSets,    \* the sets of faults to consider: one holds in a behaviour
    MaxSessions,  \* bound: sessions accepted
    MaxRequests,  \* bound: requests of one session
    MaxEmits,     \* bound: events emitted
    MaxGoodbyes   \* bound: calls of send_goodbye

FaultKinds ==
    {"read",          \* a read fails, or a request cannot be decoded
     "write",         \* a reply cannot be written
     "writeGoodbye",  \* the answer to the client's goodbye cannot be written
     "handler",       \* the service reports an error
     "reportTwice",   \* the service reports two errors for one request
     "unlocked"}      \* the service has no mutex for its callbacks

ASSUME FaultsAssumption == FaultSets \subseteq SUBSET FaultKinds
ASSUME ThreadsAssumption ==
    /\ Acceptor # Firmware
    /\ {Acceptor, Firmware, Nobody} \cap Events = {}
    /\ Nobody \notin {Acceptor, Firmware}
ASSUME BoundsAssumption == {MaxSessions, MaxRequests, MaxEmits, MaxGoodbyes} \subseteq Nat

VARIABLES
    acc,         \* where the accepting thread is
    event,       \* the event its request is about
    eventConn,   \* XBase::event_conn # nullptr
    callback,    \* events whose callback the service holds
    svcMtx,      \* the owner of the service's mutex, if it has one
    emit,        \* emit[e]: where the thread that emits e is
    bye,         \* where the thread in send_goodbye is
    todo,        \* todo[t]: events thread t has still to unsubscribe
    known,       \* external: events the client has a callback for
    asked,       \* requests of this session
    answered,    \* replies of this session
    faults,      \* what may fail this time: see FaultKinds
    counts       \* sessions, emits, goodbyes (only to bound the model)

sessionVars == <<asked, answered, faults, counts>>
serviceVars == <<eventConn, callback, svcMtx>>
vars == <<acc, event, serviceVars, emit, bye, todo, known, sessionVars>>

Init ==
    /\ acc = "listen"
    /\ event = Nobody
    /\ eventConn = FALSE
    /\ callback = {}
    /\ svcMtx = Nobody
    /\ emit = [e \in Events |-> "idle"]
    /\ bye = "idle"
    /\ todo = [t \in {Acceptor, Firmware} |-> {}]
    /\ known = {}
    /\ asked = 0
    /\ answered = 0
    /\ faults \in FaultSets
    /\ counts = [sessions |-> 0, emits |-> 0, goodbyes |-> 0]

----------------------------------------------------------------------------
\* The accepting thread

\* serve(): the next connection, a new client behind it.
Listen ==
    /\ acc = "listen"
    /\ counts.sessions < MaxSessions
    /\ acc' = "hello"
    /\ counts' = [counts EXCEPT !.sessions = @ + 1]
    /\ asked' = 0
    /\ answered' = 0
    /\ known' = {}
    /\ UNCHANGED <<event, serviceVars, emit, bye, todo, faults>>

\* accept(): the ClientHello is answered by server_hello.
Hello ==
    /\ acc = "hello"
    /\ acc' = "read"
    /\ UNCHANGED <<event, serviceVars, emit, bye, todo, known, sessionVars>>

\* The hello cannot be read or answered, or it is another byte: accept() returns.
NoHello ==
    /\ acc = "hello"
    /\ acc' = "listen"
    /\ UNCHANGED <<event, serviceVars, emit, bye, todo, known, sessionVars>>

\* Mutant: a session that ends on an error does not unsubscribe.
StopNoAccept ==
    /\ acc' = "listen"
    /\ UNCHANGED todo

\* stop_accept and return.
StopAccept ==
    /\ acc' = "unsubAll"
    /\ todo' = [todo EXCEPT ![Acceptor] = Events]

\* A read or the decoding of a request fails, before or after the request counts.
ReadFails ==
    /\ acc = "read"
    /\ "read" \in faults
    /\ StopAccept
    /\ UNCHANGED <<event, serviceVars, emit, bye, known, sessionVars>>

\* Mutant: the dispatcher does not note which event the request is about.
RequestNoEvent ==
    /\ acc = "read"
    /\ asked < MaxRequests
    /\ asked' = asked + 1
    /\ acc' \in {"call", "unknown", "subscribe", "unsubscribe"}
    /\ UNCHANGED <<event, known, serviceVars, emit, bye, todo, answered, counts, faults>>

\* A request arrives: a call, a subscription to e or its end, an unknown endpoint.
Request ==
    /\ acc = "read"
    /\ asked < MaxRequests
    /\ asked' = asked + 1
    /\ \/ acc' \in {"call", "unknown"} /\ UNCHANGED <<event, known>>
       \/ \E e \in Events :
            /\ event' = e
            /\ \/ acc' = "subscribe" /\ known' = known \cup {e}
               \/ acc' = "unsubscribe" /\ UNCHANGED known
    /\ UNCHANGED <<serviceVars, emit, bye, todo, answered, counts, faults>>

\* Request id 0.
RequestBye ==
    /\ acc = "read"
    /\ acc' = "goodbye"
    /\ UNCHANGED <<event, serviceVars, emit, bye, todo, known, sessionVars>>

\* The subscription: event_conn and the event id are set before the service hears
\* of it.
SetEventConn ==
    /\ acc = "subscribe"
    /\ eventConn' = TRUE
    /\ acc' = "subscribing"
    /\ UNCHANGED <<event, callback, svcMtx, emit, bye, todo, known, sessionVars>>

\* The service keeps the callback.
Subscribe ==
    /\ acc = "subscribing"
    /\ svcMtx = Nobody
    /\ callback' = callback \cup {event}
    /\ acc' = "reply"
    /\ UNCHANGED <<event, eventConn, svcMtx, emit, bye, todo, known, sessionVars>>

\* Mutant: the teardown is acknowledged before the service has heard of it.
UnsubscribeLate ==
    /\ acc = "unsubscribe"
    /\ acc' = "reply"
    /\ known' = known \ {event}
    /\ UNCHANGED <<event, serviceVars, emit, bye, todo, sessionVars>>

\* The service drops the callback.
Unsubscribe ==
    /\ acc = "unsubscribe"
    /\ svcMtx = Nobody
    /\ callback' = callback \ {event}
    /\ acc' = "unsubReply"
    /\ UNCHANGED <<event, eventConn, svcMtx, emit, bye, todo, known, sessionVars>>

Answer == answered' = answered + 1

\* The reply to a call, to a subscription, to the end of one; Unknown.
Reply ==
    /\ acc \in {"call", "reply", "unsubReply", "unknown"}
    /\ Answer
    /\ known' = IF acc = "unsubReply" THEN known \ {event} ELSE known
    /\ acc' = "read"
    /\ UNCHANGED <<event, serviceVars, emit, bye, todo, asked, counts, faults>>

ReplyFails ==
    /\ \/ acc \in {"call", "reply", "unsubReply", "unknown"}
       \/ acc \in {"subscribing", "unsubscribe"} /\ "handler" \in faults
    /\ "write" \in faults
    /\ StopAccept
    /\ UNCHANGED <<event, serviceVars, emit, bye, known, sessionVars>>

\* Mutant: the error of the handler does not end the request.
ReportAndGoOn ==
    /\ acc \in {"call", "subscribing", "unsubscribe"}
    /\ "handler" \in faults
    /\ Answer
    /\ acc' = IF acc = "call" THEN "call" ELSE "reply"
    /\ UNCHANGED <<event, serviceVars, emit, bye, todo, known, asked, counts, faults>>

\* The service reports an error: ServerErrorHandler answers, the dispatcher is
\* done with the request.
Report ==
    /\ acc \in {"call", "subscribing", "unsubscribe"}
    /\ "handler" \in faults
    /\ Answer
    /\ acc' = "read"
    /\ UNCHANGED <<event, serviceVars, emit, bye, todo, known, asked, counts, faults>>

\* ServerErrorHandler::handle answers each error it is told of.
ReportTwice ==
    /\ acc \in {"call", "subscribing", "unsubscribe"}
    /\ "reportTwice" \in faults
    /\ answered' = answered + 2
    /\ acc' = "read"
    /\ UNCHANGED <<event, serviceVars, emit, bye, todo, known, asked, counts, faults>>

\* handle_goodbye: answer, then unsubscribe; a failed write returns at once.
Goodbye ==
    /\ acc = "goodbye"
    /\ \/ StopAccept
       \/ "writeGoodbye" \in faults /\ acc' = "listen" /\ UNCHANGED todo
    /\ UNCHANGED <<event, serviceVars, emit, bye, known, sessionVars>>

----------------------------------------------------------------------------
\* unsubscribe_all, called by stop_accept and by send_goodbye

\* Mutant: the service keeps its callback.
DropNone(t) ==
    /\ \E e \in todo[t] : todo' = [todo EXCEPT ![t] = @ \ {e}]
    /\ UNCHANGED callback

\* Mutant: the loop over the events does not advance.
DropForever(t) ==
    /\ svcMtx = Nobody
    /\ \E e \in todo[t] : callback' = callback \ {e}
    /\ UNCHANGED todo

\* unsubscribe_e(error::ignore).
DropOne(t) ==
    /\ svcMtx = Nobody
    /\ \E e \in todo[t] :
         /\ callback' = callback \ {e}
         /\ todo' = [todo EXCEPT ![t] = @ \ {e}]

StopOne ==
    /\ acc = "unsubAll"
    /\ DropOne(Acceptor)
    /\ UNCHANGED <<acc, event, eventConn, svcMtx, emit, bye, known, sessionVars>>

StopDone ==
    /\ acc = "unsubAll"
    /\ todo[Acceptor] = {}
    /\ eventConn' = FALSE
    /\ acc' = "listen"
    /\ UNCHANGED <<event, callback, svcMtx, emit, bye, todo, known, sessionVars>>

\* send_goodbye(), in a session or between two.
SendGoodbye ==
    /\ bye = "idle"
    /\ counts.goodbyes < MaxGoodbyes
    /\ counts' = [counts EXCEPT !.goodbyes = @ + 1]
    /\ todo' = [todo EXCEPT ![Firmware] = Events]
    /\ bye' = "unsubAll"
    /\ UNCHANGED <<acc, event, serviceVars, emit, known, asked, answered, faults>>

GoodbyeOne ==
    /\ bye = "unsubAll"
    /\ DropOne(Firmware)
    /\ UNCHANGED <<acc, event, eventConn, svcMtx, emit, bye, known, sessionVars>>

\* event_conn = nullptr; the ServerGoodbye that follows is an error to the client.
GoodbyeDone ==
    /\ bye = "unsubAll"
    /\ todo[Firmware] = {}
    /\ eventConn' = FALSE
    /\ bye' = "idle"
    /\ UNCHANGED <<acc, event, callback, svcMtx, emit, todo, known, sessionVars>>

----------------------------------------------------------------------------
\* A thread that emits event e

\* The service finds that it has a callback for e.
Emit(e) ==
    /\ emit[e] = "idle"
    /\ svcMtx = Nobody
    /\ e \in callback
    /\ counts.emits < MaxEmits
    /\ counts' = [counts EXCEPT !.emits = @ + 1]
    /\ svcMtx' = IF "unlocked" \in faults THEN Nobody ELSE e
    /\ emit' = [emit EXCEPT ![e] = "call"]
    /\ UNCHANGED <<acc, event, eventConn, callback, bye, todo, known, asked, answered, faults>>

\* It calls the callback; one that was dropped meanwhile ends the program.
Invoke(e) ==
    /\ emit[e] = "call"
    /\ emit' = [emit EXCEPT ![e] = IF e \in callback THEN "deref" ELSE "crashed"]
    /\ UNCHANGED <<acc, event, serviceVars, bye, todo, known, sessionVars>>

\* send_e(): *this->event_conn; a null one ends the program.
Deref(e) ==
    /\ emit[e] = "deref"
    /\ emit' = [emit EXCEPT ![e] = IF eventConn THEN "send" ELSE "crashed"]
    /\ UNCHANGED <<acc, event, serviceVars, bye, todo, known, sessionVars>>

\* send_event(): the event is written; an error in it is ignored.
SendEvent(e) ==
    /\ emit[e] = "send"
    /\ emit' = [emit EXCEPT ![e] = "idle"]
    /\ svcMtx' = Nobody
    /\ UNCHANGED <<acc, event, eventConn, callback, bye, todo, known, sessionVars>>

----------------------------------------------------------------------------
AcceptorStep ==
    Hello \/ SetEventConn \/ Subscribe \/ Unsubscribe \/ Reply \/ Goodbye
      \/ StopOne \/ StopDone

Next ==
    \/ Listen \/ NoHello \/ Request \/ RequestBye \/ AcceptorStep
    \/ ReadFails \/ ReplyFails \/ Report \/ ReportTwice
    \/ SendGoodbye \/ GoodbyeOne \/ GoodbyeDone
    \/ \E e \in Events : Emit(e) \/ Invoke(e) \/ Deref(e) \/ SendEvent(e)

Spec == Init /\ [][Next]_vars

\* Threads are scheduled, and a service that is in its mutex leaves it.
LiveSpec ==
    /\ Spec
    /\ WF_vars(AcceptorStep)
    /\ \A e \in Events : WF_vars(Invoke(e) \/ Deref(e) \/ SendEvent(e))

----------------------------------------------------------------------------
\* Properties

TypeOK ==
    /\ acc \in {"listen", "hello", "read", "call", "unknown", "subscribe", "subscribing",
                "unsubscribe", "reply", "unsubReply", "goodbye", "unsubAll"}
    /\ event \in Events \cup {Nobody}
    /\ acc \in {"subscribe", "subscribing", "unsubscribe", "unsubReply"} => event \in Events
    /\ eventConn \in BOOLEAN
    /\ callback \subseteq Events
    /\ svcMtx \in Events \cup {Nobody}
    /\ emit \in [Events -> {"idle", "call", "deref", "send", "crashed"}]
    /\ bye \in {"idle", "unsubAll"}
    /\ todo \in [{Acceptor, Firmware} -> SUBSET Events]
    /\ known \subseteq Events
    /\ asked \in 0..MaxRequests
    /\ answered \in Nat
    /\ faults \in FaultSets
    /\ counts \in [sessions : 0..MaxSessions, emits : 0..MaxEmits, goodbyes : 0..MaxGoodbyes]

\* A request has one answer, unless the service reports two errors for it, and
\* the next one is not read before (plugin.cc:2640-2660, server_impl.cc:240-257,
\* 352-372).
OneAnswerEach == "reportTwice" \notin faults =>
    /\ acc \in {"read", "goodbye"} => answered = asked
    /\ acc \in {"call", "unknown", "subscribe", "subscribing", "unsubscribe", "reply",
               "unsubReply"} => asked = answered + 1

\* handle_goodbye returns at once when its answer cannot be written, and leaves
\* what was subscribed; what follows holds of a server that does not meet that.
GoodbyesAnswered == "writeGoodbye" \notin faults

\* The service keeps its subscriptions and its emissions apart by a mutex.  The
\* library does not ask for it and its own tests have none; without it an event
\* may be written after its teardown was acknowledged, and an emitter may find
\* its callback dropped or event_conn null (plugin.cc:2601-2622, 2695-2705).
ServiceLocks == "unlocked" \notin faults

\* A client never reads an event for which it has no callback, which would end
\* its session (client.cc:217-222): not after the teardown of the subscription
\* was acknowledged, and not one of a client that is gone; if the service locks.
EventsAreKnown == GoodbyesAnswered /\ ServiceLocks =>
    \A e \in Events : emit[e] = "send" => e \in known

\* Between two sessions nothing is subscribed and no service holds on to the
\* connection (server_impl.cc:354-371, plugin.cc:2694-2701).
SessionEndsClean ==
    GoodbyesAnswered /\ acc \in {"listen", "hello"} => callback = {} /\ ~eventConn

\* A service with a callback has a connection to send to (plugin.cc:2553-2569,
\* 2609-2611, 2694-2701): if it locks, an emitter meets neither a dropped callback
\* nor a null connection, as long as nobody has called send_goodbye.
NeverSaidGoodbye == counts.goodbyes = 0
NoNullConn == NeverSaidGoodbye /\ ServiceLocks => \A e \in Events : emit[e] # "crashed"

\* The service's mutex is what keeps a callback from being dropped under an
\* emission, and stop_accept works off whatever is subscribed.
EmitterHoldsService == ServiceLocks =>
    \A e \in Events :
        emit[e] \in {"call", "deref", "send"} => svcMtx = e /\ e \in callback
StopDropsAll == acc = "unsubAll" => callback \subseteq todo[Acceptor]

\* The strengthening of EventsAreKnown and of the first half of SessionEndsClean:
\* what the service holds is known to the client, in every phase of a request
\* (plugin.cc:2544-2590, 2694-2701).
KnownInv ==
    /\ EmitterHoldsService
    /\ StopDropsAll
    /\ callback \subseteq known
    /\ acc \in {"listen", "hello"} => callback = {}
    /\ acc \in {"subscribe", "subscribing"} => event \in known
    /\ acc = "unsubReply" => event \notin callback
ServiceInv == GoodbyesAnswered => KnownInv

\* The strengthening of NoNullConn while nobody calls send_goodbye: event_conn is
\* set before a callback exists and cleared after the last is dropped.
EmittersFindConn ==
    /\ EmitterHoldsService
    /\ StopDropsAll
    /\ callback # {} => eventConn
    /\ acc = "subscribing" => eventConn
    /\ bye = "idle"
    /\ ServiceLocks => \A e \in Events : emit[e] # "crashed"
ConnInv == NeverSaidGoodbye => EmittersFindConn

\* Every request, the goodbye and the end of a session are dealt with: the
\* accepting thread gets back to its reads, unless an emitter has crashed the
\* program (server_impl.cc:333-392).
ServerGetsBack ==
    acc \notin {"listen", "read"} ~>
        acc \in {"listen", "read"} \/ \E e \in Events : emit[e] = "crashed"
==============================================================================
