------------------------------ MODULE RpcSystem ------------------------------
(***************************************************************************)
(* A running session of a client (client.cc, client.h, the generated stub  *)
(* of protoc_serialrpc_plugin.cc:2990-3090) and a server (server_impl.cc,  *)
(* the generated base of plugin.cc:2522-2712), joined by two byte streams  *)
(* of bounded capacity.  Threads of the client make calls, subscribe,      *)
(* unsubscribe and close; one thread reads what the server writes and runs *)
(* the event callbacks; the server's accepting thread answers requests in  *)
(* their order; one thread per event emits.                                *)
(*                                                                         *)
(* Each party is modelled in detail elsewhere, with the other one left     *)
(* free: ClientSession (start, failures, wakeups), Server (sessions one    *)
(* after the other, event_conn, send_goodbye).  This module leaves out     *)
(* what they settle and keeps what takes both, under three conditions: no  *)
(* write fails (a failed one lets the next call take another's reply, see  *)
(* ClientSession), a handler reports one error at most (ReportTwice of     *)
(* Server), and the service serialises its emitters with its subscribe and *)
(* unsubscribe methods (svcMtx; the library has no lock there).            *)
(*                                                                         *)
(* A request is checked, recorded and flushed in three steps under         *)
(* call_mtx; a message of the server is written under write_mtx, buffered  *)
(* and flushed at its end, so it is one step.  A flush waits for room.     *)
(***************************************************************************)
EXTENDS Integers, Sequences

CONSTANTS
    Users,        \* the client's threads
    Reader,       \* the client's reading thread
    Events,       \* the streaming methods of the service
    Nobody,       \* the owner of a free mutex; no event
    ToServer,     \* messages a stream holds before its writer waits: c2s
    ToClient,     \* and s2c
    TroubleSets,  \* what may happen in a behaviour: a member of it
    Does          \* Does[t][u]: the operations u uses in a behaviour of troubles t

TroubleKinds ==
    {"handler",      \* the service reports an error
     "decode",       \* the server cannot decode a request
     "callback",     \* an event callback makes a call
     "resubscribe",  \* a stub subscribes to what it is subscribed to
     "share"}        \* two threads of the client use one event at a time

Operations == {"call", "subscribe", "unsubscribe", "close"}

ASSUME CapacityAssumption == ToServer \in Nat \ {0} /\ ToClient \in Nat \ {0}
ASSUME TroubleAssumption == TroubleSets \subseteq SUBSET TroubleKinds
ASSUME DoesAssumption == Does \in [TroubleSets -> [Users -> SUBSET Operations]]
ASSUME NamesAssumption ==
    /\ Reader \notin Users
    /\ Nobody \notin Users \cup Events \cup {Reader}

Callers == Users \cup {Reader}

VARIABLES
    pc,          \* pc[u]: where a thread of the client is
    op,          \* op[u]: what it does there, and the event that is about
    stubCb,      \* events whose X_cb the stub has set
    registered,  \* events in event_callbacks
    callMtx,     \* the thread that holds call_mtx
    closed,      \* Client::state is Closed, otherwise Running
    pending,     \* the owners of the call records, oldest first
    reader,      \* where the reading thread is
    got,         \* the event it has read
    c2s, s2c,    \* messages on their way to the server, to the client
    acc,         \* where the accepting thread of the server is
    cur,         \* the request it deals with
    callback,    \* events whose callback the service holds
    svcMtx,      \* the event whose emitter holds the service's mutex
    todo,        \* events unsubscribe_all has still to go through
    trouble      \* see TroubleKinds

userVars == <<pc, op>>
stubVars == <<stubCb, registered>>
closeVars == <<callMtx, closed>>
readerVars == <<reader, got>>
serverVars == <<acc, cur, callback, svcMtx, todo>>
vars == <<userVars, stubVars, closeVars, pending, readerVars, c2s, s2c, serverVars, trouble>>

Requests ==
    [kind : {"call"}, event : {Nobody}, from : Callers]
      \cup [kind : {"subscribe", "unsubscribe"}, event : Events, from : Callers]
Answers == [kind : {"reply", "error"}, event : Events \cup {Nobody}, from : Callers]
EventMessages == [kind : {"event"}, event : Events, from : {Nobody}]
Goodbye == [kind |-> "goodbye", event |-> Nobody, from |-> Nobody]
NoRequest == [kind |-> "none", event |-> Nobody, from |-> Nobody]
Idle == [kind |-> "none", event |-> Nobody]

Init ==
    /\ pc = [u \in Users |-> "idle"]
    /\ op = [u \in Users |-> Idle]
    /\ stubCb = {} /\ registered = {}
    /\ callMtx = Nobody /\ closed = FALSE
    /\ pending = <<>>
    /\ reader = "read" /\ got = Nobody
    /\ c2s = <<>> /\ s2c = <<>>
    /\ acc = "read" /\ cur = NoRequest
    /\ callback = {} /\ svcMtx = Nobody /\ todo = {}
    /\ trouble \in TroubleSets

RoomToServer == Len(c2s) < ToServer
RoomToClient == Len(s2c) < ToClient

----------------------------------------------------------------------------
\* A thread of the client and the stub it uses

Goto(u, place) == pc' = [pc EXCEPT ![u] = place]
Return(u) ==
    /\ pc' = [pc EXCEPT ![u] = "idle"]
    /\ op' = [op EXCEPT ![u] = Idle]

\* What the user of a stub keeps to, unless there is trouble: one thread at a time
\* for an event.
MayUse(u, e) == "share" \in trouble \/ \A v \in Users \ {u} : op[v].event # e

Begin(u, kind, e, place) ==
    /\ pc[u] = "idle" /\ kind \in Does[trouble][u]
    /\ op' = [op EXCEPT ![u] = [kind |-> kind, event |-> e]]
    /\ Goto(u, place)
    /\ UNCHANGED <<stubVars, closeVars, pending, readerVars, c2s, s2c, serverVars, trouble>>

Call(u) == Begin(u, "call", Nobody, "send")

\* stub.subscribe_X(cb), of a stub that is not subscribed.
Subscribe(u, e) ==
    /\ MayUse(u, e)
    /\ e \notin stubCb \/ "resubscribe" \in trouble
    /\ Begin(u, "subscribe", e, "setCb")

\* Mutant: the stub unregisters its callback before it sends the teardown.
UnregisterFirst(u, e) ==
    /\ MayUse(u, e)
    /\ pc[u] = "idle" /\ "unsubscribe" \in Does[trouble][u]
    /\ op' = [op EXCEPT ![u] = [kind |-> "unsubscribe", event |-> e]]
    /\ registered' = registered \ {e}
    /\ Goto(u, "send")
    /\ UNCHANGED <<stubCb, closeVars, pending, readerVars, c2s, s2c, serverVars, trouble>>

Unsubscribe(u, e) == MayUse(u, e) /\ Begin(u, "unsubscribe", e, "send")

Close(u) == Begin(u, "close", Nobody, "close")

\* this->X_cb = cb, before the subscription.
SetCb(u) ==
    /\ pc[u] = "setCb"
    /\ stubCb' = stubCb \cup {op[u].event}
    /\ Goto(u, "register")
    /\ UNCHANGED <<op, registered, closeVars, pending, readerVars, c2s, s2c, serverVars, trouble>>

\* register_event_callback.
Register(u) ==
    /\ pc[u] = "register"
    /\ registered' = registered \cup {op[u].event}
    /\ Goto(u, "send")
    /\ UNCHANGED <<op, stubCb, closeVars, pending, readerVars, c2s, s2c, serverVars, trouble>>

Running == ~closed /\ reader # "failed"

\* Mutant: the record goes to the head of the list.
RecordFirst(caller) == pending' = <<caller>> \o pending

\* The record goes to the end of the list.
Record(caller) == pending' = Append(pending, caller)

\* check_running, under call_mtx, which the caller keeps until its request is out.
CheckRunning(u) ==
    /\ pc[u] = "send"
    /\ callMtx = Nobody
    /\ Running
    /\ callMtx' = u
    /\ Goto(u, "push")
    /\ UNCHANGED <<op, stubVars, closed, pending, readerVars, c2s, s2c, serverVars, trouble>>

\* The record, whatever has become of the session since.
Push(u) ==
    /\ pc[u] = "push"
    /\ Record(u)
    /\ Goto(u, "flush")
    /\ UNCHANGED <<op, stubVars, closeVars, readerVars, c2s, s2c, serverVars, trouble>>

\* The flush waits for room in the stream with call_mtx held.
SendRequest(caller, kind, e) ==
    /\ RoomToServer
    /\ c2s' = Append(c2s, [kind |-> kind, event |-> e, from |-> caller])
    /\ callMtx' = Nobody

Flush(u) ==
    /\ pc[u] = "flush"
    /\ SendRequest(u, op[u].kind, op[u].event)
    /\ Goto(u, "wait")
    /\ UNCHANGED <<op, stubVars, closed, pending, readerVars, s2c, serverVars, trouble>>

\* The session has failed since the record: wait() returns at once.
FlushDoomed(u) ==
    /\ pc[u] = "doomed"
    /\ SendRequest(u, op[u].kind, op[u].event)
    /\ Return(u)
    /\ UNCHANGED <<stubVars, closed, pending, readerVars, s2c, serverVars, trouble>>

\* fail_pending_calls: every record's owner returns with an error, one that is still
\* writing its request as soon as it has, and so does the thread u that finds the
\* session over.
FailAll(u) ==
    LET owners == {pending[i] : i \in DOMAIN pending}
        failed == {v \in Users : v = u \/ (v \in owners /\ pc[v] # "flush")}
    IN  /\ pc' = [v \in Users |-> IF v \in failed THEN "idle"
                                  ELSE IF v \in owners THEN "doomed" ELSE pc[v]]
        /\ op' = [v \in Users |-> IF v \in failed THEN Idle ELSE op[v]]
        /\ pending' = <<>>

\* The call finds the session closed or failed, and fail() drains the list: a record
\* that came after the reading thread's drain has its owner waiting until then.
SendRefused(u) ==
    /\ pc[u] = "send"
    /\ callMtx = Nobody
    /\ ~Running
    /\ FailAll(u)
    /\ UNCHANGED <<stubVars, closeVars, readerVars, c2s, s2c, serverVars, trouble>>

\* The teardown has been acknowledged: unregister_event_callback, then X_cb = nil.
Unregister(u) ==
    /\ pc[u] = "unregister"
    /\ registered' = registered \ {op[u].event}
    /\ Goto(u, "clearCb")
    /\ UNCHANGED <<op, stubCb, closeVars, pending, readerVars, c2s, s2c, serverVars, trouble>>

ClearCb(u) ==
    /\ pc[u] = "clearCb"
    /\ stubCb' = stubCb \ {op[u].event}
    /\ Return(u)
    /\ UNCHANGED <<registered, closeVars, pending, readerVars, c2s, s2c, serverVars, trouble>>

\* close() of a running session; of one that is over already.
CloseStart(u) ==
    /\ pc[u] = "close"
    /\ callMtx = Nobody
    /\ IF Running
       THEN callMtx' = u /\ closed' = TRUE /\ Goto(u, "sayBye") /\ UNCHANGED op
       ELSE closed' = TRUE /\ Return(u) /\ UNCHANGED callMtx
    /\ UNCHANGED <<stubVars, pending, readerVars, c2s, s2c, serverVars, trouble>>

\* The request id 0 goes out behind what is in flight.
SayBye(u) ==
    /\ pc[u] = "sayBye"
    /\ RoomToServer
    /\ c2s' = Append(c2s, Goodbye)
    /\ Goto(u, "join")
    /\ UNCHANGED <<op, stubVars, closeVars, pending, readerVars, s2c, serverVars, trouble>>

Join(u) ==
    /\ pc[u] = "join"
    /\ reader \in {"ended", "failed"}
    /\ callMtx' = Nobody
    /\ Return(u)
    /\ UNCHANGED <<stubVars, closed, pending, readerVars, c2s, s2c, serverVars, trouble>>

----------------------------------------------------------------------------
\* The client's reading thread

Arrives(kinds) ==
    /\ reader = "read"
    /\ s2c # <<>>
    /\ Head(s2c).kind \in kinds
    /\ s2c' = Tail(s2c)

\* Where a caller goes on when its record is completed; an error returns at once.
AfterReply(u, kind) ==
    IF op[u].kind = "unsubscribe" /\ kind = "reply" THEN "unregister" ELSE "idle"

\* handle_reply and handle_chunked_error_reply: the oldest record is completed.
ReadReply ==
    /\ Arrives({"reply", "error"})
    /\ pending # <<>>
    /\ pending' = Tail(pending)
    /\ LET u == Head(pending)
           place == AfterReply(u, Head(s2c).kind)
       IN IF place = "idle" THEN Return(u) ELSE Goto(u, place) /\ UNCHANGED op
    /\ UNCHANGED <<stubVars, closeVars, readerVars, c2s, serverVars, trouble>>

ReadEvent ==
    /\ Arrives({"event"})
    /\ reader' = "lookup"
    /\ got' = Head(s2c).event
    /\ UNCHANGED <<userVars, stubVars, closeVars, pending, c2s, serverVars, trouble>>

\* The error handler: the session is Failing and the calls in it fail.
ReaderFails ==
    /\ reader' = "failed"
    /\ FailAll(Nobody)

ReadGoodbye ==
    /\ Arrives({"goodbye"})
    /\ IF closed THEN reader' = "ended" /\ UNCHANGED <<userVars, pending>> ELSE ReaderFails
    /\ UNCHANGED <<stubVars, closeVars, got, c2s, serverVars, trouble>>

\* handle_event: an event without a callback ends the session.
Lookup ==
    /\ reader = "lookup"
    /\ IF got \in registered
       THEN reader' = "callback" /\ UNCHANGED <<userVars, pending>>
       ELSE ReaderFails
    /\ UNCHANGED <<stubVars, closeVars, got, c2s, s2c, serverVars, trouble>>

\* The stub's handle_X calls X_cb if there is one, and returns.
CallbackReturns ==
    /\ reader = "callback"
    /\ reader' = "read"
    /\ got' = Nobody
    /\ UNCHANGED <<userVars, stubVars, closeVars, pending, c2s, s2c, serverVars, trouble>>

\* The callback makes a call: it waits for a reply that only this thread can read.
\* check_running and the record are one step: only this thread could fail the session
\* in between, and close() needs call_mtx.
CallbackCalls ==
    /\ reader = "callback"
    /\ "callback" \in trouble
    /\ got \in stubCb
    /\ callMtx = Nobody
    /\ Running
    /\ callMtx' = Reader
    /\ Record(Reader)
    /\ reader' = "flush"
    /\ UNCHANGED <<userVars, stubVars, closed, got, c2s, s2c, serverVars, trouble>>

CallbackFlush ==
    /\ reader = "flush"
    /\ SendRequest(Reader, "call", Nobody)
    /\ reader' = "wait"
    /\ UNCHANGED <<userVars, stubVars, closed, pending, got, s2c, serverVars, trouble>>

----------------------------------------------------------------------------
\* The server

\* Mutant: id 0 is dispatched like another.
RequestAnyId ==
    /\ acc = "read"
    /\ c2s # <<>>
    /\ c2s' = Tail(c2s)
    /\ cur' = Head(c2s)
    /\ acc' = "service"
    /\ UNCHANGED <<userVars, stubVars, closeVars, pending, readerVars, s2c, callback, svcMtx,
                   todo, trouble>>

\* A request is read and decoded; id 0 is the client's goodbye.
Request ==
    /\ acc = "read"
    /\ c2s # <<>>
    /\ c2s' = Tail(c2s)
    /\ cur' = Head(c2s)
    /\ acc' = IF Head(c2s) = Goodbye THEN "goodbye" ELSE "service"
    /\ UNCHANGED <<userVars, stubVars, closeVars, pending, readerVars, s2c, callback, svcMtx,
                   todo, trouble>>

\* It cannot be decoded: stop_accept, and nobody answers.
DecodeFails ==
    /\ acc = "service"
    /\ "decode" \in trouble
    /\ acc' = "unsubAll"
    /\ cur' = NoRequest
    /\ todo' = Events
    /\ UNCHANGED <<userVars, stubVars, closeVars, pending, readerVars, c2s, s2c, callback,
                   svcMtx, trouble>>

\* Mutant: the byte that tells a subscription from its end is not looked at.
ServeAnyByte ==
    /\ acc = "service"
    /\ \/ cur.kind = "call" /\ UNCHANGED callback
       \/ cur.kind # "call" /\ svcMtx = Nobody /\ callback' = callback \cup {cur.event}
    /\ acc' = "reply"
    /\ UNCHANGED <<userVars, stubVars, closeVars, pending, readerVars, c2s, s2c, cur, svcMtx,
                   todo, trouble>>

\* The service answers a call, keeps a callback, or drops it.
Serve ==
    /\ acc = "service"
    /\ \/ cur.kind = "call" /\ UNCHANGED callback
       \/ cur.kind = "subscribe" /\ svcMtx = Nobody /\ callback' = callback \cup {cur.event}
       \/ cur.kind = "unsubscribe" /\ svcMtx = Nobody /\ callback' = callback \ {cur.event}
    /\ acc' = "reply"
    /\ UNCHANGED <<userVars, stubVars, closeVars, pending, readerVars, c2s, s2c, cur, svcMtx,
                   todo, trouble>>

Write(kind, e, to) == s2c' = Append(s2c, [kind |-> kind, event |-> e, from |-> to])

\* The reply, or the ErrorReply of ServerErrorHandler, of a handler that reports once.
Reply ==
    /\ \/ acc = "reply" /\ Write("reply", cur.event, cur.from)
       \/ acc = "service" /\ "handler" \in trouble /\ Write("error", cur.event, cur.from)
    /\ RoomToClient
    /\ acc' = "read"
    /\ cur' = NoRequest
    /\ UNCHANGED <<userVars, stubVars, closeVars, pending, readerVars, c2s, callback, svcMtx,
                   todo, trouble>>

\* Mutant: the server stops at a goodbye and sends none of its own.
StopWithoutBye ==
    /\ acc = "goodbye"
    /\ acc' = "unsubAll"
    /\ cur' = NoRequest
    /\ todo' = Events
    /\ UNCHANGED <<userVars, stubVars, closeVars, pending, readerVars, c2s, s2c, callback,
                   svcMtx, trouble>>

\* handle_goodbye: the answer, then unsubscribe_all.
AnswerBye ==
    /\ acc = "goodbye"
    /\ RoomToClient
    /\ Write("goodbye", Nobody, Nobody)
    /\ acc' = "unsubAll"
    /\ cur' = NoRequest
    /\ todo' = Events
    /\ UNCHANGED <<userVars, stubVars, closeVars, pending, readerVars, c2s, callback, svcMtx,
                   trouble>>

UnsubscribeAll ==
    /\ acc = "unsubAll"
    /\ svcMtx = Nobody
    /\ IF todo = {}
       THEN acc' = "listen" /\ UNCHANGED <<callback, todo>>
       ELSE /\ \E e \in todo : callback' = callback \ {e} /\ todo' = todo \ {e}
            /\ UNCHANGED acc
    /\ UNCHANGED <<userVars, stubVars, closeVars, pending, readerVars, c2s, s2c, cur, svcMtx,
                   trouble>>

\* A thread of the service emits e through the callback it holds.
Emit(e) ==
    /\ svcMtx = Nobody
    /\ e \in callback
    /\ svcMtx' = e
    /\ UNCHANGED <<userVars, stubVars, closeVars, pending, readerVars, c2s, s2c, acc, cur,
                   callback, todo, trouble>>

SendEvent(e) ==
    /\ svcMtx = e
    /\ RoomToClient
    /\ Write("event", e, Nobody)
    /\ svcMtx' = Nobody
    /\ UNCHANGED <<userVars, stubVars, closeVars, pending, readerVars, c2s, acc, cur,
                   callback, todo, trouble>>

----------------------------------------------------------------------------
UserStep(u) ==
    \/ SetCb(u) \/ Register(u) \/ Unregister(u) \/ ClearCb(u)
    \/ CheckRunning(u) \/ Push(u) \/ Flush(u) \/ FlushDoomed(u) \/ SendRefused(u)
    \/ CloseStart(u) \/ SayBye(u) \/ Join(u)
ReaderStep == ReadReply \/ ReadEvent \/ ReadGoodbye \/ Lookup \/ CallbackReturns
AccStep == Request \/ Serve \/ Reply \/ AnswerBye \/ UnsubscribeAll

Next ==
    \/ \E u \in Users :
         \/ Call(u) \/ Close(u) \/ UserStep(u)
         \/ \E e \in Events : Subscribe(u, e) \/ Unsubscribe(u, e)
    \/ ReaderStep \/ CallbackCalls \/ CallbackFlush
    \/ AccStep \/ DecodeFails
    \/ \E e \in Events : Emit(e) \/ SendEvent(e)

Spec == Init /\ [][Next]_vars

\* Threads are scheduled, and one that waits for a mutex or for room in a stream,
\* each of which others take again and again, gets it in the end.
LiveSpec ==
    /\ Spec
    /\ WF_vars(ReaderStep)
    /\ SF_vars(AccStep)
    /\ \A u \in Users : SF_vars(UserStep(u))
    /\ \A e \in Events : SF_vars(SendEvent(e))

----------------------------------------------------------------------------
\* Properties

TypeOK ==
    /\ pc \in [Users -> {"idle", "setCb", "register", "send", "push", "flush", "doomed",
                         "wait", "unregister", "clearCb", "close", "sayBye", "join"}]
    /\ op \in [Users -> [kind : {"none", "call", "subscribe", "unsubscribe", "close"},
                         event : Events \cup {Nobody}]]
    /\ stubCb \subseteq Events /\ registered \subseteq Events
    /\ callMtx \in Callers \cup {Nobody} /\ closed \in BOOLEAN
    /\ pending \in Seq(Callers)
    /\ reader \in {"read", "lookup", "callback", "flush", "wait", "ended", "failed"}
    /\ got \in Events \cup {Nobody}
    /\ c2s \in Seq(Requests \cup {Goodbye})
    /\ s2c \in Seq(Answers \cup EventMessages \cup {Goodbye})
    /\ acc \in {"read", "service", "reply", "goodbye", "unsubAll", "listen"}
    /\ cur \in Requests \cup {Goodbye, NoRequest}
    /\ callback \subseteq Events
    /\ svcMtx \in Events \cup {Nobody}
    /\ todo \subseteq Events
    /\ trouble \in TroubleSets

\* Replies carry no id: a reply belongs to the oldest record.  It is the record of the
\* call it answers, for any number of threads and however full the streams are, as long
\* as no write fails and no handler reports twice (client.cc:131-145, 439-483;
\* server_impl.cc:240-257, 352-372).
ReplyMeetsItsCall ==
    reader \notin {"ended", "failed"} /\ s2c # <<>> /\ Head(s2c).kind \in {"reply", "error"} =>
        pending # <<>> /\ Head(pending) = Head(s2c).from

\* As long as one thread at a time uses an event, and the service serialises its emitters
\* with subscribe and unsubscribe, an event the client reads finds its callback, and when
\* callbacks are not replaced while they are subscribed, no thread writes the stub's X_cb
\* while the reading thread calls it (client.cc:212-226; plugin.cc:3018-3053, 3060-3085).
EventFindsCallback == "share" \notin trouble =>
    /\ reader = "lookup" => got \in registered
    /\ reader = "callback" =>
         /\ got \in stubCb
         /\ "resubscribe" \notin trouble =>
              \A u \in Users : pc[u] \in {"setCb", "clearCb"} => op[u].event # got

\* How far a call has come: it is being sent until its request is out; one that waits
\* when the session has failed is stranded.
Answered(u, kind) == \E i \in DOMAIN s2c : s2c[i].kind = kind /\ s2c[i].from = u
Stage(u) ==
    IF Answered(u, "reply") \/ (acc = "reply" /\ cur.from = u) THEN "executed"
    ELSE IF Answered(u, "error") THEN "refused" ELSE "asked"
Sending(u) == pc[u] \in {"push", "flush", "doomed"}
CallOf(u) ==
    IF Sending(u) \/ pc[u] = "wait"
    THEN [stage |-> IF Sending(u) THEN "sending"
                    ELSE IF reader = "failed" THEN "stranded" ELSE Stage(u),
          kind |-> op[u].kind, event |-> op[u].event]
    ELSE [stage |-> "none", kind |-> "none", event |-> Nobody]
SessionOf ==
    IF reader = "failed" THEN "failed" ELSE IF reader = "ended" THEN "closed" ELSE "open"
ServerOf == IF acc \in {"unsubAll", "listen"} THEN "stopped" ELSE "serving"

\* A call returns after the server has carried it out, once and as it was made, and
\* close() leaves none behind, whatever is on its way in which direction; a session that
\* fails ends every call but the one that is being sent, which may wait until another
\* call is refused (client.cc:75-121, 126-145, 194-210, 295-317, 439-483;
\* server_impl.cc:351-372; plugin.cc:2544-2584).  No write fails here.
R == INSTANCE Rpc WITH
    session <- SessionOf,
    server <- ServerOf,
    call <- [u \in Users |-> CallOf(u)],
    subscribed <- callback
ImplementsRpc == R!Spec

\* Every call, subscription and close returns, however full the streams are, unless the
\* session fails while a request is being sent, a callback makes a call or the server
\* cannot decode a request (client.h:147-153, 251-352; client.cc:75-121, 290-317).  A
\* request that is recorded after the drain of the reading thread waits for a reply that
\* nobody reads, and one that finds the stream full keeps call_mtx for ever, since close()
\* needs it to close the connection.  No write fails here.
FailedWhileSending ==
    reader = "failed" /\ \E v \in Users : Sending(v) \/ pc[v] \in {"wait", "sayBye"}
EverythingReturns == \A u \in Users :
    pc[u] # "idle" /\ trouble \cap {"callback", "decode"} = {}
      ~> pc[u] = "idle" \/ FailedWhileSending
==============================================================================
