# serialrpc in TLA+

Models, model checks and proofs of *serialrpc*: request/reply calls and event
streams between one client and one server over an ordered byte stream, with the
message encoding, the code generator's tables and the command line client. The
modules follow the C++ in `client.cc`, `client.h`, `server.cc`, `server_impl.cc`,
`encoding.cc`, `encoding_impl.cc`, `cmd/serialrpc` and the code printed by the generator
`cmd/serialrpcgen/protoc_serialrpc_plugin.cc` (below: `plugin.cc`).

## 1. The system

| component | state | operations | talks to |
|---|---|---|---|
| Client session (`client.cc`, `client.h`) | `state` (New, Starting, Running, Closed, Failing, Failed), `err`, `conn`, `call_mtx`, `call_cond`/`cond_mutex`, the pending list | `connect`, `call*`, `subscribe`, `unsubscribe`, `wait`, `close`, `fail`, the worker `input()` and its error handler | the connection; callers' stack frames |
| Call latch (`Client::Waiter`) | one three-valued word in each call's stack frame | `wait`, `notify` | callers, the worker, `fail` |
| Pending call list | `head`, `tail`, `CallData::next` | push (`start_request`), `pop_call_data`, `fail_pending_calls` | callers, the worker |
| Hello and service matching (`client.cc:549-688`) | per stub: endpoint offset | read the hello, match by uuid and version, number the endpoints | server's service table |
| Event callbacks (`client.cc:213-227`, `client.h:345-362`) | `event_callbacks` under its mutex | register, unregister, `handle_event` on the worker | generated stubs |
| Server runtime (`server_impl.cc`, `server.cc`) | dispatch table (constant), where the accepting thread is | `serve`, `accept`, `handle_request`, `handle_goodbye`, `send_goodbye`, `stop_accept`, replies and errors | connection, services |
| Generated server bases (`plugin.cc:2522-2712`) | `event_conn`, event ids | `dispatch_X`, `send_X`, `unsubscribe_all` | user's service, its threads |
| Generated client stubs (`plugin.cc:2950-3140`) | `X_cb`, `rpc_offset` | calls, `subscribe_X`, `unsubscribe_X`, `handle_X` | client session |
| Discovery service (`server_impl.cc:40-235`) | constant tables | describe services and methods | server runtime |
| Message encoding (`encoding.cc`, `encoding_impl.cc`) | the Stack of deferred Start tags | marshal, unmarshal, skip | all of the above |
| Command line client (`cmd/serialrpc`) | none beyond one client | list, call | client session, discovery |
| Code generator (`cmd/serialrpcgen`) | none | parse, check, print | protoc |

What is hard:

* *Threads.* Any number of callers, threads in `wait()`, one thread in
  `connect()`/`close()` and the worker share a session. The error handler runs
  **inside** a failing read on the worker and sleeps there until somebody took the
  error; one condition variable serves three kinds of sleeper.
* *Memory in stack frames.* A call's record lives in its caller's frame and is
  reached through the list and by `notify()`, which stores twice.
* *Order.* Replies carry no id. Nothing but the position in the list ties a reply
  to its call.
* *Failure.* Reads, writes, decoding, the peer and the user's handlers can fail at
  any point, and each failure has its own way out.
* *Subscriptions.* Emitters are threads of the user's; the connection they send on
  belongs to a session that may end at any time, and the next session is another
  client over the same `serial::Conn`. On the client, the callback of an event is
  set and cleared on one thread and called on another.
* *Numbers nobody sends.* Endpoint ids and type ids are computed on both sides from
  the order of things. A wrong sum does not fail: it names something else.
* *Two of everything.* Two encoders, two decoders and two readers of the discovery
  reply, the generated and the dynamic, have to agree.

`PROJECT.json` lists each of these at its line under `hazards`, with the
properties that cover it or the reason why none does.

What makes each part correct: a reply completes the call it answers and no other;
every call returns; nobody touches a record that is gone; `close` returns and
leaves nobody reading; a failure reaches everybody who sleeps; a request has one
answer; an event reaches only a client that knows it; a session leaves no
subscription behind; both sides agree on endpoint ids; decoding undoes encoding;
a described service is the service.

## 2. The modules

| module | models | abstracts from |
|---|---|---|
| `CallLatch` | what a call may rely on: one completion, then one return; the one call whose own write failed may return without | how |
| `CallWaiter` | the loads and stores of `notify()` and `wait()` over reused frames | the list (a set here) |
| `CallFifo` | what the pending list promises: first in, first out | pointers |
| `CallQueue` | `head`, `tail`, `next` under `data_mtx`, stale `next` pointers, reused frames | what completing a record does |
| `ClientSession` | the whole life of a session | list = `CallFifo`, completion = one step of `CallLatch`; the server and the byte streams |
| `Server` | accept loop, dispatch of one service, subscriptions, emitters, `send_goodbye` | bytes; the client |
| `Rpc` | what a session promises to the users of the stubs: a call is asked, executed or refused, and returns; `close()` leaves none behind; a failure ends all but the one that is being sent | threads, records, streams |
| `RpcSystem` | a running session: client threads and stubs, reading thread, server and emitters over two bounded streams | what `ClientSession` and `Server` settle alone: start, wakeups, one session after the other |
| `Endpoints` | hello, matching, endpoint ids of server, client, stubs, events and the command line client | threads; payloads |
| `Encoding` | both writers, both readers and `skip` over cells of a byte stream | bytes of scalars; text |
| `TypeTable` | from a `.proto` file through the generator's checks and walks to the discovery reply, and what `list` and `call` make of it | printing of C++ |
| `MC*` | constants for TLC | |
| `*Proofs` | theorems | |

Composition: `ClientSession` uses the queue and the latch that `CallQueue` and
`CallWaiter` are shown to implement. `RpcSystem` puts one client and one server
together, coarser in each than the module of its own, so that what was an
assumption there (`wire` of `ClientSession`: requests are answered in order; `known`
of `Server`: the stub has a callback) is a theorem here (`RepliesMeetTheirCalls`,
`EventsFindTheirCallbacks`). What both ends can do wrong by themselves stays in the
modules of their own: `RpcSystem` has no failing write and no handler that reports twice.

### CallWaiter, CallLatch

`latch[c]` is `Waiter::state` in the frame of caller `c`: 0, 1 (about to be told),
2 (told). `StoreOne`, `NotifyOne`, `StoreTwo` are the three statements of
`notify()`; `LoadZero`, `Block`, `LoadFinished`, `Finished` are the loop of
`wait()`. `Block` is the compare-and-block of the atomic wait. `Call` puts a new
record into the same frame, which is what makes a late store dangerous; `Push` queues
it and `Sent` goes on to `wait()`.

A call whose write fails does not wait. `WriteFails` is the failed `start_request`,
marshal or `finish_request`, `FailPop` a record `fail()` takes from the list and
completes on the caller's own thread, and `FailReturn` the return of `client.h:127-141`
without a look at the latch. Another thread may by then have popped the record and be
about to store into it. `writesWork` says whether this can happen in a behaviour and
`dropped` which call it happened to: at most one in the life of a client, since `fail()`
leaves the state Failing before `call_mtx` is free. The properties are about every other call,
and with `writesWork` about all.

### CallQueue, CallFifo

`Push` is `client.cc:138-146`, `Pop` is `pop_call_data`, `Complete` gives the frame
back. `queued` is a history variable: the abstract queue the chain of pointers
must spell. `taken` is what the last pop returned and `turn` flips with each
pop, so that the refinement shows which record comes out, or that none does, and
not only how the queue changes.

### ClientSession

Each access to shared state that another thread can see between two others is a step.
`pc[t]` is where a thread is. A caller goes `BeginCall` (check_running, `call_mtx`),
`Push`, `Flush`, `EndCall`, or `FailOne`/`FailState`/`FailClose` when a write fails. The
main thread goes `Start`, `StartWait`, `StartDone` and later `BeginClose`,
`CloseFailing`/`CloseSwap`, `SendBye`, `CloseConn`, `Join`. The worker goes `HelloDone`,
then one action for each message and each way of failing. A drain is `TakeOne`, the pop
under `data_mtx`, and later, without a lock, `TellOne`, the completion: in between the
record is in nobody's list, and its caller, if its write fails, may leave. On an error
the worker goes through `HandlerLock`, `HandlerDrain`, `HandlerDecide` (leave or
broadcast and sleep). A failing session's `state` and `err` are read by
`WaitSleep`/`WaitDone`.

`wire` is the sequence of requests sent whose reply the worker has not begun to
read. `faults` is what may go wrong in a behaviour, one of `FaultSets`, chosen at
the start: one run covers the healthy transport and the faulty ones, and a property
that needs a condition names it (`WritesWork`, `faults = {}`).

### Server

`acc` is where the accepting thread is in `serve`/`accept`/`dispatch_X`; `eventConn` is
`event_conn # nullptr`; `callback` is what the user's service holds; `emit[e]` is where
the thread that emits `e` is in `send_e`. `Emit` tests the callback, and takes the
service's own mutex if it has one; `Deref` is `*this->event_conn`; `SendEvent` is the
write under `write_mtx`. `StopOne`/`StopDone` are `unsubscribe_all` on the accepting
thread, `GoodbyeOne`/`GoodbyeDone` the same on the thread in `send_goodbye`, interleaved
with it: nothing in the code excludes that. `faults` is chosen as in `ClientSession`.

External: what the user's service does about its emitters. The library has no lock
between the test of a subscription or the use of `event_conn` (`plugin.cc:2601-2622`) and
the end of one on the accepting thread (`plugin.cc:2695-2705`), and no service in the
repository has one (`e2e_test.cc:218-247, 289-316`, `README.md:219-237`). With the fault
"unlocked" the service is like these: an emitter tests, is overtaken, and
writes an event whose end was acknowledged or finds its callback or its connection
gone (`emit[e] = "crashed"`, which the run reaches). Without it the service holds a mutex
of its own from the test of an emitter to its write, and in its subscribe and unsubscribe
methods. Properties that need that say so (`ServiceLocks`).

### RpcSystem

A thread of the client goes through the stub: `SetCb` (`X_cb = cb`), `Register`, the
request, and at the end of a subscription `Unregister`, `ClearCb`. A request takes three
steps under `call_mtx`: `CheckRunning`, `Push` of the record, and `Flush`, which waits
for room in `c2s`. If the session fails between them, the record is pushed after the
drain (the call of `session_hung_call`) or the flush is `FlushDoomed`, to a server that
goes on reading and answers to nobody. A writer that waits for room keeps `call_mtx`,
and nothing lets it out: the reading thread's handler does not close the connection and
`close()` needs the mutex to do so. `SendRefused` is a caller that is refused at the
check; its `fail()` completes the stranded records too.

`pending` is the list of records, `c2s` and `s2c` the two streams, of `ToServer` and
`ToClient` messages. The reading thread completes the oldest record (`ReadReply`), looks up
an event (`Lookup`) and runs its callback, which may make a call of its own
(`CallbackCalls`, `CallbackFlush`). The server takes a request, serves it, and
answers; `AnswerBye` writes the goodbye before `UnsubscribeAll` ends the subscriptions.
`trouble` is what may happen in a behaviour besides, one of `TroubleSets`: errors of the
service, requests that cannot be decoded, callbacks that make calls,
subscriptions to what is subscribed, and threads that share an event. `Does` says which
operations each thread uses under which trouble.

Three things are conditions of the whole module, each because the part's own module
shows what happens without it: no write fails (`session_mixed_replies`), a handler reports
one error at most (`RequestsAnsweredOnce`: a second ErrorReply would be taken for the
answer to the next call), and the service serialises its emitters (`ServiceLocks`).

`Rpc` is what that amounts to for a user. `RpcSystem` implements it: the stage of a call
is read off its caller's place and where its request or answer is (`CallOf`, `Stage`),
the session off the reading thread, and the subscriptions are the callbacks the service
holds. `CheckRunning` is `Ask` and `Flush` is `Sent`; when the session has failed
meanwhile both `Flush`, which leaves the call stranded, and `FlushDoomed`, which ends
it, are `SentTooLate`; `Serve` is `Execute`, the ErrorReply is `Refuse`, `ReadReply` is
`Return`, the goodbye that is read is `Finish`; an event without its callback is
`Break`, after which the server may still carry out (`Late`) what was on its way; a
refused caller that completes stranded records is `Release`. `Execute` needs a call that
has been sent, does exactly what it asks, and `Return` one that has been executed or
refused: so in an open session a request is carried out at most once and never after its
call has returned, `Finish` needs a session without calls, and `Break` ends every call
but the one that is being sent.

### Endpoints

`AppendService` concatenates the dispatch tables at compile time, `ReadServiceDef` adds
up offsets from the hello and binds stubs, `StubCall`/`StubSubscribe`/`StubUnsubscribe`
add a method's rank, `CliMatch`/`CliSkip` repeat the sum over the discovery reply,
`HandleRequest` indexes the table, `SendEvent` sends the stored id back. `starts` and
`boundTo` are history variables.

### Encoding

`path` is the stack of `marshal_field` calls, `pending` the Stack of fields whose Start
is deferred, `opened` the fields whose Start is on the wire. The reader is a stack of
`unmarshal` and `skip` calls, and takes a field when its cells have arrived. Writer and
reader are each the generated or the dynamic one; the reader may know fewer fields.
`RoundTrip` compares what was `heard` with the part of what was `said` that a reader of
that schema can see (`Visible`, `AreSeen`).

### TypeTable

`AddType`/`AddService`/`Reject` are the checks of the generator's objects;
`NextRoot`, `NextField`, `Return` the recursive walk that collects types, one step
for one turn of its loop; `FileDone` and `ServiceDone` the objects and the table
it prints; `ListServices` the server's reply; `List` and `Call` the two commands.
`ForeignServer` gives the commands a reply no server of this code would send.

## 3. The runs

| run | instance | question | result |
|---|---|---|---|
| `waiter` | 2 callers, 2 notifiers, 2 calls each; writes that work and writes that fail | is a record touched after its call returned (but the one whose write failed); is a wake-up lost | holds |
| `queue` | 4 frames | does the chain spell the queue in every order of pushes and pops | holds |
| `session` | 2 callers with 2 calls, 1 thread in `wait()`, `close()`; no faults, all faults but failing writes, all faults | do replies, records, handler and close keep their protocol; does everything return | holds |
| `session_hung_call` | 2 callers, unsolicited goodbye | does a call that races with the goodbye return | **violated** |
| `session_mixed_replies` | 3 callers, failing writes | does a waiting call get its own reply | **violated** |
| `server` | 2 events, 2 sessions of 3 requests, 2 emissions, 1 `send_goodbye`; four sets of faults, one of them with a service that has no mutex | answers, subscriptions, emitters, the end of a session | holds |
| `system` | 3 client threads with service errors, 2 with each further trouble; 1 event, streams of 1 message to the server and 2 to the client | one order of records, answers and requests; events find callbacks; does everything return; is it an `Rpc` | holds |
| `endpoints` | 8 servers of 1-3 services, 4 sets of stubs, two protocol versions | does every id name the same method on both sides | holds |
| `encoding_stream` | 10 field types, nesting limit 1, 3 fields walked, 2 messages, 2 x 2 writers and readers, 2 schemas | is what is read what was written | holds |
| `encoding_high_field` | fields 1 and 16 in tags of 8 bits | the same for the highest field numbers | **violated** |
| `discovery` | 15 sets of `.proto` files, 14 foreign replies | is what is described the service | holds |
| `discovery_imported_enum` | the same | can a described service be called without its files | **violated** |

Bounds, and why they suffice to reach what matters. Two calls by a caller reuse a
frame. Two callers give every order of push, reply and drain; the mixed
replies need three, one to fail, one whose record goes, one that gets its reply.
Two sessions let a subscription of the first be met by the second; two
emissions of two events overlap. In `system` three threads
fill both streams: the server waits for room in `s2c` with a request in its hand and the
next one in `c2s`, and a writer waits behind that with `call_mtx`. The encoder meets its
nesting limit at 1 as the code does at its own; a field number of 28 bits in a tag of
32 is one of 4 bits in a tag of 8. The servers of `endpoints` have a service with no
method, one twice, an unknown one between others, two minor and two major versions,
and what the generator refuses. The file sets of `discovery` have a diamond, a
cycle, void, types used before they are declared, nested messages, imported
messages and enums, and types that do not fit the file `call` builds.
Bounds that cut a behaviour off are constants named `Max...`; the theorems hold for
every value of them.

`CHECK_DEADLOCK FALSE` is set where the calls, sessions or messages are used up, or
the session is over. `MCCallQueue` never stops and keeps the check.

Fairness. `CallWaiter`, `ClientSession` and `Server` assume weak fairness of each
thread's own steps: threads are scheduled, mutexes are released by their
holders. The client also assumes that the server answers what was sent.
`RpcSystem` assumes strong fairness of the threads that wait for a mutex or for room in
a stream: these are taken and given back again and again by others, and a
thread that waits for one gets it in the end, which is what the mutexes of an
operating system with priorities of one kind give. Nothing is assumed about whether
anybody calls, closes, fails, emits or subscribes, or that spurious wake-ups happen.

### Findings

* `session_hung_call`: `start_request` tests the state and pushes the record later,
  after the handler's drain: the call hangs. A test expects otherwise
  (`e2e_test.cc:528`), and checks it only for calls that begin later.
* `session_mixed_replies`: `fail()` on a calling thread takes records of requests
  on the wire while the worker reads on; a reply goes to the next call.
* `encoding_high_field`: `read_tag` shifts a signed number, so fields from 2^28 on,
  which protobuf allows, are not recognised by the reader.
* `discovery_imported_enum`: ids are found by comparing pointers, and a message of an
  imported file points to the enum object of its own file: id 0, and
  `serialrpc call` refuses every method of the service.

`SessionInv` and the theorems that rest on it exclude failing writes for the
second reason, and say so in their statements. For the first, `EverythingReturns` and `Rpc`
except the request that is being sent when the session fails.

### Held only under conditions

* When the answer to a client's goodbye fails (`GoodbyesAnswered`), `handle_goodbye`
  returns before `stop_accept`: without the condition `EventsAreKnown` and
  `SessionEndsClean` fail.
* A call whose own write failed returns without `wait()`, possibly while another thread
  completes it: `FrameOutlivesNotify` and `ImplementsLatch` are about the other calls
  (`dropped`), and about all where writes work. `EachCallHasOneRecord` keeps its
  second part to `WritesWork` for the same reason.
* `ErrorOutlivesItsReaders` says that a Failing session has its error, if no write
  fails, up to one case: after `close()` a call that is refused runs `fail()`, which
  turns Closed into Failing with no error and no worker left (`client.cc:199-207`), and
  a `wait()` that begins then dereferences null (`client.cc:68-69`). The run reaches it
  ("crashed").
* `EventsAreKnown`, `NoNullConn` and `EventFindsCallback` need a service that
  serialises its emissions with its subscribe and unsubscribe methods (`ServiceLocks`;
  in `RpcSystem` there is no other). Nothing in the library asks for it.
* With `send_goodbye` from another thread (`NeverSaidGoodbye`) `NoNullConn` fails: a
  subscription accepted while it clears `event_conn` leaves a callback without a
  connection.
* `OneAnswerEach` needs handlers that report at most one error, and so do
  `ReplyMeetsItsCall` and `ImplementsRpc`, which need writes that work as well.
* `EverythingReturns` needs callbacks that make no calls, which would wait for the
  thread they run on, and requests the server can decode, which it otherwise leaves
  without an answer on an open connection. It excepts a session that fails while a
  request is being sent (`FailedWhileSending`): a record pushed after the drain waits for
  a reply nobody reads, and a writer that finds no room keeps `call_mtx` for ever.
* `EventFindsCallback` needs one thread at a time for an event: the end of a
  subscription on one thread removes the callback another has just registered,
  and the next event ends the session. Its second part needs stubs that do not
  subscribe to what is subscribed: `subscribe_X` replaces `X_cb` while the reading
  thread may be calling it.
* `StubReachesItsMethod` needs minor versions that keep the ranks of their methods
  (`Evolution`).
* `DescriptionSurvives`: `call` refuses a service for an enum used by a message of
  another file (`EnumsStayHome`, the finding above), or because protobuf does not
  accept the file `call` builds from the description (`call.cc:404-408`; "unloadable"):
  a type of the service has a value of the name of the enum that is wrapped around it
  (`call.cc:310-317, 331-335`) or, from a proto2 file, an enum whose first value is not 0
  (`misfits`, `loads`). And it needs nested messages that some field leads to
  (`NestedAreReached`): a file's type objects are emitted from its top-level
  messages (`plugin.cc:246-249`), a service's table from what its methods name, so a
  nested message that only a method names is declared, is in the table and is defined
  nowhere, and the generated code does not link.
* `RoundTrip` compares leaves that say something. An element of a repeated field that
  writes nothing, an empty message (`encoding.cc:87-91`) or a zero of the dynamic writer
  (`call.cc:140-146`), is lost on the way; fields are not told to be repeated here, so
  such a loss looks like a field that was left at its default.

No text of the repository promises otherwise, so they are hazards with a note and
not findings.

The documentation and the code differ in one more place: `README.md:401` of the repository
says that a true `bool` is its tag alone, and the code writes the tag and the byte 1 and
reads both (`encoding_impl.cc:282-293`). `Encoding` has what the code does; the two ends
agree on it.

## 4. The proofs

Checked by TLAPS for every value of the constants that satisfies the named assumptions
of the modules, which TLC evaluates on every instance. They keep names apart
(`ThreadsAssumption`, `NamesAssumption`), make the bounds numbers, and say what data is:
builds and lists of them (`BuildsAssumption`), fields with types of protobuf and values of
these types (`FieldsAssumption`, `ValuesAssumption`), tags that fit (`TagsAssumption`),
schemas in which every field and method has its type in some file (`SchemaAssumption`),
and well-formed foreign replies (`ForeignAssumption`).

| theorem | condition | inductive invariant |
|---|---|---|
| `WaiterInvariance`, `WaiterTypeCorrect` | none | `WaiterInv` |
| `NotifyTouchesLiveFrame`, `WaiterRefinesLatch` | of every call but the one whose own write failed | `WaiterInv` |
| `QueueRepresented`, `EndsNeverDangle`, `ListImplementsFifo` | none | `ChainIsQueue` with types |
| `SessionTypeCorrect` | none | `TypeOK` |
| `SessionInvariance`, `RepliesReachTheirCalls` | no write fails | `SessionInv` |
| `ErrorsOutliveTheirReaders`, `HandlersSleepAlone` | where the property says so: no write fails (and, for the first, as in section 3) | `ErrorInv`, `SleepInv` |
| `RecordsHaveOneOwner` | none for "no record is lost"; no write fails for "one owner" | `CallInv`, `OwnerInv` |
| `CloseCutsNoCall` | no fault | `FaultlessInv` |
| `ServerTypeCorrect` | none | `TypeOK` |
| `ServiceInvariance`, `NothingLeftOver` | goodbyes can be answered | `ServiceInv` |
| `EventsKnownToClient` | goodbyes can be answered and the service locks | `ServiceInv` |
| `RequestsAnsweredOnce` | the service reports no request twice | `AnswersInv` |
| `ConnectionForEveryEvent` | nobody calls `send_goodbye` and the service locks | `ConnInv` |
| `SystemTypeCorrect` | those of `RpcSystem` | `PlaceInv`, `QueueInv`, `UnsentInv` |
| `RepliesMeetTheirCalls` | those of `RpcSystem` | `PlaceInv`, `QueueInv`, `UnsentInv` |
| `EventsFindTheirCallbacks` | the same, and as in section 3 | these, `RequestInv`, `EventInv` |
| `SystemImplementsRpc` | those of `RpcSystem` | the first three, `RequestInv`, `ByeInv`, `WaitInv` |
| of `Endpoints`: `TypeCorrect`, `OffsetsAlwaysAgree`, `CliReachesNamedMethods` | none | tables and offsets |
| `StubsReachTheirMethods` | `Evolution` | the same, and the requests |
| `EventsReachTheirSubscribers` | `Evolution` | `EventInv` on top of these |
| of `Encoding`: `TypeCorrect`, `StartsMatchEnds`, `StackSuffices` | none | `TagInv` |
| `DecodingUndoesEncoding`, `RefusalsHaveCause` | `LowFields` | `TagInv`, `StreamInv` |
| of `TypeTable`: `TypeInvariance`, `WalkInvariance`, `WalkEndsInClosure` | none | `WalkInv` |
| `ServiceInvariance`, `CommandsAgree` | none | `WalkInv`, `ServiceInv` |
| `DescriptionIsTheService` | as in section 3 | `WalkInv`, `ServiceInv`, `Links` |

*Latch.* A popped record has exactly one completer, which is inside `notify()`
for the current call of a caller that has not left `wait()`, or for the one call that was
dropped; the value of the latch tells how far it is. So the last store happens before
the caller may leave, and who leaves without it is the last to use its frame: after a
failed write no record is queued any more.

*List.* `queued` is the chain: `head` is its first, `tail` its last, and `next` of each
is the one behind it. Pointers in records outside the chain do not matter, which
is why stale ones are harmless. The last record's `next` is nil because push set
it.

*Session.* That a reply belongs to the head of the list (`RepliesMatch`) is not
inductive. It needs `ListFollowsWire`: while the worker reads, the list is the requests
on the wire followed by the one pushed and not yet flushed. That in turn needs to
know who may shorten the list, hence where the worker is in each state of the
session (`WorkerFollowsState`), that only the holder of `call_mtx` pushes and
flushes (`MtxOwners`), and that nobody is there before the hello
(`CallersFollowWorker`). Each part has a lemma with one step for each action.
Four more invariants are built on it. `ErrorInv`: the error is set from the
handler's lock to its return, whatever fails. `SleepInv`: a session that failed and is
still open has its error, and the handler's broadcast leaves nobody asleep, so that while
it sleeps its signal can wake only it. `CallInv` and `OwnerInv`: the worker has
a record only between a reply's header and its end or the return of the handler of an
error in between, and a record goes from the list to the worker
and never back. `FaultlessInv`: with no fault the worker is in no handler, and the goodbye
is written by a `close()` that held `call_mtx` when it ended the session, so
nobody flushes after it and it is read behind the last reply.

*Server.* `EventsAreKnown` needs to know what the service holds in every phase of a
request, that an emitter of a service that locks holds its mutex from the test to the
write, so that no callback is dropped under it, and that `stop_accept` still has on its list
what is subscribed. `NoNullConn` needs that a callback implies a connection and
that the connection is cleared only when the list is worked off.

*System.* The records, the answers on their way, the request in the server's hand and
the requests on their way are one queue in four pieces. `QueueInv` says so by positions
and not by concatenation: a record belongs to a caller that sends or waits, a message
has a record, and of two records the older one's message is not behind the younger one's
(`OrderInv`). Then the head of the stream, when it is an answer, is the oldest record's.
`UnsentInv` has the place between the push and the flush: a request that is not out yet
has the youngest record and no message. `RequestInv` ties a request to what its caller
does, so that what the service keeps or drops is the event of a thread that waits.
`EventInv` has the subscriptions: an event that may still reach the reading thread
(`Flowing`: it is subscribed, being emitted, on its way, or read) has both its
callbacks, and behind the answer to the end of a subscription no event of it is written.
For the refinement, `ByeInv` adds that no request is behind the client's goodbye and
that the server's has the answers to all calls before it, and `WaitInv` that who flushes
or waits has a record: so nobody sends or waits when the goodbye is read.

*Endpoints.* The client's sum over the hello and the server's concatenation are
compared service by service: `starts` is where each begins. For events, `EventInv` has
that a callback stands at the endpoint of its stub's method, and that what the
server keeps for an event is the id of one that has a callback; an id of the event
is then off by the same one in each of its four forms.

*Encoding.* The Start tags on the wire without their End, followed by those still on the
Stack, are the calls under way (`TagInv`). For the round trip, `StreamInv` says that the
cells of the stream are the encodings of a chain of tokens, a Start, a leaf or an End
each, with a configuration at every place between two: the messages open there, the
leaves so far, the messages before. The writer is at the last one: a leaf adds its
deferred Starts and itself (`FieldAppends`), an End itself (`EndWritten`), a lost
connection cuts cells but no token (`Pipe`). The reader is at the first (`Follows`): its
calls are the open messages, it skips under the unknown ones, it has lost at most one
level of nesting for each, and it has heard what it can see. A round of its loop never
needs more cells than the first token has, and takes exactly these (`NextRound`,
`PayloadFacts`). For `RefusalsHaveCause`, `Backed` has that a message open anywhere in
the chain has a leaf that was written: the deferred Starts are what makes it true. The
only condition is `LowFields`, field numbers below 2^28 with the code's tags:
`encoding_high_field` shows the case without it, and `encoding_stream` satisfies it.

*TypeTable.* A field that has not led to its type is one that a call under
way will come to; nothing is added that the roots do not reach. So a finished walk is
the least closed set of messages, and `ServiceInv` carries that on: what EchoRoot
accepted resolves (`Resolved`), a file defines what its top-level messages reach
(`FilesDefine`), what is served is the table of the last walk (`Served`), and a reply is
the description of that table or a foreign one (`Answered`). With `ServiceInv` the two
properties are about one state: an id is the position of a type in a table without
repetitions (`TableFacts`), a field's id is that of its type unless an enum object is
another file's (`FieldFacts`), and an id that `call` accepts belongs to exactly one type,
which is the one `list` names (`UsableIsNamed`). `Links` is the part of
`DescriptionSurvives` about the build, which needs the walks of all files.

Only model-checked: liveness (`CallsReturn`, `CloseReturns`, `FailureWakesAll`,
`ServerGetsBack`, `ImplementsLiveLatch`, `EverythingReturns`), since the prover does
not reason about fairness and ENABLED. Every invariant and every other action property
that a passing run checks is stated by a theorem.

## 5. The plan

Done, in this order: `CallWaiter`, `CallQueue`, `ClientSession`, `Server`,
`Endpoints`, `Encoding`, `TypeTable`, `RpcSystem` and `Rpc`, each with its theorems.

What would come next: events in `Rpc`, in order and between their subscription and its
end; what a failed write leaves true of `RpcSystem`; repeated fields and chunked strings in
`Encoding`.

## 6. Not modelled

The transport (`serial::Conn`, `sync`, varints) belongs to another library and is
modelled from its use. Log messages and printable bytes between messages change no
state. Chunked strings and the bytes of scalars have no module: the first take a
writer of the user's to go wrong, the second is a library's. Most of the generator
(`serialrpc_objects`, `cpp_formatter`) prints C++ text; opening a port, parsing of
arguments and the layout of the output in `cmd/serialrpc` have no state the
properties are about. `PROJECT.json` gives the reason for each component.
