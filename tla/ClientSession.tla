---------------------------- MODULE ClientSession ----------------------------
(***************************************************************************)
(* serialrpc::Client (client.h:42-375, client.cc): one session over one    *)
(* connection, from connect() to close().  Threads that make calls, the    *)
(* thread that owns the session, threads inside wait(), and the input      *)
(* worker share the state word, the pending list, the error pointer, the   *)
(* mutex call_mtx and the condition call_cond with its cond_mutex.         *)
(*                                                                         *)
(* The worker's error handler runs inside the failing read: it fails the   *)
(* pending calls, moves the session to Failing and sleeps there until      *)
(* somebody has taken the error (Failed) or closed the session (Closed).   *)
(*                                                                         *)
(* Granularity: every access to shared state that another thread can see   *)
(* between two others is a step.  cond_mutex is held across steps only by  *)
(* the worker while it drains the pending list; the other sections under   *)
(* it are one step that waits for CondFree.  The pending list is the queue *)
(* of CallFifo, which CallQueue implements.  To pop a record and to        *)
(* complete it are two steps: between them it is in the hands of one       *)
(* thread.  The completion is one step, which CallWaiter justifies for     *)
(* calls that wait for it.  A call whose write failed may have returned by *)
(* then; the store into its dead frame (CallWaiter's FrameOutlivesNotify)  *)
(* is here a store nobody reads, and whatever else it may spoil is left    *)
(* out.                                                                    *)
(*                                                                         *)
(* The server and the two byte streams are external: requests are answered *)
(* in the order in which they were flushed, at any later time, so wire is  *)
(* the sequence of requests whose reply the worker has not begun to read.  *)
(***************************************************************************)
EXTENDS Sequences, Naturals

CONSTANTS
    Callers,     \* threads that make calls
    Watchers,    \* threads that call wait()
    Main,        \* the thread that runs connect() and close()
    Worker,      \* the input worker
    None,        \* nobody: the owner of a free mutex, the null CallData
    FaultSets,   \* the sets of faults to consider: one holds in a behaviour
    MaxCalls     \* bound: calls made by one caller

FaultKinds ==
    {"writeFail",    \* a write or a flush of the client fails
     "hangup",       \* a read fails, the hello included
     "goodbye",      \* a ServerGoodbye nobody asked for
     "bad",          \* Unknown, TooBig, BadMessage, FatalError, a stray
                     \* ServerHello, an unknown event or byte, a bad hello
     "badReply",     \* the connection or the decoder fails inside a reply
     "errorReply"}   \* the server answers with an ErrorReply

\* Threads that run fail_pending_calls.
Drainers == Callers \cup {Worker}
Threads == Callers \cup Watchers \cup {Main, Worker}

ASSUME FaultsAssumption == FaultSets \subseteq SUBSET FaultKinds
ASSUME ThreadsAssumption ==
    /\ Main # Worker
    /\ {Main, Worker, None} \cap (Callers \cup Watchers) = {}
    /\ None \notin {Main, Worker}
    /\ Callers \cap Watchers = {}
ASSUME MaxCallsAssumption == MaxCalls \in Nat

VARIABLES
    state,       \* Client::state
    errSet,      \* Client::err # nil
    connOpen,    \* Client::conn has not been closed by this side
    callMtx,     \* the owner of call_mtx
    pending,     \* the pending list, oldest call first
    pc,          \* pc[t]: where thread t is
    answer,      \* answer[c]: how the current call of c was completed
    taken,       \* taken[t]: the record t popped in fail_pending_calls, or None
    held,        \* the call whose reply the worker reads into its record
    reading,     \* the request the reply being read belongs to
    after,       \* what the worker does when the error handler returns
    wire,        \* requests sent whose reply is still to be read, in order
    byeSent,     \* close() has written request id 0
    faults,      \* what the transport and the peer may do wrong this time
    calls        \* calls[c]: calls made by c (only to bound the model)

workerVars == <<held, reading, after>>
callVars == <<pending, answer, taken>>
netVars == <<connOpen, wire, byeSent, faults>>
vars == <<state, errSet, callMtx, pc, workerVars, callVars, netVars, calls>>

Init ==
    /\ state = "New"
    /\ errSet = FALSE
    /\ connOpen = TRUE
    /\ callMtx = None
    /\ pending = <<>>
    /\ pc = [t \in Threads |->
               CASE t = Worker -> "none" [] t = Main -> "new" [] OTHER -> "idle"]
    /\ answer = [c \in Callers |-> "none"]
    /\ taken = [t \in Drainers |-> None]
    /\ held = None
    /\ reading = None
    /\ after = "exit"
    /\ wire = <<>>
    /\ byeSent = FALSE
    /\ faults \in FaultSets
    /\ calls = [c \in Callers |-> 0]

----------------------------------------------------------------------------
\* Building blocks

Goto(t, l) == pc' = [pc EXCEPT ![t] = l]

\* The worker has popped a record and is inside its reply.
InReply == {"unmarshal", "readText"}

CondFree == pc[Worker] # "drain"

Sleepers == {t \in Threads : pc[t] = "asleep"}

\* Mutant: the signal is forgotten.
GotoSilently(t, l) == Goto(t, l)

\* call_cond.signal(): one sleeper, if there is one, wakes; thread t goes to l.
SignalAndGoto(t, l) ==
    \/ /\ Sleepers = {}
       /\ Goto(t, l)
    \/ \E s \in Sleepers : pc' = [pc EXCEPT ![s] = "recheck", ![t] = l]

\* Mutants: no broadcast; a woken thread that does not test its condition again.
NoBroadcast(t, l) == Goto(t, l)
BroadcastNoRecheck(t, l) ==
    pc' = [u \in Threads |-> IF u = t THEN l ELSE IF u \in Sleepers THEN "idle" ELSE pc[u]]

\* call_cond.broadcast() by thread t, which goes to l.
BroadcastAndGoto(t, l) ==
    pc' = [u \in Threads |-> IF u = t THEN l ELSE IF u \in Sleepers THEN "recheck" ELSE pc[u]]

\* The threads may use the client once connect() has returned.
Connected == pc[Main] \notin {"new", "starting", "asleep", "recheck"}

\* One round of fail_pending_calls: pop the oldest record under data_mtx, then
\* write the error into it and notify its caller without a lock.
TakeOne(t) ==
    /\ taken[t] = None
    /\ pending # <<>>
    /\ taken' = [taken EXCEPT ![t] = Head(pending)]
    /\ pending' = Tail(pending)
    /\ UNCHANGED answer

TellOne(t) ==
    /\ taken[t] # None
    /\ answer' = [answer EXCEPT ![taken[t]] = "error"]
    /\ taken' = [taken EXCEPT ![t] = None]
    /\ UNCHANGED pending

DrainOne(t) == TakeOne(t) \/ TellOne(t)

----------------------------------------------------------------------------
\* A caller: call(), call_void(), call_raw(), subscribe(), unsubscribe()

\* Lock call_mtx; check_running.  A refused call runs fail() on its way out.
BeginCall(c) ==
    /\ pc[c] = "idle"
    /\ Connected
    /\ calls[c] < MaxCalls
    /\ callMtx = None
    /\ state = "Failing" => CondFree
    /\ callMtx' = c
    /\ calls' = [calls EXCEPT ![c] = @ + 1]
    /\ answer' = [answer EXCEPT ![c] = "none"]
    /\ Goto(c, IF state = "Running" THEN "push" ELSE "fail")
    /\ UNCHANGED <<state, errSet, pending, taken, workerVars, netVars>>

\* Mutant: call_mtx is given up between start_request and finish_request.
PushAndUnlock(c) ==
    /\ pc[c] = "push"
    /\ connOpen
    /\ pending' = Append(pending, c)
    /\ callMtx' = None
    /\ Goto(c, "flush")
    /\ UNCHANGED <<state, errSet, answer, taken, workerVars, netVars, calls>>

\* start_request: the id is in the write buffer, the record in the list.
Push(c) ==
    /\ pc[c] = "push"
    /\ connOpen
    /\ pending' = Append(pending, c)
    /\ Goto(c, "flush")
    /\ UNCHANGED <<state, errSet, callMtx, answer, taken, workerVars, netVars, calls>>

\* marshal and finish_request: the request is on the wire, call_mtx is free.
Flush(c) ==
    /\ pc[c] = "flush"
    /\ connOpen
    /\ wire' = Append(wire, c)
    /\ callMtx' = None
    /\ Goto(c, "wait")
    /\ UNCHANGED <<state, errSet, connOpen, byeSent, faults, workerVars, callVars, calls>>

\* A write fails before or after the record was pushed.
WriteFails(c) ==
    /\ pc[c] \in {"push", "flush"}
    /\ "writeFail" \in faults \/ ~connOpen
    /\ Goto(c, "fail")
    /\ UNCHANGED <<state, errSet, callMtx, workerVars, callVars, netVars, calls>>

\* fail(): first every pending call, then the state, then the connection; the
\* failed call returns its error without waiting, though the worker may have
\* popped its record and not told it yet.
FailOne(c) ==
    /\ pc[c] = "fail"
    /\ DrainOne(c)
    /\ UNCHANGED <<state, errSet, callMtx, pc, workerVars, netVars, calls>>

FailState(c) ==
    /\ pc[c] = "fail"
    /\ taken[c] = None
    /\ pending = <<>>
    /\ IF state \in {"Failing", "Failed"}
       THEN /\ Goto(c, "idle")
            /\ callMtx' = None
            /\ UNCHANGED state
       ELSE /\ state' = "Failing"
            /\ Goto(c, "closeConn")
            /\ UNCHANGED callMtx
    /\ UNCHANGED <<errSet, workerVars, callVars, netVars, calls>>

FailClose(c) ==
    /\ pc[c] = "closeConn"
    /\ connOpen' = FALSE
    /\ callMtx' = None
    /\ Goto(c, "idle")
    /\ UNCHANGED <<state, errSet, workerVars, callVars, wire, byeSent, faults, calls>>

\* response_received.wait() returns.
EndCall(c) ==
    /\ pc[c] = "wait"
    /\ answer[c] # "none"
    /\ Goto(c, "idle")
    /\ UNCHANGED <<state, errSet, callMtx, workerVars, callVars, netVars, calls>>

CallerStep(c) ==
    Push(c) \/ Flush(c) \/ WriteFails(c) \/ FailOne(c) \/ FailState(c)
      \/ FailClose(c) \/ EndCall(c)

----------------------------------------------------------------------------
\* The owning thread: connect() and close()

\* start_unlocked in state New: spawn the worker, hold call_mtx until it is known
\* whether the hello succeeded.
Start ==
    /\ pc[Main] = "new"
    /\ callMtx = None
    /\ callMtx' = Main
    /\ state' = "Starting"
    /\ pc' = [pc EXCEPT ![Main] = "starting", ![Worker] = "hello"]
    /\ UNCHANGED <<errSet, workerVars, callVars, netVars, calls>>

StartWait ==
    /\ pc[Main] \in {"starting", "recheck"}
    /\ CondFree
    /\ state = "Starting"
    /\ Goto(Main, "asleep")
    /\ UNCHANGED <<state, errSet, callMtx, workerVars, callVars, netVars, calls>>

\* The hello is over.  If it failed, the error is reported and the worker told.
StartDone ==
    /\ pc[Main] \in {"starting", "recheck"}
    /\ CondFree
    /\ state # "Starting"
    /\ callMtx' = None
    /\ IF state = "Failing"
       THEN state' = "Failed" /\ SignalAndGoto(Main, "up")
       ELSE UNCHANGED state /\ Goto(Main, "up")
    /\ UNCHANGED <<errSet, workerVars, callVars, netVars, calls>>

\* close(), also from the destructor, before or after an earlier close().
BeginClose ==
    /\ pc[Main] \in {"new", "up", "closed"}
    /\ callMtx = None
    /\ callMtx' = Main
    /\ Goto(Main, "closing")
    /\ UNCHANGED <<state, errSet, workerVars, callVars, netVars, calls>>

CloseTwice ==
    /\ pc[Main] = "closing"
    /\ state = "Closed"
    /\ callMtx' = None
    /\ Goto(Main, "closed")
    /\ UNCHANGED <<state, errSet, workerVars, callVars, netVars, calls>>

\* case Failing: the swap that follows fails on the new state and starts over.
CloseFailing ==
    /\ pc[Main] = "closing"
    /\ state = "Failing"
    /\ CondFree
    /\ state' = "Failed"
    /\ SignalAndGoto(Main, "closing")
    /\ UNCHANGED <<errSet, callMtx, workerVars, callVars, netVars, calls>>

\* Mutant: close cuts a running session like any other.
CloseSwapAndCut ==
    /\ pc[Main] = "closing"
    /\ state \in {"New", "Running", "Failed"}
    /\ state' = "Closed"
    /\ Goto(Main, "shut")
    /\ UNCHANGED <<errSet, callMtx, workerVars, callVars, netVars, calls>>

\* The swap to Closed.  A running session says goodbye, another one is cut.
CloseSwap ==
    /\ pc[Main] = "closing"
    /\ state \in {"New", "Running", "Failed"}
    /\ state' = "Closed"
    /\ Goto(Main, IF state = "Running" THEN "bye" ELSE "shut")
    /\ UNCHANGED <<errSet, callMtx, workerVars, callVars, netVars, calls>>

\* Request id 0; a write error is reported and close() goes on.
SendBye ==
    /\ pc[Main] = "bye"
    /\ \/ byeSent' = TRUE
       \/ "writeFail" \in faults /\ UNCHANGED byeSent
    /\ Goto(Main, "join")
    /\ UNCHANGED <<state, errSet, callMtx, connOpen, wire, faults, workerVars, callVars, calls>>

CloseConn ==
    /\ pc[Main] = "shut"
    /\ connOpen' = FALSE
    /\ Goto(Main, "join")
    /\ UNCHANGED <<state, errSet, callMtx, wire, byeSent, faults, workerVars, callVars, calls>>

Join ==
    /\ pc[Main] = "join"
    /\ pc[Worker] \in {"none", "exited"}
    /\ connOpen' = FALSE
    /\ callMtx' = None
    /\ Goto(Main, "closed")
    /\ UNCHANGED <<state, errSet, wire, byeSent, faults, workerVars, callVars, calls>>

\* What the thread does without being asked: everything but opening and closing.
MainStep ==
    StartWait \/ StartDone \/ CloseTwice \/ CloseFailing \/ CloseSwap
      \/ SendBye \/ CloseConn \/ Join

----------------------------------------------------------------------------
\* A thread in wait()

WaitSleep(w) ==
    /\ pc[w] \in {"idle", "recheck"}
    /\ Connected
    /\ CondFree
    /\ state \notin {"Closed", "Failing", "Failed"}
    /\ Goto(w, "asleep")
    /\ UNCHANGED <<state, errSet, callMtx, workerVars, callVars, netVars, calls>>

\* The session is over.  Failing: report *err, store Failed, signal the worker;
\* a null err is dereferenced.
WaitDone(w) ==
    /\ pc[w] \in {"idle", "recheck"}
    /\ Connected
    /\ CondFree
    /\ \/ state \in {"Closed", "Failed"} /\ Goto(w, "done") /\ UNCHANGED state
       \/ state = "Failing" /\ errSet
            /\ state' = "Failed" /\ SignalAndGoto(w, "done")
       \/ state = "Failing" /\ ~errSet /\ Goto(w, "crashed") /\ UNCHANGED state
    /\ UNCHANGED <<errSet, callMtx, workerVars, callVars, netVars, calls>>

----------------------------------------------------------------------------
\* The input worker

\* client_hello succeeds: Starting becomes Running, connect() is signalled.
HelloDone ==
    /\ pc[Worker] = "hello"
    /\ state' = IF state = "Starting" THEN "Running" ELSE state
    /\ SignalAndGoto(Worker, "read")
    /\ UNCHANGED <<errSet, callMtx, workerVars, callVars, netVars, calls>>

\* The worker reports an error: its handler runs, then the worker does l.
Report(l) ==
    /\ Goto(Worker, "handler")
    /\ after' = l

HelloFails ==
    /\ pc[Worker] = "hello"
    /\ faults \cap {"hangup", "writeFail", "bad"} # {}
    /\ Report("exit")
    /\ UNCHANGED <<state, errSet, callMtx, held, reading, callVars, netVars, calls>>

\* Mutant: the record stays in the list until its reply has been read.
ReadReplyPeek ==
    /\ pc[Worker] = "read"
    /\ wire # <<>> /\ pending # <<>>
    /\ wire' = Tail(wire)
    /\ held' = Head(pending)
    /\ reading' = Head(wire)
    /\ Goto(Worker, "unmarshal")
    /\ UNCHANGED <<state, errSet, callMtx, after, callVars, connOpen, byeSent, faults, calls>>

\* handle_reply, handle_chunked_error_reply: the type byte is read, the oldest
\* record popped; with no record the reply is unexpected.
ReadReply ==
    /\ pc[Worker] = "read"
    /\ wire # <<>>
    /\ wire' = Tail(wire)
    /\ IF pending = <<>>
       THEN Report("exit") /\ UNCHANGED <<held, reading, pending>>
       ELSE /\ held' = Head(pending)
            /\ reading' = Head(wire)
            /\ pending' = Tail(pending)
            /\ \/ Goto(Worker, "unmarshal")
               \/ "errorReply" \in faults /\ Goto(Worker, "readText")
            /\ UNCHANGED after
    /\ UNCHANGED <<state, errSet, callMtx, answer, taken, connOpen, byeSent, faults, calls>>

\* Mutant: the reply is read and the caller not told.
FinishReplySilently ==
    /\ pc[Worker] \in InReply
    /\ held' = None
    /\ reading' = None
    /\ Goto(Worker, "read")
    /\ UNCHANGED <<state, errSet, callMtx, after, callVars, netVars, calls>>

\* The rest of the reply is read into the popped record and its caller told.
FinishReply ==
    /\ pc[Worker] \in InReply
    /\ answer' = [answer EXCEPT ![held] =
         CASE held # reading -> "other's"
           [] pc[Worker] = "unmarshal" -> "reply"
           [] pc[Worker] = "readText" -> "error"]
    /\ held' = None
    /\ reading' = None
    /\ Goto(Worker, "read")
    /\ UNCHANGED <<state, errSet, callMtx, after, pending, taken, netVars, calls>>

\* The rest cannot be read or decoded: the handler runs while the record is
\* popped and its caller not yet told.
ReplyFails ==
    /\ pc[Worker] \in InReply
    /\ "badReply" \in faults \/ ~connOpen
    /\ Report(IF pc[Worker] = "unmarshal" THEN "reply" ELSE "errorReply")
    /\ UNCHANGED <<state, errSet, callMtx, held, reading, callVars, netVars, calls>>

\* ServerGoodbye: expected once the state is Closed, an error before.
ReadGoodbye ==
    /\ pc[Worker] = "read"
    /\ IF state = "Closed" THEN Goto(Worker, "exited") /\ UNCHANGED after ELSE Report("exit")
    /\ UNCHANGED <<state, errSet, callMtx, held, reading, callVars, netVars, calls>>

\* The server answers the goodbye after every request that came before it.
ByeAnswered == byeSent /\ wire = <<>> /\ ReadGoodbye

GoodbyeUnasked == "goodbye" \in faults /\ ReadGoodbye

\* Any other message that ends the session, or a read error.
ReadBad ==
    /\ pc[Worker] = "read"
    /\ faults \cap {"bad", "hangup"} # {}
    /\ Report("exit")
    /\ UNCHANGED <<state, errSet, callMtx, held, reading, callVars, netVars, calls>>

ReadClosed ==
    /\ pc[Worker] = "read"
    /\ ~connOpen
    /\ Report("exit")
    /\ UNCHANGED <<state, errSet, callMtx, held, reading, callVars, netVars, calls>>

----------------------------------------------------------------------------
\* The error handler of the worker

\* Mutant: the error is not published.
HandlerLockOnly ==
    /\ pc[Worker] = "handler"
    /\ Goto(Worker, "drain")
    /\ UNCHANGED <<state, errSet, callMtx, workerVars, callVars, netVars, calls>>

\* Lock cond_mutex, publish the error.
HandlerLock ==
    /\ pc[Worker] = "handler"
    /\ errSet' = TRUE
    /\ Goto(Worker, "drain")
    /\ UNCHANGED <<state, callMtx, workerVars, callVars, netVars, calls>>

HandlerDrain ==
    /\ pc[Worker] = "drain"
    /\ DrainOne(Worker)
    /\ UNCHANGED <<state, errSet, callMtx, pc, workerVars, netVars, calls>>

\* Closed, Failed: nobody will read the error; the handler returns, and a worker
\* that was inside a reply still completes the call it had popped.
HandlerLeave ==
    /\ state \in {"Closed", "Failed"}
    /\ errSet' = FALSE
    /\ answer' = CASE after = "exit" -> answer
                  [] after = "reply" -> [answer EXCEPT ![held] = "unread"]
                  [] after = "errorReply" -> [answer EXCEPT ![held] = "error"]
    /\ held' = None
    /\ reading' = None
    /\ Goto(Worker, "exited")
    /\ UNCHANGED <<state, after>>

\* Otherwise the state becomes Failing and every sleeper is woken, unless it was
\* Failing already; then the handler sleeps.
HandlerSleep ==
    /\ state \notin {"Closed", "Failed"}
    /\ state' = "Failing"
    /\ IF state = "Failing"
       THEN Goto(Worker, "asleep")
       ELSE BroadcastAndGoto(Worker, "asleep")
    /\ UNCHANGED <<errSet, answer, workerVars>>

HandlerDecide ==
    /\ \/ pc[Worker] = "drain" /\ taken[Worker] = None /\ pending = <<>>
       \/ pc[Worker] = "recheck"
    /\ HandlerLeave \/ HandlerSleep
    /\ UNCHANGED <<callMtx, pending, taken, netVars, calls>>

\* What the worker does in a session without faults, or about one.
WorkerStep ==
    HelloDone \/ ReadReply \/ FinishReply \/ ByeAnswered \/ ReadClosed
      \/ HandlerLock \/ HandlerDrain \/ HandlerDecide

Fault == HelloFails \/ ReplyFails \/ GoodbyeUnasked \/ ReadBad

----------------------------------------------------------------------------
\* The condition variable may wake a thread for no reason.
SpuriousWake == \E t \in Sleepers :
    /\ Goto(t, "recheck")
    /\ UNCHANGED <<state, errSet, callMtx, workerVars, callVars, netVars, calls>>

Next ==
    \/ \E c \in Callers : BeginCall(c) \/ CallerStep(c)
    \/ \E w \in Watchers : WaitSleep(w) \/ WaitDone(w)
    \/ Start \/ BeginClose \/ MainStep
    \/ WorkerStep \/ Fault
    \/ SpuriousWake

Spec == Init /\ [][Next]_vars

\* Threads are scheduled and the server answers.  Nothing is assumed about
\* opening, calling, closing, faults or spurious wake-ups.
Fairness ==
    /\ \A c \in Callers :
         /\ WF_vars(Push(c) \/ Flush(c) \/ FailOne(c) \/ FailState(c))
         /\ WF_vars(FailClose(c) \/ EndCall(c))
    /\ \A w \in Watchers : WF_vars(pc[w] = "recheck" /\ (WaitSleep(w) \/ WaitDone(w)))
    /\ WF_vars(MainStep)
    /\ WF_vars(WorkerStep)

LiveSpec == Spec /\ Fairness

----------------------------------------------------------------------------
\* Properties

StateTypes ==
    /\ state \in {"New", "Starting", "Running", "Closed", "Failing", "Failed"}
    /\ errSet \in BOOLEAN
    /\ connOpen \in BOOLEAN
    /\ byeSent \in BOOLEAN
    /\ faults \in FaultSets
    /\ callMtx \in Callers \cup {Main, None}
    /\ pending \in Seq(Callers)
    /\ wire \in Seq(Callers)
    /\ answer \in [Callers -> {"none", "reply", "error", "unread", "other's"}]
    /\ taken \in [Drainers -> Callers \cup {None}]
    /\ held \in Callers \cup {None}
    /\ reading \in Callers \cup {None}
    /\ after \in {"exit", "reply", "errorReply"}
    /\ calls \in [Callers -> 0..MaxCalls]
Places ==
    /\ DOMAIN pc = Threads
    /\ \A c \in Callers : pc[c] \in {"idle", "push", "flush", "wait", "fail", "closeConn"}
    /\ \A w \in Watchers : pc[w] \in {"idle", "asleep", "recheck", "done", "crashed"}
    /\ pc[Main] \in {"new", "starting", "asleep", "recheck", "up", "closing", "bye",
                     "shut", "join", "closed"}
    /\ pc[Worker] \in {"none", "hello", "read", "unmarshal", "readText", "handler",
                       "drain", "asleep", "recheck", "exited"}
TypeOK == StateTypes /\ Places

\* A failed write runs fail() on a calling thread next to the worker; some of the
\* properties below need that none does.
WritesWork == "writeFail" \notin faults

\* The position in the list is all that ties a reply to its call, and as long as
\* no write fails it is enough: a call never completes with the reply to another
\* one (client.cc:466-483, 528-547; the order of client.cc:131-145 and of flush).
RepliesMatch == WritesWork => \A c \in Callers : answer[c] # "other's"

\* A call that waits for its reply and is not failed gets its own result
\* (e2e_test.cc:634-639).
WaiterGetsOwnReply == \A c \in Callers : pc[c] = "wait" => answer[c] # "other's"

\* Where the worker can be in each state of the session, and who holds call_mtx,
\* as long as no write fails: what makes the list follow the wire.
MtxOwners ==
    /\ \A c \in Callers :
         callMtx = c <=> pc[c] \in {"push", "flush", "fail", "closeConn"}
    /\ callMtx = Main <=>
         pc[Main] \in {"starting", "asleep", "recheck", "closing", "bye", "shut", "join"}
WorkerFollowsState ==
    /\ state = "New" => pc[Worker] = "none" /\ pc[Main] \in {"new", "closing"} /\ connOpen
    /\ state = "Starting" =>
         /\ pc[Worker] \in {"hello", "handler", "drain"}
         /\ pc[Main] \in {"starting", "asleep", "recheck"}
         /\ connOpen
    /\ state = "Running" =>
         pc[Worker] \in InReply \cup {"read", "handler", "drain"} /\ connOpen
    /\ state \in {"Failing", "Failed"} =>
         pc[Worker] \in {"none", "asleep", "recheck", "exited"}
    /\ state = "Closed" =>
         pc[Main] \in {"bye", "shut", "join"} \/ pc[Worker] \in {"none", "exited"}
    /\ pc[Worker] = "hello" => state = "Starting"
    /\ pc[Main] = "new" => state = "New"
    /\ pc[Main] \in {"bye", "shut", "join"} => state = "Closed"
CallersFollowWorker ==
    /\ \A c \in Callers :
         /\ pc[c] \in {"push", "flush"} => connOpen /\ pc[Worker] \notin {"none", "hello"}
         /\ pc[c] = "fail" => state \in {"Closed", "Failing", "Failed"}
         /\ pc[c] = "closeConn" => state \in {"Failing", "Failed"}
    /\ pc[Worker] \in {"none", "hello"} => pending = <<>> /\ wire = <<>>

\* While the worker reads, the list is the requests on the wire plus the one the
\* owner of call_mtx has pushed and not flushed (client.cc:131-145, 439-451).
Unsent == IF callMtx \in Callers /\ pc[callMtx] = "flush" THEN <<callMtx>> ELSE <<>>
ListFollowsWire ==
    /\ pc[Worker] \in InReply \cup {"read"} => pending = wire \o Unsent
    /\ pc[Worker] \in InReply => held = reading /\ held \in Callers

\* The inductive invariant of a session whose writes do not fail: a reply read
\* at any time belongs to the record at the head of the list (client.cc:123-146,
\* 194-210, 290-317, 439-483).
SyncInv == TypeOK /\ MtxOwners /\ WorkerFollowsState /\ CallersFollowWorker /\ ListFollowsWire
SessionInv == WritesWork => SyncInv

\* The record of a caller that waits is in one place until its call is answered: in
\* the list, or popped by one thread and out of everybody else's reach; as long as
\* no write fails, in a frame that is alive until that thread has told the caller
\* (client.cc:439-464, 466-483).
EachCallHasOneRecord ==
    /\ \A c \in Callers : pc[c] = "wait" =>
         \/ answer[c] # "none"
         \/ held = c
         \/ \E t \in Drainers : taken[t] = c
         \/ \E i \in DOMAIN pending : pending[i] = c
    /\ WritesWork =>
         /\ \A i, j \in DOMAIN pending : pending[i] = pending[j] => i = j
         /\ held # None =>
              /\ pc[held] = "wait"
              /\ answer[held] = "none"
              /\ \A i \in DOMAIN pending : pending[i] # held
         /\ \A t \in Drainers : taken[t] # None =>
              /\ pc[taken[t]] \in {"flush", "wait"}
              /\ answer[taken[t]] = "none"
              /\ taken[t] # held
              /\ \A u \in Drainers : taken[u] = taken[t] => u = t
              /\ \A i \in DOMAIN pending : pending[i] # taken[t]

\* Client::err points into the stack of the error handler: it is null unless the
\* worker is inside the handler; and wait() and connect() dereference it in state
\* Failing, so it must be set in that state (client.cc:68-69, 283-284, 295-310).
\* With no failed write it is, but in one case: the worker has ended, close() was
\* called, and a later call, refused, has run fail(), which turns Closed into
\* Failing (client.cc:199-207); a thread that enters wait() then reads a null err.
ErrorOutlivesItsReaders ==
    /\ errSet => pc[Worker] \in {"drain", "asleep", "recheck"}
    /\ WritesWork /\ state = "Failing" => errSet \/ pc[Worker] \in {"none", "exited"}

\* The handler broadcasts before it sleeps, so the single signal by which close,
\* wait and connect tell it to go on cannot be taken by another sleeper
\* (client.cc:71, 98, 286, 310).
HandlerSleepsAlone == WritesWork /\ pc[Worker] = "asleep" => Sleepers = {Worker}

\* Goodbye waits for its turn: with a healthy transport no call is cut off by
\* close (client.cc:112-116; e2e_test.cc:386-427).
CloseLetsCallsFinish == faults = {} => \A c \in Callers : answer[c] \in {"none", "reply"}

\* With a healthy transport every call returns, close() or not.
CallsReturn == \A c \in Callers : faults = {} /\ pc[c] # "idle" ~> pc[c] = "idle"

\* close returns, whatever the peer did, unless its goodbye cannot be written
\* (client.cc:75-121).
CloseReturns == WritesWork /\ pc[Main] = "closing" ~> pc[Main] = "closed"

\* The failure of the session reaches every call in the list and every thread
\* asleep in wait() (client.cc:296, 310; e2e_test.cc:429-491).  The call whose
\* record the worker has popped is told only when the handler returns.
FailureWakesAll ==
    /\ \A c \in Callers :
         pc[Worker] = "handler" /\ pc[c] = "wait" /\ held # c ~> pc[c] = "idle"
    /\ \A w \in Watchers :
         WritesWork /\ pc[Worker] = "drain" /\ pc[w] = "asleep" /\ state = "Running"
           ~> pc[w] \in {"done", "crashed"} \/ state = "Closed"

\* A call made once the goodbye has arrived fails and does not hang
\* (e2e_test.cc:493-535).
CallAfterGoodbyeReturns == \A c \in Callers :
    pc[Worker] = "handler" /\ pc[c] = "push" ~> pc[c] = "idle"
==============================================================================
