------------------------------ MODULE CallWaiter ------------------------------
(***************************************************************************)
(* Client::Waiter (client.h:59-64, client.cc:690-709): the latch inside a  *)
(* CallData on which a caller sleeps until its call is completed.  The     *)
(* CallData lives in the caller's stack frame, so it dies when wait()      *)
(* returns and the same memory is the record of the caller's next call.    *)
(* notify() is three steps, in an order that matters: store 1, wake the    *)
(* sleeper, store 2; wait() sleeps on 0, spins on 1 and returns on 2.      *)
(*                                                                         *)
(* A completing thread first takes the record out of the pending list, so  *)
(* that a call has one completer; any thread can be one (the input worker, *)
(* a refused caller inside Client::fail, or the caller whose write failed, *)
(* which completes the pending calls, its own among them).                 *)
(*                                                                         *)
(* A call whose write fails returns without wait() (client.h:127-141): the *)
(* one way out of a frame that does not look at the latch.  It happens at  *)
(* most once in the life of a client: fail() leaves it Failing before it   *)
(* frees call_mtx, and later calls are refused before they push a record.  *)
(* Refused calls queue nothing and never wait, so they have no place here  *)
(* but that of a completing thread.                                        *)
(***************************************************************************)
EXTENDS Naturals

CONSTANTS
    Callers,     \* threads that make calls
    Notifiers,   \* threads that complete calls
    NoCall,      \* no caller: nothing to complete, no call dropped
    MaxCalls     \* bound: calls made by one caller

ASSUME NoCallAssumption == NoCall \notin Callers
ASSUME MaxCallsAssumption == MaxCalls \in Nat

\* Threads that can be inside notify().
Completers == Notifiers \cup Callers

VARIABLES
    writesWork,  \* FALSE if a write on the connection may fail
    dropped,     \* the caller whose failed write ended its call, or NoCall
    latch,       \* latch[c]: Waiter::state in the frame of caller c
    callerPc,    \* callerPc[c]: where caller c is in call() or wait()
    pending,     \* callers whose record is in the pending list
    notifPc,     \* notifPc[n]: where thread n is in notify()
    notifFor,    \* notifFor[n]: the caller whose record n completes
    notifCall,   \* notifCall[n]: which call of that caller it is
    calls,       \* calls[c]: calls of c that have a record
    answers,     \* answers[c]: how many of them were completed
    returns      \* returns[c]: how many of them returned

callerVars == <<callerPc, calls, returns>>
notifVars == <<notifPc, notifFor, notifCall, answers>>
vars == <<writesWork, dropped, latch, pending, callerVars, notifVars>>

Latch == INSTANCE CallLatch

Init ==
    /\ writesWork \in BOOLEAN
    /\ dropped = NoCall
    /\ latch = [c \in Callers |-> 0]
    /\ callerPc = [c \in Callers |-> "out"]
    /\ pending = {}
    /\ notifPc = [n \in Completers |-> "out"]
    /\ notifFor = [n \in Completers |-> NoCall]
    /\ notifCall = [n \in Completers |-> 0]
    /\ calls = [c \in Callers |-> 0]
    /\ answers = [c \in Callers |-> 0]
    /\ returns = [c \in Callers |-> 0]

----------------------------------------------------------------------------
\* The caller

\* Places of a caller that holds call_mtx.
Sending == {"start", "send", "fail"}

\* A new frame, CallData{} with state = 0, under call_mtx; check_running lets
\* the call pass as long as no write has failed.
Call(c) ==
    /\ callerPc[c] = "out"
    /\ calls[c] < MaxCalls
    /\ dropped = NoCall
    /\ \A d \in Callers : callerPc[d] \notin Sending
    /\ latch' = [latch EXCEPT ![c] = 0]
    /\ callerPc' = [callerPc EXCEPT ![c] = "start"]
    /\ UNCHANGED <<writesWork, dropped, pending, calls, returns, notifVars>>

\* The id is written and the record queued; the arguments are still to be sent.
Push(c) ==
    /\ callerPc[c] = "start"
    /\ calls' = [calls EXCEPT ![c] = @ + 1]
    /\ pending' = pending \cup {c}
    /\ callerPc' = [callerPc EXCEPT ![c] = "send"]
    /\ UNCHANGED <<writesWork, dropped, latch, returns, notifVars>>

\* The request is written and flushed: the call goes on to wait().
Sent(c) ==
    /\ callerPc[c] = "send"
    /\ callerPc' = [callerPc EXCEPT ![c] = "load"]
    /\ UNCHANGED <<writesWork, dropped, latch, pending, calls, returns, notifVars>>

\* The id, the arguments or the flush fail: the call goes into fail().
WriteFails(c) ==
    /\ ~writesWork
    /\ callerPc[c] \in {"start", "send"}
    /\ callerPc' = [callerPc EXCEPT ![c] = "fail"]
    /\ UNCHANGED <<writesWork, dropped, latch, pending, calls, returns, notifVars>>

\* fail() has found the list empty: the call returns without a look at its
\* latch, which another thread may be about to store to.
FailReturn(c) ==
    /\ callerPc[c] = "fail"
    /\ pending = {}
    /\ notifPc[c] = "out"
    /\ callerPc' = [callerPc EXCEPT ![c] = "out"]
    /\ dropped' = c
    /\ returns' = [returns EXCEPT ![c] = calls[c]]
    /\ UNCHANGED <<writesWork, latch, pending, calls, notifVars>>

\* Mutant: a wait() that takes the first store of notify() for the last.
FinishedAtOne(c) == latch[c] # 0

\* The value of the latch on which wait() returns.
Finished(c) == latch[c] = 2

\* s = state.load(): 0 leads to the wait, 2 to the return, 1 spins.
LoadZero(c) ==
    /\ callerPc[c] = "load"
    /\ latch[c] = 0
    /\ callerPc' = [callerPc EXCEPT ![c] = "block"]
    /\ UNCHANGED <<writesWork, dropped, latch, pending, calls, returns, notifVars>>

\* Mutant: wait() counts the answer but stays in its loop.
LoadFinishedAgain(c) ==
    /\ callerPc[c] = "load"
    /\ Finished(c)
    /\ returns' = [returns EXCEPT ![c] = @ + 1]
    /\ UNCHANGED <<writesWork, dropped, latch, pending, callerPc, calls, notifVars>>

LoadFinished(c) ==
    /\ callerPc[c] = "load"
    /\ Finished(c)
    /\ callerPc' = [callerPc EXCEPT ![c] = "out"]
    /\ returns' = [returns EXCEPT ![c] = @ + 1]
    /\ UNCHANGED <<writesWork, dropped, latch, pending, calls, notifVars>>

\* Mutant: a sleep that does not compare the latch again.
BlockWithoutCompare(c) ==
    /\ callerPc[c] = "block"
    /\ callerPc' = [callerPc EXCEPT ![c] = "asleep"]
    /\ UNCHANGED <<writesWork, dropped, latch, pending, calls, returns, notifVars>>

\* state.wait(0) sleeps only if the latch still holds 0.
Block(c) ==
    /\ callerPc[c] = "block"
    /\ callerPc' = [callerPc EXCEPT ![c] = IF latch[c] = 0 THEN "asleep" ELSE "load"]
    /\ UNCHANGED <<writesWork, dropped, latch, pending, calls, returns, notifVars>>

----------------------------------------------------------------------------
\* The completing thread

Pop(n) ==
    /\ notifPc[n] = "out"
    /\ \E c \in pending :
         /\ pending' = pending \ {c}
         /\ notifFor' = [notifFor EXCEPT ![n] = c]
         /\ notifCall' = [notifCall EXCEPT ![n] = calls[c]]
    /\ notifPc' = [notifPc EXCEPT ![n] = "store1"]
    /\ UNCHANGED <<writesWork, dropped, latch, callerVars, answers>>

StoreOne(n) ==
    /\ notifPc[n] = "store1"
    /\ latch' = [latch EXCEPT ![notifFor[n]] = 1]
    /\ notifPc' = [notifPc EXCEPT ![n] = "wake"]
    /\ UNCHANGED <<writesWork, dropped, pending, callerVars, notifFor, notifCall, answers>>

NotifyOne(n) ==
    /\ notifPc[n] = "wake"
    /\ callerPc' = [callerPc EXCEPT ![notifFor[n]] = IF @ = "asleep" THEN "load" ELSE @]
    /\ notifPc' = [notifPc EXCEPT ![n] = "store2"]
    /\ UNCHANGED <<writesWork, dropped, latch, pending, calls, returns, notifFor, notifCall, answers>>

StoreTwo(n) ==
    /\ notifPc[n] = "store2"
    /\ latch' = [latch EXCEPT ![notifFor[n]] = 2]
    /\ answers' = [answers EXCEPT ![notifFor[n]] = @ + 1]
    /\ notifPc' = [notifPc EXCEPT ![n] = "out"]
    /\ notifFor' = [notifFor EXCEPT ![n] = NoCall]
    /\ notifCall' = [notifCall EXCEPT ![n] = 0]
    /\ UNCHANGED <<writesWork, dropped, pending, callerVars>>

----------------------------------------------------------------------------
\* fail() takes the pending records one by one, with its own among them.
FailPop(c) == callerPc[c] = "fail" /\ Pop(c)

CallerStep(c) ==
    \/ Push(c) \/ Sent(c) \/ WriteFails(c) \/ FailPop(c) \/ FailReturn(c)
    \/ LoadZero(c) \/ LoadFinished(c) \/ Block(c)

NotifyStep(n) == StoreOne(n) \/ NotifyOne(n) \/ StoreTwo(n)

Next ==
    \/ \E c \in Callers : Call(c) \/ CallerStep(c)
    \/ \E n \in Notifiers : Pop(n)
    \/ \E n \in Completers : NotifyStep(n)

Spec == Init /\ [][Next]_vars

\* Threads are scheduled; a write ends, well or with an error; a pending call
\* has some thread that completes it.
LiveSpec ==
    /\ Spec
    /\ \A c \in Callers : WF_vars(CallerStep(c))
    /\ \A n \in Completers : WF_vars(NotifyStep(n))
    /\ WF_vars(\E n \in Notifiers : Pop(n))

----------------------------------------------------------------------------
TypeOK ==
    /\ writesWork \in BOOLEAN
    /\ dropped \in Callers \cup {NoCall}
    /\ latch \in [Callers -> 0..2]
    /\ callerPc \in [Callers -> {"out", "load", "block", "asleep"} \cup Sending]
    /\ pending \subseteq Callers
    /\ notifPc \in [Completers -> {"out", "store1", "wake", "store2"}]
    /\ notifFor \in [Completers -> Callers \cup {NoCall}]
    /\ notifCall \in [Completers -> 0..MaxCalls]
    /\ calls \in [Callers -> 0..MaxCalls]
    /\ answers \in [Callers -> Nat]
    /\ returns \in [Callers -> 0..MaxCalls]

\* A thread inside notify() works on the record of a call that has not
\* returned, and never on the next call made from the same stack memory: the
\* reason for the third value of the latch (client.cc:692-694, 704-707).  The
\* one exception is the call whose own write failed: it returns past the latch
\* (client.h:127-141) while a thread that popped its record may still store
\* to it.  While writes work there is none.
FrameOutlivesNotify ==
    \A n \in Completers : notifPc[n] # "out" =>
        /\ notifCall[n] = calls[notifFor[n]]
        /\ \/ callerPc[notifFor[n]] # "out"
           \/ ~writesWork /\ notifFor[n] = dropped

\* The call a thread completes is under way and not answered, unless its
\* failed write has ended it already (client.cc:453-464).
BeingCompleted(c) ==
    /\ answers[c] + 1 = calls[c]
    /\ IF callerPc[c] = "out"
       THEN c = dropped /\ returns[c] = calls[c]
       ELSE callerPc[c] # "start" /\ returns[c] = answers[c]

\* The strengthening that makes the two facts above inductive: a record is
\* pending, or in the hands of one notifier, or finished, and the latch says
\* which; the counters of the caller follow (client.cc:690-709, 439-451).
WaiterInv ==
    /\ TypeOK
    /\ \A n \in Completers :
         \/ /\ notifPc[n] = "out"
            /\ notifFor[n] = NoCall
         \/ /\ notifPc[n] # "out"
            /\ notifFor[n] \in Callers \ pending
            /\ notifCall[n] = calls[notifFor[n]]
            /\ latch[notifFor[n]] = IF notifPc[n] = "store1" THEN 0 ELSE 1
            /\ BeingCompleted(notifFor[n])
    /\ \A n, m \in Completers :
         notifFor[n] = notifFor[m] /\ notifFor[n] # NoCall => n = m
    /\ \A c \in pending :
         callerPc[c] # "out" /\ latch[c] = 0 /\ BeingCompleted(c)
    /\ \A c \in Callers :
         /\ answers[c] \in {calls[c], calls[c] - 1}
         /\ callerPc[c] = "start" => calls[c] < MaxCalls /\ latch[c] = 0
         /\ callerPc[c] \in {"out", "start"} => returns[c] = calls[c]
         /\ callerPc[c] \in {"send", "load", "block", "asleep"} => returns[c] + 1 = calls[c]
         /\ callerPc[c] = "fail" => returns[c] \in {calls[c], calls[c] - 1} /\ ~writesWork
         /\ callerPc[c] \in {"out", "start"} /\ c # dropped => answers[c] = calls[c]
         /\ callerPc[c] # "out" /\ latch[c] = 2 => answers[c] = calls[c]
         /\ callerPc[c] = "fail" /\ returns[c] = calls[c] => answers[c] = calls[c]
    /\ \A c, d \in Callers :
         callerPc[c] \in Sending /\ callerPc[d] \in Sending => c = d
    /\ dropped # NoCall =>
         /\ ~writesWork
         /\ pending = {}
         /\ \A c \in Callers : callerPc[c] \notin Sending

\* Waiter implements the latch: each call answered once, each return after the
\* completion of that call is over, but for the one call whose own write
\* failed (client.cc:690-709, client.h:127-141).
ImplementsLatch == Latch!Spec

\* No wake-up is lost between the load of 0 and the sleep, so every call
\* returns (client.cc:697-709).
ImplementsLiveLatch == Latch!LiveSpec
==============================================================================
