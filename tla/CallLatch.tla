------------------------------ MODULE CallLatch ------------------------------
(***************************************************************************)
(* What Client::Waiter promises to the two threads that share a CallData:  *)
(* the caller that owns the frame the record lives in, and the thread that *)
(* completes the call.  Every call is answered once, and a caller leaves a *)
(* call only after the answer to that very call is finished, so nobody     *)
(* touches the record of a call that has returned.  Where writes can fail, *)
(* one call may break the promise: the one whose own write failed returns  *)
(* at once, and after it no call is begun.                                 *)
(***************************************************************************)
EXTENDS Naturals

CONSTANTS
    Callers,     \* threads that make calls
    NoCall,      \* no caller
    MaxCalls     \* bound: calls made by one caller

VARIABLES
    writesWork,  \* FALSE if a write on the connection may fail
    dropped,     \* the caller whose call returned without its answer, or NoCall
    calls,       \* calls[c]: calls caller c has made so far
    answers,     \* answers[c]: calls of c whose completion is finished
    returns      \* returns[c]: calls of c that have returned

vars == <<writesWork, dropped, calls, answers, returns>>

Init ==
    /\ writesWork \in BOOLEAN
    /\ dropped = NoCall
    /\ calls = [c \in Callers |-> 0]
    /\ answers = [c \in Callers |-> 0]
    /\ returns = [c \in Callers |-> 0]

Begin(c) ==
    /\ dropped = NoCall
    /\ calls[c] = returns[c]
    /\ calls[c] < MaxCalls
    /\ calls' = [calls EXCEPT ![c] = @ + 1]
    /\ UNCHANGED <<writesWork, dropped, answers, returns>>

Answer(c) ==
    /\ answers[c] < calls[c]
    /\ answers' = [answers EXCEPT ![c] = @ + 1]
    /\ UNCHANGED <<writesWork, dropped, calls, returns>>

Return(c) ==
    /\ returns[c] < answers[c]
    /\ returns' = [returns EXCEPT ![c] = @ + 1]
    /\ UNCHANGED <<writesWork, dropped, calls, answers>>

\* The call of c ends on a failed write, before, while or after it is answered.
Drop(c) ==
    /\ ~writesWork
    /\ dropped = NoCall
    /\ dropped' = c
    /\ returns' = [returns EXCEPT ![c] = calls[c]]
    /\ UNCHANGED <<writesWork, calls, answers>>

Next == \E c \in Callers : Begin(c) \/ Answer(c) \/ Return(c) \/ Drop(c)

Spec == Init /\ [][Next]_vars

\* A call that was begun is answered, and an answered call returns.
LiveSpec ==
    /\ Spec
    /\ \A c \in Callers : WF_vars(Answer(c)) /\ WF_vars(Return(c))
==============================================================================
