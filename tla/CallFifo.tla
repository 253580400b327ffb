------------------------------- MODULE CallFifo -------------------------------
(***************************************************************************)
(* The list of calls that wait for a reply, as the rest of the client uses *)
(* it: a queue of records in the order in which they were pushed.  A reply *)
(* carries no call number, so this order is all that ties a reply to its   *)
(* call.                                                                   *)
(***************************************************************************)
EXTENDS Sequences

CONSTANTS
    Records,     \* the CallData records callers may push
    Nil          \* the null pointer

VARIABLES
    queue,       \* the records, oldest first
    taken,       \* what the last pop returned
    turn         \* flips with every pop, so that each one is a step

vars == <<queue, taken, turn>>

Init == queue = <<>> /\ taken = Nil /\ turn = FALSE

Push(r) ==
    /\ \A i \in DOMAIN queue : queue[i] # r
    /\ queue' = Append(queue, r)
    /\ UNCHANGED <<taken, turn>>

Pop ==
    /\ queue # <<>>
    /\ taken' = Head(queue)
    /\ turn' = ~turn
    /\ queue' = Tail(queue)

PopEmpty ==
    /\ queue = <<>>
    /\ taken' = Nil
    /\ turn' = ~turn
    /\ UNCHANGED queue

Next == Pop \/ PopEmpty \/ \E r \in Records : Push(r)

Spec == Init /\ [][Next]_vars
==============================================================================
