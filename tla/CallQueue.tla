------------------------------ MODULE CallQueue ------------------------------
(***************************************************************************)
(* The intrusive list of pending calls (client.h:66-67, 98-99,             *)
(* client.cc:138-146, 439-451): head and tail pointers of the Client and a *)
(* next pointer inside each CallData.  Push and pop run under data_mtx, so *)
(* each is one step.  The records live in stack frames: a popped record    *)
(* keeps a stale next pointer, its memory is given back when the call      *)
(* returns, and the next call of that thread puts a new record there.      *)
(***************************************************************************)
EXTENDS Sequences, Naturals

CONSTANTS
    Records,     \* the frames that hold a CallData, one per calling thread
    Nil          \* the null pointer

ASSUME NilAssumption == Nil \notin Records

VARIABLES
    head, tail,  \* Client::head, Client::tail
    next,        \* next[r]: CallData::next in frame r
    taken,       \* what the last pop_call_data returned
    turn,        \* history: flips with every pop_call_data
    inHand,      \* records popped and not yet completed
    queued       \* history: the records pushed and not popped, in order

vars == <<head, tail, next, taken, turn, inHand, queued>>

Queued == {queued[i] : i \in DOMAIN queued}

Init ==
    /\ head = Nil
    /\ tail = Nil
    /\ next = [r \in Records |-> Nil]
    /\ taken = Nil
    /\ turn = FALSE
    /\ inHand = {}
    /\ queued = <<>>

\* Mutant: a push that leaves the head of an empty list alone.
PushTailOnly(r) ==
    /\ r \notin Queued \cup inHand
    /\ next' = [next EXCEPT ![r] = Nil]
    /\ tail' = r
    /\ queued' = Append(queued, r)
    /\ UNCHANGED <<head, taken, turn, inHand>>

\* A new call: CallData{} has next = nil, then the tail of start_request.
Push(r) ==
    /\ r \notin Queued \cup inHand
    /\ head' = IF head = Nil THEN r ELSE head
    /\ next' = [q \in Records |-> IF q = tail THEN r ELSE IF q = r THEN Nil ELSE next[q]]
    /\ tail' = r
    /\ queued' = Append(queued, r)
    /\ UNCHANGED <<taken, turn, inHand>>

\* Mutant: a pop that leaves the tail pointing at the last record it removed.
PopKeepTail ==
    /\ head # Nil
    /\ taken' = head
    /\ turn' = ~turn
    /\ head' = next[head]
    /\ inHand' = inHand \cup {head}
    /\ queued' = IF Len(queued) = 0 THEN queued ELSE Tail(queued)
    /\ UNCHANGED <<tail, next>>

\* pop_call_data: the oldest record and the list's new ends.
Pop ==
    /\ head # Nil
    /\ taken' = head
    /\ turn' = ~turn
    /\ tail' = IF head = tail THEN Nil ELSE tail
    /\ head' = next[head]
    /\ inHand' = inHand \cup {head}
    /\ queued' = IF Len(queued) = 0 THEN queued ELSE Tail(queued)
    /\ UNCHANGED next

PopEmpty ==
    /\ head = Nil
    /\ taken' = Nil
    /\ turn' = ~turn
    /\ UNCHANGED <<head, tail, next, inHand, queued>>

\* The call of a popped record is completed and returns; its frame is free.
Complete(r) ==
    /\ r \in inHand
    /\ inHand' = inHand \ {r}
    /\ UNCHANGED <<head, tail, next, taken, turn, queued>>

Next == Pop \/ PopEmpty \/ \E r \in Records : Push(r) \/ Complete(r)

Spec == Init /\ [][Next]_vars

----------------------------------------------------------------------------
Fifo == INSTANCE CallFifo WITH queue <- queued

TypeOK ==
    /\ {head, tail, taken} \subseteq Records \cup {Nil}
    /\ next \in [Records -> Records \cup {Nil}]
    /\ turn \in BOOLEAN
    /\ inHand \subseteq Records
    /\ queued \in Seq(Records)

\* No pointer of the Client leads into a frame that may be gone: the next push
\* writes through tail (client.cc:142-144), the next pop reads through head.
NoDanglingEnds == {head, tail} \subseteq Queued \cup {Nil}

\* The chain from head to tail is the queue: each record points at the one
\* pushed after it, the last one at nil, and no record is in it twice
\* (client.cc:139-145, 442-450).
ChainIsQueue ==
    /\ head = (IF Len(queued) = 0 THEN Nil ELSE queued[1])
    /\ tail = (IF Len(queued) = 0 THEN Nil ELSE queued[Len(queued)])
    /\ \A i \in 1..Len(queued) :
         next[queued[i]] = IF i = Len(queued) THEN Nil ELSE queued[i + 1]
    /\ \A i, j \in 1..Len(queued) : queued[i] = queued[j] => i = j
    /\ \A i \in 1..Len(queued) : queued[i] \notin inHand

\* The linked list implements the queue: each pop returns the oldest record
\* (client.cc:138-146, 439-451).
ImplementsFifo == Fifo!Spec
==============================================================================
