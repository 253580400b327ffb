--------------------------- MODULE CallQueueProofs ---------------------------
(***************************************************************************)
(* Proofs about CallQueue for any set of records: the pointers represent   *)
(* the queue, so the linked list implements CallFifo.                      *)
(***************************************************************************)
EXTENDS CallQueue, TLAPS

\* What is inductive: the types and the representation (client.cc:138-146).
QueueInv == TypeOK /\ ChainIsQueue

\* An empty list is represented by two null pointers (client.h:98-99).
LEMMA InitQueueInv == Init => QueueInv
<1> SUFFICES ASSUME Init PROVE QueueInv
  OBVIOUS
<1>1. turn \in BOOLEAN /\ next \in [Records -> Records \cup {Nil}]
  BY DEF Init
<1>2. QED
  BY <1>1, NilAssumption DEF Init, QueueInv, TypeOK, ChainIsQueue

\* An empty list has a null head, and no other list has (client.cc:442-444).
LEMMA HeadOfEmpty ==
  ASSUME QueueInv
  PROVE  /\ head = Nil <=> Len(queued) = 0
         /\ head = Nil <=> queued = <<>>
         /\ head # Nil => head = queued[1] /\ head = Head(queued)
<1>1. Len(queued) \in Nat
  BY DEF QueueInv, TypeOK
<1>2. CASE Len(queued) = 0
  BY <1>2 DEF QueueInv, TypeOK, ChainIsQueue
<1>3. CASE Len(queued) > 0
  <2>1. head = queued[1] /\ queued[1] \in Records
    BY <1>3 DEF QueueInv, TypeOK, ChainIsQueue
  <2>2. QED
    BY <1>3, <2>1, NilAssumption DEF QueueInv, TypeOK
<1>4. QED
  BY <1>1, <1>2, <1>3

\* What a pop leaves behind (client.cc:445-449).
LEMMA RestOfQueue ==
  ASSUME QueueInv, head # Nil
  PROVE  /\ Tail(queued) \in Seq(Records)
         /\ Len(Tail(queued)) = Len(queued) - 1
         /\ Len(queued) \in Nat /\ Len(queued) > 0
         /\ \A i \in 1..Len(Tail(queued)) : Tail(queued)[i] = queued[i + 1]
BY HeadOfEmpty DEF QueueInv, TypeOK

\* A pop moves the head to the second record and clears the tail only with the
\* last one (client.cc:445-449).
LEMMA PopKeepsChain ==
  ASSUME QueueInv, Pop
  PROVE  ChainIsQueue'
<1> DEFINE rest == Tail(queued)
<1>1. /\ Len(queued) \in Nat /\ Len(queued) > 0
      /\ Len(rest) = Len(queued) - 1
      /\ \A i \in 1..Len(rest) : rest[i] = queued[i + 1]
      /\ head = queued[1]
  BY RestOfQueue, HeadOfEmpty DEF Pop
<1>2. /\ queued' = rest /\ next' = next /\ inHand' = inHand \cup {queued[1]}
      /\ head' = next[queued[1]]
      /\ tail' = IF queued[1] = tail THEN Nil ELSE tail
  BY <1>1 DEF Pop
<1>3. /\ tail = queued[Len(queued)]
      /\ \A i \in 1..Len(queued) :
           next[queued[i]] = IF i = Len(queued) THEN Nil ELSE queued[i + 1]
      /\ \A i, j \in 1..Len(queued) : queued[i] = queued[j] => i = j
      /\ \A i \in 1..Len(queued) : queued[i] \notin inHand
  BY <1>1 DEF QueueInv, ChainIsQueue
<1> HIDE DEF rest
<1>4. head' = IF Len(rest) = 0 THEN Nil ELSE rest[1]
  BY <1>1, <1>2, <1>3
<1>5. tail' = IF Len(rest) = 0 THEN Nil ELSE rest[Len(rest)]
  <2>1. queued[1] = tail <=> Len(queued) = 1
    BY <1>1, <1>3
  <2>2. QED
    BY <1>1, <1>2, <1>3, <2>1
<1>6. ASSUME NEW i \in 1..Len(rest)
      PROVE  next[rest[i]] = IF i = Len(rest) THEN Nil ELSE rest[i + 1]
  BY <1>1, <1>3
<1>7. ASSUME NEW i \in 1..Len(rest), NEW j \in 1..Len(rest), rest[i] = rest[j]
      PROVE  i = j
  <2>1. queued[i + 1] = queued[j + 1]
    BY <1>1, <1>7
  <2>2. i + 1 \in 1..Len(queued) /\ j + 1 \in 1..Len(queued)
    BY <1>1
  <2>3. i + 1 = j + 1
    BY <1>3, <2>1, <2>2
  <2>4. QED
    BY <2>3
<1>8. ASSUME NEW i \in 1..Len(rest)
      PROVE  rest[i] \notin inHand \cup {queued[1]}
  <2>1. i + 1 \in 1..Len(queued) /\ 1 \in 1..Len(queued) /\ i + 1 # 1
    BY <1>1
  <2>2. queued[i + 1] # queued[1] /\ queued[i + 1] \notin inHand
    BY <1>3, <2>1
  <2>3. QED
    BY <1>1, <2>2
<1>9. QED
  BY <1>2, <1>4, <1>5, <1>6, <1>7, <1>8 DEF ChainIsQueue

\* Push and pop keep the representation (client.cc:138-146, 439-451).
LEMMA NextQueueInv == QueueInv /\ [Next]_vars => QueueInv'
<1> SUFFICES ASSUME QueueInv, [Next]_vars PROVE QueueInv'
  OBVIOUS
<1>1. ASSUME NEW r \in Records, Push(r) PROVE QueueInv'
  BY <1>1, NilAssumption DEF Push, QueueInv, TypeOK, ChainIsQueue, Queued
<1>2. CASE Pop
  <2>1. TypeOK'
    BY <1>2, RestOfQueue, HeadOfEmpty DEF Pop, QueueInv, TypeOK
  <2>2. QED
    BY <1>2, <2>1, PopKeepsChain DEF QueueInv
<1>3. CASE PopEmpty
  BY <1>3 DEF PopEmpty, QueueInv, TypeOK, ChainIsQueue
<1>4. ASSUME NEW r \in Records, Complete(r) PROVE QueueInv'
  BY <1>4 DEF Complete, QueueInv, TypeOK, ChainIsQueue
<1>5. CASE UNCHANGED vars
  BY <1>5 DEF vars, QueueInv, TypeOK, ChainIsQueue
<1>6. QED
  BY <1>1, <1>2, <1>3, <1>4, <1>5 DEF Next

\* The representation holds in every reachable state (client.cc:138-146, 439-451).
THEOREM QueueRepresented == Spec => []ChainIsQueue
<1>1. QueueInv => ChainIsQueue
  BY DEF QueueInv
<1>2. QED
  BY <1>1, InitQueueInv, NextQueueInv, PTL DEF Spec

\* head and tail never point into a frame that may be gone (client.cc:142-149).
THEOREM EndsNeverDangle == Spec => []NoDanglingEnds
<1>1. QueueInv => NoDanglingEnds
  BY DEF QueueInv, TypeOK, ChainIsQueue, NoDanglingEnds, Queued
<1>2. QED
  BY <1>1, InitQueueInv, NextQueueInv, PTL DEF Spec

\* A step on the pointers is a step of the queue or leaves it alone
\* (client.cc:138-146, 439-451).
LEMMA StepImplementsFifo == QueueInv /\ [Next]_vars => [Fifo!Next]_(Fifo!vars)
<1> SUFFICES ASSUME QueueInv, [Next]_vars PROVE [Fifo!Next]_(Fifo!vars)
  OBVIOUS
<1> USE NilAssumption DEF QueueInv, TypeOK, ChainIsQueue, Queued, Fifo!vars
<1>1. ASSUME NEW r \in Records, Push(r) PROVE Fifo!Push(r)
  BY <1>1 DEF Push, Fifo!Push
<1>2. ASSUME Pop PROVE Fifo!Pop
  BY <1>2, HeadOfEmpty DEF Pop, Fifo!Pop
<1>3. ASSUME PopEmpty PROVE Fifo!PopEmpty
  BY <1>3, HeadOfEmpty DEF PopEmpty, Fifo!PopEmpty
<1>4. ASSUME NEW r \in Records, Complete(r) PROVE UNCHANGED Fifo!vars
  BY <1>4 DEF Complete
<1>5. CASE UNCHANGED vars
  BY <1>5 DEF vars
<1>6. QED
  BY <1>1, <1>2, <1>3, <1>4, <1>5 DEF Next, Fifo!Next

\* The linked list implements the first-in first-out queue by which replies are
\* matched to calls (client.cc:138-146, 439-451).
THEOREM ListImplementsFifo == Spec => ImplementsFifo
<1>1. Init => Fifo!Init
  BY DEF Init, Fifo!Init
<1>2. QED
  BY <1>1, InitQueueInv, NextQueueInv, StepImplementsFifo, PTL
     DEF Spec, ImplementsFifo, Fifo!Spec
==============================================================================
