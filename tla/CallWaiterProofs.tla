--------------------------- MODULE CallWaiterProofs ---------------------------
(***************************************************************************)
(* Proofs about CallWaiter, for any set of callers and completing threads. *)
(* WaiterInv is inductive; the frame property and the implementation of    *)
(* CallLatch follow from it.                                               *)
(***************************************************************************)
EXTENDS CallWaiter, TLAPS

\* At the start no call exists and no thread is in notify() (client.h:60).
LEMMA InitWaiterInv == Init => WaiterInv
BY NoCallAssumption, MaxCallsAssumption
   DEF Init, WaiterInv, TypeOK, Completers, Sending

\* Each step of wait() and notify() keeps WaiterInv (client.cc:690-709).
LEMMA NextWaiterInv == WaiterInv /\ [Next]_vars => WaiterInv'
<1> SUFFICES ASSUME WaiterInv, [Next]_vars PROVE WaiterInv'
  OBVIOUS
<1> USE NoCallAssumption, MaxCallsAssumption
    DEF WaiterInv, TypeOK, BeingCompleted, Sending, Completers, callerVars, notifVars
<1>1. ASSUME NEW c \in Callers, Call(c) PROVE WaiterInv'
  BY <1>1 DEF Call
<1>2. ASSUME NEW c \in Callers, Push(c) PROVE WaiterInv'
  BY <1>2 DEF Push
<1>3. ASSUME NEW c \in Callers, Sent(c) PROVE WaiterInv'
  BY <1>3 DEF Sent
<1>4. ASSUME NEW c \in Callers, WriteFails(c) PROVE WaiterInv'
  BY <1>4 DEF WriteFails
<1>5. ASSUME NEW c \in Callers, FailReturn(c) PROVE WaiterInv'
  BY <1>5 DEF FailReturn
<1>6. ASSUME NEW c \in Callers, LoadZero(c) PROVE WaiterInv'
  BY <1>6 DEF LoadZero
<1>7. ASSUME NEW c \in Callers, LoadFinished(c) PROVE WaiterInv'
  BY <1>7 DEF LoadFinished, Finished
<1>8. ASSUME NEW c \in Callers, Block(c) PROVE WaiterInv'
  BY <1>8 DEF Block
<1>9. ASSUME NEW n \in Completers, Pop(n) PROVE WaiterInv'
  BY <1>9 DEF Pop
<1>10. ASSUME NEW n \in Completers, StoreOne(n) PROVE WaiterInv'
  BY <1>10 DEF StoreOne
<1>11. ASSUME NEW n \in Completers, NotifyOne(n) PROVE WaiterInv'
  BY <1>11 DEF NotifyOne
<1>12. ASSUME NEW n \in Completers, StoreTwo(n) PROVE WaiterInv'
  BY <1>12 DEF StoreTwo
<1>13. CASE UNCHANGED vars
  BY <1>13 DEF vars
<1>14. QED
  BY <1>1, <1>2, <1>3, <1>4, <1>5, <1>6, <1>7, <1>8, <1>9, <1>10, <1>11, <1>12, <1>13
     DEF Next, CallerStep, NotifyStep, FailPop

\* WaiterInv holds in every reachable state (client.cc:690-709).
THEOREM WaiterInvariance == Spec => []WaiterInv
BY InitWaiterInv, NextWaiterInv, PTL DEF Spec

\* The variables keep their types (client.h:59-64).
THEOREM WaiterTypeCorrect == Spec => []TypeOK
<1>1. WaiterInv => TypeOK
  BY DEF WaiterInv
<1>2. QED
  BY <1>1, WaiterInvariance, PTL

\* The record a thread is completing is alive and is still the record of the
\* same call, for any number of threads, unless the write of that very call
\* failed (client.cc:690-709, client.h:127-141).
THEOREM NotifyTouchesLiveFrame == Spec => []FrameOutlivesNotify
<1>1. WaiterInv => FrameOutlivesNotify
  BY NoCallAssumption DEF WaiterInv, BeingCompleted, FrameOutlivesNotify
<1>2. QED
  BY <1>1, WaiterInvariance, PTL

\* Each step of Waiter is a step of the latch or leaves it unchanged
\* (client.cc:690-709).
LEMMA StepImplementsLatch ==
  WaiterInv /\ [Next]_vars => [Latch!Next]_(Latch!vars)
<1> SUFFICES ASSUME WaiterInv, [Next]_vars PROVE [Latch!Next]_(Latch!vars)
  OBVIOUS
<1> USE DEF Latch!vars, callerVars, notifVars
<1> USE DEF WaiterInv, TypeOK, Completers
<1>1. ASSUME NEW c \in Callers, Push(c) PROVE Latch!Begin(c)
  <2>1. dropped = NoCall
    BY <1>1 DEF Push, Sending
  <2>2. QED
    BY <1>1, <2>1 DEF Push, Latch!Begin
<1>2. ASSUME NEW c \in Callers, LoadFinished(c) PROVE Latch!Return(c)
  BY <1>2 DEF LoadFinished, Finished, Latch!Return
<1>3. ASSUME NEW c \in Callers, FailReturn(c) PROVE Latch!Drop(c)
  <2>1. dropped = NoCall
    BY <1>3 DEF FailReturn, Sending
  <2>2. QED
    BY <1>3, <2>1 DEF FailReturn, Latch!Drop
<1>4. ASSUME NEW n \in Completers, StoreTwo(n)
      PROVE  notifFor[n] \in Callers /\ Latch!Answer(notifFor[n])
  BY <1>4 DEF StoreTwo, Latch!Answer, BeingCompleted
<1>5. ASSUME NEW c \in Callers, Call(c) \/ Sent(c) \/ WriteFails(c) \/ LoadZero(c) \/ Block(c)
      PROVE  UNCHANGED Latch!vars
  BY <1>5 DEF Call, Sent, WriteFails, LoadZero, Block
<1>6. ASSUME NEW n \in Completers, Pop(n) \/ StoreOne(n) \/ NotifyOne(n)
      PROVE  UNCHANGED Latch!vars
  BY <1>6 DEF Pop, StoreOne, NotifyOne
<1>7. CASE UNCHANGED vars
  BY <1>7 DEF vars
<1>8. QED
  BY <1>1, <1>2, <1>3, <1>4, <1>5, <1>6, <1>7
     DEF Next, CallerStep, NotifyStep, FailPop, Latch!Next

\* Waiter implements the latch: a call returns only after the one completion
\* of that call is over, unless its own write failed (client.cc:690-709,
\* client.h:127-141).
THEOREM WaiterRefinesLatch == Spec => ImplementsLatch
<1>1. Init => Latch!Init
  BY DEF Init, Latch!Init
<1>2. QED
  BY <1>1, WaiterInvariance, StepImplementsLatch, PTL
     DEF Spec, ImplementsLatch, Latch!Spec
==============================================================================
