------------------------- MODULE ClientSessionProofs -------------------------
(***************************************************************************)
(* Proofs about ClientSession for any set of callers, of threads in wait() *)
(* and of faults.  SyncInv, which needs that no write fails, is proved     *)
(* conjunct by conjunct; its last one, that the pending list is the        *)
(* requests on the wire, gives that a reply never completes another call.  *)
(* Built on it: the protocol of the error handler, the calls of a session  *)
(* in which nothing goes wrong, and the owner of a call's record.          *)
(***************************************************************************)
EXTENDS ClientSession, TLAPS

\* Taking the first request off the wire takes the first record off the list
\* that extends it (client.cc:442-449).
LEMMA HeadOfConcat ==
  ASSUME NEW S, NEW s \in Seq(S), NEW t \in Seq(S), s # <<>>
  PROVE  /\ s \o t # <<>>
         /\ Head(s \o t) = Head(s)
         /\ Head(s) \in S
         /\ Tail(s \o t) = Tail(s) \o t
<1>1. Len(s) \in Nat /\ Len(s) > 0 /\ Len(s \o t) = Len(s) + Len(t) /\ Len(t) \in Nat
  OBVIOUS
<1>2. s \o t # <<>> /\ Head(s \o t) = Head(s) /\ Head(s) \in S
  BY <1>1
<1>3. Tail(s \o t) \in Seq(S) /\ Tail(s) \o t \in Seq(S) /\ Tail(s) \in Seq(S)
  BY <1>1, <1>2
<1>4. Len(Tail(s \o t)) = Len(Tail(s) \o t)
  BY <1>1, <1>2, <1>3
<1>5. ASSUME NEW i \in 1..Len(Tail(s) \o t) PROVE Tail(s \o t)[i] = (Tail(s) \o t)[i]
  BY <1>1, <1>2, <1>3
<1>6. QED
  BY <1>2, <1>3, <1>4, <1>5

\* Before connect() nothing is pending and nothing sent (client.h:89-99).
LEMMA InitTypeOK == Init => TypeOK
<1> SUFFICES ASSUME Init PROVE TypeOK
  OBVIOUS
<1>1. Places
  BY ThreadsAssumption DEF Init, Places, Threads
<1>2. answer \in [Callers -> {"none", "reply", "error", "unread", "other's"}]
  BY DEF Init
<1>3. calls \in [Callers -> 0..MaxCalls]
  BY MaxCallsAssumption DEF Init
<1>4. pending \in Seq(Callers) /\ wire \in Seq(Callers)
  BY DEF Init
<1>5. QED
  BY <1>1, <1>2, <1>3, <1>4 DEF Init, TypeOK, StateTypes

\* The client starts in its invariant (client.h:89-99).
LEMMA InitSyncInv == Init => SyncInv
<1> SUFFICES ASSUME Init PROVE SyncInv
  OBVIOUS
<1>1. /\ pc[Worker] = "none" /\ pc[Main] = "new"
      /\ \A t \in Callers \cup Watchers : pc[t] = "idle"
  BY ThreadsAssumption DEF Init, Threads
<1>2. QED
  BY <1>1, InitTypeOK, ThreadsAssumption
     DEF Init, SyncInv, MtxOwners, WorkerFollowsState, CallersFollowWorker,
         ListFollowsWire, InReply

\* Every step of the client keeps the types of its fields (client.h:59-99).
LEMMA NextStateTypes ==
  ASSUME TypeOK, [Next]_vars
  PROVE  StateTypes'
<1> USE MaxCallsAssumption
    DEF TypeOK, StateTypes, workerVars, callVars, netVars, Report, Goto
<1>1. ASSUME NEW c \in Callers, BeginCall(c) PROVE StateTypes'
  BY <1>1 DEF BeginCall
<1>2. ASSUME NEW c \in Callers, Push(c) PROVE StateTypes'
  BY <1>2 DEF Push
<1>3. ASSUME NEW c \in Callers, Flush(c) PROVE StateTypes'
  BY <1>3 DEF Flush
<1>4. ASSUME NEW c \in Callers, WriteFails(c) PROVE StateTypes'
  BY <1>4 DEF WriteFails
<1>5. ASSUME NEW c \in Callers, FailOne(c) PROVE StateTypes'
  <2>1. CASE TakeOne(c)
    <3>1. Head(pending) \in Callers /\ Tail(pending) \in Seq(Callers)
      BY <2>1 DEF TakeOne
    <3>2. taken' \in [Drainers -> Callers \cup {None}]
      BY <2>1, <3>1 DEF TakeOne
    <3>3. QED
      BY <1>5, <2>1, <3>1, <3>2 DEF FailOne, TakeOne
  <2>2. CASE TellOne(c)
    <3>1. answer' \in [Callers -> {"none", "reply", "error", "unread", "other's"}]
      BY <2>2 DEF TellOne
    <3>2. taken' \in [Drainers -> Callers \cup {None}]
      BY <2>2 DEF TellOne
    <3>3. QED
      BY <1>5, <2>2, <3>1, <3>2 DEF FailOne, TellOne
  <2>3. QED
    BY <1>5, <2>1, <2>2 DEF FailOne, DrainOne
<1>6. ASSUME NEW c \in Callers, FailState(c) PROVE StateTypes'
  BY <1>6 DEF FailState
<1>7. ASSUME NEW c \in Callers, FailClose(c) PROVE StateTypes'
  BY <1>7 DEF FailClose
<1>8. ASSUME NEW c \in Callers, EndCall(c) PROVE StateTypes'
  BY <1>8 DEF EndCall
<1>9. CASE Start
  BY <1>9 DEF Start
<1>10. CASE BeginClose
  BY <1>10 DEF BeginClose
<1>11. CASE StartWait
  BY <1>11 DEF StartWait
<1>12. CASE StartDone
  BY <1>12 DEF StartDone
<1>13. CASE CloseTwice
  BY <1>13 DEF CloseTwice
<1>14. CASE CloseFailing
  BY <1>14 DEF CloseFailing
<1>15. CASE CloseSwap
  BY <1>15 DEF CloseSwap
<1>16. CASE SendBye
  <2>1. byeSent' \in BOOLEAN
    BY <1>16 DEF SendBye
  <2>2. QED
    BY <1>16, <2>1 DEF SendBye
<1>17. CASE CloseConn
  BY <1>17 DEF CloseConn
<1>18. CASE Join
  BY <1>18 DEF Join
<1>19. ASSUME NEW w \in Watchers, WaitSleep(w) PROVE StateTypes'
  BY <1>19 DEF WaitSleep
<1>20. ASSUME NEW w \in Watchers, WaitDone(w) PROVE StateTypes'
  BY <1>20 DEF WaitDone
<1>21. CASE HelloDone
  BY <1>21 DEF HelloDone
<1>22. CASE ReadReply
  <2>1. wire' \in Seq(Callers) /\ Head(wire) \in Callers
    BY <1>22 DEF ReadReply
  <2>2. pending # <<>> => Head(pending) \in Callers /\ Tail(pending) \in Seq(Callers)
    OBVIOUS
  <2>3. QED
    BY <1>22, <2>1, <2>2 DEF ReadReply, Report
<1>23. CASE FinishReply
  <2>1. CASE held # reading
    BY <1>23, <2>1 DEF FinishReply
  <2>2. CASE held = reading /\ pc[Worker] = "unmarshal"
    BY <1>23, <2>2 DEF FinishReply
  <2>3. CASE held = reading /\ pc[Worker] = "readText"
    BY <1>23, <2>3 DEF FinishReply
  <2>4. QED
    BY <1>23, <2>1, <2>2, <2>3 DEF FinishReply, InReply
<1>24. CASE ByeAnswered
  BY <1>24 DEF ByeAnswered, ReadGoodbye
<1>25. CASE ReadClosed
  BY <1>25 DEF ReadClosed
<1>26. CASE HandlerLock
  BY <1>26 DEF HandlerLock
<1>27. CASE HandlerDrain
  <2>1. CASE TakeOne(Worker)
    <3>1. Head(pending) \in Callers /\ Tail(pending) \in Seq(Callers)
      BY <2>1 DEF TakeOne
    <3>2. taken' \in [Drainers -> Callers \cup {None}]
      BY <2>1, <3>1 DEF TakeOne
    <3>3. QED
      BY <1>27, <2>1, <3>1, <3>2 DEF HandlerDrain, TakeOne
  <2>2. CASE TellOne(Worker)
    <3>1. answer' \in [Callers -> {"none", "reply", "error", "unread", "other's"}]
      BY <2>2 DEF TellOne
    <3>2. taken' \in [Drainers -> Callers \cup {None}]
      BY <2>2 DEF TellOne
    <3>3. QED
      BY <1>27, <2>2, <3>1, <3>2 DEF HandlerDrain, TellOne
  <2>3. QED
    BY <1>27, <2>1, <2>2 DEF HandlerDrain, DrainOne
<1>28. CASE HandlerDecide
  <2>1. CASE HandlerLeave
    <3>1. answer' \in [Callers -> {"none", "reply", "error", "unread", "other's"}]
      BY <2>1 DEF HandlerLeave
    <3>2. QED
      BY <1>28, <2>1, <3>1 DEF HandlerDecide, HandlerLeave
  <2>2. CASE HandlerSleep
    BY <1>28, <2>2 DEF HandlerDecide, HandlerSleep
  <2>3. QED
    BY <1>28, <2>1, <2>2 DEF HandlerDecide
<1>29. CASE HelloFails
  BY <1>29 DEF HelloFails
<1>30. CASE ReplyFails
  BY <1>30 DEF ReplyFails
<1>31. CASE GoodbyeUnasked
  BY <1>31 DEF GoodbyeUnasked, ReadGoodbye
<1>32. CASE ReadBad
  BY <1>32 DEF ReadBad
<1>33. CASE SpuriousWake
  BY <1>33 DEF SpuriousWake
<1>34. CASE UNCHANGED vars
  BY <1>34 DEF vars
<1>35. QED
  BY <1>1, <1>2, <1>3, <1>4, <1>5, <1>6, <1>7, <1>8, <1>9, <1>10, <1>11, <1>12,
     <1>13, <1>14, <1>15, <1>16, <1>17, <1>18, <1>19, <1>20, <1>21, <1>22,
     <1>23, <1>24, <1>25, <1>26, <1>27, <1>28, <1>29, <1>30, <1>31, <1>32,
     <1>33, <1>34
     DEF Next, CallerStep, MainStep, WorkerStep, Fault

\* A step takes each thread to a place of its own program (client.cc:48-483).
LEMMA NextPlaces ==
  ASSUME TypeOK, [Next]_vars
  PROVE  Places'
<1> USE ThreadsAssumption
    DEF TypeOK, Places, Threads, Goto, Report, InReply
<1>1. ASSUME NEW c \in Callers, BeginCall(c) PROVE Places'
  BY <1>1 DEF BeginCall
<1>2. ASSUME NEW c \in Callers, Push(c) PROVE Places'
  BY <1>2 DEF Push
<1>3. ASSUME NEW c \in Callers, Flush(c) PROVE Places'
  BY <1>3 DEF Flush
<1>4. ASSUME NEW c \in Callers, WriteFails(c) PROVE Places'
  BY <1>4 DEF WriteFails
<1>5. ASSUME NEW c \in Callers, FailOne(c) PROVE Places'
  BY <1>5 DEF FailOne
<1>6. ASSUME NEW c \in Callers, FailState(c) PROVE Places'
  BY <1>6 DEF FailState
<1>7. ASSUME NEW c \in Callers, FailClose(c) PROVE Places'
  BY <1>7 DEF FailClose
<1>8. ASSUME NEW c \in Callers, EndCall(c) PROVE Places'
  BY <1>8 DEF EndCall
<1>9. CASE Start
  BY <1>9 DEF Start
<1>10. CASE BeginClose
  BY <1>10 DEF BeginClose
<1>11. CASE StartWait
  BY <1>11 DEF StartWait
<1>12. CASE StartDone
  BY <1>12 DEF StartDone, SignalAndGoto, Sleepers
<1>13. CASE CloseTwice
  BY <1>13 DEF CloseTwice
<1>14. CASE CloseFailing
  BY <1>14 DEF CloseFailing, SignalAndGoto, Sleepers
<1>15. CASE CloseSwap
  BY <1>15 DEF CloseSwap
<1>16. CASE SendBye
  BY <1>16 DEF SendBye
<1>17. CASE CloseConn
  BY <1>17 DEF CloseConn
<1>18. CASE Join
  BY <1>18 DEF Join
<1>19. ASSUME NEW w \in Watchers, WaitSleep(w) PROVE Places'
  BY <1>19 DEF WaitSleep
<1>20. ASSUME NEW w \in Watchers, WaitDone(w) PROVE Places'
  BY <1>20 DEF WaitDone, SignalAndGoto, Sleepers
<1>21. CASE HelloDone
  BY <1>21 DEF HelloDone, SignalAndGoto, Sleepers
<1>22. CASE ReadReply
  BY <1>22 DEF ReadReply
<1>23. CASE FinishReply
  BY <1>23 DEF FinishReply
<1>24. CASE ByeAnswered
  BY <1>24 DEF ByeAnswered, ReadGoodbye
<1>25. CASE ReadClosed
  BY <1>25 DEF ReadClosed
<1>26. CASE HandlerLock
  BY <1>26 DEF HandlerLock
<1>27. CASE HandlerDrain
  BY <1>27 DEF HandlerDrain
<1>28. CASE HandlerDecide
  <2>1. CASE HandlerLeave
    BY <1>28, <2>1 DEF HandlerDecide, HandlerLeave
  <2>2. CASE HandlerSleep /\ state = "Failing"
    BY <1>28, <2>2 DEF HandlerDecide, HandlerSleep
  <2>3. CASE HandlerSleep /\ state # "Failing"
    BY <1>28, <2>3 DEF HandlerSleep, BroadcastAndGoto, Sleepers
  <2>4. QED
    BY <1>28, <2>1, <2>2, <2>3 DEF HandlerDecide
<1>29. CASE HelloFails
  BY <1>29 DEF HelloFails
<1>30. CASE ReplyFails
  BY <1>30 DEF ReplyFails
<1>31. CASE GoodbyeUnasked
  BY <1>31 DEF GoodbyeUnasked, ReadGoodbye
<1>32. CASE ReadBad
  BY <1>32 DEF ReadBad
<1>33. CASE SpuriousWake
  BY <1>33 DEF SpuriousWake, Sleepers
<1>34. CASE UNCHANGED vars
  BY <1>34 DEF vars
<1>35. QED
  BY <1>1, <1>2, <1>3, <1>4, <1>5, <1>6, <1>7, <1>8, <1>9, <1>10, <1>11, <1>12,
     <1>13, <1>14, <1>15, <1>16, <1>17, <1>18, <1>19, <1>20, <1>21, <1>22,
     <1>23, <1>24, <1>25, <1>26, <1>27, <1>28, <1>29, <1>30, <1>31, <1>32,
     <1>33, <1>34
     DEF Next, CallerStep, MainStep, WorkerStep, Fault

\* The types are an invariant whatever fails (client.h:59-99).
LEMMA NextTypeOK == TypeOK /\ [Next]_vars => TypeOK'
BY NextStateTypes, NextPlaces DEF TypeOK

\* call_mtx is held from start_request to finish_request or to the end of fail(),
\* and through connect() and close() (client.cc:48-54, 75-121, 194-210).
LEMMA NextMtxOwners ==
  ASSUME SyncInv, WritesWork, [Next]_vars
  PROVE  MtxOwners'
<1> USE ThreadsAssumption, MaxCallsAssumption
    DEF TypeOK, StateTypes, Places, workerVars, callVars, netVars, Threads, Goto, Report,
        InReply, SyncInv, WritesWork, Connected, MtxOwners
<1>1. ASSUME NEW c \in Callers, BeginCall(c) PROVE MtxOwners'
  BY <1>1 DEF BeginCall
<1>2. ASSUME NEW c \in Callers, Push(c) PROVE MtxOwners'
  BY <1>2 DEF Push
<1>3. ASSUME NEW c \in Callers, Flush(c) PROVE MtxOwners'
  BY <1>3, SMTT(30) DEF Flush, Unsent
<1>4. ASSUME NEW c \in Callers, WriteFails(c) PROVE MtxOwners'
  BY <1>4 DEF WriteFails
<1>5. ASSUME NEW c \in Callers, FailOne(c) PROVE MtxOwners'
  BY <1>5 DEF FailOne, DrainOne, TakeOne, TellOne
<1>6. ASSUME NEW c \in Callers, FailState(c) PROVE MtxOwners'
  BY <1>6 DEF FailState
<1>7. ASSUME NEW c \in Callers, FailClose(c) PROVE MtxOwners'
  BY <1>7 DEF FailClose
<1>8. ASSUME NEW c \in Callers, EndCall(c) PROVE MtxOwners'
  BY <1>8 DEF EndCall
<1>9. CASE Start
  BY <1>9 DEF Start
<1>10. CASE BeginClose
  BY <1>10 DEF BeginClose
<1>11. CASE StartWait
  BY <1>11 DEF StartWait
<1>12. CASE StartDone
  BY <1>12 DEF StartDone, SignalAndGoto, Sleepers, CondFree
<1>13. CASE CloseTwice
  BY <1>13 DEF CloseTwice
<1>14. CASE CloseFailing
  BY <1>14 DEF CloseFailing, SignalAndGoto, Sleepers, CondFree
<1>15. CASE CloseSwap
  BY <1>15 DEF CloseSwap
<1>16. CASE SendBye
  BY <1>16 DEF SendBye
<1>17. CASE CloseConn
  BY <1>17 DEF CloseConn
<1>18. CASE Join
  BY <1>18 DEF Join
<1>19. ASSUME NEW w \in Watchers, WaitSleep(w) PROVE MtxOwners'
  BY <1>19 DEF WaitSleep
<1>20. ASSUME NEW w \in Watchers, WaitDone(w) PROVE MtxOwners'
  BY <1>20 DEF WaitDone, SignalAndGoto, Sleepers, CondFree, Connected
<1>21. CASE HelloDone
  BY <1>21 DEF HelloDone, SignalAndGoto, Sleepers
<1>22. CASE ReadReply
  BY <1>22 DEF ReadReply
<1>23. CASE FinishReply
  BY <1>23 DEF FinishReply
<1>24. CASE ByeAnswered
  BY <1>24 DEF ByeAnswered, ReadGoodbye
<1>25. CASE ReadClosed
  BY <1>25 DEF ReadClosed
<1>26. CASE HandlerLock
  BY <1>26 DEF HandlerLock
<1>27. CASE HandlerDrain
  BY <1>27 DEF HandlerDrain, DrainOne, TakeOne, TellOne
<1>28. CASE HandlerDecide
  BY <1>28 DEF HandlerDecide, HandlerLeave, HandlerSleep, BroadcastAndGoto, Sleepers
<1>29. CASE HelloFails
  BY <1>29 DEF HelloFails
<1>30. CASE ReplyFails
  BY <1>30 DEF ReplyFails
<1>31. CASE GoodbyeUnasked
  BY <1>31 DEF GoodbyeUnasked, ReadGoodbye
<1>32. CASE ReadBad
  BY <1>32 DEF ReadBad
<1>33. CASE SpuriousWake
  BY <1>33 DEF SpuriousWake, Sleepers
<1>34. CASE UNCHANGED vars
  BY <1>34 DEF vars, Unsent
<1> HIDE DEF MtxOwners
<1>35. QED
  BY <1>1, <1>2, <1>3, <1>4, <1>5, <1>6, <1>7, <1>8, <1>9, <1>10, <1>11,
     <1>12, <1>13, <1>14, <1>15, <1>16, <1>17, <1>18, <1>19, <1>20, <1>21,
     <1>22, <1>23, <1>24, <1>25, <1>26, <1>27, <1>28, <1>29, <1>30, <1>31,
     <1>32, <1>33, <1>34
     DEF Next, CallerStep, MainStep, WorkerStep, Fault

\* The state word says where the worker can be (client.cc:290-406).
LEMMA NextWorkerFollowsState ==
  ASSUME SyncInv, WritesWork, [Next]_vars
  PROVE  WorkerFollowsState'
<1> USE ThreadsAssumption, MaxCallsAssumption
    DEF TypeOK, StateTypes, Places, workerVars, callVars, netVars, Threads, Goto, Report,
        InReply, SyncInv, WritesWork, MtxOwners, Connected, CondFree,
        CallersFollowWorker, WorkerFollowsState
<1>1. ASSUME NEW c \in Callers, BeginCall(c) PROVE WorkerFollowsState'
  BY <1>1 DEF BeginCall
<1>2. ASSUME NEW c \in Callers, Push(c) PROVE WorkerFollowsState'
  BY <1>2 DEF Push
<1>3. ASSUME NEW c \in Callers, Flush(c) PROVE WorkerFollowsState'
  BY <1>3, SMTT(30) DEF Flush, Unsent
<1>4. ASSUME NEW c \in Callers, WriteFails(c) PROVE WorkerFollowsState'
  BY <1>4 DEF WriteFails
<1>5. ASSUME NEW c \in Callers, FailOne(c) PROVE WorkerFollowsState'
  BY <1>5 DEF FailOne, DrainOne, TakeOne, TellOne
<1>6. ASSUME NEW c \in Callers, FailState(c) PROVE WorkerFollowsState'
  BY <1>6 DEF FailState
<1>7. ASSUME NEW c \in Callers, FailClose(c) PROVE WorkerFollowsState'
  BY <1>7 DEF FailClose
<1>8. ASSUME NEW c \in Callers, EndCall(c) PROVE WorkerFollowsState'
  BY <1>8 DEF EndCall
<1>9. CASE Start
  BY <1>9 DEF Start
<1>10. CASE BeginClose
  BY <1>10 DEF BeginClose
<1>11. CASE StartWait
  BY <1>11 DEF StartWait
<1>12. CASE StartDone
  BY <1>12 DEF StartDone, SignalAndGoto, Sleepers, CondFree
<1>13. CASE CloseTwice
  BY <1>13 DEF CloseTwice
<1>14. CASE CloseFailing
  BY <1>14 DEF CloseFailing, SignalAndGoto, Sleepers, CondFree
<1>15. CASE CloseSwap
  BY <1>15 DEF CloseSwap
<1>16. CASE SendBye
  BY <1>16 DEF SendBye
<1>17. CASE CloseConn
  BY <1>17 DEF CloseConn
<1>18. CASE Join
  BY <1>18 DEF Join
<1>19. ASSUME NEW w \in Watchers, WaitSleep(w) PROVE WorkerFollowsState'
  BY <1>19 DEF WaitSleep
<1>20. ASSUME NEW w \in Watchers, WaitDone(w) PROVE WorkerFollowsState'
  BY <1>20 DEF WaitDone, SignalAndGoto, Sleepers, CondFree, Connected
<1>21. CASE HelloDone
  BY <1>21 DEF HelloDone, SignalAndGoto, Sleepers
<1>22. CASE ReadReply
  <2>1. /\ pc[Worker] = "read" /\ UNCHANGED <<state, connOpen>>
        /\ \E l \in {"handler", "unmarshal", "readText"} : pc' = [pc EXCEPT ![Worker] = l]
    BY <1>22 DEF ReadReply
  <2>2. QED
    BY <2>1
<1>23. CASE FinishReply
  BY <1>23 DEF FinishReply
<1>24. CASE ByeAnswered
  BY <1>24 DEF ByeAnswered, ReadGoodbye
<1>25. CASE ReadClosed
  BY <1>25 DEF ReadClosed
<1>26. CASE HandlerLock
  BY <1>26 DEF HandlerLock
<1>27. CASE HandlerDrain
  BY <1>27 DEF HandlerDrain, DrainOne, TakeOne, TellOne
<1>28. CASE HandlerDecide
  BY <1>28 DEF HandlerDecide, HandlerLeave, HandlerSleep, BroadcastAndGoto, Sleepers
<1>29. CASE HelloFails
  BY <1>29 DEF HelloFails
<1>30. CASE ReplyFails
  BY <1>30 DEF ReplyFails
<1>31. CASE GoodbyeUnasked
  BY <1>31 DEF GoodbyeUnasked, ReadGoodbye
<1>32. CASE ReadBad
  BY <1>32 DEF ReadBad
<1>33. CASE SpuriousWake
  BY <1>33 DEF SpuriousWake, Sleepers
<1>34. CASE UNCHANGED vars
  BY <1>34 DEF vars, Unsent
<1> HIDE DEF WorkerFollowsState
<1>35. QED
  BY <1>1, <1>2, <1>3, <1>4, <1>5, <1>6, <1>7, <1>8, <1>9, <1>10, <1>11,
     <1>12, <1>13, <1>14, <1>15, <1>16, <1>17, <1>18, <1>19, <1>20, <1>21,
     <1>22, <1>23, <1>24, <1>25, <1>26, <1>27, <1>28, <1>29, <1>30, <1>31,
     <1>32, <1>33, <1>34
     DEF Next, CallerStep, MainStep, WorkerStep, Fault

\* A caller is inside a request only on a session whose worker has started to
\* read, and inside fail() only on one that is over (client.cc:123-210).
LEMMA NextCallersFollowWorker ==
  ASSUME SyncInv, WritesWork, [Next]_vars
  PROVE  CallersFollowWorker'
<1> USE ThreadsAssumption, MaxCallsAssumption
    DEF TypeOK, StateTypes, Places, workerVars, callVars, netVars, Threads, Goto, Report,
        InReply, SyncInv, WritesWork, MtxOwners, Connected, WorkerFollowsState,
        Unsent, CallersFollowWorker
<1>1. ASSUME NEW c \in Callers, BeginCall(c) PROVE CallersFollowWorker'
  BY <1>1 DEF BeginCall
<1>2. ASSUME NEW c \in Callers, Push(c) PROVE CallersFollowWorker'
  BY <1>2 DEF Push
<1>3. ASSUME NEW c \in Callers, Flush(c) PROVE CallersFollowWorker'
  BY <1>3, SMTT(30) DEF Flush, Unsent
<1>4. ASSUME NEW c \in Callers, WriteFails(c) PROVE CallersFollowWorker'
  BY <1>4 DEF WriteFails
<1>5. ASSUME NEW c \in Callers, FailOne(c) PROVE CallersFollowWorker'
  BY <1>5 DEF FailOne, DrainOne, TakeOne, TellOne
<1>6. ASSUME NEW c \in Callers, FailState(c) PROVE CallersFollowWorker'
  BY <1>6 DEF FailState
<1>7. ASSUME NEW c \in Callers, FailClose(c) PROVE CallersFollowWorker'
  BY <1>7 DEF FailClose
<1>8. ASSUME NEW c \in Callers, EndCall(c) PROVE CallersFollowWorker'
  BY <1>8 DEF EndCall
<1>9. CASE Start
  BY <1>9 DEF Start
<1>10. CASE BeginClose
  BY <1>10 DEF BeginClose
<1>11. CASE StartWait
  BY <1>11 DEF StartWait
<1>12. CASE StartDone
  BY <1>12 DEF StartDone, SignalAndGoto, Sleepers, CondFree
<1>13. CASE CloseTwice
  BY <1>13 DEF CloseTwice
<1>14. CASE CloseFailing
  BY <1>14 DEF CloseFailing, SignalAndGoto, Sleepers, CondFree
<1>15. CASE CloseSwap
  BY <1>15 DEF CloseSwap
<1>16. CASE SendBye
  BY <1>16 DEF SendBye
<1>17. CASE CloseConn
  BY <1>17 DEF CloseConn
<1>18. CASE Join
  BY <1>18 DEF Join
<1>19. ASSUME NEW w \in Watchers, WaitSleep(w) PROVE CallersFollowWorker'
  BY <1>19 DEF WaitSleep
<1>20. ASSUME NEW w \in Watchers, WaitDone(w) PROVE CallersFollowWorker'
  BY <1>20 DEF WaitDone, SignalAndGoto, Sleepers, CondFree, Connected
<1>21. CASE HelloDone
  BY <1>21 DEF HelloDone, SignalAndGoto, Sleepers
<1>22. CASE ReadReply
  BY <1>22 DEF ReadReply
<1>23. CASE FinishReply
  BY <1>23 DEF FinishReply
<1>24. CASE ByeAnswered
  BY <1>24 DEF ByeAnswered, ReadGoodbye
<1>25. CASE ReadClosed
  BY <1>25 DEF ReadClosed
<1>26. CASE HandlerLock
  BY <1>26 DEF HandlerLock
<1>27. CASE HandlerDrain
  BY <1>27 DEF HandlerDrain, DrainOne, TakeOne, TellOne
<1>28. CASE HandlerDecide
  BY <1>28 DEF HandlerDecide, HandlerLeave, HandlerSleep, BroadcastAndGoto, Sleepers
<1>29. CASE HelloFails
  BY <1>29 DEF HelloFails
<1>30. CASE ReplyFails
  BY <1>30 DEF ReplyFails
<1>31. CASE GoodbyeUnasked
  BY <1>31 DEF GoodbyeUnasked, ReadGoodbye
<1>32. CASE ReadBad
  BY <1>32 DEF ReadBad
<1>33. CASE SpuriousWake
  BY <1>33 DEF SpuriousWake, Sleepers
<1>34. CASE UNCHANGED vars
  BY <1>34 DEF vars, Unsent
<1> HIDE DEF CallersFollowWorker
<1>35. QED
  BY <1>1, <1>2, <1>3, <1>4, <1>5, <1>6, <1>7, <1>8, <1>9, <1>10, <1>11,
     <1>12, <1>13, <1>14, <1>15, <1>16, <1>17, <1>18, <1>19, <1>20, <1>21,
     <1>22, <1>23, <1>24, <1>25, <1>26, <1>27, <1>28, <1>29, <1>30, <1>31,
     <1>32, <1>33, <1>34
     DEF Next, CallerStep, MainStep, WorkerStep, Fault

\* The list and the wire grow and shrink together (client.cc:123-146, 439-483).
LEMMA NextListFollowsWire ==
  ASSUME SyncInv, WritesWork, [Next]_vars
  PROVE  ListFollowsWire'
<1> USE ThreadsAssumption, MaxCallsAssumption
    DEF TypeOK, StateTypes, Places, workerVars, callVars, netVars, Threads, Goto, Report,
        InReply, SyncInv, WritesWork, MtxOwners, Connected, CallersFollowWorker,
        WorkerFollowsState, Unsent, ListFollowsWire
<1>1. ASSUME NEW c \in Callers, BeginCall(c) PROVE ListFollowsWire'
  BY <1>1 DEF BeginCall
<1>2. ASSUME NEW c \in Callers, Push(c) PROVE ListFollowsWire'
  BY <1>2 DEF Push
<1>3. ASSUME NEW c \in Callers, Flush(c) PROVE ListFollowsWire'
  BY <1>3, SMTT(30) DEF Flush, Unsent
<1>4. ASSUME NEW c \in Callers, WriteFails(c) PROVE ListFollowsWire'
  BY <1>4 DEF WriteFails
<1>5. ASSUME NEW c \in Callers, FailOne(c) PROVE ListFollowsWire'
  BY <1>5 DEF FailOne, DrainOne, TakeOne, TellOne
<1>6. ASSUME NEW c \in Callers, FailState(c) PROVE ListFollowsWire'
  BY <1>6 DEF FailState
<1>7. ASSUME NEW c \in Callers, FailClose(c) PROVE ListFollowsWire'
  BY <1>7 DEF FailClose
<1>8. ASSUME NEW c \in Callers, EndCall(c) PROVE ListFollowsWire'
  BY <1>8 DEF EndCall
<1>9. CASE Start
  BY <1>9 DEF Start
<1>10. CASE BeginClose
  BY <1>10 DEF BeginClose
<1>11. CASE StartWait
  BY <1>11 DEF StartWait
<1>12. CASE StartDone
  BY <1>12 DEF StartDone, SignalAndGoto, Sleepers, CondFree
<1>13. CASE CloseTwice
  BY <1>13 DEF CloseTwice
<1>14. CASE CloseFailing
  BY <1>14 DEF CloseFailing, SignalAndGoto, Sleepers, CondFree
<1>15. CASE CloseSwap
  BY <1>15 DEF CloseSwap
<1>16. CASE SendBye
  BY <1>16 DEF SendBye
<1>17. CASE CloseConn
  BY <1>17 DEF CloseConn
<1>18. CASE Join
  BY <1>18 DEF Join
<1>19. ASSUME NEW w \in Watchers, WaitSleep(w) PROVE ListFollowsWire'
  BY <1>19 DEF WaitSleep
<1>20. ASSUME NEW w \in Watchers, WaitDone(w) PROVE ListFollowsWire'
  BY <1>20 DEF WaitDone, SignalAndGoto, Sleepers, CondFree, Connected
<1>21. CASE HelloDone
  BY <1>21 DEF HelloDone, SignalAndGoto, Sleepers
<1>22. CASE ReadReply
  <2>1. /\ pc[Worker] = "read" /\ wire # <<>> /\ wire' = Tail(wire)
        /\ wire \in Seq(Callers) /\ Unsent \in Seq(Callers)
        /\ pending = wire \o Unsent
    BY <1>22 DEF ReadReply
  <2>2. /\ pending # <<>> /\ Head(pending) = Head(wire) /\ Head(wire) \in Callers
        /\ Tail(pending) = Tail(wire) \o Unsent
    BY <2>1, HeadOfConcat
  <2>3. /\ held' = Head(wire) /\ reading' = Head(wire) /\ pending' = Tail(pending)
        /\ callMtx' = callMtx
        /\ \A c \in Callers : pc'[c] = pc[c]
    BY <1>22, <2>2 DEF ReadReply
  <2>4. Unsent' = Unsent
    BY <2>3
  <2>5. QED
    BY <2>1, <2>2, <2>3, <2>4
<1>23. CASE FinishReply
  BY <1>23 DEF FinishReply
<1>24. CASE ByeAnswered
  BY <1>24 DEF ByeAnswered, ReadGoodbye
<1>25. CASE ReadClosed
  BY <1>25 DEF ReadClosed
<1>26. CASE HandlerLock
  BY <1>26 DEF HandlerLock
<1>27. CASE HandlerDrain
  BY <1>27 DEF HandlerDrain, DrainOne, TakeOne, TellOne
<1>28. CASE HandlerDecide
  BY <1>28 DEF HandlerDecide, HandlerLeave, HandlerSleep, BroadcastAndGoto, Sleepers
<1>29. CASE HelloFails
  BY <1>29 DEF HelloFails
<1>30. CASE ReplyFails
  BY <1>30 DEF ReplyFails
<1>31. CASE GoodbyeUnasked
  BY <1>31 DEF GoodbyeUnasked, ReadGoodbye
<1>32. CASE ReadBad
  BY <1>32 DEF ReadBad
<1>33. CASE SpuriousWake
  <2>1. PICK t \in Sleepers : pc' = [pc EXCEPT ![t] = "recheck"]
    BY <1>33 DEF SpuriousWake
  <2>2. pc[t] = "asleep" /\ \A c \in Callers : pc'[c] = pc[c]
    BY <2>1 DEF Sleepers
  <2>3. UNCHANGED <<pending, wire, held, reading, callMtx>>
    BY <1>33 DEF SpuriousWake
  <2>4. QED
    BY <2>1, <2>2, <2>3
<1>34. CASE UNCHANGED vars
  BY <1>34 DEF vars, Unsent
<1> HIDE DEF ListFollowsWire
<1>35. QED
  BY <1>1, <1>2, <1>3, <1>4, <1>5, <1>6, <1>7, <1>8, <1>9, <1>10, <1>11,
     <1>12, <1>13, <1>14, <1>15, <1>16, <1>17, <1>18, <1>19, <1>20, <1>21,
     <1>22, <1>23, <1>24, <1>25, <1>26, <1>27, <1>28, <1>29, <1>30, <1>31,
     <1>32, <1>33, <1>34
     DEF Next, CallerStep, MainStep, WorkerStep, Fault

\* Whatever fails, every field keeps its type and every thread is at a place of
\* its own program (client.h:59-99, client.cc:48-483).
THEOREM SessionTypeCorrect == Spec => []TypeOK
BY InitTypeOK, NextTypeOK, PTL DEF Spec

\* What may go wrong does not change within a behaviour.
LEMMA NextFaults == [Next]_vars => UNCHANGED faults
BY DEF Next, CallerStep, MainStep, WorkerStep, Fault, vars, netVars, BeginCall, Push, Flush,
       WriteFails, FailOne, FailState, FailClose, EndCall, WaitSleep, WaitDone, Start,
       BeginClose, StartWait, StartDone, CloseTwice, CloseFailing, CloseSwap, SendBye,
       CloseConn, Join, HelloDone, ReadReply, FinishReply, ByeAnswered, ReadGoodbye,
       ReadClosed, HandlerLock, HandlerDrain, HandlerDecide, HelloFails, ReplyFails,
       GoodbyeUnasked, ReadBad, SpuriousWake

\* SyncInv is inductive when no write fails (client.cc:48-483).
THEOREM SessionInvariance == Spec => []SessionInv
<1>1. Init => SessionInv
  BY InitSyncInv DEF SessionInv
<1>2. SessionInv /\ [Next]_vars => SessionInv'
  <2> SUFFICES ASSUME SessionInv, [Next]_vars, WritesWork' PROVE SyncInv'
    BY DEF SessionInv
  <2>1. WritesWork /\ SyncInv
    BY NextFaults DEF SessionInv, WritesWork
  <2>2. QED
    BY <2>1, NextTypeOK, NextMtxOwners, NextWorkerFollowsState, NextCallersFollowWorker,
       NextListFollowsWire DEF SyncInv
<1>3. QED
  BY <1>1, <1>2, PTL DEF Spec

\* A reply is read into the record of the call it answers (client.cc:466-483).
THEOREM RepliesReachTheirCalls == Spec => []RepliesMatch
<1>1. Init => RepliesMatch
  BY DEF Init, RepliesMatch
<1>2. SessionInv /\ RepliesMatch /\ [Next]_vars => RepliesMatch'
  <2> SUFFICES ASSUME SessionInv, RepliesMatch, [Next]_vars, WritesWork' PROVE RepliesMatch'
    BY DEF RepliesMatch
  <2>0. WritesWork /\ SyncInv
    BY NextFaults DEF SessionInv, WritesWork
  <2> USE <2>0 DEF SyncInv, TypeOK, StateTypes, Places, RepliesMatch
  <2>1. ASSUME NEW c \in Callers, BeginCall(c) PROVE RepliesMatch'
    BY <2>1 DEF BeginCall
  <2>2. ASSUME NEW c \in Callers, FailOne(c) PROVE RepliesMatch'
    BY <2>2 DEF FailOne, DrainOne, TakeOne, TellOne
  <2>3. CASE HandlerDrain
    BY <2>3 DEF HandlerDrain, DrainOne, TakeOne, TellOne
  <2>4. CASE FinishReply
    BY <2>4 DEF FinishReply, ListFollowsWire, InReply
  <2>5. CASE HandlerDecide
    BY <2>5 DEF HandlerDecide, HandlerLeave, HandlerSleep
  <2>6. ASSUME UNCHANGED answer PROVE RepliesMatch'
    BY <2>6
  <2>7. QED
    BY <2>1, <2>2, <2>3, <2>4, <2>5, <2>6
       DEF Next, CallerStep, MainStep, WorkerStep, Fault, vars, callVars, Push, Flush,
           WriteFails, FailState, FailClose, EndCall, WaitSleep, WaitDone, Start,
           BeginClose, StartWait, StartDone, CloseTwice, CloseFailing, CloseSwap,
           SendBye, CloseConn, Join, HelloDone, ReadReply, ByeAnswered, ReadGoodbye,
           ReadClosed, HandlerLock, HelloFails, ReplyFails, GoodbyeUnasked, ReadBad,
           SpuriousWake
<1>3. QED
  BY <1>1, <1>2, SessionInvariance, PTL DEF Spec
----------------------------------------------------------------------------
\* The error and the sleepers

\* The error is set from the handler's lock to its return.
ErrorInv ==
    /\ errSet <=> pc[Worker] \in {"drain", "asleep", "recheck"}
    /\ pc[Main] = "new" => pc[Worker] = "none"

\* A session fails with its error set, unless it was closed and its worker has ended;
\* and nobody sleeps next to the handler.
SleepInv ==
    /\ state = "Failing" => errSet \/ pc[Worker] \in {"none", "exited"}
    /\ pc[Worker] \in {"asleep", "recheck"} => Sleepers \subseteq {Worker}

\* Only the handler sets the error, and it takes it back when it returns
\* (client.cc:290-317).
LEMMA NextErrorInv ==
  ASSUME TypeOK, ErrorInv, [Next]_vars
  PROVE  ErrorInv'
<1> USE ThreadsAssumption
    DEF TypeOK, StateTypes, Places, Threads, Goto, Report, InReply, workerVars, callVars,
        netVars, ErrorInv
<1>1. ASSUME NEW c \in Callers, BeginCall(c) PROVE ErrorInv'
  BY <1>1 DEF BeginCall
<1>2. ASSUME NEW c \in Callers, Push(c) PROVE ErrorInv'
  BY <1>2 DEF Push
<1>3. ASSUME NEW c \in Callers, Flush(c) PROVE ErrorInv'
  BY <1>3 DEF Flush
<1>4. ASSUME NEW c \in Callers, WriteFails(c) PROVE ErrorInv'
  BY <1>4 DEF WriteFails
<1>5. ASSUME NEW c \in Callers, FailOne(c) PROVE ErrorInv'
  BY <1>5 DEF FailOne, DrainOne, TakeOne, TellOne
<1>6. ASSUME NEW c \in Callers, FailState(c) PROVE ErrorInv'
  BY <1>6 DEF FailState
<1>7. ASSUME NEW c \in Callers, FailClose(c) PROVE ErrorInv'
  BY <1>7 DEF FailClose
<1>8. ASSUME NEW c \in Callers, EndCall(c) PROVE ErrorInv'
  BY <1>8 DEF EndCall
<1>9. CASE Start
  BY <1>9 DEF Start
<1>10. CASE BeginClose
  BY <1>10 DEF BeginClose
<1>11. CASE StartWait
  BY <1>11 DEF StartWait
<1>12. CASE StartDone
  BY <1>12 DEF StartDone, SignalAndGoto, Sleepers, CondFree
<1>13. CASE CloseTwice
  BY <1>13 DEF CloseTwice
<1>14. CASE CloseFailing
  BY <1>14 DEF CloseFailing, SignalAndGoto, Sleepers, CondFree
<1>15. CASE CloseSwap
  BY <1>15 DEF CloseSwap
<1>16. CASE SendBye
  BY <1>16 DEF SendBye
<1>17. CASE CloseConn
  BY <1>17 DEF CloseConn
<1>18. CASE Join
  BY <1>18 DEF Join
<1>19. ASSUME NEW w \in Watchers, WaitSleep(w) PROVE ErrorInv'
  BY <1>19 DEF WaitSleep
<1>20. ASSUME NEW w \in Watchers, WaitDone(w) PROVE ErrorInv'
  BY <1>20 DEF WaitDone, SignalAndGoto, Sleepers, CondFree
<1>21. CASE HelloDone
  BY <1>21 DEF HelloDone, SignalAndGoto, Sleepers
<1>22. CASE ReadReply
  BY <1>22 DEF ReadReply
<1>23. CASE FinishReply
  BY <1>23 DEF FinishReply
<1>24. CASE ByeAnswered
  BY <1>24 DEF ByeAnswered, ReadGoodbye
<1>25. CASE ReadClosed
  BY <1>25 DEF ReadClosed
<1>26. CASE HandlerLock
  BY <1>26 DEF HandlerLock
<1>27. CASE HandlerDrain
  BY <1>27 DEF HandlerDrain, DrainOne, TakeOne, TellOne
<1>28. CASE HandlerDecide
  BY <1>28 DEF HandlerDecide, HandlerLeave, HandlerSleep, BroadcastAndGoto, Sleepers
<1>29. CASE HelloFails
  BY <1>29 DEF HelloFails
<1>30. CASE ReplyFails
  BY <1>30 DEF ReplyFails
<1>31. CASE GoodbyeUnasked
  BY <1>31 DEF GoodbyeUnasked, ReadGoodbye
<1>32. CASE ReadBad
  BY <1>32 DEF ReadBad
<1>33. CASE SpuriousWake
  BY <1>33 DEF SpuriousWake, Sleepers
<1>34. CASE UNCHANGED vars
  BY <1>34 DEF vars
<1>35. QED
  BY <1>1, <1>2, <1>3, <1>4, <1>5, <1>6, <1>7, <1>8, <1>9, <1>10, <1>11,
     <1>12, <1>13, <1>14, <1>15, <1>16, <1>17, <1>18, <1>19, <1>20, <1>21,
     <1>22, <1>23, <1>24, <1>25, <1>26, <1>27, <1>28, <1>29, <1>30, <1>31,
     <1>32, <1>33, <1>34
     DEF Next, CallerStep, MainStep, WorkerStep, Fault

\* While the handler sleeps the session is over, and nobody goes to sleep in one that is
\* (client.cc:48-73, 279-317).
LEMMA NextSleepInv ==
  ASSUME SyncInv, WritesWork, ErrorInv, SleepInv, [Next]_vars
  PROVE  SleepInv'
<1> USE ThreadsAssumption
    DEF TypeOK, StateTypes, Places, Threads, Goto, Report, InReply, workerVars, callVars,
        netVars, ErrorInv, SleepInv, SyncInv, MtxOwners, WorkerFollowsState,
        CallersFollowWorker, WritesWork, Connected, Sleepers
<1>1. ASSUME NEW c \in Callers, BeginCall(c) PROVE SleepInv'
  BY <1>1 DEF BeginCall
<1>2. ASSUME NEW c \in Callers, Push(c) PROVE SleepInv'
  BY <1>2 DEF Push
<1>3. ASSUME NEW c \in Callers, Flush(c) PROVE SleepInv'
  BY <1>3 DEF Flush
<1>4. ASSUME NEW c \in Callers, WriteFails(c) PROVE SleepInv'
  BY <1>4 DEF WriteFails
<1>5. ASSUME NEW c \in Callers, FailOne(c) PROVE SleepInv'
  BY <1>5 DEF FailOne, DrainOne, TakeOne, TellOne
<1>6. ASSUME NEW c \in Callers, FailState(c) PROVE SleepInv'
  BY <1>6 DEF FailState
<1>7. ASSUME NEW c \in Callers, FailClose(c) PROVE SleepInv'
  BY <1>7 DEF FailClose
<1>8. ASSUME NEW c \in Callers, EndCall(c) PROVE SleepInv'
  BY <1>8 DEF EndCall
<1>9. CASE Start
  BY <1>9 DEF Start
<1>10. CASE BeginClose
  BY <1>10 DEF BeginClose
<1>11. CASE StartWait
  BY <1>11 DEF StartWait
<1>12. CASE StartDone
  BY <1>12 DEF StartDone, SignalAndGoto, Sleepers, CondFree
<1>13. CASE CloseTwice
  BY <1>13 DEF CloseTwice
<1>14. CASE CloseFailing
  BY <1>14 DEF CloseFailing, SignalAndGoto, Sleepers, CondFree
<1>15. CASE CloseSwap
  BY <1>15 DEF CloseSwap
<1>16. CASE SendBye
  BY <1>16 DEF SendBye
<1>17. CASE CloseConn
  BY <1>17 DEF CloseConn
<1>18. CASE Join
  BY <1>18 DEF Join
<1>19. ASSUME NEW w \in Watchers, WaitSleep(w) PROVE SleepInv'
  BY <1>19 DEF WaitSleep
<1>20. ASSUME NEW w \in Watchers, WaitDone(w) PROVE SleepInv'
  BY <1>20 DEF WaitDone, SignalAndGoto, Sleepers, CondFree
<1>21. CASE HelloDone
  BY <1>21 DEF HelloDone, SignalAndGoto, Sleepers
<1>22. CASE ReadReply
  BY <1>22 DEF ReadReply
<1>23. CASE FinishReply
  BY <1>23 DEF FinishReply
<1>24. CASE ByeAnswered
  BY <1>24 DEF ByeAnswered, ReadGoodbye
<1>25. CASE ReadClosed
  BY <1>25 DEF ReadClosed
<1>26. CASE HandlerLock
  BY <1>26 DEF HandlerLock
<1>27. CASE HandlerDrain
  BY <1>27 DEF HandlerDrain, DrainOne, TakeOne, TellOne
<1>28. CASE HandlerDecide
  BY <1>28 DEF HandlerDecide, HandlerLeave, HandlerSleep, BroadcastAndGoto, Sleepers
<1>29. CASE HelloFails
  BY <1>29 DEF HelloFails
<1>30. CASE ReplyFails
  BY <1>30 DEF ReplyFails
<1>31. CASE GoodbyeUnasked
  BY <1>31 DEF GoodbyeUnasked, ReadGoodbye
<1>32. CASE ReadBad
  BY <1>32 DEF ReadBad
<1>33. CASE SpuriousWake
  BY <1>33 DEF SpuriousWake, Sleepers
<1>34. CASE UNCHANGED vars
  BY <1>34 DEF vars
<1>35. QED
  BY <1>1, <1>2, <1>3, <1>4, <1>5, <1>6, <1>7, <1>8, <1>9, <1>10, <1>11,
     <1>12, <1>13, <1>14, <1>15, <1>16, <1>17, <1>18, <1>19, <1>20, <1>21,
     <1>22, <1>23, <1>24, <1>25, <1>26, <1>27, <1>28, <1>29, <1>30, <1>31,
     <1>32, <1>33, <1>34
     DEF Next, CallerStep, MainStep, WorkerStep, Fault

\* The handler's protocol with its readers is kept by every session.
LEMMA HandlerInvariance == Spec => [](TypeOK /\ SessionInv /\ ErrorInv /\ (WritesWork => SleepInv))
<1>1. Init => ErrorInv /\ SleepInv
  BY ThreadsAssumption DEF Init, ErrorInv, SleepInv, Threads, Sleepers
<1>2. ErrorInv /\ (WritesWork => SleepInv) /\ TypeOK /\ SessionInv /\ [Next]_vars =>
        ErrorInv' /\ (WritesWork => SleepInv)'
  BY NextErrorInv, NextSleepInv, NextFaults DEF SessionInv, WritesWork
<1>3. QED
  BY <1>1, <1>2, SessionTypeCorrect, SessionInvariance, PTL DEF Spec

\* The error is in its frame whenever wait() or connect() may read it
\* (client.cc:68-69, 283-284, 295-310).
THEOREM ErrorsOutliveTheirReaders == Spec => []ErrorOutlivesItsReaders
<1>1. ErrorInv /\ (WritesWork => SleepInv) => ErrorOutlivesItsReaders
  BY DEF ErrorInv, SleepInv, ErrorOutlivesItsReaders
<1>2. QED
  BY <1>1, HandlerInvariance, PTL

\* The signal that ends the handler's sleep wakes the handler
\* (client.cc:71, 98, 286, 310).
THEOREM HandlersSleepAlone == Spec => []HandlerSleepsAlone
<1>1. (WritesWork => SleepInv) => HandlerSleepsAlone
  BY DEF SleepInv, HandlerSleepsAlone, Sleepers, Threads
<1>2. QED
  BY <1>1, HandlerInvariance, PTL

----------------------------------------------------------------------------
\* A session in which nothing goes wrong

\* The worker has a reply, waits for one, or has read the goodbye that answers the one of
\* close(), and then no call is left.
FaultlessInv ==
    /\ pc[Worker] \in {"none", "hello", "read", "unmarshal", "exited"}
    /\ pc[Worker] \in {"hello", "read", "unmarshal"} =>
         /\ connOpen /\ state \in {"Starting", "Running", "Closed"} /\ pc[Main] # "shut"
         /\ byeSent => pc[Main] = "join"
    /\ pc[Main] = "new" => ~byeSent
    /\ \A c \in Callers : pc[c] \in {"push", "flush"} => state = "Running"
    /\ pc[Worker] = "exited" => pending = <<>>
    /\ \A c \in Callers : answer[c] \in {"none", "reply"}
    /\ \A t \in Drainers : taken[t] = None

\* With nothing going wrong the goodbye is read after the last reply
\* (client.cc:112-116, 324-389, 439-483).
LEMMA NextFaultlessInv ==
  ASSUME SyncInv, FaultlessInv, faults = {}, [Next]_vars
  PROVE  FaultlessInv'
<1> USE ThreadsAssumption
    DEF TypeOK, StateTypes, Places, Threads, Goto, Report, InReply, workerVars, callVars,
        netVars, SyncInv, MtxOwners, WorkerFollowsState, CallersFollowWorker, Connected,
        FaultlessInv
<1>1. ASSUME NEW c \in Callers, BeginCall(c) PROVE FaultlessInv'
  BY <1>1 DEF BeginCall
<1>2. ASSUME NEW c \in Callers, Push(c) PROVE FaultlessInv'
  BY <1>2 DEF Push
<1>3. ASSUME NEW c \in Callers, Flush(c) PROVE FaultlessInv'
  BY <1>3 DEF Flush
<1>4. ASSUME NEW c \in Callers, WriteFails(c) PROVE FaultlessInv'
  BY <1>4 DEF WriteFails
<1>5. ASSUME NEW c \in Callers, FailOne(c) PROVE FaultlessInv'
  BY <1>5 DEF FailOne, DrainOne, TakeOne, TellOne, Drainers
<1>6. ASSUME NEW c \in Callers, FailState(c) PROVE FaultlessInv'
  BY <1>6 DEF FailState
<1>7. ASSUME NEW c \in Callers, FailClose(c) PROVE FaultlessInv'
  BY <1>7 DEF FailClose
<1>8. ASSUME NEW c \in Callers, EndCall(c) PROVE FaultlessInv'
  BY <1>8 DEF EndCall
<1>9. CASE Start
  BY <1>9 DEF Start
<1>10. CASE BeginClose
  BY <1>10 DEF BeginClose
<1>11. CASE StartWait
  BY <1>11 DEF StartWait
<1>12. CASE StartDone
  BY <1>12 DEF StartDone, SignalAndGoto, Sleepers, CondFree
<1>13. CASE CloseTwice
  BY <1>13 DEF CloseTwice
<1>14. CASE CloseFailing
  BY <1>14 DEF CloseFailing, SignalAndGoto, Sleepers, CondFree
<1>15. CASE CloseSwap
  BY <1>15 DEF CloseSwap
<1>16. CASE SendBye
  BY <1>16 DEF SendBye
<1>17. CASE CloseConn
  BY <1>17 DEF CloseConn
<1>18. CASE Join
  BY <1>18 DEF Join
<1>19. ASSUME NEW w \in Watchers, WaitSleep(w) PROVE FaultlessInv'
  BY <1>19 DEF WaitSleep
<1>20. ASSUME NEW w \in Watchers, WaitDone(w) PROVE FaultlessInv'
  BY <1>20 DEF WaitDone, SignalAndGoto, Sleepers, CondFree
<1>21. CASE HelloDone
  BY <1>21 DEF HelloDone, SignalAndGoto, Sleepers
<1>22. CASE ReadReply
  <2>1. pending = wire \o Unsent /\ Unsent \in Seq(Callers) /\ wire # <<>>
    BY <1>22 DEF ReadReply, ListFollowsWire, Unsent
  <2>2. pending # <<>>
    BY <2>1, HeadOfConcat
  <2>3. QED
    BY <1>22, <2>2 DEF ReadReply
<1>23. CASE FinishReply
  BY <1>23 DEF FinishReply, ListFollowsWire
<1>24. CASE ByeAnswered
  <2>1. pc[Main] = "join" /\ state = "Closed" /\ callMtx = Main /\ wire = <<>>
    BY <1>24 DEF ByeAnswered, ReadGoodbye
  <2>2. pending = <<>>
    BY <1>24, <2>1 DEF ByeAnswered, ReadGoodbye, ListFollowsWire, Unsent
  <2>3. QED
    BY <1>24, <2>1, <2>2 DEF ByeAnswered, ReadGoodbye
<1>25. CASE ReadClosed
  BY <1>25 DEF ReadClosed
<1>26. CASE HandlerLock
  BY <1>26 DEF HandlerLock
<1>27. CASE HandlerDrain
  BY <1>27 DEF HandlerDrain, DrainOne, TakeOne, TellOne
<1>28. CASE HandlerDecide
  BY <1>28 DEF HandlerDecide, HandlerLeave, HandlerSleep, BroadcastAndGoto, Sleepers
<1>29. CASE HelloFails
  BY <1>29 DEF HelloFails
<1>30. CASE ReplyFails
  BY <1>30 DEF ReplyFails
<1>31. CASE GoodbyeUnasked
  BY <1>31 DEF GoodbyeUnasked, ReadGoodbye
<1>32. CASE ReadBad
  BY <1>32 DEF ReadBad
<1>33. CASE SpuriousWake
  BY <1>33 DEF SpuriousWake, Sleepers
<1>34. CASE UNCHANGED vars
  BY <1>34 DEF vars
<1>35. QED
  BY <1>1, <1>2, <1>3, <1>4, <1>5, <1>6, <1>7, <1>8, <1>9, <1>10, <1>11,
     <1>12, <1>13, <1>14, <1>15, <1>16, <1>17, <1>18, <1>19, <1>20, <1>21,
     <1>22, <1>23, <1>24, <1>25, <1>26, <1>27, <1>28, <1>29, <1>30, <1>31,
     <1>32, <1>33, <1>34
     DEF Next, CallerStep, MainStep, WorkerStep, Fault

\* With a healthy transport no call is cut off by close(), for any callers and any
\* number of calls (client.cc:112-116).
THEOREM CloseCutsNoCall == Spec => []CloseLetsCallsFinish
<1>1. Init => FaultlessInv
  BY ThreadsAssumption DEF Init, FaultlessInv, Threads
<1>2. (faults = {} => FaultlessInv) /\ SessionInv /\ [Next]_vars => (faults = {} => FaultlessInv)'
  BY NextFaultlessInv, NextFaults DEF SessionInv, WritesWork
<1>3. (faults = {} => FaultlessInv) => CloseLetsCallsFinish
  BY DEF FaultlessInv, CloseLetsCallsFinish
<1>4. QED
  BY <1>1, <1>2, <1>3, SessionInvariance, PTL DEF Spec

----------------------------------------------------------------------------
\* The record of a call

InList(s, c) == \E i \in DOMAIN s : s[i] = c
Distinct(s) == \A i, j \in DOMAIN s : s[i] = s[j] => i = j

LEMMA ListAppend ==
  ASSUME NEW S, NEW s \in Seq(S), NEW e
  PROVE  /\ \A c : InList(Append(s, e), c) <=> (InList(s, c) \/ c = e)
         /\ Distinct(s) /\ ~InList(s, e) => Distinct(Append(s, e))
<1>1. /\ DOMAIN Append(s, e) = 1..(Len(s) + 1) /\ DOMAIN s = 1..Len(s) /\ Len(s) \in Nat
      /\ \A i \in 1..Len(s) : Append(s, e)[i] = s[i]
      /\ Append(s, e)[Len(s) + 1] = e
  BY SMT
<1>2. QED
  BY <1>1 DEF InList, Distinct

LEMMA ListTail ==
  ASSUME NEW S, NEW s \in Seq(S), s # <<>>
  PROVE  /\ InList(s, Head(s)) /\ Head(s) \in S
         /\ \A c : InList(s, c) <=> (c = Head(s) \/ InList(Tail(s), c))
         /\ Distinct(s) => Distinct(Tail(s)) /\ ~InList(Tail(s), Head(s))
<1>1. /\ DOMAIN Tail(s) = 1..(Len(s) - 1) /\ DOMAIN s = 1..Len(s) /\ Len(s) \in Nat \ {0}
      /\ \A i \in 1..(Len(s) - 1) : Tail(s)[i] = s[i + 1]
      /\ Head(s) = s[1] /\ s[1] \in S
  BY SMT
<1>2. InList(s, Head(s)) /\ Head(s) \in S
  BY <1>1 DEF InList
<1>3. ASSUME NEW c, InList(s, c), c # Head(s) PROVE InList(Tail(s), c)
  <2>1. PICK i \in 1..Len(s) : s[i] = c /\ i # 1
    BY <1>1, <1>3 DEF InList
  <2>2. i - 1 \in 1..(Len(s) - 1) /\ Tail(s)[i - 1] = c
    BY <1>1, <2>1
  <2>3. QED
    BY <1>1, <2>2 DEF InList
<1>4. ASSUME NEW c, InList(Tail(s), c) PROVE InList(s, c)
  BY <1>1, <1>4 DEF InList
<1>5. Distinct(s) => Distinct(Tail(s)) /\ ~InList(Tail(s), Head(s))
  BY <1>1 DEF Distinct, InList
<1>6. QED
  BY <1>2, <1>3, <1>4, <1>5

\* A record that a thread has popped to fail its call (client.cc:453-464).
InHands(f, c) == \E t \in Drainers : f[t] = c

\* The worker has a record only inside a reply, or in the handler of an error in one; and
\* what a call has sent for is answered, with the worker, or in the list.
CallInv ==
    /\ held # None =>
         \/ pc[Worker] \in InReply
         \/ /\ pc[Worker] \in {"handler", "drain", "asleep", "recheck"}
            /\ after \in {"reply", "errorReply"}
    /\ \A c \in Callers : pc[c] \in {"flush", "wait"} =>
         answer[c] # "none" \/ held = c \/ InHands(taken, c) \/ InList(pending, c)

\* No record is in the list twice, and one that is there or with the worker has a caller
\* that waits for its answer.
OwnerInv ==
    /\ Distinct(pending)
    /\ \A c \in Callers : InList(pending, c) =>
         pc[c] \in {"flush", "wait"} /\ answer[c] = "none"
    /\ \A c \in Callers : pc[c] = "push" => answer[c] = "none"
    /\ held # None =>
         pc[held] = "wait" /\ answer[held] = "none" /\ ~InList(pending, held)
    /\ \A t \in Drainers : taken[t] # None =>
         /\ pc[taken[t]] \in {"flush", "wait"}
         /\ answer[taken[t]] = "none"
         /\ taken[t] # held
         /\ ~InList(pending, taken[t])
         /\ \A u \in Drainers : taken[u] = taken[t] => u = t

\* A record is handed from the list to the worker, and its call is answered before it
\* is let go (client.cc:290-317, 439-483).
LEMMA NextCallInv ==
  ASSUME TypeOK, ErrorInv, CallInv, [Next]_vars
  PROVE  CallInv'
<1> USE ThreadsAssumption
    DEF TypeOK, StateTypes, Places, Threads, Goto, Report, InReply, workerVars, callVars,
        netVars, ErrorInv, CallInv
<1>1. ASSUME NEW c \in Callers, BeginCall(c) PROVE CallInv'
  BY <1>1 DEF BeginCall
<1>2. ASSUME NEW c \in Callers, Push(c) PROVE CallInv'
  <2>1. \A d \in Callers : InList(pending', d) <=> (InList(pending, d) \/ d = c)
    BY <1>2, ListAppend DEF Push
  <2>2. QED
    BY <1>2, <2>1 DEF Push
<1>3. ASSUME NEW c \in Callers, Flush(c) PROVE CallInv'
  BY <1>3 DEF Flush
<1>4. ASSUME NEW c \in Callers, WriteFails(c) PROVE CallInv'
  BY <1>4 DEF WriteFails
<1>5. ASSUME NEW c \in Callers, FailOne(c) PROVE CallInv'
  <2>1. CASE TakeOne(c)
    <3>1. \A d \in Callers : InList(pending, d) <=> (d = Head(pending) \/ InList(pending', d))
      BY <2>1, ListTail DEF TakeOne
    <3>2. InHands(taken', Head(pending)) /\ \A d \in Callers : InHands(taken, d) => InHands(taken', d)
      BY <2>1 DEF TakeOne, InHands, Drainers
    <3>3. QED
      BY <1>5, <2>1, <3>1, <3>2 DEF FailOne, TakeOne
  <2>2. CASE TellOne(c)
    <3>1. \A d \in Callers : InHands(taken, d) => InHands(taken', d) \/ answer'[d] # "none"
      BY <2>2 DEF TellOne, InHands, Drainers
    <3>2. \A d \in Callers : answer[d] # "none" => answer'[d] # "none"
      BY <2>2 DEF TellOne
    <3>3. QED
      BY <1>5, <2>2, <3>1, <3>2 DEF FailOne, TellOne
  <2>3. QED
    BY <1>5, <2>1, <2>2 DEF FailOne, DrainOne
<1>6. ASSUME NEW c \in Callers, FailState(c) PROVE CallInv'
  BY <1>6 DEF FailState
<1>7. ASSUME NEW c \in Callers, FailClose(c) PROVE CallInv'
  BY <1>7 DEF FailClose
<1>8. ASSUME NEW c \in Callers, EndCall(c) PROVE CallInv'
  BY <1>8 DEF EndCall
<1>9. CASE Start
  BY <1>9 DEF Start
<1>10. CASE BeginClose
  BY <1>10 DEF BeginClose
<1>11. CASE StartWait
  BY <1>11 DEF StartWait
<1>12. CASE StartDone
  BY <1>12 DEF StartDone, SignalAndGoto, Sleepers, CondFree
<1>13. CASE CloseTwice
  BY <1>13 DEF CloseTwice
<1>14. CASE CloseFailing
  BY <1>14 DEF CloseFailing, SignalAndGoto, Sleepers, CondFree
<1>15. CASE CloseSwap
  BY <1>15 DEF CloseSwap
<1>16. CASE SendBye
  BY <1>16 DEF SendBye
<1>17. CASE CloseConn
  BY <1>17 DEF CloseConn
<1>18. CASE Join
  BY <1>18 DEF Join
<1>19. ASSUME NEW w \in Watchers, WaitSleep(w) PROVE CallInv'
  BY <1>19 DEF WaitSleep
<1>20. ASSUME NEW w \in Watchers, WaitDone(w) PROVE CallInv'
  BY <1>20 DEF WaitDone, SignalAndGoto, Sleepers, CondFree
<1>21. CASE HelloDone
  BY <1>21 DEF HelloDone, SignalAndGoto, Sleepers
<1>22. CASE ReadReply
  <2>1. CASE pending = <<>>
    BY <1>22, <2>1 DEF ReadReply
  <2>2. CASE pending # <<>>
    <3>1. /\ pending' = Tail(pending) /\ held' = Head(pending) /\ answer' = answer
          /\ taken' = taken
          /\ pc'[Worker] \in InReply /\ \A d \in Callers : pc'[d] = pc[d]
          /\ held = None
      BY <1>22, <2>2 DEF ReadReply
    <3>2. \A d \in Callers : InList(pending, d) <=> (d = Head(pending) \/ InList(pending', d))
      BY <2>2, <3>1, ListTail
    <3>3. QED
      BY <3>1, <3>2
  <2>3. QED
    BY <2>1, <2>2
<1>23. CASE FinishReply
  BY <1>23 DEF FinishReply
<1>24. CASE ByeAnswered
  BY <1>24 DEF ByeAnswered, ReadGoodbye
<1>25. CASE ReadClosed
  BY <1>25 DEF ReadClosed
<1>26. CASE HandlerLock
  BY <1>26 DEF HandlerLock
<1>27. CASE HandlerDrain
  <2>1. CASE TakeOne(Worker)
    <3>1. \A d \in Callers : InList(pending, d) <=> (d = Head(pending) \/ InList(pending', d))
      BY <2>1, ListTail DEF TakeOne
    <3>2. InHands(taken', Head(pending)) /\ \A d \in Callers : InHands(taken, d) => InHands(taken', d)
      BY <2>1 DEF TakeOne, InHands, Drainers
    <3>3. QED
      BY <1>27, <2>1, <3>1, <3>2 DEF HandlerDrain, TakeOne
  <2>2. CASE TellOne(Worker)
    <3>1. \A d \in Callers : InHands(taken, d) => InHands(taken', d) \/ answer'[d] # "none"
      BY <2>2 DEF TellOne, InHands, Drainers
    <3>2. \A d \in Callers : answer[d] # "none" => answer'[d] # "none"
      BY <2>2 DEF TellOne
    <3>3. QED
      BY <1>27, <2>2, <3>1, <3>2 DEF HandlerDrain, TellOne
  <2>3. QED
    BY <1>27, <2>1, <2>2 DEF HandlerDrain, DrainOne
<1>28. CASE HandlerDecide
  BY <1>28 DEF HandlerDecide, HandlerLeave, HandlerSleep, BroadcastAndGoto, Sleepers
<1>29. CASE HelloFails
  BY <1>29 DEF HelloFails
<1>30. CASE ReplyFails
  BY <1>30 DEF ReplyFails
<1>31. CASE GoodbyeUnasked
  BY <1>31 DEF GoodbyeUnasked, ReadGoodbye
<1>32. CASE ReadBad
  BY <1>32 DEF ReadBad
<1>33. CASE SpuriousWake
  BY <1>33 DEF SpuriousWake, Sleepers
<1>34. CASE UNCHANGED vars
  BY <1>34 DEF vars
<1>35. QED
  BY <1>1, <1>2, <1>3, <1>4, <1>5, <1>6, <1>7, <1>8, <1>9, <1>10, <1>11,
     <1>12, <1>13, <1>14, <1>15, <1>16, <1>17, <1>18, <1>19, <1>20, <1>21,
     <1>22, <1>23, <1>24, <1>25, <1>26, <1>27, <1>28, <1>29, <1>30, <1>31,
     <1>32, <1>33, <1>34
     DEF Next, CallerStep, MainStep, WorkerStep, Fault

\* A reply that is read finds the list that the wire follows (client.cc:439-451).
LEMMA ReplyFindsList ==
  ASSUME SyncInv, ReadReply
  PROVE  /\ pending = wire \o Unsent /\ wire # <<>> /\ Unsent \in Seq(Callers)
         /\ wire \in Seq(Callers)
<1>1. pc[Worker] = "read" /\ wire # <<>>
  BY DEF ReadReply
<1>2. pending = wire \o Unsent
  BY <1>1 DEF SyncInv, ListFollowsWire
<1>3. Unsent \in Seq(Callers)
  BY DEF Unsent
<1>4. wire \in Seq(Callers)
  BY DEF SyncInv, TypeOK, StateTypes
<1>5. QED
  BY <1>1, <1>2, <1>3, <1>4

\* As long as no write fails a record has one owner (client.cc:131-146, 439-483).
LEMMA NextOwnerInv ==
  ASSUME SyncInv, WritesWork, OwnerInv, ErrorInv, CallInv, [Next]_vars
  PROVE  OwnerInv'
<1> USE ThreadsAssumption
    DEF TypeOK, StateTypes, Places, Threads, Goto, Report, InReply, workerVars, callVars,
        netVars, SyncInv, MtxOwners, CallersFollowWorker, WritesWork, ErrorInv, CallInv, OwnerInv
<1>1. ASSUME NEW c \in Callers, BeginCall(c) PROVE OwnerInv'
  BY <1>1 DEF BeginCall
<1>2. ASSUME NEW c \in Callers, Push(c) PROVE OwnerInv'
  <2>1. ~InList(pending, c)
    BY <1>2 DEF Push
  <2>2. (\A d \in Callers : InList(pending', d) <=> (InList(pending, d) \/ d = c)) /\ Distinct(pending')
    BY <1>2, <2>1, ListAppend DEF Push
  <2>3. held # c /\ answer[c] = "none"
    BY <1>2 DEF Push
  <2>4. QED
    BY <1>2, <2>2, <2>3 DEF Push
<1>3. ASSUME NEW c \in Callers, Flush(c) PROVE OwnerInv'
  BY <1>3 DEF Flush
<1>4. ASSUME NEW c \in Callers, WriteFails(c) PROVE OwnerInv'
  BY <1>4 DEF WriteFails
<1>5. ASSUME NEW c \in Callers, FailOne(c) PROVE OwnerInv'
  <2>1. CASE TakeOne(c)
    <3>1. /\ \A d \in Callers : InList(pending, d) <=> (d = Head(pending) \/ InList(pending', d))
          /\ Distinct(pending') /\ ~InList(pending', Head(pending)) /\ Head(pending) \in Callers
      BY <2>1, ListTail DEF TakeOne
    <3>2. PICK h \in Callers : h = Head(pending)
      BY <3>1
    <3>3. taken' = [taken EXCEPT ![c] = h] /\ taken[c] = None /\ answer' = answer
      BY <2>1, <3>2 DEF TakeOne
    <3>4. /\ \A d \in Callers : InList(pending, d) <=> (d = h \/ InList(pending', d))
          /\ ~InList(pending', h)
      BY <3>1, <3>2
    <3>5. pc' = pc /\ held' = held
      BY <1>5 DEF FailOne
    <3>6. QED
      BY <3>1, <3>3, <3>4, <3>5 DEF Drainers
  <2>2. CASE TellOne(c)
    BY <1>5, <2>2 DEF FailOne, TellOne, Drainers
  <2>3. QED
    BY <1>5, <2>1, <2>2 DEF FailOne, DrainOne
<1>6. ASSUME NEW c \in Callers, FailState(c) PROVE OwnerInv'
  <2>1. UNCHANGED <<pending, answer, taken, held>> /\ pc[c] = "fail"
    BY <1>6 DEF FailState
  <2>2. \A d \in Callers : d # c => pc'[d] = pc[d]
    BY <1>6 DEF FailState
  <2>3. pc'[c] \in {"idle", "closeConn"}
    BY <1>6 DEF FailState
  <2>4. QED
    BY <2>1, <2>2, <2>3
<1>7. ASSUME NEW c \in Callers, FailClose(c) PROVE OwnerInv'
  BY <1>7 DEF FailClose
<1>8. ASSUME NEW c \in Callers, EndCall(c) PROVE OwnerInv'
  BY <1>8 DEF EndCall
<1>9. CASE Start
  BY <1>9 DEF Start
<1>10. CASE BeginClose
  BY <1>10 DEF BeginClose
<1>11. CASE StartWait
  BY <1>11 DEF StartWait
<1>12. CASE StartDone
  BY <1>12 DEF StartDone, SignalAndGoto, Sleepers, CondFree
<1>13. CASE CloseTwice
  BY <1>13 DEF CloseTwice
<1>14. CASE CloseFailing
  BY <1>14 DEF CloseFailing, SignalAndGoto, Sleepers, CondFree
<1>15. CASE CloseSwap
  BY <1>15 DEF CloseSwap
<1>16. CASE SendBye
  BY <1>16 DEF SendBye
<1>17. CASE CloseConn
  BY <1>17 DEF CloseConn
<1>18. CASE Join
  BY <1>18 DEF Join
<1>19. ASSUME NEW w \in Watchers, WaitSleep(w) PROVE OwnerInv'
  BY <1>19 DEF WaitSleep
<1>20. ASSUME NEW w \in Watchers, WaitDone(w) PROVE OwnerInv'
  <2>1. UNCHANGED <<pending, answer, taken, held>>
    BY <1>20 DEF WaitDone
  <2>2. \A c \in Callers : pc'[c] = pc[c]
    BY <1>20 DEF WaitDone, SignalAndGoto, Sleepers, CondFree
  <2>3. QED
    BY <2>1, <2>2
<1>21. CASE HelloDone
  BY <1>21 DEF HelloDone, SignalAndGoto, Sleepers
<1>22. CASE ReadReply
  <2>1. /\ pending = wire \o Unsent /\ wire # <<>> /\ Unsent \in Seq(Callers)
        /\ wire \in Seq(Callers)
    BY <1>22, ReplyFindsList
  <2>2. pending # <<>> /\ Head(pending) \in Callers
    BY <2>1, HeadOfConcat
  <2> DEFINE h == Head(pending)
  <2>t. /\ pending' = Tail(pending) /\ held' = h /\ answer' = answer /\ taken' = taken
        /\ \A d \in Callers : pc'[d] = pc[d]
    BY <1>22, <2>2 DEF ReadReply
  <2>3. /\ \A d \in Callers : InList(pending, d) <=> (d = h \/ InList(pending', d))
        /\ Distinct(pending') /\ ~InList(pending', h) /\ InList(pending, h)
    BY <2>2, <2>t, ListTail
  <2>4. pc[h] # "flush"
    <3> SUFFICES ASSUME pc[h] = "flush" PROVE FALSE
      OBVIOUS
    <3>1. Unsent = <<h>>
      BY <2>2 DEF Unsent
    <3>2. /\ Len(wire) \in Nat \ {0} /\ Len(pending) = Len(wire) + 1
          /\ pending[Len(pending)] = h /\ pending[1] = h
          /\ DOMAIN pending = 1..Len(pending)
      BY <2>1, <2>2, <3>1
    <3>3. QED
      BY <3>2, SMTT(30) DEF Distinct
  <2>5. pc[h] = "wait" /\ answer[h] = "none"
    BY <2>2, <2>3, <2>4
  <2>6. PICK g \in Callers : g = h
    BY <2>2
  <2> HIDE DEF h
  <2>7. QED
    BY <2>t, <2>3, <2>5, <2>6
<1>23. CASE FinishReply
  BY <1>23 DEF FinishReply
<1>24. CASE ByeAnswered
  BY <1>24 DEF ByeAnswered, ReadGoodbye
<1>25. CASE ReadClosed
  BY <1>25 DEF ReadClosed
<1>26. CASE HandlerLock
  BY <1>26 DEF HandlerLock
<1>27. CASE HandlerDrain
  <2>1. CASE TakeOne(Worker)
    <3>1. /\ \A d \in Callers : InList(pending, d) <=> (d = Head(pending) \/ InList(pending', d))
          /\ Distinct(pending') /\ ~InList(pending', Head(pending)) /\ Head(pending) \in Callers
      BY <2>1, ListTail DEF TakeOne
    <3>2. PICK h \in Callers : h = Head(pending)
      BY <3>1
    <3>3. taken' = [taken EXCEPT ![Worker] = h] /\ taken[Worker] = None /\ answer' = answer
      BY <2>1, <3>2 DEF TakeOne
    <3>4. /\ \A d \in Callers : InList(pending, d) <=> (d = h \/ InList(pending', d))
          /\ ~InList(pending', h)
      BY <3>1, <3>2
    <3>5. pc' = pc /\ held' = held
      BY <1>27 DEF HandlerDrain
    <3>6. QED
      BY <3>1, <3>3, <3>4, <3>5 DEF Drainers
  <2>2. CASE TellOne(Worker)
    BY <1>27, <2>2 DEF HandlerDrain, TellOne, Drainers
  <2>3. QED
    BY <1>27, <2>1, <2>2 DEF HandlerDrain, DrainOne
<1>28. CASE HandlerDecide
  BY <1>28 DEF HandlerDecide, HandlerLeave, HandlerSleep, BroadcastAndGoto, Sleepers
<1>29. CASE HelloFails
  BY <1>29 DEF HelloFails
<1>30. CASE ReplyFails
  BY <1>30 DEF ReplyFails
<1>31. CASE GoodbyeUnasked
  BY <1>31 DEF GoodbyeUnasked, ReadGoodbye
<1>32. CASE ReadBad
  BY <1>32 DEF ReadBad
<1>33. CASE SpuriousWake
  BY <1>33 DEF SpuriousWake, Sleepers
<1>34. CASE UNCHANGED vars
  BY <1>34 DEF vars
<1>35. QED
  BY <1>1, <1>2, <1>3, <1>4, <1>5, <1>6, <1>7, <1>8, <1>9, <1>10, <1>11,
     <1>12, <1>13, <1>14, <1>15, <1>16, <1>17, <1>18, <1>19, <1>20, <1>21,
     <1>22, <1>23, <1>24, <1>25, <1>26, <1>27, <1>28, <1>29, <1>30, <1>31,
     <1>32, <1>33, <1>34
     DEF Next, CallerStep, MainStep, WorkerStep, Fault

\* The record of a call that waits is in one place, and nobody answers a call twice as
\* long as no write fails (client.cc:439-451, 466-483).
THEOREM RecordsHaveOneOwner == Spec => []EachCallHasOneRecord
<1>1. Init => CallInv /\ OwnerInv
  BY ThreadsAssumption DEF Init, CallInv, OwnerInv, Threads, InList, Distinct, InHands
<1>2. (CallInv /\ (WritesWork => OwnerInv)) /\ TypeOK /\ SessionInv /\ ErrorInv /\ [Next]_vars =>
        CallInv' /\ (WritesWork => OwnerInv)'
  BY NextCallInv, NextOwnerInv, NextFaults DEF SessionInv, WritesWork
<1>3. CallInv /\ (WritesWork => OwnerInv) => EachCallHasOneRecord
  BY DEF CallInv, OwnerInv, EachCallHasOneRecord, InList, Distinct, InHands
<1>4. QED
  BY <1>1, <1>2, <1>3, HandlerInvariance, PTL DEF Spec
==============================================================================
