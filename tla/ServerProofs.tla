----------------------------- MODULE ServerProofs -----------------------------
(***************************************************************************)
(* Proofs about Server for any set of event streams and any bounds.        *)
(* KnownInv is inductive when the answer to a goodbye can be written,      *)
(* whatever else fails and whoever calls send_goodbye; EmittersFindConn    *)
(* while nobody calls send_goodbye, whatever fails; what they say of       *)
(* emitters, of a service that holds its mutex over each emission.         *)
(* AnswersInv counts the answers to the requests of a session.             *)
(***************************************************************************)
EXTENDS Server, TLAPS

\* Every step keeps the types of the server's fields (server_impl.cc:237-427).
LEMMA NextTypeOK == TypeOK /\ [Next]_vars => TypeOK'
<1> SUFFICES ASSUME TypeOK, [Next]_vars PROVE TypeOK'
  OBVIOUS
<1> USE BoundsAssumption, ThreadsAssumption DEF TypeOK, serviceVars, sessionVars
<1>1. ASSUME Listen PROVE TypeOK'
  BY <1>1 DEF Listen
<1>2. ASSUME Hello PROVE TypeOK'
  BY <1>2 DEF Hello
<1>3. ASSUME NoHello PROVE TypeOK'
  BY <1>3 DEF NoHello
<1>4. ASSUME Request PROVE TypeOK'
  BY <1>4 DEF Request
<1>5. ASSUME RequestBye PROVE TypeOK'
  BY <1>5 DEF RequestBye
<1>6. ASSUME SetEventConn PROVE TypeOK'
  BY <1>6 DEF SetEventConn
<1>7. ASSUME Subscribe PROVE TypeOK'
  BY <1>7 DEF Subscribe
<1>8. ASSUME Unsubscribe PROVE TypeOK'
  BY <1>8 DEF Unsubscribe
<1>9. ASSUME Reply PROVE TypeOK'
  BY <1>9 DEF Reply, Answer
<1>10. ASSUME Goodbye PROVE TypeOK'
  BY <1>10 DEF Goodbye, StopAccept
<1>11. ASSUME StopOne PROVE TypeOK'
  BY <1>11 DEF StopOne, DropOne
<1>12. ASSUME StopDone PROVE TypeOK'
  BY <1>12 DEF StopDone
<1>13. ASSUME ReadFails PROVE TypeOK'
  BY <1>13 DEF ReadFails, StopAccept
<1>14. ASSUME ReplyFails PROVE TypeOK'
  BY <1>14 DEF ReplyFails, StopAccept
<1>15. ASSUME Report PROVE TypeOK'
  BY <1>15 DEF Report, Answer
<1>16. ASSUME ReportTwice PROVE TypeOK'
  BY <1>16 DEF ReportTwice
<1>17. ASSUME SendGoodbye PROVE TypeOK'
  BY <1>17 DEF SendGoodbye
<1>18. ASSUME GoodbyeOne PROVE TypeOK'
  BY <1>18 DEF GoodbyeOne, DropOne
<1>19. ASSUME GoodbyeDone PROVE TypeOK'
  BY <1>19 DEF GoodbyeDone
<1>20. ASSUME NEW e \in Events, Emit(e) PROVE TypeOK'
  BY <1>20 DEF Emit
<1>21. ASSUME NEW e \in Events, Deref(e) PROVE TypeOK'
  BY <1>21 DEF Deref
<1>21a. ASSUME NEW e \in Events, Invoke(e) PROVE TypeOK'
  BY <1>21a DEF Invoke
<1>22. ASSUME NEW e \in Events, SendEvent(e) PROVE TypeOK'
  BY <1>22 DEF SendEvent
<1>23. CASE UNCHANGED vars
  BY <1>23 DEF vars, serviceVars, sessionVars
<1>24. QED
  BY <1>1, <1>2, <1>3, <1>4, <1>5, <1>6, <1>7, <1>8, <1>9, <1>10, <1>11,
     <1>12, <1>13, <1>14, <1>15, <1>16, <1>17, <1>18, <1>19, <1>20,
     <1>21a, <1>21, <1>22, <1>23
     DEF Next, AcceptorStep

\* A new server is well typed (plugin.cc:2522-2528).
LEMMA InitTypeOK == Init => TypeOK
<1>1. /\ 0 \in 0..MaxSessions /\ 0 \in 0..MaxEmits /\ 0 \in 0..MaxGoodbyes
      /\ 0 \in 0..MaxRequests
  BY BoundsAssumption
<1> SUFFICES ASSUME Init PROVE TypeOK
  OBVIOUS
<1>2. /\ emit \in [Events -> {"idle", "call", "deref", "send", "crashed"}]
      /\ todo \in [{Acceptor, Firmware} -> SUBSET Events]
  BY DEF Init
<1>3. counts \in [sessions : 0..MaxSessions, emits : 0..MaxEmits, goodbyes : 0..MaxGoodbyes]
  BY <1>1 DEF Init
<1>4. /\ acc = "listen" /\ event = Nobody /\ svcMtx = Nobody /\ bye = "idle"
      /\ eventConn = FALSE /\ callback = {} /\ known = {} /\ asked = 0 /\ answered = 0
      /\ faults \in FaultSets
  BY DEF Init
<1>5. QED
  BY <1>1, <1>2, <1>3, <1>4 DEF TypeOK

\* Types of the server, whatever fails (server_impl.cc:237-427).
THEOREM ServerTypeCorrect == Spec => []TypeOK
BY InitTypeOK, NextTypeOK, PTL DEF Spec

\* What the service holds stays known to the client, and the service's mutex
\* keeps it from being dropped under an emission (plugin.cc:2544-2590).
LEMMA NextKnownInv ==
  ASSUME GoodbyesAnswered, TypeOK, KnownInv, [Next]_vars
  PROVE  KnownInv'
<1> USE ThreadsAssumption 
    DEF TypeOK, KnownInv, GoodbyesAnswered, ServiceLocks, EmitterHoldsService, StopDropsAll,
        serviceVars, sessionVars
<1>1. ASSUME Listen PROVE KnownInv'
  BY <1>1 DEF Listen
<1>2. ASSUME Hello PROVE KnownInv'
  BY <1>2 DEF Hello
<1>3. ASSUME NoHello PROVE KnownInv'
  BY <1>3 DEF NoHello
<1>4. ASSUME Request PROVE KnownInv'
  BY <1>4 DEF Request
<1>5. ASSUME RequestBye PROVE KnownInv'
  BY <1>5 DEF RequestBye
<1>6. ASSUME SetEventConn PROVE KnownInv'
  BY <1>6 DEF SetEventConn
<1>7. ASSUME Subscribe PROVE KnownInv'
  BY <1>7 DEF Subscribe
<1>8. ASSUME Unsubscribe PROVE KnownInv'
  BY <1>8 DEF Unsubscribe
<1>9. ASSUME Reply PROVE KnownInv'
  BY <1>9 DEF Reply, Answer
<1>10. ASSUME Goodbye PROVE KnownInv'
  BY <1>10 DEF Goodbye, StopAccept
<1>11. ASSUME StopOne PROVE KnownInv'
  BY <1>11 DEF StopOne, DropOne
<1>12. ASSUME StopDone PROVE KnownInv'
  BY <1>12 DEF StopDone
<1>13. ASSUME ReadFails PROVE KnownInv'
  BY <1>13 DEF ReadFails, StopAccept
<1>14. ASSUME ReplyFails PROVE KnownInv'
  BY <1>14 DEF ReplyFails, StopAccept
<1>15. ASSUME Report PROVE KnownInv'
  BY <1>15 DEF Report, Answer
<1>16. ASSUME ReportTwice PROVE KnownInv'
  BY <1>16 DEF ReportTwice
<1>17. ASSUME SendGoodbye PROVE KnownInv'
  BY <1>17 DEF SendGoodbye
<1>18. ASSUME GoodbyeOne PROVE KnownInv'
  BY <1>18 DEF GoodbyeOne, DropOne
<1>19. ASSUME GoodbyeDone PROVE KnownInv'
  BY <1>19 DEF GoodbyeDone
<1>20. ASSUME NEW e \in Events, Emit(e) PROVE KnownInv'
  BY <1>20 DEF Emit
<1>21. ASSUME NEW e \in Events, Deref(e) PROVE KnownInv'
  BY <1>21 DEF Deref
<1>21a. ASSUME NEW e \in Events, Invoke(e) PROVE KnownInv'
  BY <1>21a DEF Invoke
<1>22. ASSUME NEW e \in Events, SendEvent(e) PROVE KnownInv'
  BY <1>22 DEF SendEvent
<1>23. CASE UNCHANGED vars
  BY <1>23 DEF vars, serviceVars, sessionVars
<1>24. QED
  BY <1>1, <1>2, <1>3, <1>4, <1>5, <1>6, <1>7, <1>8, <1>9, <1>10, <1>11,
     <1>12, <1>13, <1>14, <1>15, <1>16, <1>17, <1>18, <1>19, <1>20,
     <1>21a, <1>21, <1>22, <1>23
     DEF Next, AcceptorStep

\* What may fail does not change within a behaviour.
LEMMA NextFaults == [Next]_vars => UNCHANGED faults
BY DEF Next, AcceptorStep, vars, sessionVars, Listen, Hello, NoHello, Request, RequestBye,
       SetEventConn, Subscribe, Unsubscribe, Reply, Goodbye, StopOne, StopDone, ReadFails,
       ReplyFails, Report, ReportTwice, SendGoodbye, GoodbyeOne, GoodbyeDone, Emit, Deref,
       SendEvent, Invoke

\* ServiceInv is inductive (server_impl.cc:333-427, plugin.cc:2544-2704).
THEOREM ServiceInvariance == Spec => []ServiceInv
<1>1. Init => ServiceInv
  BY DEF Init, ServiceInv, KnownInv, EmitterHoldsService, StopDropsAll
<1>2. TypeOK /\ ServiceInv /\ [Next]_vars => ServiceInv'
  <2> SUFFICES ASSUME TypeOK, ServiceInv, [Next]_vars, GoodbyesAnswered' PROVE KnownInv'
    BY DEF ServiceInv
  <2>1. GoodbyesAnswered /\ KnownInv
    BY NextFaults DEF ServiceInv, GoodbyesAnswered
  <2>2. QED
    BY <2>1, NextKnownInv
<1>3. QED
  BY <1>1, <1>2, ServerTypeCorrect, PTL DEF Spec

\* No event of a service that locks is sent to a client that has no callback for it
\* (client.cc:217-222, plugin.cc:3049-3053).
THEOREM EventsKnownToClient == Spec => []EventsAreKnown
<1>1. ServiceInv => EventsAreKnown
  BY DEF ServiceInv, KnownInv, EmitterHoldsService, EventsAreKnown
<1>2. QED
  BY <1>1, ServiceInvariance, PTL

\* A session that is over leaves no subscription and no connection with the
\* service (server_impl.cc:353-372, 394-398).
THEOREM NothingLeftOver == Spec => []SessionEndsClean
<1> DEFINE ConnCleared == GoodbyesAnswered /\ acc \in {"listen", "hello"} => ~eventConn
<1>a. Init => ConnCleared
  BY DEF Init
<1>b. TypeOK /\ ConnCleared /\ [Next]_vars => ConnCleared'
  <2> SUFFICES ASSUME TypeOK, ConnCleared, [Next]_vars PROVE ConnCleared'
    OBVIOUS
  <2> USE DEF TypeOK, serviceVars, sessionVars, GoodbyesAnswered
  <2>1. ASSUME Listen PROVE ConnCleared'
    BY <2>1 DEF Listen
  <2>2. ASSUME Hello PROVE ConnCleared'
    BY <2>2 DEF Hello
  <2>3. ASSUME NoHello PROVE ConnCleared'
    BY <2>3 DEF NoHello
  <2>4. ASSUME Request PROVE ConnCleared'
    BY <2>4 DEF Request
  <2>5. ASSUME RequestBye PROVE ConnCleared'
    BY <2>5 DEF RequestBye
  <2>6. ASSUME SetEventConn PROVE ConnCleared'
    BY <2>6 DEF SetEventConn
  <2>7. ASSUME Subscribe PROVE ConnCleared'
    BY <2>7 DEF Subscribe
  <2>8. ASSUME Unsubscribe PROVE ConnCleared'
    BY <2>8 DEF Unsubscribe
  <2>9. ASSUME Reply PROVE ConnCleared'
    BY <2>9 DEF Reply, Answer
  <2>10. ASSUME Goodbye PROVE ConnCleared'
    BY <2>10 DEF Goodbye, StopAccept
  <2>11. ASSUME StopOne PROVE ConnCleared'
    BY <2>11 DEF StopOne, DropOne
  <2>12. ASSUME StopDone PROVE ConnCleared'
    BY <2>12 DEF StopDone
  <2>13. ASSUME ReadFails PROVE ConnCleared'
    BY <2>13 DEF ReadFails, StopAccept
  <2>14. ASSUME ReplyFails PROVE ConnCleared'
    BY <2>14 DEF ReplyFails, StopAccept
  <2>15. ASSUME Report PROVE ConnCleared'
    BY <2>15 DEF Report, Answer
  <2>16. ASSUME ReportTwice PROVE ConnCleared'
    BY <2>16 DEF ReportTwice
  <2>17. ASSUME SendGoodbye PROVE ConnCleared'
    BY <2>17 DEF SendGoodbye
  <2>18. ASSUME GoodbyeOne PROVE ConnCleared'
    BY <2>18 DEF GoodbyeOne, DropOne
  <2>19. ASSUME GoodbyeDone PROVE ConnCleared'
    BY <2>19 DEF GoodbyeDone
  <2>20. ASSUME NEW e \in Events, Emit(e) PROVE ConnCleared'
    BY <2>20 DEF Emit
  <2>21. ASSUME NEW e \in Events, Deref(e) PROVE ConnCleared'
    BY <2>21 DEF Deref
  <2>21a. ASSUME NEW e \in Events, Invoke(e) PROVE ConnCleared'
    BY <2>21a DEF Invoke
  <2>22. ASSUME NEW e \in Events, SendEvent(e) PROVE ConnCleared'
    BY <2>22 DEF SendEvent
  <2>23. CASE UNCHANGED vars
    BY <2>23 DEF vars, serviceVars, sessionVars
  <2>24. QED
    BY <2>1, <2>2, <2>3, <2>4, <2>5, <2>6, <2>7, <2>8, <2>9, <2>10, <2>11,
       <2>12, <2>13, <2>14, <2>15, <2>16, <2>17, <2>18, <2>19, <2>20,
       <2>21a, <2>21, <2>22, <2>23
       DEF Next, AcceptorStep
<1>c. ServiceInv /\ ConnCleared => SessionEndsClean
  BY DEF ServiceInv, KnownInv, SessionEndsClean
<1>d. QED
  BY <1>a, <1>b, <1>c, ServerTypeCorrect, ServiceInvariance, PTL DEF Spec

\* event_conn is set before the service holds a callback and cleared after it
\* holds none (plugin.cc:2553-2574, 2694-2701).
LEMMA NextEmittersFindConn ==
  ASSUME NeverSaidGoodbye', TypeOK, NeverSaidGoodbye, EmittersFindConn, [Next]_vars
  PROVE  EmittersFindConn'
<1> USE ThreadsAssumption 
    DEF TypeOK, EmittersFindConn, NeverSaidGoodbye, ServiceLocks, EmitterHoldsService,
        StopDropsAll,         serviceVars, sessionVars
<1>1. ASSUME Listen PROVE EmittersFindConn'
  BY <1>1 DEF Listen
<1>2. ASSUME Hello PROVE EmittersFindConn'
  BY <1>2 DEF Hello
<1>3. ASSUME NoHello PROVE EmittersFindConn'
  BY <1>3 DEF NoHello
<1>4. ASSUME Request PROVE EmittersFindConn'
  BY <1>4 DEF Request
<1>5. ASSUME RequestBye PROVE EmittersFindConn'
  BY <1>5 DEF RequestBye
<1>6. ASSUME SetEventConn PROVE EmittersFindConn'
  BY <1>6 DEF SetEventConn
<1>7. ASSUME Subscribe PROVE EmittersFindConn'
  BY <1>7 DEF Subscribe
<1>8. ASSUME Unsubscribe PROVE EmittersFindConn'
  BY <1>8 DEF Unsubscribe
<1>9. ASSUME Reply PROVE EmittersFindConn'
  BY <1>9 DEF Reply, Answer
<1>10. ASSUME Goodbye PROVE EmittersFindConn'
  BY <1>10 DEF Goodbye, StopAccept
<1>11. ASSUME StopOne PROVE EmittersFindConn'
  BY <1>11 DEF StopOne, DropOne
<1>12. ASSUME StopDone PROVE EmittersFindConn'
  BY <1>12 DEF StopDone
<1>13. ASSUME ReadFails PROVE EmittersFindConn'
  BY <1>13 DEF ReadFails, StopAccept
<1>14. ASSUME ReplyFails PROVE EmittersFindConn'
  BY <1>14 DEF ReplyFails, StopAccept
<1>15. ASSUME Report PROVE EmittersFindConn'
  BY <1>15 DEF Report, Answer
<1>16. ASSUME ReportTwice PROVE EmittersFindConn'
  BY <1>16 DEF ReportTwice
<1>17. ASSUME SendGoodbye PROVE EmittersFindConn'
  BY <1>17 DEF SendGoodbye
<1>18. ASSUME GoodbyeOne PROVE EmittersFindConn'
  BY <1>18 DEF GoodbyeOne, DropOne
<1>19. ASSUME GoodbyeDone PROVE EmittersFindConn'
  BY <1>19 DEF GoodbyeDone
<1>20. ASSUME NEW e \in Events, Emit(e) PROVE EmittersFindConn'
  BY <1>20 DEF Emit
<1>21. ASSUME NEW e \in Events, Deref(e) PROVE EmittersFindConn'
  BY <1>21 DEF Deref
<1>21a. ASSUME NEW e \in Events, Invoke(e) PROVE EmittersFindConn'
  BY <1>21a DEF Invoke
<1>22. ASSUME NEW e \in Events, SendEvent(e) PROVE EmittersFindConn'
  BY <1>22 DEF SendEvent
<1>23. CASE UNCHANGED vars
  BY <1>23 DEF vars, serviceVars, sessionVars
<1>24. QED
  BY <1>1, <1>2, <1>3, <1>4, <1>5, <1>6, <1>7, <1>8, <1>9, <1>10, <1>11,
     <1>12, <1>13, <1>14, <1>15, <1>16, <1>17, <1>18, <1>19, <1>20,
     <1>21a, <1>21, <1>22, <1>23
     DEF Next, AcceptorStep

\* Goodbyes are counted, never taken back.
LEMMA NextGoodbyes == TypeOK /\ NeverSaidGoodbye' /\ [Next]_vars => NeverSaidGoodbye
<1> SUFFICES ASSUME TypeOK, NeverSaidGoodbye', [Next]_vars PROVE NeverSaidGoodbye
  OBVIOUS
<1> USE DEF TypeOK, NeverSaidGoodbye
<1>1. ASSUME UNCHANGED counts PROVE NeverSaidGoodbye
  BY <1>1
<1>2. ASSUME Listen PROVE NeverSaidGoodbye
  BY <1>2 DEF Listen
<1>3. ASSUME SendGoodbye PROVE NeverSaidGoodbye
  BY <1>3, BoundsAssumption DEF SendGoodbye
<1>4. ASSUME NEW e \in Events, Emit(e) PROVE NeverSaidGoodbye
  BY <1>4 DEF Emit
<1>5. QED
  BY <1>1, <1>2, <1>3, <1>4
     DEF Next, AcceptorStep, vars, sessionVars, Hello, NoHello, Request, RequestBye,
         SetEventConn, Subscribe, Unsubscribe, Reply, Goodbye, StopOne, StopDone,
         ReadFails, ReplyFails, Report, ReportTwice, GoodbyeOne, GoodbyeDone, Deref,
         SendEvent, Invoke

\* If the service locks, an emitter never sends over a null connection or through
\* a dropped callback, even if subscriptions outlive their session, as long as
\* nobody calls send_goodbye (plugin.cc:2601-2622, 2695-2705).
THEOREM ConnectionForEveryEvent == Spec => []NoNullConn
<1>1. Init => ConnInv
  BY DEF Init, ConnInv, EmittersFindConn, EmitterHoldsService, StopDropsAll
<1>2. TypeOK /\ ConnInv /\ [Next]_vars => ConnInv'
  <2> SUFFICES ASSUME TypeOK, ConnInv, [Next]_vars, NeverSaidGoodbye'
               PROVE  EmittersFindConn'
    BY DEF ConnInv
  <2>1. NeverSaidGoodbye /\ EmittersFindConn
    BY NextGoodbyes DEF ConnInv
  <2>2. QED
    BY <2>1, NextEmittersFindConn
<1>3. ConnInv => NoNullConn
  BY DEF ConnInv, EmittersFindConn, NoNullConn
<1>4. QED
  BY <1>1, <1>2, <1>3, ServerTypeCorrect, PTL DEF Spec

\* A session starts with nothing asked (server_impl.cc:237-247).
AnswersInv ==
    /\ OneAnswerEach
    /\ acc = "hello" => answered = asked

\* The dispatcher is in one request at a time and leaves it by its answer, by the
\* answer of the error handler, or with the session (server_impl.cc:240-257, 352-372).
LEMMA NextAnswersInv ==
  ASSUME TypeOK, AnswersInv, [Next]_vars
  PROVE  AnswersInv'
<1> USE BoundsAssumption
    DEF TypeOK, AnswersInv, OneAnswerEach, serviceVars, sessionVars
<1>1. ASSUME Listen PROVE AnswersInv'
  BY <1>1 DEF Listen
<1>2. ASSUME Hello PROVE AnswersInv'
  BY <1>2 DEF Hello
<1>3. ASSUME NoHello PROVE AnswersInv'
  BY <1>3 DEF NoHello
<1>4. ASSUME Request PROVE AnswersInv'
  BY <1>4 DEF Request
<1>5. ASSUME RequestBye PROVE AnswersInv'
  BY <1>5 DEF RequestBye
<1>6. ASSUME SetEventConn PROVE AnswersInv'
  BY <1>6 DEF SetEventConn
<1>7. ASSUME Subscribe PROVE AnswersInv'
  BY <1>7 DEF Subscribe
<1>8. ASSUME Unsubscribe PROVE AnswersInv'
  BY <1>8 DEF Unsubscribe
<1>9. ASSUME Reply PROVE AnswersInv'
  BY <1>9 DEF Reply, Answer
<1>10. ASSUME Goodbye PROVE AnswersInv'
  BY <1>10 DEF Goodbye, StopAccept
<1>11. ASSUME StopOne PROVE AnswersInv'
  BY <1>11 DEF StopOne, DropOne
<1>12. ASSUME StopDone PROVE AnswersInv'
  BY <1>12 DEF StopDone
<1>13. ASSUME ReadFails PROVE AnswersInv'
  BY <1>13 DEF ReadFails, StopAccept
<1>14. ASSUME ReplyFails PROVE AnswersInv'
  BY <1>14 DEF ReplyFails, StopAccept
<1>15. ASSUME Report PROVE AnswersInv'
  BY <1>15 DEF Report, Answer
<1>16. ASSUME ReportTwice PROVE AnswersInv'
  BY <1>16 DEF ReportTwice
<1>17. ASSUME SendGoodbye PROVE AnswersInv'
  BY <1>17 DEF SendGoodbye
<1>18. ASSUME GoodbyeOne PROVE AnswersInv'
  BY <1>18 DEF GoodbyeOne, DropOne
<1>19. ASSUME GoodbyeDone PROVE AnswersInv'
  BY <1>19 DEF GoodbyeDone
<1>20. ASSUME NEW e \in Events, Emit(e) PROVE AnswersInv'
  BY <1>20 DEF Emit
<1>21. ASSUME NEW e \in Events, Deref(e) PROVE AnswersInv'
  BY <1>21 DEF Deref
<1>21a. ASSUME NEW e \in Events, Invoke(e) PROVE AnswersInv'
  BY <1>21a DEF Invoke
<1>22. ASSUME NEW e \in Events, SendEvent(e) PROVE AnswersInv'
  BY <1>22 DEF SendEvent
<1>23. CASE UNCHANGED vars
  BY <1>23 DEF vars, serviceVars, sessionVars
<1>24. QED
  BY <1>1, <1>2, <1>3, <1>4, <1>5, <1>6, <1>7, <1>8, <1>9, <1>10, <1>11,
     <1>12, <1>13, <1>14, <1>15, <1>16, <1>17, <1>18, <1>19, <1>20,
     <1>21a, <1>21, <1>22, <1>23
     DEF Next, AcceptorStep

\* Every request has one answer before the next is read, unless the service reports
\* two errors for it, whatever else fails (plugin.cc:2640-2660, server_impl.cc:240-257).
THEOREM RequestsAnsweredOnce == Spec => []OneAnswerEach
<1>1. Init => AnswersInv
  BY DEF Init, AnswersInv, OneAnswerEach
<1>2. TypeOK /\ AnswersInv /\ [Next]_vars => AnswersInv'
  BY NextAnswersInv
<1>3. AnswersInv => OneAnswerEach
  BY DEF AnswersInv
<1>4. QED
  BY <1>1, <1>2, <1>3, ServerTypeCorrect, PTL DEF Spec
==============================================================================
