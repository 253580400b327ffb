--------------------------- MODULE RpcSystemProofs ---------------------------
\* Proofs about RpcSystem: the records, the requests and the answers of a session
\* stay in one order, and an event finds the callback of its subscription, for any
\* threads, events and capacities.
EXTENDS RpcSystem, TLAPS

Alive == reader \notin {"ended", "failed"}

\* Who is where: record i is u's, message p to the client answers u, message q to the
\* server is a request of u, message p to the client is an event e.
Pend(s, u, i) == i \in DOMAIN s /\ s[i] = u
Ans(s, u, p) == p \in DOMAIN s /\ s[p].kind \in {"reply", "error"} /\ s[p].from = u
Ack(s, u, p) == p \in DOMAIN s /\ s[p].kind = "reply" /\ s[p].from = u
Req(s, u, q) == q \in DOMAIN s /\ s[q].kind # "goodbye" /\ s[q].from = u
EventAt(s, e, p) == p \in DOMAIN s /\ s[p].kind = "event" /\ s[p].event = e
InHand(u) == acc \in {"service", "reply"} /\ cur.from = u
Stopped == acc \in {"unsubAll", "listen"}

\* close() holds call_mtx as long as the session it has closed goes on, and a caller
\* does from the check to the end of its flush.
CloseInv ==
    /\ closed /\ Alive => callMtx \in Users /\ pc[callMtx] \in {"sayBye", "join"}
    /\ \A u \in Users : pc[u] \in {"push", "flush", "doomed", "sayBye", "join"} => callMtx = u
    /\ \A u \in Users : pc[u] = "doomed" => reader = "failed"
    /\ reader = "flush" => callMtx = Reader

\* The request of u is not out yet.
Unsent(u) == (u \in Users /\ pc[u] = "flush") \/ (u = Reader /\ reader = "flush")

\* A record belongs to a caller that sends or waits, and no caller has two.
RecordInv ==
    /\ \A u \in Callers, i \in Nat : Pend(pending, u, i) =>
         \/ u \in Users /\ pc[u] \in {"flush", "wait"}
         \/ u = Reader /\ reader \in {"flush", "wait"}
    /\ \A u \in Callers, i, j \in Nat : Pend(pending, u, i) /\ Pend(pending, u, j) => i = j

\* Every message of a call has a record, and a call has one message at most.
MessageInv ==
    /\ \A u \in Callers, p \in Nat : Ans(s2c, u, p) => \E i \in Nat : Pend(pending, u, i)
    /\ \A u \in Callers : InHand(u) => \E i \in Nat : Pend(pending, u, i)
    /\ \A u \in Callers, q \in Nat : Req(c2s, u, q) => \E i \in Nat : Pend(pending, u, i)
    /\ \A u \in Callers, p, q \in Nat : Ans(s2c, u, p) /\ Ans(s2c, u, q) => p = q
    /\ \A u \in Callers, p, q \in Nat : Req(c2s, u, p) /\ Req(c2s, u, q) => p = q
    /\ \A u \in Callers, p, q \in Nat : ~(Ans(s2c, u, p) /\ Req(c2s, u, q))
    /\ \A u \in Callers, p \in Nat : ~(Ans(s2c, u, p) /\ InHand(u))
    /\ \A u \in Callers, q \in Nat : ~(InHand(u) /\ Req(c2s, u, q))

\* Of two records the older one is not behind.
OrderInv ==
    /\ \A u, v \in Callers, i, j, q \in Nat :
         Pend(pending, u, i) /\ Pend(pending, v, j) /\ i < j /\ Ans(s2c, v, q) =>
         \E p \in Nat : p < q /\ Ans(s2c, u, p)
    /\ \A u, v \in Callers, i, j \in Nat :
         Pend(pending, u, i) /\ Pend(pending, v, j) /\ i < j /\ InHand(v) =>
         \E p \in Nat : Ans(s2c, u, p)
    /\ \A u, v \in Callers, i, j, q \in Nat :
         Pend(pending, u, i) /\ Pend(pending, v, j) /\ i < j /\ Req(c2s, v, q) =>
         \/ \E p \in Nat : Ans(s2c, u, p)
         \/ InHand(u)
         \/ \E p \in Nat : p < q /\ Req(c2s, u, p)
         \/ Stopped
    /\ \A u \in Callers, i \in Nat : Pend(pending, u, i) =>
         \/ \E p \in Nat : Ans(s2c, u, p)
         \/ InHand(u)
         \/ \E p \in Nat : Req(c2s, u, p)
         \/ Stopped
         \/ Unsent(u)

QueueInv == Alive => RecordInv /\ MessageInv /\ OrderInv

\* A request that is not out yet has the youngest record.
NoMessage(u) ==
    ~InHand(u) /\ \A p \in Nat : ~Ans(s2c, u, p) /\ ~Req(c2s, u, p)
Youngest(u) ==
    \E i \in Nat : Pend(pending, u, i) /\ \A v \in Callers, j \in Nat : Pend(pending, v, j) => j <= i
UnsentInv == Alive => \A u \in Callers : Unsent(u) => Youngest(u) /\ NoMessage(u)

\* What the server deals with is a request, and what the reading thread has read an event.
CurInv ==
    /\ acc \in {"service", "reply"} => cur \in Requests
    /\ reader \in {"lookup", "callback"} => got \in Events

\* What a thread does at the places of a subscription and of its end.
OpInv == \A u \in Users :
    /\ pc[u] = "idle" => op[u].event = Nobody
    /\ pc[u] \in {"setCb", "register"} => op[u].kind = "subscribe"
    /\ pc[u] \in {"unregister", "clearCb"} => op[u].kind = "unsubscribe"
    /\ pc[u] \in {"send", "push", "flush", "doomed", "wait"} =>
         op[u].kind \in {"call", "subscribe", "unsubscribe"}
    /\ pc[u] \in {"close", "sayBye", "join"} => op[u].kind = "close"
    /\ op[u].kind \in {"subscribe", "unsubscribe"} => op[u].event \in Events
    /\ op[u].kind \notin {"subscribe", "unsubscribe"} => op[u].event = Nobody

\* A request says what its caller does; the reading thread only makes calls.
Says(u, m) ==
    IF u = Reader THEN m.kind = "call" ELSE m.kind = op[u].kind /\ m.event = op[u].event
RequestInv == Alive =>
    /\ \A u \in Callers, q \in Nat : Req(c2s, u, q) => Says(u, c2s[q])
    /\ \A u \in Callers : InHand(u) => Says(u, cur)

\* Event e may still reach the reading thread, or has reached it.
Flowing(e) ==
    \/ e \in callback
    \/ svcMtx = e
    \/ \E p \in Nat : EventAt(s2c, e, p)
    \/ reader \in {"lookup", "callback"} /\ got = e

NotShared == \A u, v \in Users : u # v /\ op[u].event \in Events => op[v].event # op[u].event

\* What may still reach the reading thread has both its callbacks.
FlowInv == \A e \in Events : Flowing(e) => e \in registered /\ e \in stubCb

\* The places of a thread and the callbacks of its event.
StubUser(u) ==
    /\ pc[u] = "register" => op[u].event \in stubCb
    /\ op[u].kind = "subscribe" /\ pc[u] \in {"send", "push", "flush", "wait"} =>
         op[u].event \in registered /\ op[u].event \in stubCb
    /\ pc[u] \in {"unregister", "clearCb"} => ~Flowing(op[u].event)
    /\ pc[u] = "setCb" /\ "resubscribe" \notin trouble => op[u].event \notin stubCb

\* Behind the end of a subscription no event of it is written.
AckUser(u) == op[u].kind = "unsubscribe" =>
    /\ acc = "reply" /\ cur.from = u => op[u].event \notin callback /\ svcMtx # op[u].event
    /\ \A p \in Nat : Ack(s2c, u, p) =>
         /\ op[u].event \notin callback
         /\ svcMtx # op[u].event
         /\ \A r \in Nat : r > p => ~EventAt(s2c, op[u].event, r)

StubInv == FlowInv /\ \A u \in Users : StubUser(u) /\ AckUser(u)

EventInv == "share" \notin trouble => NotShared /\ (Alive => StubInv)

\* A thread that waits for a reply, or sends the request, has a record; nobody does
\* when the session has ended.
WaitInv == \A u \in Users :
    /\ pc[u] \in {"push", "flush", "wait"} => reader # "ended"
    /\ pc[u] \in {"flush", "wait"} => \E i \in Nat : Pend(pending, u, i)

\* Behind the client's goodbye there is no request, and the server's has the answers to
\* all calls before it.
ByeAt(s, p) == p \in DOMAIN s /\ s[p].kind = "goodbye"
ByesInOrder ==
    /\ \A q \in Nat : ByeAt(c2s, q) =>
         closed /\ \A u \in Callers, r \in Nat : Req(c2s, u, r) => r < q
    /\ acc = "goodbye" => closed /\ \A u \in Callers, r \in Nat : ~Req(c2s, u, r)
    /\ \A p \in Nat : ByeAt(s2c, p) =>
         /\ closed /\ Stopped
         /\ \A u \in Callers, i \in Nat : Pend(pending, u, i) =>
              \E r \in Nat : r < p /\ Ans(s2c, u, r)
ByeInv ==
    /\ reader = "ended" => closed /\ Stopped
    /\ \A u \in Users : pc[u] = "sayBye" => closed
    /\ Alive => ByesInOrder

PlaceInv == TypeOK /\ CloseInv /\ CurInv /\ OpInv

----------------------------------------------------------------------------
\* What a message at the end of a stream, or the head of it, changes

Messages == Answers \cup EventMessages \cup {Goodbye}

LEMMA AppendIndex ==
    ASSUME NEW S, NEW s \in Seq(S), NEW m
    PROVE  /\ DOMAIN Append(s, m) = 1..(Len(s) + 1)
           /\ DOMAIN s = 1..Len(s) /\ Len(s) \in Nat
           /\ \A i \in 1..Len(s) : Append(s, m)[i] = s[i]
           /\ Append(s, m)[Len(s) + 1] = m
  BY SMT

LEMMA TailIndex ==
    ASSUME NEW S, NEW s \in Seq(S), s # <<>>
    PROVE  /\ DOMAIN Tail(s) = 1..(Len(s) - 1)
           /\ DOMAIN s = 1..Len(s) /\ Len(s) \in Nat \ {0}
           /\ \A i \in 1..(Len(s) - 1) : Tail(s)[i] = s[i + 1]
           /\ Head(s) = s[1]
  BY SMT

LEMMA PendAppend ==
    ASSUME NEW S, NEW s \in Seq(S), NEW m
    PROVE  /\ Len(s) \in Nat
           /\ \A u, i : Pend(Append(s, m), u, i) <=>
                (Pend(s, u, i) \/ (i = Len(s) + 1 /\ u = m))
           /\ \A u, i : Pend(s, u, i) => i \in 1..Len(s)
  BY AppendIndex DEF Pend

LEMMA PendTail ==
    ASSUME NEW S, NEW s \in Seq(S), s # <<>>
    PROVE  /\ \A u : \A i \in Nat : Pend(Tail(s), u, i) <=> (i > 0 /\ Pend(s, u, i + 1))
           /\ \A u, i : Pend(s, u, i) => i \in Nat /\ i > 0
           /\ \A u : Pend(s, u, 1) <=> u = Head(s)
  BY TailIndex DEF Pend

LEMMA AnsAppend ==
    ASSUME NEW S, NEW s \in Seq(S), NEW m
    PROVE  /\ Len(s) \in Nat
           /\ \A u, i : Ans(Append(s, m), u, i) <=>
                \/ Ans(s, u, i)
                \/ i = Len(s) + 1 /\ m.kind \in {"reply", "error"} /\ u = m.from
           /\ \A u, i : Ans(s, u, i) => i \in 1..Len(s)
  BY AppendIndex DEF Ans

LEMMA AnsTail ==
    ASSUME NEW S, NEW s \in Seq(S), s # <<>>
    PROVE  /\ \A u : \A i \in Nat : Ans(Tail(s), u, i) <=> (i > 0 /\ Ans(s, u, i + 1))
           /\ \A u, i : Ans(s, u, i) => i \in Nat /\ i > 0
           /\ \A u : Ans(s, u, 1) <=> (Head(s).kind \in {"reply", "error"} /\ u = Head(s).from)
  BY TailIndex DEF Ans

LEMMA AckAppend ==
    ASSUME NEW S, NEW s \in Seq(S), NEW m
    PROVE  /\ Len(s) \in Nat
           /\ \A u, i : Ack(Append(s, m), u, i) <=>
                (Ack(s, u, i) \/ (i = Len(s) + 1 /\ m.kind = "reply" /\ u = m.from))
           /\ \A u, i : Ack(s, u, i) => i \in 1..Len(s) /\ Ans(s, u, i)
  BY AppendIndex DEF Ack, Ans

LEMMA AckTail ==
    ASSUME NEW S, NEW s \in Seq(S), s # <<>>
    PROVE  /\ \A u : \A i \in Nat : Ack(Tail(s), u, i) <=> (i > 0 /\ Ack(s, u, i + 1))
           /\ \A u : Ack(s, u, 1) <=> (Head(s).kind = "reply" /\ u = Head(s).from)
  BY TailIndex DEF Ack

LEMMA ReqAppend ==
    ASSUME NEW S, NEW s \in Seq(S), NEW m
    PROVE  /\ Len(s) \in Nat
           /\ \A u, i : Req(Append(s, m), u, i) <=>
                \/ Req(s, u, i)
                \/ i = Len(s) + 1 /\ m.kind # "goodbye" /\ u = m.from
           /\ \A u, i : Req(s, u, i) => i \in 1..Len(s)
  BY AppendIndex DEF Req

LEMMA ReqTail ==
    ASSUME NEW S, NEW s \in Seq(S), s # <<>>
    PROVE  /\ \A u : \A i \in Nat : Req(Tail(s), u, i) <=> (i > 0 /\ Req(s, u, i + 1))
           /\ \A u, i : Req(s, u, i) => i \in Nat /\ i > 0
           /\ \A u : Req(s, u, 1) <=> (Head(s).kind # "goodbye" /\ u = Head(s).from)
  BY TailIndex DEF Req

LEMMA EventAppend ==
    ASSUME NEW S, NEW s \in Seq(S), NEW m
    PROVE  /\ Len(s) \in Nat
           /\ \A e, i : EventAt(Append(s, m), e, i) <=>
                \/ EventAt(s, e, i)
                \/ i = Len(s) + 1 /\ m.kind = "event" /\ e = m.event
           /\ \A e, i : EventAt(s, e, i) => i \in 1..Len(s)
  BY AppendIndex DEF EventAt

LEMMA EventTail ==
    ASSUME NEW S, NEW s \in Seq(S), s # <<>>
    PROVE  /\ \A e : \A i \in Nat : EventAt(Tail(s), e, i) <=> (i > 0 /\ EventAt(s, e, i + 1))
           /\ \A e, i : EventAt(s, e, i) => i \in Nat /\ i > 0
           /\ \A e : EventAt(s, e, 1) <=> (Head(s).kind = "event" /\ e = Head(s).event)
  BY TailIndex DEF EventAt

LEMMA ByeAppend ==
    ASSUME NEW S, NEW s \in Seq(S), NEW m
    PROVE  /\ Len(s) \in Nat
           /\ \A i : ByeAt(Append(s, m), i) <=>
                (ByeAt(s, i) \/ (i = Len(s) + 1 /\ m.kind = "goodbye"))
           /\ \A i : ByeAt(s, i) => i \in 1..Len(s)
  BY AppendIndex DEF ByeAt

LEMMA ByeTail ==
    ASSUME NEW S, NEW s \in Seq(S), s # <<>>
    PROVE  /\ \A i \in Nat : ByeAt(Tail(s), i) <=> (i > 0 /\ ByeAt(s, i + 1))
           /\ \A i : ByeAt(s, i) => i \in Nat /\ i > 0
           /\ ByeAt(s, 1) <=> Head(s).kind = "goodbye"
  BY TailIndex DEF ByeAt

----------------------------------------------------------------------------
\* Types, and the places of the threads

LEMMA InitPlaceInv == Init => PlaceInv
<1> SUFFICES ASSUME Init PROVE PlaceInv
  OBVIOUS
<1>1. /\ pending \in Seq(Callers)
      /\ c2s \in Seq(Requests \cup {Goodbye})
      /\ s2c \in Seq(Answers \cup EventMessages \cup {Goodbye})
  BY DEF Init
<1>2. TypeOK
  BY <1>1 DEF Init, TypeOK, Idle
<1>3. CloseInv /\ CurInv
  BY DEF Init, CloseInv, CurInv
<1>4. OpInv
  BY DEF Init, OpInv, Idle
<1>5. QED
  BY <1>2, <1>3, <1>4 DEF PlaceInv

\* The end of all calls leaves every thread in its place.
LEMMA FailAllPlaces ==
    ASSUME TypeOK, OpInv, NEW u \in Users \cup {Nobody}, FailAll(u)
    PROVE  /\ pending' \in Seq(Callers)
           /\ pc' \in [Users -> {"idle", "setCb", "register", "send", "push", "flush", "doomed",
                                 "wait", "unregister", "clearCb", "close", "sayBye", "join"}]
           /\ op' \in [Users -> [kind : {"none", "call", "subscribe", "unsubscribe", "close"},
                                 event : Events \cup {Nobody}]]
           /\ OpInv'
           /\ \A v \in Users :
                \/ pc'[v] = pc[v] /\ op'[v] = op[v]
                \/ pc'[v] = "idle" /\ op'[v] = Idle
                \/ pc[v] = "flush" /\ pc'[v] = "doomed" /\ op'[v] = op[v]
<1>1. pending' \in Seq(Callers)
  BY DEF FailAll
<1>2. \A v \in Users : \/ pc'[v] = pc[v] /\ op'[v] = op[v]
                       \/ pc'[v] = "idle" /\ op'[v] = Idle
                       \/ pc[v] = "flush" /\ pc'[v] = "doomed" /\ op'[v] = op[v]
  BY DEF FailAll
<1>3. DOMAIN pc' = Users /\ DOMAIN op' = Users /\ pc' = [v \in Users |-> pc'[v]]
      /\ op' = [v \in Users |-> op'[v]]
  BY DEF FailAll
<1>4. OpInv'
  BY <1>2 DEF OpInv, Idle
<1>5. QED
  BY <1>1, <1>2, <1>3, <1>4 DEF TypeOK, Idle

LEMMA NextPlaceInv == PlaceInv /\ QueueInv /\ [Next]_vars => PlaceInv'
<1> SUFFICES ASSUME PlaceInv, QueueInv, [Next]_vars PROVE PlaceInv'
  OBVIOUS
<1> USE NamesAssumption DEF PlaceInv, TypeOK, CloseInv, CurInv, OpInv, Alive, Callers,
        stubVars, closeVars, readerVars, serverVars, userVars
<1>1. ASSUME NEW u \in Users, Call(u) PROVE PlaceInv'
  BY <1>1 DEF Call, Begin, Goto
<1>2. ASSUME NEW u \in Users, Close(u) PROVE PlaceInv'
  BY <1>2 DEF Close, Begin, Goto
<1>3. ASSUME NEW u \in Users, NEW e \in Events, Subscribe(u, e) PROVE PlaceInv'
  BY <1>3 DEF Subscribe, Begin, Goto
<1>4. ASSUME NEW u \in Users, NEW e \in Events, Unsubscribe(u, e) PROVE PlaceInv'
  BY <1>4 DEF Unsubscribe, Begin, Goto
<1>5. ASSUME NEW u \in Users, SetCb(u) PROVE PlaceInv'
  BY <1>5 DEF SetCb, Goto
<1>6. ASSUME NEW u \in Users, Register(u) PROVE PlaceInv'
  BY <1>6 DEF Register, Goto
<1>7. ASSUME NEW u \in Users, CheckRunning(u) PROVE PlaceInv'
  BY <1>7 DEF CheckRunning, Goto, Running
<1>7a. ASSUME NEW u \in Users, Push(u) PROVE PlaceInv'
  <2>1. pending' \in Seq(Callers)
    BY <1>7a DEF Push, Record
  <2>2. QED
    BY <1>7a, <2>1 DEF Push, Goto
<1>7b. ASSUME NEW u \in Users, Flush(u) \/ FlushDoomed(u) PROVE PlaceInv'
  <2>1. [kind |-> op[u].kind, event |-> op[u].event, from |-> u] \in Requests
    BY <1>7b DEF Flush, FlushDoomed, Requests
  <2>2. c2s' \in Seq(Requests \cup {Goodbye})
    <3>1. c2s' = Append(c2s, [kind |-> op[u].kind, event |-> op[u].event, from |-> u])
      BY <1>7b DEF Flush, FlushDoomed, SendRequest
    <3>2. QED
      BY <2>1, <3>1
  <2>3. CASE Flush(u)
    BY <2>2, <2>3 DEF Flush, SendRequest, Goto
  <2>4. CASE FlushDoomed(u)
    BY <2>2, <2>4 DEF FlushDoomed, SendRequest, Return, Idle
  <2>5. QED
    BY <1>7b, <2>3, <2>4
<1>8. ASSUME NEW u \in Users, SendRefused(u) PROVE PlaceInv'
  <2>1. /\ FailAll(u) /\ callMtx = Nobody
        /\ UNCHANGED <<stubVars, closeVars, readerVars, c2s, s2c, serverVars, trouble>>
    BY <1>8 DEF SendRefused
  <2>2. QED
    BY <2>1, FailAllPlaces
<1>9. ASSUME NEW u \in Users, Unregister(u) PROVE PlaceInv'
  BY <1>9 DEF Unregister, Goto
<1>10. ASSUME NEW u \in Users, ClearCb(u) PROVE PlaceInv'
  BY <1>10 DEF ClearCb, Return, Idle
<1>11. ASSUME NEW u \in Users, CloseStart(u) PROVE PlaceInv'
  <2>1. CASE Running
    BY <1>11, <2>1 DEF CloseStart, Goto
  <2>2. CASE ~Running
    <3>1. /\ pc' = [pc EXCEPT ![u] = "idle"]
          /\ op' = [op EXCEPT ![u] = Idle]
          /\ closed' = TRUE
          /\ UNCHANGED <<stubVars, pending, readerVars, c2s, s2c, serverVars, trouble, callMtx>>
      BY <1>11, <2>2 DEF CloseStart, Return
    <3>2. TypeOK' /\ CurInv' /\ OpInv'
      BY <3>1 DEF Idle
    <3>3. CloseInv'
      BY <1>11, <2>2, <3>1 DEF CloseStart, Running
    <3>4. QED
      BY <3>2, <3>3
  <2>3. QED
    BY <2>1, <2>2
<1>12. ASSUME NEW u \in Users, SayBye(u) PROVE PlaceInv'
  BY <1>12 DEF SayBye, Goto
<1>13. ASSUME NEW u \in Users, Join(u) PROVE PlaceInv'
  BY <1>13 DEF Join, Return, Idle
<1>14. ASSUME ReadReply PROVE PlaceInv'
  <2>1. s2c' \in Seq(Answers \cup EventMessages \cup {Goodbye}) /\ pending' \in Seq(Callers)
    BY <1>14 DEF ReadReply, Arrives
  <2> DEFINE u == Head(pending)
  <2>2. /\ UNCHANGED <<stubVars, closeVars, readerVars, c2s, serverVars, trouble>>
        /\ reader = "read"
    BY <1>14 DEF ReadReply, Arrives
  <2>3. PICK w : w = u
    OBVIOUS
  <2>4. Return(w) \/ (Goto(w, "unregister") /\ op[w].kind = "unsubscribe" /\ UNCHANGED op)
    BY <1>14, <2>3 DEF ReadReply, AfterReply
  <2>4a. w \in Users => pc[w] \in {"flush", "wait"}
    <3>1. pending \in Seq(Callers) /\ pending # <<>> /\ u \in Callers /\ RecordInv
      BY <1>14, <2>2 DEF ReadReply, QueueInv
    <3>2. Pend(pending, u, 1)
      BY <3>1, PendTail
    <3>3. QED
      BY <2>2, <2>3, <3>1, <3>2 DEF RecordInv
  <2> HIDE DEF u
  <2>5. TypeOK'
    <3>1. pc' \in [Users -> {"idle", "setCb", "register", "send", "push", "flush", "doomed",
                             "wait", "unregister", "clearCb", "close", "sayBye", "join"}]
      BY <2>4 DEF Return, Goto
    <3>2. op' \in [Users -> [kind : {"none", "call", "subscribe", "unsubscribe", "close"},
                             event : Events \cup {Nobody}]]
      BY <2>4 DEF Return, Idle
    <3>3. QED
      BY <2>1, <2>2, <3>1, <3>2
  <2>6. CloseInv' /\ CurInv'
    BY <2>2, <2>4, <2>4a DEF Return, Goto
  <2>7. OpInv'
    BY <2>4 DEF Return, Goto, Idle
  <2>8. QED
    BY <2>5, <2>6, <2>7
<1>15. ASSUME ReadEvent PROVE PlaceInv'
  <2>1. Head(s2c) \in Answers \cup EventMessages \cup {Goodbye} /\ Head(s2c).kind = "event"
        /\ s2c' \in Seq(Answers \cup EventMessages \cup {Goodbye})
    BY <1>15 DEF ReadEvent, Arrives
  <2>2. Head(s2c).event \in Events
    BY <2>1 DEF Answers, EventMessages, Goodbye
  <2>3. TypeOK'
    BY <1>15, <2>1, <2>2 DEF ReadEvent
  <2>4. CloseInv' /\ CurInv' /\ OpInv'
    BY <1>15, <2>2 DEF ReadEvent, Arrives
  <2>5. QED
    BY <2>3, <2>4
<1>16. ASSUME ReadGoodbye PROVE PlaceInv'
  <2>1. s2c' \in Seq(Answers \cup EventMessages \cup {Goodbye})
    BY <1>16 DEF ReadGoodbye, Arrives
  <2>2. CASE closed
    BY <1>16, <2>1, <2>2 DEF ReadGoodbye, Arrives
  <2>3. CASE ~closed
    <3>1. FailAll(Nobody) /\ reader' = "failed"
      BY <1>16, <2>3 DEF ReadGoodbye, ReaderFails
    <3>2. QED
      BY <1>16, <2>1, <3>1, FailAllPlaces DEF ReadGoodbye
  <2>4. QED
    BY <2>2, <2>3
<1>17. ASSUME Lookup PROVE PlaceInv'
  <2>1. CASE got \in registered
    BY <1>17, <2>1 DEF Lookup
  <2>2. CASE got \notin registered
    <3>1. FailAll(Nobody) /\ reader' = "failed"
      BY <1>17, <2>2 DEF Lookup, ReaderFails
    <3>2. QED
      BY <1>17, <3>1, FailAllPlaces DEF Lookup
  <2>3. QED
    BY <2>1, <2>2
<1>18. ASSUME CallbackReturns PROVE PlaceInv'
  BY <1>18 DEF CallbackReturns
<1>19. ASSUME CallbackCalls PROVE PlaceInv'
  <2>1. pending' \in Seq(Callers)
    BY <1>19 DEF CallbackCalls, Record
  <2>2. QED
    BY <1>19, <2>1 DEF CallbackCalls, Running
<1>19a. ASSUME CallbackFlush PROVE PlaceInv'
  <2>1. [kind |-> "call", event |-> Nobody, from |-> Reader] \in Requests
    BY DEF Requests
  <2>2. c2s' \in Seq(Requests \cup {Goodbye})
    BY <1>19a, <2>1 DEF CallbackFlush, SendRequest
  <2>3. QED
    BY <1>19a, <2>2 DEF CallbackFlush, SendRequest
<1>20. ASSUME Request PROVE PlaceInv'
  <2>1. Head(c2s) \in Requests \cup {Goodbye} /\ c2s' \in Seq(Requests \cup {Goodbye})
    BY <1>20 DEF Request
  <2>2. QED
    BY <1>20, <2>1 DEF Request
<1>21. ASSUME DecodeFails PROVE PlaceInv'
  BY <1>21 DEF DecodeFails
<1>22. ASSUME Serve PROVE PlaceInv'
  <2>1. cur \in Requests
    BY <1>22 DEF Serve
  <2>2. callback' \subseteq Events
    BY <1>22, <2>1 DEF Serve, Requests
  <2>3. QED
    BY <1>22, <2>1, <2>2 DEF Serve
<1>23. ASSUME Reply PROVE PlaceInv'
  <2>1. cur \in Requests
    BY <1>23 DEF Reply
  <2>2. \A k \in {"reply", "error"} :
          [kind |-> k, event |-> cur.event, from |-> cur.from] \in Answers
    BY <2>1 DEF Requests, Answers
  <2>3. PICK k \in {"reply", "error"} : Write(k, cur.event, cur.from)
    BY <1>23 DEF Reply
  <2>4. s2c' \in Seq(Answers \cup EventMessages \cup {Goodbye})
    BY <2>2, <2>3 DEF Write
  <2>5. QED
    BY <1>23, <2>4 DEF Reply
<1>24. ASSUME AnswerBye PROVE PlaceInv'
  <2>1. s2c' \in Seq(Answers \cup EventMessages \cup {Goodbye})
    BY <1>24 DEF AnswerBye, Write, Goodbye
  <2>2. QED
    BY <1>24, <2>1 DEF AnswerBye
<1>25. ASSUME UnsubscribeAll PROVE PlaceInv'
  BY <1>25 DEF UnsubscribeAll
<1>26. ASSUME NEW e \in Events, Emit(e) PROVE PlaceInv'
  BY <1>26 DEF Emit
<1>27. ASSUME NEW e \in Events, SendEvent(e) PROVE PlaceInv'
  <2>1. [kind |-> "event", event |-> e, from |-> Nobody] \in EventMessages
    BY DEF EventMessages
  <2>2. s2c' \in Seq(Answers \cup EventMessages \cup {Goodbye})
    BY <1>27, <2>1 DEF SendEvent, Write
  <2>3. QED
    BY <1>27, <2>2 DEF SendEvent
<1>28. CASE UNCHANGED vars
  BY <1>28 DEF vars
<1>29. QED
  BY <1>1, <1>2, <1>3, <1>4, <1>5, <1>6, <1>7, <1>7a, <1>7b, <1>8, <1>9, <1>10, <1>11,
     <1>12, <1>13, <1>14, <1>15, <1>16, <1>17, <1>18, <1>19, <1>19a, <1>20, <1>21, <1>22,
     <1>23, <1>24, <1>25, <1>26, <1>27, <1>28 DEF Next, UserStep, ReaderStep, AccStep
----------------------------------------------------------------------------
\* Records, requests and answers

LEMMA InitQueueInv == Init => QueueInv
<1> SUFFICES ASSUME Init PROVE RecordInv /\ MessageInv /\ OrderInv
  BY DEF QueueInv
<1>1. /\ \A u, i : ~Pend(pending, u, i)
      /\ \A u, i : ~Ans(s2c, u, i)
      /\ \A u, i : ~Req(c2s, u, i)
      /\ \A u : ~InHand(u)
  BY DEF Init, Pend, Ans, Req, InHand
<1>2. RecordInv
  BY <1>1 DEF RecordInv
<1>3. MessageInv
  BY <1>1 DEF MessageInv
<1>4. OrderInv
  BY <1>1 DEF OrderInv
<1>5. QED
  BY <1>2, <1>3, <1>4

\* A step that moves no record, request or answer.
LEMMA QuietStep ==
    ASSUME QueueInv,
           Alive' => Alive,
           reader \in {"flush", "wait"} => reader' = reader,
           \A u \in Users : pc[u] \in {"flush", "wait"} => pc'[u] = pc[u],
           pending' = pending,
           \A u \in Callers, p \in Nat : Ans(s2c', u, p) <=> Ans(s2c, u, p),
           \A u \in Callers, q \in Nat : Req(c2s', u, q) <=> Req(c2s, u, q),
           \A u \in Callers : InHand(u)' <=> InHand(u),
           Stopped => Stopped'
    PROVE  QueueInv'
<1> SUFFICES ASSUME Alive' PROVE RecordInv' /\ MessageInv' /\ OrderInv'
  BY DEF QueueInv
<1>1. RecordInv /\ MessageInv /\ OrderInv
  BY DEF QueueInv
<1>2. RecordInv'
  BY <1>1 DEF RecordInv
<1>3. MessageInv'
  BY <1>1 DEF MessageInv
<1>4. OrderInv'
  BY <1>1 DEF OrderInv, Unsent
<1>5. QED
  BY <1>2, <1>3, <1>4

\* A new record, whose request is not out.
LEMMA PushStep ==
    ASSUME PlaceInv, QueueInv, Alive, NEW u \in Callers,
           \A i \in Nat : ~Pend(pending, u, i),
           Unsent(u)',
           reader \in {"flush", "wait"} => reader' = reader,
           \A v \in Users : pc[v] \in {"flush", "wait"} => pc'[v] = pc[v],
           pending' = Append(pending, u),
           UNCHANGED <<c2s, s2c, acc, cur>>
    PROVE  QueueInv'
<1>1. RecordInv /\ MessageInv /\ OrderInv
  BY DEF QueueInv
<1>2. pending \in Seq(Callers)
  BY DEF PlaceInv, TypeOK
<1>3. /\ Len(pending) \in Nat
      /\ \A v \in Callers, i \in Nat : Pend(pending', v, i) <=>
           (Pend(pending, v, i) \/ (i = Len(pending) + 1 /\ v = u))
      /\ \A v \in Callers, i \in Nat : Pend(pending, v, i) => i \in 1..Len(pending)
  BY <1>2, PendAppend
<1>4. /\ \A v \in Callers : InHand(v)' <=> InHand(v)
      /\ Stopped' <=> Stopped
      /\ s2c' = s2c /\ c2s' = c2s
      /\ \A v \in Callers : Unsent(v) => Unsent(v)'
  BY DEF InHand, Stopped, Unsent
<1>5. RecordInv'
  BY <1>1, <1>3 DEF RecordInv, Unsent
<1>6. MessageInv'
  BY <1>1, <1>3, <1>4 DEF MessageInv
<1>7. \A v \in Callers, p \in Nat : Ans(s2c, v, p) \/ InHand(v) \/ Req(c2s, v, p) => v # u
  BY <1>1 DEF MessageInv
<1>8. OrderInv'
  <2>1. \A v, w \in Callers, i, j, q \in Nat :
          Pend(pending', v, i) /\ Pend(pending', w, j) /\ i < j
            /\ (Ans(s2c, w, q) \/ InHand(w) \/ Req(c2s, w, q)) =>
            Pend(pending, v, i) /\ Pend(pending, w, j)
    BY <1>3, <1>7
  <2>2. \A v, w \in Callers, i, j, q \in Nat :
          Pend(pending', v, i) /\ Pend(pending', w, j) /\ i < j /\ Ans(s2c, w, q) =>
            \E p \in Nat : p < q /\ Ans(s2c, v, p)
    BY <1>1, <2>1 DEF OrderInv
  <2>3. \A v, w \in Callers, i, j \in Nat :
          Pend(pending', v, i) /\ Pend(pending', w, j) /\ i < j /\ InHand(w) =>
            \E p \in Nat : Ans(s2c, v, p)
    BY <1>1, <2>1 DEF OrderInv
  <2>4. \A v, w \in Callers, i, j, q \in Nat :
          Pend(pending', v, i) /\ Pend(pending', w, j) /\ i < j /\ Req(c2s, w, q) =>
            \/ \E p \in Nat : Ans(s2c, v, p)
            \/ InHand(v)
            \/ \E p \in Nat : p < q /\ Req(c2s, v, p)
            \/ Stopped
    BY <1>1, <2>1 DEF OrderInv
  <2>5. \A v \in Callers, i \in Nat : Pend(pending', v, i) =>
          \/ \E p \in Nat : Ans(s2c, v, p)
          \/ InHand(v)
          \/ \E p \in Nat : Req(c2s, v, p)
          \/ Stopped
          \/ Unsent(v)'
    BY <1>1, <1>3, <1>4 DEF OrderInv
  <2>6. QED
    BY <1>4, <2>2, <2>3, <2>4, <2>5 DEF OrderInv
<1>9. QED
  BY <1>5, <1>6, <1>8 DEF QueueInv

\* The request goes out behind those of the older records.
LEMMA FlushStep ==
    ASSUME PlaceInv, QueueInv, UnsentInv, Alive, NEW u \in Callers, NEW m \in Requests,
           m.from = u, Unsent(u),
           \A v \in Callers : Unsent(v) => v = u \/ Unsent(v)',
           reader \in {"flush", "wait"} => reader' \in {"flush", "wait"},
           \A v \in Users : pc[v] \in {"flush", "wait"} => pc'[v] \in {"flush", "wait"},
           pending' = pending,
           c2s' = Append(c2s, m),
           UNCHANGED <<s2c, acc, cur>>
    PROVE  QueueInv'
<1>1. RecordInv /\ MessageInv /\ OrderInv
  BY DEF QueueInv
<1>2. c2s \in Seq(Requests \cup {Goodbye}) /\ m.kind # "goodbye"
  BY DEF PlaceInv, TypeOK, Requests
<1>3. /\ Len(c2s) \in Nat
      /\ \A v \in Callers, i \in Nat : Req(c2s', v, i) <=>
           (Req(c2s, v, i) \/ (i = Len(c2s) + 1 /\ v = u))
      /\ \A v \in Callers, i \in Nat : Req(c2s, v, i) => i \in 1..Len(c2s)
  BY <1>2, ReqAppend
<1>4. /\ \A v \in Callers : InHand(v)' <=> InHand(v)
      /\ Stopped' <=> Stopped
      /\ s2c' = s2c
  BY DEF InHand, Stopped
<1>5. NoMessage(u) /\ Youngest(u)
  BY DEF UnsentInv
<1>6. PICK k \in Nat : /\ Pend(pending, u, k)
                      /\ \A v \in Callers, j \in Nat : Pend(pending, v, j) => j <= k
  BY <1>5 DEF Youngest
<1>7. RecordInv'
  BY <1>1 DEF RecordInv
<1>8. MessageInv'
  BY <1>1, <1>3, <1>4, <1>5, <1>6 DEF MessageInv, NoMessage
<1>9. OrderInv'
  <2>1. \A v, w \in Callers, i, j, q \in Nat :
          Pend(pending, v, i) /\ Pend(pending, w, j) /\ i < j /\ Req(c2s', w, q) =>
            \/ \E p \in Nat : Ans(s2c, v, p)
            \/ InHand(v)
            \/ \E p \in Nat : p < q /\ Req(c2s', v, p)
            \/ Stopped
    <3> SUFFICES ASSUME NEW v \in Callers, NEW w \in Callers, NEW i \in Nat, NEW j \in Nat,
                        NEW q \in Nat,
                        Pend(pending, v, i), Pend(pending, w, j), i < j, Req(c2s', w, q)
                 PROVE  \/ \E p \in Nat : Ans(s2c, v, p)
                        \/ InHand(v)
                        \/ \E p \in Nat : p < q /\ Req(c2s', v, p)
                        \/ Stopped
      OBVIOUS
    <3>1. CASE Req(c2s, w, q)
      BY <1>1, <1>3, <3>1 DEF OrderInv
    <3>2. CASE q = Len(c2s) + 1 /\ w = u
      <4>1. j = k
        BY <1>1, <1>6, <3>2 DEF RecordInv
      <4>2. ~Unsent(v)
        <5> SUFFICES ASSUME Unsent(v) PROVE FALSE
          OBVIOUS
        <5>1. PICK l \in Nat : /\ Pend(pending, v, l)
                               /\ \A x \in Callers, y \in Nat : Pend(pending, x, y) => y <= l
          BY DEF UnsentInv, Youngest
        <5>2. l = i /\ k <= l
          BY <1>1, <1>6, <5>1 DEF RecordInv
        <5>3. QED
          BY <4>1, <5>2
      <4>3. QED
        BY <1>1, <1>3, <3>2, <4>2 DEF OrderInv
    <3>3. QED
      BY <1>3, <3>1, <3>2
  <2>2. \A v \in Callers, i \in Nat : Pend(pending, v, i) =>
          \/ \E p \in Nat : Ans(s2c, v, p)
          \/ InHand(v)
          \/ \E p \in Nat : Req(c2s', v, p)
          \/ Stopped
          \/ Unsent(v)'
    <3>1. Len(c2s) + 1 \in Nat /\ Req(c2s', u, Len(c2s) + 1)
      BY <1>3
    <3>2. QED
      BY <1>1, <1>3, <3>1 DEF OrderInv
  <2>3. QED
    BY <1>1, <1>4, <2>1, <2>2 DEF OrderInv
<1>10. QED
  BY <1>7, <1>8, <1>9 DEF QueueInv

\* The oldest record is the one whose answer comes first.
LEMMA OldestAnswered ==
    ASSUME PlaceInv, QueueInv, Alive, s2c # <<>>, Head(s2c).kind \in {"reply", "error"}
    PROVE  pending # <<>> /\ Head(pending) = Head(s2c).from
<1>1. RecordInv /\ MessageInv /\ OrderInv
  BY DEF QueueInv
<1>2. /\ pending \in Seq(Callers)
      /\ s2c \in Seq(Messages)
      /\ Head(s2c) \in Messages
  BY DEF PlaceInv, TypeOK, Messages
<1> DEFINE u == Head(s2c).from
<1>3. u \in Callers /\ Ans(s2c, u, 1)
  BY <1>2, AnsTail DEF Messages, Answers, EventMessages, Goodbye
<1>4. PICK i \in Nat : Pend(pending, u, i)
  BY <1>1, <1>3 DEF MessageInv
<1>5. pending # <<>>
  BY <1>4 DEF Pend
<1>6. /\ Head(pending) \in Callers
      /\ Pend(pending, Head(pending), 1)
      /\ i > 0
      /\ \A v : Pend(pending, v, 1) => v = Head(pending)
  BY <1>2, <1>4, <1>5, PendTail
<1>7. \A p \in Nat : Ans(s2c, Head(pending), p) => p > 0
  BY <1>2, AnsTail
<1>8. i = 1
  <2> SUFFICES ASSUME 1 < i PROVE FALSE
    BY <1>6
  <2>1. PICK p \in Nat : p < 1 /\ Ans(s2c, Head(pending), p)
    BY <1>1, <1>3, <1>4, <1>6 DEF OrderInv
  <2>2. QED
    BY <2>1, <1>7
<1>9. QED
  BY <1>4, <1>5, <1>6, <1>8
\* The oldest record is completed by the answer that is read.
LEMMA ReadReplyStep == PlaceInv /\ QueueInv /\ ReadReply => QueueInv'
<1> SUFFICES ASSUME PlaceInv, QueueInv, ReadReply PROVE QueueInv'
  OBVIOUS
<1> DEFINE u == Head(pending)
<1>1. Alive /\ s2c # <<>> /\ Head(s2c).kind \in {"reply", "error"}
  BY DEF ReadReply, Arrives, Alive
<1>2. RecordInv /\ MessageInv /\ OrderInv
  BY <1>1 DEF QueueInv
<1>3. pending # <<>> /\ u = Head(s2c).from
  BY <1>1, OldestAnswered
<1>4. /\ pending \in Seq(Callers) /\ pending' = Tail(pending)
      /\ s2c \in Seq(Messages) /\ s2c' = Tail(s2c)
      /\ u \in Callers
  BY <1>3 DEF ReadReply, Arrives, PlaceInv, TypeOK, Messages
<1>5. /\ \A v \in Callers, i \in Nat : Pend(pending', v, i) <=> (i > 0 /\ Pend(pending, v, i + 1))
      /\ \A v \in Callers, i \in Nat : Pend(pending, v, i) => i > 0
      /\ \A v \in Callers : Pend(pending, v, 1) <=> v = u
  BY <1>3, <1>4, PendTail
<1>6. /\ \A v \in Callers, i \in Nat : Ans(s2c', v, i) <=> (i > 0 /\ Ans(s2c, v, i + 1))
      /\ \A v \in Callers, i \in Nat : Ans(s2c, v, i) => i > 0
      /\ \A v \in Callers : Ans(s2c, v, 1) <=> v = u
  BY <1>1, <1>3, <1>4, AnsTail
<1> HIDE DEF u
<1>7. /\ \A v \in Callers : InHand(v)' <=> InHand(v)
      /\ Stopped' <=> Stopped
      /\ c2s' = c2s /\ acc' = acc /\ cur' = cur /\ reader' = reader /\ reader = "read"
  BY DEF Arrives, ReadReply, InHand, Stopped, serverVars, readerVars
<1>8. /\ \A v \in Users : v # u => pc'[v] = pc[v]
      /\ \A v \in Callers : v # u /\ Unsent(v) => Unsent(v)'
  <2>1. \A v \in Users : v # u => pc'[v] = pc[v]
    BY DEF ReadReply, Return, Goto, PlaceInv, TypeOK, u
  <2>2. QED
    BY <1>7, <2>1 DEF Unsent
<1>9. \A v \in Callers, i \in Nat : Pend(pending', v, i) => v # u /\ Pend(pending, v, i + 1)
  BY <1>2, <1>5 DEF RecordInv
<1>10. \A v \in Callers, i \in Nat : Pend(pending, v, i) /\ v # u =>
         i - 1 \in Nat /\ Pend(pending', v, i - 1)
  BY <1>5
<1>11. \A v \in Callers, p \in Nat : Ans(s2c', v, p) => v # u /\ Ans(s2c, v, p + 1)
  BY <1>2, <1>4, <1>6 DEF MessageInv
<1>12. \A v \in Callers, p \in Nat : Ans(s2c, v, p) /\ v # u => p - 1 \in Nat /\ Ans(s2c', v, p - 1)
  BY <1>6
<1>13. RecordInv'
  <2>1. \A v \in Callers, i \in Nat : Pend(pending', v, i) =>
          \/ v \in Users /\ pc'[v] \in {"flush", "wait"}
          \/ v = Reader /\ reader' \in {"flush", "wait"}
    BY <1>2, <1>7, <1>8, <1>9 DEF RecordInv
  <2>2. \A v \in Callers, i, j \in Nat :
          Pend(pending', v, i) /\ Pend(pending', v, j) => i = j
    BY <1>2, <1>9 DEF RecordInv
  <2>3. QED
    BY <2>1, <2>2 DEF RecordInv
<1>14. MessageInv'
  <2>1. \A v \in Callers : InHand(v) \/ (\E q \in Nat : Req(c2s, v, q)) => v # u
    BY <1>2, <1>4, <1>6 DEF MessageInv
  <2>2. \A v \in Callers : v # u /\ (\E i \in Nat : Pend(pending, v, i)) =>
          \E i \in Nat : Pend(pending', v, i)
    BY <1>10
  <2>3. \A v \in Callers, p, q \in Nat : Ans(s2c', v, p) /\ Ans(s2c', v, q) => p = q
    BY <1>2, <1>11 DEF MessageInv
  <2>4. QED
    BY <1>2, <1>7, <1>11, <2>1, <2>2, <2>3 DEF MessageInv
<1>15. OrderInv'
  <2>1. \A v, w \in Callers, i, j, q \in Nat :
          Pend(pending', v, i) /\ Pend(pending', w, j) /\ i < j /\ Ans(s2c', w, q) =>
            \E p \in Nat : p < q /\ Ans(s2c', v, p)
    <3> SUFFICES ASSUME NEW v \in Callers, NEW w \in Callers, NEW i \in Nat, NEW j \in Nat,
                        NEW q \in Nat,
                        Pend(pending', v, i), Pend(pending', w, j), i < j, Ans(s2c', w, q)
                 PROVE  \E p \in Nat : p < q /\ Ans(s2c', v, p)
      OBVIOUS
    <3>1. /\ v # u /\ Pend(pending, v, i + 1) /\ Pend(pending, w, j + 1)
          /\ Ans(s2c, w, q + 1) /\ i + 1 < j + 1
      BY <1>9, <1>11
    <3>2. PICK p \in Nat : p < q + 1 /\ Ans(s2c, v, p)
      BY <1>2, <3>1 DEF OrderInv
    <3>3. QED
      BY <1>12, <3>1, <3>2
  <2>2. \A v \in Callers : v # u /\ (\E p \in Nat : Ans(s2c, v, p)) => \E p \in Nat : Ans(s2c', v, p)
    BY <1>12
  <2>3. \A v, w \in Callers, i, j \in Nat :
          Pend(pending', v, i) /\ Pend(pending', w, j) /\ i < j =>
            /\ v # u
            /\ Pend(pending, v, i + 1) /\ Pend(pending, w, j + 1) /\ i + 1 < j + 1
            /\ i + 1 \in Nat /\ j + 1 \in Nat
    BY <1>9
  <2>4. \A v, w \in Callers, i, j \in Nat :
          Pend(pending', v, i) /\ Pend(pending', w, j) /\ i < j /\ InHand(w) =>
            \E p \in Nat : Ans(s2c', v, p)
    BY <1>2, <2>2, <2>3 DEF OrderInv
  <2>5. \A v, w \in Callers, i, j, q \in Nat :
          Pend(pending', v, i) /\ Pend(pending', w, j) /\ i < j /\ Req(c2s, w, q) =>
            \/ \E p \in Nat : Ans(s2c', v, p)
            \/ InHand(v)
            \/ \E p \in Nat : p < q /\ Req(c2s, v, p)
            \/ Stopped
    BY <1>2, <2>2, <2>3 DEF OrderInv
  <2>6. \A v \in Callers, i \in Nat : Pend(pending', v, i) =>
          \/ \E p \in Nat : Ans(s2c', v, p)
          \/ InHand(v)
          \/ \E p \in Nat : Req(c2s, v, p)
          \/ Stopped
          \/ Unsent(v)'
    BY <1>2, <1>8, <1>9, <2>2 DEF OrderInv
  <2>7. QED
    BY <1>7, <2>1, <2>4, <2>5, <2>6 DEF OrderInv
<1>16. QED
  BY <1>13, <1>14, <1>15 DEF QueueInv
\* An event leaves the stream, and the answers behind it move up.
LEMMA ReadEventStep == PlaceInv /\ QueueInv /\ ReadEvent => QueueInv'
<1> SUFFICES ASSUME PlaceInv, QueueInv, ReadEvent PROVE QueueInv'
  OBVIOUS
<1>1. Alive /\ s2c # <<>> /\ Head(s2c).kind = "event" /\ s2c \in Seq(Messages) /\ s2c' = Tail(s2c)
  BY DEF ReadEvent, Arrives, Alive, PlaceInv, TypeOK, Messages
<1>2. RecordInv /\ MessageInv /\ OrderInv
  BY <1>1 DEF QueueInv
<1>3. /\ \A v \in Callers, i \in Nat : Ans(s2c', v, i) <=> (i > 0 /\ Ans(s2c, v, i + 1))
      /\ \A v \in Callers, i \in Nat : Ans(s2c, v, i) => i > 0
      /\ \A v \in Callers : ~Ans(s2c, v, 1)
  BY <1>1, AnsTail
<1>4. /\ \A v \in Callers : InHand(v)' <=> InHand(v)
      /\ Stopped' <=> Stopped
      /\ c2s' = c2s /\ pending' = pending /\ pc' = pc
      /\ reader \notin {"flush", "wait"}
      /\ \A v \in Callers : Unsent(v) => Unsent(v)'
  BY DEF ReadEvent, Arrives, InHand, Stopped, serverVars, userVars, Unsent
<1>5. \A v \in Callers, p \in Nat : Ans(s2c', v, p) => Ans(s2c, v, p + 1)
  BY <1>3
<1>6. \A v \in Callers, p \in Nat : Ans(s2c, v, p) => p - 1 \in Nat /\ Ans(s2c', v, p - 1)
  BY <1>3
<1>7. RecordInv'
  BY <1>2, <1>4 DEF RecordInv
<1>8. MessageInv'
  <2>1. \A v \in Callers, p, q \in Nat : Ans(s2c', v, p) /\ Ans(s2c', v, q) => p = q
    BY <1>2, <1>5 DEF MessageInv
  <2>2. QED
    BY <1>2, <1>4, <1>5, <2>1 DEF MessageInv
<1>9. OrderInv'
  <2>1. \A v, w \in Callers, i, j, q \in Nat :
          Pend(pending, v, i) /\ Pend(pending, w, j) /\ i < j /\ Ans(s2c', w, q) =>
            \E p \in Nat : p < q /\ Ans(s2c', v, p)
    <3> SUFFICES ASSUME NEW v \in Callers, NEW w \in Callers, NEW i \in Nat, NEW j \in Nat,
                        NEW q \in Nat,
                        Pend(pending, v, i), Pend(pending, w, j), i < j, Ans(s2c', w, q)
                 PROVE  \E p \in Nat : p < q /\ Ans(s2c', v, p)
      OBVIOUS
    <3>1. Ans(s2c, w, q + 1)
      BY <1>5
    <3>2. PICK p \in Nat : p < q + 1 /\ Ans(s2c, v, p)
      BY <1>2, <3>1 DEF OrderInv
    <3>3. QED
      BY <1>6, <3>2
  <2>2. \A v \in Callers : (\E p \in Nat : Ans(s2c, v, p)) => \E p \in Nat : Ans(s2c', v, p)
    BY <1>6
  <2>3. QED
    BY <1>2, <1>4, <2>1, <2>2 DEF OrderInv
<1>10. QED
  BY <1>7, <1>8, <1>9 DEF QueueInv

\* The server takes the request that is next.
LEMMA RequestStep == PlaceInv /\ QueueInv /\ Request => QueueInv'
<1> SUFFICES ASSUME PlaceInv, QueueInv, Request, Alive PROVE QueueInv'
  BY DEF QueueInv, Request, Alive, readerVars
<1>1. RecordInv /\ MessageInv /\ OrderInv
  BY DEF QueueInv
<1>2. /\ c2s # <<>> /\ c2s \in Seq(Requests \cup {Goodbye}) /\ c2s' = Tail(c2s)
      /\ Head(c2s) \in Requests \cup {Goodbye}
  BY DEF Request, PlaceInv, TypeOK
<1>3. /\ \A v \in Callers, i \in Nat : Req(c2s', v, i) <=> (i > 0 /\ Req(c2s, v, i + 1))
      /\ \A v \in Callers, i \in Nat : Req(c2s, v, i) => i > 0
      /\ \A v \in Callers : Req(c2s, v, 1) <=> (Head(c2s).kind # "goodbye" /\ v = Head(c2s).from)
  BY <1>2, ReqTail
<1>4. Head(c2s).kind # "goodbye" <=> Head(c2s) # Goodbye
  BY <1>2 DEF Requests, Goodbye
<1>5. /\ \A v \in Callers : InHand(v)' <=> Req(c2s, v, 1)
      /\ \A v \in Callers : ~InHand(v)
      /\ ~Stopped
      /\ s2c' = s2c /\ pending' = pending /\ pc' = pc /\ reader' = reader
      /\ \A v \in Callers : Unsent(v) => Unsent(v)'
  BY <1>3, <1>4 DEF Request, InHand, Stopped, userVars, readerVars, Unsent
<1>6. \A v \in Callers, p \in Nat : Req(c2s', v, p) => Req(c2s, v, p + 1) /\ p + 1 # 1
  BY <1>3
<1>7. \A v \in Callers, p \in Nat : Req(c2s, v, p) =>
        InHand(v)' \/ (p - 1 \in Nat /\ Req(c2s', v, p - 1))
  BY <1>3, <1>5
<1>8. RecordInv'
  BY <1>1, <1>5 DEF RecordInv
<1>9. MessageInv'
  <2>1. \A v \in Callers, p, q \in Nat : Req(c2s', v, p) /\ Req(c2s', v, q) => p = q
    BY <1>1, <1>6 DEF MessageInv
  <2>2. \A v \in Callers, q \in Nat : ~(InHand(v)' /\ Req(c2s', v, q))
    BY <1>1, <1>5, <1>6 DEF MessageInv
  <2>3. QED
    BY <1>1, <1>5, <1>6, <2>1, <2>2 DEF MessageInv
<1>10. OrderInv'
  <2>1. \A v, w \in Callers, i, j \in Nat :
          Pend(pending, v, i) /\ Pend(pending, w, j) /\ i < j /\ InHand(w)' =>
            \E p \in Nat : Ans(s2c, v, p)
    BY <1>1, <1>3, <1>5 DEF OrderInv
  <2>2. \A v, w \in Callers, i, j, q \in Nat :
          Pend(pending, v, i) /\ Pend(pending, w, j) /\ i < j /\ Req(c2s', w, q) =>
            \/ \E p \in Nat : Ans(s2c, v, p)
            \/ InHand(v)'
            \/ \E p \in Nat : p < q /\ Req(c2s', v, p)
    <3> SUFFICES ASSUME NEW v \in Callers, NEW w \in Callers, NEW i \in Nat, NEW j \in Nat,
                        NEW q \in Nat,
                        Pend(pending, v, i), Pend(pending, w, j), i < j, Req(c2s', w, q),
                        ~\E p \in Nat : Ans(s2c, v, p)
                 PROVE  InHand(v)' \/ \E p \in Nat : p < q /\ Req(c2s', v, p)
      OBVIOUS
    <3>1. Req(c2s, w, q + 1)
      BY <1>6
    <3>2. PICK p \in Nat : p < q + 1 /\ Req(c2s, v, p)
      BY <1>1, <1>5, <3>1 DEF OrderInv
    <3>3. QED
      BY <1>7, <3>2
  <2>3. \A v \in Callers, i \in Nat : Pend(pending, v, i) =>
          \/ \E p \in Nat : Ans(s2c, v, p)
          \/ InHand(v)'
          \/ \E p \in Nat : Req(c2s', v, p)
          \/ Unsent(v)'
    BY <1>1, <1>5, <1>7 DEF OrderInv
  <2>4. QED
    BY <1>1, <1>5, <2>1, <2>2, <2>3 DEF OrderInv
<1>11. QED
  BY <1>8, <1>9, <1>10 DEF QueueInv

\* The answer goes behind the answers that are on their way.
LEMMA ReplyStep == PlaceInv /\ QueueInv /\ Reply => QueueInv'
<1> SUFFICES ASSUME PlaceInv, QueueInv, Reply, Alive PROVE QueueInv'
  BY DEF QueueInv, Reply, Alive, readerVars
<1>1. RecordInv /\ MessageInv /\ OrderInv
  BY DEF QueueInv
<1>2. PICK k \in {"reply", "error"} : Write(k, cur.event, cur.from)
  BY DEF Reply
<1> DEFINE m == [kind |-> k, event |-> cur.event, from |-> cur.from]
<1>3. s2c \in Seq(Messages) /\ s2c' = Append(s2c, m)
  BY <1>2 DEF PlaceInv, TypeOK, Messages, Write
<1>4. /\ Len(s2c) \in Nat
      /\ \A v \in Callers, i \in Nat : Ans(s2c', v, i) <=>
           (Ans(s2c, v, i) \/ (i = Len(s2c) + 1 /\ v = cur.from))
      /\ \A v \in Callers, i \in Nat : Ans(s2c, v, i) => i \in 1..Len(s2c)
  BY <1>3, AnsAppend
<1>5. /\ \A v \in Callers : InHand(v) <=> v = cur.from
      /\ \A v \in Callers : ~InHand(v)'
      /\ ~Stopped /\ ~Stopped'
      /\ c2s' = c2s /\ pending' = pending /\ pc' = pc /\ reader' = reader
      /\ \A v \in Callers : Unsent(v) => Unsent(v)'
  BY DEF Reply, InHand, Stopped, userVars, readerVars, Unsent
<1>6. RecordInv'
  BY <1>1, <1>5 DEF RecordInv
<1>7. MessageInv'
  BY <1>1, <1>4, <1>5 DEF MessageInv
<1>8. OrderInv'
  <2>1. \A v, w \in Callers, i, j, q \in Nat :
          Pend(pending, v, i) /\ Pend(pending, w, j) /\ i < j /\ Ans(s2c', w, q) =>
            \E p \in Nat : p < q /\ Ans(s2c', v, p)
    <3> SUFFICES ASSUME NEW v \in Callers, NEW w \in Callers, NEW i \in Nat, NEW j \in Nat,
                        NEW q \in Nat,
                        Pend(pending, v, i), Pend(pending, w, j), i < j, Ans(s2c', w, q)
                 PROVE  \E p \in Nat : p < q /\ Ans(s2c, v, p)
      BY <1>4
    <3>1. CASE Ans(s2c, w, q)
      BY <1>1, <3>1 DEF OrderInv
    <3>2. CASE q = Len(s2c) + 1 /\ w = cur.from
      BY <1>1, <1>4, <1>5, <3>2 DEF OrderInv
    <3>3. QED
      BY <1>4, <3>1, <3>2
  <2>2. \A v \in Callers : (\E p \in Nat : Ans(s2c, v, p)) \/ InHand(v) => \E p \in Nat : Ans(s2c', v, p)
    BY <1>4, <1>5
  <2>3. QED
    BY <1>1, <1>5, <2>1, <2>2 DEF OrderInv
<1>9. QED
  BY <1>6, <1>7, <1>8 DEF QueueInv

\* A request that cannot be decoded is the last the server reads.
LEMMA DecodeFailsStep == PlaceInv /\ QueueInv /\ DecodeFails => QueueInv'
<1> SUFFICES ASSUME PlaceInv, QueueInv, DecodeFails, Alive PROVE QueueInv'
  BY DEF QueueInv, DecodeFails, Alive, readerVars
<1>1. RecordInv /\ MessageInv /\ OrderInv
  BY DEF QueueInv
<1>2. /\ \A v \in Callers : ~InHand(v)'
      /\ Stopped'
      /\ s2c' = s2c /\ c2s' = c2s /\ pending' = pending /\ pc' = pc /\ reader' = reader
      /\ \A v \in Callers : Unsent(v) => Unsent(v)'
  BY DEF DecodeFails, InHand, Stopped, userVars, readerVars, Unsent
<1>3. RecordInv' /\ MessageInv'
  BY <1>1, <1>2 DEF RecordInv, MessageInv
<1>4. OrderInv'
  BY <1>1, <1>2 DEF OrderInv
<1>5. QED
  BY <1>3, <1>4 DEF QueueInv
\* A thread that is not in a call is not among the records.
LEMMA NoRecord ==
    ASSUME QueueInv, Alive, NEW u \in Users, pc[u] \notin {"flush", "wait"}
    PROVE  \A i \in Nat : ~Pend(pending, u, i)
  BY NamesAssumption DEF QueueInv, RecordInv, Callers

LEMMA NextQueueInv == PlaceInv /\ QueueInv /\ UnsentInv /\ [Next]_vars => QueueInv'
<1> SUFFICES ASSUME PlaceInv, QueueInv, UnsentInv, [Next]_vars PROVE QueueInv'
  OBVIOUS
<1> USE DEF stubVars, closeVars, readerVars, serverVars, userVars
<1>1. ASSUME NEW u \in Users, Call(u) \/ Close(u) \/ SetCb(u) \/ Register(u) \/ Unregister(u)
                               \/ ClearCb(u) \/ CloseStart(u) \/ Join(u) \/ CheckRunning(u)
             \/ \E e \in Events : Subscribe(u, e) \/ Unsubscribe(u, e)
      PROVE  QueueInv'
  <2>1. /\ UNCHANGED <<pending, c2s, s2c, acc, cur, reader>>
        /\ pc[u] \notin {"flush", "wait"} /\ pc'[u] # "flush"
        /\ \A v \in Users : v # u => pc'[v] = pc[v]
    BY <1>1 DEF Call, Close, SetCb, Register, Unregister, ClearCb, CloseStart, Join, Subscribe,
                Unsubscribe, Begin, Goto, Return, PlaceInv, TypeOK, CheckRunning
  <2>2. QED
    BY <2>1, QuietStep DEF InHand, Stopped, Alive
<1>2. ASSUME NEW u \in Users, Push(u) PROVE QueueInv'
  <2>1. CASE Alive
    <3>1. /\ UNCHANGED <<c2s, s2c, acc, cur, reader>>
          /\ pc[u] = "push" /\ pc'[u] = "flush"
          /\ \A v \in Users : v # u => pc'[v] = pc[v]
          /\ pending' = Append(pending, u)
      BY <1>2 DEF Push, Record, Goto, PlaceInv, TypeOK
    <3>2. \A i \in Nat : ~Pend(pending, u, i)
      BY <2>1, <3>1, NoRecord
    <3>3. u \in Callers /\ Unsent(u)'
      BY <3>1 DEF Callers, Unsent
    <3>4. \A v \in Users : pc[v] \in {"flush", "wait"} => pc'[v] = pc[v]
      BY <3>1
    <3>5. QED
      BY <2>1, <3>1, <3>2, <3>3, <3>4, PushStep
  <2>2. CASE ~Alive
    BY <1>2, <2>2 DEF Push, Alive, QueueInv
  <2>3. QED
    BY <2>1, <2>2
<1>2a. ASSUME NEW u \in Users, Flush(u) PROVE QueueInv'
  <2>1. CASE Alive
    <3> DEFINE m == [kind |-> op[u].kind, event |-> op[u].event, from |-> u]
    <3>1. m \in Requests /\ m.from = u
      BY <1>2a DEF Flush, Requests, PlaceInv, TypeOK, OpInv, Callers
    <3>2. /\ UNCHANGED <<s2c, acc, cur, reader, pending>>
          /\ pc[u] = "flush" /\ pc'[u] = "wait"
          /\ \A v \in Users : v # u => pc'[v] = pc[v]
          /\ c2s' = Append(c2s, m)
      BY <1>2a DEF Flush, SendRequest, Goto, PlaceInv, TypeOK
    <3>3. u \in Callers /\ Unsent(u) /\ \A v \in Callers : Unsent(v) => v = u \/ Unsent(v)'
      BY <3>2 DEF Callers, Unsent
    <3>4. \A v \in Users : pc[v] \in {"flush", "wait"} => pc'[v] \in {"flush", "wait"}
      BY <3>2
    <3> HIDE DEF m
    <3>5. QED
      BY <2>1, <3>1, <3>2, <3>3, <3>4, FlushStep
  <2>2. CASE ~Alive
    BY <1>2a, <2>2 DEF Flush, Alive, QueueInv
  <2>3. QED
    BY <2>1, <2>2
<1>2b. ASSUME NEW u \in Users, FlushDoomed(u) PROVE QueueInv'
  BY <1>2b DEF FlushDoomed, PlaceInv, CloseInv, Alive, QueueInv
<1>3. ASSUME NEW u \in Users, SendRefused(u) PROVE QueueInv'
  BY <1>3, NamesAssumption DEF SendRefused, Running, PlaceInv, CloseInv, Alive, QueueInv
<1>4. ASSUME NEW u \in Users, SayBye(u) PROVE QueueInv'
  <2>1. /\ UNCHANGED <<pending, s2c, acc, cur, reader>>
        /\ pc[u] \notin {"flush", "wait"}
        /\ \A v \in Users : v # u => pc'[v] = pc[v]
        /\ c2s' = Append(c2s, Goodbye) /\ c2s \in Seq(Requests \cup {Goodbye})
    BY <1>4 DEF SayBye, Goto, PlaceInv, TypeOK
  <2>2. \A v \in Callers, q \in Nat : Req(c2s', v, q) <=> Req(c2s, v, q)
    BY <2>1, ReqAppend DEF Goodbye
  <2>3. QED
    BY <2>1, <2>2, QuietStep DEF InHand, Stopped, Alive
<1>5. ASSUME ReadReply PROVE QueueInv'
  BY <1>5, ReadReplyStep
<1>6. ASSUME ReadEvent PROVE QueueInv'
  BY <1>6, ReadEventStep
<1>7. ASSUME ReadGoodbye PROVE QueueInv'
  BY <1>7 DEF ReadGoodbye, ReaderFails, Alive, QueueInv
<1>8. ASSUME Lookup \/ CallbackReturns PROVE QueueInv'
  <2>1. CASE reader' = "failed"
    BY <2>1 DEF Alive, QueueInv
  <2>2. CASE reader' # "failed"
    <3>1. /\ UNCHANGED <<pending, c2s, s2c, acc, cur, pc>>
          /\ reader \in {"lookup", "callback"}
      BY <1>8, <2>2 DEF Lookup, CallbackReturns, ReaderFails
    <3>2. QED
      BY <3>1, QuietStep DEF InHand, Stopped, Alive
  <2>3. QED
    BY <2>1, <2>2
<1>9. ASSUME CallbackCalls PROVE QueueInv'
  <2>1. /\ UNCHANGED <<c2s, s2c, acc, cur, pc>>
        /\ reader = "callback" /\ reader' = "flush"
        /\ pending' = Append(pending, Reader)
    BY <1>9 DEF CallbackCalls, Record
  <2>2. Reader \in Callers /\ Unsent(Reader)'
    BY <2>1 DEF Callers, Unsent
  <2>3. Alive /\ \A i \in Nat : ~Pend(pending, Reader, i)
    BY <2>1, <2>2, NamesAssumption DEF Alive, QueueInv, RecordInv
  <2>4. QED
    BY <2>1, <2>2, <2>3, PushStep
<1>9a. ASSUME CallbackFlush PROVE QueueInv'
  <2> DEFINE m == [kind |-> "call", event |-> Nobody, from |-> Reader]
  <2>1. m \in Requests /\ m.from = Reader /\ Reader \in Callers
    BY DEF Requests, Callers
  <2>2. /\ UNCHANGED <<s2c, acc, cur, pc, pending>>
        /\ reader = "flush" /\ reader' = "wait"
        /\ c2s' = Append(c2s, m)
    BY <1>9a DEF CallbackFlush, SendRequest
  <2>3. Alive /\ Unsent(Reader) /\ \A v \in Callers : Unsent(v) => v = Reader \/ Unsent(v)'
    BY <2>2 DEF Alive, Unsent
  <2> HIDE DEF m
  <2>4. QED
    BY <2>1, <2>2, <2>3, FlushStep
<1>10. ASSUME Request PROVE QueueInv'
  BY <1>10, RequestStep
<1>11. ASSUME DecodeFails PROVE QueueInv'
  BY <1>11, DecodeFailsStep
<1>12. ASSUME Serve \/ UnsubscribeAll \/ \E e \in Events : Emit(e) PROVE QueueInv'
  <2>1. /\ UNCHANGED <<pending, c2s, s2c, cur, pc, reader>>
        /\ acc' = acc \/ (acc = "service" /\ acc' = "reply") \/ (acc = "unsubAll" /\ acc' = "listen")
    BY <1>12 DEF Serve, UnsubscribeAll, Emit
  <2>2. QED
    BY <2>1, QuietStep DEF InHand, Stopped, Alive
<1>13. ASSUME Reply PROVE QueueInv'
  BY <1>13, ReplyStep
<1>14. ASSUME AnswerBye PROVE QueueInv'
  <2>1. /\ UNCHANGED <<pending, c2s, pc, reader>>
        /\ s2c' = Append(s2c, [kind |-> "goodbye", event |-> Nobody, from |-> Nobody])
        /\ s2c \in Seq(Messages)
        /\ acc = "goodbye" /\ acc' = "unsubAll"
    BY <1>14 DEF AnswerBye, Write, PlaceInv, TypeOK, Messages
  <2>2. \A v \in Callers, p \in Nat : Ans(s2c', v, p) <=> Ans(s2c, v, p)
    BY <2>1, AnsAppend
  <2>3. QED
    BY <2>1, <2>2, QuietStep DEF InHand, Stopped, Alive
<1>15. ASSUME NEW e \in Events, SendEvent(e) PROVE QueueInv'
  <2>1. /\ UNCHANGED <<pending, c2s, acc, cur, pc, reader>>
        /\ s2c' = Append(s2c, [kind |-> "event", event |-> e, from |-> Nobody])
        /\ s2c \in Seq(Messages)
    BY <1>15 DEF SendEvent, Write, PlaceInv, TypeOK, Messages
  <2>2. \A v \in Callers, p \in Nat : Ans(s2c', v, p) <=> Ans(s2c, v, p)
    BY <2>1, AnsAppend
  <2>3. QED
    BY <2>1, <2>2, QuietStep DEF InHand, Stopped, Alive
<1>16. CASE UNCHANGED vars
  BY <1>16, QuietStep DEF vars, InHand, Stopped, Alive
<1>17. QED
  BY <1>1, <1>2, <1>2a, <1>2b, <1>3, <1>4, <1>5, <1>6, <1>7, <1>8, <1>9, <1>9a, <1>10, <1>11,
     <1>12, <1>13, <1>14, <1>15, <1>16 DEF Next, UserStep, ReaderStep, AccStep

----------------------------------------------------------------------------
\* A record whose request is not out

LEMMA InitUnsentInv == Init => UnsentInv
  BY DEF Init, UnsentInv, Unsent

LEMMA AliveStays == [Next]_vars /\ Alive' => Alive
  BY DEF Alive, Next, vars, UserStep, ReaderStep, AccStep, Call, Close, Subscribe, Unsubscribe,
         Begin, SetCb, Register, CheckRunning, Push, Flush, FlushDoomed, SendRefused, Unregister,
         ClearCb, CloseStart, SayBye, Join, ReadReply, ReadEvent, ReadGoodbye, Lookup, ReaderFails,
         CallbackReturns, CallbackCalls, CallbackFlush, Arrives, Request, DecodeFails, Serve,
         Reply, AnswerBye, UnsubscribeAll, Emit, SendEvent, readerVars

\* The new record is the youngest, and nothing of its owner is on its way.
LEMMA PushIsYoungest ==
    ASSUME PlaceInv, QueueInv, Alive, NEW u \in Callers, \A i \in Nat : ~Pend(pending, u, i),
           pending' = Append(pending, u), UNCHANGED <<c2s, s2c, acc, cur>>
    PROVE  Youngest(u)' /\ NoMessage(u)'
<1>1. pending \in Seq(Callers) /\ MessageInv
  BY DEF PlaceInv, TypeOK, QueueInv
<1>2. /\ Len(pending) \in Nat
      /\ \A v \in Callers, i \in Nat : Pend(pending', v, i) <=>
           (Pend(pending, v, i) \/ (i = Len(pending) + 1 /\ v = u))
      /\ \A v \in Callers, i \in Nat : Pend(pending, v, i) => i \in 1..Len(pending)
  BY <1>1, PendAppend
<1>3. Youngest(u)'
  <2>1. Len(pending) + 1 \in Nat /\ Pend(pending', u, Len(pending) + 1)
    BY <1>2
  <2>2. \A v \in Callers, j \in Nat : Pend(pending', v, j) => j <= Len(pending) + 1
    BY <1>2
  <2>3. QED
    BY <2>1, <2>2 DEF Youngest
<1>4. NoMessage(u)
  BY <1>1 DEF MessageInv, NoMessage
<1>5. NoMessage(u)'
  BY <1>4 DEF NoMessage, InHand
<1>6. QED
  BY <1>3, <1>5

\* A message that is read brings nothing of a caller that has none.
LEMMA ReadNoMessage ==
    ASSUME PlaceInv, NEW u \in Callers, NoMessage(u), s2c # <<>>, s2c' = Tail(s2c),
           UNCHANGED <<c2s, acc, cur>>
    PROVE  NoMessage(u)'
<1>1. s2c \in Seq(Messages)
  BY DEF PlaceInv, TypeOK, Messages
<1>2. \A p \in Nat : Ans(s2c', u, p) => p + 1 \in Nat /\ Ans(s2c, u, p + 1)
  BY <1>1, AnsTail
<1>3. QED
  BY <1>2 DEF NoMessage, InHand

LEMMA ServerNoMessage ==
    ASSUME PlaceInv, NEW u \in Callers, NoMessage(u),
           AccStep \/ DecodeFails \/ \E e \in Events : Emit(e) \/ SendEvent(e)
    PROVE  NoMessage(u)' /\ pending' = pending
<1>1. c2s \in Seq(Requests \cup {Goodbye}) /\ s2c \in Seq(Messages)
  BY DEF PlaceInv, TypeOK, Messages
<1>2. CASE Request
  <2>1. c2s # <<>> /\ c2s' = Tail(c2s) /\ s2c' = s2c /\ pending' = pending
    BY <1>2 DEF Request
  <2>2. /\ \A q \in Nat : Req(c2s', u, q) => q + 1 \in Nat /\ Req(c2s, u, q + 1)
        /\ Req(c2s, u, 1) <=> (Head(c2s).kind # "goodbye" /\ u = Head(c2s).from)
    BY <1>1, <2>1, ReqTail
  <2>3. Head(c2s) \in Requests \cup {Goodbye}
    BY <1>1, <2>1
  <2>4. InHand(u)' => Req(c2s, u, 1)
    BY <1>2, <2>2, <2>3 DEF Request, InHand, Requests, Goodbye
  <2>5. QED
    BY <2>1, <2>2, <2>4 DEF NoMessage
<1>3. CASE Reply
  <2>1. PICK k \in {"reply", "error"} : Write(k, cur.event, cur.from)
    BY <1>3 DEF Reply
  <2> DEFINE m == [kind |-> k, event |-> cur.event, from |-> cur.from]
  <2>2. s2c' = Append(s2c, m) /\ m.from = cur.from /\ InHand(cur.from)
        /\ c2s' = c2s /\ pending' = pending /\ acc' = "read"
    BY <1>3, <2>1 DEF Reply, Write, InHand
  <2> HIDE DEF m
  <2>3. \A p \in Nat : Ans(s2c', u, p) => Ans(s2c, u, p) \/ u = cur.from
    BY <1>1, <2>2, AnsAppend
  <2>4. QED
    BY <2>2, <2>3 DEF NoMessage, InHand
<1>4. CASE AnswerBye \/ \E e \in Events : SendEvent(e)
  <2>0. PICK k \in {"goodbye", "event"}, e \in Events \cup {Nobody} : Write(k, e, Nobody)
    BY <1>4 DEF AnswerBye, SendEvent
  <2> DEFINE m == [kind |-> k, event |-> e, from |-> Nobody]
  <2>1. s2c' = Append(s2c, m)
    BY <2>0 DEF Write
  <2>2. m.kind \notin {"reply", "error"}
    OBVIOUS
  <2> HIDE DEF m
  <2>3. \A p \in Nat : Ans(s2c', u, p) => Ans(s2c, u, p)
    BY <1>1, <2>1, <2>2, AnsAppend
  <2>4. /\ c2s' = c2s /\ pending' = pending
        /\ (acc' = acc /\ cur' = cur) \/ acc' = "unsubAll"
    BY <1>4 DEF AnswerBye, SendEvent
  <2>5. QED
    BY <2>3, <2>4 DEF NoMessage, InHand
<1>5. CASE Serve \/ UnsubscribeAll \/ DecodeFails \/ \E e \in Events : Emit(e)
  <2>1. /\ UNCHANGED <<c2s, s2c, pending>>
        /\ \/ cur' = cur /\ (acc' \in {"service", "reply"} => acc = "service" \/ acc' = acc)
           \/ acc' = "unsubAll"
    BY <1>5 DEF Serve, UnsubscribeAll, DecodeFails, Emit
  <2>2. QED
    BY <2>1 DEF NoMessage, InHand
<1>6. QED
  BY <1>2, <1>3, <1>4, <1>5 DEF AccStep

LEMMA NextUnsentInv ==
    PlaceInv /\ PlaceInv' /\ QueueInv /\ UnsentInv /\ [Next]_vars => UnsentInv'
<1> SUFFICES ASSUME PlaceInv, PlaceInv', QueueInv, UnsentInv, [Next]_vars, Alive',
                    NEW u \in Callers, Unsent(u)'
             PROVE  Youngest(u)' /\ NoMessage(u)'
  BY DEF UnsentInv
<1>1. Alive
  BY AliveStays
<1>2. callMtx' = u
  BY DEF Unsent, PlaceInv, CloseInv
<1>3. u # Nobody
  BY NamesAssumption DEF Callers
<1>4. Unsent(u) => Youngest(u) /\ NoMessage(u)
  BY <1>1 DEF UnsentInv
<1>5. pending' = pending => (Youngest(u) => Youngest(u)')
  BY DEF Youngest
<1>6. UNCHANGED <<c2s, s2c, acc, cur>> => (NoMessage(u) => NoMessage(u)')
  BY DEF NoMessage, InHand
<1>7. pc \in [Users -> {"idle", "setCb", "register", "send", "push", "flush", "doomed",
                        "wait", "unregister", "clearCb", "close", "sayBye", "join"}]
  BY DEF PlaceInv, TypeOK
<1>8. ASSUME NEW w \in Users, Call(w) \/ Close(w) \/ SetCb(w) \/ Register(w) \/ Unregister(w)
                               \/ ClearCb(w) \/ CloseStart(w) \/ Join(w) \/ CheckRunning(w)
             \/ \E e \in Events : Subscribe(w, e) \/ Unsubscribe(w, e)
      PROVE  Youngest(u)' /\ NoMessage(u)'
  <2>1. /\ UNCHANGED <<pending, c2s, s2c, acc, cur, reader>>
        /\ pc'[w] # "flush"
        /\ \A v \in Users : v # w => pc'[v] = pc[v]
    BY <1>7, <1>8 DEF Call, Close, SetCb, Register, Unregister, ClearCb, CloseStart, Join, Subscribe,
                Unsubscribe, Begin, Goto, Return, CheckRunning, serverVars, readerVars
  <2>2. Unsent(u)
    BY <2>1 DEF Unsent
  <2>3. QED
    BY <1>4, <1>5, <1>6, <2>1, <2>2
<1>9. ASSUME NEW w \in Users, Push(w) PROVE Youngest(u)' /\ NoMessage(u)'
  <2>1. /\ pc[w] = "push" /\ callMtx' = callMtx
        /\ pending' = Append(pending, w) /\ UNCHANGED <<c2s, s2c, acc, cur>>
    BY <1>9 DEF Push, Record, closeVars, serverVars
  <2>2. w = u
    BY <1>2, <2>1 DEF PlaceInv, CloseInv
  <2>3. \A i \in Nat : ~Pend(pending, u, i)
    BY <1>1, <2>1, <2>2, NoRecord
  <2>4. QED
    BY <1>1, <2>1, <2>2, <2>3, PushIsYoungest
<1>10. ASSUME NEW w \in Users, Flush(w) \/ FlushDoomed(w) \/ SendRefused(w) PROVE FALSE
  <2>1. callMtx' = Nobody
    BY <1>10 DEF Flush, FlushDoomed, SendRefused, SendRequest, closeVars
  <2>2. QED
    BY <1>2, <1>3, <2>1
<1>11. ASSUME NEW w \in Users, SayBye(w) PROVE FALSE
  <2>1. pc[w] = "sayBye" /\ callMtx' = callMtx /\ pc'[w] = "join" /\ reader' = reader
    BY <1>7, <1>11 DEF SayBye, Goto, closeVars, readerVars
  <2>2. w = u
    BY <1>2, <2>1 DEF PlaceInv, CloseInv
  <2>3. QED
    BY <2>1, <2>2, NamesAssumption DEF Unsent
<1>12. ASSUME ReadReply PROVE Youngest(u)' /\ NoMessage(u)'
  <2> DEFINE w == Head(pending)
  <2>1. /\ reader = "read" /\ reader' = "read" /\ s2c # <<>> /\ s2c' = Tail(s2c)
        /\ Head(s2c).kind \in {"reply", "error"}
        /\ pending # <<>> /\ pending' = Tail(pending) /\ UNCHANGED <<c2s, acc, cur>>
    BY <1>12 DEF ReadReply, Arrives, readerVars, serverVars
  <2>2. /\ \A v \in Users : v # w => pc'[v] = pc[v]
        /\ w \in Users => pc'[w] # "flush"
    BY <1>7, <1>12 DEF ReadReply, Return, Goto, AfterReply
  <2>3. u \in Users /\ u # w /\ Unsent(u)
    BY <2>1, <2>2, NamesAssumption DEF Unsent, Callers
  <2>4. pending \in Seq(Callers)
    BY DEF PlaceInv, TypeOK
  <2>5. /\ \A v \in Callers, i \in Nat : Pend(pending', v, i) <=> (i > 0 /\ Pend(pending, v, i + 1))
        /\ \A v \in Callers, i \in Nat : Pend(pending, v, i) => i > 0
        /\ \A v \in Callers : Pend(pending, v, 1) <=> v = w
    BY <2>1, <2>4, PendTail
  <2> HIDE DEF w
  <2>6. PICK k \in Nat : /\ Pend(pending, u, k)
                         /\ \A v \in Callers, j \in Nat : Pend(pending, v, j) => j <= k
    BY <1>4, <2>3 DEF Youngest
  <2>7. k > 1
    BY <2>3, <2>5, <2>6
  <2>8. k - 1 \in Nat /\ Pend(pending', u, k - 1)
    BY <2>5, <2>6, <2>7
  <2>9. \A v \in Callers, j \in Nat : Pend(pending', v, j) => j <= k - 1
    BY <2>5, <2>6
  <2>10. Youngest(u)'
    BY <2>8, <2>9 DEF Youngest
  <2>11. QED
    BY <1>4, <2>1, <2>3, <2>10, ReadNoMessage
<1>13. ASSUME ReadEvent \/ ReadGoodbye PROVE Youngest(u)' /\ NoMessage(u)'
  <2>1. s2c # <<>> /\ s2c' = Tail(s2c) /\ UNCHANGED <<c2s, acc, cur>>
    BY <1>13 DEF ReadEvent, ReadGoodbye, Arrives, serverVars
  <2>2. pending' = pending /\ pc' = pc /\ reader' # "flush"
    BY <1>13 DEF ReadEvent, ReadGoodbye, ReaderFails, Alive, userVars
  <2>3. Unsent(u)
    BY <2>2 DEF Unsent
  <2>4. QED
    BY <1>4, <1>5, <2>1, <2>2, <2>3, ReadNoMessage
<1>14. ASSUME Lookup \/ CallbackReturns PROVE Youngest(u)' /\ NoMessage(u)'
  <2>1. UNCHANGED <<c2s, s2c, acc, cur, pending, pc>> /\ reader' # "flush"
    BY <1>14 DEF Lookup, CallbackReturns, ReaderFails, Alive, userVars, serverVars
  <2>2. QED
    BY <1>4, <1>5, <1>6, <2>1 DEF Unsent
<1>15. ASSUME CallbackCalls PROVE Youngest(u)' /\ NoMessage(u)'
  <2>1. /\ reader = "callback" /\ callMtx' = Reader
        /\ pending' = Append(pending, Reader) /\ UNCHANGED <<c2s, s2c, acc, cur>>
    BY <1>15 DEF CallbackCalls, Record, serverVars
  <2>2. u = Reader /\ \A i \in Nat : ~Pend(pending, u, i)
    BY <1>1, <1>2, <2>1, NamesAssumption DEF QueueInv, RecordInv
  <2>3. QED
    BY <1>1, <2>1, <2>2, PushIsYoungest
<1>16. ASSUME CallbackFlush PROVE FALSE
  BY <1>2, <1>3, <1>16 DEF CallbackFlush, SendRequest
<1>17. ASSUME AccStep \/ DecodeFails \/ \E e \in Events : Emit(e) \/ SendEvent(e)
       PROVE  Youngest(u)' /\ NoMessage(u)'
  <2>1. UNCHANGED <<pc, reader>>
    BY <1>17 DEF AccStep, Request, Serve, Reply, AnswerBye, UnsubscribeAll, DecodeFails, Emit,
                 SendEvent, userVars, readerVars
  <2>2. Unsent(u)
    BY <2>1 DEF Unsent
  <2>3. QED
    BY <1>4, <1>5, <1>17, <2>2, ServerNoMessage
<1>18. CASE UNCHANGED vars
  BY <1>4, <1>5, <1>6, <1>18 DEF vars, userVars, readerVars, serverVars, Unsent
<1>19. QED
  BY <1>8, <1>9, <1>10, <1>11, <1>12, <1>13, <1>14, <1>15, <1>16, <1>17, <1>18
     DEF Next, UserStep, ReaderStep

----------------------------------------------------------------------------
\* Requests and what their callers do

\* A step that moves no request, and changes no thread that has a record.
LEMMA QuietRequests ==
    ASSUME QueueInv, RequestInv, Alive' => Alive,
           \A u \in Users, i \in Nat : Pend(pending, u, i) => op'[u] = op[u],
           \A u \in Callers, q \in Nat : Req(c2s', u, q) => Req(c2s, u, q) /\ c2s'[q] = c2s[q],
           \A u \in Callers : InHand(u)' => InHand(u) /\ cur' = cur
    PROVE  RequestInv'
<1> SUFFICES ASSUME Alive' PROVE RequestInv'
  BY DEF RequestInv
<1>1. MessageInv /\ Alive
  BY DEF QueueInv
<1>2. /\ \A u \in Callers, q \in Nat : Req(c2s, u, q) => u = Reader \/ op'[u] = op[u]
      /\ \A u \in Callers : InHand(u) => u = Reader \/ op'[u] = op[u]
  BY <1>1 DEF MessageInv, Callers
<1>3. ASSUME NEW u \in Callers, NEW q \in Nat, Req(c2s', u, q) PROVE Says(u, c2s[q])'
  <2>1. Req(c2s, u, q) /\ c2s'[q] = c2s[q] /\ Says(u, c2s[q])
    BY <1>1, <1>3 DEF RequestInv
  <2>2. QED
    BY <1>2, <2>1 DEF Says
<1>4. ASSUME NEW u \in Callers, InHand(u)' PROVE Says(u, cur)'
  <2>1. InHand(u) /\ cur' = cur /\ Says(u, cur)
    BY <1>1, <1>4 DEF RequestInv
  <2>2. QED
    BY <1>2, <2>1 DEF Says
<1>5. QED
  BY <1>3, <1>4 DEF RequestInv

LEMMA InitRequestInv == Init => RequestInv
  BY DEF Init, RequestInv, Req, InHand

LEMMA NextRequestInv == PlaceInv /\ QueueInv /\ RequestInv /\ [Next]_vars => RequestInv'
<1> SUFFICES ASSUME PlaceInv, QueueInv, RequestInv, [Next]_vars, Alive PROVE RequestInv'
  BY AliveStays DEF RequestInv
<1> USE DEF stubVars, closeVars, readerVars, serverVars, userVars
<1>a. MessageInv /\ RecordInv /\ Users \subseteq Callers /\ Reader \in Callers /\ Reader \notin Users
  BY NamesAssumption DEF QueueInv, Callers
<1>1. ASSUME NEW u \in Users, Call(u) \/ Close(u) \/ SetCb(u) \/ Register(u) \/ Unregister(u)
                               \/ ClearCb(u) \/ CloseStart(u) \/ Join(u)
             \/ \E e \in Events : Subscribe(u, e) \/ Unsubscribe(u, e)
      PROVE  RequestInv'
  <2>1. /\ UNCHANGED <<pending, c2s, acc, cur, reader>>
        /\ pc[u] \notin {"flush", "wait"}
        /\ \A v \in Users : v # u => op'[v] = op[v]
    BY <1>1 DEF Call, Close, SetCb, Register, Unregister, ClearCb, CloseStart, Join, Subscribe,
                Unsubscribe, Begin, Goto, Return, PlaceInv, TypeOK
  <2>2. QED
    BY <2>1, NoRecord, QuietRequests DEF InHand, Alive
<1>1a. ASSUME NEW u \in Users, CheckRunning(u) \/ Push(u) PROVE RequestInv'
  BY <1>1a, QuietRequests DEF CheckRunning, Push, InHand, Alive
<1>1b. ASSUME NEW u \in Users, FlushDoomed(u) PROVE RequestInv'
  BY <1>1b DEF FlushDoomed, PlaceInv, CloseInv, Alive
<1>2. ASSUME NEW u \in Users, Flush(u) PROVE RequestInv'
  <2> DEFINE m == [kind |-> op[u].kind, event |-> op[u].event, from |-> u]
  <2>1. /\ UNCHANGED <<acc, cur, reader, op>>
        /\ c2s \in Seq(Requests \cup {Goodbye}) /\ c2s' = Append(c2s, m)
    BY <1>2 DEF Flush, SendRequest, PlaceInv, TypeOK
  <2>2. /\ \A v \in Callers, q \in Nat : Req(c2s', v, q) =>
             (Req(c2s, v, q) /\ c2s'[q] = c2s[q]) \/ (v = u /\ c2s'[q] = m)
    BY <2>1, AppendIndex DEF Req
  <2>3. m.kind = op[u].kind /\ m.event = op[u].event
    OBVIOUS
  <2> HIDE DEF m
  <2>4. ASSUME NEW v \in Callers, NEW q \in Nat, Req(c2s', v, q) PROVE Says(v, c2s[q])'
    <3>1. CASE Req(c2s, v, q) /\ c2s'[q] = c2s[q]
      <4>1. Says(v, c2s[q]) /\ op' = op
        BY <2>1, <3>1 DEF RequestInv
      <4>2. QED
        BY <3>1, <4>1 DEF Says
    <3>2. CASE v = u /\ c2s'[q] = m
      BY <1>a, <2>1, <2>3, <3>2 DEF Says
    <3>3. QED
      BY <2>2, <2>4, <3>1, <3>2
  <2>5. ASSUME NEW v \in Callers, InHand(v)' PROVE Says(v, cur)'
    BY <2>1, <2>5 DEF RequestInv, Says, InHand
  <2>6. QED
    BY <2>4, <2>5 DEF RequestInv
<1>3. ASSUME NEW u \in Users, SendRefused(u) PROVE RequestInv'
  BY <1>3, NamesAssumption DEF SendRefused, Running, PlaceInv, CloseInv, Alive, RequestInv
<1>4. ASSUME NEW u \in Users, SayBye(u) PROVE RequestInv'
  <2>1. /\ UNCHANGED <<acc, cur, reader, op>>
        /\ c2s \in Seq(Requests \cup {Goodbye}) /\ c2s' = Append(c2s, Goodbye)
    BY <1>4 DEF SayBye, PlaceInv, TypeOK
  <2>2. \A v \in Callers, q \in Nat : Req(c2s', v, q) => Req(c2s, v, q) /\ c2s'[q] = c2s[q]
    BY <2>1, AppendIndex DEF Req, Goodbye
  <2>3. QED
    BY <2>1, <2>2, QuietRequests DEF InHand, Alive
<1>5. ASSUME ReadReply PROVE RequestInv'
  <2> DEFINE u == Head(pending)
  <2>1. /\ s2c # <<>> /\ Head(s2c).kind \in {"reply", "error"}
        /\ s2c \in Seq(Messages) /\ Head(s2c) \in Messages
    BY <1>5 DEF ReadReply, Arrives, PlaceInv, TypeOK, Messages
  <2>2. u = Head(s2c).from /\ u \in Callers
    BY <2>1, OldestAnswered DEF Messages, Answers, EventMessages, Goodbye
  <2>3. Ans(s2c, u, 1)
    BY <2>1, <2>2, AnsTail
  <2>4. ~InHand(u) /\ \A q \in Nat : ~Req(c2s, u, q)
    BY <1>a, <2>2, <2>3 DEF MessageInv
  <2>5. /\ UNCHANGED <<c2s, acc, cur, reader>>
        /\ \A v \in Users : v # u => op'[v] = op[v]
    BY <1>5 DEF ReadReply, Return, PlaceInv, TypeOK
  <2> HIDE DEF u
  <2>6. ASSUME NEW v \in Callers, NEW q \in Nat, Req(c2s', v, q) PROVE Says(v, c2s[q])'
    BY <2>4, <2>5, <2>6 DEF RequestInv, Says, Callers
  <2>7. ASSUME NEW v \in Callers, InHand(v)' PROVE Says(v, cur)'
    BY <2>4, <2>5, <2>7 DEF RequestInv, Says, InHand, Callers
  <2>8. QED
    BY <2>6, <2>7 DEF RequestInv
<1>6. ASSUME Request PROVE RequestInv'
  <2>1. /\ c2s # <<>> /\ c2s \in Seq(Requests \cup {Goodbye}) /\ c2s' = Tail(c2s)
        /\ cur' = Head(c2s) /\ cur' = c2s[1]
        /\ UNCHANGED <<op, reader>>
        /\ (acc' \in {"service", "reply"} => Head(c2s) # Goodbye)
        /\ Head(c2s) \in Requests \cup {Goodbye}
    BY <1>6 DEF Request, PlaceInv, TypeOK
  <2>2. \A v \in Callers, q \in Nat : Req(c2s', v, q) =>
          q + 1 \in Nat /\ Req(c2s, v, q + 1) /\ c2s'[q] = c2s[q + 1]
    BY <2>1, TailIndex DEF Req
  <2>3. \A v \in Callers : InHand(v)' => Req(c2s, v, 1)
    BY <2>1, ReqTail DEF InHand, Requests
  <2>4. ASSUME NEW v \in Callers, NEW q \in Nat, Req(c2s', v, q) PROVE Says(v, c2s[q])'
    <3>1. Says(v, c2s[q + 1])
      BY <2>2, <2>4 DEF RequestInv
    <3>2. c2s'[q] = c2s[q + 1] /\ op' = op
      BY <2>1, <2>2, <2>4
    <3>3. QED
      BY <3>1, <3>2 DEF Says
  <2>5. ASSUME NEW v \in Callers, InHand(v)' PROVE Says(v, cur)'
    BY <2>1, <2>3, <2>5 DEF RequestInv, Says
  <2>6. QED
    BY <2>4, <2>5 DEF RequestInv
<1>7. ASSUME ReadEvent \/ CallbackReturns PROVE RequestInv'
  BY <1>7, QuietRequests DEF ReadEvent, CallbackReturns, Arrives, InHand, Alive
<1>8. ASSUME ReadGoodbye PROVE RequestInv'
  BY <1>8 DEF ReadGoodbye, ReaderFails, Alive, RequestInv
<1>9. ASSUME Lookup PROVE RequestInv'
  <2>1. CASE got \in registered
    BY <1>9, <2>1, QuietRequests DEF Lookup, InHand, Alive
  <2>2. CASE got \notin registered
    BY <1>9, <2>2 DEF Lookup, ReaderFails, Alive, RequestInv
  <2>3. QED
    BY <2>1, <2>2
<1>9a. ASSUME CallbackCalls PROVE RequestInv'
  BY <1>9a, QuietRequests DEF CallbackCalls, InHand, Alive
<1>10. ASSUME CallbackFlush PROVE RequestInv'
  <2> DEFINE m == [kind |-> "call", event |-> Nobody, from |-> Reader]
  <2>1. /\ UNCHANGED <<acc, cur, op>>
        /\ c2s \in Seq(Requests \cup {Goodbye}) /\ c2s' = Append(c2s, m)
    BY <1>10 DEF CallbackFlush, SendRequest, PlaceInv, TypeOK
  <2>2. /\ \A v \in Callers, q \in Nat : Req(c2s', v, q) =>
             (Req(c2s, v, q) /\ c2s'[q] = c2s[q]) \/ (v = Reader /\ c2s'[q] = m)
    BY <2>1, AppendIndex DEF Req
  <2>3. m.kind = "call"
    OBVIOUS
  <2> HIDE DEF m
  <2>4. ASSUME NEW v \in Callers, NEW q \in Nat, Req(c2s', v, q) PROVE Says(v, c2s[q])'
    <3>1. CASE Req(c2s, v, q) /\ c2s'[q] = c2s[q]
      <4>1. Says(v, c2s[q]) /\ op' = op
        BY <2>1, <3>1 DEF RequestInv
      <4>2. QED
        BY <3>1, <4>1 DEF Says
    <3>2. CASE v = Reader /\ c2s'[q] = m
      BY <1>a, <2>1, <2>3, <3>2 DEF Says
    <3>3. QED
      BY <2>2, <2>4, <3>1, <3>2
  <2>5. ASSUME NEW v \in Callers, InHand(v)' PROVE Says(v, cur)'
    BY <2>1, <2>5 DEF RequestInv, Says, InHand
  <2>6. QED
    BY <2>4, <2>5 DEF RequestInv
<1>11. ASSUME DecodeFails \/ Serve \/ Reply \/ AnswerBye \/ UnsubscribeAll PROVE RequestInv'
  <2>1. /\ UNCHANGED <<c2s, op, reader>>
        /\ acc' \in {"service", "reply"} => acc = "service" /\ cur' = cur
    BY <1>11 DEF DecodeFails, Serve, Reply, AnswerBye, UnsubscribeAll
  <2>2. QED
    BY <2>1, QuietRequests DEF InHand, Alive
<1>12. ASSUME NEW e \in Events, Emit(e) \/ SendEvent(e) PROVE RequestInv'
  BY <1>12, QuietRequests DEF Emit, SendEvent, InHand, Alive
<1>13. CASE UNCHANGED vars
  BY <1>13, QuietRequests DEF vars, InHand, Alive
<1>14. QED
  BY <1>1, <1>1a, <1>1b, <1>2, <1>3, <1>4, <1>5, <1>6, <1>7, <1>8, <1>9, <1>9a, <1>10, <1>11,
     <1>12, <1>13 DEF Next, UserStep, ReaderStep, AccStep

----------------------------------------------------------------------------
\* Subscriptions

LEMMA NextNotShared ==
    ASSUME PlaceInv, NotShared, "share" \notin trouble, [Next]_vars
    PROVE  NotShared'
<1> USE DEF stubVars, closeVars, readerVars, serverVars, userVars
<1>1. ASSUME NEW w \in Users, \A v \in Users : v # w => op'[v] = op[v],
             \/ op'[w].event \notin Events
             \/ \A v \in Users : v # w => op[v].event # op'[w].event
      PROVE  NotShared'
  BY <1>1 DEF NotShared
<1>2. ASSUME \A v \in Users : op'[v] = op[v] \/ op'[v].event \notin Events
      PROVE  NotShared'
  BY <1>2 DEF NotShared
<1>3. Idle.event \notin Events
  BY NamesAssumption DEF Idle
<1>4. op \in [Users -> [kind : {"none", "call", "subscribe", "unsubscribe", "close"},
                        event : Events \cup {Nobody}]]
  BY DEF PlaceInv, TypeOK
<1>5. ASSUME NEW u \in Users, NEW e \in Events, Subscribe(u, e) \/ Unsubscribe(u, e)
      PROVE  NotShared'
  BY <1>1, <1>4, <1>5 DEF Subscribe, Unsubscribe, MayUse, Begin
<1>6. ASSUME NEW u \in Users, Call(u) \/ Close(u) PROVE NotShared'
  BY <1>1, <1>4, <1>6, NamesAssumption DEF Call, Close, Begin
<1>7. ASSUME NEW u \in Users, ClearCb(u) \/ CloseStart(u) \/ Join(u) \/ FlushDoomed(u)
      PROVE  NotShared'
  BY <1>2, <1>3, <1>4, <1>7 DEF ClearCb, CloseStart, Join, FlushDoomed, Return
<1>8. ASSUME NEW u \in Users, SendRefused(u) PROVE NotShared'
  BY <1>2, <1>3, <1>8 DEF SendRefused, FailAll
<1>9. ASSUME NEW u \in Users, SetCb(u) \/ Register(u) \/ CheckRunning(u) \/ Push(u) \/ Flush(u)
                               \/ Unregister(u) \/ SayBye(u)
      PROVE  NotShared'
  BY <1>2, <1>9 DEF SetCb, Register, CheckRunning, Push, Flush, Unregister, SayBye
<1>10. ASSUME ReadReply PROVE NotShared'
  BY <1>2, <1>3, <1>4, <1>10 DEF ReadReply, Return
<1>11. ASSUME ReadGoodbye \/ Lookup PROVE NotShared'
  BY <1>2, <1>3, <1>11 DEF ReadGoodbye, Lookup, ReaderFails, FailAll
<1>12. CASE UNCHANGED op
  BY <1>2, <1>12
<1>13. ReadEvent \/ CallbackReturns \/ CallbackCalls \/ CallbackFlush \/ AccStep \/ DecodeFails
         \/ (\E e \in Events : Emit(e) \/ SendEvent(e)) \/ UNCHANGED vars => UNCHANGED op
  BY DEF ReadEvent, CallbackReturns, CallbackCalls, CallbackFlush, AccStep, Request, DecodeFails,
         Serve, Reply, AnswerBye, UnsubscribeAll, Emit, SendEvent, vars
<1>14. QED
  BY <1>5, <1>6, <1>7, <1>8, <1>9, <1>10, <1>11, <1>12, <1>13 DEF Next, UserStep, ReaderStep

\* The threads of the client that a step does not move, when no event more can
\* reach the reading thread.
LEMMA QuietPlaces ==
    ASSUME PlaceInv, FlowInv, NEW W \in SUBSET Users, \A u \in W : StubUser(u),
           \A e \in Events : Flowing(e)' => Flowing(e),
           UNCHANGED <<stubCb, registered, trouble>>,
           \A u \in W : pc'[u] = pc[u] /\ op'[u] = op[u]
    PROVE  FlowInv' /\ \A u \in W : StubUser(u)'
<1>1. FlowInv'
  BY DEF FlowInv
<1>2. ASSUME NEW u \in W PROVE StubUser(u)'
  <2>1. pc[u] \in {"unregister", "clearCb"} => op[u].event \in Events
    BY DEF PlaceInv, OpInv
  <2>2. pc[u] \in {"unregister", "clearCb"} => ~Flowing(op[u].event)'
    BY <2>1 DEF StubUser
  <2>3. QED
    BY <2>2 DEF StubUser
<1>3. QED
  BY <1>1, <1>2

\* The ends of subscriptions, when the streams to the client are as they were.
LEMMA QuietAcks ==
    ASSUME NEW W \in SUBSET Users, \A u \in W : AckUser(u), UNCHANGED <<s2c, callback, svcMtx>>,
           \A u \in W : op'[u] = op[u], acc' = "reply" => acc = "reply" /\ cur' = cur
    PROVE  \A u \in W : AckUser(u)'
  BY DEF AckUser

\* A thread whose request is not out has no answer on its way.
LEMMA NoAck ==
    ASSUME PlaceInv, QueueInv, UnsentInv, Alive, NEW u \in Users, pc[u] # "wait"
    PROVE  ~InHand(u) /\ \A p \in Nat : ~Ack(s2c, u, p)
<1>1. \A p \in Nat : Ack(s2c, u, p) => Ans(s2c, u, p)
  BY DEF Ack, Ans
<1>2. CASE pc[u] = "flush"
  BY <1>1, <1>2 DEF UnsentInv, Unsent, NoMessage, Callers
<1>3. CASE pc[u] # "flush"
  <2>1. \A i \in Nat : ~Pend(pending, u, i)
    BY <1>3, NoRecord
  <2>2. QED
    BY <1>1, <2>1 DEF QueueInv, MessageInv, Callers
<1>4. QED
  BY <1>2, <1>3

\* A thread that moves changes the callbacks of its own event only.
LEMMA OneUserMoves ==
    ASSUME PlaceInv, NotShared, StubInv, NEW u \in Users,
           UNCHANGED <<s2c, callback, svcMtx, reader, got, acc, cur, trouble>>,
           \A v \in Users : v # u => pc'[v] = pc[v] /\ op'[v] = op[v],
           \A e \in Events : e # op[u].event =>
             (e \in stubCb' <=> e \in stubCb) /\ (e \in registered' <=> e \in registered),
           op[u].event \in Events /\ Flowing(op[u].event) =>
             op[u].event \in stubCb' /\ op[u].event \in registered',
           StubUser(u)', AckUser(u)'
    PROVE  StubInv'
<1>1. \A e \in Events : Flowing(e)' <=> Flowing(e)
  BY DEF Flowing
<1>2. FlowInv'
  BY <1>1 DEF StubInv, FlowInv
<1>3. ASSUME NEW v \in Users, v # u PROVE StubUser(v)' /\ AckUser(v)'
  <2>1. pc'[v] = pc[v] /\ op'[v] = op[v] /\ StubUser(v) /\ AckUser(v)
    BY <1>3 DEF StubInv
  <2>2. op[v].event \in Events => op[v].event # op[u].event
    BY <1>3 DEF NotShared
  <2>3. /\ pc[v] \in {"setCb", "register", "unregister", "clearCb"} => op[v].event \in Events
        /\ op[v].kind = "subscribe" => op[v].event \in Events
    BY DEF PlaceInv, OpInv
  <2>4. StubUser(v)'
    BY <1>1, <2>1, <2>2, <2>3 DEF StubUser
  <2>5. AckUser(v)'
    BY <2>1 DEF AckUser
  <2>6. QED
    BY <2>4, <2>5
<1>4. QED
  BY <1>2, <1>3 DEF StubInv

LEMMA UserStub ==
    ASSUME PlaceInv, QueueInv, UnsentInv, NotShared, StubInv, Alive, NEW u \in Users,
           \/ Call(u) \/ Close(u) \/ SetCb(u) \/ Register(u) \/ CheckRunning(u) \/ Push(u)
           \/ Flush(u) \/ Unregister(u) \/ ClearCb(u) \/ CloseStart(u) \/ SayBye(u)
           \/ \E e \in Events : Subscribe(u, e) \/ Unsubscribe(u, e)
    PROVE  StubInv'
<1> USE DEF stubVars, closeVars, readerVars, serverVars, userVars
<1>1. StubUser(u) /\ AckUser(u)
  BY DEF StubInv
<1>2. /\ pc \in [Users -> {"idle", "setCb", "register", "send", "push", "flush", "doomed",
                           "wait", "unregister", "clearCb", "close", "sayBye", "join"}]
      /\ op \in [Users -> [kind : {"none", "call", "subscribe", "unsubscribe", "close"},
                           event : Events \cup {Nobody}]]
      /\ cur \in Requests \cup {Goodbye, NoRequest}
  BY DEF PlaceInv, TypeOK
<1>3. \A e \in Events : Flowing(e) => e \in registered /\ e \in stubCb
  BY DEF StubInv, FlowInv
<1>4. /\ pc[u] # "wait"
      /\ UNCHANGED <<s2c, callback, svcMtx, reader, got, acc, cur, trouble>>
      /\ \A v \in Users : v # u => pc'[v] = pc[v] /\ op'[v] = op[v]
  BY <1>2 DEF Call, Close, SetCb, Register, CheckRunning, Push, Flush, SendRequest, Unregister,
              ClearCb, CloseStart, SayBye, Subscribe, Unsubscribe, Begin, Goto, Return
<1>5. ~InHand(u) /\ \A p \in Nat : ~Ack(s2c, u, p)
  BY <1>4, NoAck
<1>6. ~InHand(u)' /\ \A p \in Nat : ~Ack(s2c', u, p)
  BY <1>4, <1>5 DEF InHand
<1>7. AckUser(u)'
  BY <1>6 DEF AckUser, InHand
<1>8. \A e \in Events : Flowing(e)' <=> Flowing(e)
  BY <1>4 DEF Flowing
<1>9. OpInv
  BY DEF PlaceInv
<1>10. CASE Call(u) \/ Close(u) \/ SayBye(u) \/ CloseStart(u)
  <2>1. UNCHANGED <<stubCb, registered>> /\ pc'[u] \in {"send", "close", "join", "sayBye", "idle"}
        /\ op'[u].kind # "subscribe"
    BY <1>2, <1>9, <1>10 DEF Call, Close, SayBye, CloseStart, Begin, Goto, Return, OpInv, Idle
  <2>2. StubUser(u)'
    BY <2>1 DEF StubUser
  <2>3. QED
    BY <1>3, <1>4, <1>7, <2>1, <2>2, OneUserMoves
<1>11. ASSUME NEW e \in Events, Subscribe(u, e) PROVE StubInv'
  <2>1. /\ UNCHANGED <<stubCb, registered>> /\ pc'[u] = "setCb" /\ op'[u].event = e
        /\ "resubscribe" \notin trouble => e \notin stubCb
    BY <1>2, <1>11 DEF Subscribe, Begin, Goto
  <2>2. StubUser(u)'
    BY <1>4, <2>1 DEF StubUser
  <2>3. QED
    BY <1>3, <1>4, <1>7, <2>1, <2>2, OneUserMoves
<1>12. ASSUME NEW e \in Events, Unsubscribe(u, e) PROVE StubInv'
  <2>1. UNCHANGED <<stubCb, registered>> /\ pc'[u] = "send" /\ op'[u].kind = "unsubscribe"
    BY <1>2, <1>12 DEF Unsubscribe, Begin, Goto
  <2>2. StubUser(u)'
    BY <2>1 DEF StubUser
  <2>3. QED
    BY <1>3, <1>4, <1>7, <2>1, <2>2, OneUserMoves
<1>13. CASE SetCb(u)
  <2>1. /\ stubCb' = stubCb \cup {op[u].event} /\ pc'[u] = "register"
        /\ UNCHANGED <<op, registered>>
    BY <1>2, <1>13 DEF SetCb, Goto
  <2>2. StubUser(u)'
    BY <2>1 DEF StubUser
  <2>3. QED
    BY <1>3, <1>4, <1>7, <2>1, <2>2, OneUserMoves
<1>14. CASE Register(u)
  <2>1. /\ registered' = registered \cup {op[u].event} /\ pc[u] = "register" /\ pc'[u] = "send"
        /\ UNCHANGED <<op, stubCb>>
    BY <1>2, <1>14 DEF Register, Goto
  <2>2. StubUser(u)'
    BY <1>1, <2>1 DEF StubUser
  <2>3. QED
    BY <1>3, <1>4, <1>7, <2>1, <2>2, OneUserMoves
<1>15. CASE CheckRunning(u) \/ Push(u) \/ Flush(u)
  <2>1. UNCHANGED <<op, stubCb, registered>> /\ pc[u] \in {"send", "push", "flush"}
        /\ pc'[u] \in {"push", "flush", "wait"}
    BY <1>2, <1>15 DEF CheckRunning, Push, Flush, Goto
  <2>2. StubUser(u)'
    BY <1>1, <2>1 DEF StubUser
  <2>3. QED
    BY <1>3, <1>4, <1>7, <2>1, <2>2, OneUserMoves
<1>16. CASE Unregister(u)
  <2>1. /\ registered' = registered \ {op[u].event} /\ pc[u] = "unregister" /\ pc'[u] = "clearCb"
        /\ UNCHANGED <<op, stubCb>>
    BY <1>2, <1>16 DEF Unregister, Goto
  <2>2. op[u].event \in Events /\ ~Flowing(op[u].event)
    BY <1>1, <1>9, <2>1 DEF StubUser, OpInv
  <2>3. StubUser(u)'
    BY <1>8, <2>1, <2>2 DEF StubUser
  <2>4. QED
    BY <1>4, <1>7, <2>1, <2>2, <2>3, OneUserMoves
<1>17. CASE ClearCb(u)
  <2>1. /\ stubCb' = stubCb \ {op[u].event} /\ pc[u] = "clearCb" /\ pc'[u] = "idle"
        /\ UNCHANGED registered /\ op'[u].kind = "none"
    BY <1>2, <1>17 DEF ClearCb, Return, Idle
  <2>2. op[u].event \in Events /\ ~Flowing(op[u].event)
    BY <1>1, <1>9, <2>1 DEF StubUser, OpInv
  <2>3. StubUser(u)'
    BY <2>1 DEF StubUser
  <2>4. QED
    BY <1>4, <1>7, <2>1, <2>2, <2>3, OneUserMoves
<1>18. QED
  BY <1>10, <1>11, <1>12, <1>13, <1>14, <1>15, <1>16, <1>17

\* What the reading thread takes, the server does not write behind it.
LEMMA EventRead ==
    ASSUME PlaceInv, s2c # <<>>, s2c' = Tail(s2c), UNCHANGED <<callback, svcMtx>>,
           \/ UNCHANGED <<reader, got>>
           \/ Head(s2c).kind = "event" /\ got' = Head(s2c).event
    PROVE  /\ \A e \in Events : Flowing(e)' => Flowing(e)
           /\ \A u \in Users : AckUser(u) /\ op'[u] = op[u] /\ UNCHANGED <<acc, cur>> => AckUser(u)'
<1>1. s2c \in Seq(Messages)
  BY DEF PlaceInv, TypeOK, Messages
<1>2. /\ \A e : \A i \in Nat : EventAt(s2c', e, i) <=> (i > 0 /\ EventAt(s2c, e, i + 1))
      /\ \A e : EventAt(s2c, e, 1) <=> (Head(s2c).kind = "event" /\ e = Head(s2c).event)
      /\ \A u : \A i \in Nat : Ack(s2c', u, i) <=> (i > 0 /\ Ack(s2c, u, i + 1))
  BY <1>1, EventTail, AckTail
<1>3. ASSUME NEW e \in Events, Flowing(e)' PROVE Flowing(e)
  <2>1. CASE \E p \in Nat : EventAt(s2c', e, p)
    <3>1. PICK p \in Nat : EventAt(s2c', e, p)
      BY <2>1
    <3>2. p + 1 \in Nat /\ EventAt(s2c, e, p + 1)
      BY <1>2, <3>1
    <3>3. QED
      BY <3>2 DEF Flowing
  <2>2. CASE got' = e /\ Head(s2c).kind = "event" /\ got' = Head(s2c).event
    <3>1. 1 \in Nat /\ EventAt(s2c, e, 1)
      BY <1>2, <2>2
    <3>2. QED
      BY <3>1 DEF Flowing
  <2>3. QED
    BY <1>3, <2>1, <2>2 DEF Flowing
<1>4. ASSUME NEW u \in Users, AckUser(u), op'[u] = op[u], UNCHANGED <<acc, cur>> PROVE AckUser(u)'
  <2> SUFFICES ASSUME op[u].kind = "unsubscribe", NEW p \in Nat, Ack(s2c', u, p)
               PROVE  /\ op[u].event \notin callback
                      /\ svcMtx # op[u].event
                      /\ \A r \in Nat : r > p => ~EventAt(s2c', op[u].event, r)
    BY <1>4 DEF AckUser
  <2>1. p + 1 \in Nat /\ Ack(s2c, u, p + 1)
    BY <1>2
  <2>2. ASSUME NEW r \in Nat, r > p PROVE ~EventAt(s2c', op[u].event, r)
    <3>1. r + 1 \in Nat /\ r + 1 > p + 1
      BY <2>2
    <3>2. ~EventAt(s2c, op[u].event, r + 1)
      BY <1>4, <2>1, <3>1 DEF AckUser
    <3>3. QED
      BY <1>2, <3>2
  <2>3. QED
    BY <1>4, <2>1, <2>2 DEF AckUser
<1>5. QED
  BY <1>3, <1>4

LEMMA ReadReplyStub ==
    ASSUME PlaceInv, QueueInv, NotShared, StubInv, Alive, ReadReply
    PROVE  StubInv'
<1> USE DEF stubVars, closeVars, readerVars, serverVars, userVars
<1>0. PICK u : u = Head(pending)
  OBVIOUS
<1>1. /\ s2c # <<>> /\ Head(s2c).kind \in {"reply", "error"} /\ s2c' = Tail(s2c)
      /\ s2c \in Seq(Messages) /\ pending \in Seq(Callers) /\ pending # <<>> /\ reader = "read"
      /\ UNCHANGED <<stubCb, registered, reader, got, acc, cur, callback, svcMtx, trouble>>
  BY DEF ReadReply, Arrives, PlaceInv, TypeOK, Messages
<1>2. u = Head(s2c).from
  BY <1>0, <1>1, OldestAnswered
<1>3. u \in Users
  <2>1. u \in Callers /\ Pend(pending, u, 1)
    BY <1>0, <1>1, PendTail
  <2>2. QED
    BY <1>1, <2>1 DEF QueueInv, RecordInv
<1>4. /\ pc \in [Users -> {"idle", "setCb", "register", "send", "push", "flush", "doomed",
                           "wait", "unregister", "clearCb", "close", "sayBye", "join"}]
      /\ op \in [Users -> [kind : {"none", "call", "subscribe", "unsubscribe", "close"},
                           event : Events \cup {Nobody}]]
  BY DEF PlaceInv, TypeOK
<1>5. \A v \in Users : v # u => pc'[v] = pc[v] /\ op'[v] = op[v]
  BY <1>0, <1>3, <1>4 DEF ReadReply, Return, Goto
<1>6. \/ pc'[u] = "idle" /\ op'[u] = Idle
      \/ /\ pc'[u] = "unregister" /\ op' = op /\ op[u].kind = "unsubscribe"
         /\ Head(s2c).kind = "reply"
  BY <1>0, <1>1, <1>3, <1>4 DEF ReadReply, Return, Goto, AfterReply
<1>7. /\ \A e \in Events : Flowing(e)' => Flowing(e)
      /\ \A v \in Users : AckUser(v) /\ op'[v] = op[v] => AckUser(v)'
  BY <1>1, EventRead
<1>8. FlowInv' /\ \A v \in Users \ {u} : StubUser(v)'
  <2>1. Users \ {u} \in SUBSET Users
    OBVIOUS
  <2>2. QED
    BY <1>1, <1>5, <1>7, <2>1, QuietPlaces DEF StubInv
<1>9. \A v \in Users \ {u} : AckUser(v)'
  BY <1>5, <1>7 DEF StubInv
<1>10. CASE pc'[u] = "idle" /\ op'[u] = Idle
  <2>1. StubUser(u)' /\ AckUser(u)'
    BY <1>10 DEF StubUser, AckUser, Idle
  <2>2. QED
    BY <1>8, <1>9, <2>1 DEF StubInv
<1>11. CASE pc'[u] = "unregister" /\ op' = op /\ op[u].kind = "unsubscribe"
            /\ Head(s2c).kind = "reply"
  <2> DEFINE e == op[u].event
  <2>1. Ack(s2c, u, 1) /\ 1 \in Nat /\ AckUser(u)
    BY <1>1, <1>2, <1>3, <1>11, AckTail DEF StubInv
  <2>2. /\ e \notin callback /\ svcMtx # e
        /\ \A r \in Nat : r > 1 => ~EventAt(s2c, e, r)
    BY <1>11, <2>1 DEF AckUser
  <2>3. \A p \in Nat : ~EventAt(s2c', e, p)
    <3>1. \A p \in Nat : EventAt(s2c', e, p) => p > 0 /\ EventAt(s2c, e, p + 1)
      BY <1>1, EventTail
    <3>2. \A p \in Nat : p > 0 => p + 1 \in Nat /\ p + 1 > 1
      OBVIOUS
    <3>3. QED
      BY <2>2, <3>1, <3>2
  <2>4. ~Flowing(op[u].event)'
    BY <1>1, <1>11, <2>2, <2>3 DEF Flowing
  <2>5. StubUser(u)'
    BY <1>11, <2>4 DEF StubUser
  <2>6. AckUser(u)'
    BY <1>3, <1>7, <1>11 DEF StubInv
  <2>7. QED
    BY <1>8, <1>9, <2>5, <2>6 DEF StubInv
<1>12. QED
  BY <1>6, <1>10, <1>11

LEMMA ReaderStub ==
    ASSUME PlaceInv, StubInv, Alive',
           \/ ReadEvent \/ ReadGoodbye \/ Lookup
           \/ CallbackReturns \/ CallbackCalls \/ CallbackFlush
    PROVE  StubInv'
<1> USE DEF stubVars, closeVars, readerVars, serverVars, userVars
<1>1. CASE ReadEvent
  <2>1. /\ s2c # <<>> /\ s2c' = Tail(s2c) /\ Head(s2c).kind = "event" /\ got' = Head(s2c).event
        /\ UNCHANGED <<pc, op, stubCb, registered, acc, cur, callback, svcMtx, trouble>>
    BY <1>1 DEF ReadEvent, Arrives
  <2>2. QED
    BY <2>1, EventRead, QuietPlaces DEF StubInv
<1>2. ASSUME UNCHANGED <<pc, op, stubCb, registered, acc, cur, callback, svcMtx, trouble>>,
             \/ UNCHANGED <<s2c, got>> /\ reader = "lookup" /\ reader' = "callback"
             \/ UNCHANGED s2c /\ reader' \notin {"lookup", "callback"}
      PROVE  StubInv'
  <2>1. \A e \in Events : Flowing(e)' => Flowing(e)
    BY <1>2 DEF Flowing
  <2>2. QED
    BY <1>2, <2>1, QuietAcks, QuietPlaces DEF StubInv
<1>3. CASE CallbackReturns \/ CallbackCalls \/ CallbackFlush
  BY <1>2, <1>3 DEF CallbackReturns, CallbackCalls, CallbackFlush
<1>4. CASE Lookup
  BY <1>2, <1>4 DEF Lookup, ReaderFails, Alive
<1>5. CASE ReadGoodbye
  BY <1>5 DEF ReadGoodbye, ReaderFails, Alive
<1>6. QED
  BY <1>1, <1>3, <1>4, <1>5

\* The service keeps the callback of the subscription it serves, whose caller waits,
\* and has none more of a subscription whose end it acknowledges.
LEMMA ServeStub ==
    ASSUME PlaceInv, QueueInv, RequestInv, NotShared, StubInv, Alive, Serve
    PROVE  StubInv'
<1> USE DEF stubVars, closeVars, readerVars, serverVars, userVars
<1>1. /\ acc = "service" /\ acc' = "reply" /\ cur \in Requests
      /\ UNCHANGED <<pc, op, stubCb, registered, reader, got, s2c, cur, svcMtx, trouble>>
  BY DEF Serve, PlaceInv, CurInv
<1>2. cur.from \in Callers /\ InHand(cur.from)
  BY <1>1 DEF Requests, InHand
<1>3. Says(cur.from, cur)
  BY <1>2 DEF RequestInv
<1>4. \A u \in Users : StubUser(u) /\ AckUser(u)
  BY DEF StubInv
<1>5. CASE cur.kind = "subscribe"
  <2> DEFINE u == cur.from
             e == cur.event
  <2>1. /\ u \in Users /\ op[u].kind = "subscribe" /\ op[u].event = e /\ e \in Events
        /\ callback' = callback \cup {e}
    BY <1>1, <1>2, <1>3, <1>5 DEF Says, Callers, Requests, Serve
  <2>2. PICK i \in Nat : Pend(pending, u, i)
    BY <1>2 DEF QueueInv, MessageInv
  <2>3. pc[u] \in {"flush", "wait"}
    BY <1>2, <2>1, <2>2, NamesAssumption DEF QueueInv, RecordInv
  <2>4. e \in registered /\ e \in stubCb
    BY <1>4, <2>1, <2>3 DEF StubUser
  <2>5. \A f \in Events : Flowing(f)' => Flowing(f) \/ f = e
    BY <1>1, <2>1 DEF Flowing
  <2>6. FlowInv'
    BY <1>1, <2>4, <2>5 DEF StubInv, FlowInv
  <2>7. ASSUME NEW v \in Users PROVE StubUser(v)' /\ AckUser(v)'
    <3>1. v # u => op[v].event # e
      BY <2>1, <2>7 DEF NotShared
    <3>2. pc[v] \in {"unregister", "clearCb"} => op[v].event \in Events /\ op[v].event # e
      BY <2>3, <2>7, <3>1 DEF PlaceInv, OpInv
    <3>3. pc[v] \in {"unregister", "clearCb"} => ~Flowing(op[v].event)'
      BY <1>1, <1>4, <2>5, <2>7, <3>2 DEF StubUser
    <3>4. StubUser(v)'
      BY <1>1, <1>4, <2>7, <3>3 DEF StubUser
    <3>5. op[v].kind = "unsubscribe" => v # u
      BY <2>1
    <3>6. AckUser(v)'
      BY <1>1, <1>4, <2>1, <2>7, <3>1, <3>5 DEF AckUser
    <3>7. QED
      BY <3>4, <3>6
  <2>8. QED
    BY <2>6, <2>7 DEF StubInv
<1>6. CASE cur.kind \in {"call", "unsubscribe"}
  <2>1. /\ callback' \subseteq callback
        /\ cur.kind = "unsubscribe" => cur.event \notin callback' /\ svcMtx = Nobody
    BY <1>6 DEF Serve
  <2>2. \A e \in Events : Flowing(e)' => Flowing(e)
    BY <1>1, <2>1 DEF Flowing
  <2>3. FlowInv' /\ \A u \in Users : StubUser(u)'
    BY <1>1, <1>4, <2>2, QuietPlaces DEF StubInv
  <2>4. ASSUME NEW u \in Users, op[u].kind = "unsubscribe", cur.from = u
        PROVE  op[u].event \notin callback' /\ svcMtx # op[u].event
    <3>1. cur.kind = "unsubscribe" /\ cur.event = op[u].event /\ cur.event \in Events
      BY <1>1, <1>3, <2>4, NamesAssumption DEF Says, Requests
    <3>2. QED
      BY <2>1, <3>1, NamesAssumption
  <2>5. ASSUME NEW u \in Users PROVE AckUser(u)'
    BY <1>1, <1>4, <2>1, <2>4, <2>5 DEF AckUser
  <2>6. QED
    BY <2>3, <2>5 DEF StubInv
<1>7. QED
  BY <1>1, <1>5, <1>6 DEF Requests

LEMMA ReplyStub ==
    ASSUME PlaceInv, StubInv, Reply
    PROVE  StubInv'
<1> USE DEF stubVars, closeVars, readerVars, serverVars, userVars
<1>1. PICK kind \in {"reply", "error"} :
          /\ s2c' = Append(s2c, [kind |-> kind, event |-> cur.event, from |-> cur.from])
          /\ kind = "reply" => acc = "reply"
          /\ acc' = "read" /\ s2c \in Seq(Messages)
          /\ UNCHANGED <<pc, op, stubCb, registered, reader, got, callback, svcMtx, trouble>>
  BY DEF Reply, Write, PlaceInv, TypeOK, Messages
<1>2. \A e, p : EventAt(s2c', e, p) <=> EventAt(s2c, e, p)
  BY <1>1, EventAppend
<1>3. /\ Len(s2c) \in Nat
      /\ \A e, p : EventAt(s2c, e, p) => p \in 1..Len(s2c)
      /\ \A u, p : Ack(s2c', u, p) =>
           Ack(s2c, u, p) \/ (p = Len(s2c) + 1 /\ acc = "reply" /\ u = cur.from)
  BY <1>1, EventAppend, AckAppend
<1>4. \A e \in Events : Flowing(e)' => Flowing(e)
  BY <1>1, <1>2 DEF Flowing
<1>5. FlowInv' /\ \A u \in Users : StubUser(u)'
  BY <1>1, <1>4, QuietPlaces DEF StubInv
<1>6. ASSUME NEW u \in Users PROVE AckUser(u)'
  <2> SUFFICES ASSUME op[u].kind = "unsubscribe", NEW p \in Nat, Ack(s2c', u, p)
               PROVE  /\ op[u].event \notin callback
                      /\ svcMtx # op[u].event
                      /\ \A r \in Nat : r > p => ~EventAt(s2c, op[u].event, r)
    BY <1>1, <1>2, <1>6 DEF AckUser
  <2>1. AckUser(u)
    BY <1>6 DEF StubInv
  <2>2. CASE Ack(s2c, u, p)
    BY <2>1, <2>2 DEF AckUser
  <2>3. CASE p = Len(s2c) + 1 /\ acc = "reply" /\ u = cur.from
    <3>1. \A r \in Nat : r > p => r \notin 1..Len(s2c)
      BY <1>3, <2>3
    <3>2. QED
      BY <1>3, <2>1, <2>3, <3>1 DEF AckUser
  <2>4. QED
    BY <1>3, <2>2, <2>3
<1>7. QED
  BY <1>5, <1>6 DEF StubInv

\* An event is sent while its callback, or the emitter that took it, is there.
LEMMA SendEventStub ==
    ASSUME PlaceInv, StubInv, NEW e \in Events, SendEvent(e)
    PROVE  StubInv'
<1> USE DEF stubVars, closeVars, readerVars, serverVars, userVars
<1>1. /\ s2c' = Append(s2c, [kind |-> "event", event |-> e, from |-> Nobody])
      /\ svcMtx = e /\ svcMtx' = Nobody /\ s2c \in Seq(Messages)
      /\ UNCHANGED <<pc, op, stubCb, registered, reader, got, callback, acc, cur, trouble>>
  BY DEF SendEvent, Write, PlaceInv, TypeOK, Messages
<1>2. \A f, p : EventAt(s2c', f, p) => EventAt(s2c, f, p) \/ f = e
  BY <1>1, EventAppend
<1>3. \A u, p : Ack(s2c', u, p) => Ack(s2c, u, p)
  BY <1>1, AckAppend
<1>4. \A f \in Events : Flowing(f)' => Flowing(f)
  BY <1>1, <1>2, NamesAssumption DEF Flowing
<1>5. FlowInv' /\ \A u \in Users : StubUser(u)'
  BY <1>1, <1>4, QuietPlaces DEF StubInv
<1>6. ASSUME NEW u \in Users PROVE AckUser(u)'
  <2>1. op[u].kind = "unsubscribe" => op[u].event \in Events /\ op[u].event # Nobody
    BY NamesAssumption DEF PlaceInv, OpInv
  <2>2. AckUser(u)
    BY <1>6 DEF StubInv
  <2>3. QED
    BY <1>1, <1>2, <1>3, <2>1, <2>2 DEF AckUser
<1>7. QED
  BY <1>5, <1>6 DEF StubInv

LEMMA ServerStub ==
    ASSUME PlaceInv, StubInv,
           \/ Request \/ DecodeFails \/ AnswerBye \/ UnsubscribeAll
           \/ \E e \in Events : Emit(e)
    PROVE  StubInv'
<1> USE DEF stubVars, closeVars, readerVars, serverVars, userVars
<1>1. /\ UNCHANGED <<pc, op, stubCb, registered, reader, got, trouble>>
      /\ acc' # "reply"  \/ UNCHANGED <<acc, cur>>
  BY DEF Request, DecodeFails, AnswerBye, UnsubscribeAll, Emit
<1>2. ASSUME callback' \subseteq callback, svcMtx' = svcMtx \/ svcMtx' \in callback,
             \A e, p : EventAt(s2c', e, p) <=> EventAt(s2c, e, p),
             \A u, p : Ack(s2c', u, p) <=> Ack(s2c, u, p)
      PROVE  StubInv'
  <2>1. \A e \in Events : Flowing(e)' => Flowing(e)
    BY <1>1, <1>2 DEF Flowing
  <2>2. FlowInv' /\ \A u \in Users : StubUser(u)'
    BY <1>1, <2>1, QuietPlaces DEF StubInv
  <2>3. \A u \in Users : AckUser(u)'
    BY <1>1, <1>2 DEF StubInv, AckUser
  <2>4. QED
    BY <2>2, <2>3 DEF StubInv
<1>3. CASE AnswerBye
  <2>1. /\ s2c' = Append(s2c, [kind |-> "goodbye", event |-> Nobody, from |-> Nobody])
        /\ s2c \in Seq(Messages)
        /\ UNCHANGED <<callback, svcMtx>>
    BY <1>3 DEF AnswerBye, Write, PlaceInv, TypeOK, Messages
  <2>2. QED
    BY <1>2, <2>1, EventAppend, AckAppend
<1>4. CASE Request \/ DecodeFails \/ UnsubscribeAll \/ \E e \in Events : Emit(e)
  BY <1>2, <1>4 DEF Request, DecodeFails, UnsubscribeAll, Emit
<1>5. QED
  BY <1>3, <1>4

LEMMA InitEventInv == Init => EventInv
<1> SUFFICES ASSUME Init PROVE EventInv
  OBVIOUS
<1>1. NotShared
  BY NamesAssumption DEF Init, NotShared, Idle
<1>2. \A e \in Events : ~Flowing(e)
  BY NamesAssumption DEF Init, Flowing, EventAt
<1>3. StubInv
  BY <1>2 DEF Init, StubInv, FlowInv, StubUser, AckUser, Idle
<1>4. QED
  BY <1>1, <1>3 DEF EventInv

LEMMA NextEventInv ==
    PlaceInv /\ QueueInv /\ UnsentInv /\ RequestInv /\ EventInv /\ [Next]_vars => EventInv'
<1> USE DEF stubVars, closeVars, readerVars, serverVars, userVars
<1> SUFFICES ASSUME PlaceInv, QueueInv, UnsentInv, RequestInv, NotShared, Alive => StubInv,
                    "share" \notin trouble, [Next]_vars
             PROVE  NotShared' /\ (Alive' => StubInv')
  <2>1. [Next]_vars => trouble' = trouble
    BY DEF Next, vars, UserStep, ReaderStep, AccStep, Call, Close, Subscribe,
           Unsubscribe, Begin, SetCb, Register, CheckRunning, Push, Flush, FlushDoomed, SendRefused,
           Unregister, ClearCb, CloseStart, SayBye, Join, ReadReply, ReadEvent, ReadGoodbye, Lookup,
           CallbackReturns, CallbackCalls, CallbackFlush, Request, DecodeFails, Serve, Reply,
           AnswerBye, UnsubscribeAll, Emit, SendEvent
  <2>2. QED
    BY <2>1 DEF EventInv
<1>1. NotShared'
  BY NextNotShared
<1> SUFFICES ASSUME Alive' PROVE StubInv'
  BY <1>1
<1>2. Alive
  BY AliveStays
<1>3. StubInv
  BY <1>2
<1>4. ASSUME NEW u \in Users,
             \/ Call(u) \/ Close(u) \/ SetCb(u) \/ Register(u) \/ CheckRunning(u) \/ Push(u)
             \/ Flush(u) \/ Unregister(u) \/ ClearCb(u) \/ CloseStart(u) \/ SayBye(u)
             \/ \E e \in Events : Subscribe(u, e) \/ Unsubscribe(u, e)
      PROVE  StubInv'
  BY <1>2, <1>3, <1>4, UserStub
\* Who is refused, or finds its record gone, finds the session over.
<1>5. ASSUME NEW u \in Users, FlushDoomed(u) \/ SendRefused(u) \/ Join(u) PROVE FALSE
  BY <1>2, <1>5, NamesAssumption DEF FlushDoomed, SendRefused, Join, Running, PlaceInv, CloseInv, Alive
<1>6. CASE ReaderStep \/ CallbackCalls \/ CallbackFlush
  BY <1>2, <1>3, <1>6, ReadReplyStub, ReaderStub DEF ReaderStep
<1>7. CASE AccStep \/ DecodeFails \/ \E e \in Events : Emit(e) \/ SendEvent(e)
  BY <1>2, <1>3, <1>7, ServeStub, ReplyStub, SendEventStub, ServerStub DEF AccStep
<1>8. CASE UNCHANGED vars
  <2>1. UNCHANGED <<pc, op, stubCb, registered, reader, got, s2c, callback, svcMtx, acc, cur,
                    trouble>>
    BY <1>8 DEF vars
  <2>2. \A e \in Events : Flowing(e)' <=> Flowing(e)
    BY <2>1 DEF Flowing
  <2>3. QED
    BY <1>3, <2>1, <2>2, QuietAcks, QuietPlaces DEF StubInv
<1>9. QED
  BY <1>4, <1>5, <1>6, <1>7, <1>8 DEF Next, UserStep

----------------------------------------------------------------------------
\* Goodbyes

LEMMA QuietBye ==
    ASSUME ByeInv,
           closed => closed', Stopped => Stopped', Alive' => Alive,
           reader' = "ended" => reader = "ended",
           acc' = "goodbye" => acc = "goodbye",
           \A u \in Users : pc'[u] = "sayBye" => pc[u] = "sayBye" \/ closed',
           \A q \in Nat : ByeAt(c2s', q) <=> ByeAt(c2s, q),
           \A u \in Callers, q \in Nat : Req(c2s', u, q) <=> Req(c2s, u, q),
           \A p \in Nat : ByeAt(s2c', p) <=> ByeAt(s2c, p),
           \A u \in Callers, p \in Nat : Ans(s2c, u, p) => Ans(s2c', u, p),
           \A u \in Callers, i \in Nat : Pend(pending', u, i) => Pend(pending, u, i)
    PROVE  ByeInv'
<1>1. ASSUME Alive' PROVE ByesInOrder'
  BY <1>1 DEF ByeInv, ByesInOrder
<1>2. QED
  BY <1>1 DEF ByeInv

\* As long as nobody has closed there is no goodbye.
LEMMA OpenBye ==
    ASSUME PlaceInv, ByeInv, Alive => ~closed, Alive' => Alive,
           c2s' = c2s \/ \E m \in Requests : c2s' = Append(c2s, m),
           UNCHANGED <<s2c, acc, closed>>,
           \A u \in Users : pc'[u] = "sayBye" => pc[u] = "sayBye",
           reader' = "ended" => reader = "ended"
    PROVE  ByeInv'
<1>1. ASSUME Alive' PROVE ByesInOrder'
  <2>1. ByesInOrder /\ ~closed
    BY <1>1 DEF ByeInv
  <2>2. \A q \in Nat : ~ByeAt(c2s', q)
    <3>1. CASE c2s' = c2s
      BY <2>1, <3>1 DEF ByesInOrder
    <3>2. ASSUME NEW m \in Requests, c2s' = Append(c2s, m) PROVE \A q \in Nat : ~ByeAt(c2s', q)
      <4>1. c2s \in Seq(Requests \cup {Goodbye}) /\ m.kind # "goodbye"
        BY DEF PlaceInv, TypeOK, Requests
      <4>2. QED
        BY <2>1, <3>2, <4>1, ByeAppend DEF ByesInOrder
    <3>3. QED
      BY <3>1, <3>2
  <2>3. acc' # "goodbye" /\ \A p \in Nat : ~ByeAt(s2c', p)
    BY <2>1 DEF ByesInOrder
  <2>4. QED
    BY <2>2, <2>3 DEF ByesInOrder
<1>2. QED
  BY <1>1 DEF ByeInv, Stopped

LEMMA SayByeStep == ASSUME PlaceInv, ByeInv, NEW u \in Users, SayBye(u) PROVE ByeInv'
<1>1. /\ c2s \in Seq(Requests \cup {Goodbye}) /\ c2s' = Append(c2s, Goodbye)
      /\ UNCHANGED <<s2c, pending, reader, acc, closed>>
      /\ \A v \in Users : pc'[v] = "sayBye" => pc[v] = "sayBye"
      /\ pc[u] = "sayBye"
  BY DEF SayBye, Goto, PlaceInv, TypeOK, closeVars, readerVars, serverVars
<1>2. closed
  BY <1>1 DEF ByeInv
<1>3. /\ Len(c2s) \in Nat
      /\ \A q \in Nat : ByeAt(c2s', q) => ByeAt(c2s, q) \/ q = Len(c2s) + 1
      /\ \A v \in Callers, q \in Nat : Req(c2s', v, q) <=> Req(c2s, v, q)
      /\ \A v \in Callers, q \in Nat : Req(c2s, v, q) => q < Len(c2s) + 1
  BY <1>1, ByeAppend, ReqAppend DEF Goodbye
<1>4. ASSUME Alive PROVE ByesInOrder'
  <2>1. ByesInOrder
    BY <1>4 DEF ByeInv
  <2>2. \A q \in Nat : ByeAt(c2s', q) =>
          closed' /\ \A v \in Callers, r \in Nat : Req(c2s', v, r) => r < q
    BY <1>1, <1>2, <1>3, <2>1 DEF ByesInOrder
  <2>3. QED
    BY <1>1, <1>3, <2>1, <2>2 DEF ByesInOrder, Stopped
<1>5. QED
  BY <1>1, <1>4 DEF ByeInv, Alive, Stopped

\* What is read before the server's goodbye brings it nearer.
LEMMA ReadBeforeBye ==
    ASSUME PlaceInv, QueueInv, ByeInv, ReadReply \/ ReadEvent
    PROVE  ByeInv'
<1>1. /\ Alive /\ s2c # <<>> /\ s2c \in Seq(Messages) /\ s2c' = Tail(s2c)
      /\ UNCHANGED <<c2s, closed, acc>>
      /\ reader' # "ended"
      /\ \A v \in Users : pc'[v] = "sayBye" => pc[v] = "sayBye"
  BY DEF ReadReply, ReadEvent, Arrives, Alive, PlaceInv, TypeOK, Messages, Goto, Return,
         closeVars, serverVars, readerVars, userVars, AfterReply
<1>2. ByesInOrder /\ RecordInv
  BY <1>1 DEF ByeInv, QueueInv
<1>3. /\ \A v \in Callers, i \in Nat : Ans(s2c', v, i) <=> (i > 0 /\ Ans(s2c, v, i + 1))
      /\ \A v \in Callers, i \in Nat : Ans(s2c, v, i) => i > 0
      /\ \A i \in Nat : ByeAt(s2c', i) => i > 0 /\ ByeAt(s2c, i + 1)
  BY <1>1, AnsTail, ByeTail
<1>4. \A v \in Callers, i \in Nat : Pend(pending', v, i) =>
        ~Ans(s2c, v, 1) /\ \E j \in Nat : Pend(pending, v, j)
  <2>1. CASE ReadEvent
    <3>1. pending' = pending /\ \A v \in Callers : ~Ans(s2c, v, 1)
      BY <1>1, <2>1, AnsTail DEF ReadEvent, Arrives
    <3>2. QED
      BY <3>1
  <2>2. CASE ReadReply
    <3>1. /\ pending \in Seq(Callers) /\ pending # <<>> /\ pending' = Tail(pending)
          /\ Head(pending) = Head(s2c).from
      BY <1>1, <2>2, OldestAnswered DEF ReadReply, Arrives, PlaceInv, TypeOK
    <3>2. /\ \A v \in Callers : Ans(s2c, v, 1) => Pend(pending, v, 1)
          /\ \A v \in Callers, i \in Nat : Pend(pending', v, i) => i > 0 /\ Pend(pending, v, i + 1)
      BY <1>1, <3>1, AnsTail, PendTail
    <3>3. QED
      BY <1>2, <3>2 DEF RecordInv
  <2>3. QED
    BY <2>1, <2>2
<1>5. \A p \in Nat : ByeAt(s2c', p) =>
        \A v \in Callers, i \in Nat : Pend(pending', v, i) =>
          \E r \in Nat : r < p /\ Ans(s2c', v, r)
  <2> SUFFICES ASSUME NEW p \in Nat, ByeAt(s2c', p), NEW v \in Callers, NEW i \in Nat,
                      Pend(pending', v, i)
               PROVE  \E r \in Nat : r < p /\ Ans(s2c', v, r)
    OBVIOUS
  <2>1. PICK j \in Nat : Pend(pending, v, j)
    BY <1>4
  <2>2. PICK r \in Nat : r < p + 1 /\ Ans(s2c, v, r)
    BY <1>2, <1>3, <2>1 DEF ByesInOrder
  <2>3. r > 0 /\ r # 1
    BY <1>3, <1>4, <2>2
  <2>4. r - 1 \in Nat /\ r - 1 < p /\ Ans(s2c', v, r - 1)
    BY <1>3, <2>2, <2>3
  <2>5. QED
    BY <2>4
<1>6. \A p \in Nat : ByeAt(s2c', p) => closed /\ Stopped
  BY <1>2, <1>3 DEF ByesInOrder
<1>7. ByesInOrder'
  BY <1>1, <1>2, <1>5, <1>6 DEF ByesInOrder, Stopped
<1>8. QED
  BY <1>1, <1>7 DEF ByeInv

\* The client's goodbye is the last message the server takes.
LEMMA RequestBye == ASSUME PlaceInv, ByeInv, Request PROVE ByeInv'
<1>1. /\ c2s # <<>> /\ c2s \in Seq(Requests \cup {Goodbye}) /\ c2s' = Tail(c2s)
      /\ UNCHANGED <<s2c, pending, reader, closed, pc>>
      /\ acc = "read" /\ acc' \in {"goodbye", "service"}
      /\ acc' = "goodbye" => Head(c2s) = Goodbye
  BY DEF Request, PlaceInv, TypeOK, closeVars, readerVars, userVars
<1>2. /\ \A q \in Nat : ByeAt(c2s', q) => ByeAt(c2s, q + 1)
      /\ \A v \in Callers, q \in Nat : Req(c2s', v, q) => q > 0 /\ Req(c2s, v, q + 1)
      /\ ByeAt(c2s, 1) <=> Head(c2s).kind = "goodbye"
  BY <1>1, ByeTail, ReqTail
<1>3. ASSUME Alive PROVE ByesInOrder'
  <2>1. ByesInOrder
    BY <1>3 DEF ByeInv
  <2>2. \A q \in Nat : ByeAt(c2s', q) =>
          closed /\ \A u \in Callers, r \in Nat : Req(c2s', u, r) => r < q
    BY <1>2, <2>1 DEF ByesInOrder
  <2>3. ASSUME acc' = "goodbye"
        PROVE  closed /\ \A u \in Callers, r \in Nat : ~Req(c2s', u, r)
    <3>1. ByeAt(c2s, 1)
      BY <1>1, <1>2, <2>3 DEF Goodbye
    <3>2. QED
      BY <1>2, <2>1, <3>1 DEF ByesInOrder
  <2>4. \A p \in Nat : ~ByeAt(s2c, p)
    BY <1>1, <2>1 DEF ByesInOrder, Stopped
  <2>5. QED
    BY <1>1, <2>2, <2>3, <2>4 DEF ByesInOrder
<1>4. QED
  BY <1>1, <1>3 DEF ByeInv, Alive, Stopped

\* The server's goodbye follows the answers to all calls.
LEMMA AnswerByeStep == ASSUME PlaceInv, QueueInv, ByeInv, AnswerBye PROVE ByeInv'
<1>1. /\ s2c \in Seq(Messages) /\ s2c' = Append(s2c, Goodbye)
      /\ UNCHANGED <<c2s, pending, reader, closed, pc>>
      /\ acc = "goodbye" /\ acc' = "unsubAll"
  BY DEF AnswerBye, Write, Goodbye, PlaceInv, TypeOK, Messages, closeVars, readerVars, userVars
<1>2. /\ Len(s2c) \in Nat
      /\ \A p \in Nat : ByeAt(s2c', p) => ByeAt(s2c, p) \/ p = Len(s2c) + 1
      /\ \A v \in Callers, p \in Nat : Ans(s2c, v, p) => p < Len(s2c) + 1 /\ Ans(s2c', v, p)
  BY <1>1, ByeAppend, AnsAppend
<1>3. ASSUME Alive PROVE ByesInOrder'
  <2>1. ByesInOrder /\ OrderInv
    BY <1>3 DEF ByeInv, QueueInv
  <2>2. /\ closed /\ ~Stopped /\ Stopped' /\ \A v \in Callers : ~InHand(v)
        /\ \A v \in Callers, r \in Nat : ~Req(c2s, v, r)
    BY <1>1, <2>1 DEF ByesInOrder, Stopped, InHand
  <2>3. \A p \in Nat : ByeAt(s2c', p) => p = Len(s2c) + 1
    BY <1>2, <2>1, <2>2 DEF ByesInOrder
  <2>4. \A v \in Callers, i \in Nat : Pend(pending, v, i) => \E r \in Nat : Ans(s2c, v, r)
    <3>1. \A v \in Callers : ~Unsent(v)
      BY <1>3, <2>2, NamesAssumption DEF Unsent, PlaceInv, CloseInv
    <3>2. QED
      BY <2>1, <2>2, <3>1 DEF OrderInv
  <2>5. QED
    BY <1>1, <1>2, <2>1, <2>2, <2>3, <2>4 DEF ByesInOrder
<1>4. QED
  BY <1>1, <1>3 DEF ByeInv, Alive, Stopped

LEMMA InitByeInv == Init => ByeInv
  BY DEF Init, ByeInv, ByesInOrder, ByeAt

LEMMA NextByeInv == PlaceInv /\ QueueInv /\ ByeInv /\ [Next]_vars => ByeInv'
<1> SUFFICES ASSUME PlaceInv, QueueInv, ByeInv, [Next]_vars PROVE ByeInv'
  OBVIOUS
<1> USE DEF stubVars, closeVars, readerVars, serverVars, userVars
<1>1. ASSUME NEW u \in Users, Call(u) \/ Close(u) \/ SetCb(u) \/ Register(u) \/ Unregister(u)
                               \/ ClearCb(u) \/ CheckRunning(u) \/ CloseStart(u) \/ Join(u)
             \/ \E e \in Events : Subscribe(u, e) \/ Unsubscribe(u, e)
      PROVE  ByeInv'
  <2>1. /\ UNCHANGED <<pending, c2s, s2c, acc, reader>>
        /\ closed => closed'
        /\ \A v \in Users : pc'[v] = "sayBye" => pc[v] = "sayBye" \/ closed'
    BY <1>1 DEF Call, Close, SetCb, Register, Unregister, ClearCb, CheckRunning, CloseStart, Join,
                Subscribe, Unsubscribe, Begin, Goto, Return, PlaceInv, TypeOK
  <2>2. QED
    BY <2>1, QuietBye DEF Stopped, Alive
<1>2. ASSUME NEW u \in Users, Push(u) \/ Flush(u) \/ FlushDoomed(u) PROVE ByeInv'
  <2>1. Alive => ~closed
    BY <1>2 DEF Push, Flush, FlushDoomed, PlaceInv, CloseInv, Alive
  <2>2. /\ UNCHANGED <<s2c, acc, reader, closed>>
        /\ \A v \in Users : pc'[v] = "sayBye" => pc[v] = "sayBye"
    BY <1>2 DEF Push, Flush, FlushDoomed, Goto, Return, PlaceInv, TypeOK
  <2>3. c2s' = c2s \/ \E m \in Requests : c2s' = Append(c2s, m)
    <3>1. CASE Push(u)
      BY <3>1 DEF Push
    <3>2. CASE Flush(u) \/ FlushDoomed(u)
      <4> DEFINE m == [kind |-> op[u].kind, event |-> op[u].event, from |-> u]
      <4>1. m \in Requests
        BY <3>2 DEF Flush, FlushDoomed, Requests, PlaceInv, TypeOK, OpInv, Callers
      <4>2. c2s' = Append(c2s, m)
        BY <3>2 DEF Flush, FlushDoomed, SendRequest
      <4> HIDE DEF m
      <4>3. QED
        BY <4>1, <4>2
    <3>3. QED
      BY <1>2, <3>1, <3>2
  <2>4. QED
    BY <2>1, <2>2, <2>3, OpenBye DEF Alive
<1>3. ASSUME NEW u \in Users, SendRefused(u) PROVE ByeInv'
  <2>1. /\ UNCHANGED <<c2s, s2c, acc, reader, closed>>
        /\ pending' = <<>>
        /\ \A v \in Users : pc'[v] = "sayBye" => pc[v] = "sayBye"
    BY <1>3 DEF SendRefused, FailAll
  <2>2. QED
    BY <2>1, QuietBye DEF Stopped, Alive, Pend
<1>4. ASSUME NEW u \in Users, SayBye(u) PROVE ByeInv'
  BY <1>4, SayByeStep
<1>5. ASSUME ReadReply \/ ReadEvent PROVE ByeInv'
  BY <1>5, ReadBeforeBye
<1>6. ASSUME ReadGoodbye PROVE ByeInv'
  <2>1. ~Alive' /\ \A v \in Users : pc'[v] = "sayBye" => pc[v] = "sayBye"
    BY <1>6 DEF ReadGoodbye, ReaderFails, FailAll, Alive
  <2>2. UNCHANGED <<closed, acc>> /\ (reader' = "ended" => closed)
    BY <1>6 DEF ReadGoodbye, ReaderFails
  <2>3. Stopped
    <3>1. Alive /\ s2c # <<>> /\ Head(s2c).kind = "goodbye" /\ s2c \in Seq(Messages)
      BY <1>6 DEF ReadGoodbye, Arrives, Alive, PlaceInv, TypeOK, Messages
    <3>2. ByeAt(s2c, 1)
      BY <3>1, ByeTail
    <3>3. QED
      BY <3>1, <3>2 DEF ByeInv, ByesInOrder
  <2>4. QED
    BY <2>1, <2>2, <2>3 DEF ByeInv, Stopped
<1>7. ASSUME Lookup \/ CallbackReturns PROVE ByeInv'
  <2>1. /\ UNCHANGED <<c2s, s2c, acc, closed>>
        /\ \A v \in Users : pc'[v] = "sayBye" => pc[v] = "sayBye"
        /\ pending' = pending \/ pending' = <<>>
        /\ Alive /\ reader' # "ended"
    BY <1>7 DEF Lookup, CallbackReturns, ReaderFails, FailAll, Alive
  <2>2. QED
    BY <2>1, QuietBye DEF Stopped, Pend
<1>8. ASSUME CallbackCalls \/ CallbackFlush PROVE ByeInv'
  <2>1. Alive /\ ~closed
    BY <1>8, NamesAssumption DEF CallbackCalls, CallbackFlush, Running, Alive, PlaceInv, CloseInv
  <2>2. UNCHANGED <<s2c, acc, pc, closed>> /\ reader' # "ended"
    BY <1>8 DEF CallbackCalls, CallbackFlush
  <2>3. c2s' = c2s \/ \E m \in Requests : c2s' = Append(c2s, m)
    <3> DEFINE m == [kind |-> "call", event |-> Nobody, from |-> Reader]
    <3>1. m \in Requests
      BY DEF Requests, Callers
    <3>2. c2s' = c2s \/ c2s' = Append(c2s, m)
      BY <1>8 DEF CallbackCalls, CallbackFlush, SendRequest
    <3> HIDE DEF m
    <3>3. QED
      BY <3>1, <3>2
  <2>4. QED
    BY <2>1, <2>2, <2>3, OpenBye
<1>9. ASSUME Request PROVE ByeInv'
  BY <1>9, RequestBye
<1>10. ASSUME DecodeFails \/ Serve \/ UnsubscribeAll \/ \E e \in Events : Emit(e) PROVE ByeInv'
  <2>1. /\ UNCHANGED <<pending, c2s, s2c, pc, reader, closed>>
        /\ acc' # "goodbye" \/ acc' = acc
        /\ Stopped => Stopped'
    BY <1>10 DEF DecodeFails, Serve, UnsubscribeAll, Emit, Stopped
  <2>2. QED
    BY <2>1, QuietBye DEF Alive
<1>11. ASSUME Reply PROVE ByeInv'
  <2>1. PICK k \in {"reply", "error"} : Write(k, cur.event, cur.from)
    BY <1>11 DEF Reply
  <2> DEFINE m == [kind |-> k, event |-> cur.event, from |-> cur.from]
  <2>2. /\ s2c \in Seq(Messages) /\ s2c' = Append(s2c, m) /\ m.kind # "goodbye"
        /\ UNCHANGED <<pending, c2s, pc, reader, closed>>
        /\ acc' = "read" /\ ~Stopped
    BY <1>11, <2>1 DEF Reply, Write, PlaceInv, TypeOK, Messages, Stopped
  <2> HIDE DEF m
  <2>3. /\ \A p \in Nat : ByeAt(s2c', p) <=> ByeAt(s2c, p)
        /\ \A v \in Callers, p \in Nat : Ans(s2c, v, p) => Ans(s2c', v, p)
    BY <2>2, ByeAppend, AnsAppend
  <2>4. QED
    BY <2>2, <2>3, QuietBye DEF Alive
<1>12. ASSUME AnswerBye PROVE ByeInv'
  BY <1>12, AnswerByeStep
<1>13. ASSUME NEW e \in Events, SendEvent(e) PROVE ByeInv'
  <2> DEFINE m == [kind |-> "event", event |-> e, from |-> Nobody]
  <2>1. /\ s2c \in Seq(Messages) /\ s2c' = Append(s2c, m) /\ m.kind # "goodbye"
        /\ UNCHANGED <<pending, c2s, pc, reader, closed, acc>>
    BY <1>13 DEF SendEvent, Write, PlaceInv, TypeOK, Messages
  <2> HIDE DEF m
  <2>2. /\ \A p \in Nat : ByeAt(s2c', p) <=> ByeAt(s2c, p)
        /\ \A v \in Callers, p \in Nat : Ans(s2c, v, p) => Ans(s2c', v, p)
    BY <2>1, ByeAppend, AnsAppend
  <2>3. QED
    BY <2>1, <2>2, QuietBye DEF Alive, Stopped
<1>14. CASE UNCHANGED vars
  BY <1>14, QuietBye DEF vars, Stopped, Alive
<1>15. QED
  BY <1>1, <1>2, <1>3, <1>4, <1>5, <1>6, <1>7, <1>8, <1>9, <1>10, <1>11, <1>12, <1>13,
     <1>14 DEF Next, UserStep, ReaderStep, AccStep

----------------------------------------------------------------------------
\* Who waits

LEMMA InitWaitInv == Init => WaitInv
  BY DEF Init, WaitInv

\* After the end of all calls nobody waits, and who sends is on the way out.
LEMMA FailAllWaits ==
    ASSUME WaitInv, NEW u, FailAll(u)
    PROVE  \A v \in Users : pc'[v] \notin {"flush", "wait"} /\ (pc'[v] = "push" => pc[v] = "push")
  BY DEF WaitInv, FailAll, Pend

\* When the goodbye is read every call has returned.
LEMMA NobodyWaitsAtGoodbye ==
    ASSUME PlaceInv, WaitInv, ByeInv, ReadGoodbye
    PROVE  closed /\ Stopped /\ \A v \in Users : pc[v] \notin {"push", "flush", "doomed", "wait"}
<1>1. Alive /\ s2c # <<>> /\ Head(s2c).kind = "goodbye" /\ s2c \in Seq(Messages)
  BY DEF ReadGoodbye, Arrives, Alive, PlaceInv, TypeOK, Messages
<1>2. ByeAt(s2c, 1) /\ ByesInOrder
  BY <1>1, ByeTail DEF ByeInv
<1>3. \A v \in Callers, r \in Nat : Ans(s2c, v, r) => r > 0
  BY <1>1, AnsTail
<1>4. \A v \in Callers, i \in Nat : ~Pend(pending, v, i)
  BY <1>2, <1>3 DEF ByesInOrder
<1>5. closed /\ Stopped /\ \A v \in Users : pc[v] \notin {"flush", "wait"}
  BY <1>2, <1>4 DEF ByesInOrder, WaitInv, Callers
<1>6. QED
  BY <1>1, <1>5 DEF PlaceInv, CloseInv, Alive

LEMMA NextWaitInv == PlaceInv /\ QueueInv /\ WaitInv /\ ByeInv /\ [Next]_vars => WaitInv'
<1> SUFFICES ASSUME PlaceInv, QueueInv, WaitInv, ByeInv, [Next]_vars PROVE WaitInv'
  OBVIOUS
<1> USE DEF stubVars, closeVars, readerVars, serverVars, userVars
<1>1. ASSUME NEW u \in Users, Call(u) \/ Close(u) \/ SetCb(u) \/ Register(u) \/ Unregister(u)
                               \/ ClearCb(u) \/ FlushDoomed(u) \/ CloseStart(u) \/ Join(u)
                               \/ SayBye(u)
             \/ \E e \in Events : Subscribe(u, e) \/ Unsubscribe(u, e)
      PROVE  WaitInv'
  <2>1. /\ UNCHANGED <<pending, reader>>
        /\ \A v \in Users : pc'[v] \in {"push", "flush", "wait"} => pc'[v] = pc[v]
    BY <1>1 DEF Call, Close, SetCb, Register, Unregister, ClearCb, FlushDoomed, CloseStart, Join,
                Subscribe, Unsubscribe, SayBye, Begin, Goto, Return, PlaceInv, TypeOK
  <2>2. QED
    BY <2>1 DEF WaitInv
<1>2. ASSUME NEW u \in Users, CheckRunning(u) \/ Flush(u) PROVE WaitInv'
  <2>1. /\ UNCHANGED <<pending, reader>>
        /\ \A v \in Users : v # u => pc'[v] = pc[v]
        /\ \/ pc'[u] = "push" /\ ~closed
           \/ pc[u] = "flush" /\ pc'[u] = "wait"
    BY <1>2 DEF CheckRunning, Flush, Running, Goto, PlaceInv, TypeOK
  <2>2. ~closed => reader # "ended"
    BY DEF ByeInv
  <2>3. QED
    BY <2>1, <2>2 DEF WaitInv
<1>12. ASSUME NEW u \in Users, Push(u) PROVE WaitInv'
  <2>1. /\ pending' = Append(pending, u) /\ pending \in Seq(Callers)
        /\ reader' = reader /\ pc[u] = "push" /\ pc'[u] = "flush"
        /\ \A v \in Users : v # u => pc'[v] = pc[v]
    BY <1>12 DEF Push, Record, Goto, PlaceInv, TypeOK
  <2>2. \A v, i : Pend(pending, v, i) => Pend(pending', v, i)
    BY <2>1, PendAppend
  <2>3. Len(pending) + 1 \in Nat /\ Pend(pending', u, Len(pending) + 1)
    BY <2>1, PendAppend
  <2>4. QED
    BY <2>1, <2>2, <2>3 DEF WaitInv
<1>3. ASSUME NEW u \in Users, SendRefused(u) PROVE WaitInv'
  BY <1>3, FailAllWaits DEF SendRefused, WaitInv
<1>4. ASSUME ReadReply PROVE WaitInv'
  <2>1. /\ pending \in Seq(Callers) /\ pending # <<>> /\ pending' = Tail(pending)
        /\ Alive'
        /\ \A v \in Users : v # Head(pending) => pc'[v] = pc[v]
        /\ Head(pending) \in Users => pc'[Head(pending)] \in {"idle", "unregister"}
    BY <1>4 DEF ReadReply, Arrives, Alive, PlaceInv, TypeOK, Goto, Return, AfterReply
  <2>2. \A v \in Users, i \in Nat : Pend(pending, v, i) /\ v # Head(pending) =>
          i - 1 \in Nat /\ Pend(pending', v, i - 1)
    <3>1. /\ \A v, i : Pend(pending, v, i) => i \in Nat /\ i > 0
          /\ \A v : Pend(pending, v, 1) <=> v = Head(pending)
          /\ \A v : \A i \in Nat : Pend(pending', v, i) <=> (i > 0 /\ Pend(pending, v, i + 1))
      BY <2>1, PendTail
    <3>2. QED
      BY <3>1
  <2>3. QED
    BY <2>1, <2>2 DEF WaitInv, Alive
<1>5. ASSUME ReadEvent PROVE WaitInv'
  BY <1>5 DEF ReadEvent, WaitInv, Alive
<1>6. ASSUME ReadGoodbye PROVE WaitInv'
  <2>1. closed /\ \A v \in Users : pc[v] \notin {"push", "flush", "wait"}
    BY <1>6, NobodyWaitsAtGoodbye
  <2>2. QED
    BY <1>6, <2>1 DEF ReadGoodbye, WaitInv
<1>7. ASSUME Lookup PROVE WaitInv'
  <2>1. CASE got \in registered
    BY <1>7, <2>1 DEF Lookup, WaitInv, Alive
  <2>2. CASE got \notin registered
    BY <1>7, <2>2, FailAllWaits DEF Lookup, ReaderFails, WaitInv
  <2>3. QED
    BY <2>1, <2>2
<1>8. ASSUME CallbackCalls PROVE WaitInv'
  <2>1. /\ pending' = Append(pending, Reader) /\ pending \in Seq(Callers) /\ pc' = pc /\ Alive'
    BY <1>8 DEF CallbackCalls, Record, PlaceInv, TypeOK, Alive
  <2>2. \A v, i : Pend(pending, v, i) => Pend(pending', v, i)
    BY <2>1, PendAppend
  <2>3. QED
    BY <2>1, <2>2 DEF WaitInv, Alive
<1>9. ASSUME CallbackReturns \/ CallbackFlush \/ Request \/ DecodeFails \/ Serve \/ Reply
             \/ AnswerBye \/ UnsubscribeAll \/ \E e \in Events : Emit(e) \/ SendEvent(e)
      PROVE  WaitInv'
  <2>1. UNCHANGED <<pc, pending>> /\ (reader' = reader \/ Alive')
    BY <1>9 DEF CallbackReturns, CallbackFlush, Request, DecodeFails, Serve, Reply, AnswerBye, UnsubscribeAll,
                Emit, SendEvent, Alive
  <2>2. QED
    BY <2>1 DEF WaitInv, Alive
<1>10. CASE UNCHANGED vars
  BY <1>10 DEF vars, WaitInv, Alive
<1>11. QED
  BY <1>1, <1>2, <1>12, <1>3, <1>4, <1>5, <1>6, <1>7, <1>8, <1>9, <1>10
     DEF Next, UserStep, ReaderStep, AccStep

----------------------------------------------------------------------------
\* The steps of the system as steps of Rpc

RpcInv == PlaceInv /\ QueueInv /\ UnsentInv /\ RequestInv /\ ByeInv /\ WaitInv

LEMMA AnsweredAppend ==
    ASSUME s2c \in Seq(Messages), NEW m, s2c' = Append(s2c, m)
    PROVE  \A u, k : Answered(u, k)' <=> (Answered(u, k) \/ (m.kind = k /\ m.from = u))
<1>1. /\ DOMAIN s2c' = 1..(Len(s2c) + 1) /\ DOMAIN s2c = 1..Len(s2c) /\ Len(s2c) \in Nat
      /\ \A i \in 1..Len(s2c) : s2c'[i] = s2c[i]
      /\ s2c'[Len(s2c) + 1] = m
  BY AppendIndex
<1>2. QED
  BY <1>1 DEF Answered

LEMMA AnsweredTail ==
    ASSUME s2c \in Seq(Messages), s2c # <<>>, s2c' = Tail(s2c)
    PROVE  /\ \A u, k : Head(s2c).kind # k \/ Head(s2c).from # u =>
                (Answered(u, k)' <=> Answered(u, k))
           /\ Answered(Head(s2c).from, Head(s2c).kind)
<1>1. /\ DOMAIN s2c' = 1..(Len(s2c) - 1) /\ DOMAIN s2c = 1..Len(s2c) /\ Len(s2c) \in Nat \ {0}
      /\ \A i \in 1..(Len(s2c) - 1) : s2c'[i] = s2c[i + 1]
      /\ Head(s2c) = s2c[1]
  BY TailIndex
<1>2. Answered(Head(s2c).from, Head(s2c).kind)
  BY <1>1 DEF Answered
<1>3. ASSUME NEW u, NEW k, Head(s2c).kind # k \/ Head(s2c).from # u, Answered(u, k)
      PROVE  Answered(u, k)'
  <2>1. PICK i \in DOMAIN s2c : s2c[i].kind = k /\ s2c[i].from = u
    BY <1>3 DEF Answered
  <2>2. i # 1
    BY <1>1, <1>3, <2>1
  <2>3. i - 1 \in 1..(Len(s2c) - 1) /\ s2c'[i - 1] = s2c[i]
    BY <1>1, <2>1, <2>2
  <2>4. QED
    BY <1>1, <2>1, <2>3 DEF Answered
<1>4. ASSUME NEW u, NEW k, Answered(u, k)' PROVE Answered(u, k)
  <2>1. PICK i \in DOMAIN s2c' : s2c'[i].kind = k /\ s2c'[i].from = u
    BY <1>4 DEF Answered
  <2>2. i + 1 \in DOMAIN s2c /\ s2c[i + 1] = s2c'[i]
    BY <1>1, <2>1
  <2>3. QED
    BY <2>1, <2>2 DEF Answered
<1>5. QED
  BY <1>2, <1>3, <1>4

LEMMA AnsweredAns ==
    ASSUME PlaceInv
    PROVE  \A u : \A k \in {"reply", "error"} : Answered(u, k) =>
             \E p \in Nat : Ans(s2c, u, p) /\ s2c[p].kind = k
<1>1. DOMAIN s2c \subseteq Nat
  BY DEF PlaceInv, TypeOK
<1>2. QED
  BY <1>1 DEF Answered, Ans

\* A call that has no answer and is not in hand has only been asked.
LEMMA AskedStage ==
    ASSUME PlaceInv, NEW u, \A p \in Nat : ~Ans(s2c, u, p), acc = "reply" => cur.from # u
    PROVE  Stage(u) = "asked" /\ ~Answered(u, "reply") /\ ~Answered(u, "error")
  BY AnsweredAns DEF Stage

\* A step that changes no thread in a call, and not how far its call has come.
LEMMA SameCalls ==
    ASSUME SessionOf' = SessionOf,
           \A u \in Users : (Sending(u)' <=> Sending(u)) /\ (pc'[u] = "wait" <=> pc[u] = "wait"),
           \A u \in Users : Sending(u) \/ pc[u] = "wait" => op'[u] = op[u],
           \A u \in Users : pc[u] = "wait" /\ reader # "failed" => Stage(u)' = Stage(u)
    PROVE  \A u \in Users : CallOf(u)' = CallOf(u)
<1>1. reader' = "failed" <=> reader = "failed"
  BY DEF SessionOf
<1>2. QED
  BY <1>1 DEF CallOf

LEMMA Stutter ==
    ASSUME \A u \in Users : CallOf(u)' = CallOf(u),
           SessionOf' = SessionOf, ServerOf' = ServerOf, callback' = callback
    PROVE  UNCHANGED R!vars
  BY DEF R!vars

\* A call is made: nobody else is sending.
LEMMA CheckRunningIsAsk ==
    ASSUME RpcInv, NEW u \in Users, CheckRunning(u)
    PROVE  R!Ask(u, op[u].kind, op[u].event)
<1>1. /\ UNCHANGED <<op, s2c, acc, cur, reader, callback>>
      /\ pc[u] = "send" /\ pc'[u] = "push" /\ \A v \in Users : v # u => pc'[v] = pc[v]
      /\ reader # "failed" /\ ~closed /\ callMtx = Nobody
  BY DEF CheckRunning, Running, Goto, RpcInv, PlaceInv, TypeOK, readerVars, serverVars
<1>2. Alive
  BY <1>1 DEF RpcInv, ByeInv, Alive
<1>3. \A v \in Users : Stage(v)' = Stage(v)
  BY <1>1 DEF Stage, Answered
<1>4. \A v \in Users : ~Sending(v)
  BY <1>1, NamesAssumption DEF Sending, RpcInv, PlaceInv, CloseInv
<1>5. \A v \in Users : CallOf(v).stage # "sending"
  BY <1>4 DEF CallOf, Stage
<1>6. /\ CallOf(u) = R!NoCall
      /\ CallOf(u)' = [stage |-> "sending", kind |-> op[u].kind, event |-> op[u].event]
      /\ \A v \in Users : v # u => CallOf(v)' = CallOf(v)
  BY <1>1, <1>3 DEF CallOf, Sending, R!NoCall
<1>7. SessionOf = "open" /\ SessionOf' = SessionOf /\ ServerOf' = ServerOf
  BY <1>1, <1>2 DEF SessionOf, ServerOf, Alive
<1>8. QED
  BY <1>1, <1>5, <1>6, <1>7 DEF R!Ask

\* Its request is out, or comes too late.
LEMMA FlushIsSent ==
    ASSUME RpcInv, NEW u \in Users, Flush(u)
    PROVE  R!Sent(u) \/ R!SentTooLate(u)
<1>1. /\ UNCHANGED <<op, s2c, acc, cur, reader, callback>>
      /\ pc[u] = "flush" /\ pc'[u] = "wait" /\ \A v \in Users : v # u => pc'[v] = pc[v]
  BY DEF Flush, Goto, RpcInv, PlaceInv, TypeOK, stubVars, readerVars, serverVars
<1>2. \A v \in Users : Stage(v)' = Stage(v)
  BY <1>1 DEF Stage, Answered
<1>3. /\ CallOf(u) = [stage |-> "sending", kind |-> op[u].kind, event |-> op[u].event]
      /\ \A v \in Users : v # u => CallOf(v)' = CallOf(v)
  BY <1>1, <1>2 DEF CallOf, Sending
<1>4. SessionOf' = SessionOf /\ ServerOf' = ServerOf
  BY <1>1 DEF SessionOf, ServerOf
<1>5. ASSUME NEW stage,
             CallOf(u)' = [stage |-> stage, kind |-> op[u].kind, event |-> op[u].event]
      PROVE  R!To(u, stage)
  <2>1. /\ CallOf(u).kind = op[u].kind /\ CallOf(u).event = op[u].event
        /\ [v \in Users |-> CallOf(v)][u] = CallOf(u)
    BY <1>3
  <2>2. QED
    BY <1>3, <1>5, <2>1 DEF R!To
<1>6. CASE reader = "failed"
  <2>1. CallOf(u)' = [stage |-> "stranded", kind |-> op[u].kind, event |-> op[u].event]
    BY <1>1, <1>6 DEF CallOf, Sending
  <2>2. R!To(u, "stranded") /\ SessionOf = "failed"
    BY <1>5, <1>6, <2>1 DEF SessionOf
  <2>3. QED
    BY <1>1, <1>3, <1>4, <2>2 DEF R!SentTooLate
<1>7. CASE reader # "failed"
  <2>1. Alive
    BY <1>1, <1>7 DEF Alive, RpcInv, WaitInv
  <2>2. NoMessage(u)
    BY <1>1, <2>1 DEF RpcInv, UnsentInv, Unsent, Callers
  <2>3. Stage(u) = "asked"
    BY <2>2, AskedStage DEF RpcInv, NoMessage, InHand
  <2>4. CallOf(u)' = [stage |-> "asked", kind |-> op[u].kind, event |-> op[u].event]
    BY <1>1, <1>2, <1>7, <2>3 DEF CallOf, Sending
  <2>5. R!To(u, "asked") /\ SessionOf = "open"
    BY <1>5, <2>1, <2>4 DEF SessionOf, Alive
  <2>6. QED
    BY <1>1, <1>3, <1>4, <2>5 DEF R!Sent
<1>8. QED
  BY <1>6, <1>7

LEMMA FlushDoomedIsTooLate ==
    ASSUME RpcInv, NEW u \in Users, FlushDoomed(u)
    PROVE  R!SentTooLate(u)
<1>1. /\ UNCHANGED <<s2c, acc, cur, reader, callback>>
      /\ pc[u] = "doomed" /\ pc'[u] = "idle"
      /\ \A v \in Users : v # u => pc'[v] = pc[v] /\ op'[v] = op[v]
  BY DEF FlushDoomed, Return, RpcInv, PlaceInv, TypeOK, stubVars, readerVars, serverVars
<1>2. reader = "failed"
  BY <1>1 DEF RpcInv, PlaceInv, CloseInv
<1>3. \A v \in Users : Stage(v)' = Stage(v)
  BY <1>1 DEF Stage, Answered
<1>4. /\ CallOf(u).stage = "sending" /\ CallOf(u)' = R!NoCall
      /\ \A v \in Users : v # u => CallOf(v)' = CallOf(v)
  BY <1>1, <1>3 DEF CallOf, Sending, R!NoCall
<1>5. SessionOf = "failed" /\ SessionOf' = SessionOf /\ ServerOf' = ServerOf
  BY <1>1, <1>2 DEF SessionOf, ServerOf
<1>6. QED
  BY <1>1, <1>4, <1>5 DEF R!SentTooLate

\* The oldest call returns.
LEMMA ReadReplyIsReturn ==
    ASSUME RpcInv, ReadReply
    PROVE  \E v \in Users : R!Return(v)
<1>u. PICK u : u = Head(pending)
  OBVIOUS
<1>1. /\ reader = "read" /\ s2c # <<>> /\ s2c \in Seq(Messages) /\ s2c' = Tail(s2c)
      /\ Head(s2c).kind \in {"reply", "error"}
      /\ UNCHANGED <<reader, acc, cur, callback>>
  BY DEF ReadReply, Arrives, RpcInv, PlaceInv, TypeOK, Messages, readerVars, serverVars
<1>2. Alive /\ RecordInv /\ MessageInv
  BY <1>1 DEF RpcInv, QueueInv, Alive
<1>3. pending # <<>> /\ pending \in Seq(Callers) /\ u = Head(s2c).from
  BY <1>1, <1>2, <1>u, OldestAnswered DEF RpcInv, PlaceInv, TypeOK
<1>4. Pend(pending, u, 1) /\ u \in Callers /\ Ans(s2c, u, 1)
  BY <1>1, <1>3, <1>u, PendTail, AnsTail
<1>5. u \in Users /\ pc[u] = "wait"
  <2>1. ~Unsent(u)
    BY <1>2, <1>4 DEF RpcInv, UnsentInv, NoMessage
  <2>2. QED
    BY <1>1, <1>2, <1>4, <2>1 DEF RecordInv, Unsent
<1>6. /\ pc'[u] \in {"idle", "unregister"}
      /\ \A v \in Users : v # u => pc'[v] = pc[v] /\ op'[v] = op[v]
  BY <1>5, <1>u DEF ReadReply, Return, Goto, AfterReply, RpcInv, PlaceInv, TypeOK
<1>7. \A v, k : v # u => (Answered(v, k)' <=> Answered(v, k))
  BY <1>1, <1>3, AnsweredTail
<1>8. \A v \in Users : v # u => Stage(v)' = Stage(v)
  BY <1>1, <1>7 DEF Stage
<1>9. Stage(u) \in {"executed", "refused"}
  BY <1>1, <1>3, AnsweredTail DEF Stage
<1>10. /\ CallOf(u).stage \in {"executed", "refused"}
       /\ CallOf(u)' = R!NoCall
       /\ \A v \in Users : v # u => CallOf(v)' = CallOf(v)
  BY <1>1, <1>5, <1>6, <1>8, <1>9 DEF CallOf, Sending, R!NoCall
<1>11. SessionOf = "open" /\ SessionOf' = SessionOf /\ ServerOf' = ServerOf
  BY <1>1 DEF SessionOf, ServerOf
<1>12. R!Return(u)
  BY <1>1, <1>5, <1>10, <1>11 DEF R!Return
<1>13. QED
  BY <1>5, <1>12

\* Nobody is in a call.
LEMMA NoCallsLeft ==
    ASSUME \A u \in Users : ~Sending(u) /\ pc[u] # "wait"
    PROVE  [u \in Users |-> CallOf(u)] = R!NoCalls
  BY DEF CallOf, R!NoCalls, R!NoCall

LEMMA NoCallsLeftNext ==
    ASSUME \A u \in Users : ~Sending(u)' /\ pc'[u] # "wait"
    PROVE  [u \in Users |-> CallOf(u)]' = R!NoCalls
  BY DEF CallOf, R!NoCalls, R!NoCall

\* The goodbye finishes the session.
LEMMA ReadGoodbyeEnds ==
    ASSUME RpcInv, ReadGoodbye
    PROVE  R!Finish
<1>1. /\ closed /\ Stopped /\ \A u \in Users : ~Sending(u) /\ pc[u] # "wait"
      /\ UNCHANGED <<acc, callback>> /\ reader = "read" /\ reader' = "ended" /\ pc' = pc
  BY NobodyWaitsAtGoodbye DEF ReadGoodbye, Arrives, RpcInv, serverVars, userVars, Sending
<1>2. /\ [u \in Users |-> CallOf(u)] = R!NoCalls
      /\ [u \in Users |-> CallOf(u)]' = R!NoCalls
  BY <1>1, NoCallsLeft, NoCallsLeftNext DEF Sending
<1>3. SessionOf = "open" /\ SessionOf' = "closed" /\ ServerOf = "stopped" /\ ServerOf' = ServerOf
  BY <1>1 DEF SessionOf, ServerOf, Stopped
<1>4. QED
  BY <1>1, <1>2, <1>3 DEF R!Finish

\* An event without a callback breaks the session: the calls that were sent end.
LEMMA LookupBreaks ==
    ASSUME RpcInv, Lookup, got \notin registered
    PROVE  R!Break
<1>1. UNCHANGED <<acc, callback>> /\ reader = "lookup" /\ reader' = "failed" /\ FailAll(Nobody)
  BY DEF Lookup, ReaderFails, serverVars
<1>2. Alive /\ RecordInv
  BY <1>1 DEF Alive, RpcInv, QueueInv
<1>3. ASSUME NEW u \in Users
      PROVE  CallOf(u)' = IF CallOf(u).stage = "sending" THEN CallOf(u) ELSE R!NoCall
  <2> DEFINE owners == {pending[i] : i \in DOMAIN pending}
  <2>1. /\ pc[u] \in {"flush", "wait"} => u \in owners
        /\ u \in owners => pc[u] \in {"flush", "wait"}
    <3>1. DOMAIN pending \subseteq Nat
      BY DEF RpcInv, PlaceInv, TypeOK
    <3>2. QED
      BY <1>2, <1>3, <3>1, NamesAssumption DEF RpcInv, WaitInv, RecordInv, Pend, Callers
  <2>2. u # Nobody /\ pc[u] # "doomed"
    BY <1>1, <1>3, NamesAssumption DEF RpcInv, PlaceInv, CloseInv
  <2>3. /\ pc'[u] = IF u \in owners /\ pc[u] # "flush" THEN "idle"
                    ELSE IF u \in owners THEN "doomed" ELSE pc[u]
        /\ op'[u] = IF u \in owners /\ pc[u] # "flush" THEN Idle ELSE op[u]
    BY <1>1, <1>3, <2>2 DEF FailAll
  <2> HIDE DEF owners
  <2>4. CASE Sending(u)
    <3>1. pc'[u] \in {"push", "doomed"} /\ op'[u] = op[u]
      BY <2>1, <2>2, <2>3, <2>4 DEF Sending
    <3>2. QED
      BY <2>4, <3>1 DEF CallOf, Sending
  <2>5. CASE ~Sending(u)
    <3>1. pc'[u] \notin {"push", "flush", "doomed", "wait"}
      BY <2>1, <2>3, <2>5 DEF Sending
    <3>2. CallOf(u).stage # "sending"
      BY <2>5 DEF CallOf, Stage
    <3>3. QED
      BY <3>1, <3>2 DEF CallOf, Sending, R!NoCall
  <2>6. QED
    BY <2>4, <2>5
<1>4. SessionOf = "open" /\ SessionOf' = "failed" /\ ServerOf' = ServerOf
  BY <1>1 DEF SessionOf, ServerOf
<1>5. QED
  BY <1>1, <1>3, <1>4 DEF R!Break

\* A call that is refused lets the stranded ones go.
LEMMA SendRefusedReleases ==
    ASSUME RpcInv, NEW u \in Users, SendRefused(u)
    PROVE  R!Release \/ UNCHANGED R!vars
<1>1. /\ UNCHANGED <<reader, acc, callback>> /\ reader \in {"failed", "ended"}
      /\ callMtx = Nobody /\ FailAll(u)
  BY NamesAssumption
     DEF SendRefused, Running, Alive, RpcInv, PlaceInv, CloseInv, TypeOK, readerVars, serverVars
<1>2. \A v \in Users : pc[v] \notin {"push", "flush", "doomed"}
  BY <1>1, NamesAssumption DEF RpcInv, PlaceInv, CloseInv
<1>3. \A v \in Users : ~Sending(v)' /\ pc'[v] # "wait"
  <2>1. \A v \in Users : pc'[v] # "wait"
    BY <1>1, FailAllWaits DEF RpcInv
  <2>2. \A v \in Users : pc'[v] \in {"idle", pc[v]}
    BY <1>1, <1>2 DEF FailAll
  <2>3. QED
    BY <1>2, <2>1, <2>2 DEF Sending
<1>4. [v \in Users |-> CallOf(v)]' = R!NoCalls
  BY <1>3, NoCallsLeftNext
<1>5. SessionOf' = SessionOf /\ ServerOf' = ServerOf
  BY <1>1 DEF SessionOf, ServerOf
<1>6. CASE reader = "failed"
  <2>1. \A v \in Users : CallOf(v).stage # "sending"
    BY <1>2 DEF CallOf, Sending, Stage
  <2>2. QED
    BY <1>1, <1>4, <1>5, <1>6, <2>1 DEF R!Release, SessionOf
<1>7. CASE reader = "ended"
  <2>1. \A v \in Users : ~Sending(v) /\ pc[v] # "wait"
    BY <1>2, <1>7 DEF RpcInv, WaitInv, Sending
  <2>2. [v \in Users |-> CallOf(v)] = R!NoCalls
    BY <2>1, NoCallsLeft
  <2>3. QED
    BY <1>1, <1>4, <1>5, <2>2 DEF R!vars
<1>8. QED
  BY <1>1, <1>6, <1>7

\* What the server has in hand is the call of a thread that waits, or one of the reading
\* thread.
LEMMA CallInHand ==
    ASSUME RpcInv, Alive, acc \in {"service", "reply"}
    PROVE  \/ /\ cur.from \in Users /\ pc[cur.from] = "wait"
              /\ cur.kind = op[cur.from].kind /\ cur.event = op[cur.from].event
              /\ \A p \in Nat : ~Ans(s2c, cur.from, p)
           \/ cur.from \notin Users /\ cur.kind = "call"
<1> DEFINE u == cur.from
<1>1. InHand(u) /\ u \in Callers
  BY DEF InHand, RpcInv, PlaceInv, CurInv, Requests
<1>2. RecordInv /\ MessageInv /\ Says(u, cur)
  BY <1>1 DEF RpcInv, QueueInv, RequestInv
<1>3. \A p \in Nat : ~Ans(s2c, u, p)
  BY <1>1, <1>2 DEF MessageInv
<1>4. PICK i \in Nat : Pend(pending, u, i)
  BY <1>1, <1>2 DEF MessageInv
<1>5. (u \in Users /\ pc[u] = "wait") \/ u = Reader
  <2>1. ~Unsent(u)
    BY <1>1 DEF RpcInv, UnsentInv, NoMessage
  <2>2. QED
    BY <1>1, <1>2, <1>4, <2>1 DEF RecordInv, Unsent
<1>6. QED
  BY <1>2, <1>3, <1>5, NamesAssumption DEF Says

\* The service carries out what was asked; after a failure, what nobody waits for.
LEMMA ServeExecutes ==
    ASSUME RpcInv, Serve
    PROVE  (\E v \in Users : R!Execute(v)) \/ R!Late \/ UNCHANGED R!vars
<1>u. PICK u : u = cur.from
  OBVIOUS
<1>1. /\ acc = "service" /\ acc' = "reply"
      /\ UNCHANGED <<pc, op, reader, s2c, cur>>
  BY DEF Serve, userVars, readerVars
<1>2. SessionOf' = SessionOf /\ ServerOf = "serving" /\ ServerOf' = ServerOf
  BY <1>1 DEF SessionOf, ServerOf
<1>3. \A v \in Users : v # u => Stage(v)' = Stage(v)
  BY <1>1, <1>u DEF Stage, Answered
<1>4. CASE Alive /\ u \in Users
  <2>1. /\ pc[u] = "wait" /\ cur.kind = op[u].kind /\ cur.event = op[u].event
        /\ \A p \in Nat : ~Ans(s2c, u, p)
    BY <1>1, <1>4, <1>u, CallInHand
  <2>2. Stage(u) = "asked" /\ Stage(u)' = "executed"
    BY <1>1, <1>u, <2>1, AskedStage DEF RpcInv, Stage
  <2>3. /\ CallOf(u) = [stage |-> "asked", kind |-> cur.kind, event |-> cur.event]
        /\ CallOf(u)' = [stage |-> "executed", kind |-> cur.kind, event |-> cur.event]
        /\ \A v \in Users : v # u => CallOf(v)' = CallOf(v)
    BY <1>1, <1>3, <1>4, <2>1, <2>2 DEF CallOf, Sending, Alive
  <2>4. \/ cur.kind = "call" /\ UNCHANGED callback
        \/ cur.kind = "subscribe" /\ callback' = callback \cup {cur.event}
        \/ cur.kind = "unsubscribe" /\ callback' = callback \ {cur.event}
    BY DEF Serve
  <2>5. SessionOf = "open"
    BY <1>4 DEF SessionOf, Alive
  <2>6. R!To(u, "executed")
    <3>1. /\ CallOf(u).kind = cur.kind /\ CallOf(u).event = cur.event
          /\ [v \in Users |-> CallOf(v)][u] = CallOf(u)
      BY <1>4, <2>3
    <3>2. QED
      BY <1>4, <2>3, <3>1 DEF R!To
  <2>7. R!Execute(u)
    BY <1>2, <1>4, <2>3, <2>4, <2>5, <2>6 DEF R!Execute
  <2>8. QED
    BY <1>4, <2>7
<1>5. CASE Alive /\ u \notin Users
  <2>1. cur.kind = "call"
    BY <1>1, <1>5, <1>u, CallInHand
  <2>2. callback' = callback
    BY <2>1 DEF Serve
  <2>3. \A v \in Users : CallOf(v)' = CallOf(v)
    BY <1>1, <1>2, <1>3, <1>5, SameCalls DEF Sending
  <2>4. QED
    BY <1>2, <2>2, <2>3, Stutter
<1>6. CASE ~Alive
  <2>1. reader = "failed"
    BY <1>1, <1>6 DEF RpcInv, ByeInv, Alive, Stopped
  <2>2. \A v \in Users : CallOf(v)' = CallOf(v)
    BY <1>1, <1>2, <2>1, SameCalls DEF Sending
  <2>3. [v \in Users |-> CallOf(v)]' = [v \in Users |-> CallOf(v)]
    BY <2>2
  <2>4. callback' \in SUBSET Events
    BY NextPlaceInv DEF RpcInv, PlaceInv, TypeOK, Serve, CurInv, Requests
  <2>5. SessionOf = "failed"
    BY <2>1 DEF SessionOf
  <2>6. QED
    BY <1>2, <2>3, <2>4, <2>5 DEF R!Late
<1>7. QED
  BY <1>4, <1>5, <1>6

\* The reply tells what has been done, an error that it has not.
LEMMA ReplyRefuses ==
    ASSUME RpcInv, Reply
    PROVE  (\E v \in Users : R!Refuse(v)) \/ UNCHANGED R!vars
<1>u. PICK u : u = cur.from
  OBVIOUS
<1>1. PICK k \in {"reply", "error"} :
        /\ s2c' = Append(s2c, [kind |-> k, event |-> cur.event, from |-> cur.from])
        /\ \/ acc = "reply" /\ k = "reply"
           \/ acc = "service" /\ k = "error"
  BY DEF Reply, Write
<1>2. /\ acc' = "read" /\ acc \in {"service", "reply"}
      /\ UNCHANGED <<pc, op, reader, callback>>
      /\ s2c \in Seq(Messages)
  BY DEF Reply, userVars, readerVars, RpcInv, PlaceInv, TypeOK, Messages
<1>3. SessionOf' = SessionOf /\ ServerOf = "serving" /\ ServerOf' = ServerOf
  BY <1>2 DEF SessionOf, ServerOf
<1>4. \A v, j : Answered(v, j)' <=> (Answered(v, j) \/ (k = j /\ u = v))
  BY <1>1, <1>2, <1>u, AnsweredAppend
<1>5. \A v \in Users : v # u => Stage(v)' = Stage(v)
  BY <1>2, <1>4, <1>u DEF Stage
<1>6. CASE ~Alive
  <2>1. \A v \in Users : pc[v] = "wait" => reader = "failed"
    BY <1>6 DEF RpcInv, WaitInv, Alive
  <2>2. QED
    BY <1>2, <1>3, <2>1, SameCalls, Stutter DEF Sending
<1>7. CASE Alive /\ u \notin Users
  BY <1>2, <1>3, <1>5, <1>7, SameCalls, Stutter DEF Sending
<1>8. CASE Alive /\ u \in Users
  <2>1. pc[u] = "wait" /\ \A p \in Nat : ~Ans(s2c, u, p)
    BY <1>2, <1>8, <1>u, CallInHand
  <2>2. CASE k = "reply"
    <3>1. Stage(u) = "executed" /\ Stage(u)' = "executed"
      BY <1>1, <1>4, <1>u, <2>2 DEF Stage
    <3>2. QED
      BY <1>2, <1>3, <1>5, <3>1, SameCalls, Stutter DEF Sending
  <2>3. CASE k = "error"
    <3>1. acc = "service"
      BY <1>1, <2>3
    <3>2. Stage(u) = "asked" /\ ~Answered(u, "reply")
      BY <2>1, <3>1, AskedStage DEF RpcInv
    <3>3. Stage(u)' = "refused"
      BY <1>2, <1>4, <2>3, <3>2 DEF Stage
    <3>4. /\ CallOf(u) = [stage |-> "asked", kind |-> op[u].kind, event |-> op[u].event]
          /\ CallOf(u)' = [stage |-> "refused", kind |-> op[u].kind, event |-> op[u].event]
          /\ \A v \in Users : v # u => CallOf(v)' = CallOf(v)
      BY <1>2, <1>5, <1>8, <2>1, <3>2, <3>3 DEF CallOf, Sending, Alive
    <3>5. SessionOf = "open"
      BY <1>8 DEF SessionOf, Alive
    <3>6. R!To(u, "refused")
      <4>1. /\ CallOf(u).kind = op[u].kind /\ CallOf(u).event = op[u].event
            /\ [v \in Users |-> CallOf(v)][u] = CallOf(u)
        BY <1>8, <3>4
      <4>2. QED
        BY <1>8, <3>4, <4>1 DEF R!To
    <3>7. R!Refuse(u)
      BY <1>2, <1>3, <1>8, <3>4, <3>5, <3>6 DEF R!Refuse
    <3>8. QED
      BY <1>8, <3>7
  <2>4. QED
    BY <2>2, <2>3
<1>9. QED
  BY <1>6, <1>7, <1>8

LEMMA InitMaps == Init => R!Init
<1> SUFFICES ASSUME Init PROVE R!Init
  OBVIOUS
<1>1. [u \in Users |-> CallOf(u)] = R!NoCalls
  BY NoCallsLeft DEF Init, Sending
<1>2. SessionOf = "open" /\ ServerOf = "serving" /\ callback = {}
  BY DEF Init, SessionOf, ServerOf
<1>3. QED
  BY <1>1, <1>2 DEF R!Init

LEMMA NextMaps == RpcInv /\ [Next]_vars => [R!Next]_R!vars
<1> SUFFICES ASSUME RpcInv, [Next]_vars PROVE [R!Next]_R!vars
  OBVIOUS
<1> USE DEF stubVars, closeVars, readerVars, serverVars, userVars
<1>1. ASSUME NEW u \in Users, Call(u) \/ Close(u) \/ SetCb(u) \/ Register(u) \/ Unregister(u)
                               \/ ClearCb(u) \/ Push(u) \/ CloseStart(u) \/ Join(u) \/ SayBye(u)
             \/ \E e \in Events : Subscribe(u, e) \/ Unsubscribe(u, e)
      PROVE  UNCHANGED R!vars
  <2>1. /\ UNCHANGED <<reader, acc, cur, s2c, callback>>
        /\ \A v \in Users : v # u => pc'[v] = pc[v] /\ op'[v] = op[v]
        /\ \/ pc[u] = "push" /\ pc'[u] = "flush" /\ op' = op
           \/ /\ pc[u] \notin {"push", "flush", "doomed", "wait"}
              /\ pc'[u] \notin {"push", "flush", "doomed", "wait"}
    BY <1>1 DEF Call, Close, SetCb, Register, Unregister, ClearCb, Push, CloseStart, Join, Subscribe,
                Unsubscribe, SayBye, Begin, Goto, Return, RpcInv, PlaceInv, TypeOK
  <2>2. \A v \in Users : Stage(v)' = Stage(v)
    BY <2>1 DEF Stage, Answered
  <2>3. SessionOf' = SessionOf /\ ServerOf' = ServerOf
    BY <2>1 DEF SessionOf, ServerOf
  <2>4. QED
    BY <2>1, <2>2, <2>3, SameCalls, Stutter DEF Sending
<1>2. ASSUME NEW u \in Users, CheckRunning(u) PROVE R!Next
  <2>1. op[u].kind \in {"call", "subscribe", "unsubscribe"} /\ op[u].event \in Events \cup {Nobody}
    BY <1>2 DEF CheckRunning, RpcInv, PlaceInv, OpInv, TypeOK
  <2>2. QED
    BY <1>2, <2>1, CheckRunningIsAsk DEF R!Next
<1>17. ASSUME NEW u \in Users, Flush(u) PROVE R!Next
  BY <1>17, FlushIsSent DEF R!Next
<1>18. ASSUME NEW u \in Users, FlushDoomed(u) PROVE R!Next
  BY <1>18, FlushDoomedIsTooLate DEF R!Next
<1>3. ASSUME NEW u \in Users, SendRefused(u) PROVE R!Next \/ UNCHANGED R!vars
  BY <1>3, SendRefusedReleases DEF R!Next
<1>4. ASSUME ReadReply PROVE R!Next
  BY <1>4, ReadReplyIsReturn DEF R!Next
<1>5. ASSUME ReadEvent PROVE UNCHANGED R!vars
  <2>1. /\ s2c \in Seq(Messages) /\ s2c # <<>> /\ s2c' = Tail(s2c) /\ Head(s2c).kind = "event"
        /\ reader = "read" /\ reader' = "lookup"
        /\ UNCHANGED <<pc, op, acc, cur, callback>>
    BY <1>5 DEF ReadEvent, Arrives, RpcInv, PlaceInv, TypeOK, Messages
  <2>2. \A u : \A k \in {"reply", "error"} : Answered(u, k)' <=> Answered(u, k)
    BY <2>1, AnsweredTail
  <2>3. \A u \in Users : Stage(u)' = Stage(u)
    BY <2>1, <2>2 DEF Stage
  <2>4. SessionOf' = SessionOf /\ ServerOf' = ServerOf
    BY <2>1 DEF SessionOf, ServerOf
  <2>5. QED
    BY <2>1, <2>3, <2>4, SameCalls, Stutter DEF Sending
<1>6. ASSUME ReadGoodbye PROVE R!Next
  BY <1>6, ReadGoodbyeEnds DEF R!Next
<1>7. ASSUME Lookup, got \notin registered PROVE R!Next
  BY <1>7, LookupBreaks DEF R!Next
<1>8. ASSUME (Lookup /\ got \in registered) \/ CallbackReturns \/ CallbackCalls
             \/ CallbackFlush \/ Request \/ \E e \in Events : Emit(e)
      PROVE  UNCHANGED R!vars
  <2>1. /\ UNCHANGED <<pc, op, s2c, callback>>
        /\ SessionOf' = SessionOf /\ ServerOf' = ServerOf
    BY <1>8 DEF Lookup, CallbackReturns, CallbackCalls, CallbackFlush, Request, Emit, SessionOf, ServerOf
  <2>2. (acc' = acc /\ cur' = cur) \/ (acc # "reply" /\ acc' # "reply")
    BY <1>8 DEF Lookup, CallbackReturns, CallbackCalls, CallbackFlush, Request, Emit
  <2>3. \A u \in Users : Stage(u)' = Stage(u)
    BY <2>1, <2>2 DEF Stage, Answered
  <2>4. QED
    BY <2>1, <2>3, SameCalls, Stutter DEF Sending
<1>9. ASSUME DecodeFails PROVE R!Next
  <2>1. /\ UNCHANGED <<pc, op, s2c, callback, reader>>
        /\ acc = "service" /\ acc' = "unsubAll"
    BY <1>9 DEF DecodeFails
  <2>2. \A u \in Users : Stage(u)' = Stage(u)
    BY <2>1 DEF Stage, Answered
  <2>3. \A u \in Users : CallOf(u)' = CallOf(u)
    BY <2>1, <2>2, SameCalls DEF Sending, SessionOf
  <2>4. SessionOf' = SessionOf /\ ServerOf = "serving" /\ ServerOf' = "stopped"
    BY <2>1 DEF SessionOf, ServerOf
  <2>5. QED
    BY <2>1, <2>3, <2>4 DEF R!Next, R!Stop
<1>10. ASSUME Serve PROVE R!Next \/ UNCHANGED R!vars
  BY <1>10, ServeExecutes DEF R!Next
<1>11. ASSUME Reply PROVE R!Next \/ UNCHANGED R!vars
  BY <1>11, ReplyRefuses DEF R!Next
<1>12. ASSUME AnswerBye PROVE R!Next
  <2>1. /\ UNCHANGED <<pc, op, callback, reader>>
        /\ acc = "goodbye" /\ acc' = "unsubAll"
        /\ s2c \in Seq(Messages) /\ s2c' = Append(s2c, Goodbye)
    BY <1>12 DEF AnswerBye, Write, Goodbye, RpcInv, PlaceInv, TypeOK, Messages
  <2>2. \A u : \A k \in {"reply", "error"} : Answered(u, k)' <=> Answered(u, k)
    BY <2>1, AnsweredAppend DEF Goodbye
  <2>3. \A u \in Users : Stage(u)' = Stage(u)
    BY <2>1, <2>2 DEF Stage
  <2>4. \A u \in Users : CallOf(u)' = CallOf(u)
    BY <2>1, <2>3, SameCalls DEF Sending, SessionOf
  <2>5. SessionOf' = SessionOf /\ ServerOf = "serving" /\ ServerOf' = "stopped"
    BY <2>1 DEF SessionOf, ServerOf
  <2>6. QED
    BY <2>1, <2>4, <2>5 DEF R!Next, R!Stop
<1>13. ASSUME UnsubscribeAll PROVE R!Next
  <2>1. /\ UNCHANGED <<pc, op, reader, s2c>>
        /\ acc = "unsubAll" /\ acc' \in {"unsubAll", "listen"}
        /\ callback' \in SUBSET callback
    BY <1>13 DEF UnsubscribeAll
  <2>2. \A u \in Users : Stage(u)' = Stage(u)
    BY <2>1 DEF Stage, Answered
  <2>3. \A u \in Users : CallOf(u)' = CallOf(u)
    BY <2>1, <2>2, SameCalls DEF Sending, SessionOf
  <2>4. SessionOf' = SessionOf /\ ServerOf = "stopped" /\ ServerOf' = ServerOf
    BY <2>1 DEF SessionOf, ServerOf
  <2>5. QED
    BY <2>1, <2>3, <2>4 DEF R!Next, R!Drop
<1>14. ASSUME NEW e \in Events, SendEvent(e) PROVE UNCHANGED R!vars
  <2> DEFINE m == [kind |-> "event", event |-> e, from |-> Nobody]
  <2>1. /\ UNCHANGED <<pc, op, callback, reader, acc, cur>>
        /\ s2c \in Seq(Messages) /\ s2c' = Append(s2c, m) /\ m.kind = "event"
    BY <1>14 DEF SendEvent, Write, RpcInv, PlaceInv, TypeOK, Messages
  <2> HIDE DEF m
  <2>2. \A u : \A k \in {"reply", "error"} : Answered(u, k)' <=> Answered(u, k)
    BY <2>1, AnsweredAppend
  <2>3. \A u \in Users : Stage(u)' = Stage(u)
    BY <2>1, <2>2 DEF Stage
  <2>4. SessionOf' = SessionOf /\ ServerOf' = ServerOf
    BY <2>1 DEF SessionOf, ServerOf
  <2>5. QED
    BY <2>1, <2>3, <2>4, SameCalls, Stutter DEF Sending
<1>15. CASE UNCHANGED vars
  <2>1. \A u \in Users : Stage(u)' = Stage(u)
    BY <1>15 DEF vars, Stage, Answered
  <2>2. SessionOf' = SessionOf /\ ServerOf' = ServerOf
    BY <1>15 DEF vars, SessionOf, ServerOf
  <2>3. QED
    BY <1>15, <2>1, <2>2, SameCalls, Stutter DEF vars, Sending
<1>16. QED
  BY <1>1, <1>2, <1>3, <1>4, <1>5, <1>6, <1>7, <1>8, <1>9, <1>10, <1>11, <1>12, <1>13,
     <1>14, <1>15, <1>17, <1>18 DEF Next, UserStep, ReaderStep, AccStep

----------------------------------------------------------------------------
\* Types of a session, for any threads, events, capacity and troubles.
THEOREM SystemTypeCorrect == Spec => []TypeOK
<1>1. PlaceInv => TypeOK
  BY DEF PlaceInv
<1>2. QED
  BY <1>1, InitPlaceInv, NextPlaceInv, InitQueueInv, NextQueueInv, InitUnsentInv, NextUnsentInv,
     PTL DEF Spec

\* A reply completes the call it answers, for any number of threads, in streams of any
\* capacity and with any troubles of the model, in which no write fails and a handler
\* reports once (client.cc:131-145, 439-483).
THEOREM RepliesMeetTheirCalls == Spec => []ReplyMeetsItsCall
<1>1. PlaceInv /\ QueueInv => ReplyMeetsItsCall
  <2>1. ASSUME PlaceInv, QueueInv, Alive PROVE ReplyMeetsItsCall
    BY <2>1, OldestAnswered DEF ReplyMeetsItsCall
  <2>2. QED
    BY <2>1 DEF ReplyMeetsItsCall, Alive
<1>2. QED
  BY <1>1, InitPlaceInv, NextPlaceInv, InitQueueInv, NextQueueInv, InitUnsentInv, NextUnsentInv,
     PTL DEF Spec

\* An event finds its callback as long as no two threads use one event at a time, and no
\* callback is replaced while it runs when no stub subscribes twice, for any threads,
\* events and capacities, of a service that serialises its emitters with subscribe and
\* unsubscribe (client.cc:212-226; plugin.cc:3018-3053, 3060-3085).
THEOREM EventsFindTheirCallbacks == Spec => []EventFindsCallback
<1>1. PlaceInv /\ EventInv => EventFindsCallback
  <2> SUFFICES ASSUME PlaceInv, EventInv, "share" \notin trouble,
                      reader \in {"lookup", "callback"}
               PROVE  /\ got \in registered /\ got \in stubCb
                      /\ "resubscribe" \notin trouble =>
                           \A u \in Users : pc[u] \in {"setCb", "clearCb"} => op[u].event # got
    BY DEF EventFindsCallback
  <2>1. StubInv
    BY DEF EventInv, Alive
  <2>2. Flowing(got)
    BY DEF Flowing
  <2>3. QED
    BY <2>1, <2>2 DEF StubInv, FlowInv, StubUser, PlaceInv, CurInv
<1>2. QED
  BY <1>1, InitPlaceInv, NextPlaceInv, InitQueueInv, NextQueueInv, InitUnsentInv, NextUnsentInv,
     InitRequestInv, NextRequestInv, InitEventInv, NextEventInv, PTL DEF Spec

\* A call is carried out once, as it was made and before it returns, close() finishes a
\* session in which no call is left, and a session that fails ends every call but the one
\* that is being sent, which may be stranded, for any threads, events, capacities and
\* troubles of the model, in which no write fails and a handler reports once
\* (client.cc:75-121, 126-145, 194-210, 295-317, 439-483; server_impl.cc:351-372;
\* plugin.cc:2544-2584).
THEOREM SystemImplementsRpc == Spec => ImplementsRpc
<1>1. Init => RpcInv /\ R!Init
  BY InitPlaceInv, InitQueueInv, InitUnsentInv, InitRequestInv, InitByeInv, InitWaitInv, InitMaps
     DEF RpcInv
<1>2. RpcInv /\ [Next]_vars => RpcInv'
  BY NextPlaceInv, NextQueueInv, NextUnsentInv, NextRequestInv, NextByeInv, NextWaitInv DEF RpcInv
<1>3. QED
  BY <1>1, <1>2, NextMaps, PTL DEF Spec, ImplementsRpc, R!Spec
==============================================================================
