-------------------------- MODULE EndpointsProofs --------------------------
(***************************************************************************)
(* Proofs about Endpoints, for every set of services, every choice of      *)
(* stubs and all method ids: the client's sums and the server's table give *)
(* a service the same place, so a call reaches its method.                 *)
(***************************************************************************)
EXTENDS Endpoints, SequenceTheorems, FiniteSetTheorems, WellFoundedInduction, TLAPS

Ats == UNION {{Dispatch(b)[k] : k \in 1..Len(b.methods)} : b \in Builds}
Entries == [service : Nat, at : Ats]
Count(i) == Len(services[i].methods)

\* Where service i begins, for i up to one more than the services appended.
StartOf(i) == IF i <= Len(starts) THEN starts[i] ELSE Len(table)

\* The server's table is its services' tables, each where starts says.
TableInv ==
    /\ table \in Seq(Entries)
    /\ StartOf(1) = 0
    /\ \A i \in 1..Len(starts) :
         /\ StartOf(i + 1) = starts[i] + Count(i)
         /\ \A k \in 1..Count(i) :
              /\ starts[i] + k <= Len(table)
              /\ table[starts[i] + k] = [service |-> i, at |-> Dispatch(services[i])[k]]
    /\ phase # "compile" => Len(starts) = Len(services)

\* The client's offset is one more than the start of the service it reads.
HelloInv ==
    /\ phase = "compile" => read = 0 /\ offset = 1
    /\ phase = "hello" => offset = StartOf(read + 1) + 1
    /\ \A s \in DOMAIN stubs : bound[s] # 0 =>
         /\ phase # "compile"
         /\ boundTo[s] \in 1..Len(services)
         /\ bound[s] = starts[boundTo[s]] + 1
         /\ services[boundTo[s]].uuid = stubs[s].uuid
         /\ Usable(stubs[s], services[boundTo[s]])

OffsetInv == TypeOK /\ TableInv /\ HelloInv

-----------------------------------------------------------------------------
\* What the assumption says of services and stubs.
LEMMA BuildTypes ==
  ASSUME NEW b \in Builds
  PROVE  /\ b.major \in Nat /\ b.minor \in Nat
         /\ b.methods \in Seq(Methods) /\ Len(b.methods) \in Nat
         /\ DOMAIN b.methods = 1..Len(b.methods)
         /\ \A p \in DOMAIN b.methods : b.methods[p].id \in Nat
<1>1. b.methods \in Seq(Methods)
  BY BuildsAssumption
<1>2. \A p \in DOMAIN b.methods : b.methods[p] \in Methods
  BY <1>1, LenProperties, ElementOfSeq
<1>3. QED
  BY <1>1, <1>2, LenProperties, BuildsAssumption

\* The first of some positions is one of them.
LEMMA FirstInProperties ==
  ASSUME NEW T \in SUBSET Nat, T # {}
  PROVE  FirstIn(T) \in T
<1> DEFINE Less == {ss \in Nat \X Nat : ss[1] < ss[2]}
<1>1. IsWellFoundedOn(Less, Nat)
  BY NatLessThanWellFounded DEF OpToRel
<1> HIDE DEF Less
<1>2. PICK t \in T : \A u \in T : <<u, t>> \notin Less
  BY <1>1, WFMin
<1>3. ASSUME NEW u \in T PROVE t <= u
  <2>1. u \in Nat /\ t \in Nat
    OBVIOUS
  <2>2. <<u, t>> \notin Less
    BY <1>2
  <2>3. ~(u < t)
    BY <2>1, <2>2 DEF Less
  <2>4. QED
    BY <2>1, <2>3
<1>4. QED
  BY <1>3 DEF FirstIn

\* What the server appends for one service is a sequence of entries.
LEMMA PartTypes ==
  ASSUME NEW i \in Nat, NEW b \in Builds
  PROVE  LET part == [k \in 1..Len(b.methods) |-> [service |-> i, at |-> Dispatch(b)[k]]]
         IN  part \in Seq(Entries) /\ Len(part) = Len(b.methods)
<1> DEFINE part == [k \in 1..Len(b.methods) |-> [service |-> i, at |-> Dispatch(b)[k]]]
<1>1. Len(b.methods) \in Nat
  BY BuildTypes
<1>2. \A k \in 1..Len(b.methods) : Dispatch(b)[k] \in Ats
  BY DEF Ats
<1>3. part \in [1..Len(b.methods) -> Entries]
  BY <1>2 DEF Entries
<1>4. part \in Seq(Entries)
  BY <1>1, <1>3, SeqDef
<1>5. DOMAIN part = 1..Len(b.methods)
  BY <1>3
<1>6. Len(part) = Len(b.methods)
  BY <1>1, <1>4, <1>5, LenProperties
<1>7. QED
  BY <1>4, <1>6

-----------------------------------------------------------------------------
\* Offsets and tables agree in every reachable state: the invariant is
\* inductive.
LEMMA OffsetInvInit == Init => OffsetInv
<1> SUFFICES ASSUME Init PROVE OffsetInv
  OBVIOUS
<1> USE DEF FirstEndpoint
<1>1. services \in Seq(Builds) /\ stubs \in Seq(Builds)
  <2>1. PICK list \in ServerLists : services = <<Discovery>> \o list
    BY DEF Init
  <2>2. <<Discovery>> \in Seq(Builds) /\ list \in Seq(Builds)
    BY BuildsAssumption
  <2>3. services \in Seq(Builds)
    BY <2>1, <2>2, ConcatProperties
  <2>4. QED
    BY <2>3, BuildsAssumption DEF Init
<1>2. Len(services) \in Nat
  BY <1>1
<1>3. table = <<>> /\ starts = <<>> /\ starts \in Seq(Nat) /\ table \in Seq(Entries)
      /\ Len(starts) = 0 /\ Len(table) = 0
  BY DEF Init
<1>4. TypeOK
  BY <1>1, <1>2, <1>3 DEF Init, TypeOK
<1>5. TableInv
  BY <1>3 DEF Init, TableInv, StartOf
<1>6. HelloInv
  BY DEF Init, HelloInv
<1>7. QED
  BY <1>4, <1>5, <1>6 DEF OffsetInv

\* One service more in the server's table.
LEMMA AppendServicePreserves ==
  ASSUME OffsetInv, AppendService
  PROVE  OffsetInv'
<1> DEFINE n == Len(starts)
           i == Len(starts) + 1
           b == services[i]
           part == [k \in 1..Len(b.methods) |-> [service |-> i, at |-> Dispatch(b)[k]]]
<1>1. /\ n \in Nat /\ Len(services) \in Nat /\ n < Len(services)
      /\ starts \in Seq(Nat) /\ table \in Seq(Entries) /\ Len(table) \in Nat
  BY DEF AppendService, OffsetInv, TypeOK, TableInv
<1>2. i \in 1..Len(services) /\ b \in Builds
  BY <1>1, ElementOfSeq DEF OffsetInv, TypeOK
<1>3. part \in Seq(Entries) /\ Len(part) = Len(b.methods) /\ Len(b.methods) \in Nat
  BY <1>1, <1>2, PartTypes, BuildTypes
<1>4. /\ table' \in Seq(Entries) /\ Len(table') = Len(table) + Len(b.methods)
      /\ \A j \in 1..Len(table) : table'[j] = table[j]
      /\ \A k \in 1..Len(b.methods) : table'[Len(table) + k] = part[k]
  <2>1. table' = table \o part
    BY DEF AppendService
  <2> HIDE DEF part
  <2>2. /\ table \o part \in Seq(Entries)
        /\ Len(table \o part) = Len(table) + Len(part)
        /\ \A j \in 1..Len(table) + Len(part) :
             (table \o part)[j] = IF j <= Len(table) THEN table[j] ELSE part[j - Len(table)]
    BY <1>1, <1>3, ConcatProperties
  <2>3. QED
    BY <1>1, <1>3, <2>1, <2>2
<1>5. /\ starts' \in Seq(Nat) /\ Len(starts') = n + 1
      /\ \A j \in 1..n : starts'[j] = starts[j]
      /\ starts'[n + 1] = Len(table)
  <2>1. starts' = Append(starts, Len(table))
    BY DEF AppendService
  <2>2. QED
    BY <1>1, <2>1, AppendProperties
<1>6. TypeOK'
  BY <1>1, <1>5 DEF OffsetInv, TypeOK, AppendService, compileVars, helloVars
<1>7. TableInv'
  <2>1. StartOf(1)' = 0
    BY <1>1, <1>5 DEF OffsetInv, TableInv, StartOf
  <2>2. ASSUME NEW j \in 1..Len(starts')
        PROVE  /\ StartOf(j + 1)' = starts'[j] + Count(j)'
               /\ \A k \in 1..Count(j)' :
                    /\ starts'[j] + k <= Len(table')
                    /\ table'[starts'[j] + k] =
                         [service |-> j, at |-> Dispatch(services'[j])[k]]
    <3>1. services' = services
      BY DEF AppendService, compileVars
    <3>2. CASE j = n + 1
      <4>1. StartOf(j + 1)' = Len(table')
        BY <1>1, <1>5, <3>2 DEF StartOf
      <4>2. starts'[j] = Len(table) /\ Count(j)' = Len(b.methods)
        BY <1>5, <3>1, <3>2 DEF Count
      <4>3. \A k \in 1..Len(b.methods) :
              part[k] = [service |-> j, at |-> Dispatch(services'[j])[k]]
        BY <3>1, <3>2
      <4>4. StartOf(j + 1)' = starts'[j] + Count(j)'
        BY <1>3, <1>4, <4>1, <4>2
      <4>5. ASSUME NEW k \in 1..Count(j)'
            PROVE  /\ starts'[j] + k <= Len(table')
                   /\ table'[starts'[j] + k] =
                        [service |-> j, at |-> Dispatch(services'[j])[k]]
        <5> DEFINE l == Len(table)  c == Len(b.methods)
        <5>1. k \in 1..c /\ l \in Nat /\ c \in Nat
          BY <1>1, <1>3, <4>2
        <5>2. Len(table') = l + c /\ starts'[j] = l /\ table'[l + k] = part[k]
          BY <1>4, <4>2, <5>1
        <5>3. part[k] = [service |-> j, at |-> Dispatch(services'[j])[k]]
          BY <4>3, <5>1
        <5> HIDE DEF l, c, part
        <5>4. starts'[j] + k <= Len(table')
          BY <5>1, <5>2
        <5>5. QED
          BY <5>2, <5>3, <5>4
      <4>6. QED
        BY <4>4, <4>5
    <3>3. CASE j \in 1..n
      <4>1. /\ StartOf(j + 1) = starts[j] + Count(j)
            /\ \A k \in 1..Count(j) :
                 /\ starts[j] + k <= Len(table)
                 /\ table[starts[j] + k] = [service |-> j, at |-> Dispatch(services[j])[k]]
        BY <3>3 DEF OffsetInv, TableInv
      <4>2. StartOf(j + 1)' = StartOf(j + 1)
        BY <1>1, <1>5, <3>3, SMTT(30) DEF StartOf
      <4>3. starts[j] \in Nat /\ starts'[j] = starts[j] /\ Count(j)' = Count(j)
        BY <1>1, <1>5, <3>1, <3>3, ElementOfSeq DEF Count
      <4>4. Count(j) \in Nat
        <5>1. j \in 1..Len(services)
          BY <1>1, <3>3
        <5>2. services[j] \in Builds
          BY <5>1, ElementOfSeq DEF OffsetInv, TypeOK
        <5>3. QED
          BY <5>2, BuildTypes DEF Count
      <4>5. ASSUME NEW k \in 1..Count(j)'
            PROVE  /\ starts'[j] + k <= Len(table')
                   /\ table'[starts'[j] + k] =
                        [service |-> j, at |-> Dispatch(services'[j])[k]]
        <5> DEFINE l == Len(table)  x == starts[j]  c == Len(b.methods)
        <5>1. k \in 1..Count(j) /\ k \in Nat \ {0} /\ c \in Nat /\ l \in Nat
          BY <1>1, <1>3, <4>3, <4>4
        <5>2. /\ x + k <= l /\ x \in Nat /\ starts'[j] = x
              /\ table[x + k] = [service |-> j, at |-> Dispatch(services[j])[k]]
          BY <4>1, <4>3, <5>1
        <5>3. Len(table') = l + c /\ \A q \in 1..l : table'[q] = table[q]
          BY <1>4
        <5> HIDE DEF l, x, c
        <5>4. x + k \in 1..l /\ x + k <= Len(table')
          BY <5>1, <5>2, <5>3
        <5>5. QED
          BY <3>1, <5>2, <5>3, <5>4
      <4>6. QED
        BY <4>1, <4>2, <4>3, <4>5
    <3>4. QED
      BY <1>1, <1>5, <3>2, <3>3
  <2>3. QED
    BY <1>1, <1>4, <1>5, <2>1, <2>2 DEF OffsetInv, TableInv, AppendService
<1>8. HelloInv'
  BY DEF OffsetInv, HelloInv, AppendService, compileVars, helloVars
<1>9. QED
  BY <1>6, <1>7, <1>8 DEF OffsetInv

\* The start of the next service, and its count, are numbers.
LEMMA StartTypes ==
  ASSUME OffsetInv, Len(starts) = Len(services), NEW i \in 1..Len(services)
  PROVE  /\ services[i] \in Builds /\ Count(i) \in Nat
         /\ starts[i] \in Nat /\ StartOf(i) = starts[i]
         /\ StartOf(i + 1) = starts[i] + Count(i)
<1>1. services[i] \in Builds /\ starts[i] \in Nat
  BY ElementOfSeq DEF OffsetInv, TypeOK
<1>2. QED
  BY <1>1, BuildTypes DEF Count, StartOf, OffsetInv, TableInv

\* One service of the hello.
LEMMA ReadServiceDefPreserves ==
  ASSUME OffsetInv, ReadServiceDef
  PROVE  OffsetInv'
<1> DEFINE i == read + 1
           def == services[read + 1]
           s == FirstIn(Matching(def))
<1>1. /\ phase = "hello" /\ read' = read + 1 /\ i \in 1..Len(services)
      /\ Len(services) \in Nat /\ read \in Nat
      /\ Len(starts) = Len(services) /\ offset = StartOf(i) + 1
  BY DEF ReadServiceDef, OffsetInv, TypeOK, TableInv, HelloInv
<1>2. /\ services[i] \in Builds /\ Count(i) \in Nat
      /\ starts[i] \in Nat /\ StartOf(i) = starts[i]
      /\ StartOf(i + 1) = starts[i] + Count(i)
  BY <1>1, StartTypes
<1>3. UNCHANGED <<services, version, stubs, table, starts>>
  BY DEF ReadServiceDef, compileVars, tableVars
<1>4. TableInv'
  BY <1>1, <1>3 DEF OffsetInv, TableInv, Count, StartOf
<1>5. StartOf(read + 1)' = StartOf(i + 1)
  BY <1>1, <1>3 DEF StartOf
<1>6. read' \in 0..Len(services)
  BY <1>1
<1>7. CASE phase' = phase /\ offset' = offset + Len(def.methods)
                          /\ UNCHANGED <<bound, boundTo>>
  <2>1. offset' = StartOf(read + 1)' + 1 /\ offset' \in Nat \ {0}
    BY <1>1, <1>2, <1>5, <1>7 DEF Count
  <2>2. HelloInv'
    BY <1>1, <1>3, <1>7, <2>1 DEF OffsetInv, HelloInv
  <2>3. TypeOK'
    BY <1>3, <1>6, <1>7, <2>1 DEF OffsetInv, TypeOK
  <2>4. QED
    BY <1>4, <2>2, <2>3 DEF OffsetInv
<1>8. CASE phase' = "failed" /\ UNCHANGED <<offset, bound, boundTo>>
  <2>1. HelloInv'
    BY <1>1, <1>3, <1>8 DEF OffsetInv, HelloInv
  <2>2. TypeOK'
    BY <1>3, <1>6, <1>8 DEF OffsetInv, TypeOK
  <2>3. QED
    BY <1>4, <2>1, <2>2 DEF OffsetInv
<1>9. CASE /\ Matching(def) # {} /\ Usable(stubs[s], def)
           /\ bound' = [bound EXCEPT ![s] = offset]
           /\ boundTo' = [boundTo EXCEPT ![s] = read + 1]
           /\ offset' = offset + Len(def.methods)
           /\ UNCHANGED phase
  <2>1. s \in Matching(def)
    <3>1. Matching(def) \subseteq Nat
      BY LenProperties DEF Matching, OffsetInv, TypeOK
    <3>2. QED
      BY <1>9, <3>1, FirstInProperties
  <2>2. s \in DOMAIN stubs /\ stubs[s].uuid = def.uuid
    BY <2>1 DEF Matching
  <2>3. offset \in Nat \ {0} /\ offset = starts[i] + 1
    BY <1>1, <1>2
  <2>4. offset' = StartOf(read + 1)' + 1 /\ offset' \in Nat \ {0}
    BY <1>1, <1>2, <1>5, <1>9, <2>3 DEF Count
  <2>5. /\ bound' \in [DOMAIN stubs -> Nat] /\ boundTo' \in [DOMAIN stubs -> 0..Len(services)]
        /\ bound'[s] = offset /\ boundTo'[s] = i
        /\ \A t \in DOMAIN stubs : t # s => bound'[t] = bound[t] /\ boundTo'[t] = boundTo[t]
    BY <1>1, <1>9, <2>2, <2>3 DEF OffsetInv, TypeOK
  <2>6. TypeOK'
    BY <1>3, <1>6, <1>9, <2>4, <2>5 DEF OffsetInv, TypeOK
  <2>7. ASSUME NEW t \in DOMAIN stubs', bound'[t] # 0
        PROVE  /\ phase' # "compile"
               /\ boundTo'[t] \in 1..Len(services')
               /\ bound'[t] = starts'[boundTo'[t]] + 1
               /\ services'[boundTo'[t]].uuid = stubs'[t].uuid
               /\ Usable(stubs'[t], services'[boundTo'[t]])
    <3>1. CASE t = s
      BY <1>1, <1>3, <1>9, <2>2, <2>3, <2>5, <3>1
    <3>2. CASE t # s
      BY <1>1, <1>3, <1>9, <2>5, <2>7, <3>2 DEF OffsetInv, HelloInv
    <3>3. QED
      BY <3>1, <3>2
  <2>8. HelloInv'
    BY <1>1, <1>9, <2>4, <2>7 DEF HelloInv, Usable
  <2>9. QED
    BY <1>4, <2>6, <2>8 DEF OffsetInv
<1>10. QED
  BY <1>7, <1>8, <1>9 DEF ReadServiceDef

\* Steps that leave the tables, the offsets and the phase's past alone.
LEMMA OtherStepsPreserve ==
  ASSUME OffsetInv, UNCHANGED <<compileVars, tableVars, helloVars>>,
         \/ phase' = phase
         \/ phase' = "failed" /\ phase \in {"hello", "running"}
         \/ phase' = "running" /\ phase = "hello"
  PROVE  OffsetInv'
<1> USE DEF compileVars, tableVars, helloVars
<1>1. TypeOK'
  BY DEF OffsetInv, TypeOK
<1>2. TableInv'
  BY DEF OffsetInv, TableInv, Count, StartOf
<1>3. HelloInv'
  BY DEF OffsetInv, HelloInv, StartOf
<1>4. QED
  BY <1>1, <1>2, <1>3 DEF OffsetInv

\* Every step of the specification keeps the tables and offsets in agreement.
LEMMA OffsetInvNext == OffsetInv /\ [Next]_vars => OffsetInv'
<1> SUFFICES ASSUME OffsetInv, [Next]_vars PROVE OffsetInv'
  OBVIOUS
<1>1. CASE AppendService
  BY <1>1, AppendServicePreserves
<1>2. CASE ReadVersion
  <2>1. read = 0 /\ offset = 1 /\ StartOf(1) = 0
    BY <1>2 DEF ReadVersion, OffsetInv, HelloInv, TableInv
  <2>2. UNCHANGED <<compileVars, tableVars, helloVars>> /\ Len(starts) = Len(services)
        /\ phase' \in {"hello", "failed"} /\ phase = "compile"
    BY <1>2 DEF ReadVersion
  <2>3. TypeOK'
    BY <2>2 DEF OffsetInv, TypeOK, compileVars, tableVars, helloVars
  <2>4. TableInv'
    BY <2>2 DEF OffsetInv, TableInv, Count, StartOf, compileVars, tableVars
  <2>5. HelloInv'
    BY <2>1, <2>2 DEF OffsetInv, HelloInv, StartOf, compileVars, tableVars, helloVars
  <2>6. QED
    BY <2>3, <2>4, <2>5 DEF OffsetInv
<1>3. CASE ReadServiceDef
  BY <1>3, ReadServiceDefPreserves
<1>4. CASE EndHello
  BY <1>4, OtherStepsPreserve DEF EndHello
<1>5. CASE StubStep
  BY <1>5, OtherStepsPreserve DEF StubStep, StubCall, StubSubscribe, StubUnsubscribe
<1>6. CASE CliStep
  BY <1>6, OtherStepsPreserve DEF CliStep, CliCall, CliSkip, CliMatch, CliGiveUp
<1>7. CASE HandleRequest
  BY <1>7, OtherStepsPreserve DEF HandleRequest
<1>8. CASE \E x \in subscribed : SendEvent(x)
  BY <1>8, OtherStepsPreserve DEF SendEvent
<1>9. CASE UNCHANGED vars
  BY <1>9, OtherStepsPreserve DEF vars
<1>10. QED
  BY <1>1, <1>2, <1>3, <1>4, <1>5, <1>6, <1>7, <1>8, <1>9 DEF Next, Hello

\* The types of the tables and offsets (server.cc:81-94, client.cc:602-650):
\* no stub that is connected has offset 0, the goodbye.
THEOREM TypeCorrect == Spec => []TypeOK
<1>1. OffsetInv => TypeOK
  BY DEF OffsetInv
<1>2. QED
  BY OffsetInvInit, OffsetInvNext, <1>1, PTL DEF Spec

\* A connected stub's offset is where the server's table has its service
\* (client.cc:607-625, server.cc:81-94), whatever services the server has and
\* whichever of them the client has stubs for.
THEOREM OffsetsAlwaysAgree == Spec => []OffsetsAgree
<1>1. OffsetInv => OffsetsAgree
  <2> SUFFICES ASSUME OffsetInv, NEW s \in DOMAIN stubs, bound[s] # 0
               PROVE  LET i == boundTo[s]
                          b == services[i]
                      IN  /\ b.uuid = stubs[s].uuid /\ b.major = stubs[s].major
                          /\ stubs[s].minor <= b.minor
                          /\ \A k \in 1..Len(b.methods) :
                               table[bound[s] + k - 1] =
                                 [service |-> i, at |-> Dispatch(b)[k]]
    BY DEF OffsetsAgree
  <2> DEFINE i == boundTo[s]
             b == services[boundTo[s]]
  <2>1. /\ i \in 1..Len(services) /\ Len(starts) = Len(services)
        /\ bound[s] = starts[i] + 1 /\ b.uuid = stubs[s].uuid /\ Usable(stubs[s], b)
    BY DEF OffsetInv, HelloInv, TableInv
  <2>2. starts[i] \in Nat /\ Count(i) \in Nat
    BY <2>1, StartTypes
  <2>3. ASSUME NEW k \in 1..Len(b.methods)
        PROVE  table[bound[s] + k - 1] = [service |-> i, at |-> Dispatch(b)[k]]
    <3>1. table[starts[i] + k] = [service |-> i, at |-> Dispatch(b)[k]]
      BY <2>1 DEF OffsetInv, TableInv, Count
    <3>2. bound[s] + k - 1 = starts[i] + k
      BY <2>1, <2>2
    <3>3. QED
      BY <3>1, <3>2
  <2>4. QED
    BY <2>1, <2>3 DEF Usable
<1>2. QED
  BY OffsetInvInit, OffsetInvNext, <1>1, PTL DEF Spec

-----------------------------------------------------------------------------
\* Ranks.  A build the generator accepts has distinct ids, so the command
\* line client's count of smaller ids is the place the sort gives a method.
Smaller(b, p) == {q \in DOMAIN b.methods : b.methods[q].id < b.methods[p].id}

LEMMA SmallerProperties ==
  ASSUME NEW b \in Builds, NEW p \in DOMAIN b.methods
  PROVE  /\ IsFiniteSet(Smaller(b, p))
         /\ Cardinality(Smaller(b, p)) \in Nat
         /\ Cardinality(Smaller(b, p)) < Len(b.methods)
         /\ p \notin Smaller(b, p)
<1> DEFINE n == Len(b.methods)
<1>1. n \in Nat /\ DOMAIN b.methods = 1..n /\ b.methods[p].id \in Nat
  BY BuildTypes
<1>2. IsFiniteSet(1..n) /\ Cardinality(1..n) = n
  BY <1>1, FS_Interval
<1>3. Smaller(b, p) \subseteq 1..n /\ p \notin Smaller(b, p)
  BY <1>1 DEF Smaller
<1>4. IsFiniteSet(Smaller(b, p)) /\ Cardinality(Smaller(b, p)) \in Nat
  BY <1>2, <1>3, FS_Subset, FS_CardinalityType
<1>5. /\ Smaller(b, p) \cup {p} \in SUBSET (1..n)
      /\ Cardinality(Smaller(b, p) \cup {p}) = Cardinality(Smaller(b, p)) + 1
  BY <1>1, <1>3, <1>4, FS_AddElement
<1>6. Cardinality(Smaller(b, p)) + 1 <= n
  BY <1>2, <1>5, FS_Subset
<1>7. QED
  BY <1>1, <1>3, <1>4, <1>6

LEMMA SmallerIsMonotonic ==
  ASSUME NEW b \in Builds, NEW p \in DOMAIN b.methods, NEW q \in DOMAIN b.methods,
         b.methods[p].id < b.methods[q].id
  PROVE  Cardinality(Smaller(b, p)) < Cardinality(Smaller(b, q))
<1>1. \A r \in DOMAIN b.methods : b.methods[r].id \in Nat
  BY BuildTypes
<1>2. Smaller(b, p) \cup {p} \in SUBSET Smaller(b, q)
  BY <1>1 DEF Smaller
<1>3. /\ IsFiniteSet(Smaller(b, p)) /\ p \notin Smaller(b, p)
      /\ IsFiniteSet(Smaller(b, q))
      /\ Cardinality(Smaller(b, p)) \in Nat /\ Cardinality(Smaller(b, q)) \in Nat
  BY SmallerProperties
<1>4. Cardinality(Smaller(b, p) \cup {p}) = Cardinality(Smaller(b, p)) + 1
  BY <1>3, FS_AddElement
<1>5. Cardinality(Smaller(b, p) \cup {p}) <= Cardinality(Smaller(b, q))
  BY <1>2, <1>3, FS_Subset
<1>6. QED
  BY <1>3, <1>4, <1>5

\* The sorted table has a method where the number of smaller ids says.
LEMMA RankIsPlace ==
  ASSUME NEW b \in Builds, Accepted(b), NEW p \in DOMAIN b.methods
  PROVE  /\ CliRank(b, p) \in Nat /\ CliRank(b, p) + 1 \in 1..Len(b.methods)
         /\ Dispatch(b)[CliRank(b, p) + 1] = p
<1>1. \A q \in DOMAIN b.methods : b.methods[q].id \in Nat
  BY BuildTypes
<1>2. \A q \in DOMAIN b.methods : Rank(b, q) = 1 + Cardinality(Smaller(b, q))
  <2> SUFFICES ASSUME NEW q \in DOMAIN b.methods
               PROVE  {r \in DOMAIN b.methods : Before(b, r, q)} = Smaller(b, q)
    BY DEF Rank
  <2>1. ASSUME NEW r \in DOMAIN b.methods
        PROVE  Before(b, r, q) <=> b.methods[r].id < b.methods[q].id
    <3>1. b.methods[r].id = b.methods[q].id => r = q
      BY DEF Accepted
    <3>2. q \in Nat
      BY BuildTypes
    <3>3. QED
      BY <3>1, <3>2 DEF Before
  <2>2. QED
    BY <2>1 DEF Smaller
<1>3. CliRank(b, p) = Cardinality(Smaller(b, p))
  BY DEF CliRank, Smaller
<1>4. \A q \in DOMAIN b.methods : Rank(b, q) = Rank(b, p) => q = p
  <2> SUFFICES ASSUME NEW q \in DOMAIN b.methods, q # p
               PROVE  Rank(b, q) # Rank(b, p)
    OBVIOUS
  <2>1. b.methods[q].id # b.methods[p].id
    BY DEF Accepted
  <2>2. Cardinality(Smaller(b, p)) \in Nat /\ Cardinality(Smaller(b, q)) \in Nat
    BY SmallerProperties
  <2>3. CASE b.methods[q].id < b.methods[p].id
    <3>1. Cardinality(Smaller(b, q)) < Cardinality(Smaller(b, p))
      BY <2>3, SmallerIsMonotonic
    <3>2. QED
      BY <1>2, <2>2, <3>1
  <2>4. CASE b.methods[p].id < b.methods[q].id
    <3>1. Cardinality(Smaller(b, p)) < Cardinality(Smaller(b, q))
      BY <2>4, SmallerIsMonotonic
    <3>2. QED
      BY <1>2, <2>2, <3>1
  <2>5. QED
    BY <1>1, <2>1, <2>3, <2>4
<1>5. Cardinality(Smaller(b, p)) \in Nat /\ Cardinality(Smaller(b, p)) < Len(b.methods)
      /\ Len(b.methods) \in Nat
  BY SmallerProperties, BuildTypes
<1>6. CliRank(b, p) \in Nat /\ CliRank(b, p) + 1 \in 1..Len(b.methods)
      /\ Rank(b, p) = CliRank(b, p) + 1
  BY <1>2, <1>3, <1>5
<1>7. Dispatch(b)[CliRank(b, p) + 1] =
        CHOOSE q \in DOMAIN b.methods : Rank(b, q) = Rank(b, p)
  BY <1>6 DEF Dispatch
<1>8. QED
  BY <1>4, <1>6, <1>7

-----------------------------------------------------------------------------
\* Who asks for what: a connected stub for one of its methods, or the command
\* line client for the one it has found.
StubAsked ==
    \E s \in DOMAIN stubs : \E k \in 1..Len(stubs[s].methods) :
        \E kind \in {"call", "subscribe", "unsubscribe"} :
            bound[s] # 0 /\ request = StubRequest(s, k, kind)
CliAsked ==
    \E i \in 1..Len(services) : \E p \in DOMAIN services[i].methods :
        request = [service |-> services[i].name, by |-> "cli", kind |-> "call",
                   method |-> services[i].methods[p].name,
                   endpoint |-> starts[i] + 1 + CliRank(services[i], p)]
CallInv ==
    /\ phase \notin {"running", "failed"} => request = None /\ scan = None
    /\ \A i \in DOMAIN services : Accepted(services[i])
    /\ request # None => StubAsked \/ CliAsked
    /\ scan # None =>
         /\ Len(starts) = Len(services)
         /\ \E name, method, at, endpoint :
              scan = [service |-> name, method |-> method, at |-> at,
                      endpoint |-> endpoint]
         /\ scan.at \in 1..Len(services) + 1
         /\ scan.endpoint = StartOf(scan.at) + 1

LEMMA CallInvInit == Init => CallInv
BY DEF Init, CallInv

\* The command line client's sum is the start of the service it looks at.
LEMMA ScanPreserves ==
  ASSUME OffsetInv, CallInv, CliStep
  PROVE  CallInv'
<1>0. \/ \E service, method : CliCall(service, method)
      \/ CliSkip
      \/ CliMatch
      \/ CliGiveUp
  BY DEF CliStep
<1>1. UNCHANGED <<services, stubs, starts, table, bound>> /\ Len(services) \in Nat
  <2>1. Len(services) \in Nat
    BY DEF OffsetInv, TypeOK
  <2>2. UNCHANGED <<compileVars, tableVars, helloVars>>
    BY <1>0 DEF CliCall, CliSkip, CliMatch, CliGiveUp
  <2>3. QED
    BY <2>1, <2>2 DEF compileVars, tableVars, helloVars
<1>p. phase' = phase /\ phase \in {"running", "failed"}
  BY <1>0 DEF CliCall, CliSkip, CliMatch, CliGiveUp, Idle, CallInv
<1>2. ASSUME NEW service, NEW method, CliCall(service, method) PROVE CallInv'
  <2>1. phase = "running" /\ Len(starts) = Len(services) /\ StartOf(1) = 0
        /\ request = None
    BY <1>2 DEF CliCall, Idle, OffsetInv, TableInv
  <2>2. /\ scan' = [service |-> service, method |-> method, at |-> 1, endpoint |-> 1]
        /\ scan'.at = 1 /\ scan'.endpoint = 1 /\ request' = request
    BY <1>2 DEF CliCall
  <2>3. scan'.endpoint = StartOf(scan.at)' + 1 /\ scan'.at \in 1..Len(services) + 1
    BY <1>1, <2>1, <2>2 DEF StartOf
  <2>4. QED
    BY <1>p, <1>1, <2>1, <2>2, <2>3 DEF CallInv
<1>3. CASE CliSkip
  <2> DEFINE i == scan.at
  <2>1. /\ scan # None /\ Len(starts) = Len(services)
        /\ i \in 1..Len(services) /\ scan.endpoint = StartOf(i) + 1
    BY <1>1, <1>3 DEF CliSkip, CallInv
  <2>2. PICK name, method, at, endpoint :
             scan = [service |-> name, method |-> method, at |-> at, endpoint |-> endpoint]
    BY <2>1 DEF CallInv
  <2>3. scan' = [service |-> name, method |-> method, at |-> i + 1,
                 endpoint |-> scan.endpoint + Count(i)]
    BY <1>3, <2>2 DEF CliSkip, Count
  <2>4. scan'.at = i + 1 /\ scan'.endpoint = scan.endpoint + Count(i)
    BY <2>3
  <2>5. /\ Count(i) \in Nat /\ starts[i] \in Nat /\ StartOf(i) = starts[i]
        /\ StartOf(i + 1) = starts[i] + Count(i)
    BY <2>1, StartTypes
  <2>6. StartOf(scan.at)' = StartOf(i + 1)
    BY <1>1, <2>4 DEF StartOf
  <2>7. scan'.endpoint = StartOf(scan.at)' + 1 /\ scan'.at \in 1..Len(services) + 1
    BY <1>1, <2>1, <2>4, <2>5, <2>6
  <2>8. request' = request
    BY <1>3 DEF CliSkip
  <2>9. QED
    BY <1>p, <1>1, <2>1, <2>3, <2>7, <2>8 DEF CallInv, StubAsked, CliAsked, StubRequest
<1>4. CASE CliMatch
  <2> DEFINE i == scan.at
             b == services[scan.at]
             named == {p \in DOMAIN b.methods : b.methods[p].name = scan.method}
  <2>1. /\ scan # None /\ i \in 1..Len(services) /\ scan.endpoint = StartOf(i) + 1
        /\ Len(starts) = Len(services) /\ b.name = scan.service
    BY <1>1, <1>4 DEF CliMatch, CallInv
  <2>2. StartOf(i) = starts[i] /\ b \in Builds /\ starts[i] \in Nat
    BY <2>1, StartTypes
  <2>3. scan' = None
    BY <1>4 DEF CliMatch
  <2>4. CASE request' = None
    BY <1>1, <2>3, <2>4 DEF CallInv
  <2>5. CASE request' # None
    <3>1. named # {} /\ named \in SUBSET Nat
      <4>1. named # {}
        BY <1>4, <2>5 DEF CliMatch
      <4>2. DOMAIN b.methods \subseteq Nat
        BY <2>2, BuildTypes
      <4>3. QED
        BY <4>1, <4>2
    <3>2. FirstIn(named) \in named
      BY <3>1, FirstInProperties
    <3>3. request' = [service |-> scan.service, by |-> "cli", kind |-> "call",
                      method |-> scan.method,
                      endpoint |-> scan.endpoint + CliRank(b, FirstIn(named))]
      BY <1>4, <2>5 DEF CliMatch
    <3>4. CliAsked'
      BY <1>1, <2>1, <2>2, <3>2, <3>3 DEF CliAsked
    <3>5. QED
      BY <1>p, <1>1, <2>3, <3>4 DEF CallInv
  <2>6. QED
    BY <2>4, <2>5
<1>5. CASE CliGiveUp
  BY <1>1, <1>5 DEF CliGiveUp, CallInv, StubAsked, CliAsked, StubRequest
<1>6. QED
  BY <1>2, <1>3, <1>4, <1>5 DEF CliStep

\* The invariant about requests is inductive given the one about offsets.
LEMMA CallInvNext == OffsetInv /\ CallInv /\ [Next]_vars => CallInv'
<1> SUFFICES ASSUME OffsetInv, CallInv, [Next]_vars PROVE CallInv'
  OBVIOUS
<1>1. CASE Hello
  <2>1. /\ request' = request /\ scan' = scan /\ services' = services
        /\ phase \in {"compile", "hello"}
    BY <1>1 DEF Hello, AppendService, ReadVersion, ReadServiceDef, EndHello,
                compileVars, callVars
  <2>2. request = None /\ scan = None
    BY <2>1 DEF CallInv
  <2>3. QED
    BY <2>1, <2>2 DEF CallInv
<1>2. CASE StubStep
  <2>0. PICK s \in DOMAIN stubs : \E k \in 1..Len(stubs[s].methods) :
            StubCall(s, k) \/ StubSubscribe(s, k) \/ StubUnsubscribe(s, k)
    BY <1>2 DEF StubStep
  <2>1. PICK k \in 1..Len(stubs[s].methods) :
            StubCall(s, k) \/ StubSubscribe(s, k) \/ StubUnsubscribe(s, k)
    BY <2>0
  <2>2. /\ UNCHANGED <<services, stubs, starts, table, bound, scan>>
        /\ bound[s] # 0 /\ scan = None
        /\ phase' = phase /\ phase = "running"
        /\ \E kind \in {"call", "subscribe", "unsubscribe"} :
             request' = StubRequest(s, k, kind)
    BY <2>1 DEF StubCall, StubSubscribe, StubUnsubscribe, Idle, compileVars,
                tableVars, helloVars
  <2>3. StubAsked'
    BY <2>2 DEF StubAsked, StubRequest
  <2>4. QED
    BY <2>2, <2>3 DEF CallInv
<1>3. CASE CliStep
  BY <1>3, ScanPreserves
<1>4. CASE HandleRequest
  BY <1>4 DEF HandleRequest, CallInv, compileVars, tableVars, helloVars, StartOf
<1>5. CASE \E x \in subscribed : SendEvent(x)
  BY <1>5 DEF SendEvent, CallInv, compileVars, tableVars, helloVars, callVars, StartOf,
              StubAsked, CliAsked, StubRequest
<1>6. CASE UNCHANGED vars
  BY <1>6 DEF vars, CallInv, compileVars, tableVars, helloVars, callVars, StartOf,
              StubAsked, CliAsked, StubRequest
<1>7. QED
  BY <1>1, <1>2, <1>3, <1>4, <1>5, <1>6 DEF Next

-----------------------------------------------------------------------------
\* An endpoint of the table is dispatched.
LEMMA EntryInTable ==
  ASSUME Len(table) \in Nat, NEW start \in Nat, NEW n \in Nat, NEW k \in 1..n,
         start + k <= Len(table)
  PROVE  Dispatched(start + k) = table[start + k]
<1> DEFINE l == Len(table)
<1>1. l \in Nat /\ start + k <= l /\ start + k \in Nat
  OBVIOUS
<1> HIDE DEF l
<1>2. ~(start + k - 1 >= l)
  BY <1>1
<1>3. QED
  BY <1>2 DEF Dispatched, l

\* The method a stub's request gets.
LEMMA StubDispatched ==
  ASSUME OffsetInv, Evolution, NEW s \in DOMAIN stubs, bound[s] # 0,
         NEW k \in 1..Len(stubs[s].methods)
  PROVE  LET e == Dispatched(bound[s] + k - 1)
             b == services[e.service]
         IN  /\ e # None
             /\ b.uuid = stubs[s].uuid
             /\ b.methods[e.at].id = Method(stubs[s], k).id
<1> DEFINE i == boundTo[s]
           b == services[boundTo[s]]
<1>1. /\ i \in 1..Len(services) /\ Len(starts) = Len(services)
      /\ bound[s] = starts[i] + 1 /\ b.uuid = stubs[s].uuid /\ Usable(stubs[s], b)
  BY DEF OffsetInv, HelloInv, TableInv
<1>2. b \in Builds /\ starts[i] \in Nat /\ Count(i) \in Nat
  BY <1>1, StartTypes
<1>3. stubs[s] \in Builds /\ Len(stubs[s].methods) \in Nat
  BY ElementOfSeq, BuildTypes DEF OffsetInv, TypeOK
<1>4. k <= Len(b.methods) /\ Method(stubs[s], k).id = Method(b, k).id
  BY <1>1, <1>2, <1>3, BuildTypes DEF Evolution
<1>5. k \in 1..Count(i)
  BY <1>2, <1>3, <1>4 DEF Count
<1>6. /\ starts[i] + k <= Len(table) /\ Len(table) \in Nat
      /\ table[starts[i] + k] = [service |-> i, at |-> Dispatch(b)[k]]
  BY <1>1, <1>5, SMTT(30) DEF OffsetInv, TableInv
<1>7. Dispatched(bound[s] + k - 1) = [service |-> i, at |-> Dispatch(b)[k]]
  <2>1. bound[s] + k - 1 = starts[i] + k
    BY <1>1, <1>2, <1>5
  <2>2. QED
    BY <1>2, <1>5, <1>6, <2>1, EntryInTable
<1>8. [service |-> i, at |-> Dispatch(b)[k]] # None
  BY DEF None
<1>9. QED
  BY <1>1, <1>4, <1>7, <1>8 DEF Method

\* The method the command line client's request gets.
LEMMA CliDispatched ==
  ASSUME OffsetInv, CallInv, Len(starts) = Len(services),
         NEW i \in 1..Len(services), NEW p \in DOMAIN services[i].methods
  PROVE  Dispatched(starts[i] + 1 + CliRank(services[i], p)) =
            [service |-> i, at |-> p]
<1> DEFINE b == services[i]
           k == CliRank(services[i], p) + 1
<1>1. b \in Builds /\ starts[i] \in Nat /\ Count(i) \in Nat
  BY StartTypes
<1>2. Accepted(b)
  BY LenProperties DEF CallInv, OffsetInv, TypeOK
<1>3. CliRank(b, p) \in Nat /\ k \in 1..Count(i) /\ Dispatch(b)[k] = p
  BY <1>1, <1>2, RankIsPlace DEF Count
<1>4. /\ starts[i] + k <= Len(table) /\ Len(table) \in Nat
      /\ table[starts[i] + k] = [service |-> i, at |-> p]
  BY <1>3 DEF OffsetInv, TableInv
<1>5. starts[i] + 1 + CliRank(b, p) = starts[i] + k
  BY <1>1, <1>3
<1>6. QED
  BY <1>1, <1>3, <1>4, <1>5, EntryInTable

\* A method called through a stub is the one that runs (plugin 2311-2333,
\* 2964-3001; server.cc:181-189), provided that newer versions of a service
\* keep the ranks of its methods.
THEOREM StubsReachTheirMethods ==
  ASSUME Evolution
  PROVE  Spec => []StubReachesItsMethod
<1> DEFINE Inv == OffsetInv /\ CallInv /\ StubReachesItsMethod
<1>1. Init => Inv
  BY OffsetInvInit, CallInvInit DEF Init, StubReachesItsMethod
<1>2. Inv /\ [Next]_vars => Inv'
  <2> SUFFICES ASSUME Inv, [Next]_vars PROVE StubReachesItsMethod'
    BY OffsetInvNext, CallInvNext
  <2>1. CASE HandleRequest
    <3> SUFFICES ASSUME reached'.request.by = "stub"
                 PROVE  /\ reached'.entry # None
                        /\ LET b == services[reached'.entry.service]
                               stub == stubs[reached'.request.stub]
                           IN  /\ b.uuid = stub.uuid
                               /\ b.methods[reached'.entry.at].id =
                                    Method(stub, reached'.request.k).id
      BY <2>1 DEF HandleRequest, StubReachesItsMethod, compileVars
    <3>1. /\ reached'.request = request /\ request # None
          /\ reached'.entry = Dispatched(request.endpoint)
      BY <2>1 DEF HandleRequest
    <3>2. StubAsked
      BY <3>1 DEF CallInv, CliAsked
    <3>3. PICK s \in DOMAIN stubs : \E k \in 1..Len(stubs[s].methods) :
            \E kind \in {"call", "subscribe", "unsubscribe"} :
              bound[s] # 0 /\ request = StubRequest(s, k, kind)
      BY <3>2 DEF StubAsked
    <3>4. PICK k \in 1..Len(stubs[s].methods) :
            /\ bound[s] # 0 /\ request.endpoint = bound[s] + k - 1
            /\ request.stub = s /\ request.k = k
      BY <3>3 DEF StubRequest
    <3>5. QED
      BY <3>1, <3>4, StubDispatched
  <2>2. CASE UNCHANGED <<services, stubs, reached>>
    BY <2>2 DEF StubReachesItsMethod
  <2>3. QED
    BY <2>1, <2>2 DEF Next, Hello, AppendService, ReadVersion, ReadServiceDef, EndHello,
       StubStep, StubCall, StubSubscribe, StubUnsubscribe, CliStep, CliCall, CliSkip,
       CliMatch, CliGiveUp, SendEvent, vars, compileVars, callVars
<1>3. QED
  BY <1>1, <1>2, PTL DEF Spec

\* A method called by its name is the one that runs (call.cc:452-486), for
\* any method ids in any order of declaration.
THEOREM CliReachesNamedMethods == Spec => []CliReachesNamedMethod
<1> DEFINE Inv == OffsetInv /\ CallInv /\ CliReachesNamedMethod
<1>1. Init => Inv
  BY OffsetInvInit, CallInvInit DEF Init, CliReachesNamedMethod
<1>2. Inv /\ [Next]_vars => Inv'
  <2> SUFFICES ASSUME Inv, [Next]_vars PROVE CliReachesNamedMethod'
    BY OffsetInvNext, CallInvNext
  <2>1. CASE HandleRequest
    <3> SUFFICES ASSUME reached'.request.by = "cli"
                 PROVE  /\ reached'.entry # None
                        /\ LET b == services[reached'.entry.service]
                           IN  /\ b.name = reached'.request.service
                               /\ b.methods[reached'.entry.at].name =
                                    reached'.request.method
      BY <2>1 DEF HandleRequest, CliReachesNamedMethod, compileVars
    <3>1. /\ reached'.request = request /\ request # None /\ phase = "running"
          /\ reached'.entry = Dispatched(request.endpoint)
      BY <2>1 DEF HandleRequest
    <3>2. CliAsked /\ Len(starts) = Len(services)
      BY <3>1 DEF CallInv, StubAsked, StubRequest, OffsetInv, TableInv
    <3>3. PICK i \in 1..Len(services) : \E p \in DOMAIN services[i].methods :
            request = [service |-> services[i].name, by |-> "cli", kind |-> "call",
                       method |-> services[i].methods[p].name,
                       endpoint |-> starts[i] + 1 + CliRank(services[i], p)]
      BY <3>2 DEF CliAsked
    <3>4. PICK p \in DOMAIN services[i].methods :
            /\ request.service = services[i].name
            /\ request.method = services[i].methods[p].name
            /\ request.endpoint = starts[i] + 1 + CliRank(services[i], p)
      BY <3>3
    <3>5. reached'.entry = [service |-> i, at |-> p]
      BY <3>1, <3>2, <3>4, CliDispatched
    <3>6. [service |-> i, at |-> p] # None
      BY DEF None
    <3>7. QED
      BY <3>1, <3>4, <3>5, <3>6
  <2>2. CASE UNCHANGED <<services, stubs, reached>>
    BY <2>2 DEF CliReachesNamedMethod
  <2>3. QED
    BY <2>1, <2>2 DEF Next, Hello, AppendService, ReadVersion, ReadServiceDef, EndHello,
       StubStep, StubCall, StubSubscribe, StubUnsubscribe, CliStep, CliCall, CliSkip,
       CliMatch, CliGiveUp, SendEvent, vars, compileVars, callVars
<1>3. QED
  BY <1>1, <1>2, PTL DEF Spec
-----------------------------------------------------------------------------
\* Who listens to what: a callback stands at the endpoint of its stub's method, and the
\* server keeps the id of one that has a callback.
EventInv ==
    /\ phase \in {"compile", "hello"} => subscribed = {} /\ callbacks = <<>>
    /\ \A e \in DOMAIN callbacks :
         \E s \in DOMAIN stubs : \E k \in 1..Len(stubs[s].methods) :
            bound[s] # 0 /\ e = bound[s] + k - 1 /\ callbacks[e] = <<s, k>>
    /\ \A x \in subscribed : x.id + 1 \in DOMAIN callbacks /\ x.entry = Dispatched(x.id + 1)
    /\ request # None /\ request.kind = "subscribe" => request.endpoint \in DOMAIN callbacks

LEMMA EventInvInit == Init => EventInv
BY DEF Init, EventInv

\* A stub registers its callback before it subscribes (plugin 3018-3053).
LEMMA SubscribePreserves ==
  ASSUME OffsetInv, EventInv, NEW s \in DOMAIN stubs, NEW k \in 1..Len(stubs[s].methods),
         StubSubscribe(s, k)
  PROVE  EventInv'
<1> DEFINE id == bound[s] + k - 1
<1>1. /\ bound[s] # 0 /\ phase = "running" /\ phase' = phase
      /\ UNCHANGED <<stubs, bound, table, subscribed>>
      /\ request'.endpoint = id /\ id \in DOMAIN callbacks'
      /\ DOMAIN callbacks' = DOMAIN callbacks \cup {id}
      /\ \A e \in DOMAIN callbacks' : callbacks'[e] = IF e = id THEN <<s, k>> ELSE callbacks[e]
  BY DEF StubSubscribe, StubRequest, Idle, compileVars, tableVars, helloVars
<1> HIDE DEF id
<1>2. ASSUME NEW e \in DOMAIN callbacks'
      PROVE  \E r \in DOMAIN stubs : \E j \in 1..Len(stubs[r].methods) :
                bound[r] # 0 /\ e = bound[r] + j - 1 /\ callbacks'[e] = <<r, j>>
  <2>1. CASE e = id
    BY <1>1, <2>1 DEF id
  <2>2. CASE e # id
    BY <1>1, <2>2 DEF EventInv
  <2>3. QED
    BY <2>1, <2>2
<1>3. \A x \in subscribed' : x.id + 1 \in DOMAIN callbacks' /\ x.entry = Dispatched(x.id + 1)'
  BY <1>1 DEF EventInv, Dispatched
<1>4. QED
  BY <1>1, <1>2, <1>3 DEF EventInv

\* The server keeps the id it was given and forgets the method's ids at the end of a
\* subscription, when the client forgets its callback (plugin 2573, 2606, 3018-3053).
LEMMA HandlePreserves ==
  ASSUME OffsetInv, CallInv, EventInv, HandleRequest
  PROVE  EventInv'
<1> DEFINE e == request.endpoint
<1>1. /\ request # None /\ request' = None /\ phase = "running" /\ phase' \in {"running", "failed"}
      /\ UNCHANGED <<stubs, bound, table>>
      /\ reached'.entry = Dispatched(e)
  BY DEF HandleRequest, compileVars, tableVars, helloVars
<1>2. \A y : Dispatched(y)' = Dispatched(y)
  BY <1>1 DEF Dispatched
<1>3. CASE request.kind = "subscribe"
  <2>1. /\ subscribed' = subscribed \cup {[entry |-> Dispatched(e), id |-> e - 1]}
        /\ callbacks' = callbacks
    BY <1>1, <1>3 DEF HandleRequest
  <2>2. e \in DOMAIN callbacks
    BY <1>1, <1>3 DEF EventInv
  <2>3. e \in Int
    BY <2>2 DEF EventInv, OffsetInv, TypeOK
  <2>4. e - 1 + 1 = e
    BY <2>3
  <2>5. \A x \in subscribed' : x.id + 1 \in DOMAIN callbacks' /\ x.entry = Dispatched(x.id + 1)
    BY <2>1, <2>2, <2>4 DEF EventInv
  <2>6. QED
    BY <1>1, <1>2, <2>1, <2>5 DEF EventInv
<1>4. CASE request.kind = "unsubscribe"
  <2>1. /\ subscribed' = {x \in subscribed : x.entry # Dispatched(e)}
        /\ callbacks' = [c \in DOMAIN callbacks \ {e} |-> callbacks[c]]
    BY <1>1, <1>4 DEF HandleRequest
  <2>2. ASSUME NEW x \in subscribed'
        PROVE  x.id + 1 \in DOMAIN callbacks' /\ x.entry = Dispatched(x.id + 1)
    BY <2>1, <2>2 DEF EventInv
  <2>3. QED
    BY <1>1, <1>2, <2>1, <2>2 DEF EventInv
<1>5. CASE request.kind \notin {"subscribe", "unsubscribe"}
  <2>1. subscribed' = subscribed /\ callbacks' = callbacks
    BY <1>5 DEF HandleRequest
  <2>2. QED
    BY <1>1, <1>2, <2>1 DEF EventInv
<1>6. QED
  BY <1>3, <1>4, <1>5

LEMMA EventInvNext == OffsetInv /\ CallInv /\ EventInv /\ [Next]_vars => EventInv'
<1> SUFFICES ASSUME OffsetInv, CallInv, EventInv, [Next]_vars PROVE EventInv'
  OBVIOUS
<1>1. CASE Hello
  <2>1. /\ phase \in {"compile", "hello"} /\ UNCHANGED <<subscribed, callbacks, request>>
    BY <1>1 DEF Hello, AppendService, ReadVersion, ReadServiceDef, EndHello, eventVars, callVars
  <2>2. subscribed = {} /\ callbacks = <<>> /\ request = None
    BY <2>1 DEF EventInv, CallInv
  <2>3. QED
    BY <2>1, <2>2 DEF EventInv
<1>2. ASSUME NEW s \in DOMAIN stubs, NEW k \in 1..Len(stubs[s].methods), StubSubscribe(s, k)
      PROVE  EventInv'
  BY <1>2, SubscribePreserves
<1>3. ASSUME NEW s \in DOMAIN stubs, NEW k \in 1..Len(stubs[s].methods),
             StubCall(s, k) \/ StubUnsubscribe(s, k)
      PROVE  EventInv'
  BY <1>3 DEF StubCall, StubUnsubscribe, StubRequest, EventInv, Dispatched, compileVars,
              tableVars, helloVars, eventVars
<1>4. CASE CliStep
  <2>1. /\ UNCHANGED <<stubs, bound, table, subscribed, callbacks, phase>>
        /\ request' = request \/ request' = None \/ request'.kind = "call"
    <3>1. CASE \E b \in Builds : \E m \in Methods : CliCall(b.name, m.name)
      BY <3>1 DEF CliCall, compileVars, tableVars, helloVars, eventVars
    <3>2. CASE CliSkip
      BY <3>2 DEF CliSkip, compileVars, tableVars, helloVars, eventVars
    <3>3. CASE CliMatch
      <4>1. UNCHANGED <<compileVars, tableVars, phase, helloVars, eventVars>>
        BY <3>3 DEF CliMatch
      <4>2. request' = None \/ request'.kind = "call"
        BY <3>3 DEF CliMatch
      <4>3. QED
        BY <4>1, <4>2 DEF compileVars, tableVars, helloVars, eventVars
    <3>4. CASE CliGiveUp
      BY <3>4 DEF CliGiveUp, compileVars, tableVars, helloVars, eventVars
    <3>5. QED
      BY <1>4, <3>1, <3>2, <3>3, <3>4 DEF CliStep
  <2>2. QED
    BY <2>1 DEF EventInv, Dispatched
<1>5. CASE HandleRequest
  BY <1>5, HandlePreserves
<1>6. CASE \E x \in subscribed : SendEvent(x)
  BY <1>6 DEF SendEvent, EventInv, Dispatched, compileVars, tableVars, helloVars, callVars
<1>7. CASE UNCHANGED vars
  BY <1>7 DEF vars, EventInv, Dispatched, compileVars, tableVars, helloVars, callVars, eventVars
<1>8. QED
  BY <1>1, <1>2, <1>3, <1>4, <1>5, <1>6, <1>7 DEF Next, StubStep

\* An event goes to the callback that subscribed to it (plugin 2573, 2606, 3018-3053;
\* client.cc:213-227), provided that newer versions of a service keep the ranks of its
\* methods.
THEOREM EventsReachTheirSubscribers ==
  ASSUME Evolution
  PROVE  Spec => []EventsReachSubscriber
<1> DEFINE Inv == OffsetInv /\ CallInv /\ EventInv /\ EventsReachSubscriber
<1>1. Init => Inv
  BY OffsetInvInit, CallInvInit, EventInvInit DEF Init, EventsReachSubscriber
<1>2. Inv /\ [Next]_vars => Inv'
  <2> SUFFICES ASSUME Inv, [Next]_vars PROVE EventsReachSubscriber'
    BY OffsetInvNext, CallInvNext, EventInvNext
  <2>1. ASSUME NEW x \in subscribed, SendEvent(x) PROVE EventsReachSubscriber'
    <3>1. x.id + 1 \in DOMAIN callbacks /\ x.entry = Dispatched(x.id + 1)
      BY DEF EventInv
    <3>2. PICK s \in DOMAIN stubs : \E k \in 1..Len(stubs[s].methods) :
            bound[s] # 0 /\ x.id + 1 = bound[s] + k - 1 /\ callbacks[x.id + 1] = <<s, k>>
      BY <3>1 DEF EventInv
    <3>3. PICK k \in 1..Len(stubs[s].methods) :
            bound[s] # 0 /\ x.id + 1 = bound[s] + k - 1 /\ callbacks[x.id + 1] = <<s, k>>
      BY <3>2
    <3>4. /\ delivered'.entry = Dispatched(bound[s] + k - 1) /\ delivered'.to = <<s, k>>
          /\ UNCHANGED <<services, stubs>>
      BY <2>1, <3>1, <3>3 DEF SendEvent, compileVars
    <3>5. QED
      BY <3>3, <3>4, StubDispatched DEF EventsReachSubscriber, Method
  <2>2. CASE UNCHANGED <<services, stubs, delivered>>
    BY <2>2 DEF EventsReachSubscriber, Method
  <2>3. QED
    BY <2>1, <2>2 DEF Next, Hello, AppendService, ReadVersion, ReadServiceDef, EndHello,
       StubStep, StubCall, StubSubscribe, StubUnsubscribe, CliStep, CliCall, CliSkip,
       CliMatch, CliGiveUp, HandleRequest, vars, compileVars, eventVars
<1>3. QED
  BY <1>1, <1>2, PTL DEF Spec
=============================================================================
