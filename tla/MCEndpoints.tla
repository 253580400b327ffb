---------------------------- MODULE MCEndpoints ----------------------------
(***************************************************************************)
(* Services for Endpoints: ids out of the order of declaration, two minor  *)
(* versions, streaming methods, services the client has no stub for.       *)
(***************************************************************************)
EXTENDS Endpoints

Plain(name, id) == [name |-> name, id |-> id, streaming |-> FALSE]
Stream(name, id) == [name |-> name, id |-> id, streaming |-> TRUE]
Build(uuid, name, major, minor, methods) ==
    [uuid |-> uuid, name |-> name, major |-> major, minor |-> minor,
     methods |-> methods]

DiscoveryBuild == Build("d", "Discovery", 1, 0, <<Plain("list", 1)>>)
MotorOld == Build("m", "Motor", 0, 1, <<Plain("stop", 5), Stream("go", 2)>>)
MotorNew == Build("m", "Motor", 0, 2,
                  <<Plain("spin", 9), Stream("go", 2), Plain("stop", 5)>>)
MotorOther == Build("m", "Motor", 1, 0, <<Plain("halt", 1)>>)
Lamp == Build("l", "Lamp", 0, 0, <<Stream("lit", 3), Plain("stop", 1)>>)
Empty == Build("e", "Empty", 0, 0, <<>>)
Twice == Build("t", "Twice", 0, 0, <<Plain("one", 4), Plain("two", 4)>>)
Zero == Build("z", "Zero", 0, 0, <<Plain("zero", 0)>>)
NoId == Build("bad", "NoId", 0, 0, <<Plain("on", 1)>>)

AllBuilds == {DiscoveryBuild, MotorOld, MotorNew, MotorOther, Lamp, Empty,
              Twice, Zero, NoId}
AllServers == {<<MotorNew, Lamp>>, <<Lamp, MotorOld>>, <<Empty, Lamp, MotorNew>>,
               <<MotorNew, MotorNew>>, <<Lamp, Twice>>, <<Zero>>, <<NoId>>,
               <<MotorOther, Lamp>>}
AllStubs == {<<MotorOld, Lamp>>, <<DiscoveryBuild, MotorNew>>, <<Lamp, MotorOld, MotorNew>>,
             <<Lamp>>}
=============================================================================
