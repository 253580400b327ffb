------------------------------ MODULE MCRpcSystem ------------------------------
\* Threads of the client, one event stream.
EXTENDS RpcSystem, TLC

CONSTANTS u1, u2, u3, e1

\* A service that reports errors, by itself and with one more trouble; two threads
\* that share the event.
EachTrouble ==
    {{"handler"}, {"handler", "decode"}, {"handler", "callback"}, {"handler", "resubscribe"},
     {"share"}}

\* A third thread is what it takes to wait for room in c2s while the server, with a
\* request in hand and one in the stream, waits for room in s2c.
Crowd == (u1 :> Operations) @@ (u2 :> {"call"}) @@ (u3 :> Operations)
TwoThreads == (u1 :> Operations) @@ (u2 :> Operations) @@ (u3 :> {})
Sharers == (u1 :> {"subscribe", "unsubscribe", "close"})
             @@ (u2 :> {"call", "unsubscribe"}) @@ (u3 :> {})
EachDoes ==
    [t \in EachTrouble |->
       IF t = {"handler"} THEN Crowd ELSE IF t = {"share"} THEN Sharers ELSE TwoThreads]
==============================================================================
