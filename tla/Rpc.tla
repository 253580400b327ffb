---------------------------------- MODULE Rpc ----------------------------------
(***************************************************************************)
(* What a session promises to those who use the stubs: a call is carried   *)
(* out once at most, by the server, as it was made, before it returns;     *)
(* close() lets every call finish; a session that fails ends every call    *)
(* that was sent, of which nobody knows whether it is carried out, and may *)
(* strand the one that is being sent.                                      *)
(***************************************************************************)
CONSTANTS Users, Events, Nobody

VARIABLES
    session,     \* "open", "closed" or "failed"
    server,      \* "serving" or "stopped"
    call,        \* call[u]: how far the call of u has come
    subscribed   \* the events the service sends

vars == <<session, server, call, subscribed>>

NoCall == [stage |-> "none", kind |-> "none", event |-> Nobody]
NoCalls == [u \in Users |-> NoCall]

Init ==
    /\ session = "open" /\ server = "serving"
    /\ call = NoCalls
    /\ subscribed = {}

To(u, stage) ==
    call' = [call EXCEPT ![u] = [stage |-> stage, kind |-> @.kind, event |-> @.event]]

\* Calls are sent one at a time.
Ask(u, kind, event) ==
    /\ session = "open"
    /\ call[u] = NoCall
    /\ \A v \in Users : call[v].stage # "sending"
    /\ call' = [call EXCEPT ![u] = [stage |-> "sending", kind |-> kind, event |-> event]]
    /\ UNCHANGED <<session, server, subscribed>>

Sent(u) ==
    /\ session = "open"
    /\ call[u].stage = "sending"
    /\ To(u, "asked")
    /\ UNCHANGED <<session, server, subscribed>>

Execute(u) ==
    /\ session = "open" /\ server = "serving"
    /\ call[u].stage = "asked"
    /\ To(u, "executed")
    /\ \/ call[u].kind = "call" /\ UNCHANGED subscribed
       \/ call[u].kind = "subscribe" /\ subscribed' = subscribed \cup {call[u].event}
       \/ call[u].kind = "unsubscribe" /\ subscribed' = subscribed \ {call[u].event}
    /\ UNCHANGED <<session, server>>

\* The service reports an error instead.
Refuse(u) ==
    /\ session = "open" /\ server = "serving"
    /\ call[u].stage = "asked"
    /\ To(u, "refused")
    /\ UNCHANGED <<session, server, subscribed>>

Return(u) ==
    /\ session = "open"
    /\ call[u].stage \in {"executed", "refused"}
    /\ call' = [call EXCEPT ![u] = NoCall]
    /\ UNCHANGED <<session, server, subscribed>>

\* The server takes no more requests, and drops the subscriptions.
Stop ==
    /\ server = "serving"
    /\ server' = "stopped"
    /\ UNCHANGED <<session, call, subscribed>>

Drop ==
    /\ server = "stopped"
    /\ subscribed' \in SUBSET subscribed
    /\ UNCHANGED <<session, server, call>>

\* close() has returned to a session in which no call is left.
Finish ==
    /\ session = "open" /\ server = "stopped"
    /\ call = NoCalls
    /\ session' = "closed"
    /\ UNCHANGED <<server, call, subscribed>>

\* Every call that was sent ends.
Break ==
    /\ session = "open"
    /\ session' = "failed"
    /\ call' = [u \in Users |-> IF call[u].stage = "sending" THEN call[u] ELSE NoCall]
    /\ UNCHANGED <<server, subscribed>>

\* The one that was being sent ends too, or waits for a reply that will not come,
\* until another call finds the session failed.
SentTooLate(u) ==
    /\ session = "failed"
    /\ call[u].stage = "sending"
    /\ \/ call' = [call EXCEPT ![u] = NoCall]
       \/ To(u, "stranded")
    /\ UNCHANGED <<session, server, subscribed>>

Release ==
    /\ session = "failed"
    /\ \A u \in Users : call[u].stage # "sending"
    /\ call' = NoCalls
    /\ UNCHANGED <<session, server, subscribed>>

\* The server goes on with what was sent before.
Late ==
    /\ session = "failed" /\ server = "serving"
    /\ subscribed' \in SUBSET Events
    /\ UNCHANGED <<session, server, call>>

Next ==
    \/ \E u \in Users :
         \/ \E kind \in {"call", "subscribe", "unsubscribe"}, event \in Events \cup {Nobody} :
              Ask(u, kind, event)
         \/ Sent(u) \/ Execute(u) \/ Refuse(u) \/ Return(u) \/ SentTooLate(u)
    \/ Stop \/ Drop \/ Finish \/ Break \/ Release \/ Late

Spec == Init /\ [][Next]_vars
================================================================================
