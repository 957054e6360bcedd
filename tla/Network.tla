------------------------------ MODULE Network ------------------------------
(* What the life of a car or station in its network comes to: the radio     *)
(* stack joins and leaves, the application uses the network or does not,    *)
(* and an order to leave is passed from one to the other.  Outbox and       *)
(* JoinScan, which see different parts of it, both implement this.          *)

VARIABLES
    stack,  \* where the radio stack is
    app,    \* whether the application uses the network
    order,  \* the network is to be left
    interpan \* what the stack joins, or is in, is the channel kept for inter-PAN messages

net == <<stack, app, order, interpan>>

Init == stack = "NO_NETWORK" /\ app = "NO_NETWORK" /\ order = FALSE /\ interpan = FALSE

Join ==
    /\ stack = "NO_NETWORK" /\ stack' = "JOINING" /\ interpan' \in BOOLEAN
    /\ UNCHANGED <<app, order>>

Fail ==
    /\ stack = "JOINING" /\ stack' = "NO_NETWORK" /\ interpan' = FALSE
    /\ UNCHANGED <<app, order>>

\* An order that was given before the network was joined stands.
Up ==
    /\ stack = "JOINING" /\ ~interpan
    /\ stack' = "JOINED" /\ app' = "JOINED" /\ UNCHANGED <<order, interpan>>

\* Another network than the one asked for: the application stays out of it.
Wrong ==
    /\ stack = "JOINING" /\ ~interpan
    /\ stack' = "JOINED" /\ order' = TRUE /\ UNCHANGED <<app, interpan>>

\* The stack is in, the application is not told and the stack is not told to leave.
Strand == stack = "JOINING" /\ interpan /\ stack' = "JOINED" /\ UNCHANGED <<app, order, interpan>>

\* Messages fail: also those that were sent before the network was lost or left.
GiveUp == app' = "NO_NETWORK" /\ order' = TRUE /\ UNCHANGED <<stack, interpan>>

Leave ==
    /\ stack = "JOINED" /\ order
    /\ stack' = "LEAVING" /\ order' = FALSE /\ UNCHANGED <<app, interpan>>

Down ==
    /\ stack \in {"JOINED", "LEAVING"}
    /\ stack' = "NO_NETWORK" /\ app' = "NO_NETWORK" /\ interpan' = FALSE /\ UNCHANGED order

Restart == stack' = "NO_NETWORK" /\ app' = "NO_NETWORK" /\ order' = FALSE /\ interpan' = FALSE

Next == Join \/ Fail \/ Up \/ Wrong \/ Strand \/ GiveUp \/ Leave \/ Down \/ Restart
Spec == Init /\ [][Next]_net

\* An application that is out of the network has told a stack that is in it to leave,
\* but on the inter-PAN channel: there they stay apart without an order.
Apart == stack = "JOINED" /\ app = "NO_NETWORK" => order \/ interpan
\* An application only uses a network that the stack is in or has not left yet.
Inside == app = "JOINED" => stack \in {"JOINED", "LEAVING"}
=============================================================================
