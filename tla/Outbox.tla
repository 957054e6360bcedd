------------------------------- MODULE Outbox -------------------------------
(***************************************************************************)
(* A car's way out to the server: what it answers and reports goes through *)
(* the ring send1 to the radio stack, the stack calls back whether it was  *)
(* delivered, a failed message is queued again, and after NWPK_TOLERANCE   *)
(* failures the car leaves the network and joins again                     *)
(* (src/lamps/src/main/sensor.c, exception.c; vehicle.c).                  *)
(* Everything runs in the main loop: one action per handler.               *)
(***************************************************************************)
EXTENDS MsgRing

CONSTANTS
    NWPK_TOLERANCE,  \* failures after which a car looks for another network
    AirBound         \* bound of the model: messages the stack holds at a time

ASSUME OutboxAssumption ==
    /\ NWPK_TOLERANCE \in Nat \ {0} /\ AirBound \in Nat
    /\ \A m \in Msgs : m.id \in {"RPT", "RESPONSE"}
    /\ NoMsg.id \notin {"RPT", "RESPONSE"}   \* cluster id 0

VARIABLES
    air,        \* the messages in the stack, each to be called back
    retry,      \* single_info.retry
    action,     \* network_info.action: leave the network
    stackstate, \* emberNetworkState()
    appstate,   \* network_info.appstate
    interpan    \* network_info.params.radioChannel is 26

outVars == <<air, retry, action, stackstate, appstate, interpan>>
vars    == <<list, in, out, curmsg, air, retry, action, stackstate, appstate, interpan>>

Reports   == {m \in Msgs : m.id = "RPT"}
Responses == {m \in Msgs : m.id = "RESPONSE"}
Without(k) == SubSeq(air, 1, k - 1) \o SubSeq(air, k + 1, Len(air))

Init ==
    /\ RingInit /\ air = <<>> /\ retry = 0 /\ action = FALSE
    /\ stackstate = "NO_NETWORK" /\ appstate = "NO_NETWORK" /\ interpan = FALSE
-----------------------------------------------------------------------------
(* The producers and the consumer of the ring.                             *)

\* ezspRouterIncomingMessageHandler: a command is answered.
Answer ==
    /\ stackstate = "JOINED"
    /\ \E m \in Responses : sea_sendmsg(m)
    /\ UNCHANGED outVars

\* carReportHandler
Report ==
    /\ appstate = "JOINED"
    /\ \E m \in Reports : sea_sendmsg(m)
    /\ UNCHANGED outVars

\* vehicleMsEventHandler, every 800 ms; the status of emberSendUnicast is not looked
\* at, so a message the stack does not take is lost.
MsEvent ==
    /\ appstate = "JOINED" /\ sea_getmsg
    /\ \/ stackstate = "JOINED" /\ Len(air) < AirBound /\ air' = Append(air, list[out])
       \/ UNCHANGED air
    /\ UNCHANGED <<retry, action, stackstate, appstate, interpan>>
-----------------------------------------------------------------------------
(* ezspRouterMessageSentHandler: the stack calls back for message k.  It is *)
(* compared with the message taken last, by cluster id only.                *)

IsCurrent(k) == air[k].id = Taken.id

SentOther(k) ==
    /\ ~IsCurrent(k) /\ air' = Without(k)
    /\ UNCHANGED <<ringVars, retry, action, stackstate, appstate, interpan>>

Delivered(k) ==
    /\ IsCurrent(k) /\ air' = Without(k) /\ retry' = 0
    /\ UNCHANGED <<ringVars, action, stackstate, appstate, interpan>>

\* Slip: the stack is not told to leave.
FailedStay(k) ==
    /\ IsCurrent(k) /\ air' = Without(k) /\ sea_sendmsg(Taken)
    /\ retry' = IF retry + 1 >= NWPK_TOLERANCE THEN 0 ELSE retry + 1
    /\ appstate' = IF retry + 1 >= NWPK_TOLERANCE THEN "NO_NETWORK" ELSE appstate
    /\ UNCHANGED <<action, stackstate, interpan>>

\* The message taken last is queued again.
Failed(k) ==
    /\ IsCurrent(k) /\ air' = Without(k) /\ sea_sendmsg(Taken)
    /\ IF retry + 1 >= NWPK_TOLERANCE
       THEN retry' = 0 /\ action' = TRUE /\ appstate' = "NO_NETWORK"
       ELSE retry' = retry + 1 /\ UNCHANGED <<action, appstate>>
    /\ UNCHANGED <<stackstate, interpan>>
-----------------------------------------------------------------------------
(* routerExceptionHandler, and emberRouterStackStatusHandler.               *)

\* sensorJoinNetwork: starts to join (a scan or a wait before it is a stutter).  The
\* channel in flash may be 26.
Join ==
    /\ stackstate = "NO_NETWORK" /\ stackstate' = "JOINING" /\ interpan' \in BOOLEAN
    /\ UNCHANGED <<ringVars, air, retry, action, appstate>>

\* Slip: the order stands when it has been carried out.
LeaveAgain ==
    /\ stackstate = "JOINED" /\ action /\ stackstate' = "LEAVING"
    /\ UNCHANGED <<ringVars, air, retry, action, appstate, interpan>>

Leave ==
    /\ stackstate = "JOINED" /\ action
    /\ action' = FALSE /\ stackstate' = "LEAVING"
    /\ UNCHANGED <<ringVars, air, retry, appstate, interpan>>

\* EMBER_NETWORK_UP with the parameters asked for: the car reports at once.
NetworkUp ==
    /\ stackstate = "JOINING" /\ ~interpan
    /\ \E m \in Reports : sea_sendmsg(m)
    /\ stackstate' = "JOINED" /\ appstate' = "JOINED"
    /\ UNCHANGED <<air, retry, action, interpan>>

\* Slip: the wrong network is not left.
StayInWrongNetwork ==
    /\ stackstate = "JOINING" /\ ~interpan /\ stackstate' = "JOINED"
    /\ UNCHANGED <<ringVars, air, retry, action, appstate, interpan>>

\* EMBER_NETWORK_UP in another network than the one asked for.
WrongNetwork ==
    /\ stackstate = "JOINING" /\ ~interpan
    /\ stackstate' = "JOINED" /\ action' = TRUE
    /\ UNCHANGED <<ringVars, air, retry, appstate, interpan>>

\* EMBER_NETWORK_UP on channel 26, whatever the network: nothing but a line is printed.
InterpanUp ==
    /\ stackstate = "JOINING" /\ interpan /\ stackstate' = "JOINED"
    /\ UNCHANGED <<ringVars, air, retry, action, appstate, interpan>>

\* Slip: the application is not told.
DownUnnoticed ==
    /\ stackstate \in {"JOINED", "LEAVING"} /\ stackstate' = "NO_NETWORK"
    /\ UNCHANGED <<ringVars, air, retry, action, appstate, interpan>>

\* EMBER_NETWORK_DOWN, after a leave or because the network was lost.
NetworkDown ==
    /\ stackstate \in {"JOINED", "LEAVING"}
    /\ stackstate' = "NO_NETWORK" /\ appstate' = "NO_NETWORK"
    /\ UNCHANGED <<ringVars, air, retry, action, interpan>>

\* EMBER_JOIN_FAILED does nothing, EMBER_NO_BEACONS counts.
JoinFailed ==
    /\ stackstate = "JOINING" /\ stackstate' = "NO_NETWORK"
    /\ \/ UNCHANGED retry
       \/ retry' = IF retry + 1 > NWPK_TOLERANCE THEN 0 ELSE retry + 1
    /\ UNCHANGED <<ringVars, air, action, appstate, interpan>>

Stack == NetworkUp \/ WrongNetwork \/ InterpanUp \/ NetworkDown \/ JoinFailed
         \/ \E k \in DOMAIN air : SentOther(k) \/ Delivered(k) \/ Failed(k)

Next == Answer \/ Report \/ MsEvent \/ Join \/ Leave \/ Stack

\* The main loop runs and the stack finishes a leave; joining is tried again and
\* again, and what is joined is not out of reach for ever.
Fairness ==
    /\ WF_vars(Join) /\ WF_vars(Leave) /\ WF_vars(stackstate = "LEAVING" /\ NetworkDown)
    /\ WF_vars(NetworkUp \/ WrongNetwork \/ InterpanUp \/ JoinFailed)
    /\ SF_vars(NetworkUp) /\ SF_vars(InterpanUp)

Spec     == Init /\ [][Next]_vars
FairSpec == Spec /\ Fairness
-----------------------------------------------------------------------------
States == {"NO_NETWORK", "JOINING", "JOINED", "LEAVING"}

TypeOK ==
    /\ list \in [Slots -> Msgs \cup {NoMsg}] /\ in \in Slots /\ out \in Slots
    /\ curmsg \in Slots \cup {NULL} /\ air \in Seq(Msgs) /\ Len(air) <= AirBound
    /\ retry \in 0..NWPK_TOLERANCE /\ action \in BOOLEAN
    /\ stackstate \in States /\ appstate \in {"NO_NETWORK", "JOINED"} /\ interpan \in BOOLEAN

\* On channel 26 the stack is in a network that the application never hears of.
Stranded == stackstate = "JOINED" /\ interpan

\* A car whose application has given up the network, or has come into a wrong one, is
\* told to leave it: only on channel 26 application and stack stay apart.
JoinedOrLeaving == stackstate = "JOINED" /\ appstate = "NO_NETWORK" => action \/ Stranded

\* Of its life in the network the car does what Network says, also when the stack calls
\* back for messages that were sent in a network it is no longer in.
N == INSTANCE Network WITH stack <- stackstate, app <- appstate, order <- action,
                           interpan <- interpan /\ stackstate # "NO_NETWORK"
NetworkSpec == N!Spec

\* A car sends nothing of its own, and takes nothing from its ring, while it is without a
\* network: carReportHandler and vehicleMsEventHandler only ask the application.
UsesNetwork == N!Inside

\* A car that lost or gave up its network joins again, or its stack comes to rest on
\* channel 26 (sensor.c:107-110): nothing of its own then makes it leave.
Rejoins == appstate = "NO_NETWORK" ~> (appstate = "JOINED" \/ Stranded)
=============================================================================
