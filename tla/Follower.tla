----------------------------- MODULE Follower -----------------------------
(* What a car promises as a follower of its route: at a card it does what   *)
(* the first row with that card says and goes on from the row behind it, at *)
(* the last row it stops and has no route any more, and at a station it     *)
(* waits.  Vehicle, where serial frames, radio commands and two handlers do *)
(* this between them, implements it.                                        *)
EXTENDS Naturals

CONSTANT WaitTicks  \* how long a car waits at a station

VARIABLES
    route,      \* count rows from 0 in line, and index, the row it expects next
    action,     \* what it is doing
    status,     \* what the wheels were told last
    waiting     \* what is left of the stay at a station

doing == <<action, waiting>>
vars  == <<route, status, doing>>

Gone(r) == r.count = 0 /\ r.index = 0

\* Power on, with the way home or without a route.
Fresh == route.index = 0 /\ action = "NONE" /\ status = "STOP" /\ waiting = 0
Restart == Fresh'

Init == Fresh

FirstOfItsCard(i) == \A j \in 0..i-1 : route.line[j].id # route.line[i].id
Stay(row) == waiting' = IF row.action = "STOP" THEN WaitTicks ELSE waiting

Follow(i) ==
    /\ i + 1 < route.count /\ action' = route.line[i].action /\ status' = action'
    /\ route' = [route EXCEPT !.index = i + 1]

Arrive(i) ==
    /\ i + 1 = route.count /\ Gone(route')
    /\ action' = "NONE" /\ status' = "STOP"

\* Rows may be jumped over, or done again when the car comes back to a card.
Read ==
    \E i \in 0..route.count-1 :
       /\ Follow(i) \/ Arrive(i)
       /\ FirstOfItsCard(i) /\ Stay(route.line[i])

\* A download stops the car and never shortens its route; it goes on from the same row.
Load ==
    /\ status' = "STOP" /\ route'.index = route.index /\ route'.count >= route.count
    /\ UNCHANGED doing

\* The end of a job, or an empty download, which also stops the car.
Clear == action' = "NONE" /\ Gone(route') /\ status' \in {status, "STOP"} /\ UNCHANGED waiting

Stop  == status' = "STOP" /\ UNCHANGED <<route, doing>>
Start == status' = "RUN" /\ waiting = 0 /\ UNCHANGED <<route, doing>>

\* The wheels turn at a station: it is given up, but nobody orders it before its time.
PassOn ==
    /\ action = "STOP" /\ action' = "RUN"
    /\ status' = IF waiting = 0 THEN "RUN" ELSE status
    /\ UNCHANGED <<route, waiting>>

Second ==
    /\ waiting' = IF action = "STOP" /\ waiting > 0 THEN waiting - 1 ELSE 0
    /\ UNCHANGED <<route, action, status>>

Next == Second \/ Stop \/ Start \/ PassOn \/ Read \/ Load \/ Clear \/ Restart
Spec == Init /\ [][Next]_vars

\* A car that waits has been told to stop and nothing since.
Holds  == action = "STOP" /\ waiting > 0 => status = "STOP"
=============================================================================
