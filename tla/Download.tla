------------------------------ MODULE Download ------------------------------
(***************************************************************************)
(* The way of a route table from the PC into a car: the buffers of the     *)
(* server (src/server/src/drv/cmd.c, msginfo.c), the serial line, the      *)
(* coordinator with its address map and its queue                          *)
(* (src/lamps/src/main/command.c, timevent.c, sink.c, incoming.c), the     *)
(* radio, and the table of the car (src/lamps/src/lamp/vehicle.c).         *)
(*                                                                         *)
(* Which command the server sends when is Dispatch: here a buffer may be   *)
(* sent or cleared at any time.  What the car does with its table is       *)
(* Vehicle.  send1 is the queue Fifo, which MsgRing implements.            *)
(***************************************************************************)
EXTENDS Naturals, Sequences, FiniteSets

CONSTANTS
    Cars,       \* their numbers
    Addrs,      \* short addresses, 0 is none
    Rows,       \* rows of the tables that the PC has
    CAR_STOP,   \* the action of the row at which a car stops
    Given,      \* the tables that the PC has for each car
    MAXPATH,    \* entries of a record of the server: 32
    CNTSIZE,    \* values of cnt, 7 bits: 128
    Place,      \* where the record of a car starts in msg_info
    MEMSIZE,    \* where the memory of msg_info ends
    CARPATH,    \* entries of carInfo.route.line
    HOMESIZE,   \* entries of carInfo.home
    RTSENDSIZE, \* rows in one radio message
    NoMsg,      \* what curmsg is before the first message
    RETRYSIZE,  \* values of single_info.retry, a byte: 256
    SendBound,  \* messages that may wait in send1, see MsgRing
    \* bounds of the model:
    SerialBound,    \* frames on the serial line
    AirBound,       \* messages the stack of the coordinator works on
    PutBound,       \* frames the server sends
    FaultBound      \* transmissions that fail although the car is there

Byte  == 0..255
Row0  == [id : Byte, action : Byte]
Blank == [id |-> 0, action |-> 0]
Frame == [cmd : {"ROUTE", "END"}, car : Byte, index : 0..CNTSIZE, rows : Seq(Row0)]
Msg   == [cmd : {"ROUTE", "END"}, car : Cars, index : 0..CNTSIZE, rows : Seq(Row0), dest : Addrs]

\* The records do not overlap, and a record with the largest count ends before the memory
\* does: behind the last record is the table of the stations.  A table of the PC is counted
\* in a byte; a row with a zero in it is refused by the server.
ASSUME DownloadAssumption ==
    /\ NoMsg \notin Msg /\ CAR_STOP \in Byte
    /\ 0 \notin Addrs /\ Cars \subseteq Byte /\ Rows \subseteq [id : 1..255, action : 1..255]
    /\ Given \in [Cars -> SUBSET Seq(Rows)]
    /\ MAXPATH \in Nat /\ CNTSIZE \in 1..256 /\ MAXPATH < CNTSIZE /\ MEMSIZE \in Nat
    /\ Place \in [Cars -> Nat] /\ \A c \in Cars : Place[c] + CNTSIZE <= MEMSIZE
    /\ \A c, d \in Cars : c # d => Place[c] + MAXPATH < Place[d] \/ Place[d] + MAXPATH < Place[c]
    /\ CARPATH \in Nat /\ HOMESIZE \in Nat /\ HOMESIZE <= CARPATH
    /\ RTSENDSIZE \in Nat \ {0} /\ RETRYSIZE \in Nat /\ RETRYSIZE > 3
    /\ SendBound \in Nat /\ SerialBound \in Nat /\ AirBound \in Nat
    /\ PutBound \in Nat /\ FaultBound \in Nat

VARIABLES
    \* the server
    mem,        \* msg_info from msg_info.route on, in pairs of bytes: a record is the pair
                \* [num, cnt] and MAXPATH rows [id, action]
    beyond,     \* history: a part was written beyond the end of a record
    w108,       \* where the sending task is in sea_sendroutetable
    puts,       \* frames sent so far
    serial,     \* frames on their way to the coordinator
    \* the coordinator
    addr,       \* road_info.map.addr, 0 for a car it has not heard
    send1,      \* messages that wait
    curmsg,     \* the message taken last
    retry,      \* single_info.retry: failures since the last success
    air,        \* the buffers of the stack: a message it has not reported on, or NoMsg
    faults,     \* transmissions that failed so far
    \* the cars
    node,       \* own short address, 0 without a network
    car,        \* carInfo.route: [count, line]
    home        \* carInfo.home, in flash

server      == <<mem, beyond, w108, puts>>
coordinator == <<addr, send1, curmsg, retry, air, faults>>
cars        == <<node, car, home>>
vars == <<server, serial, coordinator, cars>>

Idle == [at |-> "idle"]
Ring == INSTANCE Fifo WITH Msgs <- {}, Limit <- SendBound, queue <- send1, taken <- curmsg
-----------------------------------------------------------------------------
(* The server.                                                             *)

\* The record of car c: the number and the count in it, and where its row i is.
Num(c)    == mem[Place[c]].id
Cnt(c)    == mem[Place[c]].action % CNTSIZE
At(c, i)  == Place[c] + 1 + i

\* sea_initmsg
Fresh == [x \in 0..MEMSIZE-1 |->
            IF \E c \in Cars : Place[c] = x THEN [id |-> CHOOSE c \in Cars : Place[c] = x, action |-> 0]
            ELSE Blank]

\* The rows from place x on replaced by part; what would lie behind the memory is left out.
Copied(line, x, part) ==
    [i \in DOMAIN line |-> IF i \in x..x+Len(part)-1 THEN part[i-x+1] ELSE line[i]]

\* sea_routeclear in memory m: the first record with the number c.
Cleared(m, c) ==
    LET found == {d \in Cars : m[Place[d]].id = c}
    IN  IF found = {} THEN m
        ELSE LET d == CHOOSE d \in found : \A e \in found : Place[d] <= Place[e]
             IN  [x \in DOMAIN m |-> IF x = Place[d] THEN [id |-> c, action |-> 0]
                                     ELSE IF x \in At(d, 0)..At(d, MAXPATH-1) THEN Blank ELSE m[x]]

\* part written from row index of the record of c on, and the count.
Added(m, c, index, part) ==
    [Copied(m, At(c, index), part) EXCEPT ![Place[c]].action = (index + Len(part)) % CNTSIZE]

\* sea_routeadd, for the PC and for the keyboard: part of a table, the first clears the
\* record.  Whether the record has room for it is not looked at.
sea_routeadd(c, index, part) ==
    /\ mem' = Added(IF index = 0 THEN Cleared(mem, c) ELSE mem, c, index, part)
    /\ beyond' = (beyond \/ index + Len(part) > MAXPATH)

\* ROUTE of the PC, w108 -3 of the keyboard, while the car is known and stands.
PcTable(c) ==
    /\ \E t \in Given[c] : \E index \in 0..Len(t)-1 : \E last \in index+1..Len(t) :
          sea_routeadd(c, index, SubSeq(t, index + 1, last))
    /\ UNCHANGED <<w108, puts, serial, coordinator, cars>>

\* sea_routeclear, when a car has answered END.
sea_routeclear(c) ==
    /\ mem' = Cleared(mem, c)
    /\ UNCHANGED <<beyond, w108, puts, serial, coordinator, cars>>

\* w108frm1.put
PutFrame(f) ==
    /\ Len(serial) < SerialBound /\ puts < PutBound
    /\ serial' = Append(serial, f) /\ puts' = puts + 1

\* TaskCmdHandler comes to a ROUTE for c.
SendRoute(c) ==
    /\ w108 = Idle /\ Cnt(c) # 0
    /\ w108' = [at |-> "send", car |-> c, i |-> 0, size |-> RTSENDSIZE]
    /\ UNCHANGED <<mem, beyond, puts, serial, coordinator, cars>>

\* One round of the loop in sea_sendroutetable; between two rounds the other tasks may
\* change the record.  size is not set back when the record has grown meanwhile.
SendPart ==
    /\ w108 # Idle /\ w108.i < Cnt(w108.car)
    /\ LET cnt  == Cnt(w108.car)
           size == IF cnt < RTSENDSIZE + w108.i THEN cnt - w108.i ELSE w108.size
       IN  /\ PutFrame([cmd |-> "ROUTE", car |-> Num(w108.car), index |-> w108.i,
                        rows |-> [k \in 1..size |-> mem[At(w108.car, w108.i+k-1)]]])
           /\ w108' = [w108 EXCEPT !.i = @ + size, !.size = size]
    /\ UNCHANGED <<mem, beyond, coordinator, cars>>

SendDone ==
    /\ w108 # Idle /\ w108.i >= Cnt(w108.car)
    /\ w108' = Idle
    /\ UNCHANGED <<mem, beyond, puts, serial, coordinator, cars>>

\* TaskCmdHandler comes to an END for c.
SendEnd(c) ==
    /\ w108 = Idle
    /\ PutFrame([cmd |-> "END", car |-> c, index |-> 0, rows |-> <<>>])
    /\ UNCHANGED <<mem, beyond, w108, coordinator, cars>>
-----------------------------------------------------------------------------
(* The coordinator.                                                        *)

To(f, a) == [cmd |-> f.cmd, car |-> f.car, index |-> f.index, rows |-> f.rows, dest |-> a]

\* sea_parseroadframe: the address is the one the coordinator holds for the number in the
\* frame; without one the server gets an error.  A damaged frame is dropped.
\* A full queue is overrun.
Parse ==
    /\ serial # <<>> /\ serial' = Tail(serial)
    /\ \/ /\ Head(serial).car \in Cars /\ addr[Head(serial).car] # 0
          /\ Ring!Send(To(Head(serial), addr[Head(serial).car]))
       \/ UNCHANGED <<send1, curmsg>>
    /\ UNCHANGED <<server, addr, retry, air, faults, cars>>

\* coordinatorMsEventHandler: whether the stack has a buffer for the message is not looked at.
MsEvent ==
    /\ Ring!Get
    /\ LET free == {b \in DOMAIN air : air[b] = NoMsg}
       IN  air' = IF free = {} THEN air ELSE [air EXCEPT ![CHOOSE b \in free : TRUE] = curmsg']
    /\ UNCHANGED <<server, serial, addr, retry, faults, cars>>

\* Slip: the failures are not counted.
FailedAlways(m) ==
    IF curmsg.cmd = m.cmd THEN retry' = 1 /\ Ring!Send(curmsg)
    ELSE UNCHANGED <<send1, curmsg, retry>>

\* Slip: the count does not run over.
FailedOn(m) ==
    IF curmsg.cmd # m.cmd THEN UNCHANGED <<send1, curmsg, retry>>
    ELSE /\ retry' = retry + 1
         /\ IF retry' <= 2 THEN Ring!Send(curmsg) ELSE UNCHANGED <<send1, curmsg>>

\* ezspCoordinatorMessageSentHandler with a failure: the message taken last is queued
\* again, whichever failed, after the first and the second failure since the last
\* success, and when the count has run over.
Failed(m) ==
    IF curmsg.cmd # m.cmd THEN UNCHANGED <<send1, curmsg, retry>>
    ELSE /\ retry' = IF retry + 1 = RETRYSIZE THEN 0 ELSE retry + 1
         /\ IF retry' <= 2 THEN Ring!Send(curmsg) ELSE UNCHANGED <<send1, curmsg>>

\* ... with success.
Delivered(m) ==
    /\ retry' = IF curmsg.cmd = m.cmd THEN 0 ELSE retry
    /\ UNCHANGED <<send1, curmsg>>

\* RPT and ADDRESS of car c: the coordinator notes its address.
Heard(c) ==
    /\ node[c] \notin {0, addr[c]} /\ addr' = [addr EXCEPT ![c] = node[c]]
    /\ UNCHANGED <<server, serial, send1, curmsg, retry, air, faults, cars>>
-----------------------------------------------------------------------------
(* The car.                                                                *)

EmptyRoute == [count |-> 0, line |-> [i \in 0..CARPATH-1 |-> Blank]]

NoHome == [i \in 0..HOMESIZE-1 |-> Blank]

\* A short table with one STOP is the way home, it is saved if it is not there yet.
IsWayHome(r, index) ==
    /\ index = 0 /\ r.count < HOMESIZE
    /\ Cardinality({i \in 0..r.count-1 : r.line[i].action = CAR_STOP}) = 1

SaveHome(c, r, index) ==
    home' = IF IsWayHome(r, index) /\ \E i \in 0..r.count-1 : home[c][i] # r.line[i]
            THEN [home EXCEPT ![c] = [i \in DOMAIN @ |-> IF i < r.count THEN r.line[i] ELSE Blank]]
            ELSE home

\* vehicleRouteTable; count does not shrink.
vehicleRouteTable(c, index, part) ==
    LET last == index + Len(part)
        new  == [count |-> IF car[c].count < last THEN last ELSE car[c].count,
                 line  |-> Copied(car[c].line, index, part)]
    IN  IF last >= CARPATH THEN UNCHANGED <<car, home>>
        ELSE IF last = 0 THEN car' = [car EXCEPT ![c] = EmptyRoute] /\ home' = home
        ELSE car' = [car EXCEPT ![c] = new] /\ SaveHome(c, new, index)

\* Slip: the number in the message is not compared with the own one.
TakesAny(c, m) ==
    IF m.cmd = "END" THEN car' = [car EXCEPT ![c] = EmptyRoute] /\ home' = home
    ELSE vehicleRouteTable(c, m.index, m.rows)

\* ROUTE and END in ezspRouterIncomingMessageHandler: only with the own number.
Takes(c, m) ==
    IF m.car # c THEN UNCHANGED <<car, home>>
    ELSE IF m.cmd = "END" THEN car' = [car EXCEPT ![c] = EmptyRoute] /\ home' = home
    ELSE vehicleRouteTable(c, m.index, m.rows)

\* The radio: whoever has the address now takes the message; the report on it may say that
\* it failed although it arrived.
Arrives(m) ==
    \E c \in Cars :
       /\ node[c] = m.dest /\ Takes(c, m)
       /\ \/ Delivered(m) /\ UNCHANGED faults
          \/ Failed(m) /\ faults < FaultBound /\ faults' = faults + 1

Lost(m) ==
    /\ Failed(m) /\ UNCHANGED <<car, home>>
    /\ IF \A c \in Cars : node[c] # m.dest THEN UNCHANGED faults
       ELSE faults < FaultBound /\ faults' = faults + 1

Radio ==
    /\ \E b \in DOMAIN air :
          /\ air[b] # NoMsg /\ air' = [air EXCEPT ![b] = NoMsg]
          /\ Arrives(air[b]) \/ Lost(air[b])
    /\ UNCHANGED <<server, serial, addr, node>>

\* A start loads the way home, up to a row that is not there.
There(r) == {r.id, r.action} \cap {0, 255} = {}

\* Slip: blank rows are loaded as well.
WholeFlash(h) == {HOMESIZE}

HomeWay(h) == {n \in 0..HOMESIZE : \A i \in 0..n-1 : There(h[i])}

Reboot(c) ==
    /\ \E n \in HomeWay(home[c]) :
          /\ \A k \in HomeWay(home[c]) : k <= n
          /\ home' = [home EXCEPT ![c] = [i \in DOMAIN @ |-> IF i < n THEN @[i] ELSE Blank]]
          /\ car' = [car EXCEPT ![c] = [count |-> n, line |->
                        [i \in 0..CARPATH-1 |-> IF i < n THEN home[c][i] ELSE Blank]]]
    /\ node' = [node EXCEPT ![c] = 0]
    /\ UNCHANGED <<server, serial, coordinator>>

\* The network gives a car any address that no other has: also one that another car had
\* and that the coordinator still holds for it.
Moves(c) ==
    /\ \E a \in (Addrs \cup {0}) \ {node[c]} :
          /\ a # 0 => \A d \in Cars : node[d] # a
          /\ node' = [node EXCEPT ![c] = a]
    /\ UNCHANGED <<server, serial, coordinator, car, home>>

\* A power loss of the server or of the coordinator.
ServerResets ==
    /\ mem' = Fresh /\ w108' = Idle
    /\ UNCHANGED <<beyond, puts, serial, coordinator, cars>>

CoordinatorResets ==
    /\ addr' = [c \in Cars |-> 0] /\ send1' = <<>> /\ curmsg' = NoMsg
    /\ retry' = 0 /\ air' = [b \in DOMAIN air |-> NoMsg] /\ serial' = <<>>
    /\ UNCHANGED <<server, faults, cars>>
-----------------------------------------------------------------------------
Init ==
    /\ mem = Fresh /\ beyond = FALSE /\ w108 = Idle /\ puts = 0 /\ serial = <<>>
    /\ addr = [c \in Cars |-> 0] /\ send1 = <<>> /\ curmsg = NoMsg /\ retry = 0
    /\ air = [b \in 1..AirBound |-> NoMsg] /\ faults = 0
    /\ node = [c \in Cars |-> 0] /\ car = [c \in Cars |-> EmptyRoute]
    /\ home = [c \in Cars |-> NoHome]

Server == SendPart \/ SendDone
          \/ \E c \in Cars : PcTable(c) \/ sea_routeclear(c) \/ SendRoute(c) \/ SendEnd(c)
Coordinator == Parse \/ MsEvent \/ \E c \in Cars : Heard(c)
Car == \E c \in Cars : Reboot(c) \/ Moves(c)

Next == Server \/ Coordinator \/ Radio \/ Car \/ ServerResets \/ CoordinatorResets

\* The coordinator's loop runs, and its stack reports on every message.
Fairness == WF_vars(MsEvent) /\ WF_vars(Radio)

Spec     == Init /\ [][Next]_vars
FairSpec == Spec /\ Fairness
-----------------------------------------------------------------------------
\* Row r may be at place i (from 0) of a table of car c.
Own(c, i, r) == r = Blank \/ \E t \in Given[c] : i + 1 \in DOMAIN t /\ t[i+1] = r
\* A table of car c has n rows or more.
Fits(c, n) == n = 0 \/ \E t \in Given[c] : n <= Len(t)

TypeOK ==
    /\ mem \in [0..MEMSIZE-1 -> Row0] /\ beyond \in BOOLEAN
    /\ w108 \in {Idle} \cup [at : {"send"}, car : Cars, i : 0..CNTSIZE, size : 1..RTSENDSIZE]
    /\ puts \in 0..PutBound /\ serial \in Seq(Frame)
    /\ addr \in [Cars -> Addrs \cup {0}]
    /\ send1 \in Seq(Msg) /\ curmsg \in Msg \cup {NoMsg} /\ retry \in 0..RETRYSIZE-1
    /\ air \in [1..AirBound -> Msg \cup {NoMsg}] /\ faults \in 0..FaultBound
    /\ node \in [Cars -> Addrs \cup {0}]
    /\ car \in [Cars -> [count : 0..CARPATH, line : [0..CARPATH-1 -> Row0]]]
    /\ home \in [Cars -> [0..HOMESIZE-1 -> Row0]]

\* A car never has a row, in its table or in its flash, that was not given to this car at
\* this place, although messages are sent to addresses that have passed to another car,
\* are sent again, and parts of a record are sent while it is written.  That is so until the
\* PC sends a car a table that is longer than a record: from then on all is lost (H32).
OwnRows ==
    ~beyond => \A c \in Cars :
       /\ \A i \in 0..CARPATH-1 : Own(c, i, car[c].line[i])
       /\ \A i \in 0..HOMESIZE-1 : Own(c, i, home[c][i])

\* What a car takes for the end of its table is no farther than that of a table given to
\* it, as long as no table was longer than a record of the server.
OwnLength == ~beyond => \A c \in Cars : Fits(c, car[c].count)

\* The messages the stack has not reported on.
Busy == {b \in DOMAIN air : air[b] # NoMsg}
\* The failures in a row that may still be answered by sending again before one is not;
\* three when the count is about to run over.
Resends == IF retry > 2 THEN 3 ELSE 2 - retry
\* What is left for the coordinator to do.
Work == 8 * Len(send1) + 7 * Cardinality(Busy) + 2 * Resends

\* Every frame of the server costs the coordinator a bounded number of transmissions: but
\* for a new frame, or a start, whatever becomes of its messages leaves it less to do,
\* although a success, and a count that runs over, let it send again.
WorkShrinks ==
    [][\/ Work' < Work
       \/ UNCHANGED <<send1, air, retry>>
       \/ Parse \/ CoordinatorResets]_vars

\* When the server has stopped sending, the coordinator stops too: a car that is gone does
\* not keep it busy for ever, whatever it queues again.
SendingEnds == <>[](send1 = <<>> /\ \A b \in DOMAIN air : air[b] = NoMsg)
=============================================================================
