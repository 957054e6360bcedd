------------------------------ MODULE Vehicle ------------------------------
(***************************************************************************)
(* The route follower in the car: src/lamps/src/lamp/vehicle.c, with the   *)
(* radio commands of src/lamps/src/main/incoming.c that reach it.          *)
(*                                                                         *)
(* The firmware is one loop: serial input (PLC frames), the radio stack    *)
(* (server commands), vehicleAppHandler, then the millisecond and second   *)
(* events.  No handler preempts another, so every handler is one action,   *)
(* written as an operator on the record car, which holds carInfo, the      *)
(* static plc and the LAMP_UPDATE / LAMP_CHANGE flags.                     *)
(* The PLC and the floor with its RFID cards are the environment.          *)
(***************************************************************************)
EXTENDS Integers, Sequences, FiniteSets

CONSTANTS
    Cards,        \* the RFID cards on the floor (ids of one byte, 0 is no card)
    Tables,       \* the route tables the server may download
    FlashTables,  \* the home tables that may be in flash when the car is new
    MAXPATH,      \* entries of carInfo.route.line
    HOMESIZE,     \* entries of carInfo.home
    RTSENDSIZE,   \* entries of a table the server puts into one radio message
    WaitTicks,    \* (sys_info.ctrl.period * 20) % 256: seconds a car waits at a STOP card
    RECVTIMES,    \* unchanged PLC frames before the state is copied anyway
    WireBound     \* bound of the model: commands waiting in the rs485 ring

Turns   == {"LEFT", "RIGHT", "STRAIGHT"}
Motions == Turns \cup {"STOP", "RUN"}
Actions == Turns \cup {"STOP"}
Faults  == {"WRONG_WAY", "MISS_CARD", "END_LINE", "MEET_OBSTACLE", "EMPTY_TABLE"}
Entries == [id : Cards, action : Actions]
Blank   == [id |-> 0, action |-> "NONE"]

ASSUME VehicleAssumption ==
    /\ Cards \subseteq Nat \ {0}
    /\ MAXPATH \in Nat \ {0} /\ HOMESIZE \in Nat /\ HOMESIZE < MAXPATH
    /\ RTSENDSIZE \in Nat \ {0} /\ WaitTicks \in Nat
    /\ RECVTIMES \in Nat /\ WireBound \in Nat
    /\ Tables \subseteq Seq(Entries) /\ FlashTables \subseteq Seq(Entries)
    /\ \A t \in FlashTables : Len(t) <= HOMESIZE

VARIABLES
    car,        \* the state of the firmware
    motion,     \* what the PLC makes the wheels do
    under,      \* the card last read by the reader of the PLC, 0 before the first
    joined      \* network_info.appstate = EMBER_JOINED_NETWORK

vars == <<car, motion, under, joined>>
-----------------------------------------------------------------------------
(* Commands to the PLC.                                                    *)

\* sea_putrs485, called SNEDTIMES times with the same command: the copies are
\* one entry of wire, and so is a command repeated behind itself.
Put(c, cmd) ==
    [c EXCEPT !.wire = IF @ # <<>> /\ @[Len(@)] = cmd THEN @ ELSE Append(@, cmd)]

\* Slip: a start does not respect the waiting time.
StartAnyway(c) == [Put(c, "RUN") EXCEPT !.status = "RUN", !.update = TRUE, !.info.fail = {}]

\* single_info.on
sea_startcar(c) ==
    IF c.waiting > 0 THEN c
    ELSE [Put(c, "RUN") EXCEPT !.status = "RUN", !.update = TRUE, !.info.fail = {}]

\* single_info.off
sea_stopcar(c) == [Put(c, "STOP") EXCEPT !.status = "STOP", !.update = TRUE]

\* single_info.toggle with a motion; with CAR_REQ_MSG it is Poll below
sea_turncar(c, cmd) == [Put(c, cmd) EXCEPT !.status = cmd, !.update = TRUE]
-----------------------------------------------------------------------------
(* The route table.                                                        *)

EmptyRoute == [count |-> 0, index |-> 0, line |-> [i \in 0..MAXPATH-1 |-> Blank]]

\* Slip: the length in the report is forgotten when the table is cleared.
ClearKeepsReport(c) ==
    [c EXCEPT !.route = EmptyRoute, !.action = "NONE", !.plc.fail = {},
              !.info.fail = {}, !.change = TRUE]

carClearRouteTable(c) ==
    [c EXCEPT !.route = EmptyRoute, !.action = "NONE", !.plc.fail = {},
              !.info.fail = {}, !.info.count = 0, !.change = TRUE]

\* The positions of a table that carry a card; carFindCardInTable takes the first.
PositionsOf(c, card) == {i \in 0..c.route.count-1 : c.route.line[i].id = card}
carFindCardInTable(c, card) ==
    CHOOSE i \in PositionsOf(c, card) : \A j \in PositionsOf(c, card) : i <= j

\* A short table with one STOP is the way home: kept in RAM and in flash.
Prefix(c) == [i \in 1..c.route.count |-> c.route.line[i-1]]
IsWayHome(c, index) ==
    /\ c.route.count < HOMESIZE /\ index = 0
    /\ Cardinality({i \in 0..c.route.count-1 : c.route.line[i].action = "STOP"}) = 1
KnownWayHome(c) ==
    Len(c.home) >= c.route.count /\ SubSeq(c.home, 1, c.route.count) = Prefix(c)
\* Slip: only an empty flash is written.
SaveHomeOnce(c, index) ==
    IF ~IsWayHome(c, index) \/ KnownWayHome(c) THEN c
    ELSE [c EXCEPT !.homeway = c.route.count, !.home = Prefix(c),
                   !.flash = IF @ = <<>> THEN Prefix(c) ELSE @]

SaveHome(c, index) ==
    IF ~IsWayHome(c, index) THEN c
    ELSE IF KnownWayHome(c) THEN [c EXCEPT !.homeway = c.route.count]
    ELSE [c EXCEPT !.homeway = c.route.count, !.home = Prefix(c), !.flash = Prefix(c)]

\* Entries index .. index + length - 1 are written; count never shrinks here.
WriteTable(c, index, seg) ==
    LET last == index + Len(seg)
        n    == IF c.route.count < last THEN last ELSE c.route.count
    IN  [c EXCEPT !.route.line = [i \in 0..MAXPATH-1 |->
                        IF i \in index..last-1 THEN seg[i-index+1] ELSE @[i]],
                  !.route.count = n, !.info.count = n]

StopFirst(c) == IF c.status # "STOP" THEN sea_stopcar(c) ELSE c

vehicleRouteTable(c, index, seg) ==
    IF index + Len(seg) >= MAXPATH THEN c
    ELSE IF index = 0 /\ seg = <<>> THEN carClearRouteTable(StopFirst(c))
    ELSE [SaveHome(WriteTable(StopFirst(c), index, seg), index) EXCEPT !.change = TRUE]
-----------------------------------------------------------------------------
(* Power on: every variable but the flash starts afresh, then the home     *)
(* table is loaded as the route.  sameSec says whether carInfo.time equals *)
(* the current minute and second (at power on it is 0).                    *)

NoReport == [fail |-> {}, status |-> "NONE", obstacle |-> FALSE, card |-> 0, count |-> 0]

Fresh(f, same) ==
    [status |-> "NONE", card |-> 0, action |-> "NONE", waiting |-> 0,
     home |-> f, homeway |-> Len(f), flash |-> f, route |-> EmptyRoute,
     plc |-> [fail |-> {}, status |-> "NONE", card |-> 0],
     info |-> [NoReport EXCEPT !.status = "STOP"], news |-> TRUE,
     update |-> FALSE, change |-> FALSE, recv |-> 0, sameSec |-> same,
     wire |-> <<>>]

vehicleInit(f, same) == vehicleRouteTable(Fresh(f, same), 0, f)
-----------------------------------------------------------------------------
(* A frame of the PLC: its motion, whether it sees an obstacle, the card.  *)

\* frmcopystate, then the copy of plc to carInfo.plc: fault bits that the
\* route handler had set on carInfo.plc are overwritten.
frmcopystate(c, st, ob, cd) ==
    LET f == IF ob THEN c.plc.fail \cup {"MEET_OBSTACLE"}
                   ELSE c.plc.fail \ {"MEET_OBSTACLE"}
    IN  [c EXCEPT !.plc = [fail |-> f, status |-> st, card |-> cd],
                  !.info = [fail |-> f, status |-> st, obstacle |-> ob, card |-> cd,
                            count |-> c.route.count]]

PlcIsRunning(c) ==
    LET d == sea_startcar(c)
    IN  IF d.action = "STOP" THEN [d EXCEPT !.action = "RUN"] ELSE d

\* carInfo.recv only matters by recv >= RECVTIMES, so it is capped there.
recvPlcStateFrm(c, st, ob, cd) ==
    LET n == IF c.recv < RECVTIMES THEN c.recv + 1 ELSE c.recv
        d == frmcopystate(c, st, ob, cd)
    IN  IF ob \/ c.plc.card # cd \/ c.plc.status # st
        THEN [(IF st = "RUN" THEN PlcIsRunning(d) ELSE d)
                 EXCEPT !.recv = n, !.update = TRUE]
        ELSE IF n >= RECVTIMES THEN [d EXCEPT !.change = TRUE, !.recv = 0]
        ELSE [c EXCEPT !.recv = n]
-----------------------------------------------------------------------------
(* vehicleAppHandler: the report, then the route.                          *)

\* single_info.lamp becomes a copy of carInfo.plc and is sent.
carReportHandler(c) ==
    IF c.change THEN [c EXCEPT !.news = FALSE, !.change = FALSE] ELSE c

\* Slip: the table ends without a command.
EndWithoutStop(c) == [carClearRouteTable(c) EXCEPT !.info.fail = @ \cup {"END_LINE"}]

EndOfLine(c) ==
    LET d == carClearRouteTable(sea_stopcar(c))
    IN  [d EXCEPT !.info.fail = @ \cup {"END_LINE"}]

\* Slip: the last row is not the end of the line.
ActNoEnd(c, i) ==
    LET missed == IF i # c.route.index THEN {"MISS_CARD"} ELSE {}
        act    == c.route.line[i].action
    IN  [sea_turncar(c, act) EXCEPT
            !.action = act, !.route.index = i + 1, !.info.fail = @ \cup missed,
            !.waiting = IF act = "STOP" THEN WaitTicks ELSE @]
\* Slip: the car does what the row it expected says.
ActAsExpected(c, i) ==
    LET act == c.route.line[c.route.index].action
        d   == [sea_turncar(c, act) EXCEPT
                   !.action = act, !.route.index = i + 1,
                   !.info.fail = @ \cup IF i # c.route.index THEN {"MISS_CARD"} ELSE {},
                   !.waiting = IF act = "STOP" THEN WaitTicks ELSE @]
    IN  IF i + 1 >= c.route.count THEN EndOfLine(d) ELSE d

\* The car has read card number i of its table.
ActOnCard(c, i) ==
    LET missed == IF i # c.route.index THEN {"MISS_CARD"} ELSE {}
        act    == c.route.line[i].action
        d      == [sea_turncar(c, act) EXCEPT
                      !.action = act, !.route.index = i + 1,
                      !.info.fail = @ \cup missed,
                      !.waiting = IF act = "STOP" THEN WaitTicks ELSE @]
    IN  IF i + 1 >= c.route.count THEN EndOfLine(d) ELSE d

NotInTable(c) ==
    [c EXCEPT !.info.fail = @ \cup {IF c.route.count > 0 THEN "WRONG_WAY"
                                                         ELSE "EMPTY_TABLE"}]

MeetCard(c) ==
    LET d == [c EXCEPT !.card = c.info.card, !.sameSec = TRUE]
        e == IF PositionsOf(d, d.card) = {} THEN NotInTable(d)
             ELSE ActOnCard(d, carFindCardInTable(d, d.card))
    IN  [e EXCEPT !.change = TRUE, !.update = FALSE]

NewCard(c) == c.info.card # 0 /\ c.info.card # c.card

\* Slips: the STOP is not repeated; a change is not reported.
NoRepeat(c) == [c EXCEPT !.change = @ \/ c.news, !.update = FALSE]
NoNews(c) ==
    LET d == IF c.action = "STOP" /\ c.info.status # "STOP" THEN sea_stopcar(c) ELSE c
    IN  [d EXCEPT !.update = FALSE]

\* No new card: repeat the STOP until the PLC reports it, or report a change.
NoNewCard(c) ==
    LET d == IF c.action = "STOP" /\ c.info.status # "STOP"
             THEN [sea_stopcar(c) EXCEPT !.info.fail = {}, !.change = TRUE]
             ELSE [c EXCEPT !.change = @ \/ c.news]
    IN  [d EXCEPT !.update = FALSE]

carRouteEventHandler(c) ==
    CASE ~c.update                              -> c
      [] c.update /\ NewCard(c) /\ c.sameSec    -> [c EXCEPT !.update = FALSE]
      [] c.update /\ NewCard(c) /\ ~c.sameSec   -> MeetCard(c)
      [] c.update /\ ~NewCard(c)                -> NoNewCard(c)

\* news: carInfo.plc differs from single_info.lamp, the copy of it that was sent last.  The
\* copy is not kept: another motion, obstacle, card or length than that of the report is
\* news, and the rest is left open when carInfo.plc is written, for a clear resets fail in
\* the copy too, a change may undo one before it, and info leaves out magic and index.
Shown(c) == [c.info EXCEPT !.fail = {}]
Compared(c) ==
    {[c EXCEPT !.news = n] : n \in IF ~c.news /\ Shown(c) # Shown(car) THEN {TRUE} ELSE BOOLEAN}
Noted(c) == IF c.info = car.info /\ c.card = car.card THEN {c} ELSE Compared(c)

vehicleAppHandler(c) == carRouteEventHandler(IF joined THEN carReportHandler(c) ELSE c)
-----------------------------------------------------------------------------
(* The second event.  due: a report period of minutes has begun.           *)

\* Slip: the waiting time is counted down below zero.
CountDownAlways(c, due) ==
    [c EXCEPT !.change  = @ \/ (due /\ joined),
              !.waiting = IF c.action = "STOP" THEN @ - 1 ELSE 0]

vehicleTimeEventHandler(c, due) ==
    [c EXCEPT !.change  = @ \/ (due /\ joined),
              !.waiting = IF c.action = "STOP" /\ @ > 0 THEN @ - 1 ELSE 0]
-----------------------------------------------------------------------------
(* The actions.                                                            *)

Init ==
    /\ \E f \in FlashTables, same \in BOOLEAN : car = vehicleInit(f, same)
    /\ motion \in {"STOP", "RUN"} /\ under = 0 /\ joined = FALSE

\* The ring is drained one entry every DEFMSTICK ms, faster than the handlers
\* fill it: a handler runs when there is room for the two commands it may put.
Room == Len(car.wire) + 2 <= WireBound

AppHandler ==
    /\ Room
    /\ car' \in Noted(vehicleAppHandler(car))
    /\ UNCHANGED <<motion, under, joined>>

\* A frame without a card or a status is dropped, so there is none before the first card.
PlcFrame ==
    /\ Room /\ under # 0
    /\ \E ob \in BOOLEAN : car' \in Compared(recvPlcStateFrm(car, motion, ob, under))
    /\ UNCHANGED <<motion, under, joined>>

TimeEvent ==
    /\ \E due \in BOOLEAN : car' = vehicleTimeEventHandler(car, due)
    /\ UNCHANGED <<motion, under, joined>>

\* single_info.time moves on to another second (it returns to the same minute
\* and second only after an hour, which the model leaves out).
ClockTick ==
    /\ car.sameSec
    /\ car' = [car EXCEPT !.sameSec = FALSE]
    /\ UNCHANGED <<motion, under, joined>>

\* vehicleMsEventHandler, the ring not empty: a command goes out on the rs485
\* line, and the PLC obeys it or misses it.
Obeyed ==
    /\ car.wire # <<>>
    /\ motion' = Head(car.wire) /\ car' = [car EXCEPT !.wire = Tail(@)]
    /\ UNCHANGED <<under, joined>>
Missed ==
    /\ car.wire # <<>>
    /\ car' = [car EXCEPT !.wire = Tail(@)] /\ UNCHANGED <<motion, under, joined>>

\* Slip: the poll does not wake the route handler.
PollSilently == car.wire = <<>> /\ UNCHANGED vars

\* vehicleMsEventHandler, the ring empty: CAR_REQ_MSG through sea_turncar,
\* which also sets LAMP_UPDATE.
Poll ==
    /\ car.wire = <<>>
    /\ car' = [car EXCEPT !.update = TRUE]
    /\ UNCHANGED <<motion, under, joined>>

\* ezspRouterIncomingMessageHandler, one action per command for this car
\* (the response each queues in send1 is not modelled here).
SvRoute ==
    /\ joined /\ Room
    /\ \E t \in Tables : \E k \in 0..(Len(t) - 1) \div RTSENDSIZE :
          LET index == k * RTSENDSIZE
              last  == IF index + RTSENDSIZE < Len(t) THEN index + RTSENDSIZE ELSE Len(t)
          IN  car' \in Noted(vehicleRouteTable(car, index, SubSeq(t, index + 1, last)))
    /\ UNCHANGED <<motion, under, joined>>
SvOpen  == joined /\ Room /\ car' \in Noted(sea_startcar(car)) /\ UNCHANGED <<motion, under, joined>>
SvClose == joined /\ Room /\ car' = sea_stopcar(car)  /\ UNCHANGED <<motion, under, joined>>
\* carInfo.off is ledOff: the wheels are not told to stop
SvEnd   == joined /\ car' \in Noted(carClearRouteTable(car)) /\ UNCHANGED <<motion, under, joined>>
SvRpt   == joined /\ car' = [car EXCEPT !.change = TRUE] /\ UNCHANGED <<motion, under, joined>>

\* sea_updatesysconfig clears table_info, whose pages in flash hold the way home.
sea_updatesysconfig(c) == [c EXCEPT !.flash = <<>>]

\* A new configuration: CTRL, SECKEY, CHANNEL, ADDRESS and ADJUST.
SvConfig == joined /\ car' = sea_updatesysconfig(car) /\ UNCHANGED <<motion, under, joined>>

\* The power fails and returns, or ICHP_SV_REBOOT.
Reboot ==
    /\ \E same \in BOOLEAN : car' = vehicleInit(car.flash, same)
    /\ joined' = FALSE /\ UNCHANGED <<motion, under>>

\* The power fails while SaveHome writes the way home: sea_flashwrite erases the page,
\* then writes row by row.  (A table of more than one part is no way home: RTSENDSIZE
\* is 10 and HOMESIZE 5.)
PowerFails ==
    /\ joined
    /\ \E t \in Tables : Len(t) <= RTSENDSIZE /\
          LET f == vehicleRouteTable(car, 0, t).flash
          IN  /\ f # car.flash
              /\ \E n \in 0..Len(f), same \in BOOLEAN : car' = vehicleInit(SubSeq(f, 1, n), same)
    /\ joined' = FALSE /\ UNCHANGED <<motion, under>>

\* The network is lost, or joined; one with other parameters is a new configuration.
Network ==
    /\ joined' = ~joined
    /\ \/ UNCHANGED car
       \/ ~joined /\ car' = sea_updatesysconfig(car)
    /\ UNCHANGED <<motion, under>>

\* The PLC and the floor: a finished turn goes straight on, the driver's button
\* starts the car, a moving car comes to another card.
TurnDone   == motion \in Turns /\ motion' = "RUN" /\ UNCHANGED <<car, under, joined>>
LocalStart == motion = "STOP" /\ motion' = "RUN" /\ UNCHANGED <<car, under, joined>>
Travel ==
    /\ motion # "STOP"
    /\ under' \in Cards \ {under} /\ UNCHANGED <<car, motion, joined>>

Firmware == AppHandler \/ PlcFrame \/ TimeEvent \/ ClockTick \/ Poll
Radio    == SvRoute \/ SvOpen \/ SvClose \/ SvEnd \/ SvRpt \/ SvConfig \/ Network
Floor    == Obeyed \/ Missed \/ TurnDone \/ LocalStart \/ Travel

Next == Firmware \/ Radio \/ Floor \/ Reboot \/ PowerFails

\* The main loop and its timers keep running and the PLC keeps sending frames: the
\* loop comes round between two radio commands, so it also runs when there is Room.
\* The PLC does not miss the commands of the rs485 line for ever.  The timers keep
\* running as long as Ticker arms them: what this is used for is claimed for that time.
Fairness ==
    /\ SF_vars(AppHandler) /\ SF_vars(PlcFrame) /\ WF_vars(ClockTick) /\ WF_vars(Poll)
    /\ WF_vars(Obeyed \/ Missed) /\ SF_vars(Obeyed)

Spec     == Init /\ [][Next]_vars
FairSpec == Spec /\ Fairness
-----------------------------------------------------------------------------
(* What must hold.                                                         *)

TypeOK ==
    /\ car.status \in Motions \cup {"NONE"} /\ car.card \in Cards \cup {0}
    /\ car.action \in Motions \cup {"NONE"} /\ car.waiting \in 0..WaitTicks
    /\ car.homeway \in 0..HOMESIZE
    /\ car.route \in [count : 0..MAXPATH-1, index : 0..MAXPATH-1,
                      line : [0..MAXPATH-1 -> Entries \cup {Blank}]]
    /\ car.info.fail \subseteq Faults /\ car.plc.fail \subseteq {"MEET_OBSTACLE"}
    /\ car.recv \in 0..RECVTIMES
    /\ Len(car.wire) <= WireBound + 1
    /\ motion \in Motions /\ under \in Cards \cup {0} /\ joined \in BOOLEAN

\* The step the car expects next is a row of its table, and a car without a
\* table is at step 0, whatever mixture of downloads, missed cards, end of line,
\* clears and reboots came before (carRouteEventHandler reads line[index]).
RouteWindow ==
    IF car.route.count = 0 THEN car.route.index = 0
                           ELSE car.route.index < car.route.count

\* While the waiting time of a station runs, the command the PLC got last is STOP:
\* no OPEN, no PLC frame and no download starts the car early.
WaitingHolds == car.action = "STOP" /\ car.waiting > 0 => car.status = "STOP"

\* The way home in flash is the one in RAM, so a reboot changes nothing, unless a new
\* configuration has erased it: not even a power failure while it is written leaves a
\* car with another way home than the next reboot would give it.
HomeSaved == car.flash # <<>> => car.home = car.flash

\* The length a car reports is the length of the table it follows, although
\* carInfo.plc is overwritten from three places.
CountReported == car.info.count = car.route.count

\* A car whose table ends is told to stop, and nothing after it, whatever mixture of
\* downloads or torn way home the table is and whatever its last row says.
LineEndStops ==
    [][car.route.count > 0 /\ car'.route.count = 0 /\ ~SvEnd /\ ~Reboot /\ ~PowerFails =>
          car'.wire # <<>> /\ car'.wire[Len(car'.wire)] = "STOP"]_vars

\* The car does what the row of the card it reads says, although that card may come late,
\* twice, out of its turn or between the parts of a download, and only what Follower
\* allows ever changes its step, its action, its last command or its stay at a station.
F == INSTANCE Follower WITH route <- car.route, action <- car.action,
                            status <- car.status, waiting <- car.waiting
FollowerSpec == F!Spec

\* A car told to stop at a station stops although the rs485 line loses commands
\* (the STOP is repeated), unless an OPEN or the next card sends it on, or the PLC
\* reports running and the station is given up.
Stopping == car.action = "STOP" /\ car.status = "STOP"
StationStop == Stopping ~> motion = "STOP" \/ ~Stopping

\* A car that stays on a card acts on it, although its frame came in the second of the card
\* before and was put off, or before the last restart: the card that vehicleAppHandler acted
\* on last is in the end the one the car is on.
Restarted == Reboot \/ PowerFails
CardActedOn ==
    \A k \in Cards : <>[](under = k) /\ <>[][~Restarted]_vars => <>[](car.card = k)

\* A car that stays in the network and whose state differs from the last report
\* keeps reporting.
Report == joined /\ car.change /\ AppHandler
ReportsSettle == <>[](joined /\ car.news) => []<><<Report>>_vars
=============================================================================
