------------------------- MODULE VehicleStepProofs -------------------------
(***************************************************************************)
(* What a step does to the table of the car: most steps keep it; the route *)
(* handler goes on by one row, jumps and says so, or clears the table      *)
(* behind a STOP; a download lets the step stand and the table grow.       *)
(***************************************************************************)
EXTENDS VehicleProofs

\* What the route handler does with the table.
RouteStep(c, d) ==
    \/ d.route = c.route
    \/ d.route = EmptyRoute /\ d.wire # <<>> /\ d.wire[Len(d.wire)] = "STOP"
    \/ d.route.count = c.route.count /\ d.route.index = c.route.index + 1
    \/ d.route.count = c.route.count /\ "MISS_CARD" \in d.info.fail
-----------------------------------------------------------------------------
(* Steps that keep the table.                                              *)

\* A command to the PLC does not touch it.
LEMMA CommandKeeps ==
    ASSUME NEW c \in CarType, NEW cmd \in Motions
    PROVE  /\ Put(c, cmd).route = c.route /\ sea_startcar(c).route = c.route
           /\ sea_stopcar(c).route = c.route /\ sea_turncar(c, cmd).route = c.route
BY DEF Put, sea_startcar, sea_stopcar, sea_turncar, CarType, Motions

\* A report and the events that set a flag do not.
LEMMA FlagsKeep ==
    ASSUME NEW c \in CarType, NEW x, NEW y
    PROVE  /\ [c EXCEPT !.recv = x].route = c.route
           /\ [c EXCEPT !.recv = x, !.update = y].route = c.route
           /\ [c EXCEPT !.change = x, !.recv = y].route = c.route
           /\ [c EXCEPT !.change = x, !.update = y].route = c.route
           /\ [c EXCEPT !.change = x, !.waiting = y].route = c.route
           /\ [c EXCEPT !.update = x].route = c.route
           /\ [c EXCEPT !.change = x].route = c.route
           /\ [c EXCEPT !.sameSec = x].route = c.route
           /\ [c EXCEPT !.action = x].route = c.route
           /\ [c EXCEPT !.flash = x].route = c.route
           /\ [c EXCEPT !.wire = x].route = c.route
           /\ \A e \in NewsOf(c) : e.route = c.route /\ e.info = c.info /\ e.wire = c.wire
BY DEF CarType, NewsOf

\* A frame of the PLC does not.
LEMMA FrameKeeps ==
    ASSUME NEW c, Good(c), NEW st \in Motions, NEW ob \in BOOLEAN, NEW cd \in Cards
    PROVE  recvPlcStateFrm(c, st, ob, cd).route = c.route
<1> DEFINE n == IF c.recv < RECVTIMES THEN c.recv + 1 ELSE c.recv
           d == frmcopystate(c, st, ob, cd)
           s == sea_startcar(d)
           e == IF st = "RUN" THEN PlcIsRunning(d) ELSE d
<1>1. c \in CarType /\ Good(d) /\ d \in CarType
  BY CopyGood DEF Good
<1>2. d.route = c.route
  BY <1>1 DEF frmcopystate, CarType
<1>3. s \in CarType /\ s.route = d.route
  <2>1. Good(s)
    BY <1>1, StartGood
  <2>2. "RUN" \in Motions
    BY DEF Motions
  <2>3. s.route = d.route
    BY <1>1, <2>2, CommandKeeps
  <2> QED
    BY <2>1, <2>3 DEF Good
<1>4. PlcIsRunning(d) \in {s, [s EXCEPT !.action = "RUN"]}
  BY DEF PlcIsRunning
<1>5. recvPlcStateFrm(c, st, ob, cd) \in
        {[e EXCEPT !.recv = n, !.update = TRUE], [d EXCEPT !.change = TRUE, !.recv = 0], [c EXCEPT !.recv = n]}
  BY DEF recvPlcStateFrm
<1> HIDE DEF d, s, n
<1>6. PlcIsRunning(d) \in CarType /\ PlcIsRunning(d).route = d.route
  <2>1. PlcIsRunning(d) \in CarType
    BY <1>1, RunningGood DEF Good
  <2>2. [s EXCEPT !.action = "RUN"].route = s.route
    BY <1>3 DEF CarType
  <2> QED
    BY <1>3, <1>4, <2>1, <2>2
<1>7. e \in CarType /\ e.route = c.route
  BY <1>1, <1>2, <1>6
<1> HIDE DEF e
<1>8. [e EXCEPT !.recv = n, !.update = TRUE].route = e.route
  BY <1>7 DEF CarType
<1>9. [d EXCEPT !.change = TRUE, !.recv = 0].route = d.route
  BY <1>1 DEF CarType
<1>10. [c EXCEPT !.recv = n].route = c.route
  BY <1>1 DEF CarType
<1> QED
  BY <1>2, <1>5, <1>7, <1>8, <1>9, <1>10
-----------------------------------------------------------------------------
(* The route handler.                                                      *)

\* A car that is told to stop has the STOP as its last command.
LEMMA StopIsLast ==
    ASSUME NEW c \in CarType
    PROVE  LET w == sea_stopcar(c).wire IN w # <<>> /\ w[Len(w)] = "STOP"
<1>1. c.wire \in Seq(Motions) /\ "STOP" \in Motions
  BY DEF CarType, Motions
<1>2. /\ Append(c.wire, "STOP") # <<>> /\ Len(Append(c.wire, "STOP")) = Len(c.wire) + 1
      /\ Append(c.wire, "STOP")[Len(c.wire) + 1] = "STOP"
  BY <1>1, AppendProperties
<1>3. sea_stopcar(c).wire = IF c.wire # <<>> /\ c.wire[Len(c.wire)] = "STOP"
                            THEN c.wire ELSE Append(c.wire, "STOP")
  BY DEF sea_stopcar, Put, CarType
<1> QED
  BY <1>2, <1>3

\* The end of a line: the table is cleared behind a STOP.
LEMMA EndRoute ==
    ASSUME NEW c \in CarType, Len(c.flash) <= HOMESIZE, Saved(c)
    PROVE  LET e == EndOfLine(c)
           IN  e.route = EmptyRoute /\ e.wire # <<>> /\ e.wire[Len(e.wire)] = "STOP"
<1> DEFINE s == sea_stopcar(c)
           d == carClearRouteTable(s)
<1>1. s \in CarType /\ s.flash = c.flash /\ s.home = c.home
  BY StopType
<1>2. d \in CarType /\ d.wire = s.wire
  BY <1>1, ClearGood DEF Saved, Good
<1>3. d.route = EmptyRoute
  BY <1>1 DEF carClearRouteTable, CarType
<1>4. s.wire # <<>> /\ s.wire[Len(s.wire)] = "STOP"
  BY StopIsLast
<1>5. EndOfLine(c) = [d EXCEPT !.info = [d.info EXCEPT !.fail = @ \cup {"END_LINE"}]]
  BY <1>2 DEF EndOfLine, CarType
<1> HIDE DEF s, d
<1>6. EndOfLine(c).route = EmptyRoute /\ EndOfLine(c).wire = s.wire
  BY <1>2, <1>3, <1>5 DEF CarType
<1> QED
  BY <1>4, <1>6

\* At card i the table moves on to the row behind it; a row that was not expected is
\* reported.
LEMMA ActRoute ==
    ASSUME NEW c, Good(c), NEW i \in 0..c.route.count-1, c.route.line[i] \in Entries
    PROVE  RouteStep(c, ActOnCard(c, i))
<1> DEFINE missed == IF i # c.route.index THEN {"MISS_CARD"} ELSE {}
           act == c.route.line[i].action
           s   == sea_turncar(c, act)
           t   == [s.route EXCEPT !.index = i + 1]
           r   == [s.info EXCEPT !.fail = @ \cup missed]
           n   == IF act = "STOP" THEN WaitTicks ELSE s.waiting
           d   == [s EXCEPT !.action = act, !.route.index = i + 1, !.info.fail = @ \cup missed,
                            !.waiting = IF act = "STOP" THEN WaitTicks ELSE @]
           w   == Put(c, act).wire
<1>1. c \in CarType /\ act \in Motions /\ act \in States
  BY DEF Good, Entries, Actions, Turns, Motions, States
<1>2. w \in Seq(Motions) /\ Put(c, act) = [c EXCEPT !.wire = w]
  BY <1>1, PutType
<1>3. /\ s \in CarType /\ s.route = c.route /\ s.flash = c.flash /\ s.home = c.home
  BY <1>1, <1>2 DEF sea_turncar, CarType
<1>4. ActOnCard(c, i) = IF i + 1 >= c.route.count THEN EndOfLine(d) ELSE d
  BY DEF ActOnCard
<1>5. d = [s EXCEPT !.action = act, !.route = t, !.info = r, !.waiting = n]
  BY <1>3 DEF CarType
<1>6. t \in RouteType /\ t.count = c.route.count /\ t.index = i + 1
  <2>1. i + 1 \in 0..MAXPATH-1
    BY <1>1, VehicleAssumption DEF CarType, RouteType
  <2> QED
    BY <1>1, <1>3, <2>1 DEF CarType, RouteType
<1>7. r \in InfoType /\ missed \subseteq r.fail
  BY <1>3 DEF CarType, InfoType, Faults
<1>8. n \in 0..WaitTicks
  BY <1>3, VehicleAssumption DEF CarType
<1> HIDE DEF act, s, t, r, n, d
<1>9. d \in CarType
  BY <1>1, <1>3, <1>5, <1>6, <1>7, <1>8 DEF CarType
<1>10. d.route = t /\ d.info = r /\ d.flash = c.flash /\ d.home = c.home
  BY <1>3, <1>5 DEF CarType
<1>11. CASE i + 1 >= c.route.count
  <2>1. Len(d.flash) <= HOMESIZE /\ Saved(d)
    BY <1>10 DEF Good, Saved
  <2>2. LET e == EndOfLine(d)
        IN  e.route = EmptyRoute /\ e.wire # <<>> /\ e.wire[Len(e.wire)] = "STOP"
    BY <1>9, <2>1, EndRoute
  <2> QED
    BY <1>4, <1>11, <2>2 DEF RouteStep
<1>12. CASE ~(i + 1 >= c.route.count)
  <2>1. ActOnCard(c, i) = d /\ c.route.index \in Nat
    BY <1>1, <1>4, <1>12, VehicleAssumption DEF CarType, RouteType
  <2>2. CASE i = c.route.index
    BY <1>6, <1>10, <2>1, <2>2 DEF RouteStep
  <2>3. CASE i # c.route.index
    <3>1. "MISS_CARD" \in r.fail
      BY <1>7, <2>3
    <3> QED
      BY <1>6, <1>10, <2>1, <3>1 DEF RouteStep
  <2> QED
    BY <2>2, <2>3
<1> QED
  BY <1>11, <1>12

\* A new card, in the table or not.
LEMMA MeetRoute ==
    ASSUME NEW c, Good(c), NewCard(c)
    PROVE  RouteStep(c, MeetCard(c))
<1> DEFINE d == [c EXCEPT !.card = c.info.card, !.sameSec = TRUE]
           i == carFindCardInTable(d, d.card)
           e == IF PositionsOf(d, d.card) = {} THEN NotInTable(d) ELSE ActOnCard(d, i)
<1>1. c \in CarType /\ c.info.card \in Cards
  <2>1. c \in CarType /\ c.info \in InfoType
    BY DEF Good, CarType
  <2> QED
    BY <2>1 DEF NewCard, InfoType
<1>2. /\ d \in CarType /\ d.route = c.route /\ d.info = c.info /\ d.action = c.action
      /\ d.waiting = c.waiting /\ d.status = c.status /\ d.flash = c.flash /\ d.home = c.home
      /\ d.wire = c.wire /\ d.card = c.info.card
  BY <1>1 DEF CarType
<1>3. MeetCard(c) = [e EXCEPT !.change = TRUE, !.update = FALSE]
  BY DEF MeetCard
<1> HIDE DEF d
<1>4. Good(d)
  BY <1>2 DEF Good, Window, Holds, Reported, Saved
<1>5. CASE PositionsOf(d, d.card) = {}
  <2>1. e = NotInTable(d)
    BY <1>5
  <2>2. MeetCard(c).route = d.route
    BY <1>2, <1>3, <2>1 DEF NotInTable, CarType
  <2> QED
    BY <1>2, <2>2 DEF RouteStep
<1>6. CASE PositionsOf(d, d.card) # {}
  <2>1. i \in 0..d.route.count-1 /\ d.route.line[i].id = d.card
    BY <1>2, <1>6, FindCard DEF PositionsOf
  <2>2. d.route.count \in 0..MAXPATH-1 /\ d.route.line \in [0..MAXPATH-1 -> Rows]
    BY <1>2 DEF CarType, RouteType
  <2>3. d.route.line[i] \in Rows /\ d.card # 0
    BY <1>1, <1>2, <2>1, <2>2, VehicleAssumption
  <2>4. d.route.line[i] \in Entries
    BY <2>1, <2>3 DEF Rows, Blank
  <2> HIDE DEF i
  <2>5. RouteStep(d, ActOnCard(d, i)) /\ ActOnCard(d, i) \in CarType
    BY <1>4, <2>1, <2>4, ActRoute, ActGood DEF Good
  <2>6. e = ActOnCard(d, i)
    BY <1>6
  <2> HIDE DEF e
  <2>7. MeetCard(c).route = e.route /\ MeetCard(c).wire = e.wire /\ MeetCard(c).info = e.info
    BY <1>3, <2>5, <2>6 DEF CarType
  <2> QED
    BY <1>2, <2>5, <2>6, <2>7 DEF RouteStep
<1> QED
  BY <1>5, <1>6

\* No new card: the table stays.
LEMMA NoNewCardKeeps ==
    ASSUME NEW c, Good(c)
    PROVE  NoNewCard(c).route = c.route
<1> DEFINE s == sea_stopcar(c)
<1>1. c \in CarType /\ s \in CarType /\ s.route = c.route
  BY StopType DEF Good
<1>2. NoNewCard(c) \in {[[s EXCEPT !.info.fail = {}, !.change = TRUE] EXCEPT !.update = FALSE],
                        [[c EXCEPT !.change = @ \/ c.news] EXCEPT !.update = FALSE]}
  BY DEF NoNewCard
<1> HIDE DEF s
<1>3. /\ [[s EXCEPT !.info.fail = {}, !.change = TRUE] EXCEPT !.update = FALSE].route = s.route
      /\ [[c EXCEPT !.change = @ \/ c.news] EXCEPT !.update = FALSE].route = c.route
  BY <1>1 DEF CarType
<1> QED
  BY <1>1, <1>2, <1>3

\* vehicleAppHandler, with the report before it.
LEMMA AppRoute ==
    ASSUME NEW c, Good(c)
    PROVE  RouteStep(c, vehicleAppHandler(c))
<1> DEFINE r == [c EXCEPT !.news = FALSE, !.change = FALSE]
           b == IF joined THEN carReportHandler(c) ELSE c
<1>1. c \in CarType
  BY DEF Good
<1>2. /\ r \in CarType /\ r.route = c.route /\ r.info = c.info /\ r.action = c.action
      /\ r.waiting = c.waiting /\ r.status = c.status /\ r.flash = c.flash /\ r.home = c.home /\ r.wire = c.wire
  BY <1>1 DEF CarType
<1> HIDE DEF r
<1>3. Good(r)
  BY <1>2 DEF Good, Window, Holds, Reported, Saved
<1>4. Good(b) /\ b.route = c.route
  BY <1>2, <1>3 DEF carReportHandler, r
<1>5. vehicleAppHandler(c) = carRouteEventHandler(b)
  BY DEF vehicleAppHandler
<1> HIDE DEF b
<1>6. RouteStep(b, carRouteEventHandler(b))
  <2>1. CASE ~b.update
    BY <2>1 DEF carRouteEventHandler, RouteStep
  <2>2. CASE b.update /\ NewCard(b) /\ b.sameSec
    BY <1>4, <2>2, FlagsKeep DEF carRouteEventHandler, RouteStep, Good
  <2>3. CASE b.update /\ NewCard(b) /\ ~b.sameSec
    BY <1>4, <2>3, MeetRoute DEF carRouteEventHandler
  <2>4. CASE b.update /\ ~NewCard(b)
    BY <1>4, <2>4, NoNewCardKeeps DEF carRouteEventHandler, RouteStep
  <2> QED
    BY <2>1, <2>2, <2>3, <2>4
<1> QED
  BY <1>4, <1>5, <1>6 DEF RouteStep
-----------------------------------------------------------------------------
(* Downloads and starts.                                                   *)

\* The table grows by what is written, the step stays; only an empty message clears it.
LEMMA DownloadRoute ==
    ASSUME NEW c, Good(c), NEW index \in Nat, NEW seg \in Seq(Rows)
    PROVE  LET d == vehicleRouteTable(c, index, seg)
           IN  \/ d.route.index = c.route.index /\ (c.route.count > 0 => d.route.count > 0)
               \/ seg = <<>> /\ d.route = EmptyRoute
<1> DEFINE d == StopFirst(c)
           e == WriteTable(d, index, seg)
           f == SaveHome(e, index)
           last == index + Len(seg)
           n    == IF d.route.count < last THEN last ELSE d.route.count
<1>1. Good(d) /\ d \in CarType /\ d.route = c.route /\ d.route \in RouteType
  <2>1. CASE c.status # "STOP"
    BY <2>1, StopGood, StopType DEF StopFirst, Good, CarType
  <2>2. CASE c.status = "STOP"
    BY <2>2 DEF StopFirst, Good, CarType
  <2> QED
    BY <2>1, <2>2
<1>2. CASE index + Len(seg) >= MAXPATH
  BY <1>2 DEF vehicleRouteTable
<1>3. CASE ~(index + Len(seg) >= MAXPATH) /\ index = 0 /\ seg = <<>>
  <2>1. carClearRouteTable(d).route = EmptyRoute
    BY <1>1 DEF carClearRouteTable, CarType
  <2> QED
    BY <1>3, <2>1 DEF vehicleRouteTable
<1>4. CASE ~(index + Len(seg) >= MAXPATH) /\ ~(index = 0 /\ seg = <<>>)
  <2>1. index + Len(seg) < MAXPATH
    BY <1>4, LenProperties, VehicleAssumption
  <2>2. e.route.index = d.route.index /\ e.route.count = n
    BY <1>1 DEF WriteTable, CarType, RouteType
  <2>3. Good(e) /\ e \in CarType
    BY <1>1, <2>1, WriteGood DEF Good
  <2>4. vehicleRouteTable(c, index, seg) = [f EXCEPT !.change = TRUE]
    BY <1>4 DEF vehicleRouteTable
  <2>5. f \in CarType
    BY <2>3, SaveHomeGood DEF Good
  <2> HIDE DEF d, e
  <2>6. f.route = e.route
    BY <2>3 DEF SaveHome, CarType
  <2>7. vehicleRouteTable(c, index, seg).route = f.route
    BY <2>4, <2>5 DEF CarType
  <2>8. c.route.count > 0 => n > 0
    BY <1>1, LenProperties, VehicleAssumption DEF RouteType
  <2> QED
    BY <1>1, <2>2, <2>6, <2>7, <2>8
<1> QED
  BY <1>2, <1>3, <1>4

\* A car that is switched on expects the first row.
LEMMA InitRoute ==
    ASSUME NEW f \in Seq(Rows), Len(f) <= HOMESIZE, NEW same \in BOOLEAN
    PROVE  vehicleInit(f, same).route.index = 0
<1> DEFINE c == Fresh(f, same)
<1>1. Good(c) /\ c.route = EmptyRoute
  BY FreshGood DEF Fresh
<1> HIDE DEF c
<1>2. LET d == vehicleRouteTable(c, 0, f)
      IN  d.route.index = c.route.index \/ d.route = EmptyRoute
  BY <1>1, DownloadRoute
<1> QED
  BY <1>1, <1>2 DEF vehicleInit, EmptyRoute, c
-----------------------------------------------------------------------------
(* The steps of the specification.                                         *)

\* A part of a table that is sent has a row.
LEMMA PartNotEmpty ==
    ASSUME NEW t \in Tables, NEW k \in 0..(Len(t) - 1) \div RTSENDSIZE
    PROVE  LET index == k * RTSENDSIZE
               last  == IF index + RTSENDSIZE < Len(t) THEN index + RTSENDSIZE ELSE Len(t)
           IN  /\ index \in Nat /\ SubSeq(t, index + 1, last) \in Seq(Rows)
               /\ SubSeq(t, index + 1, last) # <<>>
<1> DEFINE index == k * RTSENDSIZE
           last  == IF index + RTSENDSIZE < Len(t) THEN index + RTSENDSIZE ELSE Len(t)
<1>1. index \in Nat /\ SubSeq(t, index + 1, last) \in Seq(Rows)
  BY PartOfTable
<1>2. t \in Seq(Entries) /\ Len(t) \in Nat /\ k \in Nat /\ RTSENDSIZE \in Nat \ {0}
  BY VehicleAssumption, LenProperties
<1>3. index <= Len(t) - 1
  BY <1>2
<1> HIDE DEF index
<1>4. last \in Nat /\ index + 1 <= last /\ last <= Len(t)
  BY <1>1, <1>2, <1>3
<1> HIDE DEF last
<1>5. \A i \in index + 1..last : t[i] \in Entries
  BY <1>1, <1>2, <1>4, ElementOfSeq
<1>6. Len(SubSeq(t, index + 1, last)) = last - index
  BY <1>1, <1>4, <1>5, SubSeqProperties
<1>7. SubSeq(t, index + 1, last) # <<>>
  BY <1>1, <1>4, <1>6, EmptySeq
<1> QED
  BY <1>1, <1>7 DEF index, last

\* What a step may do to the table.
Keeps    == car'.route = car.route
Routes   == RouteStep(car, car')
Loads    == car'.route.index = car.route.index /\ (car.route.count > 0 => car'.route.count > 0)
Restarts == (SvEnd \/ Reboot \/ PowerFails) /\ car'.route.index = 0

LEMMA EveryStep ==
    ASSUME VehicleInv, [Next]_vars
    PROVE  Keeps \/ Routes \/ Loads \/ Restarts
<1>1. Good(car) /\ car \in CarType
  BY DEF VehicleInv, Good
<1> USE NotedNews
<1>2. CASE AppHandler
  <2>1. car' \in Noted(vehicleAppHandler(car)) /\ RouteStep(car, vehicleAppHandler(car))
    BY <1>1, <1>2, AppRoute DEF AppHandler
  <2>2. vehicleAppHandler(car) \in CarType
    BY <1>1, AppGood DEF Good
  <2>3. /\ car'.route = vehicleAppHandler(car).route /\ car'.info = vehicleAppHandler(car).info
        /\ car'.wire = vehicleAppHandler(car).wire
    BY <2>1, <2>2, FlagsKeep
  <2> QED
    BY <2>1, <2>3 DEF Routes, RouteStep
<1>3. CASE PlcFrame
  <2>1. PICK ob \in BOOLEAN : car' \in Compared(recvPlcStateFrm(car, motion, ob, under))
    BY <1>3 DEF PlcFrame
  <2>2. under \in Cards /\ motion \in Motions
    BY <1>3 DEF PlcFrame, VehicleInv
  <2>3. /\ recvPlcStateFrm(car, motion, ob, under) \in CarType
        /\ recvPlcStateFrm(car, motion, ob, under).route = car.route
    BY <1>1, <2>2, FrameGood, FrameKeeps DEF Good
  <2> QED
    BY <2>1, <2>3, FlagsKeep DEF Keeps
<1>4. CASE TimeEvent
  BY <1>1, <1>4 DEF TimeEvent, vehicleTimeEventHandler, CarType, Keeps
<1>5. CASE ClockTick \/ Poll \/ SvRpt \/ SvConfig
  BY <1>1, <1>5 DEF ClockTick, Poll, SvRpt, SvConfig, sea_updatesysconfig, CarType, Keeps
<1>6. CASE Obeyed \/ Missed
  BY <1>1, <1>6 DEF Obeyed, Missed, CarType, Keeps
<1>7. CASE SvRoute
  <2>1. PICK t \in Tables : \E k \in 0..(Len(t) - 1) \div RTSENDSIZE :
          LET index == k * RTSENDSIZE
              last  == IF index + RTSENDSIZE < Len(t) THEN index + RTSENDSIZE ELSE Len(t)
          IN  car' \in Noted(vehicleRouteTable(car, index, SubSeq(t, index + 1, last)))
    BY <1>7 DEF SvRoute
  <2>2. PICK index \in Nat, seg \in Seq(Rows) :
          seg # <<>> /\ car' \in Noted(vehicleRouteTable(car, index, seg))
    BY <2>1, PartNotEmpty, Zenon
  <2>3. vehicleRouteTable(car, index, seg) \in CarType
    BY <1>1, RouteTableGood DEF Good
  <2>4. car'.route = vehicleRouteTable(car, index, seg).route
    BY <2>2, <2>3, FlagsKeep
  <2> QED
    BY <1>1, <2>2, <2>4, DownloadRoute DEF Loads
<1>8. CASE SvOpen
  <2>1. sea_startcar(car) \in CarType /\ sea_startcar(car).route = car.route
    BY <1>1, StartGood, CommandKeeps DEF Good, Motions
  <2> QED
    BY <1>8, <2>1, FlagsKeep DEF SvOpen, Keeps
<1>9. CASE SvClose
  BY <1>1, <1>9, StopType DEF SvClose, Keeps
<1>10. CASE SvEnd
  <2>1. carClearRouteTable(car) \in CarType
    BY <1>1, ClearGood DEF Good
  <2>2. car'.route = carClearRouteTable(car).route
    BY <1>10, <2>1, FlagsKeep DEF SvEnd
  <2>3. carClearRouteTable(car).route = EmptyRoute
    BY <1>1 DEF carClearRouteTable, CarType
  <2> QED
    BY <1>10, <2>2, <2>3 DEF Restarts, EmptyRoute
<1>11. CASE Reboot
  <2>1. car.flash \in Seq(Rows) /\ Len(car.flash) <= HOMESIZE
    BY <1>1 DEF Good, CarType
  <2> QED
    BY <1>11, <2>1, InitRoute DEF Reboot, Restarts
<1>12. CASE PowerFails
  <2>1. PICK f \in Seq(Rows), same \in BOOLEAN : Len(f) <= HOMESIZE /\ car' = vehicleInit(f, same)
    BY <1>12, TornHome
  <2> QED
    BY <1>12, <2>1, InitRoute DEF Restarts
<1>13. CASE Network
  BY <1>1, <1>13 DEF Network, sea_updatesysconfig, CarType, Keeps
<1>14. CASE TurnDone \/ LocalStart \/ Travel \/ UNCHANGED vars
  BY <1>14 DEF TurnDone, LocalStart, Travel, vars, Keeps
<1> QED
  BY <1>2, <1>3, <1>4, <1>5, <1>6, <1>7, <1>8, <1>9, <1>10, <1>11, <1>12, <1>13, <1>14
     DEF Next, Firmware, Radio, Floor

\* A car loses its table, but by END or by a start, only behind a STOP.
THEOREM LineEndsWithStop == Spec => LineEndStops
<1>1. ASSUME VehicleInv, [Next]_vars, car.route.count > 0, car'.route.count = 0,
             ~SvEnd, ~Reboot, ~PowerFails
      PROVE  car'.wire # <<>> /\ car'.wire[Len(car'.wire)] = "STOP"
  <2>1. car.route.count \in Nat
    BY <1>1, VehicleAssumption DEF VehicleInv, Good, CarType, RouteType
  <2>2. Keeps \/ Routes \/ Loads
    BY <1>1, EveryStep DEF Restarts
  <2>3. ~Keeps
    BY <1>1, <2>1, SMT DEF Keeps
  <2>4. ~Loads
    BY <1>1, <2>1, SMT DEF Loads
  <2> QED
    BY <1>1, <2>1, <2>2, <2>3, <2>4 DEF Routes, RouteStep
<1> QED
  BY <1>1, Invariance, PTL DEF Spec, LineEndStops
-----------------------------------------------------------------------------
(* Vehicle implements Follower.  Most of what a handler does to its record *)
(* is at most a command that the route does not see.                       *)

\* The last command is cmd, what Follower sees besides is as before.
Told(c, d, cmd) ==
    d.status = cmd /\ d.route = c.route /\ d.action = c.action /\ d.waiting = c.waiting
Same(c, d) == Told(c, d, c.status)

\* The four commands.
LEMMA CommandTells ==
    ASSUME NEW c \in CarType, NEW cmd \in Motions
    PROVE  /\ Told(c, sea_stopcar(c), "STOP") /\ Told(c, sea_turncar(c, cmd), cmd)
           /\ Told(c, sea_startcar(c), IF c.waiting = 0 THEN "RUN" ELSE c.status)
<1>1. c.waiting \in Nat
  BY VehicleAssumption DEF CarType
<1>2. Put(c, cmd) = [c EXCEPT !.wire = Put(c, cmd).wire]
  BY PutType
<1>3. Put(c, "STOP") = [c EXCEPT !.wire = Put(c, "STOP").wire]
  BY PutType DEF Motions
<1>4. Put(c, "RUN") = [c EXCEPT !.wire = Put(c, "RUN").wire]
  BY PutType DEF Motions
<1>5. Told(c, sea_stopcar(c), "STOP")
  BY <1>3 DEF sea_stopcar, Told, CarType
<1>6. Told(c, sea_turncar(c, cmd), cmd)
  BY <1>2 DEF sea_turncar, Told, CarType
<1>7. Told(c, sea_startcar(c), IF c.waiting = 0 THEN "RUN" ELSE c.status)
  <2>1. CASE c.waiting > 0
    BY <1>1, <2>1 DEF sea_startcar, Told
  <2>2. CASE ~(c.waiting > 0)
    BY <1>1, <1>4, <2>2 DEF sea_startcar, Told, CarType
  <2> QED
    BY <2>1, <2>2
<1> QED
  BY <1>5, <1>6, <1>7

\* What only sets flags, the ring, the flash or the reports is not seen.
LEMMA FlagsSame ==
    ASSUME NEW c \in CarType, NEW x, NEW y
    PROVE  /\ Same(c, [c EXCEPT !.recv = x]) /\ Same(c, [c EXCEPT !.recv = x, !.update = y])
           /\ Same(c, [c EXCEPT !.change = x, !.recv = y]) /\ Same(c, [c EXCEPT !.update = x])
           /\ Same(c, [c EXCEPT !.change = x, !.update = y]) /\ Same(c, [c EXCEPT !.change = x])
           /\ Same(c, [c EXCEPT !.sameSec = x]) /\ Same(c, [c EXCEPT !.card = x, !.sameSec = y])
           /\ Same(c, [c EXCEPT !.news = x, !.change = y]) /\ Same(c, [c EXCEPT !.wire = x])
           /\ Same(c, sea_updatesysconfig(c)) /\ Same(c, [c EXCEPT !.plc = x, !.info = y])
           /\ Same(c, NotInTable(c)) /\ Same(c, [c EXCEPT !.info = x])
           /\ \A e \in NewsOf(c) : Same(c, e)
BY DEF CarType, Told, Same, NewsOf, NotInTable, sea_updatesysconfig

\* A cleared table.
LEMMA ClearSeen ==
    ASSUME NEW c \in CarType
    PROVE  LET d == carClearRouteTable(c)
           IN  /\ d.route = EmptyRoute /\ d.action = "NONE"
               /\ d.status = c.status /\ d.waiting = c.waiting
BY DEF carClearRouteTable, CarType
-----------------------------------------------------------------------------
(* A frame of the PLC.                                                     *)

\* The car passes on, when the wheels run at a station; else it may be started.
Passes(c, d) ==
    /\ d.route = c.route /\ d.waiting = c.waiting
    /\ \/ d.action = c.action /\ d.status = c.status
       \/ d.action = c.action /\ c.waiting = 0 /\ d.status = "RUN"
       \/ /\ c.action = "STOP" /\ d.action = "RUN"
          /\ d.status = IF c.waiting = 0 THEN "RUN" ELSE c.status

LEMMA FramePasses ==
    ASSUME NEW c, Good(c), NEW st \in Motions, NEW ob \in BOOLEAN, NEW cd \in Cards
    PROVE  Passes(c, recvPlcStateFrm(c, st, ob, cd))
<1> DEFINE n == IF c.recv < RECVTIMES THEN c.recv + 1 ELSE c.recv
           d == frmcopystate(c, st, ob, cd)
           s == sea_startcar(d)
           p == PlcIsRunning(d)
           e == IF st = "RUN" THEN p ELSE d
<1>1. c \in CarType /\ Good(d) /\ d \in CarType /\ s \in CarType
  BY CopyGood, StartGood DEF Good
<1>2. Same(c, d)
  BY <1>1 DEF frmcopystate, CarType, Same, Told
<1>3. Told(d, s, IF d.waiting = 0 THEN "RUN" ELSE d.status)
  <2>1. "RUN" \in Motions
    BY DEF Motions
  <2> QED
    BY <1>1, <2>1, CommandTells
<1>4. p = IF s.action = "STOP" THEN [s EXCEPT !.action = "RUN"] ELSE s
  BY DEF PlcIsRunning
<1>5. recvPlcStateFrm(c, st, ob, cd) \in
        {[e EXCEPT !.recv = n, !.update = TRUE], [d EXCEPT !.change = TRUE, !.recv = 0], [c EXCEPT !.recv = n]}
  BY DEF recvPlcStateFrm
<1>6. p \in CarType
  BY <1>1, RunningGood DEF Good
<1> HIDE DEF d, s, n, p
<1>7. Passes(c, p)
  <2>1. CASE s.action = "STOP"
    BY <1>1, <1>2, <1>3, <1>4, <2>1 DEF Passes, Told, Same, CarType
  <2>2. CASE s.action # "STOP"
    BY <1>1, <1>2, <1>3, <1>4, <2>2 DEF Passes, Told, Same
  <2> QED
    BY <2>1, <2>2
<1>8. Passes(c, d) /\ Passes(c, c)
  BY <1>2 DEF Passes, Told, Same
<1>9. e \in CarType /\ Passes(c, e)
  BY <1>1, <1>6, <1>7, <1>8
<1> HIDE DEF e
<1>10. /\ Same(e, [e EXCEPT !.recv = n, !.update = TRUE])
       /\ Same(d, [d EXCEPT !.change = TRUE, !.recv = 0]) /\ Same(c, [c EXCEPT !.recv = n])
  BY <1>1, <1>9, FlagsSame
<1> QED
  BY <1>5, <1>8, <1>9, <1>10 DEF Passes, Told, Same
-----------------------------------------------------------------------------
(* The route handler.                                                      *)

\* Row i is read: it is the first of its card, and what it says is done.
ReadsRow(c, d, i) ==
    LET row == c.route.line[i]
    IN  /\ \A j \in 0..i-1 : c.route.line[j].id # row.id
        /\ d.waiting = IF row.action = "STOP" THEN WaitTicks ELSE c.waiting
        /\ \/ /\ i + 1 < c.route.count /\ d.action = row.action /\ d.status = row.action
              /\ d.route = [c.route EXCEPT !.index = i + 1]
           \/ /\ i + 1 = c.route.count /\ d.action = "NONE" /\ d.status = "STOP"
              /\ d.route = EmptyRoute
Reads(c, d) == \E i \in 0..c.route.count-1 : ReadsRow(c, d, i)

Handles(c, d) == Same(c, d) \/ Told(c, d, "STOP") \/ Reads(c, d)

LEMMA EndSeen ==
    ASSUME NEW c \in CarType, Len(c.flash) <= HOMESIZE, Saved(c)
    PROVE  LET e == EndOfLine(c)
           IN  /\ e.route = EmptyRoute /\ e.action = "NONE"
               /\ e.status = "STOP" /\ e.waiting = c.waiting
<1> DEFINE s == sea_stopcar(c)
           d == carClearRouteTable(s)
           r == [d.info EXCEPT !.fail = @ \cup {"END_LINE"}]
<1>1. s \in CarType /\ s.flash = c.flash /\ s.home = c.home /\ Told(c, s, "STOP")
  BY StopType, CommandTells DEF Motions
<1>2. d \in CarType
  BY <1>1, ClearGood DEF Saved, Good
<1>3. /\ d.route = EmptyRoute /\ d.action = "NONE"
      /\ d.status = s.status /\ d.waiting = s.waiting
  BY <1>1, ClearSeen
<1>4. EndOfLine(c) = [d EXCEPT !.info = r]
  BY <1>2 DEF EndOfLine, CarType
<1> HIDE DEF s, d, r
<1>5. Same(d, EndOfLine(c))
  BY <1>2, <1>4, FlagsSame
<1> QED
  BY <1>1, <1>3, <1>5 DEF Told, Same

\* The car does what the first row with the card says.
LEMMA ActReads ==
    ASSUME NEW c, Good(c), NEW i \in 0..c.route.count-1, c.route.line[i] \in Entries,
           \A j \in 0..i-1 : c.route.line[j].id # c.route.line[i].id
    PROVE  ReadsRow(c, ActOnCard(c, i), i)
<1> DEFINE missed == IF i # c.route.index THEN {"MISS_CARD"} ELSE {}
           act == c.route.line[i].action
           s   == sea_turncar(c, act)
           t   == [s.route EXCEPT !.index = i + 1]
           r   == [s.info EXCEPT !.fail = @ \cup missed]
           n   == IF act = "STOP" THEN WaitTicks ELSE s.waiting
           d   == [s EXCEPT !.action = act, !.route.index = i + 1, !.info.fail = @ \cup missed,
                            !.waiting = IF act = "STOP" THEN WaitTicks ELSE @]
           w   == Put(c, act).wire
<1>1. c \in CarType /\ act \in Motions /\ act \in States
  BY DEF Good, Entries, Actions, Turns, Motions, States
<1>2. w \in Seq(Motions) /\ Put(c, act) = [c EXCEPT !.wire = w]
  BY <1>1, PutType
<1>3. s \in CarType /\ s.flash = c.flash /\ s.home = c.home /\ Told(c, s, act)
  BY <1>1, <1>2, CommandTells DEF sea_turncar, CarType
<1>4. ActOnCard(c, i) = IF i + 1 >= c.route.count THEN EndOfLine(d) ELSE d
  BY DEF ActOnCard
<1>5. d = [s EXCEPT !.action = act, !.route = t, !.info = r, !.waiting = n]
  BY <1>3 DEF CarType
<1>6. t \in RouteType /\ t = [c.route EXCEPT !.index = i + 1]
  <2>1. i + 1 \in 0..MAXPATH-1
    BY <1>1, VehicleAssumption DEF CarType, RouteType
  <2> QED
    BY <1>3, <2>1 DEF CarType, RouteType, Told
<1>7. r \in InfoType
  BY <1>3 DEF CarType, InfoType, Faults
<1>8. n \in 0..WaitTicks
  BY <1>3, VehicleAssumption DEF CarType
<1> HIDE DEF s, t, r, n, d
<1>9. d \in CarType
  BY <1>1, <1>3, <1>5, <1>6, <1>7, <1>8 DEF CarType
<1>10. /\ d.route = t /\ d.action = act /\ d.status = s.status /\ d.waiting = n
       /\ d.flash = c.flash /\ d.home = c.home
  BY <1>3, <1>5 DEF CarType
<1>11. n = IF act = "STOP" THEN WaitTicks ELSE c.waiting
  BY <1>3 DEF n, Told
<1>12. c.route.count \in Nat /\ i \in Nat
  BY <1>1, VehicleAssumption DEF CarType, RouteType
<1>13. CASE i + 1 >= c.route.count
  <2>1. Len(d.flash) <= HOMESIZE /\ Saved(d)
    BY <1>10 DEF Good, Saved
  <2>2. LET e == EndOfLine(d)
        IN  /\ e.route = EmptyRoute /\ e.action = "NONE"
            /\ e.status = "STOP" /\ e.waiting = d.waiting
    BY <1>9, <2>1, EndSeen
  <2>3. i + 1 = c.route.count
    BY <1>12, <1>13
  <2> QED
    BY <1>4, <1>10, <1>11, <1>13, <2>2, <2>3 DEF ReadsRow
<1>14. CASE ~(i + 1 >= c.route.count)
  BY <1>3, <1>4, <1>6, <1>10, <1>11, <1>12, <1>14 DEF ReadsRow, Told
<1> QED
  BY <1>13, <1>14

LEMMA MeetHandles ==
    ASSUME NEW c, Good(c), NewCard(c)
    PROVE  Handles(c, MeetCard(c))
<1> DEFINE d == [c EXCEPT !.card = c.info.card, !.sameSec = TRUE]
           i == carFindCardInTable(d, d.card)
           e == IF PositionsOf(d, d.card) = {} THEN NotInTable(d) ELSE ActOnCard(d, i)
<1>1. c \in CarType /\ c.info.card \in Cards
  <2>1. c \in CarType /\ c.info \in InfoType
    BY DEF Good, CarType
  <2> QED
    BY <2>1 DEF NewCard, InfoType
<1>2. /\ d \in CarType /\ d.route = c.route /\ d.info = c.info /\ d.action = c.action
      /\ d.waiting = c.waiting /\ d.status = c.status /\ d.flash = c.flash /\ d.home = c.home
      /\ d.card = c.info.card
  BY <1>1 DEF CarType
<1>3. MeetCard(c) = [e EXCEPT !.change = TRUE, !.update = FALSE]
  BY DEF MeetCard
<1> HIDE DEF d
<1>4. Good(d) /\ Same(c, d)
  BY <1>2 DEF Good, Window, Holds, Reported, Saved, Same, Told
<1>5. CASE PositionsOf(d, d.card) = {}
  <2>1. e = NotInTable(d)
    BY <1>5
  <2>2. Same(d, MeetCard(c))
    BY <1>2, <1>3, <2>1 DEF NotInTable, CarType, Same, Told
  <2> QED
    BY <1>4, <2>2 DEF Handles, Same, Told
<1>6. CASE PositionsOf(d, d.card) # {}
  <2>1. /\ i \in 0..d.route.count-1 /\ d.route.line[i].id = d.card
        /\ \A j \in PositionsOf(d, d.card) : i <= j
    BY <1>2, <1>6, FindCard DEF PositionsOf
  <2>2. d.route.count \in 0..MAXPATH-1 /\ d.route.line \in [0..MAXPATH-1 -> Rows]
    BY <1>2 DEF CarType, RouteType
  <2>3. d.route.line[i] \in Rows /\ d.card # 0
    BY <1>1, <1>2, <2>1, <2>2, VehicleAssumption
  <2>4. d.route.line[i] \in Entries
    BY <2>1, <2>3 DEF Rows, Blank
  <2> HIDE DEF i
  <2>5. \A j \in 0..i-1 : d.route.line[j].id # d.route.line[i].id
    <3>1. SUFFICES ASSUME NEW j \in 0..i-1, d.route.line[j].id = d.card PROVE FALSE
      BY <2>1
    <3>2. j \in 0..d.route.count-1 /\ j < i
      BY <2>1, <2>2, VehicleAssumption
    <3> QED
      BY <2>1, <2>2, <3>1, <3>2, VehicleAssumption DEF PositionsOf
  <2>6. ReadsRow(d, ActOnCard(d, i), i) /\ ActOnCard(d, i) \in CarType
    BY <1>4, <2>1, <2>4, <2>5, ActReads, ActGood DEF Good
  <2>7. e = ActOnCard(d, i)
    BY <1>6
  <2> HIDE DEF e
  <2>8. Same(e, MeetCard(c))
    BY <1>3, <2>6, <2>7 DEF CarType, Same, Told
  <2>9. ReadsRow(c, MeetCard(c), i)
    BY <1>4, <2>6, <2>7, <2>8 DEF ReadsRow, Same, Told
  <2> QED
    BY <1>2, <2>1, <2>9 DEF Handles, Reads
<1> QED
  BY <1>5, <1>6

LEMMA NoNewCardHandles ==
    ASSUME NEW c, Good(c)
    PROVE  Handles(c, NoNewCard(c))
<1> DEFINE s == sea_stopcar(c)
<1>1. c \in CarType /\ s \in CarType /\ Told(c, s, "STOP")
  BY StopType, CommandTells DEF Good, Motions
<1>2. NoNewCard(c) \in {[[s EXCEPT !.info.fail = {}, !.change = TRUE] EXCEPT !.update = FALSE],
                        [[c EXCEPT !.change = @ \/ c.news] EXCEPT !.update = FALSE]}
  BY DEF NoNewCard
<1> HIDE DEF s
<1>3. /\ Same(s, [[s EXCEPT !.info.fail = {}, !.change = TRUE] EXCEPT !.update = FALSE])
      /\ Same(c, [[c EXCEPT !.change = @ \/ c.news] EXCEPT !.update = FALSE])
  BY <1>1 DEF CarType, Same, Told
<1> QED
  BY <1>1, <1>2, <1>3 DEF Handles, Same, Told

LEMMA AppHandles ==
    ASSUME NEW c, Good(c)
    PROVE  Handles(c, vehicleAppHandler(c))
<1> DEFINE r == [c EXCEPT !.news = FALSE, !.change = FALSE]
           b == IF joined THEN carReportHandler(c) ELSE c
<1>1. c \in CarType
  BY DEF Good
<1>2. /\ r \in CarType /\ r.route = c.route /\ r.info = c.info /\ r.action = c.action
      /\ r.waiting = c.waiting /\ r.status = c.status /\ r.flash = c.flash /\ r.home = c.home
  BY <1>1 DEF CarType
<1> HIDE DEF r
<1>3. Good(r)
  BY <1>2 DEF Good, Window, Holds, Reported, Saved
<1>4. Good(b) /\ b \in CarType /\ Same(c, b)
  BY <1>2, <1>3 DEF carReportHandler, r, Good, Same, Told
<1>5. vehicleAppHandler(c) = carRouteEventHandler(b)
  BY DEF vehicleAppHandler
<1> HIDE DEF b
<1>6. Handles(b, carRouteEventHandler(b))
  <2>1. CASE ~b.update
    BY <2>1 DEF carRouteEventHandler, Handles, Same, Told
  <2>2. CASE b.update /\ NewCard(b) /\ b.sameSec
    BY <1>4, <2>2, FlagsSame DEF carRouteEventHandler, Handles
  <2>3. CASE b.update /\ NewCard(b) /\ ~b.sameSec
    BY <1>4, <2>3, MeetHandles DEF carRouteEventHandler
  <2>4. CASE b.update /\ ~NewCard(b)
    BY <1>4, <2>4, NoNewCardHandles DEF carRouteEventHandler
  <2> QED
    BY <2>1, <2>2, <2>3, <2>4
<1> QED
  BY <1>4, <1>5, <1>6 DEF Handles, Reads, ReadsRow, Same, Told
-----------------------------------------------------------------------------
(* Downloads and starts.                                                   *)

\* A message of a table: refused, or the car stops and has no table, or one that is not
\* shorter, of which it expects the same row as before.
LEMMA DownloadSeen ==
    ASSUME NEW c, Good(c), NEW index \in Nat, NEW seg \in Seq(Rows)
    PROVE  LET d == vehicleRouteTable(c, index, seg)
           IN  \/ Same(c, d) /\ index + Len(seg) >= MAXPATH
               \/ /\ d.status = "STOP" /\ d.waiting = c.waiting
                  /\ \/ d.action = "NONE" /\ d.route = EmptyRoute
                     \/ /\ d.action = c.action /\ d.route.index = c.route.index
                        /\ d.route.count >= c.route.count
<1> DEFINE d == StopFirst(c)
           e == WriteTable(d, index, seg)
           f == SaveHome(e, index)
           last == index + Len(seg)
           n    == IF d.route.count < last THEN last ELSE d.route.count
<1>1. Good(d) /\ d \in CarType /\ Told(c, d, "STOP")
  <2>1. CASE c.status # "STOP"
    BY <2>1, StopGood, CommandTells DEF StopFirst, Good, Motions
  <2>2. CASE c.status = "STOP"
    BY <2>2 DEF StopFirst, Good, Told
  <2> QED
    BY <2>1, <2>2
<1>2. CASE index + Len(seg) >= MAXPATH
  BY <1>2 DEF vehicleRouteTable, Same, Told
<1>3. CASE ~(index + Len(seg) >= MAXPATH) /\ index = 0 /\ seg = <<>>
  <2>1. vehicleRouteTable(c, index, seg) = carClearRouteTable(d)
    BY <1>3 DEF vehicleRouteTable
  <2> HIDE DEF d
  <2> QED
    BY <1>1, <2>1, ClearSeen DEF Told
<1>4. CASE ~(index + Len(seg) >= MAXPATH) /\ ~(index = 0 /\ seg = <<>>)
  <2>1. index + Len(seg) < MAXPATH
    BY <1>4, LenProperties, VehicleAssumption
  <2>2. /\ e.route.index = d.route.index /\ e.route.count = n
        /\ e.action = d.action /\ e.status = d.status /\ e.waiting = d.waiting
    BY <1>1 DEF WriteTable, CarType, RouteType
  <2>3. Good(e) /\ e \in CarType
    BY <1>1, <2>1, WriteGood DEF Good
  <2>4. vehicleRouteTable(c, index, seg) = [f EXCEPT !.change = TRUE]
    BY <1>4 DEF vehicleRouteTable
  <2>5. f \in CarType
    BY <2>3, SaveHomeGood DEF Good
  <2>6. n >= d.route.count
    BY <1>1, LenProperties, VehicleAssumption DEF CarType, RouteType
  <2> HIDE DEF d, e, n
  <2>7. Same(e, f)
    BY <2>3 DEF SaveHome, CarType, Same, Told
  <2> HIDE DEF f
  <2>8. Same(f, vehicleRouteTable(c, index, seg))
    BY <2>4, <2>5, FlagsSame
  <2> QED
    BY <1>1, <2>2, <2>6, <2>7, <2>8 DEF Same, Told
<1> QED
  BY <1>2, <1>3, <1>4

\* A car that is switched on.
LEMMA InitSeen ==
    ASSUME NEW f \in Seq(Rows), Len(f) <= HOMESIZE, NEW same \in BOOLEAN
    PROVE  LET c == vehicleInit(f, same)
           IN  c.route.index = 0 /\ c.action = "NONE" /\ c.status = "STOP" /\ c.waiting = 0
<1> DEFINE c == Fresh(f, same)
<1>1. Good(c) /\ c.route = EmptyRoute /\ c.action = "NONE" /\ c.waiting = 0
  BY FreshGood DEF Fresh
<1>2. ~(0 + Len(f) >= MAXPATH)
  BY LenProperties, VehicleAssumption
<1>3. vehicleInit(f, same) = vehicleRouteTable(c, 0, f)
  BY DEF vehicleInit
<1> HIDE DEF c
<1> QED
  BY <1>1, <1>2, <1>3, DownloadSeen DEF EmptyRoute
-----------------------------------------------------------------------------
(* Every step of the car is a step of Follower or not seen.                *)

FollowerStep == [F!Next]_(F!vars)

\* The car as it was, but for a command that stops it.
LEMMA ToldFollows ==
    ASSUME Same(car, car') \/ Told(car, car', "STOP")
    PROVE  FollowerStep
BY DEF Same, Told, FollowerStep, F!Next, F!vars, F!doing, F!Stop

\* A start from power off.
LEMMA RestartFollows ==
    ASSUME NEW f \in Seq(Rows), Len(f) <= HOMESIZE, NEW same \in BOOLEAN, car' = vehicleInit(f, same)
    PROVE  FollowerStep
BY InitSeen DEF FollowerStep, F!Next, F!Restart, F!Fresh

LEMMA AppFollows ==
    ASSUME VehicleInv, AppHandler PROVE FollowerStep
<1> DEFINE d == vehicleAppHandler(car)
<1>1. Good(car) /\ car' \in Noted(d)
  BY DEF VehicleInv, AppHandler
<1>2. Handles(car, d) /\ d \in CarType
  BY <1>1, AppHandles, AppGood DEF Good
<1> HIDE DEF d
<1>3. Same(d, car')
  BY <1>1, <1>2, NotedNews, FlagsSame
<1>4. CASE Same(car, d) \/ Told(car, d, "STOP")
  BY <1>3, <1>4, ToldFollows DEF Same, Told
<1>5. CASE Reads(car, d)
  <2>1. PICK i \in 0..car.route.count-1 : ReadsRow(car, car', i)
    BY <1>3, <1>5 DEF Reads, ReadsRow, Same, Told
  <2>2. F!FirstOfItsCard(i) /\ F!Stay(car.route.line[i])
    BY <2>1 DEF ReadsRow, F!FirstOfItsCard, F!Stay
  <2>3. F!Follow(i) \/ F!Arrive(i)
    BY <2>1 DEF ReadsRow, F!Follow, F!Arrive, F!Gone, EmptyRoute
  <2>4. F!Read
    BY <2>1, <2>2, <2>3 DEF F!Read
  <2> QED
    BY <2>4 DEF FollowerStep, F!Next
<1> QED
  BY <1>2, <1>4, <1>5 DEF Handles

LEMMA FrameFollows ==
    ASSUME VehicleInv, PlcFrame PROVE FollowerStep
<1>1. PICK ob \in BOOLEAN : car' \in Compared(recvPlcStateFrm(car, motion, ob, under))
  BY DEF PlcFrame
<1> DEFINE d == recvPlcStateFrm(car, motion, ob, under)
<1>2. Good(car) /\ under \in Cards /\ motion \in Motions
  BY DEF PlcFrame, VehicleInv
<1>3. d \in CarType /\ Passes(car, d)
  BY <1>2, FrameGood, FramePasses DEF Good
<1> HIDE DEF d
<1>4. Same(d, car')
  BY <1>1, <1>3, NotedNews, FlagsSame DEF d
<1>5. Passes(car, car')
  BY <1>3, <1>4 DEF Passes, Same, Told
<1> QED
  BY <1>5 DEF Passes, FollowerStep, F!Next, F!Start, F!PassOn, F!vars, F!doing

LEMMA SecondFollows ==
    ASSUME VehicleInv, TimeEvent PROVE FollowerStep
<1>1. car \in CarType
  BY DEF VehicleInv, Good
<1>2. /\ car'.route = car.route /\ car'.action = car.action /\ car'.status = car.status
      /\ car'.waiting = IF car.action = "STOP" /\ car.waiting > 0 THEN car.waiting - 1 ELSE 0
  BY <1>1 DEF TimeEvent, vehicleTimeEventHandler, CarType
<1> QED
  BY <1>2 DEF FollowerStep, F!Next, F!Second

LEMMA RadioFollows ==
    ASSUME VehicleInv, Radio PROVE FollowerStep
<1>1. Good(car) /\ car \in CarType
  BY DEF VehicleInv, Good
<1>2. CASE SvRoute
  <2>1. PICK t \in Tables : \E k \in 0..(Len(t) - 1) \div RTSENDSIZE :
          LET index == k * RTSENDSIZE
              last  == IF index + RTSENDSIZE < Len(t) THEN index + RTSENDSIZE ELSE Len(t)
          IN  car' \in Noted(vehicleRouteTable(car, index, SubSeq(t, index + 1, last)))
    BY <1>2 DEF SvRoute
  <2>2. PICK index \in Nat, seg \in Seq(Rows) : car' \in Noted(vehicleRouteTable(car, index, seg))
    BY <2>1, PartNotEmpty, Zenon
  <2> DEFINE d == vehicleRouteTable(car, index, seg)
  <2>3. d \in CarType
    BY <1>1, RouteTableGood DEF Good
  <2>4. \/ Same(car, d)
        \/ /\ d.status = "STOP" /\ d.waiting = car.waiting
           /\ \/ d.action = "NONE" /\ d.route = EmptyRoute
              \/ /\ d.action = car.action /\ d.route.index = car.route.index
                 /\ d.route.count >= car.route.count
    BY <1>1, DownloadSeen
  <2> HIDE DEF d
  <2>5. Same(d, car')
    BY <2>2, <2>3, NotedNews, FlagsSame DEF d
  <2>6. CASE Same(car, d)
    BY <2>5, <2>6, ToldFollows DEF Same, Told
  <2>7. CASE ~Same(car, d)
    <3>1. F!Clear \/ F!Load
      BY <2>4, <2>5, <2>7 DEF Same, Told, F!Clear, F!Load, F!Gone, F!doing, EmptyRoute
    <3> QED
      BY <3>1 DEF FollowerStep, F!Next
  <2> QED
    BY <2>6, <2>7
<1>3. CASE SvOpen
  <2>1. sea_startcar(car) \in CarType
    BY <1>1, StartGood DEF Good
  <2>2. Told(car, sea_startcar(car), IF car.waiting = 0 THEN "RUN" ELSE car.status)
    BY <1>1, CommandTells DEF Motions
  <2>3. Same(sea_startcar(car), car')
    BY <1>3, <2>1, NotedNews, FlagsSame DEF SvOpen
  <2> QED
    BY <2>2, <2>3 DEF Told, Same, FollowerStep, F!Next, F!Start, F!vars, F!doing
<1>4. CASE SvClose
  BY <1>1, <1>4, CommandTells, ToldFollows DEF SvClose, Motions
<1>5. CASE SvEnd
  <2>1. carClearRouteTable(car) \in CarType
    BY <1>1, ClearGood DEF Good
  <2>2. Same(carClearRouteTable(car), car')
    BY <1>5, <2>1, NotedNews, FlagsSame DEF SvEnd
  <2>3. F!Clear
    BY <1>1, <2>2, ClearSeen DEF Same, Told, F!Clear, F!Gone, EmptyRoute
  <2> QED
    BY <2>3 DEF FollowerStep, F!Next
<1>6. CASE SvRpt \/ SvConfig
  BY <1>1, <1>6, FlagsSame, ToldFollows DEF SvRpt, SvConfig
<1>7. CASE Network
  <2>1. Same(car, car)
    BY DEF Same, Told
  <2> QED
    BY <1>1, <1>7, <2>1, FlagsSame, ToldFollows DEF Network
<1> QED
  BY <1>2, <1>3, <1>4, <1>5, <1>6, <1>7 DEF Radio

LEMMA EveryStepFollows ==
    ASSUME VehicleInv, [Next]_vars PROVE FollowerStep
<1>1. car \in CarType /\ car.flash \in Seq(Rows) /\ Len(car.flash) <= HOMESIZE
  BY DEF VehicleInv, Good, CarType
<1>2. CASE ClockTick \/ Poll \/ Obeyed \/ Missed
  BY <1>1, <1>2, FlagsSame, ToldFollows DEF ClockTick, Poll, Obeyed, Missed
<1>3. CASE TurnDone \/ LocalStart \/ Travel \/ UNCHANGED vars
  BY <1>3, ToldFollows DEF TurnDone, LocalStart, Travel, vars, Same, Told
<1>4. CASE Reboot
  BY <1>1, <1>4, RestartFollows DEF Reboot
<1>5. CASE PowerFails
  BY <1>5, TornHome, RestartFollows
<1> QED
  BY <1>2, <1>3, <1>4, <1>5, AppFollows, FrameFollows, SecondFollows, RadioFollows
     DEF Next, Firmware, Floor

\* For all tables, sizes and waiting times, and whatever the radio, the line and the floor
\* do: the car does what the first row with the card it reads says (carRouteEventHandler,
\* vehicle.c:735-790), and between two cards nothing but a stop, a permitted start, a
\* download, the end of the job or a power failure changes what it is doing.
THEOREM VehicleImplementsFollower == Spec => FollowerSpec
<1>1. Init => F!Init
  <2>1. SUFFICES ASSUME Init PROVE F!Init
    OBVIOUS
  <2>2. PICK f \in FlashTables, same \in BOOLEAN : car = vehicleInit(f, same)
    BY <2>1 DEF Init
  <2>3. f \in Seq(Rows) /\ Len(f) <= HOMESIZE
    BY VehicleAssumption, SeqMonotonic, Entries \subseteq Rows DEF Rows
  <2> QED
    BY <2>2, <2>3, InitSeen DEF F!Init, F!Fresh
<1>2. VehicleInv /\ [Next]_vars => [F!Next]_(F!vars)
  BY EveryStepFollows DEF FollowerStep
<1> QED
  BY <1>1, <1>2, Invariance, PTL DEF Spec, FollowerSpec, F!Spec

\* Whatever follows a route as Follower says also waits: the stay at a station is a
\* consequence of the abstract promise, not of how the car is built.
LEMMA FollowerWaits == FollowerSpec => []F!Holds
<1>1. F!Init => F!Holds
  BY DEF F!Init, F!Fresh, F!Holds
<1>2. ASSUME F!Holds, [F!Next]_(F!vars)
      PROVE  F!Holds'
  <2>1. CASE UNCHANGED F!vars
    BY <1>2, <2>1 DEF F!Holds, F!vars, F!doing
  <2>2. CASE F!Read
    BY <2>2 DEF F!Read, F!Follow, F!Arrive, F!Holds
  <2>3. CASE F!Load \/ F!Clear \/ F!Stop \/ F!Restart
    BY <2>3 DEF F!Load, F!Clear, F!Stop, F!Restart, F!Fresh, F!Holds
  <2>4. CASE F!Start \/ F!PassOn
    BY <2>4 DEF F!Start, F!PassOn, F!Holds, F!doing
  <2>5. CASE F!Second
    BY <1>2, <2>5 DEF F!Second, F!Holds
  <2> QED
    BY <1>2, <2>1, <2>2, <2>3, <2>4, <2>5 DEF F!Next
<1> QED
  BY <1>1, <1>2, PTL DEF FollowerSpec, F!Spec
=============================================================================
