--------------------------- MODULE VehicleProofs ---------------------------
(* Theorems of Vehicle, for all tables, sizes and waiting times.  car is one *)
(* record, so the invariant is a property of a record and each operator of   *)
(* Vehicle has a lemma: a car in good state stays in good state.             *)
EXTENDS Vehicle, SequenceTheorems, WellFoundedInduction, TLAPS

Rows   == Entries \cup {Blank}
States == Motions \cup {"NONE"}

RouteType == [count : 0..MAXPATH-1, index : 0..MAXPATH-1, line : [0..MAXPATH-1 -> Rows]]
PlcType   == [fail : SUBSET {"MEET_OBSTACLE"}, status : States, card : Cards \cup {0}]
InfoType  == [fail : SUBSET Faults, status : States, obstacle : BOOLEAN,
              card : Cards \cup {0}, count : 0..MAXPATH-1]
CarType ==
    [status : States, card : Cards \cup {0}, action : States, waiting : 0..WaitTicks,
     home : Seq(Rows), homeway : 0..HOMESIZE, flash : Seq(Rows),
     route : RouteType, plc : PlcType, info : InfoType,
     news : BOOLEAN, update : BOOLEAN, change : BOOLEAN, recv : 0..RECVTIMES,
     sameSec : BOOLEAN, wire : Seq(Motions)]

\* The properties of a car that every handler keeps.
Window(c)   == IF c.route.count = 0 THEN c.route.index = 0
                                    ELSE c.route.index < c.route.count
Holds(c)    == c.action = "STOP" /\ c.waiting > 0 => c.status = "STOP"
Reported(c) == c.info.count = c.route.count
Saved(c)    == c.flash # <<>> => c.home = c.flash
Good(c) ==
    /\ c \in CarType /\ Len(c.flash) <= HOMESIZE
    /\ Window(c) /\ Holds(c) /\ Reported(c) /\ Saved(c)

Grows(c, d, n) == Len(d.wire) <= Len(c.wire) + n
-----------------------------------------------------------------------------
(* Commands to the PLC.                                                    *)

\* A command lengthens the ring by one at most.
LEMMA PutType ==
    ASSUME NEW c \in CarType, NEW cmd \in Motions
    PROVE  /\ Put(c, cmd) = [c EXCEPT !.wire = Put(c, cmd).wire]
           /\ Put(c, cmd).wire \in Seq(Motions)
           /\ Grows(c, Put(c, cmd), 1)
<1>1. c.wire \in Seq(Motions)
  BY DEF CarType
<1>2. Append(c.wire, cmd) \in Seq(Motions) /\ Len(Append(c.wire, cmd)) = Len(c.wire) + 1
  BY <1>1, AppendProperties
<1>3. Put(c, cmd).wire = IF c.wire # <<>> /\ c.wire[Len(c.wire)] = cmd
                         THEN c.wire ELSE Append(c.wire, cmd)
  BY DEF Put, CarType
<1>4. Put(c, cmd) = [c EXCEPT !.wire = Put(c, cmd).wire]
  BY <1>3 DEF Put, CarType
<1>5. Len(c.wire) \in Nat
  BY <1>1, LenProperties
<1> QED
  BY <1>1, <1>2, <1>3, <1>4, <1>5 DEF Grows

\* A car that is left alone.
LEMMA StaysGood ==
    ASSUME NEW c, Good(c)
    PROVE  Len(c.wire) \in Nat /\ Grows(c, c, 0) /\ Grows(c, c, 1) /\ Grows(c, c, 2)
<1>1. Len(c.wire) \in Nat
  BY LenProperties DEF Good, CarType
<1> QED
  BY <1>1 DEF Grows

\* single_info.on respects the waiting time.
LEMMA StartGood ==
    ASSUME NEW c, Good(c)
    PROVE  Good(sea_startcar(c)) /\ Grows(c, sea_startcar(c), 1)
<1>1. CASE c.waiting > 0
  BY <1>1, LenProperties DEF sea_startcar, Grows, Good, CarType
<1>2. CASE ~(c.waiting > 0)
  <2> DEFINE w == Put(c, "RUN").wire
             d == sea_startcar(c)
  <2>1. w \in Seq(Motions) /\ Len(w) <= Len(c.wire) + 1 /\ Put(c, "RUN") = [c EXCEPT !.wire = w]
    BY PutType DEF Good, Grows, Motions
  <2>3. c \in CarType
    BY DEF Good
  <2>2. d = [c EXCEPT !.wire = w, !.status = "RUN", !.update = TRUE,
                      !.info = [c.info EXCEPT !.fail = {}]]
    BY <1>2, <2>1, <2>3 DEF sea_startcar, CarType
  <2>6. [c.info EXCEPT !.fail = {}] \in InfoType
    BY <2>3 DEF CarType, InfoType
  <2> HIDE DEF w, d
  <2>4. d \in CarType
    BY <2>1, <2>2, <2>3, <2>6 DEF CarType, States, Motions
  <2>5. /\ d.route = c.route /\ d.action = c.action /\ d.waiting = c.waiting
        /\ d.status = "RUN" /\ d.flash = c.flash /\ d.home = c.home /\ d.info.count = c.info.count /\ d.wire = w
    BY <2>2, <2>3 DEF CarType, InfoType
  <2> QED
    BY <1>2, <2>1, <2>4, <2>5 DEF Good, Window, Holds, Reported, Saved, Grows, d
<1> QED
  BY <1>1, <1>2

\* single_info.off touches the status, the ring and a flag.
LEMMA StopType ==
    ASSUME NEW c \in CarType
    PROVE  LET d == sea_stopcar(c)
           IN  /\ d \in CarType /\ Grows(c, d, 1) /\ d.status = "STOP"
               /\ d.route = c.route /\ d.info = c.info /\ d.flash = c.flash /\ d.home = c.home
<1> DEFINE w == Put(c, "STOP").wire
           d == sea_stopcar(c)
<1>1. w \in Seq(Motions) /\ Len(w) <= Len(c.wire) + 1 /\ Put(c, "STOP") = [c EXCEPT !.wire = w]
  BY PutType DEF Grows, Motions
<1>2. d = [[c EXCEPT !.wire = w] EXCEPT !.status = "STOP", !.update = TRUE]
  BY <1>1 DEF sea_stopcar
<1> HIDE DEF w, d
<1>3. d \in CarType
  BY <1>1, <1>2 DEF CarType, States, Motions
<1>4. /\ d.route = c.route /\ d.info = c.info
      /\ d.status = "STOP" /\ d.flash = c.flash /\ d.home = c.home /\ d.wire = w
  BY <1>2 DEF CarType
<1> QED
  BY <1>1, <1>3, <1>4 DEF Grows, d

\* A stopped car is in good state whatever it waits for.
LEMMA StopGood ==
    ASSUME NEW c, Good(c)
    PROVE  Good(sea_stopcar(c)) /\ Grows(c, sea_stopcar(c), 1)
  BY StopType DEF Good, Window, Holds, Reported, Saved
-----------------------------------------------------------------------------
(* The route table.                                                        *)

\* A cleared car has no table, no action, and says so in its report.
LEMMA ClearGood ==
    ASSUME NEW c \in CarType, Len(c.flash) <= HOMESIZE, Saved(c)
    PROVE  Good(carClearRouteTable(c)) /\ carClearRouteTable(c).wire = c.wire
<1> DEFINE d == carClearRouteTable(c)
<1>1. EmptyRoute \in RouteType /\ 0 \in 0..MAXPATH-1
  BY VehicleAssumption DEF EmptyRoute, RouteType, Rows
<1>2. /\ [c.info EXCEPT !.fail = {}, !.count = 0] \in InfoType
      /\ [c.plc EXCEPT !.fail = {}] \in PlcType
  BY <1>1 DEF CarType, InfoType, PlcType
<1>6. d = [c EXCEPT !.route = EmptyRoute, !.action = "NONE",
                    !.plc = [c.plc EXCEPT !.fail = {}],
                    !.info = [c.info EXCEPT !.fail = {}, !.count = 0], !.change = TRUE]
  BY DEF carClearRouteTable, CarType
<1> HIDE DEF d
<1>3. d \in CarType
  BY <1>1, <1>2, <1>6 DEF CarType, States
<1>4. /\ d.route = EmptyRoute /\ d.info.count = 0 /\ d.action = "NONE"
      /\ d.wire = c.wire /\ d.flash = c.flash /\ d.home = c.home
  BY <1>6 DEF CarType, InfoType
<1>5. Window(d) /\ Reported(d)
  BY <1>4 DEF Window, Reported, EmptyRoute
<1> QED
  BY <1>3, <1>4, <1>5 DEF Good, Holds, Saved, d

\* Writing a segment keeps the table in its bounds and the step in the table.
LEMMA WriteGood ==
    ASSUME NEW c, Good(c), NEW index \in Nat, NEW seg \in Seq(Rows),
           index + Len(seg) < MAXPATH
    PROVE  Good(WriteTable(c, index, seg)) /\ WriteTable(c, index, seg).wire = c.wire
<1> DEFINE last == index + Len(seg)
           n    == IF c.route.count < last THEN last ELSE c.route.count
           line == [i \in 0..MAXPATH-1 |->
                       IF i \in index..last-1 THEN seg[i-index+1] ELSE c.route.line[i]]
           d    == WriteTable(c, index, seg)
<1>1. c \in CarType /\ Len(seg) \in Nat
  BY LenProperties DEF Good
<1>2. /\ c.route \in [count : 0..MAXPATH-1, index : 0..MAXPATH-1, line : [0..MAXPATH-1 -> Rows]]
      /\ c.route.count \in 0..MAXPATH-1 /\ c.route.line \in [0..MAXPATH-1 -> Rows]
      /\ c.route.index \in 0..MAXPATH-1
  BY <1>1 DEF CarType, RouteType
<1>3. n \in 0..MAXPATH-1 /\ n >= c.route.count
  BY <1>1, <1>2, VehicleAssumption
<1>4. line \in [0..MAXPATH-1 -> Rows]
  <2> SUFFICES ASSUME NEW i \in 0..MAXPATH-1
               PROVE  (IF i \in index..last-1 THEN seg[i-index+1] ELSE c.route.line[i]) \in Rows
    OBVIOUS
  <2>1. CASE i \in index..last-1
    <3>1. i-index+1 \in 1..Len(seg)
      BY <1>1, <2>1
    <3> QED
      BY <2>1, <3>1, ElementOfSeq
  <2>2. CASE i \notin index..last-1
    BY <2>2, <1>2
  <2> QED
    BY <2>1, <2>2
<1>5. d = [c EXCEPT !.route = [c.route EXCEPT !.line = line, !.count = n],
                    !.info = [c.info EXCEPT !.count = n]]
  BY <1>1 DEF WriteTable, CarType, RouteType
<1>9. /\ [c.route EXCEPT !.line = line, !.count = n] \in RouteType
      /\ [c.info EXCEPT !.count = n] \in InfoType
  BY <1>1, <1>3, <1>4 DEF CarType, RouteType, InfoType
<1> HIDE DEF line, n, d
<1>6. d \in CarType
  BY <1>1, <1>5, <1>9 DEF CarType
<1>7. /\ d.route.count = n /\ d.route.index = c.route.index /\ d.info.count = n
      /\ d.action = c.action /\ d.waiting = c.waiting /\ d.status = c.status
      /\ d.wire = c.wire /\ d.flash = c.flash /\ d.home = c.home
  BY <1>1, <1>5 DEF CarType, RouteType, InfoType
<1>8. Window(d)
  BY <1>2, <1>3, <1>7 DEF Window, Good
<1> QED
  BY <1>6, <1>7, <1>8 DEF Good, Holds, Reported, Saved, d

\* What is saved as the way home is no longer than carInfo.home.
LEMMA SaveHomeGood ==
    ASSUME NEW c, Good(c), NEW index
    PROVE  Good(SaveHome(c, index)) /\ SaveHome(c, index).wire = c.wire
<1>1. c \in CarType
  BY DEF Good
<1>2. /\ c.route.count \in 0..MAXPATH-1 /\ c.route.line \in [0..MAXPATH-1 -> Rows]
  BY <1>1 DEF CarType, RouteType
<1>3. Prefix(c) \in Seq(Rows) /\ Len(Prefix(c)) = c.route.count
  <2>1. Prefix(c) \in [1..c.route.count -> Rows]
    BY <1>2, VehicleAssumption DEF Prefix
  <2>2. c.route.count \in Nat
    BY <1>2, VehicleAssumption
  <2>3. Prefix(c) \in Seq(Rows)
    BY <2>1, <2>2, SeqDef
  <2> QED
    BY <2>1, <2>2, <2>3, LenProperties
<1>4. CASE ~IsWayHome(c, index)
  BY <1>4 DEF SaveHome
<1>5. CASE IsWayHome(c, index)
  <2> DEFINE d == SaveHome(c, index)
             n == c.route.count
             p == Prefix(c)
  <2>1. n \in 0..HOMESIZE /\ n <= HOMESIZE
    BY <1>2, <1>5, VehicleAssumption DEF IsWayHome
  <2>2. \/ d = [c EXCEPT !.homeway = n]
        \/ d = [c EXCEPT !.homeway = n, !.home = p, !.flash = p]
    BY <1>5 DEF SaveHome
  <2>6. p \in Seq(Rows) /\ Len(p) = n
    BY <1>3
  <2> HIDE DEF d, p
  <2>3. d \in CarType
    <3> HIDE DEF n
    <3> QED
      BY <1>1, <2>1, <2>2, <2>6 DEF CarType
  <2>4. /\ d.route = c.route /\ d.info = c.info /\ d.action = c.action
        /\ d.waiting = c.waiting /\ d.status = c.status /\ d.wire = c.wire
        /\ (d.flash = c.flash /\ d.home = c.home) \/ (d.flash = p /\ d.home = p)
    BY <1>1, <2>2 DEF CarType
  <2>5. Len(d.flash) <= HOMESIZE
    BY <2>1, <2>4, <2>6 DEF Good
  <2> QED
    BY <2>3, <2>4, <2>5 DEF Good, Window, Holds, Reported, Saved, d
<1> QED
  BY <1>4, <1>5

\* A download leaves the car in good state, whatever part of which table it brings.
LEMMA RouteTableGood ==
    ASSUME NEW c, Good(c), NEW index \in Nat, NEW seg \in Seq(Rows)
    PROVE  /\ Good(vehicleRouteTable(c, index, seg))
           /\ Grows(c, vehicleRouteTable(c, index, seg), 1)
<1> DEFINE d == StopFirst(c)
           e == WriteTable(d, index, seg)
           f == SaveHome(e, index)
<1>1. Good(d) /\ Grows(c, d, 1)
  <2>1. CASE c.status # "STOP"
    BY <2>1, StopGood DEF StopFirst
  <2>2. CASE c.status = "STOP"
    BY <2>2, StaysGood DEF StopFirst
  <2> QED
    BY <2>1, <2>2
<1>2. CASE index + Len(seg) >= MAXPATH
  BY <1>2, StaysGood DEF vehicleRouteTable
<1>3. CASE ~(index + Len(seg) >= MAXPATH) /\ index = 0 /\ seg = <<>>
  BY <1>1, <1>3, ClearGood DEF vehicleRouteTable, Grows, Good
<1>4. CASE ~(index + Len(seg) >= MAXPATH) /\ ~(index = 0 /\ seg = <<>>)
  <2>1. index + Len(seg) < MAXPATH
    BY <1>4, LenProperties, VehicleAssumption
  <2>2. Good(e) /\ e.wire = d.wire
    BY <1>1, <2>1, WriteGood
  <2>3. Good(f) /\ f.wire = d.wire
    BY <2>2, SaveHomeGood
  <2>4. vehicleRouteTable(c, index, seg) = [f EXCEPT !.change = TRUE]
    BY <1>4 DEF vehicleRouteTable
  <2> HIDE DEF d, e, f
  <2>5. Good([f EXCEPT !.change = TRUE]) /\ [f EXCEPT !.change = TRUE].wire = f.wire
    BY <2>3 DEF Good, CarType, Window, Holds, Reported, Saved
  <2> QED
    BY <1>1, <2>3, <2>4, <2>5 DEF Grows
<1> QED
  BY <1>2, <1>3, <1>4
-----------------------------------------------------------------------------
(* Power on, and the frames of the PLC.                                    *)

\* A car that has just been switched on is in good state if its home table fits.
LEMMA FreshGood ==
    ASSUME NEW f \in Seq(Rows), Len(f) <= HOMESIZE, NEW same \in BOOLEAN
    PROVE  Good(Fresh(f, same)) /\ Fresh(f, same).wire = <<>>
<1> DEFINE c == Fresh(f, same)
<1>1. Len(f) \in 0..HOMESIZE /\ 0 \in 0..MAXPATH-1 /\ 0 \in 0..WaitTicks /\ 0 \in 0..RECVTIMES
  BY LenProperties, VehicleAssumption
<1>2. EmptyRoute \in RouteType
  BY <1>1 DEF EmptyRoute, RouteType, Rows
<1>3. /\ [NoReport EXCEPT !.status = "STOP"] \in InfoType
      /\ [fail |-> {}, status |-> "NONE", card |-> 0] \in PlcType
      /\ [NoReport EXCEPT !.status = "STOP"].count = 0
  BY <1>1 DEF NoReport, InfoType, PlcType, States, Motions
<1>4. <<>> \in Seq(Motions) /\ Len(<<>>) = 0
  BY EmptySeq
<1>5. c \in CarType
  BY <1>1, <1>2, <1>3, <1>4 DEF Fresh, CarType, States
<1>6. /\ c.route = EmptyRoute /\ c.flash = f /\ c.home = f /\ c.action = "NONE" /\ c.wire = <<>>
      /\ c.info.count = 0
  BY <1>3 DEF Fresh
<1>7. Good(c)
  BY <1>5, <1>6 DEF Good, Window, Holds, Reported, Saved, EmptyRoute
<1> QED
  BY <1>6, <1>7

\* So it is when the home table is loaded.
LEMMA InitGood ==
    ASSUME NEW f \in Seq(Rows), Len(f) <= HOMESIZE, NEW same \in BOOLEAN
    PROVE  Good(vehicleInit(f, same)) /\ Len(vehicleInit(f, same).wire) <= 1
<1> DEFINE c == Fresh(f, same)
<1>1. Good(c) /\ Len(c.wire) = 0
  BY FreshGood, EmptySeq
<1> HIDE DEF c
<1>2. Good(vehicleRouteTable(c, 0, f)) /\ Len(vehicleRouteTable(c, 0, f).wire) <= 1
  BY <1>1, RouteTableGood DEF Grows
<1> QED
  BY <1>2 DEF vehicleInit, c

\* Copying what the PLC reports leaves the table and the action alone.
LEMMA CopyGood ==
    ASSUME NEW c, Good(c), NEW st \in Motions, NEW ob \in BOOLEAN, NEW cd \in Cards
    PROVE  Good(frmcopystate(c, st, ob, cd)) /\ frmcopystate(c, st, ob, cd).wire = c.wire
<1> DEFINE f == IF ob THEN c.plc.fail \cup {"MEET_OBSTACLE"} ELSE c.plc.fail \ {"MEET_OBSTACLE"}
           p == [fail |-> f, status |-> st, card |-> cd]
           r == [fail |-> f, status |-> st, obstacle |-> ob, card |-> cd, count |-> c.route.count]
           d == frmcopystate(c, st, ob, cd)
<1>1. c \in CarType
  BY DEF Good
<1>2. c.plc.fail \subseteq {"MEET_OBSTACLE"} /\ c.route.count \in 0..MAXPATH-1
  BY <1>1 DEF CarType, PlcType, RouteType
<1>3. p \in PlcType /\ r \in InfoType /\ r.count = c.route.count
  BY <1>2 DEF PlcType, InfoType, States, Faults
<1>4. d = [c EXCEPT !.plc = p, !.info = r]
  BY DEF frmcopystate
<1> HIDE DEF f, p, r, d
<1>5. d \in CarType
  BY <1>1, <1>3, <1>4 DEF CarType
<1>6. /\ d.route = c.route /\ d.info = r /\ d.action = c.action /\ d.waiting = c.waiting
      /\ d.status = c.status /\ d.flash = c.flash /\ d.home = c.home /\ d.wire = c.wire
  BY <1>1, <1>4 DEF CarType
<1> QED
  BY <1>3, <1>5, <1>6 DEF Good, Window, Holds, Reported, Saved, d

\* Flags and counters that no property of the car looks at.
LEMMA FlagsGood ==
    ASSUME NEW c, Good(c)
    PROVE  /\ \A n \in 0..RECVTIMES :
                 /\ Good([c EXCEPT !.recv = n, !.update = TRUE])
                 /\ [c EXCEPT !.recv = n, !.update = TRUE].wire = c.wire
                 /\ Good([c EXCEPT !.change = TRUE, !.recv = n])
                 /\ [c EXCEPT !.change = TRUE, !.recv = n].wire = c.wire
                 /\ Good([c EXCEPT !.recv = n]) /\ [c EXCEPT !.recv = n].wire = c.wire
           /\ \A u \in BOOLEAN :
                 Good([c EXCEPT !.update = u]) /\ [c EXCEPT !.update = u].wire = c.wire
           /\ Good([c EXCEPT !.change = TRUE]) /\ [c EXCEPT !.change = TRUE].wire = c.wire
           /\ Good([c EXCEPT !.sameSec = FALSE]) /\ [c EXCEPT !.sameSec = FALSE].wire = c.wire
<1> DEFINE Like(d) == /\ d \in CarType
                      /\ d.route = c.route /\ d.info = c.info /\ d.action = c.action
                      /\ d.waiting = c.waiting /\ d.status = c.status
                      /\ d.flash = c.flash /\ d.home = c.home /\ d.wire = c.wire
<1>1. ASSUME NEW d, Like(d)
      PROVE  Good(d) /\ d.wire = c.wire
  BY <1>1 DEF Good, Window, Holds, Reported, Saved
<1>2. c \in CarType
  BY DEF Good
<1>3. \A n \in 0..RECVTIMES :
         /\ Like([c EXCEPT !.recv = n, !.update = TRUE])
         /\ Like([c EXCEPT !.change = TRUE, !.recv = n])
         /\ Like([c EXCEPT !.recv = n])
  BY <1>2 DEF CarType
<1>4. (\A u \in BOOLEAN : Like([c EXCEPT !.update = u])) /\ Like([c EXCEPT !.change = TRUE])
      /\ Like([c EXCEPT !.sameSec = FALSE])
  BY <1>2 DEF CarType
<1> HIDE DEF Like
<1> QED
  BY <1>1, <1>3, <1>4

\* A PLC that reports running is started, or its station is given up.
LEMMA RunningGood ==
    ASSUME NEW c, Good(c)
    PROVE  Good(PlcIsRunning(c)) /\ Grows(c, PlcIsRunning(c), 1)
<1> DEFINE d == sea_startcar(c)
<1>1. Good(d) /\ Grows(c, d, 1)
  BY StartGood
<1>2. PlcIsRunning(c) = IF d.action = "STOP" THEN [d EXCEPT !.action = "RUN"] ELSE d
  BY DEF PlcIsRunning
<1> HIDE DEF d
<1>3. d \in CarType
  BY <1>1 DEF Good
<1>4. [d EXCEPT !.action = "RUN"] \in CarType
  BY <1>3 DEF CarType, States, Motions
<1>5. Good([d EXCEPT !.action = "RUN"]) /\ [d EXCEPT !.action = "RUN"].wire = d.wire
  BY <1>1, <1>3, <1>4 DEF Good, Window, Holds, Reported, Saved, CarType
<1> QED
  BY <1>1, <1>2, <1>5 DEF Grows

\* No frame of the PLC, changed or unchanged, disturbs the car.
LEMMA FrameGood ==
    ASSUME NEW c, Good(c), NEW st \in Motions, NEW ob \in BOOLEAN, NEW cd \in Cards
    PROVE  /\ Good(recvPlcStateFrm(c, st, ob, cd))
           /\ Grows(c, recvPlcStateFrm(c, st, ob, cd), 1)
<1> DEFINE n == IF c.recv < RECVTIMES THEN c.recv + 1 ELSE c.recv
           d == frmcopystate(c, st, ob, cd)
           e == IF st = "RUN" THEN PlcIsRunning(d) ELSE d
<1>1. n \in 0..RECVTIMES /\ 0 \in 0..RECVTIMES
  BY VehicleAssumption DEF Good, CarType
<1>2. Good(d) /\ d.wire = c.wire
  BY CopyGood
<1>3. Good(e) /\ Grows(c, e, 1)
  BY <1>2, RunningGood, StaysGood DEF Grows
<1>4. recvPlcStateFrm(c, st, ob, cd) =
        IF ob \/ c.plc.card # cd \/ c.plc.status # st
        THEN [e EXCEPT !.recv = n, !.update = TRUE]
        ELSE IF n >= RECVTIMES THEN [d EXCEPT !.change = TRUE, !.recv = 0]
        ELSE [c EXCEPT !.recv = n]
  BY DEF recvPlcStateFrm
<1> HIDE DEF n, d, e
<1> DEFINE r == recvPlcStateFrm(c, st, ob, cd)
<1>5. \/ r = [e EXCEPT !.recv = n, !.update = TRUE]
      \/ r = [d EXCEPT !.change = TRUE, !.recv = 0]
      \/ r = [c EXCEPT !.recv = n]
  BY <1>4
<1> HIDE DEF r
<1>6. CASE r = [e EXCEPT !.recv = n, !.update = TRUE]
  <2>1. Good(r) /\ r.wire = e.wire
    BY <1>1, <1>3, <1>6, FlagsGood
  <2> QED
    BY <1>3, <2>1 DEF Grows, r
<1>7. CASE r = [d EXCEPT !.change = TRUE, !.recv = 0]
  <2>1. Good(r) /\ r.wire = c.wire
    BY <1>1, <1>2, <1>7, FlagsGood
  <2> QED
    BY <2>1, StaysGood DEF Grows, r
<1>8. CASE r = [c EXCEPT !.recv = n]
  <2>1. Good(r) /\ r.wire = c.wire
    BY <1>1, <1>8, FlagsGood
  <2> QED
    BY <2>1, StaysGood DEF Grows, r
<1> QED
  BY <1>5, <1>6, <1>7, <1>8 DEF r
-----------------------------------------------------------------------------
(* The route handler.                                                      *)

\* A set of positions has a first one, so carFindCardInTable finds the card there.
LEMMA FindCard ==
    ASSUME NEW c \in CarType, NEW card, PositionsOf(c, card) # {}
    PROVE  /\ carFindCardInTable(c, card) \in PositionsOf(c, card)
           /\ \A j \in PositionsOf(c, card) : carFindCardInTable(c, card) <= j
<1> DEFINE S == PositionsOf(c, card)
           R == OpToRel(<, Nat)
<1>1. S \subseteq Nat
  BY VehicleAssumption DEF PositionsOf, CarType, RouteType
<1>2. PICK x \in S : \A y \in S : ~(<<y, x>> \in R)
  BY <1>1, NatLessThanWellFounded, WFMin
<1>3. \A y \in S : x <= y
  <2>1. \A y, z \in Nat : y < z => <<y, z>> \in R
    BY DEF OpToRel
  <2> HIDE DEF R, S
  <2>2. ASSUME NEW y \in S
        PROVE  x <= y
    <3>1. x \in Nat /\ y \in Nat
      BY <1>1
    <3>2. ~(<<y, x>> \in R)
      BY <1>2
    <3>3. ~(y < x)
      BY <3>1, <3>2, <2>1
    <3> QED
      BY <3>1, <3>3
  <2> QED
    BY <2>2
<1> QED
  <2>1. \E y \in S : \A z \in S : y <= z
    BY <1>2, <1>3
  <2> HIDE DEF S
  <2>2. /\ (CHOOSE y \in S : \A z \in S : y <= z) \in S
        /\ \A j \in S : (CHOOSE y \in S : \A z \in S : y <= z) <= j
    BY <2>1
  <2> QED
    BY <2>2 DEF carFindCardInTable, S

\* The end of the line leaves a car that stands, without table and action.
LEMMA EndGood ==
    ASSUME NEW c \in CarType, Len(c.flash) <= HOMESIZE, Saved(c)
    PROVE  Good(EndOfLine(c)) /\ Grows(c, EndOfLine(c), 1)
<1> DEFINE s == sea_stopcar(c)
           d == carClearRouteTable(s)
           e == EndOfLine(c)
           r == [d.info EXCEPT !.fail = @ \cup {"END_LINE"}]
<1>1. s \in CarType /\ Grows(c, s, 1) /\ s.flash = c.flash /\ s.home = c.home
  BY StopType
<1>2. Good(d) /\ d.wire = s.wire
  BY <1>1, ClearGood DEF Saved
<1>3. d \in CarType
  BY <1>2 DEF Good
<1>4. e = [d EXCEPT !.info = r]
  BY <1>3 DEF EndOfLine, CarType
<1>5. r \in InfoType /\ r.count = d.info.count
  BY <1>3 DEF CarType, InfoType, Faults
<1> HIDE DEF s, d, e, r
<1>6. e \in CarType
  BY <1>3, <1>4, <1>5 DEF CarType
<1>7. /\ e.route = d.route /\ e.info = r /\ e.action = d.action /\ e.waiting = d.waiting
      /\ e.status = d.status /\ e.flash = d.flash /\ e.home = d.home /\ e.wire = d.wire
  BY <1>3, <1>4 DEF CarType
<1>8. Good(e) /\ Grows(c, e, 1)
  BY <1>1, <1>2, <1>5, <1>6, <1>7 DEF Good, Window, Holds, Reported, Saved, Grows
<1> QED
  BY <1>8 DEF e

\* A car at card i of its table: the wheels get the action of the row, the step is the
\* next row, and the waiting time starts with the STOP that is already on its way.
LEMMA ActGood ==
    ASSUME NEW c, Good(c), NEW i \in 0..c.route.count-1, c.route.line[i] \in Entries
    PROVE  Good(ActOnCard(c, i)) /\ Grows(c, ActOnCard(c, i), 2)
<1> DEFINE missed == IF i # c.route.index THEN {"MISS_CARD"} ELSE {}
           act == c.route.line[i].action
           w   == Put(c, act).wire
           t   == [c.route EXCEPT !.index = i + 1]
           r   == [c.info EXCEPT !.fail = @ \cup missed]
           n   == IF act = "STOP" THEN WaitTicks ELSE c.waiting
           d   == [sea_turncar(c, act) EXCEPT
                      !.action = act, !.route.index = i + 1,
                      !.info.fail = @ \cup missed,
                      !.waiting = IF act = "STOP" THEN WaitTicks ELSE @]
<1>1. c \in CarType
  BY DEF Good
<1>2. act \in Motions /\ act \in States
  BY DEF Entries, Actions, Turns, Motions, States
<1>3. w \in Seq(Motions) /\ Len(w) <= Len(c.wire) + 1 /\ Put(c, act) = [c EXCEPT !.wire = w]
  BY <1>1, <1>2, PutType DEF Grows
<1>4. /\ t \in RouteType /\ r \in InfoType /\ r.count = c.info.count
      /\ t.count = c.route.count /\ t.index = i + 1
      /\ i + 1 <= c.route.count /\ c.route.count \in Nat /\ i + 1 \in Nat
  <2>1. /\ c.route.count \in 0..MAXPATH-1 /\ i + 1 \in 0..MAXPATH-1
        /\ i + 1 <= c.route.count /\ i + 1 \in Nat /\ c.route.count \in Nat
    BY <1>1, VehicleAssumption DEF CarType, RouteType
  <2>2. t \in RouteType /\ t.count = c.route.count /\ t.index = i + 1
    BY <1>1, <2>1 DEF CarType, RouteType
  <2>3. r \in InfoType /\ r.count = c.info.count
    BY <1>1 DEF CarType, InfoType, Faults
  <2> QED
    BY <2>1, <2>2, <2>3
<1>5. n \in 0..WaitTicks
  BY <1>1, VehicleAssumption DEF CarType
<1>6. d = [c EXCEPT !.wire = w, !.status = act, !.update = TRUE, !.action = act,
                    !.route = t, !.info = r, !.waiting = n]
  BY <1>1, <1>3 DEF sea_turncar, CarType
<1>7. ActOnCard(c, i) = IF i + 1 >= c.route.count THEN EndOfLine(d) ELSE d
  BY DEF ActOnCard
<1> HIDE DEF act, w, t, r, n, d
<1>8. d \in CarType
  BY <1>1, <1>2, <1>3, <1>4, <1>5, <1>6 DEF CarType
<1>9. /\ d.route = t /\ d.info = r /\ d.action = act /\ d.status = act
      /\ d.flash = c.flash /\ d.home = c.home /\ d.wire = w
  BY <1>1, <1>6 DEF CarType
<1>10. Grows(c, d, 1)
  BY <1>3, <1>9 DEF Grows
<1>11. CASE i + 1 >= c.route.count
  <2>1. Good(EndOfLine(d)) /\ Grows(d, EndOfLine(d), 1)
    BY <1>8, <1>9, EndGood DEF Good, Saved
  <2>2. Len(c.wire) \in Nat /\ Len(d.wire) \in Nat /\ Len(EndOfLine(d).wire) \in Nat
    BY <1>1, <1>8, <2>1, LenProperties DEF CarType, Good
  <2> QED
    BY <1>7, <1>10, <1>11, <2>1, <2>2 DEF Grows
<1>12. CASE ~(i + 1 >= c.route.count)
  <2>1. Window(d) /\ Reported(d) /\ Holds(d)
    BY <1>4, <1>9, <1>12 DEF Window, Reported, Holds, Good
  <2>2. Good(d)
    BY <1>8, <1>9, <2>1 DEF Good, Saved
  <2>3. Len(c.wire) \in Nat /\ Len(d.wire) \in Nat
    BY <1>1, <1>8, LenProperties DEF CarType
  <2> QED
    BY <1>7, <1>10, <1>12, <2>2, <2>3 DEF Grows
<1> QED
  BY <1>11, <1>12

\* A new card, in the table or not.
LEMMA MeetGood ==
    ASSUME NEW c, Good(c), NewCard(c)
    PROVE  Good(MeetCard(c)) /\ Grows(c, MeetCard(c), 2)
<1> DEFINE d == [c EXCEPT !.card = c.info.card, !.sameSec = TRUE]
           i == carFindCardInTable(d, d.card)
           f == [d.info EXCEPT !.fail = @ \cup {IF d.route.count > 0 THEN "WRONG_WAY"
                                                                     ELSE "EMPTY_TABLE"}]
           e == IF PositionsOf(d, d.card) = {} THEN NotInTable(d) ELSE ActOnCard(d, i)
<1>1. c \in CarType /\ c.info.card \in Cards
  <2>1. c \in CarType /\ c.info \in InfoType
    BY DEF Good, CarType
  <2> QED
    BY <2>1 DEF NewCard, InfoType
<1>2. /\ d \in CarType /\ d.route = c.route /\ d.info = c.info /\ d.action = c.action
      /\ d.waiting = c.waiting /\ d.status = c.status /\ d.flash = c.flash /\ d.home = c.home /\ d.wire = c.wire
      /\ d.card = c.info.card
  BY <1>1 DEF CarType
<1> HIDE DEF d
<1>3. Good(d) /\ Grows(c, d, 0) /\ d.card \in Cards
  BY <1>1, <1>2, StaysGood DEF Good, Window, Holds, Reported, Saved, Grows
<1>4. ASSUME PositionsOf(d, d.card) = {}
      PROVE  Good(e) /\ Grows(c, e, 2)
  <2>1. f \in InfoType /\ f.count = d.info.count
    BY <1>2 DEF CarType, InfoType, Faults
  <2>2. e = [d EXCEPT !.info = f]
    BY <1>2, <1>4 DEF NotInTable, CarType
  <2> HIDE DEF e, f
  <2>3. /\ e \in CarType /\ e.route = d.route /\ e.info = f /\ e.action = d.action
        /\ e.waiting = d.waiting /\ e.status = d.status /\ e.flash = d.flash /\ e.home = d.home /\ e.wire = d.wire
    BY <1>2, <2>1, <2>2 DEF CarType
  <2>4. Good(e) /\ Grows(c, e, 2)
    BY <1>2, <1>3, <2>1, <2>3, StaysGood DEF Good, Window, Holds, Reported, Saved, Grows
  <2> QED
    BY <2>4
<1>5. ASSUME PositionsOf(d, d.card) # {}
      PROVE  Good(e) /\ Grows(c, e, 2)
  <2>1. i \in PositionsOf(d, d.card)
    BY <1>2, <1>5, FindCard
  <2>2. i \in 0..d.route.count-1 /\ d.route.line[i].id = d.card
    BY <2>1 DEF PositionsOf
  <2>3. d.route.count \in 0..MAXPATH-1 /\ d.route.line \in [0..MAXPATH-1 -> Rows]
    BY <1>2 DEF CarType, RouteType
  <2>4. d.route.line[i] \in Rows /\ d.card # 0
    BY <1>3, <2>2, <2>3, VehicleAssumption
  <2>5. d.route.line[i] \in Entries
    BY <2>2, <2>4 DEF Rows, Blank
  <2>6. Good(ActOnCard(d, i)) /\ Grows(d, ActOnCard(d, i), 2)
    BY <1>3, <2>2, <2>5, ActGood
  <2> HIDE DEF i
  <2> QED
    BY <1>2, <1>5, <2>6 DEF Grows
<1>6. Good(e) /\ Grows(c, e, 2)
  BY <1>4, <1>5
<1>7. MeetCard(c) = [e EXCEPT !.change = TRUE, !.update = FALSE]
  BY DEF MeetCard, d
<1> HIDE DEF e
<1>8. /\ [e EXCEPT !.change = TRUE, !.update = FALSE] = [[e EXCEPT !.change = TRUE] EXCEPT !.update = FALSE]
      /\ Good([e EXCEPT !.change = TRUE]) /\ [e EXCEPT !.change = TRUE].wire = e.wire
  BY <1>6, FlagsGood DEF Good, CarType
<1>9. /\ Good([[e EXCEPT !.change = TRUE] EXCEPT !.update = FALSE])
      /\ [[e EXCEPT !.change = TRUE] EXCEPT !.update = FALSE].wire = e.wire
  BY <1>8, FlagsGood
<1> QED
  BY <1>6, <1>7, <1>8, <1>9 DEF Grows

\* No new card: the STOP that is repeated keeps the car standing.
LEMMA NoNewCardGood ==
    ASSUME NEW c, Good(c)
    PROVE  Good(NoNewCard(c)) /\ Grows(c, NoNewCard(c), 2)
<1> DEFINE s == sea_stopcar(c)
           r == [s.info EXCEPT !.fail = {}]
           d == NoNewCard(c)
<1>1. Good(s) /\ Grows(c, s, 1) /\ s \in CarType /\ c \in CarType
  BY StopGood DEF Good
<1>2. r \in InfoType /\ r.count = s.info.count
  BY <1>1 DEF CarType, InfoType
<1>3. \/ d = [s EXCEPT !.info = r, !.change = TRUE, !.update = FALSE]
      \/ d = [c EXCEPT !.change = c.change \/ c.news, !.update = FALSE]
  <2>1. CASE c.action = "STOP" /\ c.info.status # "STOP"
    BY <1>1, <2>1 DEF NoNewCard, CarType
  <2>2. CASE ~(c.action = "STOP" /\ c.info.status # "STOP")
    BY <1>1, <2>2 DEF NoNewCard, CarType
  <2> QED
    BY <2>1, <2>2
<1> HIDE DEF s, r, d
<1>4. CASE d = [s EXCEPT !.info = r, !.change = TRUE, !.update = FALSE]
  <2>1. /\ d \in CarType /\ d.route = s.route /\ d.info = r /\ d.action = s.action
        /\ d.waiting = s.waiting /\ d.status = s.status /\ d.flash = s.flash /\ d.home = s.home /\ d.wire = s.wire
    BY <1>1, <1>2, <1>4 DEF CarType
  <2>2. Good(d)
    BY <1>1, <1>2, <2>1 DEF Good, Window, Holds, Reported, Saved
  <2>3. Len(s.wire) \in Nat /\ Len(c.wire) \in Nat
    BY <1>1, StaysGood
  <2> QED
    BY <1>1, <2>1, <2>2, <2>3 DEF Grows, d
<1>5. CASE d = [c EXCEPT !.change = c.change \/ c.news, !.update = FALSE]
  <2>1. (c.change \/ c.news) \in BOOLEAN
    OBVIOUS
  <2>2. /\ d \in CarType /\ d.route = c.route /\ d.info = c.info /\ d.action = c.action
        /\ d.waiting = c.waiting /\ d.status = c.status /\ d.flash = c.flash /\ d.home = c.home /\ d.wire = c.wire
    BY <1>1, <1>5, <2>1 DEF CarType
  <2>3. Good(d)
    BY <2>2 DEF Good, Window, Holds, Reported, Saved
  <2> QED
    BY <2>2, <2>3, StaysGood DEF Grows, d
<1> QED
  BY <1>3, <1>4, <1>5

\* vehicleAppHandler: the report, then the route.
LEMMA AppGood ==
    ASSUME NEW c, Good(c)
    PROVE  Good(vehicleAppHandler(c)) /\ Grows(c, vehicleAppHandler(c), 2)
<1> DEFINE r == [c EXCEPT !.news = FALSE, !.change = FALSE]
           b == IF joined THEN carReportHandler(c) ELSE c
<1>1. c \in CarType
  BY DEF Good
<1>2. /\ r \in CarType /\ r.route = c.route /\ r.info = c.info /\ r.action = c.action
      /\ r.waiting = c.waiting /\ r.status = c.status /\ r.flash = c.flash /\ r.home = c.home /\ r.wire = c.wire
  BY <1>1 DEF CarType
<1> HIDE DEF r
<1>3. Good(r)
  BY <1>2 DEF Good, Window, Holds, Reported, Saved
<1>4. Good(b) /\ b.wire = c.wire
  BY <1>2, <1>3 DEF carReportHandler, r
<1>5. vehicleAppHandler(c) = carRouteEventHandler(b)
  BY DEF vehicleAppHandler
<1> HIDE DEF b
<1>6. Good(carRouteEventHandler(b)) /\ Grows(b, carRouteEventHandler(b), 2)
  <2>1. CASE ~b.update
    BY <1>4, <2>1, StaysGood DEF carRouteEventHandler
  <2>2. CASE b.update /\ NewCard(b) /\ b.sameSec
    BY <1>4, <2>2, FlagsGood, StaysGood DEF carRouteEventHandler, Grows
  <2>3. CASE b.update /\ NewCard(b) /\ ~b.sameSec
    BY <1>4, <2>3, MeetGood DEF carRouteEventHandler
  <2>4. CASE b.update /\ ~NewCard(b)
    BY <1>4, <2>4, NoNewCardGood DEF carRouteEventHandler
  <2> QED
    BY <2>1, <2>2, <2>3, <2>4
<1> QED
  BY <1>4, <1>5, <1>6 DEF Grows

\* A second less to wait.
LEMMA TimeGood ==
    ASSUME NEW c, Good(c), NEW due \in BOOLEAN
    PROVE  /\ Good(vehicleTimeEventHandler(c, due))
           /\ vehicleTimeEventHandler(c, due).wire = c.wire
<1> DEFINE n == IF c.action = "STOP" /\ c.waiting > 0 THEN c.waiting - 1 ELSE 0
           g == c.change \/ (due /\ joined)
           d == vehicleTimeEventHandler(c, due)
<1>1. c \in CarType
  BY DEF Good
<1>2. n \in 0..WaitTicks /\ (n > 0 => c.action = "STOP" /\ c.waiting > 0)
  BY <1>1, VehicleAssumption DEF CarType
<1>3. d = [c EXCEPT !.change = g, !.waiting = n]
  BY <1>1 DEF vehicleTimeEventHandler, CarType
<1>4. g \in BOOLEAN
  OBVIOUS
<1> HIDE DEF n, g, d
<1>5. /\ d \in CarType /\ d.route = c.route /\ d.info = c.info /\ d.action = c.action
      /\ d.waiting = n /\ d.status = c.status /\ d.flash = c.flash /\ d.home = c.home /\ d.wire = c.wire
  BY <1>1, <1>2, <1>3, <1>4 DEF CarType
<1>6. Good(d)
  BY <1>2, <1>5 DEF Good, Window, Holds, Reported, Saved
<1> QED
  BY <1>5, <1>6 DEF d

\* Comparing the state with the last report only says whether it is news.
NewsOf(c) == {[c EXCEPT !.news = n] : n \in BOOLEAN}

LEMMA NotedNews ==
    ASSUME NEW c \in CarType
    PROVE  c \in NewsOf(c) /\ Compared(c) \subseteq NewsOf(c) /\ Noted(c) \subseteq NewsOf(c)
<1>1. c = [c EXCEPT !.news = c.news] /\ c.news \in BOOLEAN
  BY DEF CarType
<1>2. Compared(c) \subseteq NewsOf(c)
  BY DEF Compared, NewsOf
<1> QED
  BY <1>1, <1>2 DEF Noted, NewsOf

LEMMA NewsGood ==
    ASSUME NEW c, Good(c), NEW d \in NewsOf(c)
    PROVE  Good(d) /\ d.wire = c.wire
<1>1. c \in CarType
  BY DEF Good
<1>2. PICK n \in BOOLEAN : d = [c EXCEPT !.news = n]
  BY DEF NewsOf
<1>3. /\ d \in CarType /\ d.route = c.route /\ d.info = c.info /\ d.action = c.action
      /\ d.waiting = c.waiting /\ d.status = c.status /\ d.flash = c.flash /\ d.home = c.home /\ d.wire = c.wire
  BY <1>1, <1>2 DEF CarType
<1>4. Good(d)
  BY <1>3 DEF Good, Window, Holds, Reported, Saved
<1> QED
  BY <1>3, <1>4
-----------------------------------------------------------------------------
(* The specification.                                                      *)

\* The invariant: a car in good state, and a ring that the handlers cannot overfill.
VehicleInv ==
    /\ Good(car) /\ Len(car.wire) <= WireBound + 1
    /\ motion \in Motions /\ under \in Cards \cup {0} /\ joined \in BOOLEAN

\* Every start is in the invariant.
LEMMA InvInit == Init => VehicleInv
<1> SUFFICES ASSUME Init PROVE VehicleInv
  OBVIOUS
<1>1. PICK f \in FlashTables, same \in BOOLEAN : car = vehicleInit(f, same)
  BY DEF Init
<1>2. f \in Seq(Rows) /\ Len(f) <= HOMESIZE
  BY VehicleAssumption, SeqMonotonic, Entries \subseteq Rows DEF Rows
<1>3. Good(car) /\ Len(car.wire) <= 1
  BY <1>1, <1>2, InitGood
<1>4. Len(car.wire) <= WireBound + 1
  BY <1>3, StaysGood, VehicleAssumption
<1> QED
  BY <1>3, <1>4 DEF Init, VehicleInv, Motions

\* A handler that puts two commands at most, run when there is room for two.
LEMMA HandlerStep ==
    ASSUME VehicleInv, Room, NEW d, Good(d), Grows(car, d, 1) \/ Grows(car, d, 2),
           car' \in NewsOf(d), UNCHANGED <<motion, under, joined>>
    PROVE  VehicleInv'
<1>1. Good(car') /\ car'.wire = d.wire
  BY NewsGood
<1>2. Len(d.wire) \in Nat /\ Len(car.wire) \in Nat
  BY StaysGood DEF VehicleInv
<1>3. Len(car'.wire) <= WireBound + 1
  BY <1>1, <1>2, VehicleAssumption DEF Room, Grows
<1> QED
  BY <1>1, <1>3 DEF VehicleInv, Good, Window, Holds, Reported, Saved

\* An event that puts no command.
LEMMA EventStep ==
    ASSUME VehicleInv, NEW d, Good(d), d.wire = car.wire,
           car' \in NewsOf(d), UNCHANGED <<motion, under, joined>>
    PROVE  VehicleInv'
<1>1. Good(car') /\ car'.wire = car.wire
  BY NewsGood
<1> QED
  BY <1>1 DEF VehicleInv, Good, Window, Holds, Reported, Saved

\* A command that leaves the ring.
LEMMA WireStep ==
    ASSUME VehicleInv, car.wire # <<>>, car' = [car EXCEPT !.wire = Tail(@)]
    PROVE  /\ Good(car') /\ Len(car'.wire) <= WireBound + 1
           /\ Head(car.wire) \in Motions
<1>1. car \in CarType /\ car.wire \in Seq(Motions)
  BY DEF VehicleInv, Good, CarType
<1>2. /\ Tail(car.wire) \in Seq(Motions) /\ Head(car.wire) \in Motions
      /\ Len(Tail(car.wire)) = Len(car.wire) - 1 /\ Len(car.wire) \in Nat
  BY <1>1, HeadTailProperties, LenProperties
<1>3. /\ car' \in CarType /\ car'.route = car.route /\ car'.info = car.info
      /\ car'.action = car.action /\ car'.waiting = car.waiting /\ car'.status = car.status
      /\ car'.flash = car.flash /\ car'.home = car.home /\ car'.wire = Tail(car.wire)
  BY <1>1, <1>2 DEF CarType
<1>4. Good(car')
  BY <1>3 DEF VehicleInv, Good, Window, Holds, Reported, Saved
<1> QED
  BY <1>2, <1>3, <1>4, VehicleAssumption DEF VehicleInv

\* A part of a table is a sequence of rows.
LEMMA PartOfTable ==
    ASSUME NEW t \in Tables, NEW k \in 0..(Len(t) - 1) \div RTSENDSIZE
    PROVE  LET index == k * RTSENDSIZE
               last  == IF index + RTSENDSIZE < Len(t) THEN index + RTSENDSIZE ELSE Len(t)
           IN  index \in Nat /\ SubSeq(t, index + 1, last) \in Seq(Rows)
<1> DEFINE index == k * RTSENDSIZE
           last  == IF index + RTSENDSIZE < Len(t) THEN index + RTSENDSIZE ELSE Len(t)
<1>1. t \in Seq(Entries) /\ Len(t) \in Nat
  BY VehicleAssumption, LenProperties
<1>2. k \in Nat /\ RTSENDSIZE \in Nat \ {0}
  BY <1>1, VehicleAssumption
<1>3. index \in Nat
  BY <1>2
<1>4. last \in Nat /\ last <= Len(t)
  <2> HIDE DEF index
  <2> QED
    BY <1>1, <1>2, <1>3
<1> HIDE DEF index, last
<1>5. \A i \in index + 1..last : t[i] \in Rows
  <2> SUFFICES ASSUME NEW i \in index + 1..last PROVE t[i] \in Rows
    OBVIOUS
  <2>1. i \in 1..Len(t)
    BY <1>1, <1>3, <1>4
  <2> QED
    BY <1>1, <2>1, ElementOfSeq DEF Rows
<1>6. SubSeq(t, index + 1, last) \in Seq(Rows)
  BY <1>3, <1>4, <1>5, SubSeqProperties
<1> QED
  BY <1>3, <1>6 DEF index, last

\* A new configuration leaves no way home in flash.
LEMMA ConfigGood ==
    ASSUME NEW c, Good(c)
    PROVE  Good(sea_updatesysconfig(c)) /\ sea_updatesysconfig(c).wire = c.wire
<1> DEFINE d == sea_updatesysconfig(c)
<1>1. c \in CarType /\ <<>> \in Seq(Rows) /\ Len(<<>>) = 0
  BY EmptySeq DEF Good
<1>2. d = [c EXCEPT !.flash = <<>>]
  BY DEF sea_updatesysconfig
<1> HIDE DEF d
<1>3. /\ d \in CarType /\ d.route = c.route /\ d.info = c.info /\ d.action = c.action
      /\ d.waiting = c.waiting /\ d.status = c.status /\ d.flash = <<>> /\ d.wire = c.wire
  BY <1>1, <1>2 DEF CarType
<1>4. Good(d)
  BY <1>1, <1>3, VehicleAssumption DEF Good, Window, Holds, Reported, Saved
<1> QED
  BY <1>3, <1>4 DEF d

\* After a power failure a car starts with a part of the way home, which fits.
LEMMA TornHome ==
    ASSUME VehicleInv, PowerFails
    PROVE  \E h \in Seq(Rows), same \in BOOLEAN : Len(h) <= HOMESIZE /\ car' = vehicleInit(h, same)
<1>1. PICK t \in Tables :
         LET f == vehicleRouteTable(car, 0, t).flash
         IN  \E n \in 0..Len(f), same \in BOOLEAN : car' = vehicleInit(SubSeq(f, 1, n), same)
  BY DEF PowerFails
<1> DEFINE f == vehicleRouteTable(car, 0, t).flash
<1>2. PICK n \in 0..Len(f), same \in BOOLEAN : car' = vehicleInit(SubSeq(f, 1, n), same)
  BY <1>1
<1>3. t \in Seq(Rows)
  BY VehicleAssumption, SeqMonotonic, Entries \subseteq Rows DEF Rows
<1>4. Good(vehicleRouteTable(car, 0, t))
  BY <1>3, RouteTableGood DEF VehicleInv
<1>5. f \in Seq(Rows) /\ Len(f) <= HOMESIZE /\ Len(f) \in Nat
  BY <1>4, LenProperties DEF Good, CarType
<1> HIDE DEF f
<1>6. SubSeq(f, 1, n) \in Seq(Rows) /\ Len(SubSeq(f, 1, n)) <= HOMESIZE
  <2>1. \A i \in 1..n : f[i] \in Rows
    BY <1>5, ElementOfSeq
  <2> QED
    BY <1>5, <2>1, SubSeqProperties, VehicleAssumption
<1> QED
  BY <1>2, <1>6

\* It is in good state.
LEMMA TornGood ==
    ASSUME VehicleInv, PowerFails
    PROVE  Good(car') /\ Len(car'.wire) <= 1
BY TornHome, InitGood

\* Every step of the car, of the server and of the floor keeps the invariant.
LEMMA InvStep ==
    ASSUME VehicleInv, [Next]_vars
    PROVE  VehicleInv'
<1> USE NotedNews
<1>1. CASE AppHandler
  BY <1>1, AppGood, HandlerStep DEF AppHandler, VehicleInv, Good
<1>2. CASE PlcFrame
  <2>1. PICK ob \in BOOLEAN : car' \in Compared(recvPlcStateFrm(car, motion, ob, under))
    BY <1>2 DEF PlcFrame
  <2>2. under \in Cards
    BY <1>2 DEF PlcFrame, VehicleInv
  <2> QED
    BY <1>2, <2>1, <2>2, FrameGood, HandlerStep DEF PlcFrame, VehicleInv, Good
<1>3. CASE TimeEvent
  <2>1. PICK due \in BOOLEAN : car' = vehicleTimeEventHandler(car, due)
    BY <1>3 DEF TimeEvent
  <2> QED
    BY <1>3, <2>1, TimeGood, EventStep DEF TimeEvent, VehicleInv, Good
<1>4. CASE ClockTick \/ Poll \/ SvRpt
  <2>1. Good(car') /\ car'.wire = car.wire /\ UNCHANGED <<motion, under, joined>>
    BY <1>4, FlagsGood DEF ClockTick, Poll, SvRpt, VehicleInv
  <2>2. car' \in NewsOf(car')
    BY <2>1 DEF Good
  <2> QED
    BY <2>1, <2>2, EventStep
<1>5. CASE Obeyed \/ Missed
  BY <1>5, WireStep DEF Obeyed, Missed, VehicleInv
<1>6. CASE SvRoute
  <2>1. PICK t \in Tables : \E k \in 0..(Len(t) - 1) \div RTSENDSIZE :
          LET index == k * RTSENDSIZE
              last  == IF index + RTSENDSIZE < Len(t) THEN index + RTSENDSIZE ELSE Len(t)
          IN  car' \in Noted(vehicleRouteTable(car, index, SubSeq(t, index + 1, last)))
    BY <1>6 DEF SvRoute
  <2>2. PICK index \in Nat, seg \in Seq(Rows) : car' \in Noted(vehicleRouteTable(car, index, seg))
    BY <2>1, PartOfTable, Zenon
  <2> QED
    BY <1>6, <2>2, RouteTableGood, HandlerStep DEF SvRoute, VehicleInv, Good
<1>7. CASE SvOpen
  BY <1>7, StartGood, HandlerStep DEF SvOpen, VehicleInv, Good
<1>8. CASE SvClose
  BY <1>8, StopGood, HandlerStep DEF SvClose, VehicleInv, Good
<1>9. CASE SvEnd
  BY <1>9, ClearGood, EventStep DEF SvEnd, VehicleInv, Good
<1>10. CASE Reboot
  <2>1. PICK same \in BOOLEAN : car' = vehicleInit(car.flash, same)
    BY <1>10 DEF Reboot
  <2>2. car.flash \in Seq(Rows) /\ Len(car.flash) <= HOMESIZE
    BY DEF VehicleInv, Good, CarType
  <2>3. Good(vehicleInit(car.flash, same)) /\ Len(vehicleInit(car.flash, same).wire) <= 1
    BY <2>2, InitGood
  <2>4. Good(car') /\ Len(car'.wire) <= WireBound + 1
    BY <2>1, <2>3, StaysGood, VehicleAssumption
  <2> QED
    BY <1>10, <2>4 DEF Reboot, VehicleInv, Good, Window, Holds, Reported, Saved
<1>13. CASE SvConfig
  BY <1>13, ConfigGood, EventStep DEF SvConfig, VehicleInv, Good
<1>14. CASE PowerFails
  <2>1. Good(car') /\ Len(car'.wire) <= 1
    BY <1>14, TornGood
  <2>2. Good(car') /\ Len(car'.wire) <= WireBound + 1
    BY <2>1, StaysGood, VehicleAssumption
  <2> QED
    BY <1>14, <2>2 DEF PowerFails, VehicleInv, Good, Window, Holds, Reported, Saved
<1>15. CASE Network
  BY <1>15, ConfigGood DEF Network, VehicleInv, Good, Window, Holds, Reported, Saved
<1>11. CASE TurnDone \/ LocalStart \/ Travel
  BY <1>11 DEF TurnDone, LocalStart, Travel, VehicleInv, Good, Window, Holds,
               Reported, Saved, Motions
<1>12. CASE UNCHANGED vars
  BY <1>12 DEF vars, VehicleInv, Good, Window, Holds, Reported, Saved
<1> QED
  BY <1>1, <1>2, <1>3, <1>4, <1>5, <1>6, <1>7, <1>8, <1>9, <1>10, <1>11, <1>12,
     <1>13, <1>14, <1>15 DEF Next, Firmware, Radio, Floor

\* The invariant holds in every behaviour of the car.
THEOREM Invariance == Spec => []VehicleInv
<1>1. VehicleInv /\ [Next]_vars => VehicleInv'
  BY InvStep
<1> QED
  BY InvInit, <1>1, PTL DEF Spec

\* The values of the car's variables, among them a step and a length inside the table's
\* array and a waiting time that does not run below zero.
THEOREM TypeCorrect == Spec => []TypeOK
<1>1. VehicleInv => TypeOK
  BY DEF VehicleInv, Good, CarType, RouteType, InfoType, PlcType, States, Rows, TypeOK
<1> QED
  BY <1>1, Invariance, PTL

\* For every set of tables, every division into messages and every order of downloads,
\* missed cards, clears and reboots, the row the car reads next is a row of its table.
THEOREM RouteInWindow == Spec => []RouteWindow
<1>1. VehicleInv => RouteWindow
  BY DEF VehicleInv, Good, Window, RouteWindow
<1> QED
  BY <1>1, Invariance, PTL

\* For every waiting time: as long as it runs at a station, no OPEN, no frame of the PLC
\* and no download has put another command than STOP.
THEOREM WaitingIsKept == Spec => []WaitingHolds
<1>1. VehicleInv => WaitingHolds
  BY DEF VehicleInv, Good, Holds, WaitingHolds
<1> QED
  BY <1>1, Invariance, PTL

\* The length that a car reports is that of the table it follows.
THEOREM CountIsReported == Spec => []CountReported
<1>1. VehicleInv => CountReported
  BY DEF VehicleInv, Good, Reported, CountReported
<1> QED
  BY <1>1, Invariance, PTL

\* The way home in flash, if there is one, is the one in RAM, whenever the power fails.
THEOREM HomeIsSaved == Spec => []HomeSaved
<1>1. VehicleInv => HomeSaved
  BY DEF VehicleInv, Good, Saved, HomeSaved
<1> QED
  BY <1>1, Invariance, PTL
=============================================================================
