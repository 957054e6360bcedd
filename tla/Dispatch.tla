----------------------------- MODULE Dispatch -----------------------------
(***************************************************************************)
(* The server's command slots: rep_info.send holds at most one command per *)
(* device, stored by ServerFrameCmdHandler (or by a JOIN), sent once a     *)
(* second by TaskCmdHandler until it was sent twice, and cleared early by  *)
(* any frame of the device (src/server/src/drv/cmd.c).                     *)
(*                                                                         *)
(* Three FreeRTOS tasks of one priority share the slots without a lock:    *)
(*   misc   frames of the PC and of the coordinator (tasks/miscTask.c)     *)
(*   cmd    the keyboard of the console             (tasks/cmdTask.c)      *)
(*   w108   sending                                 (tasks/w108Task.c)     *)
(* They are preempted by the tick, so a handler is split where it uses     *)
(* again what another task may have changed.                               *)
(***************************************************************************)
EXTENDS Integers, FiniteSets

CONSTANTS
    CALL,       \* sys_info.ctrl.call: caller stations are numbered 1 .. CALL
    BASE,       \* sys_info.ctrl.base: cars are numbered from BASE + 1
    CAR,        \* sys_info.ctrl.car
    MAXDEV,     \* sys_info.ctrl.maxdev, the last number, that of the last car
    Addrs,      \* short addresses of the radio network
    Watched,    \* a device, the one whose transmissions are remembered
    States,     \* the states of a call the PC may give: WAITINGCAR, ASSIGNCAR, ONLINECAR
    \* bounds of the model, of what is remembered of one command:
    TriesBound, \* its transmissions
    BackBound   \* how often its count was taken back

Callers == 1..CALL
Cars    == BASE+1..BASE+CAR
Devices == 1..MAXDEV
Addr0   == Addrs \cup {0}

ASSUME DispatchAssumption ==
    /\ CALL \in Nat /\ BASE \in Nat \ {0} /\ CAR \in Nat /\ MAXDEV \in Nat
    /\ CALL <= BASE /\ BASE + CAR <= MAXDEV
    /\ 0 \notin Addrs /\ Watched \in Devices /\ "NONE" \notin States
    /\ TriesBound \in Nat /\ BackBound \in Nat /\ TriesBound <= BackBound + 2

VARIABLES
    slot,     \* rep_info.send: [id, cnt, active, buf] per device
    logic,    \* dyn_info.addr[].logic: short address per device, 0 is powered off
    stopped,  \* the cars whose last report says CAR_STOP
    rows,     \* the cars with rows in their buffer of msg_info.route
    call,     \* msg_info.call: state and vehicle of each station, and whether it has
              \* left an address to answer its call to
    misc,     \* where the misc task is: idle, or between two steps of a handler
    cmd,      \* where the command task is
    w108,     \* where the w108 task is
    addrOf,   \* the address each device has in the radio network, 0 is none
    moved,    \* history: the devices that have left the address the server has filed
    tries,    \* history: transmissions of the command that is in Watched's slot
    back      \* history: how often its count was taken back

tasks   == <<misc, cmd, w108>>
sent    == <<tries, back>>
radio   == <<addrOf, moved>>
vars    == <<slot, logic, stopped, rows, call, tasks, radio, sent>>

Idle == [at |-> "idle", dev |-> 0]

\* The commands a PC or the keyboard gives.  OPEN stands for OPEN, CLOSE, END, REBOOT,
\* ADJUST and DATE, which differ in the bytes sent only.  A message with rows of a route
\* table leaves a buffer that sea_parseroutetable takes (whole), or one that it refuses:
\* it holds the first part of a longer table only, or has no STOP at its end.
Opens   == [cmd : {"OPEN"},   dev : Devices]
Routes  == [cmd : {"ROUTE"},  dev : Devices, whole : BOOLEAN]
Assigns == [cmd : {"ASSIGN"}, dev : Devices, state : States, vehicle : Cars \cup {0}]
Frames  == Opens \cup Routes \cup Assigns
-----------------------------------------------------------------------------
(* ServerFrameCmdHandler, run by misc for the PC and by cmd for the keyboard. *)

\* The test at the head of the handler; a refused frame changes nothing.
Busy(d) == logic[d] = 0 \/ slot[d].id # "NONE"

\* buf holds the station of an ASSIGN to a car; it is 0 while it is not read.
Put(s, d, id) == [s EXCEPT ![d].id = id, ![d].buf = 0]

\* Nothing of the commands that are now in the slots of S has been sent.
Unsent(S) == IF Watched \in S THEN tries' = 0 /\ back' = 0 ELSE UNCHANGED sent

\* The branch of f.cmd, when its frame has passed the test.
StoreOpen(f) ==
    /\ f \in Opens
    /\ slot' = Put(slot, f.dev, "OPEN") /\ Unsent({f.dev})
    /\ UNCHANGED <<rows, call>>

Standing(f)   == f.dev \in Cars /\ f.dev \in stopped
NewlyGiven(f) == f.dev \in Callers /\ call[f.dev].state # f.state

\* Only for a car that stands; rows that are no whole table are kept, but not sent.
StoreRoute(f) ==
    /\ f \in Routes /\ Standing(f)
    /\ rows' = rows \cup {f.dev}
    /\ IF f.whole THEN slot' = Put(slot, f.dev, "ROUTE") /\ Unsent({f.dev})
       ELSE UNCHANGED <<slot, sent>>
    /\ UNCHANGED call

\* Also stored for the vehicle, if one is named, without a look at the slot of the vehicle.
StoreAssign(f) ==
    /\ f \in Assigns /\ NewlyGiven(f)
    /\ call'  = [call EXCEPT ![f.dev].state = f.state, ![f.dev].vehicle = f.vehicle]
    /\ LET station == Put(slot, f.dev, "ASSIGN")
       IN  slot' = IF f.vehicle = 0 THEN station
                   ELSE [Put(station, f.vehicle, "ASSIGN") EXCEPT ![f.vehicle].buf = f.dev]
    /\ Unsent({f.dev, f.vehicle})
    /\ UNCHANGED rows

\* The frame answered with RESPERR, or dropped, after the test.
StoreNothing(f) ==
    /\ \/ f \in Routes /\ ~Standing(f)
       \/ f \in Assigns /\ ~NewlyGiven(f)
    /\ UNCHANGED <<slot, rows, call, sent>>

Store(f) == StoreOpen(f) \/ StoreRoute(f) \/ StoreAssign(f) \/ StoreNothing(f)

\* The misc task finishes its frame before the keyboard comes in: the other order of
\* the two is KeyCheck, PcFrame, KeyStore.
PcFrame ==
    /\ misc = Idle
    /\ \E f \in Frames : ~Busy(f.dev) /\ Store(f)
    /\ UNCHANGED <<logic, stopped, tasks, radio>>

\* A frame of the keyboard is looked at again after the test of its device.
KeyCheck ==
    /\ cmd = Idle
    /\ \E d \in Devices : ~Busy(d) /\ cmd' = [at |-> "store", dev |-> d]
    /\ UNCHANGED <<slot, logic, stopped, rows, call, misc, w108, radio, sent>>

KeyStore ==
    /\ cmd.at = "store" /\ cmd' = Idle
    /\ \E f \in Frames : f.dev = cmd.dev /\ Store(f)
    /\ UNCHANGED <<logic, stopped, misc, w108, radio>>

\* w108 -3: the keyboard writes the buffer of a standing car and stores no command.
KeyTable ==
    /\ cmd = Idle
    /\ \E c \in Cars : logic[c] # 0 /\ c \in stopped /\ rows' = rows \cup {c}
    /\ UNCHANGED <<slot, logic, stopped, call, tasks, radio, sent>>
-----------------------------------------------------------------------------
(* CoordFrameCmdHandler, run by misc.  The frame of device d carries the   *)
(* address d has now; the first the server hears of a new address may be   *)
(* any frame, for JOIN may be lost.                                        *)

\* sea_lookuplogic: the first device with this address, 0 without one.
sea_lookuplogic(a) ==
    LET S == {d \in Devices : logic[d] = a}
    IN  IF S = {} THEN 0 ELSE CHOOSE d \in S : \A e \in S : d <= e

\* Any frame of a device frees the slot found by its address; the count stays.  Without
\* one it is send[-1], the end of the array before it: a byte in the time stamp of the last
\* car is cleared.  Only isCarActive reads it, and AskSilent asks any car.
Freed(n) == IF n \in Devices THEN Put(slot, n, "NONE") ELSE slot
FreeSlot(a) == slot' = Freed(sea_lookuplogic(a)) /\ Unsent({sea_lookuplogic(a)})

Heard(d) == misc = Idle /\ addrOf[d] # 0

\* Slip: device numbers count from 1, the address table from 0.
FileOneOff(d) ==
    /\ logic' = [e \in Devices |-> IF e = d + 1 THEN addrOf[d] ELSE logic[e]]
    /\ moved' = moved \ {d}

FileAddress(d) == logic' = [logic EXCEPT ![d] = addrOf[d]] /\ moved' = moved \ {d}
KeepAddress    == UNCHANGED <<logic, moved>>

\* The slot and the record that a report of d goes to: those of its number, or of BASE, if
\* its type and number do not allow the device and the number is the last.
RecordOf(d, allowed) == IF ~allowed /\ d >= MAXDEV THEN BASE ELSE d

\* RPT, sea_parsereport: the address is taken from the frame and the number from the
\* report, also of a device that is not allowed; a caller station whose button is pressed
\* leaves an address for ASSIGN.
ByReport(d) ==
    /\ Heard(d)
    /\ FreeSlot(addrOf[d])
    /\ FileAddress(d)
    /\ \E allowed, pressed, stands \in BOOLEAN :
          /\ allowed => d \in Callers \cup Cars
          /\ call' = IF allowed /\ d \in Callers /\ pressed
                     THEN [call EXCEPT ![d].heard = TRUE] ELSE call
          /\ LET n == RecordOf(d, allowed)
             IN  /\ stopped' = IF stands THEN stopped \cup ({n} \cap Cars) ELSE stopped \ {n}
                 /\ misc' = [at |-> "active", dev |-> n]
    /\ UNCHANGED <<rows, cmd, w108, addrOf>>

\* The tail of sea_parsereport: active is one bit of the byte that holds cnt, so
\* setting it reads the byte and later writes it back.
ReadActive ==
    /\ misc.at = "active"
    /\ misc' = IF slot[misc.dev].active THEN Idle
               ELSE [at |-> "write", dev |-> misc.dev, cnt |-> slot[misc.dev].cnt]
    /\ UNCHANGED <<slot, logic, stopped, rows, call, cmd, w108, radio, sent>>

WriteActive ==
    /\ misc.at = "write"
    /\ slot' = [slot EXCEPT ![misc.dev].active = TRUE, ![misc.dev].cnt = misc.cnt]
    /\ misc' = Idle
    /\ back' = IF misc.dev = Watched /\ misc.cnt < slot[Watched].cnt /\ back < BackBound
               THEN back + 1 ELSE back
    /\ UNCHANGED <<logic, stopped, rows, call, cmd, w108, radio, tries>>

\* ADDRESS: the address of a device is taken when its EUI64, number or type is new to the
\* server.  Which of them it knows is left open.
ByAddress(d) ==
    /\ Heard(d)
    /\ FreeSlot(addrOf[d])
    /\ FileAddress(d) \/ KeepAddress
    /\ UNCHANGED <<stopped, rows, call, tasks, addrOf>>

\* JOIN, by its EUI64: the address of a known device, and the route table of a car is sent
\* again (the test for a caller is isCarDevice with the caller's type, which is never true).
JoinKnown(d) ==
    /\ LET n == sea_lookuplogic(addrOf[d])
       IN  IF d \in Cars THEN slot' = Put(Freed(n), d, "ROUTE") /\ Unsent({n, d})
           ELSE FreeSlot(addrOf[d])
    /\ FileAddress(d)

ByJoin(d) ==
    /\ Heard(d)
    /\ JoinKnown(d) \/ (FreeSlot(addrOf[d]) /\ KeepAddress)
    /\ UNCHANGED <<stopped, rows, call, tasks, addrOf>>

\* END, RESPONSE and DATE: the first, and a RESPONSE to END, clear the route buffer.
Respond(a) ==
    /\ FreeSlot(a)
    /\ \E ends \in BOOLEAN : rows' = IF ends THEN rows \ {sea_lookuplogic(a)} ELSE rows
    /\ UNCHANGED <<logic, stopped, call, tasks, radio>>

ByResponse(d) == Heard(d) /\ Respond(addrOf[d])

\* The coordinator's own RESPONSE, to the server, has the address 0: the slot it frees is
\* that of the first device that is powered off.
ByCoordinator == misc = Idle /\ Respond(0)
-----------------------------------------------------------------------------
(* TaskCmdHandler, run by w108 once a second: one device per round.        *)

Waiting == {d \in Devices : logic[d] # 0 /\ slot[d].id # "NONE"}

\* Whether the command of d really goes out on the radio.
GoesOut(d) ==
    CASE slot[d].id = "ROUTE"                     -> d \in rows
      [] slot[d].id = "ASSIGN" /\ d \in Callers   -> call[d].heard
      [] slot[d].id = "ASSIGN" /\ d \notin Callers -> TRUE
      [] slot[d].id \in {"OPEN", "NONE"}          -> slot[d].id = "OPEN"

\* The number of the record that becomes the body of an ASSIGN: goal is indexed from 0
\* and buf holds a station number, which counts from 1.
GoalOf(d) == IF d - 1 > BASE THEN slot[d].buf + 1 ELSE d

\* The vehicle named in the body; a route record read as a call names no vehicle.
VehicleSent(d) == IF GoalOf(d) \in Callers THEN call[GoalOf(d)].vehicle ELSE 0

Send ==
    /\ w108 = Idle /\ Waiting # {}
    /\ LET d == CHOOSE d \in Waiting : \A e \in Waiting : d <= e
       IN  /\ w108'  = [at |-> "count", dev |-> d]
           /\ tries' = IF d = Watched /\ GoesOut(d) /\ tries < TriesBound
                       THEN tries + 1 ELSE tries
    /\ UNCHANGED <<slot, logic, stopped, rows, call, misc, cmd, radio, back>>

\* Slips: the limit of the retries is never reached; the slot is kept when it is.
CountNoLimit ==
    /\ w108.at = "count"
    /\ slot' = [slot EXCEPT ![w108.dev].cnt = @ + 1] /\ w108' = Idle
    /\ UNCHANGED <<logic, stopped, rows, call, misc, cmd, radio, sent>>

\* cnt only matters by cnt > 1, so it is capped at 2.
Count ==
    /\ w108.at = "count"
    /\ LET n == IF slot[w108.dev].cnt = 0 THEN 1 ELSE 2
       IN  /\ slot' = [slot EXCEPT ![w108.dev].cnt = n]
           /\ w108' = IF n > 1 THEN [w108 EXCEPT !.at = "clear"] ELSE Idle
    /\ UNCHANGED <<logic, stopped, rows, call, misc, cmd, radio, sent>>

ClearCountOnly ==
    /\ w108.at = "clear"
    /\ slot' = [slot EXCEPT ![w108.dev].cnt = 0] /\ w108' = Idle
    /\ UNCHANGED <<logic, stopped, rows, call, misc, cmd, radio, sent>>

\* retry too much
Clear ==
    /\ w108.at = "clear"
    /\ slot' = [slot EXCEPT ![w108.dev].id = "NONE", ![w108.dev].cnt = 0,
                         ![w108.dev].buf = 0]
    /\ w108' = Idle /\ Unsent({w108.dev})
    /\ UNCHANGED <<logic, stopped, rows, call, misc, cmd, radio>>

\* Every two minutes a car that was silent is asked for a report.
AskSilent ==
    /\ w108 = Idle
    /\ \E c \in Cars : logic[c] # 0 /\ slot' = [slot EXCEPT ![c].active = FALSE]
    /\ UNCHANGED <<logic, stopped, rows, call, tasks, radio, sent>>
-----------------------------------------------------------------------------
(* The radio network and the power of the server.                        *)

\* A device leaves the network, or joins it under any address that nobody has: also one
\* that the server still files for another device.
Rejoin(d) ==
    /\ \E a \in Addr0 \ {addrOf[d]} :
          /\ a # 0 => \A e \in Devices : a # addrOf[e]
          /\ addrOf' = [addrOf EXCEPT ![d] = a]
          /\ moved' = IF logic[d] \in {0, a} THEN moved \ {d} ELSE moved \cup {d}
    /\ UNCHANGED <<slot, logic, stopped, rows, call, tasks, sent>>

NoSlots == [d \in Devices |-> [id |-> "NONE", cnt |-> 0, active |-> FALSE, buf |-> 0]]
NoAddrs == [d \in Devices |-> 0]
NoCalls == [c \in Callers |-> [state |-> "NONE", vehicle |-> 0, heard |-> FALSE]]

Init ==
    /\ slot = NoSlots /\ logic = NoAddrs /\ stopped = {}
    /\ rows = {} /\ call = NoCalls
    /\ misc = Idle /\ cmd = Idle /\ w108 = Idle /\ tries = 0 /\ back = 0
    /\ addrOf = NoAddrs /\ moved = {}

\* The server keeps nothing of this in flash.
Reset ==
    /\ slot' = NoSlots /\ logic' = NoAddrs /\ stopped' = {}
    /\ rows' = {} /\ call' = NoCalls
    /\ misc' = Idle /\ cmd' = Idle /\ w108' = Idle /\ tries' = 0 /\ back' = 0
    /\ moved' = {} /\ UNCHANGED addrOf

Misc == PcFrame \/ ReadActive \/ WriteActive \/ ByCoordinator
        \/ \E d \in Devices : ByReport(d) \/ ByAddress(d) \/ ByJoin(d) \/ ByResponse(d)
Cmd  == KeyCheck \/ KeyStore \/ KeyTable
W108 == Send \/ Count \/ Clear \/ AskSilent

Next == Misc \/ Cmd \/ W108 \/ Reset \/ \E d \in Devices : Rejoin(d)

\* The scheduler takes the tasks in turn: the w108 task goes on, and a handler that
\* the misc or the command task has begun is finished.  Nobody has to send anything.
Fairness ==
    /\ WF_vars(Send) /\ WF_vars(Count) /\ WF_vars(Clear)
    /\ WF_vars(ReadActive \/ WriteActive) /\ WF_vars(KeyStore)

Spec     == Init /\ [][Next]_vars
FairSpec == Spec /\ Fairness
-----------------------------------------------------------------------------
Ids == {"NONE", "OPEN", "ROUTE", "ASSIGN"}

TypeOK ==
    /\ slot \in [Devices -> [id : Ids, cnt : 0..2, active : BOOLEAN, buf : Callers \cup {0}]]
    /\ logic \in [Devices -> Addr0] /\ stopped \subseteq Cars /\ rows \subseteq Cars
    /\ call \in [Callers -> [state : States \cup {"NONE"},
                             vehicle : Cars \cup {0}, heard : BOOLEAN]]
    /\ misc \in {Idle} \cup [at : {"active"}, dev : Devices]
                       \cup [at : {"write"}, dev : Devices, cnt : 0..2]
    /\ cmd \in {Idle} \cup [at : {"store"}, dev : Devices]
    /\ w108 \in {Idle} \cup [at : {"count", "clear"}, dev : Devices]
    /\ addrOf \in [Devices -> Addr0] /\ moved \subseteq Devices
    /\ tries \in 0..TriesBound /\ back \in 0..BackBound

\* cmd.c:780 looks up by its address whose slot a frame frees.  Addresses pass from one
\* device to another, and the server may hear of it late or never: then the frame of one
\* device takes the command of another for answered.  It does so only if the other has left
\* the address that the server has filed for it.
FrameOf(d) == ByReport(d) \/ ByAddress(d) \/ ByJoin(d) \/ ByResponse(d)
OthersSlotKept ==
    [][\A d, e \in Devices :
         d # e /\ FrameOf(d) /\ slot'[e] # slot[e] => e \in moved]_vars

\* A command is transmitted at most twice, and once more for each time that a report has
\* taken back its count: the byte that holds it was read before the sending task counted,
\* and written after.
SentAtMostTwice == tries <= 2 + back

\* When no more commands are given, the devices keep their addresses, and the server has
\* heard of every device whose address another has now, every command for a device that is
\* powered on is answered or given up, whatever the reports do.
Quiet ==
    /\ <>[][\A d \in Devices : slot'[d].id \in {"NONE", slot[d].id}]_vars
    /\ <>[][UNCHANGED addrOf]_vars
    /\ <>[](\A d, e \in Devices : logic[d] = addrOf[e] /\ logic[d] # 0 => d = e)
SlotsDrain == Quiet => <>[](\A d \in Devices : slot[d].id = "NONE" \/ logic[d] = 0)

\* cmd.c:351 "power off or send message is busy": a command of the PC does not take
\* the place of one that is waiting.
BusySlotKept ==
    [][PcFrame => \A d \in Devices : slot[d].id # "NONE" => slot'[d] = slot[d]]_vars

\* w108cmd.c:25 "dispatch vv vehicle to cc caller's station": the message to a vehicle
\* names this vehicle.
AssignReachesVehicle ==
    \A v \in Cars : slot[v].id = "ASSIGN" => VehicleSent(v) = v

\* cmd.c:485 "retry too much": a command that can be transmitted is given up only when
\* it was transmitted again.
RetriedBeforeDropped ==
    w108 = [at |-> "clear", dev |-> Watched] /\ slot[Watched].id # "NONE" /\ GoesOut(Watched)
        => tries >= 2
=============================================================================
