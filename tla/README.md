# Verification of the vehicle dispatch system

TLA+ models of the programs in `src/`, checked with TLC and proved with TLAPS.
`PROJECT.json` lists the components, the runs, the lines of the source every
definition stands for, the hazards, the findings and the theorems.

## 1. The system

Cars follow lines on a floor with RFID cards. A server gives each car a table
"at card *id* do *action*", tells it to start and stop, and sends cars to the
stations that call for one. There are four programs:

```
 PC  --TCP/UDP--  server  --UART--  coordinator  ~~ZigBee~~  car    --rs485--  PLC, RFID
                 (FreeRTOS)         (radio module)       ~~  caller station
```

* the **server** (`src/server`, STM32, FreeRTOS): three tasks matter, all of one
  priority and preempted by a 1 ms tick: *misc* (frames of the PC and of the
  coordinator), *cmd* (keyboard of the console), *w108* (sending, once a second);
* the **radio modules** (`src/lamps`, EM357): one program built as coordinator,
  car or caller station. The vehicle project defines `SENSOR_APP`,
  `ENABLE_VEHICLE` and `VEHICLE_RELEASE`. One main loop, nothing preempts a handler
  but the UART interrupts;
* the **PLC** of a car (external) drives the motors, and reports its motion and the
  card it read in every frame;
* the **PC** (external) makes the plans.

### Inventory

| Component | State | Operations | Correct when |
|---|---|---|---|
| Route follower (`lamp/vehicle.c`, `main/incoming.c`) | `carInfo` (route, home, action, waiting, plc), LAMP_UPDATE and LAMP_CHANGE, rs485 ring | PLC frame, route event, report, second event, poll, ROUTE, OPEN, CLOSE, END, RPT, reboot | index stays in the table; waits are kept; table and report agree; flash and RAM agree; stations are stopped at |
| Command slots (`drv/cmd.c`, `drv/msginfo.c`) | `rep_info.send`, `dyn_info.addr`, `msg_info` | PC and keyboard frames, device frames (RPT, JOIN, ADDRESS, RESPONSE), sending, counting, clearing | one command per device at a time, sent twice at most, always answered or given up; a device's frame answers its own command |
| Message ring (`sealib/lamp/msg.c`) | `send1` | send, get | a queue while it is not full; the last message stays readable |
| Outbox (`main/sensor.c`, `exception.c`) | retry, action, appstate | send, delivered, failed, leave, join, network up and down | stack and application do not stay apart; a lost network is joined again |
| Clock (`sealib/lamp/ticker.c`) | time, workhour, event | millTickHook, date | goes on; periods are noticed |
| Coordinator (`main/sink.c`, `main/command.c`, `incoming.c`) | address map, send1, retry | server frame to radio, radio frame to server, sent handler | no car takes what was meant for another; a car that is gone does not keep it sending |
| Join scan (`sensor.c` 221-352, `sealib/util/form-and-join.c`) | channels to scan, networks found, times tried, time-out | scan, hear, complete, choose, join | every channel is heard; only known networks are joined; the search goes on until one is |
| Frame receiver (`sealib/lamp/frame.c`, `serial.c`, `uart.c`) | parser state, rings | byte in, frame out | any frame arrives as sent; resynchronises after a fault |
| System table (`table.c`, `flash.c`, `sysinfo.c`) | pages in flash | read, update | a power loss leaves the old or the new table |
| PC reports (`miscTask.c`) | `update`, `cal->update` | set by reports, sent every half second | every change reaches the PC |
| Server start (`w108Task.c` 65-98) | `dyn_info.ready` | request until answered | all parts of the configuration are read |

Left aside: the vendored HAL, ZigBee stack, FreeRTOS, lwIP and peripheral
libraries; drivers that the project files do not build (`arc`, `gprs`, `http`,
`sht11`, `tsl2561`, `wifi`); the street lamp code that the vehicle build keeps but
does not use.

### What is hard in this code

1. **Lossy steering**: the rs485 line loses commands and the PLC reports in its own
   time, so a report may be older than the last command.
2. **Long legal sequences** on the route table: partial downloads, a shorter table
   over a longer one, missed and repeated cards, clear and reboot.
3. **Overwriting**: `carInfo.plc` is written by the route handler, by the clear and
   by the memory copy of the next frame.
4. **Preemption without locks** on the server: slots, counts in bit fields, a shared
   scratch buffer.
5. **Devices that change their short address**, while the server identifies the
   sender of a frame by it.
6. **Rings without a count or a full test**: full looks empty.
7. **Answers without a number**: a callback or an answer is matched by cluster id or
   by device only, so a late one is taken for the answer to something newer.
8. **A table in parts**: four programs pass it on through a shared buffer, a serial
   line, a queue that repeats the wrong message, and addresses that pass from car
   to car.
9. **Flash written word by word**: a power loss leaves the first rows of the way home.
10. **A stack that drops requests**: a channel whose scan fails is not reported, and
    the code finds out by counting.
11. **Sizes that are not compared**: a frame that is too long, a table longer than its
    record, a ring that is full. What the code writes beyond is part of the models.

`PROJECT.json` "hazards" has each at its line.

## 2. Modules

| Module | Models | Extends / used by |
|---|---|---|
| `Vehicle` | the firmware of a car with PLC and floor as its environment | `MCVehicle`, `VehicleProofs`, `VehicleStepProofs` |
| `Follower` | abstract: what a car promises as a follower of its route | implemented by `Vehicle` |
| `Dispatch` | slots, addresses and calls of the server, three tasks, radio network | `MCDispatch`, `DispatchProofs` |
| `Download` | a route table from the PC through server, serial line, coordinator and radio into the table and flash of a car | instantiates `Fifo`; `MCDownload`, `DownloadProofs` |
| `Fifo` | abstract: a bounded queue that one message too many empties; the last message taken stays readable | implemented by `MsgRing`, used by `Download` |
| `MsgRing` | the ring `send1` | refines `Fifo`; `MsgRingProofs` |
| `Outbox` | everything that uses `send1` in a car, and its life in the network | extends `MsgRing`; `MCOutbox`, `OutboxProofs` |
| `Network` | abstract: stack and application join, leave and lose a network | implemented by `Outbox` and by `JoinScan` |
| `JoinScan` | the search for a network, which is one step of `Outbox` | `MCJoinScan`, `JoinScanProofs` |
| `Framing` | both ends of the serial line and a line with faults | `MCFraming`, `FramingProofs` |
| `Ticker` | the clock of a radio module | `MCTicker` |

Operators marked "Slip" stand beside the definition they vary: they are plausible
mistakes in it, and the `mutants` of `PROJECT.json` show that the properties notice
them. Nothing else uses them.

How the modules fit: `Dispatch` decides which command the server sends when;
`Download` takes that decision as arbitrary and follows the one command that carries
data; `Vehicle` takes whatever arrives, in parts of any size, and follows it.
`MsgRing` shows that the ring is a `Fifo`, and `Download` and `Outbox` rely on that.
`Framing` shows what `Download` assumes of the serial line while the receiver works: a
frame is taken as it was sent, and one with a damaged byte is not taken. `Outbox` and `JoinScan` see two
sides of one thing, the messages and the search, and both implement `Network`.

### Vehicle

`car` is one record with the fields of `carInfo`, the static `plc` and the two
flags; a handler is an operator from record to record, and an action applies the
whole of it: `AppHandler` is `vehicleAppHandler` (report, then route),
`PlcFrame` is `recvPlcStateFrm` with the copy into `carInfo.plc`, `TimeEvent` is
`vehicleTimeEventHandler`, `Poll` and `Obeyed`/`Missed` are the two branches of
`vehicleMsEventHandler`, the `Sv` actions are the cases of
`ezspRouterIncomingMessageHandler`, `Reboot` is `vehicleInit` on the flash that is
left. `motion` is what the PLC does, `under` the last card read.

Flash: a table that is a way home is written into the erased page row by row, so
`PowerFails` is a start with any first part of it; a new configuration
(`SvConfig`) and a network joined with other parameters erase the page
(`table.c:116`) while the copy in RAM stays. `HomeSaved` says what is left after
that: the way home in RAM is the one in flash, or the flash is empty.

Data abstraction: cards are small numbers; the commands in the rs485 ring are
stored once and not `SNEDTIMES` times; `info.fail` is the set of fault bits;
`sameSec` says whether `carInfo.time` equals the clock; `recv` is capped at its
threshold. `news` says whether `carInfo.plc` differs from `single_info.lamp`, the copy of
it that was reported last. The copy itself is not kept: a motion, an obstacle, a card or a
length that changes while there is no news makes some, and everything else is left open
(`Compared`), because a clear resets `fail` in the copy too (`vehicle.c:690`), a second
change may undo the first, and the fields `index` and `magic` of the report are not
modelled. `CardActedOn` speaks of a card on which a car stays: a card put off within a
second that another one overwrites is lost in the code, and so it is in the model.
The ring of commands has 32 entries and no full test; `Room` keeps the model where a
handler runs only with room for what it puts, because the ring is drained faster.

`Follower` is what remains without serial frames, stale reports, flags, cards and flash:
`route`, `action`, `status` (what the wheels were told last) and `waiting`. `Vehicle`
implements it with the same fields of `car`. A card is acted on in `AppHandler` (at
once or, if a second one came within a second, by the repetition), and each run of
the handler is seen from outside as one `Read`, as a `Stop` (no row has the card), or as
nothing.
The row that is done is the first with its card; it may lie behind the expected one
(missed cards) or be the one just done, when the car comes back to a card.

### Dispatch

A handler is one action unless it uses again what another task may have changed.
It is split there: `KeyCheck`/`KeyStore` (test of the slot, then its use, by the
keyboard task), `ByReport`/`ReadActive`/`WriteActive` (read and write-back of the
byte that holds `active` and `cnt`), `Send`/`Count`/`Clear` (transmission, count,
limit). A frame of the PC is one step: with the keyboard split, both orders in
which two commands can meet are there. `cnt` is capped at 2 (only `cnt > 1` is
asked). The record of an ASSIGN is reduced to the station (`buf`) and to which
record its body is read from (`GoalOf`). `tries` is a history variable: the
transmissions of the command now in the slot of one device. Short addresses are
model values; `addrOf` is the address a device has, `logic` what the server filed.
A device takes any address that nobody has now (`Rejoin`), also one that the server
still files for another, and the first the server hears of it may be any frame. Which
EUI64 and types the server knows, on which it depends whether ADDRESS and JOIN file an
address, is left open. A report files the address also of a device that is not allowed
(`cmd.c:537-543`); the rest of such a report goes to the record of another number if its
own is the last (`RecordOf`). So the frame of a device may free the slot of another, and
`OthersSlotKept` says when: only if the other has left the address filed for it (`moved`,
a history variable). The coordinator's own RESPONSE has the address 0, which is the filed
address of a device that is powered off (`ByCoordinator`). An address that is not filed
makes `cmd.c:780` clear a byte before the array, the end of the time stamp of the last
car; only `isCarActive` reads that stamp, to ask a silent car, and `AskSilent` asks any.
`back` is a history variable: how often the write-back of the report handler took back
the count of the watched command.

### Download

The server: `mem` is the memory of `msg_info` from `route` on, in pairs of bytes, because
`sea_routeadd` does not ask whether a part fits into the record of the car (`MAXPATH`
rows): what does not is written over the number, the count and the rows of the next
record (`Copied`). `Place` says where the records are, and behind the last are the tables
of the stations. `PcTable` is any part of a table of the PC through `sea_routeadd`, from
the PC task or the keyboard. The history variable `beyond` says that a part did not fit:
`OwnRows` and `OwnLength` hold until then and, as TLC finds with a table for each of two
cars, not afterwards. Left out are the bit `update` in the byte of the count, the content
of the stations' tables, and what would be written behind the whole memory.
`sea_sendroutetable` is one step per round of its loop (`SendPart`), because the
other tasks may clear or write the buffer between two rounds; a switch inside a
round is a hazard of its own (`msginfo.c:389`) and not modelled. The coordinator:
`Parse` looks the address up and queues (into a ring that may overrun), `MsEvent` hands over to the stack,
`Failed` is the sent handler, which queues the message taken *last* and not the one
that failed. The radio may say that a message failed although it arrived
(`Arrives` with `Failed`): the car then gets a row twice, and the second time
behind newer ones. `single_info.retry` is a byte, and only a success sets it back: after
256 failures in a row it is 0 again and two more messages are repeated (`RETRYSIZE`).
`Work` counts what the coordinator has left to do, so that a message handed over, an
answer and a repetition that is still allowed each lessen it; `WorkShrinks` is the reason
why `SendingEnds` holds. A car that leaves and joins (`Moves`) may get the address that
the coordinator still holds for another. The car compares its number with the one
in the message (`incoming.c:201`): `OwnRows` rests on that.
The two sides keep different rules for the size of a table: the buffer of the
server takes its length from the last part written, the car never shrinks `count`.
A second sender of the same buffer (`w108 -s` of the keyboard) is not modelled.

### MsgRing and Outbox

`MsgRing` has the two positions and the slots as in the code and no test for a full
ring: with one slot left `sea_sendmsg` makes the positions equal. `Fifo` has that as a step,
`Overrun`: all that waits is lost, and the message may come to lie under `curmsg`. `Queue`
and `Taken` are the refinement mapping. Nothing in `Outbox` waits for room. `Outbox` adds who sends (`Answer`,
`Report`, `NetworkUp`, `Failed`), who takes (`MsEvent`), and the callbacks of the
stack. The application state (`appstate`) and the stack state are two variables
because the code keeps two and lets them differ. The comment at `msg.c:73` allows
ten messages, and `msg.h:6` gives the ring four slots: a fourth message makes it
look empty. The comment at `sensor.c:63` says "send it again"; what is queued is the
message taken last, which need not be the one that failed. `Network` is its life in the
network: the stack calls back for old messages also after it has left, so the
application may give up (`GiveUp`) in any state, and an order to leave may stand before
the next network is joined (`Up` keeps it: the car leaves once more). A module whose
parameters name channel 26 joins, and then only a line is printed (`sensor.c:107-110`,
`InterpanUp`): the stack is in a network, the application has none and nothing orders the
stack to leave. `interpan` says that the parameters are such, `Stranded` is the state, and
`JoinedOrLeaving` and `Rejoins` name it as their exception.

### JoinScan

The main loop is one action (`exceptionHandler`: the second event with its time-out,
then `routerExceptionHandler` down to the choice of a network), a reboot by the
time-out is `Boots`. The stack hears networks, completes a scan, or refuses it, and
takes or refuses the module. A network is its channel, as `panid_info` has one per
channel. `scanChannel` is the ring of channels still to scan; `scanFail` and
`lastChannel` are how the code notices a channel that does not move on.
`scanSingnal` is left out: every caller sets it just before the call that clears
it, so it never has another value when it is read. The network in flash (`home`) may be
on channel 26 (`INTERPAN`); then the module may come to rest there, which `Joins` names.
The list of networks has no bound here, as in the code: `ListedOnce` says that none is
listed twice, so it overflows only if more than eight are in reach and admitted.

### Framing

The receiver has the state of `FRM_BUF`: `sea_recvbyte` is one step per byte, with
`sea_getframe` behind it. Of its list of four frames there are the slot that is being
filled and its number: the coordinator takes a frame in the call that received its last
byte. A length up to `MAXFRMLEN` passes (`frame.c:198`), and the body has `FRDATASIZE`
bytes: the up to four bytes behind it (`PastBody`) go into the head of the next slot,
where they are written again before they are read, or from the last slot over the pointer
to `sea_getframe`, which is called next. From then on what the program does is not
defined: the receiver is `WRECKED`, takes nothing, and may be switched off and on. The sender is
`sea_putframe`; that the prefix is not part of the sum is in the code of both. The
server's end is a library with the same protocol. Losing, changing and making up a
byte are the faults. `fate` is a history variable: a frame is "clean" while nothing
has happened to it on the line and its first byte did not meet a receiver inside another
frame or wrecked, "hit" when one byte of such a frame was changed, but not the prefix nor the
length, and "lost" otherwise. A hit frame is not taken (`DamageNoticed`). With the
length damaged nothing can be said: the receiver then looks for the sum elsewhere.

### Ticker

The bits of `config` are sets, so the condition of line 67 is translated as written.
`MINUTES` is 6 in the run: only the last minute of an hour and the jump to minute 4
matter.

## 3. Runs

| Run | Question | Result |
|---|---|---|
| `vehicle` | safety of the route follower, power losses included; is it a `Follower` | 7 properties hold |
| `vehicle_live` | does it stop at stations, act on the card it stays on, report | 3 liveness properties hold |
| `dispatch` | whose command does a frame answer, how often is one sent | 3 properties hold |
| `dispatch_live` | do commands leave their slots | holds |
| `download` | does a car ever get a row that is not its own, does each message leave less to do | 5 properties hold |
| `outbox` | ring as a queue with its overrun, leaving and joining, is it a `Network` | 6 properties hold |
| `scan` | is every channel heard, does a module find its network, is it a `Network` | 7 properties hold |
| `framing` | does a frame arrive as sent or, damaged, not at all, does the receiver find the next one | 4 properties hold |
| `dispatch_busy` | is a waiting command kept | violated |
| `dispatch_assign` | does the assignment name the vehicle | violated |
| `dispatch_retry` | is a command retried before it is given up | violated |
| `ticker_cyclic` | does the clock go on | violated |

### Bounds, and why they are enough

* `vehicle`: two cards and two tables: a round that passes card 2 twice, and a short
  way home with one STOP; the flash is empty at first, downloads fill it, and power
  losses leave parts of it. `RTSENDSIZE` 3 puts a whole table into a message;
  `HOMESIZE` 3 and `MAXPATH` 4 give tables shorter than the home table and as long.
  Every situation the code tells apart occurs: card at the expected
  row, further on, in the table twice, not in it, last row; download over an
  equal, shorter and longer table. `WireBound` 3 leaves room for a stale command
  before the two a handler may add. `WaitTicks` is 1: only zero and
  not zero are distinguished. `RECVTIMES` 0 lets every unchanged frame be copied,
  which is the case with the most news; the proofs are for every value.
* `vehicle_live`: one table of two stations; the properties speak of one stop or
  one card at a time. Here `HOMESIZE` is 0: no table is a way home.
* `dispatch`: one caller station and one car, so a number is the caller's or the car's;
  two addresses, which are symmetric: both devices can be in the network, and each can
  take the address that the server files for the other. No ASSIGN (`States` is empty), to
  keep the run short. `TriesBound` 3 and `BackBound` 1: as long as no count was taken
  back, a third transmission would be seen; what is allowed for each count taken back is
  left to the proof.
  `dispatch_live` has ASSIGN, which touches both devices, and one address, which passes
  from one to the other; no symmetry and no count of the transmissions. The three runs
  with findings have both, and `dispatch_retry` watches the station instead of the car.
* `download`: two cars and one address, so the address passes between them. A record has
  two rows and car 1 a table of three: its third row falls on the head of the record of
  car 2, which then names car 1 and counts three rows. One row per message (`RTSENDSIZE`
  1), so a table is three messages and may be cut between them. `PutBound` 2 frames,
  `AirBound` 2 and `SendBound` 1: a message can be repeated behind a newer one, and the
  queue overruns. `FaultBound` 1 failed transmission to a car that is there; those to a car that
  is gone are not limited. `RETRYSIZE` 4 instead of 256: the least with which the count
  passes the limit of 2 before it runs over.
* `outbox`: three slots, one fewer than in the code, so that the ring wraps and overruns
  early, and the real tolerance of 2; two messages of one cluster id and
  one of another; two messages at a time in the stack.
* `scan`: four channels: one without a network, one masked out, which stands for channel
  26 and may be the one in flash, two that can be joined. `AVAIL` 5, `TIMES` 3 and `TIMEOUT` 10
  are those of the code. `FaultBound` 9 refused or failed scans, joins and lost
  networks: enough for every channel to reach its third failure. `Late` is FALSE: a
  scan of one channel takes 138 ms and the second call comes two seconds later. With
  `Late` TRUE, TLC finds `ScanFindsAll` violated and the other invariants hold.
* `framing`: bytes of three bits, so sums wrap; bodies of one and two bytes; one frame
  with the prefix in its body and as its sum, one with none inside, and a length byte that
  can be damaged into every other, those behind the body and up to `MAXFRMLEN` included;
  two slots, the second of which is the last. `FaultBound` 2 lets one fault throw the receiver
  out of step and another hit it there.

### Fairness

* *Vehicle*: the main loop comes round (`AppHandler`, `PlcFrame` strongly fair,
  because they wait for room in the rs485 ring; `ClockTick`, `Poll` weakly), the
  ring is emptied, and the line does not lose commands for ever (`SF` of `Obeyed`,
  the only assumption on the world). Nothing is assumed of server, driver or floor.
  `Ticker` shows that the code runs its timers for two hours only; the liveness
  results are about a car whose timers run.
* *Dispatch*: tasks of one priority get their turn, `w108` is periodic, and a handler
  that was begun is finished. Nobody has to answer or to send.
* *Download*: the coordinator's loop runs (`MsEvent`) and its stack reports on every
  message (`Radio`). The server and the cars may stop at any point.
* *Outbox*: the second event runs `routerExceptionHandler`, the stack finishes what it
  began, and a network is within reach again and again (`SF` of `NetworkUp` and of
  `InterpanUp`).
* *JoinScan*: the main loop runs (also into a reboot) and the stack answers what it was
  asked; that failures end is `FaultBound`.
* *Framing*: the sender goes on sending, as the server does (it asks silent cars every
  two minutes, `w108Task.c:101-115`), and the line delivers; that faults end is
  `FaultBound`.
* *Ticker*: the main loop runs an active event.

`SlotsDrain` has a premise (`Quiet` of `Dispatch`): from some point no more commands are
stored, the devices keep their addresses, and the server has heard of every device whose
address another has now. A caller may otherwise refill a slot as fast as it is emptied,
and a device under the address still filed for another frees the slot of that one with its
reports, and may take back its own count with each of them.
`Resync` has one too (`Quiet` of `Framing`): in the end no frame has a prefix inside, and
the receiver is not wrecked. Without the first TLC finds a receiver that takes a prefix in
each body for a beginning and misses every true one. `CardActedOn` has the premise that the
car stays on its card and is not started again: each start forgets the card. `Rejoins` and
`Joins` allow for channel 26.

## 4. Proofs

All theorems hold for every value of the constants that satisfies the named
assumption of the module. They are about `Spec`, without fairness.

* `VehicleProofs`. `VehicleInv` is `Good(car)`, the bound of the ring and the types
  of the environment. `Good` is the type of the record, `Len(flash) <= HOMESIZE`, and
  the properties `Window`, `Holds`, `Reported` and `Saved`. They are kept together
  because the operators are compositions: `vehicleInit` downloads the flash, so the size
  of the flash is needed for `Window` after a reboot; an end of line clears the table
  inside the card handler, so `Reported` must hold in between. There is one lemma
  for each operator on the record ("a good car stays good, and the ring grows by at
  most n"), then one step per action. That `carFindCardInTable` finds a first
  position needs that `<` on the naturals is well founded. Theorems:
  `Invariance`, `TypeCorrect`, `RouteInWindow`, `WaitingIsKept`, `CountIsReported`,
  `HomeIsSaved`.
* `VehicleStepProofs`. What a step does to the table, from the same invariant: it keeps
  it, or follows it by `RouteStep`, or loads rows without touching the index, or
  starts afresh (`EveryStep`, one case per action). From this the action property:
  `LineEndsWithStop`. What `Compared` leaves open is one field (`NewsOf`, `NotedNews`). `VehicleImplementsFollower` is the
  refinement. Five relations between records say what an operator may do as `Follower`
  sees it: nothing (`Same`), a command to the wheels (`Told`), `Passes`, `ReadsRow`, or one
  of a card handler's ways (`Handles`); one lemma per operator shows its relation, and
  one per action turns it into a step of `Follower`. The report and the card handler run
  in one action, so it matters that the report is `Same`. That the row done is the *first*
  with its card is the strengthened `FindCard` of `VehicleProofs`. `FollowerWaits`: what
  implements `Follower` waits at a station, so `WaitingHolds` is a consequence of the
  promise and not of how `carInfo` is laid out.
* `DispatchProofs`. `AddressInv`: no two devices are in the network under one address, and
  the server has the address of every device that has not left the one it has filed. So
  the slot that a frame frees is the sender's, none, or that of a device in `moved`
  (`FreesMoved`). `TriesInv` (`Counted`): what was transmitted of the watched command is in
  the count of its slot, as far as it matters, or was taken back; the write-back of a
  report is what may lower the count, and `back` counts it. Nothing is known once `back`
  has reached its bound, for which `TriesBound <= BackBound + 2` is assumed: a bound of the
  model and not of the code. Theorems: `TypeCorrect`, `OthersKeepTheirs`, `TwiceAtMost`.
* `DownloadProofs`. `TypeInv` is the type and `Taken` (a message in the stack means that
  there is one taken last, so `Failed` queues a real one). `RowsInv` says of every
  place a row can be in (`RecordsOK`, `SerialOK`, `SendOK`, `AirOK`, `CarsOK`) that it
  is a row of its car at its place, and that no place goes beyond a table of that car,
  unless `beyond`. Of the memory it says that each record names its car and holds a part of
  a table of it (`RecordOK`); a part that fits touches no other record (`Places`,
  `Elsewhere`).
  The messages carry the car's number, so it does not matter where they are sent.
  `SendingShrinks` is the ranking argument of `SendingEnds`, whose conclusion (a rank in
  the naturals that every fair step lessens) stays with TLC. A message in the queue
  weighs 8, one in the stack 7, a repetition that is still allowed 2: a failure that
  queues again gives 7 and one 2 for the 8, and a success, or a failure that is not
  repeated, gives 7 for at most three repetitions that are allowed anew
  (`MsEventShrinks`, `RadioShrinks`).
  Theorems: `TypeCorrect`, `RowsAreOwn`, `LengthIsOwn`, `SendingShrinks`.
* `MsgRingProofs`. The ring implements `Fifo` with all slots but one, whatever its size and
  whoever sends. The invariant is the type, `JustBehind` (the slot of the last message is
  the one just behind the queue, so it is the next one written exactly when one slot is
  left) and `Written` (what waits was written). `PutMaps` and `OverrunMaps` are the two
  cases of `sea_sendmsg`. Theorem `RingImplementsFifo`.
* `OutboxProofs`. The same for every step of `Outbox` (`OutboxImplementsFifo`),
  and `TypeCorrect`. `OutboxImplementsNetwork` maps each action to one of `Network`;
  `NetworkKeeps` is the induction over `Network` itself, of `Apart` and `Inside`. From both:
  `NeverApart` (a joined stack without the application has the order to leave, or is on
  channel 26) and
  `OnlyInNetwork`.
* `JoinScanProofs`. `BaseInv` is the type with `RingInv` (only a channel that was taken is
  put back, so the ring has room), `TryInv` (which network is being tried) and
  `ListInv` (entries of the list are networks that were heard, each once). Theorems:
  `TypeCorrect`, `RebootOnlyFromScan`, `JoinsKnown`, `ListsOnce`. `FindInv` says where a channel in reach is while it has not
  been heard: in the ring, or it is the current one, and the stack scans no other. It holds under `~Late`,
  an assumption of `FindsAll`. `ScanImplementsNetwork` needs no invariant: the branches of
  `sensorJoinNetwork` either start a join or leave the network alone (`JoinOrNot`).
* `FramingProofs`. `Receives` and `Sends` are the types of the two ends (the position in
  a frame stays behind its length). `InStep`: from the first byte of a clean frame on,
  the receiver has the header fields, the part of the body and the sum of the bytes
  that have left; from the changed byte of a hit frame on it is as far as the sender and
  has the length, but another sum (`Astray`). Sums that differ still differ after the same
  byte, and equal ones after different bytes (`SumsDiffer`: arithmetic modulo `W`).
  A wrecked receiver is in no frame that is clean or hit, so nothing is claimed of it.
  Theorems: `TypeCorrect`, `CleanArrives`, `DamageIsNoticed`.

What the proofs corrected in the models:

* The ranking of `SendingShrinks` failed at a count of failures without a bound: the code
  has a byte. `Failed` of `Download` now runs over as the byte does.
* `TooManyFailures` of `JoinScan` asked for a joined stack, which `sensor.c:59-71` does
  not; to fit `Network`, which `Outbox` implements too, the guard had to go.
* The first `Follower` let a car only go on in its table. TLC showed a car that comes
  back to the card it has just done and does that row again, as the code does.

Only model-checked: all liveness, as it and ENABLED are outside the prover's reach
(`StationStop`, `CardActedOn`, `ReportsSettle`, `SlotsDrain`, `SendingEnds`, `Rejoins`,
`Joins`, `Resync`), and the counterexamples. No theorem but those
of `Vehicle` (`Room`, its ring of serial commands) assumes that a ring has room, and none
assumes that a table fits into its record, that a frame keeps to the size of a body,
or that JOIN is heard first: where the code goes on behind such a limit, so do the models,
and the properties name the state (`beyond`, `WRECKED`, `moved`, `Stranded`) they stop at.

## 5. Findings

1. `dispatch_busy`: ASSIGN overwrites a waiting command of the vehicle
   (`cmd.c:392`; the test at 351 is of the station's slot).
2. `dispatch_assign`: the body of an ASSIGN is read one record off, and the first
   car is left out by `>` (`cmd.c:451-454`).
3. `dispatch_retry`: an answer clears the slot but not its count (`cmd.c:780`), so the
   next command may be sent once only, yet is reported as "retry too much".
4. `ticker_cyclic`: `(config | OPEN) && ~(config & NETWORK)` is true of every
   configuration, so the millisecond event stops after two hours (`ticker.c:67-77`).

Each trace is the shortest TLC finds; the properties are at the end of the modules.

## 6. Not modelled, and the plan

Could be added next, in this order:

1. The reports of the server to the PC (`miscTask.c` 102-198: flags set by one task and
   cleared by another) and its start (`w108Task.c` 65-98).
2. The UART rings under `Framing` and the rs485 ring of the car: interrupt against main
   loop, full looks empty.
3. The page protocol of the system table (`flash.c`, `table.c`); `Vehicle` has its effect
   on the way home.
4. The caller station (`ENABLE_CALL`), and the other serial commands of the coordinator.
5. `Fragment`: no command of the vehicle build is long enough for it.

Not planned: register access, formatting and printing, the vendored stacks, and the
drivers that are not built. They are nearly all of `src/`: the modules cover about one
line in a hundred of it, and the code that has state of its own and belongs to this
project (some thousand lines of `lamps/src`, `lamps/sealib/lamp`, `server/src/drv` and
`server/src/tasks`) is a few in a hundred.
