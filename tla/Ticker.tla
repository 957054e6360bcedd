------------------------------- MODULE Ticker -------------------------------
(***************************************************************************)
(* The clock of a radio module: millTickHook, run by the main loop every   *)
(* millisecond as long as it arms its own event again                      *)
(* (src/lamps/sealib/lamp/ticker.c).  It also runs the millisecond event   *)
(* of the application, which empties the rs485 ring and the ring send1, so *)
(* a module whose clock has stopped steers nothing and sends nothing.      *)
(***************************************************************************)
EXTENDS Integers

CONSTANTS
    ONESECOND,  \* milliseconds of a second
    MINUTES,    \* minutes of an hour, more than 4
    OPEN,       \* LAMP_CF_OPEN as the set of its bits
    NETWORK,    \* LAMP_CF_NETWORK as the set of its bits
    Configs     \* values of sys_info.ctrl.config, as sets of bits 0 .. 7

VARIABLES
    tick, sec, min, \* single_info.time
    workhour,       \* hours that are left
    armed,          \* whether millTickEvent is active
    config          \* sys_info.ctrl.config

vars == <<tick, sec, min, workhour, armed, config>>

\* Bits of an int, into which the operands are promoted.
Complement(bits) == (0..31) \ bits

Init ==
    /\ tick = 0 /\ sec = 0 /\ min = 0
    /\ workhour = 2 /\ armed = TRUE /\ config \in Configs

NewSecond == tick + 1 >= ONESECOND
NewMinute == NewSecond /\ sec + 1 >= 60
NewHour   == NewMinute /\ min + 1 >= MINUTES

\* The condition under which an hour is counted.
Counted == config \cup OPEN # {} /\ Complement(config \cap NETWORK) # {}

millTickHook ==
    /\ armed
    /\ tick' = IF NewSecond THEN 0 ELSE tick + 1
    /\ sec'  = IF NewHour THEN 10 ELSE IF NewMinute THEN 0
               ELSE IF NewSecond THEN sec + 1 ELSE sec
    /\ min'  = IF NewHour THEN 4 ELSE IF NewMinute THEN min + 1 ELSE min
    /\ workhour' = IF NewHour /\ Counted /\ workhour > 0 THEN workhour - 1 ELSE workhour
    /\ armed' = (workhour' > 0)
    /\ UNCHANGED config

\* sea_updatetime: the coordinator sends the date.
ServerDate ==
    /\ tick' \in 0..ONESECOND-1 /\ sec' \in 0..59 /\ min' \in 0..MINUTES-1
    /\ UNCHANGED <<workhour, armed, config>>

Next == millTickHook \/ ServerDate

\* The main loop runs the events that are active.
Spec == Init /\ [][Next]_vars /\ WF_vars(millTickHook)

\* ticker.c:28 "millisecond event handling and timing ..., cyclic": the clock goes on.
Cyclic == []<>armed
=============================================================================
