------------------------------ MODULE JoinScan ------------------------------
(***************************************************************************)
(* How a car or station without a network looks for one: it tries the      *)
(* network it knows, then scans the channels one by one, and tries what    *)
(* the scan found (src/lamps/src/main/sensor.c, exception.c;               *)
(* src/lamps/sealib/util/form-and-join.c).  Outbox takes all of this as    *)
(* one step.  panid_info lists one network per channel: a network is its   *)
(* channel, and the channels are numbered in the order of the list.        *)
(***************************************************************************)
EXTENDS Naturals, Sequences

CONSTANTS
    Channels,   \* 11 .. 26
    INTERPAN,   \* channel 26, kept for inter-PAN messages
    Allowed,    \* those that sys_info.channel.mask admits, never channel 26
    Near,       \* those on which a network of panid_info is in reach
    AVAIL,      \* tries of the network the module knows
    TIMES,      \* further tries of a network that was found
    TIMEOUT,    \* seconds after which a scan that has not ended reboots
    Late,       \* whether the stack may be scanning one channel for more than a second
    FaultBound, \* bound of the model: failures of the radio and of the network
    ScanOrder   \* the channels in ascending order

USED == 100     \* index of a network that has had its turn

ASSUME ScanAssumption ==
    /\ INTERPAN \in Channels /\ Allowed \subseteq Channels \ {INTERPAN} /\ Near \subseteq Channels
    /\ Channels \subseteq 1..USED-1
    /\ ScanOrder \in Seq(Channels) /\ \A c \in Channels : \E i \in DOMAIN ScanOrder : ScanOrder[i] = c
    /\ AVAIL \in Nat \ {0} /\ TIMES \in Nat /\ TIMEOUT \in Nat \ {0} /\ FaultBound \in Nat
    /\ Late \in BOOLEAN

VARIABLES
    \* sensorJoinNetwork
    joinInitial, avail, scan, joinTimes,
    params,         \* channel of network_info.params, 0 for none
    home,           \* channel of sys_info.channel, kept in flash; 0 if not valid
    scanAction,     \* a scan is asked for
    networkInfo2,   \* what the scan found: its first networkCount entries, also those that
                    \* lie behind the eight the array has
    \* the scan
    scanStatus,     \* SCAN_LEISURE, SCAN_DUAL or SCAN_COMPLETE
    scanTimeOutEvent, \* seconds left, 0 when it is not active
    scanChannel,    \* the ring of the channels still to scan
    readError,      \* the ring was found empty
    currentChannel, lastChannel, scanWait, scanFail,
    \* the stack
    air,            \* the channel it is scanning, 0 for none
    stackstate, appstate, action,
    faults          \* failures so far

joinVars  == <<joinInitial, avail, scan, joinTimes, params, home>>
listVars  == <<scanAction, networkInfo2>>
watchVars == <<lastChannel, scanWait, scanFail, scanStatus, scanTimeOutEvent>>
queueVars == <<scanChannel, readError, currentChannel, air>>
netVars   == <<stackstate, appstate, action>>
vars == <<joinVars, listVars, watchVars, queueVars, netVars, faults>>

\* After a start, as after a reboot.
Init ==
    /\ joinInitial = TRUE /\ avail = 0 /\ scan = FALSE /\ joinTimes = 0
    /\ params = 0 /\ home \in Channels \cup {0}
    /\ scanAction = FALSE /\ networkInfo2 = <<>>
    /\ scanChannel = <<>> /\ readError = FALSE
    /\ currentChannel = 0 /\ air = 0
    /\ lastChannel = 0 /\ scanWait = 0 /\ scanFail = 0
    /\ scanStatus = "LEISURE" /\ scanTimeOutEvent = 0
    /\ stackstate = "NO_NETWORK" /\ appstate = "NO_NETWORK" /\ action = FALSE
    /\ faults = 0

\* What is in flash stays.
halReboot ==
    /\ joinInitial' = TRUE /\ avail' = 0 /\ scan' = FALSE /\ joinTimes' = 0 /\ params' = 0
    /\ scanAction' = FALSE /\ networkInfo2' = <<>>
    /\ scanChannel' = <<>> /\ readError' = FALSE
    /\ currentChannel' = 0 /\ air' = 0
    /\ lastChannel' = 0 /\ scanWait' = 0 /\ scanFail' = 0
    /\ scanStatus' = "LEISURE" /\ scanTimeOutEvent' = 0
    /\ stackstate' = "NO_NETWORK" /\ appstate' = "NO_NETWORK" /\ action' = FALSE
    /\ UNCHANGED <<home, faults>>
-----------------------------------------------------------------------------
(* The scan.                                                               *)

\* emberScanForNextJoinableNetwork, the ring holding q and the stack scanning channel b.
\* The stack refuses a scan while it scans or joins; the refusal is not looked at.  Every
\* caller sets scanSingnal and this clears it again: the flag never holds anything back.
ScanForNext(q, b) ==
    /\ readError' = (q = <<>>)
    /\ IF q = <<>>
       THEN currentChannel' = 0 /\ scanChannel' = q /\ air' = b
       ELSE /\ currentChannel' = Head(q) /\ scanChannel' = Tail(q)
            /\ air' = IF b = 0 /\ stackstate # "JOINING" THEN Head(q) ELSE b

\* scanInitial, in the step that scanSet has set SCAN_START.
scanInitial ==
    /\ scanStatus' = "DUAL" /\ scanTimeOutEvent' = TIMEOUT
    /\ scanFail' = 0 /\ scanWait' = 0 /\ lastChannel' = 0
    /\ ScanForNext(ScanOrder, air)

Stuck == scanWait + 1 >= 2 /\ lastChannel = currentChannel

\* Slip: the channel that is given up is not put back.
GiveUpChannel ==
    /\ ~readError /\ scanFail < 3 /\ Stuck
    /\ scanWait' = 0 /\ scanFail' = scanFail + 1
    /\ ScanForNext(scanChannel, air)
    /\ scanTimeOutEvent' = scanTimeOutEvent - 1
    /\ UNCHANGED <<scanStatus, lastChannel>>

\* Slip: the time-out goes on after the scan.
EndsUnclosed ==
    /\ readError /\ scanStatus' = "COMPLETE"
    /\ UNCHANGED <<queueVars, lastChannel, scanWait, scanFail, scanTimeOutEvent>>

Ends ==
    /\ readError /\ scanStatus' = "COMPLETE" /\ scanTimeOutEvent' = 0
    /\ UNCHANGED <<queueVars, lastChannel, scanWait, scanFail>>

GivesUp ==
    /\ ~readError /\ scanFail < 3 /\ Stuck
    /\ scanWait' = 0 /\ scanFail' = scanFail + 1
    /\ ScanForNext(Append(scanChannel, currentChannel), air)   \* scanErrorHandler
    /\ scanTimeOutEvent' = scanTimeOutEvent - 1
    /\ UNCHANGED <<scanStatus, lastChannel>>

Waits ==
    /\ ~readError /\ scanFail < 3 /\ ~Stuck
    /\ scanWait' = IF lastChannel = currentChannel THEN scanWait + 1 ELSE 0
    /\ lastChannel' = currentChannel
    /\ scanTimeOutEvent' = scanTimeOutEvent - 1
    /\ UNCHANGED <<queueVars, scanStatus, scanFail>>

scanDual == Ends \/ GivesUp \/ Waits

\* scanModule: a scan that is asked for starts unless one is running.
Starts == scanAction /\ scanStatus # "DUAL"

scanModule ==
    \/ Starts /\ scanInitial
    \/ scanStatus = "DUAL" /\ scanDual
    \/ ~Starts /\ scanStatus # "DUAL" /\ UNCHANGED <<queueVars, watchVars>>
-----------------------------------------------------------------------------
(* sensorJoinNetwork, called after scanModule: it looks at the new scanStatus. *)

\* Mark the k-th network of the list as tried.
Marked(nets, k) ==
    [i \in DOMAIN nets |-> IF i = k THEN [nets[i] EXCEPT !.index = USED] ELSE nets[i]]

\* The list after scanModule: scanInitial empties it.
Kept == IF Starts THEN <<>> ELSE networkInfo2

\* emberJoinNetwork; the stack refuses while it scans.
Join(c) ==
    /\ params' = c
    /\ stackstate' = IF air' = 0 THEN "JOINING" ELSE stackstate
    /\ UNCHANGED <<appstate, action>>

NoJoin == UNCHANGED <<params, netVars>>

\* A new search: the first try of the network in flash, if it is a valid one.
FirstTry ==
    /\ joinInitial /\ joinInitial' = FALSE
    /\ scan' = TRUE /\ joinTimes' = 0 /\ scanAction' = FALSE
    /\ networkInfo2' = Marked(Kept, 1)
    /\ IF home \in Channels
       THEN avail' = AVAIL - 1 /\ Join(home)
       ELSE avail' = 0 /\ params' = home /\ UNCHANGED netVars

TryAgain ==
    /\ ~joinInitial /\ avail > 0 /\ avail' = avail - 1 /\ Join(params)
    /\ scanAction' = FALSE /\ networkInfo2' = Kept
    /\ UNCHANGED <<joinInitial, scan, joinTimes>>

\* The index of the network whose turn it is: the first of those with the lowest index.
Best(nets) ==
    CHOOSE k \in DOMAIN nets : \A i \in DOMAIN nets :
        \/ nets[k].index < nets[i].index
        \/ nets[k].index = nets[i].index /\ k <= i

AllUsed == \A k \in DOMAIN Kept : Kept[k].index = USED

\* Slip: a scan that found nothing is not repeated.
ScanOnce ==
    /\ scanStatus' = "COMPLETE" /\ (Kept = <<>> \/ joinTimes = 0) /\ AllUsed
    /\ scanAction' = scan /\ networkInfo2' = Kept
    /\ NoJoin /\ UNCHANGED joinTimes

NoScanYet ==
    /\ scanStatus' # "COMPLETE"
    /\ scanAction' = scan /\ networkInfo2' = Kept
    /\ NoJoin /\ UNCHANGED joinTimes

\* networkCount = 0, or every network of the list has been tried.
ScanAgain ==
    /\ scanStatus' = "COMPLETE" /\ (Kept = <<>> \/ joinTimes = 0) /\ AllUsed
    /\ scanAction' = TRUE /\ networkInfo2' = Kept
    /\ NoJoin /\ UNCHANGED joinTimes

TryFoundAgain ==
    /\ scanStatus' = "COMPLETE" /\ Kept # <<>> /\ joinTimes > 0
    /\ joinTimes' = joinTimes - 1 /\ Join(params)
    /\ scanAction' = scan /\ networkInfo2' = Kept

TryFound ==
    /\ scanStatus' = "COMPLETE" /\ joinTimes = 0 /\ ~AllUsed
    /\ joinTimes' = TIMES
    /\ networkInfo2' = Marked(Kept, Best(Kept)) /\ Join(Kept[Best(Kept)].channel)
    /\ scanAction' = scan

\* Once the known network has been tried, and no longer than until one is joined.
SearchOn ==
    /\ ~joinInitial /\ avail = 0 /\ scan' = FALSE
    /\ NoScanYet \/ ScanAgain \/ TryFoundAgain \/ TryFound
    /\ UNCHANGED <<joinInitial, avail>>

sensorJoinNetwork == (FirstTry \/ TryAgain \/ SearchOn) /\ UNCHANGED home

\* A joined module only leaves if it has been told to.
OtherState ==
    /\ scanAction' = FALSE /\ networkInfo2' = Kept
    /\ IF stackstate = "JOINED" /\ action
       THEN action' = FALSE /\ stackstate' = "LEAVING" /\ UNCHANGED appstate
       ELSE UNCHANGED netVars
    /\ UNCHANGED joinVars

\* Unless Late, the stack does not need two calls for one channel.
Timely == Late \/ air = 0 \/ lastChannel # currentChannel

\* routerExceptionHandler, once a second.
exceptionHandler ==
    /\ scanTimeOutEvent # 1 /\ Timely
    /\ scanModule
    /\ \/ stackstate = "NO_NETWORK" /\ sensorJoinNetwork
       \/ stackstate # "NO_NETWORK" /\ OtherState
    /\ UNCHANGED faults

\* scanDual: the third channel that was given up.
ScanFails == scanStatus = "DUAL" /\ ~readError /\ scanFail >= 3 /\ Timely /\ halReboot

scanTimeOutEventHandler == scanTimeOutEvent = 1 /\ halReboot
-----------------------------------------------------------------------------
(* The stack calls back.                                                   *)

Listed(c) == \E i \in DOMAIN networkInfo2 : networkInfo2[i].channel = c

\* Slip: a network is saved again each time it is heard.
SaveAlways(c) == networkInfo2' = Append(networkInfo2, [channel |-> c, index |-> c])

saveNetwork(c) ==
    networkInfo2' = IF Listed(c) THEN networkInfo2
                    ELSE Append(networkInfo2, [channel |-> c, index |-> c])

\* Slip: the mask is not looked at.
SaveAny ==
    /\ air \in Near /\ saveNetwork(air)
    /\ UNCHANGED <<joinVars, scanAction, watchVars, queueVars, netVars, faults>>

\* emberFormAndJoinNetworkFoundHandler, once per beacon.
NetworkFound ==
    /\ air \in Near /\ air \in Allowed /\ saveNetwork(air)
    /\ UNCHANGED <<joinVars, scanAction, watchVars, queueVars, netVars, faults>>

\* emberFormAndJoinScanCompleteHandler; a network in reach has been heard by then.
ScanComplete ==
    /\ air # 0 /\ (air \in Near \cap Allowed => Listed(air))
    /\ ScanForNext(scanChannel, 0)
    /\ UNCHANGED <<joinVars, listVars, watchVars, netVars, faults>>

\* Slip: the channel is put back although it is going to be given up.
ScanErrorPutsBack ==
    /\ air # 0 /\ faults < FaultBound
    /\ air' = 0 /\ faults' = faults + 1 /\ scanChannel' = Append(scanChannel, air)
    /\ UNCHANGED <<joinVars, listVars, watchVars, netVars,
                   readError, currentChannel>>

\* With another status than success it does nothing.
ScanError ==
    /\ air # 0 /\ faults < FaultBound
    /\ air' = 0 /\ faults' = faults + 1
    /\ UNCHANGED <<joinVars, listVars, watchVars, netVars,
                   scanChannel, readError, currentChannel>>

\* EMBER_NETWORK_UP with the parameters asked for: they are kept in flash.
NetworkUp ==
    /\ stackstate = "JOINING" /\ params \in Near \ {INTERPAN}
    /\ stackstate' = "JOINED" /\ appstate' = "JOINED"
    /\ joinInitial' = TRUE /\ home' = params
    /\ UNCHANGED <<avail, scan, joinTimes, params, listVars, watchVars, queueVars, action, faults>>

\* EMBER_NETWORK_UP in another network.
WrongNetwork ==
    /\ stackstate = "JOINING" /\ params # INTERPAN /\ faults < FaultBound
    /\ stackstate' = "JOINED" /\ action' = TRUE /\ faults' = faults + 1
    /\ UNCHANGED <<joinVars, listVars, watchVars, queueVars, appstate>>

\* EMBER_NETWORK_UP on channel 26, whatever the network: nothing but a line is printed.
InterpanUp ==
    /\ stackstate = "JOINING" /\ params = INTERPAN
    /\ \/ params \in Near /\ UNCHANGED faults
       \/ faults < FaultBound /\ faults' = faults + 1
    /\ stackstate' = "JOINED"
    /\ UNCHANGED <<joinVars, listVars, watchVars, queueVars, appstate, action>>

\* EMBER_JOIN_FAILED: nobody there, or a failure.
JoinFailed ==
    /\ stackstate = "JOINING" /\ stackstate' = "NO_NETWORK"
    /\ \/ params \notin Near /\ UNCHANGED faults
       \/ params \in Near /\ faults < FaultBound /\ faults' = faults + 1
    /\ UNCHANGED <<joinVars, listVars, watchVars, queueVars, appstate, action>>

\* ezspRouterMessageSentHandler: too many failures, the module is to leave.  The stack
\* also calls back when it has left the network, for messages sent before.
TooManyFailures ==
    /\ faults < FaultBound
    /\ action' = TRUE /\ appstate' = "NO_NETWORK" /\ faults' = faults + 1
    /\ UNCHANGED <<joinVars, listVars, watchVars, queueVars, stackstate>>

\* Slip: the application is not told.
DownUnnoticed ==
    /\ \/ stackstate = "LEAVING" /\ UNCHANGED faults
       \/ stackstate = "JOINED" /\ faults < FaultBound /\ faults' = faults + 1
    /\ stackstate' = "NO_NETWORK"
    /\ UNCHANGED <<joinVars, listVars, watchVars, queueVars, appstate, action>>

\* EMBER_NETWORK_DOWN, after a leave or because the network was lost.
NetworkDown ==
    /\ \/ stackstate = "LEAVING" /\ UNCHANGED faults
       \/ stackstate = "JOINED" /\ faults < FaultBound /\ faults' = faults + 1
    /\ stackstate' = "NO_NETWORK" /\ appstate' = "NO_NETWORK"
    /\ UNCHANGED <<joinVars, listVars, watchVars, queueVars, action>>

Boots == ScanFails \/ scanTimeOutEventHandler
Stack == NetworkFound \/ ScanComplete \/ ScanError
         \/ NetworkUp \/ WrongNetwork \/ InterpanUp \/ JoinFailed \/ TooManyFailures \/ NetworkDown

Next == exceptionHandler \/ Boots \/ Stack

\* The main loop runs, and the stack answers what it was asked.
Fairness ==
    /\ WF_vars(exceptionHandler \/ Boots)
    /\ WF_vars(NetworkFound) /\ WF_vars(ScanComplete)
    /\ WF_vars(NetworkUp \/ InterpanUp \/ JoinFailed)
    /\ WF_vars(stackstate = "LEAVING" /\ NetworkDown)

Spec     == Init /\ [][Next]_vars
FairSpec == Spec /\ Fairness
-----------------------------------------------------------------------------
Entry == [channel : Channels, index : Channels \cup {USED}]

\* Types, and the places of the rings: only a channel that was taken is put back.
TypeOK ==
    /\ joinInitial \in BOOLEAN /\ scan \in BOOLEAN /\ scanAction \in BOOLEAN
    /\ avail \in 0..AVAIL /\ joinTimes \in 0..TIMES
    /\ params \in Channels \cup {0} /\ home \in Channels \cup {0}
    /\ networkInfo2 \in Seq(Entry)
    /\ scanStatus \in {"LEISURE", "DUAL", "COMPLETE"} /\ scanTimeOutEvent \in 0..TIMEOUT
    /\ scanChannel \in Seq(Channels) /\ Len(scanChannel) <= Len(ScanOrder)
    /\ readError \in BOOLEAN
    /\ currentChannel \in Channels \cup {0} /\ lastChannel \in Channels \cup {0}
    /\ scanWait \in 0..1 /\ scanFail \in 0..3 /\ air \in Channels \cup {0}
    /\ stackstate \in {"NO_NETWORK", "JOINING", "JOINED", "LEAVING"}
    /\ appstate \in {"NO_NETWORK", "JOINED"} /\ action \in BOOLEAN
    /\ faults \in 0..FaultBound

\* saveNetwork has no test for a full list.  A network that is heard again, in the scan
\* of a channel that had been given up too, takes no second entry: the list does not grow
\* beyond one entry for each network in reach that the mask admits.  These can be fifteen,
\* and the array has eight entries (H36 of the README).
ListedOnce ==
    \A i, j \in DOMAIN networkInfo2 :
        networkInfo2[i].channel = networkInfo2[j].channel => i = j

\* A scan that has ended has heard every channel, those that were refused, failed and were
\* given up in between too: each network in reach is in the list.
ScanFindsAll ==
    scanStatus = "COMPLETE" => \A c \in Near \cap Allowed : Listed(c)

\* The time-out that reboots the module is active during a scan and never else: a module
\* that has finished its scan and joined is not rebooted by it.
WatchedScan == scanTimeOutEvent > 0 <=> scanStatus = "DUAL"

\* Through lists that are a search old and tries that are repeated, a module only joins
\* the network in flash or one that its mask admits.
KnownNetwork ==
    stackstate = "JOINING" => params \in Channels /\ (params = home \/ params \in Near \cap Allowed)

\* The channel that the stack joins or is in is the one for inter-PAN messages.
OnInterpan == params = INTERPAN /\ stackstate # "NO_NETWORK"

\* Through scans, tries and reboots the module lives in its network as Network says.
N == INSTANCE Network WITH stack <- stackstate, app <- appstate, order <- action,
                           interpan <- OnInterpan
NetworkSpec == N!Spec

\* As long as a network is in reach, a module without one joins one, by way of scans that
\* fail, reboots and networks that do not take it; a module whose flash names channel 26
\* may come to rest there, joined without knowing it (sensor.c:107-110).
Joins ==
    stackstate = "NO_NETWORK" ~>
        appstate = "JOINED" \/ (stackstate = "JOINED" /\ params = INTERPAN /\ home = INTERPAN)
=============================================================================
