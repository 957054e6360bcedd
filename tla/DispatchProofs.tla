--------------------------- MODULE DispatchProofs ---------------------------
(* Theorems of Dispatch, for every number of stations, cars and addresses.   *)
EXTENDS Dispatch, WellFoundedInduction, TLAPS

SlotType == [id : Ids, cnt : 0..2, active : BOOLEAN, buf : Callers \cup {0}]

\* Devices are numbers.
LEMMA DevicesAreNat ==
    /\ Devices \subseteq Nat /\ Watched \in Devices
    /\ Callers \subseteq Devices /\ Cars \subseteq Devices
  BY DispatchAssumption DEF Devices, Callers, Cars

\* A set of devices with a member has a first one.
LEMMA FirstDevice ==
    ASSUME NEW S \in SUBSET Devices, S # {}
    PROVE  (CHOOSE d \in S : \A e \in S : d <= e) \in S
<1> DEFINE R == OpToRel(<, Nat)
<1>1. S \subseteq Nat
  BY DevicesAreNat
<1>2. PICK x \in S : \A y \in S : ~(<<y, x>> \in R)
  BY <1>1, NatLessThanWellFounded, WFMin
<1>3. \A y, z \in Nat : y < z => <<y, z>> \in R
  BY DEF OpToRel
<1> HIDE DEF R
<1>4. \A y \in S : x <= y
  <2> SUFFICES ASSUME NEW y \in S PROVE x <= y
    OBVIOUS
  <2>1. x \in Nat /\ y \in Nat /\ ~(<<y, x>> \in R)
    BY <1>1, <1>2
  <2> QED
    BY <1>3, <2>1
<1> QED
  BY <1>2, <1>4

\* sea_lookuplogic finds a device with this address if there is one.
LEMMA Lookup ==
    ASSUME NEW a
    PROVE  /\ sea_lookuplogic(a) \in Devices \cup {0}
           /\ (\E d \in Devices : logic[d] = a) =>
                 sea_lookuplogic(a) \in Devices /\ logic[sea_lookuplogic(a)] = a
           /\ (~ \E d \in Devices : logic[d] = a) => sea_lookuplogic(a) = 0
<1> DEFINE S == {d \in Devices : logic[d] = a}
<1>1. S # {} => (CHOOSE d \in S : \A e \in S : d <= e) \in S
  BY FirstDevice
<1>2. sea_lookuplogic(a) = IF S = {} THEN 0 ELSE CHOOSE d \in S : \A e \in S : d <= e
  BY DEF sea_lookuplogic
<1> QED
  BY <1>1, <1>2

\* A command put into a slot, or taken from it, leaves slots.
LEMMA PutType ==
    ASSUME NEW s \in [Devices -> SlotType], NEW d, NEW id \in Ids
    PROVE  /\ Put(s, d, id) \in [Devices -> SlotType]
           /\ \A e \in Devices : Put(s, d, id)[e].cnt = s[e].cnt
  BY DEF Put, SlotType

\* The frame of a device frees a slot or none.
LEMMA FreedType ==
    ASSUME TypeOK, NEW n
    PROVE  /\ Freed(n) \in [Devices -> SlotType]
           /\ \A e \in Devices : Freed(n)[e].cnt = slot[e].cnt
  BY PutType DEF Freed, TypeOK, SlotType, Ids

\* The history of Watched's command goes on or starts anew.
SentOn == \/ tries' = tries /\ back' = back
          \/ tries' = 0 /\ back' = 0

LEMMA UnsentOn ==
    ASSUME NEW S, Unsent(S)
    PROVE  SentOn
  BY DEF Unsent, SentOn, sent

LEMMA SentType ==
    ASSUME TypeOK, SentOn
    PROVE  tries' \in 0..TriesBound /\ back' \in 0..BackBound
  BY DispatchAssumption DEF SentOn, TypeOK

\* A step that stores and frees commands, and counts nothing.
Stores == /\ slot' \in [Devices -> SlotType] /\ SentOn
          /\ \A e \in Devices : slot'[e].cnt = slot[e].cnt

LEMMA FreeSlotStores ==
    ASSUME TypeOK, NEW a, FreeSlot(a)
    PROVE  Stores
  BY FreedType, UnsentOn DEF FreeSlot, Stores

-----------------------------------------------------------------------------
(* Type correctness.                                                       *)

\* The branches of ServerFrameCmdHandler leave the counts as they are.
LEMMA StoreType ==
    ASSUME TypeOK, NEW f \in Frames, Store(f)
    PROVE  /\ Stores /\ rows' \subseteq Cars
           /\ call' \in [Callers -> [state : States \cup {"NONE"},
                                     vehicle : Cars \cup {0}, heard : BOOLEAN]]
<1>1. slot \in [Devices -> SlotType]
  BY DEF TypeOK, SlotType
<1>2. CASE StoreOpen(f)
  <2>1. Stores
    BY <1>1, <1>2, PutType, UnsentOn DEF StoreOpen, Stores, Ids
  <2> QED
    BY <1>2, <2>1 DEF StoreOpen, TypeOK
<1>3. CASE StoreRoute(f)
  <2>1. f.dev \in Cars
    BY <1>3 DEF StoreRoute, Standing
  <2>2. slot' \in [Devices -> SlotType] /\ \A e \in Devices : slot'[e].cnt = slot[e].cnt
    BY <1>1, <1>3, PutType DEF StoreRoute, Ids
  <2>3. SentOn
    BY <1>3, UnsentOn DEF StoreRoute, sent, SentOn
  <2> QED
    BY <1>3, <2>1, <2>2, <2>3 DEF StoreRoute, Stores, TypeOK
<1>4. CASE StoreAssign(f)
  <2>1. f.dev \in Callers /\ f.state \in States /\ f.vehicle \in Cars \cup {0}
    BY <1>4 DEF StoreAssign, NewlyGiven, Assigns
  <2>2. SentOn
    BY <1>4, UnsentOn DEF StoreAssign
  <2>3. call' \in [Callers -> [state : States \cup {"NONE"},
                               vehicle : Cars \cup {0}, heard : BOOLEAN]]
    BY <1>4, <2>1 DEF StoreAssign, TypeOK
  <2> DEFINE p == Put(slot, f.dev, "ASSIGN")
             q == Put(p, f.vehicle, "ASSIGN")
  <2>4. p \in [Devices -> SlotType] /\ \A e \in Devices : p[e].cnt = slot[e].cnt
    BY <1>1, PutType DEF Ids
  <2>5. q \in [Devices -> SlotType] /\ \A e \in Devices : q[e].cnt = slot[e].cnt
    <3> HIDE DEF p
    <3> QED
      BY <2>4, PutType DEF Ids
  <2>6. slot' = IF f.vehicle = 0 THEN p ELSE [q EXCEPT ![f.vehicle].buf = f.dev]
    BY <1>4 DEF StoreAssign
  <2> HIDE DEF p, q
  <2>7. slot' \in [Devices -> SlotType] /\ \A e \in Devices : slot'[e].cnt = slot[e].cnt
    BY <2>1, <2>4, <2>5, <2>6 DEF SlotType
  <2> QED
    BY <1>4, <2>2, <2>3, <2>7 DEF StoreAssign, Stores, TypeOK
<1>5. CASE StoreNothing(f)
  BY <1>1, <1>5 DEF StoreNothing, Stores, SentOn, sent, TypeOK
<1> QED
  BY <1>2, <1>3, <1>4, <1>5 DEF Store

\* The first waiting device is a waiting device.
LEMMA FirstWaiting ==
    ASSUME Waiting # {}
    PROVE  (CHOOSE d \in Waiting : \A e \in Waiting : d <= e) \in Waiting
  BY FirstDevice DEF Waiting

\* The number a report is filed under is one of a device.
LEMMA RecordType ==
    ASSUME NEW d \in Devices, NEW allowed
    PROVE  RecordOf(d, allowed) \in Devices
  BY DispatchAssumption DEF RecordOf, Devices

LEMMA FileType ==
    ASSUME TypeOK, NEW d \in Devices, FileAddress(d) \/ KeepAddress
    PROVE  logic' \in [Devices -> Addr0] /\ moved' \subseteq Devices
  BY DEF FileAddress, KeepAddress, TypeOK

LEMMA JoinStores ==
    ASSUME TypeOK, NEW d \in Devices, JoinKnown(d) \/ FreeSlot(addrOf[d])
    PROVE  Stores
<1>1. CASE FreeSlot(addrOf[d])
  BY <1>1, FreeSlotStores
<1>2. CASE JoinKnown(d) /\ ~FreeSlot(addrOf[d])
  <2> DEFINE n == sea_lookuplogic(addrOf[d])
  <2>1. slot' = Put(Freed(n), d, "ROUTE") /\ Unsent({n, d})
    BY <1>2 DEF JoinKnown
  <2> HIDE DEF n
  <2>2. Freed(n) \in [Devices -> SlotType] /\ \A e \in Devices : Freed(n)[e].cnt = slot[e].cnt
    BY FreedType
  <2>3. slot' \in [Devices -> SlotType] /\ \A e \in Devices : slot'[e].cnt = Freed(n)[e].cnt
    BY <2>1, <2>2, PutType DEF Ids
  <2> QED
    BY <2>1, <2>2, <2>3, UnsentOn DEF Stores
<1> QED
  BY <1>1, <1>2

LEMMA TypeStep ==
    ASSUME TypeOK, [Next]_vars
    PROVE  TypeOK'
<1> USE DevicesAreNat, DispatchAssumption
<1>1. slot \in [Devices -> SlotType]
  BY DEF TypeOK, SlotType
<1>2. CASE PcFrame
  <2>1. PICK f \in Frames : Store(f)
    BY <1>2 DEF PcFrame
  <2> QED
    BY <1>2, <2>1, StoreType, SentType DEF PcFrame, tasks, radio, Stores, TypeOK, SlotType
<1>3. CASE KeyStore
  <2>1. PICK f \in Frames : Store(f)
    BY <1>3 DEF KeyStore
  <2> QED
    BY <1>3, <2>1, StoreType, SentType DEF KeyStore, radio, Stores, TypeOK, SlotType
<1>4. CASE KeyCheck
  <2>1. cmd' \in [at : {"store"}, dev : Devices]
    BY <1>4 DEF KeyCheck
  <2> QED
    BY <1>4, <2>1 DEF KeyCheck, radio, sent, TypeOK
<1>18. CASE KeyTable
  <2>1. rows' \subseteq Cars
    BY <1>18 DEF KeyTable, TypeOK
  <2> QED
    BY <1>18, <2>1 DEF KeyTable, tasks, radio, sent, TypeOK
<1>5. ASSUME NEW d \in Devices, ByReport(d)
      PROVE  TypeOK'
  <2>1. Stores /\ logic' \in [Devices -> Addr0] /\ moved' \subseteq Devices
    BY <1>5, FreeSlotStores, FileType DEF ByReport
  <2>2. PICK allowed, pressed, stands \in BOOLEAN :
          /\ call' = IF allowed /\ d \in Callers /\ pressed
                     THEN [call EXCEPT ![d].heard = TRUE] ELSE call
          /\ LET n == RecordOf(d, allowed)
             IN  /\ stopped' = IF stands THEN stopped \cup ({n} \cap Cars) ELSE stopped \ {n}
                 /\ misc' = [at |-> "active", dev |-> n]
    BY <1>5 DEF ByReport
  <2>3. call' \in [Callers -> [state : States \cup {"NONE"},
                               vehicle : Cars \cup {0}, heard : BOOLEAN]]
    <3>1. call' \in {call, [call EXCEPT ![d].heard = TRUE]}
      BY <2>2
    <3>2. CASE d \in Callers
      <4> DEFINE CallType == [state : States \cup {"NONE"}, vehicle : Cars \cup {0},
                              heard : BOOLEAN]
      <4>1. call[d] \in CallType
        BY <3>2 DEF TypeOK
      <4>2. \A r \in CallType : [r EXCEPT !.heard = TRUE] \in CallType
        OBVIOUS
      <4>3. [call[d] EXCEPT !.heard = TRUE] \in CallType
        BY <4>1, <4>2
      <4>4. [call EXCEPT ![d].heard = TRUE] = [call EXCEPT ![d] = [call[d] EXCEPT !.heard = TRUE]]
        BY <3>2 DEF TypeOK
      <4> QED
        BY <3>1, <3>2, <4>3, <4>4 DEF TypeOK
    <3>3. CASE d \notin Callers
      BY <2>2, <3>3 DEF TypeOK
    <3> QED
      BY <3>2, <3>3
  <2>4. RecordOf(d, allowed) \in Devices
    BY RecordType
  <2>5. stopped' \subseteq Cars /\ misc' \in [at : {"active"}, dev : Devices]
    BY <2>2, <2>4 DEF TypeOK
  <2> QED
    BY <1>5, <2>1, <2>3, <2>5, SentType DEF ByReport, Stores, TypeOK, SlotType
<1>6. CASE ReadActive
  <2>1. misc.dev \in Devices
    BY <1>6 DEF ReadActive, TypeOK, Idle
  <2>2. misc' \in {Idle} \cup [at : {"write"}, dev : Devices, cnt : 0..2]
    BY <1>1, <1>6, <2>1 DEF ReadActive, SlotType
  <2> QED
    BY <1>6, <2>2 DEF ReadActive, radio, sent, TypeOK
<1>7. CASE WriteActive
  <2>1. misc.dev \in Devices /\ misc.cnt \in 0..2
    BY <1>7 DEF WriteActive, TypeOK, Idle
  <2>2. slot' \in [Devices -> SlotType]
    BY <1>1, <1>7, <2>1 DEF WriteActive, SlotType
  <2>3. back' \in 0..BackBound
    BY <1>7 DEF WriteActive, TypeOK
  <2> QED
    BY <1>7, <2>2, <2>3 DEF WriteActive, radio, TypeOK, SlotType
<1>8. ASSUME NEW d \in Devices, ByAddress(d)
      PROVE  TypeOK'
  <2>1. Stores /\ logic' \in [Devices -> Addr0] /\ moved' \subseteq Devices
    BY <1>8, FreeSlotStores, FileType DEF ByAddress
  <2> QED
    BY <1>8, <2>1, SentType DEF ByAddress, tasks, Stores, TypeOK, SlotType
<1>9. ASSUME NEW d \in Devices, ByJoin(d)
      PROVE  TypeOK'
  <2>1. Stores /\ logic' \in [Devices -> Addr0] /\ moved' \subseteq Devices
    BY <1>9, JoinStores, FileType DEF ByJoin, JoinKnown
  <2> QED
    BY <1>9, <2>1, SentType DEF ByJoin, tasks, Stores, TypeOK, SlotType
<1>10. ASSUME NEW a, Respond(a)
       PROVE  TypeOK'
  <2>1. Stores
    BY <1>10, FreeSlotStores DEF Respond
  <2>2. rows' \subseteq Cars
    BY <1>10 DEF Respond, TypeOK
  <2> QED
    BY <1>10, <2>1, <2>2, SentType DEF Respond, tasks, radio, Stores, TypeOK, SlotType
<1>11. CASE Send
  <2> DEFINE d == CHOOSE x \in Waiting : \A e \in Waiting : x <= e
  <2>1. d \in Devices
    BY <1>11, FirstWaiting DEF Send, Waiting
  <2>2. w108' = [at |-> "count", dev |-> d]
        /\ tries' = IF d = Watched /\ GoesOut(d) /\ tries < TriesBound THEN tries + 1 ELSE tries
    BY <1>11 DEF Send
  <2> HIDE DEF d
  <2>3. tries' \in 0..TriesBound
    BY <2>2 DEF TypeOK
  <2>4. w108' \in [at : {"count", "clear"}, dev : Devices]
    BY <2>1, <2>2
  <2> QED
    BY <1>11, <2>3, <2>4 DEF Send, radio, TypeOK
<1>12. CASE Count
  <2>1. w108.dev \in Devices
    BY <1>12 DEF Count, TypeOK, Idle
  <2> DEFINE n == IF slot[w108.dev].cnt = 0 THEN 1 ELSE 2
  <2>2. n \in 0..2 /\ slot' = [slot EXCEPT ![w108.dev].cnt = n]
        /\ w108' = IF n > 1 THEN [w108 EXCEPT !.at = "clear"] ELSE Idle
    BY <1>12 DEF Count
  <2> HIDE DEF n
  <2>3. slot' \in [Devices -> SlotType]
    BY <1>1, <2>1, <2>2 DEF SlotType
  <2>4. w108' \in {Idle} \cup [at : {"count", "clear"}, dev : Devices]
    BY <1>12, <2>1, <2>2 DEF Count, TypeOK, Idle
  <2> QED
    BY <1>12, <2>3, <2>4 DEF Count, radio, sent, TypeOK, SlotType
<1>13. CASE Clear
  <2>1. w108.dev \in Devices
    BY <1>13 DEF Clear, TypeOK, Idle
  <2>2. slot' \in [Devices -> SlotType]
    BY <1>1, <1>13, <2>1 DEF Clear, SlotType, Ids
  <2> QED
    BY <1>13, <2>2, UnsentOn, SentType DEF Clear, radio, TypeOK, SlotType
<1>14. CASE AskSilent
  <2>1. slot' \in [Devices -> SlotType]
    BY <1>1, <1>14 DEF AskSilent, SlotType
  <2> QED
    BY <1>14, <2>1 DEF AskSilent, tasks, radio, sent, TypeOK, SlotType
<1>15. CASE Reset
  BY <1>15 DEF Reset, NoSlots, NoAddrs, NoCalls, TypeOK, Ids, Addr0
<1>16. ASSUME NEW d \in Devices, Rejoin(d)
       PROVE  TypeOK'
  <2>1. addrOf' \in [Devices -> Addr0] /\ moved' \subseteq Devices
    BY <1>16 DEF Rejoin, TypeOK
  <2> QED
    BY <1>16, <2>1 DEF Rejoin, tasks, sent, TypeOK
<1>17. CASE UNCHANGED vars
  BY <1>17 DEF vars, tasks, radio, sent, TypeOK
<1> QED
  BY <1>2, <1>3, <1>4, <1>5, <1>6, <1>7, <1>8, <1>9, <1>10, <1>11, <1>12, <1>13, <1>14,
     <1>15, <1>16, <1>17, <1>18 DEF Next, Misc, Cmd, W108, ByResponse, ByCoordinator

LEMMA TypeInit == Init => TypeOK
  BY DispatchAssumption DEF Init, NoSlots, NoAddrs, NoCalls, TypeOK, Ids, Addr0

\* The slots, the addresses and the places of the three tasks keep their types; the
\* count of a slot is never above 2, however reports and sending interleave.
THEOREM TypeCorrect == Spec => []TypeOK
<1>1. TypeOK /\ [Next]_vars => TypeOK'
  BY TypeStep
<1> QED
  BY TypeInit, <1>1, PTL DEF Spec
-----------------------------------------------------------------------------
(* Whose command a frame answers.                                          *)

\* No two devices are in the network under one address, and the server has the address of
\* every device that has not left the one it has filed.
AddressInv ==
    /\ TypeOK
    /\ \A d, e \in Devices : addrOf[d] = addrOf[e] /\ addrOf[d] # 0 => d = e
    /\ \A d \in Devices \ moved : logic[d] \in {0, addrOf[d]}

LEMMA AddressInit == Init => AddressInv
  BY TypeInit DEF Init, NoAddrs, AddressInv

LEMMA AddressStep ==
    ASSUME AddressInv, [Next]_vars
    PROVE  AddressInv'
<1>1. TypeOK'
  BY TypeStep DEF AddressInv
<1>2. CASE UNCHANGED <<logic, radio>>
  BY <1>1, <1>2 DEF AddressInv, radio
<1>3. ASSUME NEW d \in Devices, FileAddress(d) \/ KeepAddress, UNCHANGED addrOf
      PROVE  AddressInv'
  BY <1>1, <1>3 DEF AddressInv, FileAddress, KeepAddress, TypeOK
<1>4. ASSUME NEW d \in Devices, ByReport(d) \/ ByAddress(d) \/ ByJoin(d)
      PROVE  AddressInv'
  BY <1>3, <1>4 DEF ByReport, ByAddress, ByJoin, JoinKnown
<1>5. ASSUME NEW d \in Devices, Rejoin(d)
      PROVE  AddressInv'
  <2>1. PICK a \in Addr0 : /\ a # 0 => \A e \in Devices : a # addrOf[e]
                           /\ addrOf' = [addrOf EXCEPT ![d] = a]
                           /\ moved' = IF logic[d] \in {0, a} THEN moved \ {d}
                                       ELSE moved \cup {d}
    BY <1>5 DEF Rejoin
  <2>2. \A e, f \in Devices : addrOf'[e] = addrOf'[f] /\ addrOf'[e] # 0 => e = f
    BY <2>1 DEF AddressInv, TypeOK
  <2>3. \A e \in Devices \ moved' : logic'[e] \in {0, addrOf'[e]}
    BY <1>5, <2>1 DEF Rejoin, AddressInv, TypeOK
  <2> QED
    BY <1>1, <2>2, <2>3 DEF AddressInv
<1>6. CASE Reset
  BY <1>1, <1>6 DEF Reset, NoAddrs, AddressInv
<1>7. CASE PcFrame \/ KeyCheck \/ KeyStore \/ KeyTable
  BY <1>2, <1>7 DEF PcFrame, KeyCheck, KeyStore, KeyTable
<1>8. CASE ReadActive \/ WriteActive \/ ByCoordinator \/ \E d \in Devices : ByResponse(d)
  BY <1>2, <1>8 DEF ReadActive, WriteActive, ByResponse, ByCoordinator, Respond
<1>9. CASE W108
  BY <1>2, <1>9 DEF W108, Send, Count, Clear, AskSilent
<1>10. CASE UNCHANGED vars
  BY <1>2, <1>10 DEF vars
<1> QED
  BY <1>4, <1>5, <1>6, <1>7, <1>8, <1>9, <1>10 DEF Next, Misc, Cmd

\* The frame of a device touches the slot of another only when the other has moved.
LEMMA FreesMoved ==
    ASSUME AddressInv, NEW d \in Devices, NEW e \in Devices, e # d, Heard(d), e \notin moved
    PROVE  Freed(sea_lookuplogic(addrOf[d]))[e] = slot[e]
<1> DEFINE n == sea_lookuplogic(addrOf[d])
<1>1. n \in Devices => logic[n] = addrOf[d]
  BY Lookup, DevicesAreNat, DispatchAssumption DEF Devices
<1>2. slot \in [Devices -> SlotType]
  BY DEF AddressInv, TypeOK, SlotType
<1> HIDE DEF n
<1>3. n \in Devices => n # e
  BY <1>1 DEF Heard, AddressInv
<1> QED
  BY <1>2, <1>3 DEF Freed, Put, n

LEMMA FrameKeepsOthers ==
    ASSUME AddressInv, NEW d \in Devices, FrameOf(d), NEW e \in Devices, e # d, e \notin moved
    PROVE  slot'[e] = slot[e]
<1>1. Heard(d)
  BY DEF FrameOf, ByReport, ByAddress, ByJoin, ByResponse
<1>2. CASE slot' = Freed(sea_lookuplogic(addrOf[d]))
  BY <1>1, <1>2, FreesMoved
<1>3. CASE slot' = Put(Freed(sea_lookuplogic(addrOf[d])), d, "ROUTE")
  <2>1. Freed(sea_lookuplogic(addrOf[d])) \in [Devices -> SlotType]
    BY FreedType DEF AddressInv
  <2> QED
    BY <1>1, <1>3, <2>1, FreesMoved DEF Put
<1> QED
  BY <1>2, <1>3 DEF FrameOf, ByReport, ByAddress, ByJoin, JoinKnown, ByResponse, Respond, FreeSlot

\* Whatever the order of JOIN, ADDRESS, reports, changes of address and restarts of the
\* server: a frame takes the command of another device for answered only if the other has
\* left the address that the server has filed for it.
THEOREM OthersKeepTheirs == Spec => OthersSlotKept
<1>1. AddressInv /\ [Next]_vars => AddressInv'
  BY AddressStep
<1>2. AddressInv => \A d, e \in Devices : d # e /\ FrameOf(d) /\ slot'[e] # slot[e] => e \in moved
  BY FrameKeepsOthers
<1> QED
  BY AddressInit, <1>1, <1>2, PTL DEF Spec, OthersSlotKept
-----------------------------------------------------------------------------
(* The number of transmissions.                                            *)

\* Sending has counted: what was transmitted is in the count of the slot, as far as it
\* matters, or was taken back.  Nothing is known when back has reached its bound.
AtW == w108 # Idle /\ w108.dev = Watched
Once == IF slot[Watched].cnt = 0 THEN 0 ELSE 1
Counted ==
    \/ back = BackBound
    \/ /\ ~AtW                        => tries <= Once + back
       /\ AtW /\ w108.at = "count"    => tries <= Once + 1 + back
       /\ AtW /\ w108.at = "clear"    => tries <= 2 + back

TriesInv == TypeOK /\ Counted

LEMMA TriesInit == Init => TriesInv
<1> SUFFICES ASSUME Init PROVE TriesInv
  OBVIOUS
<1>1. tries = 0 /\ back = 0 /\ ~AtW /\ Once \in 0..1
  BY DEF Init, AtW, Idle, Once
<1> QED
  BY <1>1, TypeInit DEF TriesInv, Counted

\* The numbers the invariant is about.
LEMMA Numbers ==
    ASSUME TypeOK
    PROVE  /\ tries \in Nat /\ back \in Nat /\ Once \in 0..1 /\ BackBound \in Nat
           /\ AtW => w108.at \in {"count", "clear"}
  BY DispatchAssumption DEF TypeOK, Once, AtW

\* A command of which nothing was sent is not counted too low.
LEMMA NothingSent ==
    ASSUME tries' = 0, back' = 0
    PROVE  Counted'
<1> DEFINE o == Once'
<1>1. o \in 0..1
  BY DEF Once
<1> HIDE DEF o
<1>2. 0 <= o + 0 /\ 0 <= o + 1 + 0 /\ 0 <= 2 + 0
  BY <1>1
<1> QED
  BY <1>2 DEF Counted, o

\* Steps that leave the sender and the count alone, and those that transmit nothing.
LEMMA NoSend ==
    ASSUME TriesInv, UNCHANGED w108, slot'[Watched].cnt = slot[Watched].cnt, SentOn
    PROVE  Counted'
<1>1. Once' = Once /\ (AtW' <=> AtW)
  BY DEF Once, AtW
<1>2. CASE tries' = tries /\ back' = back
  BY <1>1, <1>2 DEF TriesInv, Counted
<1> QED
  BY <1>2, NothingSent DEF SentOn

LEMMA StoresCounted ==
    ASSUME TriesInv, UNCHANGED w108, Stores
    PROVE  Counted'
  BY NoSend, DevicesAreNat DEF Stores

\* Bounds that grow keep what is below them.
LEMMA Raised ==
    ASSUME NEW t \in Nat, NEW b \in Nat, NEW c \in Nat, NEW o \in 0..1, NEW p \in 0..1,
           o + b <= p + c, b <= c
    PROVE  /\ t <= o + b     => t <= p + c
           /\ t <= o + 1 + b => t <= p + 1 + c
           /\ t <= 2 + b     => t <= 2 + c
  OBVIOUS

LEMMA TriesStep ==
    ASSUME TriesInv, [Next]_vars
    PROVE  TriesInv'
<1> USE DevicesAreNat
<1>1. TypeOK /\ TypeOK'
  BY TypeStep DEF TriesInv
<1> SUFFICES Counted'
  BY <1>1 DEF TriesInv
<1>2. slot \in [Devices -> SlotType]
  BY <1>1 DEF TypeOK, SlotType
<1>3. CASE PcFrame \/ KeyStore
  <2>1. PICK f \in Frames : Store(f)
    BY <1>3 DEF PcFrame, KeyStore
  <2> QED
    BY <1>1, <1>3, <2>1, StoreType, StoresCounted DEF PcFrame, KeyStore, tasks
<1>4. CASE KeyCheck \/ KeyTable \/ ReadActive
  BY <1>4, NoSend DEF KeyCheck, KeyTable, ReadActive, tasks, sent, SentOn
<1>5. ASSUME NEW d \in Devices, ByReport(d) \/ ByAddress(d)
      PROVE  Counted'
  BY <1>1, <1>5, FreeSlotStores, StoresCounted DEF ByReport, ByAddress, tasks
<1>6. ASSUME NEW d \in Devices, ByJoin(d)
      PROVE  Counted'
  BY <1>1, <1>6, JoinStores, StoresCounted DEF ByJoin, tasks
<1>7. ASSUME NEW a, Respond(a)
      PROVE  Counted'
  BY <1>1, <1>7, FreeSlotStores, StoresCounted DEF Respond, tasks
<1>8. CASE WriteActive
  <2>1. misc.dev \in Devices /\ misc.cnt \in 0..2
    BY <1>1, <1>8 DEF WriteActive, TypeOK, Idle
  <2>2. CASE misc.dev # Watched
    <3>1. slot'[Watched].cnt = slot[Watched].cnt /\ SentOn
      BY <1>2, <1>8, <2>1, <2>2 DEF WriteActive, SentOn
    <3> QED
      BY <1>8, <3>1, NoSend DEF WriteActive
  <2>3. CASE misc.dev = Watched
    <3>1. /\ slot'[Watched].cnt = misc.cnt /\ tries' = tries /\ UNCHANGED w108
          /\ back' = IF misc.cnt < slot[Watched].cnt /\ back < BackBound THEN back + 1 ELSE back
      BY <1>2, <1>8, <2>3 DEF WriteActive
    <3>2. slot[Watched].cnt \in 0..2
      BY <1>2 DEF SlotType
    <3>3. AtW' <=> AtW
      BY <3>1 DEF AtW
    <3>4. back = BackBound => back' = BackBound
      BY <1>1, <3>1, Numbers
    <3> DEFINE c == slot[Watched].cnt
               o == Once
               p == Once'
    <3>5. o = (IF c = 0 THEN 0 ELSE 1) /\ p = IF misc.cnt = 0 THEN 0 ELSE 1
      BY <3>1 DEF Once
    <3>6. tries \in Nat /\ back \in 0..BackBound /\ BackBound \in Nat
      BY <1>1, DispatchAssumption DEF TypeOK
    <3>7. /\ back' = IF misc.cnt < c /\ back < BackBound THEN back + 1 ELSE back
          /\ c \in 0..2
      BY <3>1, <3>2
    <3> HIDE DEF c, o, p
    <3>8. back # BackBound => o + back <= p + back' /\ back <= back'
      BY <2>1, <3>5, <3>6, <3>7
    <3>9. o \in 0..1 /\ p \in 0..1 /\ back' \in Nat
      BY <3>5, <3>6, <3>7
    <3>10. CASE back = BackBound
      BY <3>4, <3>10 DEF Counted
    <3>11. CASE back # BackBound
      <4>1. /\ ~AtW                     => tries <= o + back
            /\ AtW /\ w108.at = "count" => tries <= o + 1 + back
            /\ AtW /\ w108.at = "clear" => tries <= 2 + back
        BY <3>11 DEF TriesInv, Counted, o
      <4>2. /\ ~AtW                     => tries <= p + back'
            /\ AtW /\ w108.at = "count" => tries <= p + 1 + back'
            /\ AtW /\ w108.at = "clear" => tries <= 2 + back'
        <5>1. /\ tries <= o + back     => tries <= p + back'
              /\ tries <= o + 1 + back => tries <= p + 1 + back'
              /\ tries <= 2 + back     => tries <= 2 + back'
          <6>1. back \in Nat /\ tries \in Nat
            BY <3>6
          <6>2. o + back <= p + back' /\ back <= back'
            BY <3>8, <3>11
          <6> QED
            BY <3>9, <6>1, <6>2, Raised
        <5> QED
          BY <4>1, <5>1
      <4>3. w108'.at = w108.at /\ tries' = tries
        BY <3>1
      <4> QED
        BY <3>3, <4>2, <4>3 DEF Counted, p
    <3> QED
      BY <3>10, <3>11
  <2> QED
    BY <2>2, <2>3
<1>9. CASE Send
  <2> DEFINE d == CHOOSE x \in Waiting : \A e \in Waiting : x <= e
  <2>1. /\ w108' = [at |-> "count", dev |-> d] /\ w108 = Idle
        /\ tries' = IF d = Watched /\ GoesOut(d) /\ tries < TriesBound THEN tries + 1 ELSE tries
        /\ UNCHANGED <<slot, back>>
    BY <1>9 DEF Send
  <2> HIDE DEF d
  <2>2. Once' = Once /\ ~AtW /\ (AtW' <=> d = Watched) /\ w108'.at = "count"
    BY <2>1 DEF Once, AtW, Idle
  <2>3. tries' <= tries + 1 /\ (d # Watched => tries' = tries) /\ tries' \in Nat
    BY <1>1, <2>1, Numbers
  <2> QED
    BY <1>1, <2>1, <2>2, <2>3, Numbers DEF TriesInv, Counted
<1>10. CASE Count
  <2>1. w108.dev \in Devices
    BY <1>1, <1>10 DEF Count, TypeOK, Idle
  <2> DEFINE n == IF slot[w108.dev].cnt = 0 THEN 1 ELSE 2
  <2>2. /\ slot' = [slot EXCEPT ![w108.dev].cnt = n]
        /\ w108' = IF n > 1 THEN [w108 EXCEPT !.at = "clear"] ELSE Idle
        /\ UNCHANGED <<tries, back>> /\ w108.at = "count"
    BY <1>10 DEF Count, sent
  <2>3. CASE w108.dev # Watched
    <3>1. slot'[Watched].cnt = slot[Watched].cnt
      BY <1>2, <2>1, <2>2, <2>3
    <3>2. ~AtW /\ ~AtW' /\ Once' = Once
      <4> HIDE DEF n
      <4> QED
        BY <1>1, <2>2, <2>3, <3>1 DEF AtW, Once, TypeOK, Idle
    <3> QED
      BY <2>2, <3>2 DEF TriesInv, Counted
  <2>4. CASE w108.dev = Watched
    <3>1. slot'[Watched].cnt = n /\ Once' = 1
      BY <1>2, <2>1, <2>2, <2>4 DEF SlotType, Once
    <3>2. AtW
      BY <1>10, <2>4 DEF AtW, Count, Idle
    <3>3. CASE slot[Watched].cnt = 0
      <4>1. Once = 0 /\ ~AtW'
        BY <2>2, <2>4, <3>3 DEF Once, AtW
      <4> QED
        BY <1>1, <2>2, <3>1, <3>2, <4>1, Numbers DEF TriesInv, Counted
    <3>4. CASE slot[Watched].cnt # 0
      <4>1. Once = 1 /\ AtW' /\ w108'.at = "clear"
        BY <1>1, <2>2, <2>4, <3>4 DEF Once, AtW, TypeOK, Idle
      <4> QED
        BY <1>1, <2>2, <3>1, <3>2, <4>1, Numbers DEF TriesInv, Counted
    <3> QED
      BY <3>3, <3>4
  <2> QED
    BY <2>3, <2>4
<1>11. CASE Clear
  <2>1. w108.dev \in Devices /\ w108'= Idle /\ w108 # Idle
    BY <1>1, <1>11 DEF Clear, TypeOK, Idle
  <2>2. CASE w108.dev # Watched
    <3>1. slot'[Watched].cnt = slot[Watched].cnt /\ tries' = tries /\ back' = back
      BY <1>2, <1>11, <2>1, <2>2 DEF Clear, Unsent, sent
    <3>2. Once' = Once /\ ~AtW /\ ~AtW'
      BY <2>1, <2>2, <3>1 DEF Once, AtW
    <3> QED
      BY <3>1, <3>2 DEF TriesInv, Counted
  <2>3. CASE w108.dev = Watched
    <3>1. tries' = 0 /\ back' = 0
      BY <1>11, <2>3 DEF Clear, Unsent
    <3> QED
      BY <3>1, NothingSent
  <2> QED
    BY <2>2, <2>3
<1>12. CASE AskSilent
  <2>1. slot'[Watched].cnt = slot[Watched].cnt
    BY <1>2, <1>12 DEF AskSilent, SlotType
  <2> QED
    BY <1>12, <2>1, NoSend DEF AskSilent, tasks, sent, SentOn
<1>13. CASE Reset
  BY <1>13, NothingSent DEF Reset
<1>14. ASSUME NEW d \in Devices, Rejoin(d)
       PROVE  Counted'
  BY <1>14, NoSend DEF Rejoin, tasks, sent, SentOn
<1>15. CASE UNCHANGED vars
  BY <1>15, NoSend DEF vars, tasks, sent, SentOn
<1> QED
  BY <1>3, <1>4, <1>5, <1>6, <1>7, <1>8, <1>9, <1>10, <1>11, <1>12, <1>13, <1>14, <1>15
     DEF Next, Misc, Cmd, W108, ByResponse, ByCoordinator

\* However reports, sending, JOIN and the keyboard interleave: a command goes out on the
\* radio twice at most, and once more for each time that a report took back its count.
THEOREM TwiceAtMost == Spec => []SentAtMostTwice
<1>1. TriesInv /\ [Next]_vars => TriesInv'
  BY TriesStep
<1>2. TriesInv => SentAtMostTwice
  <2> SUFFICES ASSUME TriesInv PROVE tries <= 2 + back
    BY DEF SentAtMostTwice
  <2>1. tries \in Nat /\ back \in Nat /\ Once \in 0..1
    BY Numbers DEF TriesInv
  <2>2. back = BackBound => tries <= 2 + back
    BY DispatchAssumption DEF TriesInv, TypeOK
  <2> QED
    BY <2>1, <2>2, Numbers DEF TriesInv, Counted
<1> QED
  BY TriesInit, <1>1, <1>2, PTL DEF Spec
=============================================================================
