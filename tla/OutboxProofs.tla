---------------------------- MODULE OutboxProofs ----------------------------
(* Theorems of Outbox, for every size of the ring and every tolerance. *)
EXTENDS Outbox, MsgRingProofs

\* What waits in the ring and what the stack holds are messages, never a slot that
\* was not written: a failed message can be queued again.
OutboxInv == RingInv /\ air \in Seq(Msgs)

\* Taking one message out of what the stack holds leaves messages.
LEMMA WithoutType ==
    ASSUME air \in Seq(Msgs), NEW k \in DOMAIN air
    PROVE  Without(k) \in Seq(Msgs)
<1>1. k \in 1..Len(air) /\ Len(air) \in Nat
  BY LenProperties
<1>2. SubSeq(air, 1, k - 1) \in Seq(Msgs) /\ SubSeq(air, k + 1, Len(air)) \in Seq(Msgs)
  BY <1>1, SubSeqProperties
<1> QED
  BY <1>2, ConcatProperties DEF Without

\* A message that is compared equal with a message of the stack was taken from the
\* ring: curmsg is set when the stack calls back.
LEMMA CurrentIsMsg ==
    ASSUME OutboxInv, NEW k \in DOMAIN air, IsCurrent(k)
    PROVE  Taken \in Msgs
<1>1. air[k] \in Msgs
  BY LenProperties, ElementOfSeq DEF OutboxInv
<1>2. Taken \in Msgs \cup {NoMsg}
  BY DEF OutboxInv, RingInv, RingType, Taken, Content, Slots
<1>3. Taken.id \in {"RPT", "RESPONSE"}
  BY <1>1, OutboxAssumption DEF IsCurrent
<1> QED
  BY <1>2, <1>3, OutboxAssumption

\* Every handler of the car moves the queue by one message, or not at all.
LEMMA OutboxStep ==
    ASSUME OutboxInv, [Next]_vars
    PROVE  OutboxInv' /\ [F!Next]_<<Queue, Taken>>
<1>1. ASSUME NEW m \in Msgs, sea_sendmsg(m)
      PROVE  RingInv' /\ [F!Next]_<<Queue, Taken>>
  BY <1>1, SendMaps DEF F!Next, OutboxInv
<1>2. ASSUME sea_getmsg
      PROVE  RingInv' /\ [F!Next]_<<Queue, Taken>> /\ list[out] \in Msgs
  <2>1. RingInv' /\ F!Get
    BY <1>2, GetMaps DEF OutboxInv
  <2>2. list[out] = Taken'
    BY <1>2 DEF sea_getmsg, Taken, OutboxInv, RingInv, RingType, Slots, NULL
  <2>3. Taken' \in Msgs
    BY <2>1, <2>2, <1>2 DEF RingInv, Written, sea_getmsg, OutboxInv, RingType, Slots, NULL
  <2> QED
    BY <2>1, <2>2, <2>3 DEF F!Next
<1>3. ASSUME UNCHANGED ringVars
      PROVE  RingInv' /\ [F!Next]_<<Queue, Taken>>
  BY <1>3, StutterMaps DEF OutboxInv
<1>4. RingInv' /\ [F!Next]_<<Queue, Taken>> /\ air' \in Seq(Msgs)
  <2>1. CASE Answer
    BY <2>1, <1>1 DEF Answer, Responses, outVars, OutboxInv
  <2>2. CASE Report
    BY <2>2, <1>1 DEF Report, Reports, outVars, OutboxInv
  <2>3. CASE MsEvent
    BY <2>3, <1>2, AppendProperties DEF MsEvent, OutboxInv
  <2>4. CASE NetworkUp
    BY <2>4, <1>1 DEF NetworkUp, Reports, OutboxInv
  <2>5. ASSUME NEW k \in DOMAIN air, Failed(k)
        PROVE  RingInv' /\ [F!Next]_<<Queue, Taken>> /\ air' \in Seq(Msgs)
    <3>1. Taken \in Msgs /\ sea_sendmsg(Taken)
      BY <2>5, CurrentIsMsg DEF Failed
    <3>2. air' \in Seq(Msgs)
      BY <2>5, WithoutType DEF Failed, OutboxInv
    <3> QED
      BY <3>1, <3>2, <1>1
  <2>6. ASSUME NEW k \in DOMAIN air, SentOther(k) \/ Delivered(k)
        PROVE  RingInv' /\ [F!Next]_<<Queue, Taken>> /\ air' \in Seq(Msgs)
    BY <2>6, <1>3, WithoutType DEF SentOther, Delivered, OutboxInv
  <2>7. CASE Join \/ Leave \/ WrongNetwork \/ InterpanUp \/ NetworkDown \/ JoinFailed
    BY <2>7, <1>3 DEF Join, Leave, WrongNetwork, InterpanUp, NetworkDown, JoinFailed, OutboxInv
  <2>8. CASE UNCHANGED vars
    BY <2>8, <1>3 DEF vars, ringVars, OutboxInv
  <2> QED
    BY <2>1, <2>2, <2>3, <2>4, <2>5, <2>6, <2>7, <2>8 DEF Next, Stack
<1> QED
  BY <1>4 DEF OutboxInv

\* The car's handlers use send1 as the queue it is: no answer and no report of the car is
\* lost, doubled or overtaken inside the car, whatever the network does, but by a message
\* that finds one slot free and drops those that wait.
THEOREM OutboxImplementsFifo == Spec => FifoSpec
<1>1. Init => OutboxInv /\ F!Init
  BY InitMaps, EmptySeq DEF Init, OutboxInv
<1>2. OutboxInv /\ [Next]_vars => OutboxInv' /\ [F!Next]_<<Queue, Taken>>
  BY OutboxStep
<1> QED
  BY <1>1, <1>2, PTL DEF Spec, FifoSpec, F!Spec

\* The stack holds one message less.
LEMMA WithoutLength ==
    ASSUME air \in Seq(Msgs), Len(air) <= AirBound, NEW k \in DOMAIN air
    PROVE  Len(Without(k)) <= AirBound
<1>1. k \in 1..Len(air) /\ Len(air) \in Nat
  BY LenProperties
<1>2. /\ SubSeq(air, 1, k - 1) \in Seq(Msgs) /\ Len(SubSeq(air, 1, k - 1)) = k - 1
      /\ SubSeq(air, k + 1, Len(air)) \in Seq(Msgs)
      /\ Len(SubSeq(air, k + 1, Len(air))) = Len(air) - k
  BY <1>1, SubSeqProperties
<1>3. Len(Without(k)) = (k - 1) + (Len(air) - k)
  BY <1>2, ConcatProperties DEF Without
<1>4. Len(Without(k)) = Len(air) - 1
  BY <1>1, <1>3
<1> QED
  BY <1>1, <1>4, OutboxAssumption

\* What the car and the stack know of the network, and the failures counted.
NetType ==
    /\ Len(air) <= AirBound
    /\ retry \in 0..NWPK_TOLERANCE /\ action \in BOOLEAN
    /\ stackstate \in States /\ appstate \in {"NO_NETWORK", "JOINED"} /\ interpan \in BOOLEAN

LEMMA NetStep ==
    ASSUME OutboxInv, NetType, [Next]_vars
    PROVE  NetType'
<1> USE OutboxAssumption DEF NetType, States
<1>1. CASE Answer \/ Report
  BY <1>1 DEF Answer, Report, outVars
<1>2. CASE MsEvent
  <2>1. CASE UNCHANGED air
    BY <1>2, <2>1 DEF MsEvent
  <2>2. CASE Len(air) < AirBound /\ air' = Append(air, list[out])
    <3>1. Len(air') = Len(air) + 1 /\ Len(air) \in Nat
      <4>1. list[out] \in Msgs \cup {NoMsg}
        BY DEF OutboxInv, RingInv, RingType, Content
      <4>2. air \in Seq(Msgs \cup {NoMsg})
        BY SeqDef DEF OutboxInv
      <4> QED
        BY <2>2, <4>1, <4>2, AppendProperties, LenProperties
    <3> QED
      BY <1>2, <2>2, <3>1 DEF MsEvent
  <2> QED
    BY <1>2, <2>1, <2>2 DEF MsEvent
<1>3. CASE Join \/ Leave
  BY <1>3 DEF Join, Leave
<1>4. CASE NetworkUp \/ WrongNetwork \/ InterpanUp \/ NetworkDown
  BY <1>4 DEF NetworkUp, WrongNetwork, InterpanUp, NetworkDown
<1>5. CASE JoinFailed
  BY <1>5 DEF JoinFailed
<1>6. ASSUME NEW k \in DOMAIN air, SentOther(k) \/ Delivered(k) \/ Failed(k)
      PROVE  NetType'
  <2>1. Len(air') <= AirBound
    BY <1>6, WithoutLength DEF SentOther, Delivered, Failed, OutboxInv
  <2>2. retry' \in 0..NWPK_TOLERANCE
    BY <1>6 DEF SentOther, Delivered, Failed
  <2>3. action' \in BOOLEAN /\ stackstate' = stackstate
    BY <1>6 DEF SentOther, Delivered, Failed
  <2>4. appstate' \in {"NO_NETWORK", "JOINED"} /\ interpan' = interpan
    BY <1>6 DEF SentOther, Delivered, Failed
  <2> QED
    BY <2>1, <2>2, <2>3, <2>4
<1>7. CASE UNCHANGED vars
  BY <1>7 DEF vars
<1> QED
  BY <1>1, <1>2, <1>3, <1>4, <1>5, <1>6, <1>7 DEF Next, Stack

\* The positions of the ring stay in it, curmsg points at a slot, and the failures are
\* counted no further than the tolerance.
THEOREM TypeCorrect == Spec => []TypeOK
<1>1. Init => OutboxInv /\ NetType
  <2> SUFFICES ASSUME Init PROVE OutboxInv /\ NetType
    OBVIOUS
  <2>1. OutboxInv
    <3>1. RingInv /\ F!Init
      BY InitMaps DEF Init
    <3> QED
      BY <3>1, EmptySeq DEF Init, OutboxInv
  <2>2. Len(air) <= AirBound /\ retry \in 0..NWPK_TOLERANCE
    BY EmptySeq, OutboxAssumption DEF Init
  <2>3. action \in BOOLEAN /\ stackstate \in States /\ appstate \in {"NO_NETWORK", "JOINED"}
        /\ interpan \in BOOLEAN
    BY DEF Init, States
  <2> QED
    BY <2>1, <2>2, <2>3 DEF NetType
<1>2. OutboxInv /\ NetType /\ [Next]_vars => OutboxInv' /\ NetType'
  BY OutboxStep, NetStep
<1>3. OutboxInv /\ NetType => TypeOK
  BY DEF OutboxInv, RingInv, RingType, Content, NetType, TypeOK
<1> QED
  BY <1>1, <1>2, <1>3, PTL DEF Spec

-----------------------------------------------------------------------------
(* The car in its network.                                                 *)

OnAir == interpan /\ stackstate # "NO_NETWORK"
net   == <<stackstate, appstate, action, OnAir>>

\* What a handler does to the network is one step of Network or none.
LEMMA NetworkStep ==
    ASSUME [Next]_vars
    PROVE  [N!Next]_net
<1> USE DEF N!Next, net, OnAir
<1>1. CASE Answer \/ Report \/ MsEvent \/ UNCHANGED vars
  BY <1>1 DEF Answer, Report, MsEvent, outVars, vars
<1>2. CASE Join
  BY <1>2 DEF Join, N!Join
<1>10. CASE InterpanUp
  BY <1>10 DEF InterpanUp, N!Strand
<1>3. CASE Leave
  BY <1>3 DEF Leave, N!Leave
<1>4. CASE NetworkUp
  BY <1>4 DEF NetworkUp, N!Up
<1>5. CASE WrongNetwork
  BY <1>5 DEF WrongNetwork, N!Wrong
<1>6. CASE NetworkDown
  BY <1>6 DEF NetworkDown, N!Down
<1>7. CASE JoinFailed
  BY <1>7 DEF JoinFailed, N!Fail
<1>8. ASSUME NEW k \in DOMAIN air, SentOther(k) \/ Delivered(k)
      PROVE  UNCHANGED net
  BY <1>8 DEF SentOther, Delivered
<1>9. ASSUME NEW k \in DOMAIN air, Failed(k)
      PROVE  N!GiveUp \/ UNCHANGED net
  BY <1>9 DEF Failed, N!GiveUp
<1> QED
  BY <1>1, <1>2, <1>3, <1>4, <1>5, <1>6, <1>7, <1>8, <1>9, <1>10 DEF Next, Stack

\* The car with its ring and its failures lives in the network as Network says, whatever
\* the stack calls back for and when (sensor.c:54-75, exception.c:83-98).
THEOREM OutboxImplementsNetwork == Spec => NetworkSpec
<1>1. Init => N!Init
  BY DEF Init, N!Init
<1>2. [Next]_vars => [N!Next]_net
  BY NetworkStep
<1> QED
  BY <1>1, <1>2, PTL DEF Spec, NetworkSpec, N!Spec, N!net, net, OnAir

\* Network keeps stack and application together, whoever implements it.
LEMMA NetworkKeeps ==
    ASSUME [N!Next]_net
    PROVE  (N!Apart => N!Apart') /\ (N!Inside => N!Inside')
<1> USE DEF N!Apart, N!Inside
<1>1. CASE N!Join \/ N!Fail \/ N!Up \/ N!Wrong \/ N!Strand
  BY <1>1 DEF N!Join, N!Fail, N!Up, N!Wrong, N!Strand
<1>2. CASE N!GiveUp \/ N!Leave \/ N!Down \/ N!Restart
  BY <1>2 DEF N!GiveUp, N!Leave, N!Down, N!Restart
<1>3. CASE UNCHANGED net
  BY <1>3 DEF net, OnAir
<1> QED
  BY <1>1, <1>2, <1>3 DEF N!Next

\* A car is never a member of a network that its application does not use without
\* being told to leave it, on every channel but 26 (sensor.c:59-75, 107-118;
\* exception.c:90-97).
THEOREM NeverApart == Spec => []JoinedOrLeaving
<1>1. Init => JoinedOrLeaving
  BY DEF Init, JoinedOrLeaving
<1>2. JoinedOrLeaving /\ [Next]_vars => JoinedOrLeaving'
  BY NetworkStep, NetworkKeeps DEF JoinedOrLeaving, Stranded, N!Apart
<1> QED
  BY <1>1, <1>2, PTL DEF Spec

\* The application of a car never takes itself for a member of a network that the stack
\* is not in: what it sends has a network to go to, until the stack has left.
THEOREM OnlyInNetwork == Spec => []UsesNetwork
<1>1. Init => N!Inside
  BY DEF Init, N!Inside
<1>2. N!Inside /\ [Next]_vars => N!Inside'
  BY NetworkStep, NetworkKeeps
<1> QED
  BY <1>1, <1>2, PTL DEF Spec, UsesNetwork
=============================================================================
