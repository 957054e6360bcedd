--------------------------- MODULE MsgRingProofs ---------------------------
(* The ring of outgoing messages implements the bounded queue, its overrun  *)
(* included, for every size of the ring.                                   *)
EXTENDS MsgRing, SequenceTheorems, TLAPS

Content == Msgs \cup {NoMsg}

RingType ==
    /\ list \in [Slots -> Content] /\ in \in Slots /\ out \in Slots
    /\ curmsg \in Slots \cup {NULL}

\* The slot taken last is the one just behind the first that waits.
JustBehind == curmsg # NULL => After(curmsg) = out

\* What waits, and what was taken, was written: a slot under curmsg is never blank.
Written ==
    /\ \A i \in 1..Count : list[SlotOf(i)] \in Msgs
    /\ curmsg # NULL => list[curmsg] \in Msgs

RingInv == RingType /\ JustBehind /\ Written

\* A function on 1 .. n is a sequence of length n (as Seq is defined).
LEMMA FunctionIsSeq ==
    ASSUME NEW S, NEW n \in Nat, NEW f \in [1..n -> S]
    PROVE  f \in Seq(S) /\ Len(f) = n
<1>1. f \in Seq(S)
  BY SeqDef
<1>2. DOMAIN f = 1..n /\ DOMAIN f = 1..Len(f) /\ Len(f) \in Nat
  BY <1>1, LenProperties
<1> QED
  BY <1>1, <1>2

\* Positions stay in the ring (msg.c:60 and 85).
LEMMA AfterInRing ==
    ASSUME NEW s \in Slots
    PROVE  After(s) \in Slots /\ After(s) \in Nat
  BY RingAssumption DEF After, Slots

\* The messages that wait are a sequence of Count messages, each in its slot.
LEMMA QueueType ==
    ASSUME RingType
    PROVE  /\ Count \in Nat /\ Count < MAXMSGSIZE
           /\ \A i \in 1..Count : SlotOf(i) \in Slots
           /\ Queue \in Seq(Content) /\ Len(Queue) = Count
           /\ \A i \in 1..Count : Queue[i] = list[SlotOf(i)]
<1>1. Count \in Nat /\ Count < MAXMSGSIZE
  BY RingAssumption DEF Count, RingType, Slots
<1>2. \A i \in 1..Count : SlotOf(i) \in Slots
  BY RingAssumption DEF Count, SlotOf, RingType, Slots
<1>3. Queue \in [1..Count -> Content]
  BY <1>2 DEF Queue, RingType
<1>4. Queue \in Seq(Content) /\ Len(Queue) = Count
  BY <1>1, <1>3, FunctionIsSeq
<1> QED
  BY <1>1, <1>2, <1>4 DEF Queue

\* The same of the queue after a step.
LEMMA QueueTypeNext ==
    RingType' => (/\ Count \in Nat /\ Queue \in Seq(Content)
                  /\ Len(Queue) = Count)'
<1>1. RingType => Count \in Nat /\ Queue \in Seq(Content) /\ Len(Queue) = Count
  BY QueueType
<1> QED
  BY <1>1, PTL

\* sea_msgisempty tells the truth about what waits.
LEMMA EmptyQueue ==
    ASSUME RingType
    PROVE  sea_msgisempty <=> Queue = <<>>
<1>1. sea_msgisempty <=> Count = 0
  BY RingAssumption DEF sea_msgisempty, Count, RingType, Slots
<1>2. Queue = <<>> <=> Len(Queue) = 0
  BY QueueType, EmptySeq
<1> QED
  BY <1>1, <1>2, QueueType

\* The ring starts empty, with nothing taken.
LEMMA InitMaps == RingInit => RingInv /\ F!Init
<1> SUFFICES ASSUME RingInit PROVE RingInv /\ F!Init
  OBVIOUS
<1>1. RingType
  BY RingAssumption DEF RingInit, RingType, Slots, Content
<1>2. RingInv
  BY <1>1, RingAssumption DEF RingInit, RingInv, JustBehind, Count, Written
<1>3. Queue = <<>>
  BY <1>1, EmptyQueue DEF RingInit, sea_msgisempty
<1>4. Taken = NoMsg
  BY DEF RingInit, Taken
<1> QED
  BY <1>2, <1>3, <1>4 DEF F!Init

\* With two slots free sea_sendmsg keeps the invariant, appends to the queue, and leaves
\* the slot under curmsg alone.
LEMMA PutMaps ==
    ASSUME RingInv, NEW m \in Msgs, sea_sendmsg(m), Count < MAXMSGSIZE - 1
    PROVE  RingInv' /\ F!Put(m)
<1> USE RingAssumption
<1>1. RingType'
  BY AfterInRing DEF RingInv, RingType, sea_sendmsg, Content
<1>2. Count' = Count + 1
  BY DEF RingInv, RingType, sea_sendmsg, Count, After, Slots
<1>3. JustBehind'
  BY DEF RingInv, JustBehind, sea_sendmsg, After
<1>5. SlotOf(Count + 1) = in
  BY DEF RingInv, RingType, Slots, Count, SlotOf
<1>6. \A i \in 1..Count : SlotOf(i)' = SlotOf(i) /\ SlotOf(i) # in
  BY DEF RingInv, RingType, Slots, Count, SlotOf, sea_sendmsg
<1>7. Queue' = Append(Queue, m)
  <2>1. Append(Queue, m) \in Seq(Content) /\ Len(Append(Queue, m)) = Count + 1
    BY QueueType, AppendProperties DEF RingInv, Content
  <2>2. Queue' \in Seq(Content) /\ Len(Queue') = Count + 1
    BY <1>1, <1>2, QueueTypeNext
  <2>3. ASSUME NEW i \in 1..Count + 1
        PROVE  Queue'[i] = Append(Queue, m)[i]
    <3>1. Queue'[i] = list'[SlotOf(i)']
      BY <1>2, <2>3 DEF Queue
    <3>2. CASE i \in 1..Count
      <4>1. list'[SlotOf(i)'] = list[SlotOf(i)]
        BY <3>2, <1>6, QueueType DEF RingInv, RingType, sea_sendmsg
      <4>2. Append(Queue, m)[i] = list[SlotOf(i)]
        BY <3>2, QueueType, AppendProperties DEF RingInv, Content
      <4> QED
        BY <3>1, <4>1, <4>2
    <3>3. CASE i = Count + 1
      <4>1. SlotOf(i)' = in
        BY <3>3, <1>5 DEF SlotOf, sea_sendmsg
      <4>2. list'[in] = m
        BY DEF RingInv, RingType, sea_sendmsg
      <4>3. Append(Queue, m)[i] = m
        BY <3>3, QueueType, AppendProperties DEF RingInv, Content
      <4> QED
        BY <3>1, <4>1, <4>2, <4>3
    <3> QED
      BY <2>3, <3>2, <3>3, QueueType DEF RingInv
  <2> QED
    BY <2>1, <2>2, <2>3, SeqEqual
<1>8. Taken' = Taken
  <2>1. curmsg # in
    BY DEF RingInv, RingType, Slots, NULL, JustBehind, After, Count, sea_sendmsg
  <2> QED
    BY <2>1 DEF Taken, RingInv, RingType, sea_sendmsg, NULL, Slots
<1>9. Len(Queue) < MAXMSGSIZE - 1
  BY QueueType DEF RingInv
<1>10. Written'
  <2>1. list'[in] = m /\ \A s \in Slots : s # in => list'[s] = list[s]
    BY DEF RingInv, RingType, sea_sendmsg
  <2>3. ASSUME NEW i \in 1..Count + 1 PROVE list'[SlotOf(i)'] \in Msgs
    <3>1. CASE i \in 1..Count
      BY <2>1, <3>1, <1>6, QueueType DEF RingInv, Written
    <3>2. CASE i = Count + 1
      <4>1. SlotOf(i)' = in
        BY <3>2, <1>5 DEF SlotOf, sea_sendmsg
      <4> QED
        BY <2>1, <4>1
    <3> QED
      BY <3>1, <3>2, QueueType DEF RingInv
  <2>4. curmsg' # NULL => list'[curmsg'] \in Msgs
    BY <2>1 DEF RingInv, RingType, Written, sea_sendmsg
  <2> QED
    BY <1>2, <2>3, <2>4 DEF Written
<1> QED
  BY <1>1, <1>3, <1>7, <1>8, <1>9, <1>10 DEF RingInv, F!Put

\* With one slot left it makes the positions equal: nothing waits any more, and the slot
\* it has written is the one under curmsg.
LEMMA OverrunMaps ==
    ASSUME RingInv, NEW m \in Msgs, sea_sendmsg(m), ~(Count < MAXMSGSIZE - 1)
    PROVE  RingInv' /\ F!Overrun(m)
<1> USE RingAssumption
<1>1. RingType'
  BY AfterInRing DEF RingInv, RingType, sea_sendmsg, Content
<1>2. Count \in Nat /\ Count < MAXMSGSIZE /\ Len(Queue) = Count
  BY QueueType DEF RingInv
<1>3. in' = out' /\ out' = out /\ curmsg' = curmsg
  BY <1>2 DEF RingInv, RingType, sea_sendmsg, Count, After, Slots
<1>4. Count' = 0
  BY <1>1, <1>3 DEF Count, RingType, Slots
<1>5. Queue' = <<>>
  <2>1. RingType' => (Queue = <<>> <=> sea_msgisempty)'
    BY EmptyQueue, PTL
  <2> QED
    BY <1>1, <1>3, <2>1 DEF sea_msgisempty
<1>6. curmsg # NULL => curmsg = in
  BY <1>2, <1>3 DEF RingInv, RingType, JustBehind, sea_sendmsg, After, Slots, NULL
<1>7. curmsg # NULL => list'[curmsg] = m
  BY <1>6 DEF RingInv, RingType, sea_sendmsg
<1>8. Taken' = IF Taken = NoMsg THEN NoMsg ELSE m
  BY <1>3, <1>7 DEF Taken, RingInv, Written
<1>9. RingInv'
  BY <1>1, <1>3, <1>4, <1>7 DEF RingInv, JustBehind, After, Written
<1>10. ~(Len(Queue) < MAXMSGSIZE - 1) /\ Len(Queue) >= MAXMSGSIZE - 1
  BY <1>2
<1> QED
  BY <1>5, <1>8, <1>9, <1>10 DEF F!Overrun

LEMMA SendMaps ==
    ASSUME RingInv, NEW m \in Msgs, sea_sendmsg(m)
    PROVE  RingInv' /\ F!Send(m)
  BY PutMaps, OverrunMaps DEF F!Send

\* sea_getmsg keeps the invariant and takes the first message that waits.
LEMMA GetMaps ==
    ASSUME RingInv, sea_getmsg
    PROVE  RingInv' /\ F!Get
<1> USE RingAssumption
<1>1. RingType'
  BY AfterInRing DEF RingInv, RingType, sea_getmsg
<1>2. Count = Count' + 1
  BY DEF RingInv, RingType, sea_getmsg, sea_msgisempty, Count, After, Slots
<1>7. Count' \in Nat
  BY <1>1, QueueTypeNext
<1>8. ASSUME NEW i \in 1..Count' PROVE SlotOf(i)' = SlotOf(i + 1) /\ i + 1 \in 1..Count
  <2>1. i + 1 \in 1..Count
    <3>1. \A n \in Nat : \A j \in 1..n : j + 1 \in 1..n + 1
      OBVIOUS
    <3>2. i + 1 \in 1..Count' + 1
      BY <1>7, <3>1, Zenon
    <3> QED
      BY <1>2, <3>2, Zenon
  <2>2. i \in Nat /\ i >= 1 /\ i <= Count'
    <3>1. \A n \in Nat : \A j \in 1..n : j \in Nat /\ j >= 1 /\ j <= n
      OBVIOUS
    <3> QED
      BY <1>7, <3>1, Zenon
  <2>4. Count' < MAXMSGSIZE - 1
    <3>1. Count \in Nat /\ Count < MAXMSGSIZE
      BY QueueType DEF RingInv
    <3>2. \A n, k \in Nat : k = n + 1 /\ k < MAXMSGSIZE => n < MAXMSGSIZE - 1
      OBVIOUS
    <3> QED
      BY <1>2, <1>7, <3>1, <3>2, Zenon
  <2>3. SlotOf(i)' = SlotOf(i + 1)
    <3>1. out \in Slots /\ out' = After(out)
      BY DEF sea_getmsg, RingInv, RingType
    <3>2. i \in Nat /\ i < MAXMSGSIZE
      BY <1>7, <2>2, <2>4
    <3> QED
      BY <2>2, <3>1, <3>2 DEF SlotOf, After, Slots
  <2> QED
    BY <2>1, <2>3
<1>3. RingInv'
  <2>1. JustBehind'
    BY DEF JustBehind, sea_getmsg, After
  <2>2. \A i \in 1..Count' : list'[SlotOf(i)'] \in Msgs
    BY <1>8 DEF RingInv, Written, sea_getmsg
  <2>3. list[out] \in Msgs
    <3>1. Count \in Nat
      BY QueueType DEF RingInv
    <3>2. 1 \in 1..Count
      <4>1. \A n \in Nat : 1 \in 1..n + 1
        OBVIOUS
      <4> QED
        BY <1>2, <1>7, <4>1, Zenon
    <3>3. SlotOf(1) = out
      BY DEF SlotOf, RingInv, RingType, Slots
    <3> QED
      BY <3>2, <3>3 DEF RingInv, Written
  <2>5. Written'
    BY <2>2, <2>3 DEF Written, sea_getmsg
  <2> QED
    BY <1>1, <2>1, <2>5 DEF RingInv
<1>4. Queue # <<>>
  BY EmptyQueue DEF RingInv, sea_getmsg
<1>5. Taken' = Head(Queue)
  <2>1. Taken' = list[out]
    BY DEF Taken, sea_getmsg, RingInv, RingType, Slots, NULL
  <2>2. 1 \in 1..Count
    BY <1>4, QueueType, EmptySeq DEF RingInv
  <2>3. Queue[1] = list[SlotOf(1)] /\ SlotOf(1) = out
    BY <2>2, QueueType DEF RingInv, RingType, Slots, SlotOf
  <2> QED
    BY <2>1, <2>3
<1>6. Queue' = Tail(Queue)
  <2>1. Tail(Queue) \in Seq(Content) /\ Len(Tail(Queue)) = Count'
    BY <1>2, <1>4, QueueType, HeadTailProperties DEF RingInv, RingType, Count, Slots, sea_getmsg
  <2>2. Queue' \in Seq(Content) /\ Len(Queue') = Count' /\ Count' \in Nat
    BY <1>1, QueueTypeNext
  <2>3. ASSUME NEW i \in 1..Count'
        PROVE  Queue'[i] = Tail(Queue)[i]
    <3>1. Queue'[i] = list[SlotOf(i)']
      BY <2>3 DEF Queue, sea_getmsg
    <3>2. i + 1 \in 1..Count /\ SlotOf(i)' = SlotOf(i + 1)
      BY <1>8
    <3>4. Tail(Queue)[i] = list[SlotOf(i + 1)]
      BY <1>4, <2>1, <2>3, <3>2, QueueType, HeadTailProperties DEF RingInv
    <3> QED
      BY <3>1, <3>2, <3>4
  <2> QED
    BY <2>1, <2>2, <2>3, SeqEqual
<1> QED
  BY <1>3, <1>4, <1>5, <1>6 DEF F!Get

\* A step that leaves the ring alone changes nothing of the queue.
LEMMA StutterMaps ==
    ASSUME RingInv, UNCHANGED ringVars
    PROVE  RingInv' /\ UNCHANGED <<Queue, Taken>>
<1> USE DEF ringVars
<1>1. RingType' /\ JustBehind'
  BY DEF RingInv, RingType, JustBehind, Slots, After
<1>2. Count' = Count /\ \A i \in 1..Count : SlotOf(i)' = SlotOf(i)
  BY DEF Count, SlotOf
<1>3. Written'
  BY <1>2 DEF RingInv, Written
<1>4. UNCHANGED <<Queue, Taken>>
  BY DEF Count, Queue, SlotOf, Taken
<1> QED
  BY <1>1, <1>3, <1>4 DEF RingInv

\* For every ring size: while a slot stays free send1 delivers every message once and in
\* order, and the message under curmsg stays what was taken although sea_sendmsg goes on
\* writing; a message too many empties it and replaces the message taken (msg.c:50-87).
THEOREM RingImplementsFifo == RingSpec => FifoSpec
<1>1. RingInit => RingInv /\ F!Init
  BY InitMaps
<1>2. RingInv /\ [RingNext]_ringVars => RingInv' /\ [F!Next]_<<Queue, Taken>>
  <2> SUFFICES ASSUME RingInv, [RingNext]_ringVars
               PROVE  RingInv' /\ [F!Next]_<<Queue, Taken>>
    OBVIOUS
  <2>1. CASE sea_getmsg
    BY <2>1, GetMaps DEF F!Next
  <2>2. ASSUME NEW m \in Msgs, sea_sendmsg(m)
        PROVE  RingInv' /\ [F!Next]_<<Queue, Taken>>
    BY <2>2, SendMaps DEF F!Next
  <2>3. CASE UNCHANGED ringVars
    BY <2>3, StutterMaps
  <2> QED
    BY <2>1, <2>2, <2>3 DEF RingNext
<1> QED
  BY <1>1, <1>2, PTL DEF RingSpec, FifoSpec, F!Spec
=============================================================================
