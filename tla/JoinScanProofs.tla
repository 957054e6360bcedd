--------------------------- MODULE JoinScanProofs ---------------------------
(***************************************************************************)
(* What JoinScan keeps true for every set of channels and of networks in   *)
(* reach, every number of tries and every number of failures.              *)
(***************************************************************************)
EXTENDS JoinScan, FiniteSetTheorems, WellFoundedInduction, TLAPS

Known == Near \cap Allowed

Nets == [channel : Known, index : Channels \cup {USED}]

\* The channel that is being scanned is out of the ring, and has its place in it.
RingInv ==
    /\ readError => scanChannel = <<>> /\ currentChannel = 0
    /\ scanStatus = "DUAL" /\ ~readError =>
          currentChannel # 0 /\ Len(scanChannel) + 1 <= Len(ScanOrder)

\* The tries: what they are about.
TryInv ==
    /\ avail > 0 /\ ~joinInitial => params = home /\ params # 0
    /\ joinTimes > 0 => params \in Known

\* The list has no network twice.
ListInv ==
    /\ networkInfo2 \in Seq(Nets)
    /\ \A i, j \in DOMAIN networkInfo2 :
          networkInfo2[i].channel = networkInfo2[j].channel => i = j

\* Part one of the invariant: it needs nothing of the stack.
BaseInv == TypeOK /\ RingInv /\ TryInv /\ ListInv /\ WatchedScan /\ KnownNetwork

InRing(c) == \E i \in DOMAIN scanChannel : scanChannel[i] = c

\* Part two: while a channel is given up only after the stack is done with it, a network
\* in reach has been heard, or its channel is still to be scanned or scanned again.
FindInv ==
    /\ air # 0 => air = currentChannel
    /\ scanStatus # "DUAL" => currentChannel = 0 /\ scanChannel = <<>>
    /\ scanStatus = "DUAL" =>
          \A c \in Known : Listed(c) \/ InRing(c) \/ currentChannel = c
    /\ ScanFindsAll
-----------------------------------------------------------------------------
(* Sequences.                                                              *)

\* Taking the head of a sequence loses no other element.
LEMMA TakeHead ==
    ASSUME NEW S, NEW q \in Seq(S), q # <<>>
    PROVE  /\ Head(q) \in S /\ Tail(q) \in Seq(S) /\ Len(Tail(q)) = Len(q) - 1
           /\ \A i \in DOMAIN q : q[i] = Head(q) \/ \E j \in DOMAIN Tail(q) : Tail(q)[j] = q[i]
<1>1. Head(q) \in S /\ Tail(q) \in Seq(S) /\ Len(Tail(q)) = Len(q) - 1
  OBVIOUS
<1>2. ASSUME NEW i \in DOMAIN q
      PROVE  q[i] = Head(q) \/ \E j \in DOMAIN Tail(q) : Tail(q)[j] = q[i]
  <2>1. CASE i = 1
    BY <2>1
  <2>2. CASE i # 1
    <3>1. i - 1 \in DOMAIN Tail(q) /\ Tail(q)[i - 1] = q[i]
      BY <2>2
    <3> QED BY <3>1
  <2> QED BY <2>1, <2>2
<1> QED BY <1>1, <1>2

\* Putting an element at the end loses none.
LEMMA PutBack ==
    ASSUME NEW S, NEW q \in Seq(S), NEW c \in S
    PROVE  /\ Append(q, c) \in Seq(S) /\ Append(q, c) # <<>>
           /\ Len(Append(q, c)) = Len(q) + 1
           /\ \A i \in DOMAIN q : \E j \in DOMAIN Append(q, c) : Append(q, c)[j] = q[i]
           /\ \E j \in DOMAIN Append(q, c) : Append(q, c)[j] = c
<1>1. /\ Append(q, c) \in Seq(S) /\ Len(Append(q, c)) = Len(q) + 1
      /\ \A i \in 1..Len(q) : Append(q, c)[i] = q[i]
      /\ Append(q, c)[Len(q) + 1] = c
  OBVIOUS
<1>2. /\ DOMAIN q = 1..Len(q) /\ DOMAIN Append(q, c) = 1..Len(q) + 1 /\ Len(q) \in Nat
  BY <1>1
<1>3. ASSUME Append(q, c) = <<>> PROVE FALSE
  <2>1. Len(Append(q, c)) = 0
    BY <1>3
  <2> QED BY <1>1, <1>2, <2>1
<1>4. ASSUME NEW i \in DOMAIN q
      PROVE  \E j \in DOMAIN Append(q, c) : Append(q, c)[j] = q[i]
  BY <1>1, <1>2
<1>5. Len(q) + 1 \in DOMAIN Append(q, c)
  BY <1>2
<1> QED BY <1>1, <1>3, <1>4, <1>5

LEMMA SeqParts ==
    ASSUME NEW A, NEW s \in Seq(A)
    PROVE  Len(s) \in Nat /\ DOMAIN s = 1..Len(s) /\ \A i \in 1..Len(s) : s[i] \in A
OBVIOUS

\* A sequence over a set is one over a larger set.
LEMMA WiderSeq ==
    ASSUME NEW A, NEW B, A \subseteq B, NEW s \in Seq(A)
    PROVE  s \in Seq(B)
<1>1. Len(s) \in Nat /\ s = [i \in 1..Len(s) |-> s[i]] /\ \A i \in 1..Len(s) : s[i] \in B
  OBVIOUS
<1> QED BY <1>1

\* Marking a network as tried changes nothing else of the list.
LEMMA MarkOnly ==
    ASSUME NEW nets \in Seq(Nets), NEW k
    PROVE  /\ Marked(nets, k) \in Seq(Nets)
           /\ DOMAIN Marked(nets, k) = DOMAIN nets
           /\ \A i \in DOMAIN nets : Marked(nets, k)[i].channel = nets[i].channel
<1> DEFINE M(i) == IF i = k THEN [nets[i] EXCEPT !.index = USED] ELSE nets[i]
<1>1. Len(nets) \in Nat /\ DOMAIN nets = 1..Len(nets) /\ \A i \in 1..Len(nets) : nets[i] \in Nets
  BY SeqParts
<1>2. \A i \in 1..Len(nets) : M(i) \in Nets /\ M(i).channel = nets[i].channel
  BY <1>1 DEF Nets
<1>3. Marked(nets, k) = [i \in 1..Len(nets) |-> M(i)]
  BY <1>1 DEF Marked
<1> HIDE DEF M
<1>4. Marked(nets, k) \in Seq(Nets)
  BY <1>1, <1>2, <1>3
<1> QED BY <1>1, <1>2, <1>3, <1>4
-----------------------------------------------------------------------------
(* The scan.                                                               *)

\* The part of the types, and the part of the invariant, that the scan changes.
ScanType ==
    /\ scanStatus \in {"LEISURE", "DUAL", "COMPLETE"} /\ scanTimeOutEvent \in 0..TIMEOUT
    /\ scanChannel \in Seq(Channels) /\ Len(scanChannel) <= Len(ScanOrder)
    /\ readError \in BOOLEAN
    /\ currentChannel \in Channels \cup {0} /\ lastChannel \in Channels \cup {0}
    /\ scanWait \in 0..1 /\ scanFail \in 0..3 /\ air \in Channels \cup {0}

ScanInv == ScanType /\ RingInv /\ WatchedScan

\* The rest of the types.
FlagType ==
    /\ joinInitial \in BOOLEAN /\ scan \in BOOLEAN /\ scanAction \in BOOLEAN
    /\ action \in BOOLEAN

JoinType ==
    /\ avail \in 0..AVAIL /\ joinTimes \in 0..TIMES
    /\ params \in Channels \cup {0} /\ home \in Channels \cup {0}
    /\ stackstate \in {"NO_NETWORK", "JOINING", "JOINED", "LEAVING"}
    /\ appstate \in {"NO_NETWORK", "JOINED"} /\ faults \in 0..FaultBound

JoinInv == FlagType /\ JoinType /\ TryInv /\ ListInv /\ KnownNetwork

LEMMA KnownType == Known \subseteq Channels /\ Nets \subseteq Entry /\ 0 \notin Channels
<1>1. Known \subseteq Channels
  BY ScanAssumption DEF Known
<1>2. ASSUME NEW e \in Nets PROVE e \in Entry
  <2> DEFINE I == Channels \cup {USED}
  <2> HIDE DEF I
  <2>1. e \in [channel : Known, index : I]
    BY <1>2 DEF Nets, I
  <2>2. e \in [channel : Channels, index : I]
    BY <1>1, <2>1
  <2> QED BY <2>2 DEF Entry, I
<1>3. 0 \notin 1..USED-1
  BY DEF USED
<1> QED BY <1>1, <1>2, <1>3, ScanAssumption

LEMMA Parts == BaseInv <=> ScanInv /\ JoinInv
<1>1. ListInv => networkInfo2 \in Seq(Entry)
  BY KnownType, WiderSeq DEF ListInv
<1> QED BY <1>1 DEF BaseInv, ScanInv, JoinInv, TypeOK, ScanType, FlagType, JoinType

LEMMA PartsNext == (ScanInv /\ JoinInv)' => BaseInv'
  BY Parts, PTL

\* emberScanForNextJoinableNetwork takes the next channel, or finds the ring empty.
LEMMA NextChannel ==
    ASSUME NEW q \in Seq(Channels), Len(q) <= Len(ScanOrder),
           NEW b \in Channels \cup {0}, ScanForNext(q, b)
    PROVE  /\ scanChannel' \in Seq(Channels) /\ Len(scanChannel') <= Len(ScanOrder)
           /\ readError' \in BOOLEAN /\ currentChannel' \in Channels \cup {0}
           /\ air' \in Channels \cup {0}
           /\ readError' => scanChannel' = <<>> /\ currentChannel' = 0
           /\ ~readError' => currentChannel' # 0 /\ Len(scanChannel') + 1 <= Len(ScanOrder)
           /\ air' \in {b, currentChannel'}
<1>0. Len(ScanOrder) \in Nat
  BY ScanAssumption
<1>1. CASE q = <<>>
  BY <1>0, <1>1 DEF ScanForNext
<1>2. CASE q # <<>>
  <2>1. Head(q) \in Channels /\ Tail(q) \in Seq(Channels) /\ Len(Tail(q)) = Len(q) - 1
    BY <1>2, TakeHead
  <2>2. Len(q) \in Nat
    OBVIOUS
  <2>3. /\ readError' = FALSE /\ currentChannel' = Head(q) /\ scanChannel' = Tail(q)
        /\ air' \in {b, Head(q)}
    BY <1>2 DEF ScanForNext
  <2>4. Head(q) # 0
    BY <2>1, KnownType
  <2>5. Len(scanChannel') = Len(q) - 1
    BY <2>1, <2>3
  <2>6. Len(scanChannel') + 1 <= Len(ScanOrder) /\ Len(scanChannel') <= Len(ScanOrder)
    BY <1>0, <2>2, <2>5
  <2>7. /\ scanChannel' \in Seq(Channels) /\ currentChannel' \in Channels \cup {0}
        /\ air' \in Channels \cup {0} /\ air' \in {b, currentChannel'} /\ currentChannel' # 0
    BY <2>1, <2>3, <2>4
  <2>8. ~readError' /\ readError' \in BOOLEAN
    BY <2>3
  <2> QED BY <2>6, <2>7, <2>8, Zenon
<1> QED BY <1>1, <1>2

\* scanModule, while the time-out has not run off.
LEMMA ScanModule ==
    ASSUME ScanInv, scanModule, scanTimeOutEvent # 1
    PROVE  ScanInv'
<1> USE DEF ScanInv
<1>1. CASE Starts /\ scanInitial
  <2>1. ScanOrder \in Seq(Channels) /\ Len(ScanOrder) \in Nat
    BY ScanAssumption
  <2>2. air \in Channels \cup {0} /\ ScanForNext(ScanOrder, air)
    BY <1>1 DEF ScanType, scanInitial
  <2>3. Len(ScanOrder) <= Len(ScanOrder)
    BY <2>1
  <2>4. /\ scanStatus' = "DUAL" /\ scanTimeOutEvent' = TIMEOUT
        /\ scanFail' = 0 /\ scanWait' = 0 /\ lastChannel' = 0
    BY <1>1 DEF scanInitial
  <2> QED BY <2>1, <2>2, <2>3, <2>4, NextChannel, ScanAssumption DEF ScanType, RingInv, WatchedScan
<1>2. CASE scanStatus = "DUAL" /\ Ends
  <2>1. ScanType'
    BY <1>2, ScanAssumption DEF Ends, queueVars, ScanType
  <2>2. RingInv'
    BY <1>2, Zenon DEF Ends, queueVars, RingInv
  <2>3. WatchedScan'
    BY <1>2 DEF Ends, WatchedScan
  <2> QED BY <2>1, <2>2, <2>3
<1>3. CASE scanStatus = "DUAL" /\ GivesUp
  <2>1. currentChannel \in Channels /\ Len(scanChannel) + 1 <= Len(ScanOrder)
    BY <1>3 DEF GivesUp, RingInv, ScanType
  <2> DEFINE q == Append(scanChannel, currentChannel)
  <2>2. q \in Seq(Channels) /\ Len(q) <= Len(ScanOrder)
    BY <2>1, PutBack DEF ScanType
  <2>3. air \in Channels \cup {0} /\ ScanForNext(q, air)
    BY <1>3 DEF ScanType, GivesUp
  <2>4. /\ scanWait' = 0 /\ scanFail' \in 0..3 /\ lastChannel' = lastChannel
        /\ scanStatus' = scanStatus /\ scanTimeOutEvent' = scanTimeOutEvent - 1
    BY <1>3 DEF GivesUp, ScanType
  <2>5. scanTimeOutEvent \in 2..TIMEOUT
    BY <1>3, ScanAssumption DEF WatchedScan, ScanType
  <2> HIDE DEF q
  <2>6. scanTimeOutEvent' \in 1..TIMEOUT
    BY <2>4, <2>5, ScanAssumption
  <2> QED BY <1>3, <2>2, <2>3, <2>4, <2>6, NextChannel, ScanAssumption
          DEF ScanType, RingInv, WatchedScan
<1>4. CASE scanStatus = "DUAL" /\ Waits
  <2>1. scanTimeOutEvent' \in 1..TIMEOUT
    BY <1>4, ScanAssumption DEF WatchedScan, ScanType, Waits
  <2>2. scanWait' \in 0..1
    BY <1>4 DEF Waits, Stuck, ScanType
  <2> QED BY <1>4, <2>1, <2>2 DEF Waits, queueVars, ScanType, RingInv, WatchedScan
<1>5. CASE UNCHANGED <<queueVars, watchVars>>
  BY <1>5 DEF queueVars, watchVars, ScanType, RingInv, WatchedScan
<1> QED BY <1>1, <1>2, <1>3, <1>4, <1>5 DEF scanModule, scanDual
-----------------------------------------------------------------------------
(* The tries.                                                              *)

\* scanModule leaves a list without a network twice; so does marking one.
LEMMA KeptList ==
    ASSUME ListInv
    PROVE  /\ Kept \in Seq(Nets)
           /\ \A i, j \in DOMAIN Kept : Kept[i].channel = Kept[j].channel => i = j
<1>1. CASE Starts
  BY <1>1 DEF Kept
<1>2. CASE ~Starts
  BY <1>2 DEF Kept, ListInv
<1> QED BY <1>1, <1>2

LEMMA MarkList ==
    ASSUME NEW nets \in Seq(Nets), NEW k,
           \A i, j \in DOMAIN nets : nets[i].channel = nets[j].channel => i = j,
           networkInfo2' = Marked(nets, k)
    PROVE  ListInv'
<1>1. /\ Marked(nets, k) \in Seq(Nets)
      /\ DOMAIN Marked(nets, k) = DOMAIN nets
      /\ \A i \in DOMAIN nets : Marked(nets, k)[i].channel = nets[i].channel
  BY MarkOnly
<1> QED BY <1>1 DEF ListInv

\* A non-empty set of natural numbers has a least element.
LEMMA Least ==
    ASSUME NEW T \in SUBSET Nat, T # {}
    PROVE  \E m \in T : \A n \in T : m <= n
<1> DEFINE R == OpToRel(<, Nat)
<1>1. PICK m \in T : \A n \in T : ~(<<n, m>> \in R)
  BY NatLessThanWellFounded, WFMin
<1>2. \A n, k \in Nat : n < k => <<n, k>> \in R
  BY DEF OpToRel
<1> HIDE DEF R
<1>3. \A n \in T : m <= n
  <2> SUFFICES ASSUME NEW n \in T PROVE m <= n
    OBVIOUS
  <2>1. m \in Nat /\ n \in Nat /\ ~(<<n, m>> \in R)
    BY <1>1
  <2> QED BY <1>2, <2>1
<1> QED BY <1>1, <1>3

\* The network whose turn it is is one of the list.
LEMMA BestOne ==
    ASSUME NEW nets \in Seq(Nets), nets # <<>>
    PROVE  Best(nets) \in DOMAIN nets
<1>1. Len(nets) \in Nat /\ DOMAIN nets = 1..Len(nets) /\ \A i \in 1..Len(nets) : nets[i] \in Nets
  BY SeqParts
<1>2. Len(nets) # 0
  OBVIOUS
<1> DEFINE ix == [i \in DOMAIN nets |-> nets[i].index]
<1>3. ix \in [DOMAIN nets -> Nat]
  <2>1. ASSUME NEW i \in DOMAIN nets PROVE nets[i].index \in Nat
    <3>1. nets[i] \in Nets
      BY <1>1, <2>1
    <3>2. nets[i].index \in Channels \cup {USED}
      BY <3>1 DEF Nets
    <3>3. 1..USED-1 \subseteq Nat /\ USED \in Nat
      BY DEF USED
    <3> QED BY <3>2, <3>3, ScanAssumption
  <2> QED BY <2>1
<1> DEFINE Before(k, i) == ix[k] < ix[i] \/ (ix[k] = ix[i] /\ k <= i)
           Ranks == {ix[i] : i \in DOMAIN nets}
<1>x. \A i \in DOMAIN nets : ix[i] = nets[i].index
  OBVIOUS
<1> HIDE DEF ix
<1>4. PICK r \in Ranks : \A s \in Ranks : r <= s
  <2>1. Ranks \subseteq Nat /\ Ranks # {}
    BY <1>1, <1>2, <1>3
  <2> QED BY <2>1, Least
<1> DEFINE Firsts == {i \in DOMAIN nets : ix[i] = r}
<1>5. PICK k \in Firsts : \A i \in Firsts : k <= i
  <2>1. Firsts # {} /\ Firsts \subseteq Nat
    BY <1>1, <1>4
  <2> QED BY <2>1, Least
<1>6. ASSUME NEW i \in DOMAIN nets PROVE Before(k, i)
  <2>1. r <= ix[i] /\ ix[k] = r /\ ix[i] \in Nat /\ r \in Nat
    BY <1>3, <1>4, <1>5
  <2>2. ix[i] = r => k <= i
    BY <1>5
  <2>3. CASE ix[i] = r
    BY <2>1, <2>2, <2>3
  <2>4. CASE ix[i] # r
    <3>1. r < ix[i]
      BY <2>1, <2>4
    <3> QED BY <2>1, <3>1
  <2> QED BY <2>3, <2>4
<1>7. ASSUME NEW i \in DOMAIN nets
      PROVE  \/ nets[k].index < nets[i].index
             \/ nets[k].index = nets[i].index /\ k <= i
  <2>1. ix[k] = nets[k].index /\ ix[i] = nets[i].index
    BY <1>x, <1>5
  <2> QED BY <1>6, <2>1
<1>8. \E x \in DOMAIN nets : \A i \in DOMAIN nets :
         \/ nets[x].index < nets[i].index
         \/ nets[x].index = nets[i].index /\ x <= i
  BY <1>5, <1>7
<1> QED BY <1>8 DEF Best

\* A try only sets the parameters and goes to the stack.
LEMMA JoinType1 ==
    ASSUME JoinType, NEW c \in Channels, Join(c)
    PROVE  /\ params' = c /\ stackstate' \in {"JOINING", stackstate}
           /\ stackstate' \in {"NO_NETWORK", "JOINING", "JOINED", "LEAVING"}
           /\ appstate' = appstate /\ action' = action
BY DEF Join, JoinType

\* sensorJoinNetwork
LEMMA Search ==
    ASSUME JoinInv, stackstate = "NO_NETWORK", sensorJoinNetwork, UNCHANGED faults
    PROVE  JoinInv'
<1> USE DEF JoinInv
<1>0. /\ Kept \in Seq(Nets)
      /\ \A i, j \in DOMAIN Kept : Kept[i].channel = Kept[j].channel => i = j
  BY KeptList
<1>1. networkInfo2' = Kept => ListInv'
  BY <1>0 DEF ListInv
<1>2. UNCHANGED <<home, faults>>
  BY DEF sensorJoinNetwork
<1>f. FlagType'
  <2>1. action' = action
    BY Zenon DEF sensorJoinNetwork, FirstTry, TryAgain, SearchOn, NoScanYet, ScanAgain,
                 TryFoundAgain, TryFound, NoJoin, Join, netVars
  <2>2. joinInitial' \in {FALSE, joinInitial} /\ scan' \in {TRUE, FALSE, scan}
        /\ scanAction' \in {TRUE, FALSE, scan}
    BY Zenon DEF sensorJoinNetwork, FirstTry, TryAgain, SearchOn, NoScanYet, ScanAgain,
                 TryFoundAgain, TryFound
  <2> QED BY <2>1, <2>2, Zenon DEF FlagType
<1>3. CASE FirstTry
  <2>1. ListInv'
    BY <1>0, <1>3, MarkList DEF FirstTry
  <2>2. joinTimes' = 0 /\ joinInitial' = FALSE /\ scan' = TRUE /\ scanAction' = FALSE
    BY <1>3 DEF FirstTry
  <2>3. CASE home \in Channels
    <3>1. avail' = AVAIL - 1 /\ Join(home)
      BY <1>3, <2>3 DEF FirstTry
    <3>2. avail' \in 0..AVAIL /\ params' = home /\ params' # 0
      BY <2>3, <3>1, ScanAssumption, KnownType DEF Join
    <3>3. JoinType'
      BY <1>2, <2>2, <2>3, <3>1, <3>2, JoinType1, ScanAssumption DEF JoinType
    <3> QED BY <1>f, <1>2, <2>1, <2>2, <2>3, <3>2, <3>3 DEF TryInv, KnownNetwork
  <2>4. CASE home \notin Channels
    <3>1. avail' = 0 /\ params' = home /\ UNCHANGED netVars
      BY <1>3, <2>4 DEF FirstTry
    <3>2. JoinType'
      BY <1>2, <2>2, <3>1, ScanAssumption DEF JoinType, netVars
    <3> QED BY <1>f, <2>1, <2>2, <3>1, <3>2 DEF TryInv, KnownNetwork, netVars
  <2> QED BY <2>3, <2>4
<1>4. CASE TryAgain
  <2>1. ~joinInitial /\ avail > 0 /\ params = home /\ params # 0 /\ params \in Channels
    BY <1>4 DEF TryAgain, TryInv, JoinType
  <2>2. avail' \in 0..AVAIL /\ UNCHANGED <<joinInitial, scan, joinTimes>> /\ scanAction' = FALSE
    BY <1>4, ScanAssumption DEF TryAgain, JoinType
  <2>3. params' = params /\ Join(params)
    BY <1>4 DEF TryAgain, Join
  <2>4. JoinType'
    BY <1>2, <2>1, <2>2, <2>3, JoinType1 DEF JoinType
  <2>5. TryInv'
    BY <1>2, <2>1, <2>2, <2>3 DEF TryInv
  <2> QED BY <1>f, <1>1, <1>2, <1>4, <2>1, <2>3, <2>4, <2>5 DEF TryAgain, KnownNetwork
<1>5. CASE SearchOn
  <2>1. avail' = 0 /\ ~joinInitial' /\ scan' = FALSE
    BY <1>5, Zenon DEF SearchOn
  <2>2. CASE NoScanYet \/ ScanAgain
    <3>1. /\ UNCHANGED joinTimes /\ UNCHANGED params /\ UNCHANGED netVars
          /\ networkInfo2' = Kept
      BY <2>2 DEF NoScanYet, ScanAgain, NoJoin
    <3>2. JoinType'
      BY <1>2, <2>1, <3>1, ScanAssumption DEF JoinType, netVars
    <3> QED BY <1>f, <1>1, <2>1, <3>1, <3>2 DEF TryInv, KnownNetwork, netVars, JoinType
  <2>3. CASE TryFoundAgain
    <3>1. joinTimes > 0 /\ params \in Known /\ params \in Channels
      BY <2>3, KnownType DEF TryFoundAgain, TryInv
    <3>2. joinTimes' \in 0..TIMES /\ networkInfo2' = Kept /\ scanAction' = scan /\ Join(params)
      BY <2>3, ScanAssumption DEF TryFoundAgain, JoinType
    <3>3. params' = params
      BY <3>2 DEF Join
    <3>4. JoinType'
      BY <1>2, <2>1, <3>1, <3>2, <3>3, JoinType1, ScanAssumption DEF JoinType
    <3> QED BY <1>f, <1>1, <2>1, <3>1, <3>2, <3>3, <3>4 DEF TryInv, KnownNetwork, Known, JoinType
  <2>4. CASE TryFound
    <3>1. Kept # <<>>
      BY <2>4 DEF TryFound, AllUsed
    <3>2. Best(Kept) \in DOMAIN Kept
      BY <1>0, <3>1, BestOne
    <3> DEFINE c == Kept[Best(Kept)].channel
    <3>3. c \in Known
      <4>1. Kept[Best(Kept)] \in Nets
        BY <1>0, <3>2, SeqParts
      <4> QED BY <4>1 DEF Nets
    <3>4. /\ joinTimes' = TIMES /\ scanAction' = scan /\ Join(c)
          /\ networkInfo2' = Marked(Kept, Best(Kept))
      BY <2>4 DEF TryFound
    <3>5. ListInv'
      BY <1>0, <3>4, MarkList
    <3> HIDE DEF c
    <3>6. params' = c /\ c \in Channels
      BY <3>3, <3>4, KnownType DEF Join
    <3>7. JoinType'
      BY <1>2, <2>1, <3>4, <3>6, JoinType1, ScanAssumption DEF JoinType
    <3> QED BY <1>f, <2>1, <3>3, <3>5, <3>6, <3>7 DEF TryInv, KnownNetwork, Known
  <2> QED BY <1>5, <2>2, <2>3, <2>4 DEF SearchOn
<1> QED BY <1>3, <1>4, <1>5 DEF sensorJoinNetwork
-----------------------------------------------------------------------------
(* Type correctness, and what a module joins.                              *)

LEMMA InitBase == Init => BaseInv
<1> SUFFICES ASSUME Init PROVE BaseInv
  OBVIOUS
<1>0. /\ 0 \in 0..TIMEOUT /\ 0 \in 0..1 /\ 0 \in 0..3
      /\ Len(<<>>) <= Len(ScanOrder) /\ <<>> \in Seq(Channels)
  BY ScanAssumption
<1>1. ScanType
  BY <1>0, Zenon DEF Init, ScanType
<1>2. RingInv
  BY DEF Init, RingInv
<1>3. WatchedScan
  BY DEF Init, WatchedScan
<1>4. FlagType
  BY DEF Init, FlagType
<1>5. JoinType
  BY ScanAssumption DEF Init, JoinType
<1>6. TryInv /\ ListInv /\ KnownNetwork
  BY DEF Init, TryInv, ListInv, KnownNetwork
<1> QED BY <1>1, <1>2, <1>3, <1>4, <1>5, <1>6, Parts DEF ScanInv, JoinInv

\* A reboot is a start with another network in flash.
LEMMA RebootBase == BaseInv /\ halReboot => BaseInv'
<1> SUFFICES ASSUME BaseInv, halReboot PROVE BaseInv'
  OBVIOUS
<1>0. /\ 0 \in 0..TIMEOUT /\ 0 \in 0..1 /\ 0 \in 0..3
      /\ Len(<<>>) <= Len(ScanOrder) /\ <<>> \in Seq(Channels)
  BY ScanAssumption
<1>1. ScanType'
  BY <1>0, Zenon DEF halReboot, ScanType
<1>2. RingInv'
  BY DEF halReboot, RingInv
<1>3. WatchedScan'
  BY DEF halReboot, WatchedScan
<1>4. FlagType'
  BY DEF halReboot, FlagType
<1>5. JoinType'
  BY Parts, ScanAssumption DEF halReboot, JoinInv, JoinType
<1>6. (TryInv /\ ListInv /\ KnownNetwork)'
  BY DEF halReboot, TryInv, ListInv, KnownNetwork
<1>7. (ScanInv /\ JoinInv)'
  BY <1>1, <1>2, <1>3, <1>4, <1>5, <1>6 DEF ScanInv, JoinInv
<1> QED BY <1>7, PartsNext

\* What leaves the tries alone, and what leaves the scan alone.
LEMMA SameJoin ==
    JoinInv /\ UNCHANGED <<joinVars, listVars, netVars, faults>> => JoinInv'
BY DEF joinVars, listVars, netVars, JoinInv, FlagType, JoinType, TryInv, ListInv, KnownNetwork

LEMMA SameScan ==
    ScanInv /\ UNCHANGED <<queueVars, watchVars>> => ScanInv'
BY DEF queueVars, watchVars, ScanInv, ScanType, RingInv, WatchedScan

LEMMA Other ==
    ASSUME JoinInv, stackstate # "NO_NETWORK", OtherState, UNCHANGED faults
    PROVE  JoinInv'
<1>1. ListInv'
  BY KeptList DEF JoinInv, OtherState, ListInv
<1>2. FlagType'
  BY DEF JoinInv, OtherState, FlagType, joinVars, netVars
<1>3. stackstate' \in {stackstate, "LEAVING"} /\ UNCHANGED <<joinVars, appstate>>
  BY DEF OtherState, netVars
<1>4. JoinType' /\ TryInv' /\ KnownNetwork'
  BY <1>3 DEF JoinInv, JoinType, TryInv, KnownNetwork, joinVars
<1> QED BY <1>1, <1>2, <1>4 DEF JoinInv

LEMMA Handler == BaseInv /\ exceptionHandler => BaseInv'
<1> SUFFICES ASSUME BaseInv, exceptionHandler PROVE BaseInv'
  OBVIOUS
<1>1. ScanInv'
  BY Parts, ScanModule DEF exceptionHandler
<1>2. JoinInv'
  BY Parts, Search, Other DEF exceptionHandler
<1> QED BY <1>1, <1>2, PartsNext

\* A network that is heard is listed once.
LEMMA Found == JoinInv /\ NetworkFound => JoinInv'
<1> SUFFICES ASSUME JoinInv, NetworkFound PROVE JoinInv'
  OBVIOUS
<1>1. UNCHANGED <<joinVars, scanAction, netVars, faults>>
  BY DEF NetworkFound
<1>2. ListInv'
  <2>1. CASE Listed(air)
    BY <2>1 DEF NetworkFound, saveNetwork, JoinInv, ListInv
  <2>2. CASE ~Listed(air)
    <3> DEFINE e == [channel |-> air, index |-> air]
    <3>1. e \in Nets
      BY KnownType DEF NetworkFound, Nets, Known
    <3>2. networkInfo2' = Append(networkInfo2, e) /\ networkInfo2 \in Seq(Nets)
      BY <2>2 DEF NetworkFound, saveNetwork, JoinInv, ListInv
    <3>3. e.channel = air
      OBVIOUS
    <3> HIDE DEF e
    <3>4. /\ networkInfo2' \in Seq(Nets) /\ DOMAIN networkInfo2' = 1..Len(networkInfo2) + 1
          /\ \A i \in 1..Len(networkInfo2) : networkInfo2'[i] = networkInfo2[i]
          /\ networkInfo2'[Len(networkInfo2) + 1] = e
          /\ DOMAIN networkInfo2 = 1..Len(networkInfo2) /\ Len(networkInfo2) \in Nat
      BY <3>1, <3>2
    <3>5. ASSUME NEW i \in DOMAIN networkInfo2', NEW j \in DOMAIN networkInfo2',
                 networkInfo2'[i].channel = networkInfo2'[j].channel
          PROVE  i = j
      <4>1. \A k \in 1..Len(networkInfo2) : networkInfo2[k].channel # air
        BY <2>2, <3>4 DEF Listed
      <4>2. CASE i \in 1..Len(networkInfo2) /\ j \in 1..Len(networkInfo2)
        BY <3>4, <3>5, <4>2 DEF JoinInv, ListInv
      <4>3. CASE i = Len(networkInfo2) + 1 \/ j = Len(networkInfo2) + 1
        BY <3>3, <3>4, <3>5, <4>1, <4>3
      <4> QED BY <3>4, <4>2, <4>3
    <3> QED BY <3>4, <3>5 DEF ListInv
  <2> QED BY <2>1, <2>2
<1>3. FlagType' /\ JoinType' /\ TryInv' /\ KnownNetwork'
  BY <1>1 DEF JoinInv, FlagType, JoinType, TryInv, KnownNetwork, joinVars, netVars
<1> QED BY <1>2, <1>3 DEF JoinInv

LEMMA Complete == ScanInv /\ ScanComplete => ScanInv'
<1> SUFFICES ASSUME ScanInv, ScanComplete PROVE ScanInv'
  OBVIOUS
<1>1. ScanForNext(scanChannel, 0) /\ UNCHANGED watchVars
  BY DEF ScanComplete
<1>2. scanChannel \in Seq(Channels) /\ Len(scanChannel) <= Len(ScanOrder)
  BY DEF ScanInv, ScanType
<1>3. /\ scanChannel' \in Seq(Channels) /\ Len(scanChannel') <= Len(ScanOrder)
      /\ readError' \in BOOLEAN /\ currentChannel' \in Channels \cup {0}
      /\ air' \in Channels \cup {0}
      /\ readError' => scanChannel' = <<>> /\ currentChannel' = 0
      /\ ~readError' => currentChannel' # 0 /\ Len(scanChannel') + 1 <= Len(ScanOrder)
  BY <1>1, <1>2, NextChannel
<1>4. RingInv'
  BY <1>3, Zenon DEF RingInv
<1> QED BY <1>1, <1>3, <1>4 DEF watchVars, ScanInv, ScanType, WatchedScan

LEMMA NextBase == BaseInv /\ [Next]_vars => BaseInv'
<1> SUFFICES ASSUME BaseInv, [Next]_vars PROVE BaseInv'
  OBVIOUS
<1>0. ScanInv /\ JoinInv
  BY Parts
<1>1. CASE exceptionHandler
  BY <1>1, Handler
<1>2. CASE Boots
  BY <1>2, RebootBase DEF Boots, ScanFails, scanTimeOutEventHandler
<1>3. CASE NetworkFound
  <2>1. UNCHANGED <<queueVars, watchVars>>
    BY <1>3 DEF NetworkFound
  <2> QED BY <1>0, <1>3, <2>1, Found, SameScan, PartsNext
<1>4. CASE ScanComplete
  <2>1. UNCHANGED <<joinVars, listVars, netVars, faults>>
    BY <1>4 DEF ScanComplete
  <2> QED BY <1>0, <1>4, <2>1, Complete, SameJoin, PartsNext
<1>5. CASE ScanError
  <2>1. ScanInv'
    BY <1>0, <1>5 DEF ScanError, watchVars, ScanInv, ScanType, RingInv, WatchedScan
  <2>2. JoinInv'
    BY <1>0, <1>5, ScanAssumption DEF ScanError, joinVars, listVars, netVars,
       JoinInv, FlagType, JoinType, TryInv, ListInv, KnownNetwork
  <2> QED BY <2>1, <2>2, PartsNext
<1>6. ASSUME UNCHANGED <<queueVars, watchVars, listVars, avail, scan, joinTimes, params>>,
             FlagType', JoinType', TryInv', KnownNetwork'
      PROVE  BaseInv'
  <2>1. ScanInv'
    BY <1>0, <1>6, SameScan
  <2>2. ListInv'
    BY <1>0, <1>6 DEF JoinInv, ListInv, listVars
  <2> QED BY <1>6, <2>1, <2>2, PartsNext DEF JoinInv
<1>7. CASE NetworkUp
  <2>1. /\ UNCHANGED <<queueVars, watchVars, listVars, avail, scan, joinTimes, params>>
        /\ UNCHANGED <<action, faults>> /\ joinInitial' = TRUE /\ home' = params
        /\ params \in Channels /\ stackstate' = "JOINED" /\ appstate' = "JOINED"
    BY <1>7, ScanAssumption DEF NetworkUp
  <2>2. FlagType'
    BY <1>0, <2>1 DEF JoinInv, FlagType, listVars
  <2>3. JoinType' /\ TryInv' /\ KnownNetwork'
    BY <1>0, <2>1 DEF JoinInv, JoinType, TryInv, KnownNetwork
  <2> QED BY <1>6, <2>1, <2>2, <2>3
<1>11. CASE InterpanUp
  <2>1. /\ UNCHANGED <<queueVars, watchVars, listVars, joinVars, action>>
        /\ stackstate' = "JOINED" /\ appstate' = appstate /\ faults' \in 0..FaultBound
    BY <1>0, <1>11, ScanAssumption DEF InterpanUp, JoinInv, JoinType
  <2>2. FlagType' /\ JoinType' /\ TryInv' /\ KnownNetwork'
    BY <1>0, <2>1 DEF JoinInv, FlagType, JoinType, TryInv, KnownNetwork, joinVars, listVars
  <2> QED BY <1>6, <2>1, <2>2 DEF joinVars
<1>8. CASE WrongNetwork \/ TooManyFailures
  <2>1. UNCHANGED <<queueVars, watchVars, listVars, joinVars>>
    BY <1>8 DEF WrongNetwork, TooManyFailures
  <2>2. action' = TRUE
    BY <1>8 DEF WrongNetwork, TooManyFailures
  <2>3. /\ stackstate' \in {"JOINED", stackstate} /\ faults' \in 0..FaultBound
        /\ appstate' \in {"NO_NETWORK", appstate}
    BY <1>0, <1>8, ScanAssumption DEF WrongNetwork, TooManyFailures, JoinInv, JoinType
  <2>4. FlagType'
    BY <1>0, <2>1, <2>2 DEF JoinInv, FlagType, listVars, joinVars
  <2>5. JoinType' /\ TryInv' /\ KnownNetwork'
    BY <1>0, <2>1, <2>3 DEF JoinInv, JoinType, TryInv, KnownNetwork, joinVars
  <2> QED BY <1>6, <2>1, <2>4, <2>5 DEF joinVars
<1>9. CASE JoinFailed \/ NetworkDown
  <2>1. UNCHANGED <<queueVars, watchVars, listVars, joinVars, action>>
    BY <1>9 DEF JoinFailed, NetworkDown
  <2>3. /\ stackstate' = "NO_NETWORK" /\ faults' \in 0..FaultBound
        /\ appstate' \in {"NO_NETWORK", appstate}
    BY <1>0, <1>9, ScanAssumption DEF JoinFailed, NetworkDown, JoinInv, JoinType
  <2>4. FlagType'
    BY <1>0, <2>1 DEF JoinInv, FlagType, listVars, joinVars
  <2>5. JoinType' /\ TryInv' /\ KnownNetwork'
    BY <1>0, <2>1, <2>3 DEF JoinInv, JoinType, TryInv, KnownNetwork, joinVars
  <2> QED BY <1>6, <2>1, <2>4, <2>5 DEF joinVars
<1>10. CASE UNCHANGED vars
  BY <1>0, <1>10, SameJoin, SameScan, PartsNext DEF vars
<1> QED BY <1>1, <1>2, <1>3, <1>4, <1>5, <1>7, <1>8, <1>9, <1>10, <1>11 DEF Next, Stack

THEOREM BaseInvariant == Spec => []BaseInv
<1>1. BaseInv /\ [Next]_vars => BaseInv'
  BY NextBase
<1> QED BY InitBase, <1>1, PTL DEF Spec

\* Every variable keeps its type, and the ring of channels its room: a channel is only put
\* back into the place it was taken from.
THEOREM TypeCorrect == Spec => []TypeOK
<1>1. BaseInv => TypeOK
  BY DEF BaseInv
<1> QED BY BaseInvariant, <1>1, PTL

\* The time-out that reboots the module is active exactly while it scans.
THEOREM RebootOnlyFromScan == Spec => []WatchedScan
<1>1. BaseInv => WatchedScan
  BY DEF BaseInv
<1> QED BY BaseInvariant, <1>1, PTL

\* A module only joins the network in flash or one that its mask admits.
THEOREM JoinsKnown == Spec => []KnownNetwork
<1>1. BaseInv => KnownNetwork
  BY DEF BaseInv
<1> QED BY BaseInvariant, <1>1, PTL

\* No network is listed twice, however often it is heard: the list grows only with the
\* networks in reach that the mask admits.
THEOREM ListsOnce == Spec => []ListedOnce
<1>1. BaseInv => ListedOnce
  BY DEF BaseInv, ListInv, ListedOnce
<1> QED BY BaseInvariant, <1>1, PTL
-----------------------------------------------------------------------------
(* A scan that has ended has found everything.                             *)

\* No channel of q is lost when the next one is taken.
LEMMA NextKeeps ==
    ASSUME NEW q \in Seq(Channels), NEW b, ScanForNext(q, b), NEW i \in DOMAIN q
    PROVE  currentChannel' = q[i] \/ InRing(q[i])'
<1>1. q # <<>>
  OBVIOUS
<1>2. currentChannel' = Head(q) /\ scanChannel' = Tail(q)
  BY <1>1 DEF ScanForNext
<1>3. q[i] = Head(q) \/ \E j \in DOMAIN Tail(q) : Tail(q)[j] = q[i]
  BY <1>1, TakeHead
<1> QED BY <1>2, <1>3 DEF InRing

\* When the stack is idle it scans the channel that was taken, or nothing.
LEMMA IdleStack ==
    ASSUME NEW q, ScanForNext(q, 0)
    PROVE  air' # 0 => air' = currentChannel'
BY DEF ScanForNext

\* The handler takes no network from the list, unless it starts a scan.
LEMMA HandlerKeeps ==
    ASSUME JoinInv, exceptionHandler, ~Starts, NEW c, Listed(c)
    PROVE  Listed(c)'
<1>1. Kept = networkInfo2 /\ networkInfo2 \in Seq(Nets)
  BY DEF Kept, JoinInv, ListInv
<1>2. networkInfo2' = Kept \/ \E k : networkInfo2' = Marked(Kept, k)
  BY Zenon DEF exceptionHandler, sensorJoinNetwork, OtherState, FirstTry, TryAgain, SearchOn,
               NoScanYet, ScanAgain, TryFoundAgain, TryFound
<1>3. PICK i \in DOMAIN networkInfo2 : networkInfo2[i].channel = c
  BY DEF Listed
<1>4. CASE networkInfo2' = Kept
  BY <1>1, <1>4, <1>3 DEF Listed
<1>5. ASSUME NEW k, networkInfo2' = Marked(networkInfo2, k) PROVE Listed(c)'
  BY <1>1, <1>3, <1>5, MarkOnly DEF Listed
<1> QED BY <1>1, <1>2, <1>4, <1>5

LEMMA HandlerFinds ==
    ASSUME ~Late, BaseInv, FindInv, exceptionHandler
    PROVE  FindInv'
<1>0. JoinInv /\ ScanType /\ RingInv /\ 0 \notin Known /\ Known \subseteq Channels
  BY Parts, KnownType DEF ScanInv
<1>1. CASE Starts /\ scanInitial
  <2>1. air = 0
    BY <1>1 DEF Starts, FindInv
  <2>2. scanStatus' = "DUAL" /\ ScanForNext(ScanOrder, 0)
    BY <1>1, <2>1 DEF scanInitial
  <2>3. ASSUME NEW c \in Known PROVE InRing(c)' \/ currentChannel' = c
    <3>1. PICK i \in DOMAIN ScanOrder : ScanOrder[i] = c
      BY <1>0, ScanAssumption
    <3>2. ScanOrder \in Seq(Channels)
      BY ScanAssumption
    <3> QED BY <2>2, <3>1, <3>2, NextKeeps
  <2> QED BY <2>2, <2>3, IdleStack DEF FindInv, ScanFindsAll
<1>2. CASE scanStatus = "DUAL" /\ Ends
  <2>1. ~Starts /\ readError /\ scanStatus' = "COMPLETE" /\ UNCHANGED queueVars
    BY <1>2 DEF Starts, Ends
  <2>2. scanChannel = <<>> /\ currentChannel = 0
    BY <1>0, <2>1 DEF RingInv
  <2>3. \A c \in Known : Listed(c)
    BY <1>0, <1>2, <2>2 DEF FindInv, InRing
  <2>4. \A c \in Known : Listed(c)'
    BY <1>0, <2>1, <2>3, HandlerKeeps
  <2>5. scanChannel' = <<>> /\ currentChannel' = 0 /\ air' = air
    BY <2>1, <2>2 DEF queueVars
  <2> QED BY <2>1, <2>2, <2>4, <2>5 DEF FindInv, ScanFindsAll, Known
<1>3. CASE scanStatus = "DUAL" /\ GivesUp
  <2> DEFINE q == Append(scanChannel, currentChannel)
  <2>1. air = 0
    BY <1>3, Zenon DEF exceptionHandler, Timely, GivesUp, Stuck
  <2>2. scanStatus' = "DUAL" /\ ScanForNext(q, 0) /\ ~Starts
    BY <1>3, <2>1 DEF GivesUp, Starts
  <2>3. currentChannel \in Channels /\ scanChannel \in Seq(Channels)
    BY <1>0, <1>3 DEF GivesUp, RingInv, ScanType
  <2>4. /\ q \in Seq(Channels) /\ DOMAIN q = 1..Len(scanChannel) + 1 /\ Len(scanChannel) \in Nat
        /\ DOMAIN scanChannel = 1..Len(scanChannel)
        /\ \A i \in 1..Len(scanChannel) : q[i] = scanChannel[i]
        /\ q[Len(scanChannel) + 1] = currentChannel
    BY <2>3
  <2> HIDE DEF q
  <2>6. \A i \in DOMAIN scanChannel : \E j \in DOMAIN q : q[j] = scanChannel[i]
    BY <2>4
  <2>7. \E j \in DOMAIN q : q[j] = currentChannel
    BY <2>4
  <2>5. ASSUME NEW c \in Known PROVE Listed(c)' \/ InRing(c)' \/ currentChannel' = c
    <3>1. CASE Listed(c)
      BY <1>0, <2>2, <3>1, HandlerKeeps
    <3>2. CASE InRing(c) \/ currentChannel = c
      <4>1. PICK j \in DOMAIN q : q[j] = c
        BY <2>6, <2>7, <3>2 DEF InRing
      <4> QED BY <2>2, <2>4, <4>1, NextKeeps
    <3> QED BY <1>3, <3>1, <3>2 DEF FindInv
  <2> QED BY <2>2, <2>5, IdleStack DEF FindInv, ScanFindsAll
<1>4. CASE UNCHANGED <<queueVars, scanStatus>> /\ ~Starts
  <2>1. \A c \in Known : Listed(c) => Listed(c)'
    BY <1>0, <1>4, HandlerKeeps
  <2>2. UNCHANGED <<scanChannel, currentChannel, air, scanStatus>>
    BY <1>4 DEF queueVars
  <2>3. \A c : InRing(c)' <=> InRing(c)
    BY <2>2 DEF InRing
  <2> QED BY <2>1, <2>2, <2>3 DEF FindInv, ScanFindsAll, Known
<1>5. CASE scanStatus = "DUAL" /\ Waits
  <2>1. UNCHANGED <<queueVars, scanStatus>> /\ ~Starts
    BY <1>5 DEF Waits, Starts
  <2> QED BY <1>4, <2>1
<1>6. CASE ~Starts /\ UNCHANGED <<queueVars, watchVars>>
  <2>1. UNCHANGED <<queueVars, scanStatus>> /\ ~Starts
    BY <1>6 DEF watchVars
  <2> QED BY <1>4, <2>1
<1> QED BY <1>1, <1>2, <1>3, <1>5, <1>6 DEF exceptionHandler, scanModule, scanDual

LEMMA NextFinds == ~Late /\ BaseInv /\ FindInv /\ [Next]_vars => FindInv'
<1> SUFFICES ASSUME ~Late, BaseInv, FindInv, [Next]_vars PROVE FindInv'
  OBVIOUS
<1>0. ScanType /\ 0 \notin Known
  BY Parts, KnownType DEF ScanInv
<1>1. CASE exceptionHandler
  BY <1>1, HandlerFinds
<1>2. CASE Boots
  BY <1>2 DEF Boots, ScanFails, scanTimeOutEventHandler, halReboot, FindInv, ScanFindsAll
<1>3. CASE NetworkFound
  <2>1. UNCHANGED <<scanChannel, currentChannel, air, scanStatus>>
    BY <1>3 DEF NetworkFound, queueVars, watchVars
  <2>2. \A c : Listed(c) => Listed(c)'
    <3>1. networkInfo2 \in Seq(Entry)
      BY Parts, KnownType, WiderSeq DEF JoinInv, ListInv
    <3> QED BY <1>3, <3>1 DEF NetworkFound, saveNetwork, Listed
  <2>3. \A c : InRing(c)' <=> InRing(c)
    BY <2>1 DEF InRing
  <2> QED BY <2>1, <2>2, <2>3 DEF FindInv, ScanFindsAll, Known
<1>4. CASE ScanComplete
  <2>1. /\ air # 0 /\ (air \in Known => Listed(air)) /\ ScanForNext(scanChannel, 0)
        /\ scanStatus' = scanStatus /\ networkInfo2' = networkInfo2
    BY <1>4 DEF ScanComplete, listVars, watchVars, Known
  <2>2. air = currentChannel /\ scanStatus = "DUAL"
    BY <2>1 DEF FindInv
  <2>3. ASSUME NEW c \in Known PROVE Listed(c)' \/ InRing(c)' \/ currentChannel' = c
    <3>1. CASE Listed(c)
      BY <2>1, <3>1 DEF Listed
    <3>2. CASE InRing(c)
      <4>1. PICK i \in DOMAIN scanChannel : scanChannel[i] = c
        BY <3>2 DEF InRing
      <4> QED BY <1>0, <2>1, <4>1, NextKeeps DEF ScanType
    <3> QED BY <2>1, <2>2, <3>1, <3>2 DEF FindInv
  <2> QED BY <2>1, <2>2, <2>3, IdleStack DEF FindInv, ScanFindsAll
<1>5. CASE UNCHANGED <<scanChannel, currentChannel, scanStatus, networkInfo2>> /\ air' \in {0, air}
  <2>1. \A c : (InRing(c)' <=> InRing(c)) /\ (Listed(c)' <=> Listed(c))
    BY <1>5 DEF InRing, Listed
  <2> QED BY <1>5, <2>1 DEF FindInv, ScanFindsAll, Known
<1>6. CASE \/ ScanError \/ NetworkUp \/ WrongNetwork \/ InterpanUp \/ JoinFailed
           \/ TooManyFailures \/ NetworkDown \/ UNCHANGED vars
  BY <1>5, <1>6 DEF ScanError, NetworkUp, WrongNetwork, InterpanUp, JoinFailed, TooManyFailures,
                    NetworkDown, vars, listVars, queueVars, watchVars
<1> QED BY <1>1, <1>2, <1>3, <1>4, <1>6 DEF Next, Stack

\* A scan that has ended has heard every network in reach that the mask admits, whatever was
\* refused, failed or given up on the way, if the stack is done with a channel before it is
\* given up.
THEOREM FindsAll ==
    ASSUME ~Late
    PROVE  Spec => []ScanFindsAll
<1>1. Init => FindInv
  BY DEF Init, FindInv, ScanFindsAll
<1>2. BaseInv /\ FindInv /\ [Next]_vars => FindInv'
  BY NextFinds
<1>3. FindInv => ScanFindsAll
  BY DEF FindInv
<1> QED BY BaseInvariant, <1>1, <1>2, <1>3, PTL DEF Spec
-----------------------------------------------------------------------------
(* The module in its network.                                              *)

net == <<stackstate, appstate, action, OnInterpan>>

\* A try to join is taken or refused by the stack, as it scans or does not.
LEMMA JoinOrNot ==
    ASSUME stackstate = "NO_NETWORK", NEW c, Join(c)
    PROVE  N!Join \/ UNCHANGED net
  BY DEF Join, N!Join, net, OnInterpan

LEMMA SearchInNetwork ==
    ASSUME stackstate = "NO_NETWORK", sensorJoinNetwork
    PROVE  N!Join \/ UNCHANGED net
<1>1. CASE FirstTry
  BY <1>1, JoinOrNot DEF FirstTry, netVars, net, OnInterpan
<1>2. CASE TryAgain
  BY <1>2, JoinOrNot DEF TryAgain
<1>3. CASE SearchOn
  <2>1. CASE NoScanYet \/ ScanAgain
    BY <2>1 DEF NoScanYet, ScanAgain, NoJoin, netVars, net, OnInterpan
  <2>2. CASE TryFoundAgain \/ TryFound
    BY <2>2, JoinOrNot DEF TryFoundAgain, TryFound
  <2> QED
    BY <1>3, <2>1, <2>2 DEF SearchOn
<1> QED
  BY <1>1, <1>2, <1>3 DEF sensorJoinNetwork

\* What a handler of the search does to the network is one step of Network or none.
LEMMA ScanNetworkStep ==
    ASSUME [Next]_vars
    PROVE  [N!Next]_net
<1> USE DEF N!Next, OnInterpan
<1>1. CASE exceptionHandler
  <2>1. CASE stackstate = "NO_NETWORK" /\ sensorJoinNetwork
    BY <2>1, SearchInNetwork
  <2>2. CASE OtherState
    BY <2>2 DEF OtherState, N!Leave, netVars, joinVars, net
  <2> QED
    BY <1>1, <2>1, <2>2 DEF exceptionHandler
<1>2. CASE Boots
  BY <1>2 DEF Boots, ScanFails, scanTimeOutEventHandler, halReboot, N!Restart
<1>3. CASE NetworkFound \/ ScanComplete \/ ScanError \/ UNCHANGED vars
  BY <1>3 DEF NetworkFound, ScanComplete, ScanError, netVars, joinVars, vars, net
<1>4. CASE NetworkUp
  BY <1>4 DEF NetworkUp, N!Up
<1>9. CASE InterpanUp
  BY <1>9 DEF InterpanUp, N!Strand, joinVars
<1>5. CASE WrongNetwork
  BY <1>5 DEF WrongNetwork, N!Wrong, joinVars
<1>6. CASE JoinFailed
  BY <1>6 DEF JoinFailed, N!Fail
<1>7. CASE TooManyFailures
  BY <1>7 DEF TooManyFailures, N!GiveUp, joinVars
<1>8. CASE NetworkDown
  BY <1>8 DEF NetworkDown, N!Down
<1> QED
  BY <1>1, <1>2, <1>3, <1>4, <1>5, <1>6, <1>7, <1>8, <1>9 DEF Next, Stack

\* The search, its reboots included, is what Network calls joining: what Outbox takes as
\* one step is the same life in the network (sensor.c:221-352, exception.c:83-98).
THEOREM ScanImplementsNetwork == Spec => NetworkSpec
<1>1. Init => N!Init
  BY DEF Init, N!Init, OnInterpan
<1>2. [Next]_vars => [N!Next]_net
  BY ScanNetworkStep
<1> QED
  BY <1>1, <1>2, PTL DEF Spec, NetworkSpec, N!Spec, net, N!net, OnInterpan
=============================================================================
