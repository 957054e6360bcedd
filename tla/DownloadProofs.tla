--------------------------- MODULE DownloadProofs ---------------------------
(* Theorems of Download, for every set of cars, addresses and tables.        *)
EXTENDS Download, SequenceTheorems, FiniteSetTheorems, TLAPS

\* What is on its way to a car is a part of a table of this car, in its place.
PartOK(f) ==
    f.cmd = "ROUTE" =>
       /\ Fits(f.car, f.index + Len(f.rows))
       /\ \A k \in 1..Len(f.rows) : Own(f.car, f.index + k - 1, f.rows[k])

LineOK(c, line, n) == \A i \in 0..n-1 : Own(c, i, line[i])

\* A message that failed can be queued again: there is one that was taken last.
Taken == (\E b \in 1..AirBound : air[b] # NoMsg) => curmsg # NoMsg

TypeInv == TypeOK /\ Taken

\* The record of car c in memory m names c and holds a part of a table of c.
RecordOK(m, c) ==
    /\ m[Place[c]].id = c /\ m[Place[c]].action <= MAXPATH /\ Fits(c, m[Place[c]].action)
    /\ \A i \in 0..MAXPATH-1 : Own(c, i, m[At(c, i)])
RecordsOK(m) == \A c \in Cars : RecordOK(m, c)

SerialOK == \A n \in 1..Len(serial) : PartOK(serial[n])
SendOK   == \A n \in 1..Len(send1) : PartOK(send1[n])
AirOK    == /\ curmsg # NoMsg => PartOK(curmsg)
            /\ \A b \in 1..AirBound : air[b] # NoMsg => PartOK(air[b])
CarsOK   == \A c \in Cars : /\ Fits(c, car[c].count) /\ LineOK(c, car[c].line, CARPATH)
                            /\ LineOK(c, home[c], HOMESIZE)
AllOK    == RecordsOK(mem) /\ SerialOK /\ SendOK /\ AirOK /\ CarsOK
RowsInv  == ~beyond => AllOK
-----------------------------------------------------------------------------
(* The helpers.                                                              *)

LEMMA NoRow ==
    ASSUME NEW c, NEW i PROVE Own(c, i, Blank) /\ Fits(c, 0)
  BY DEF Own, Fits

LEMMA FunctionSeq ==
    ASSUME NEW n \in Nat, NEW S, NEW f \in [1..n -> S]
    PROVE  f \in Seq(S) /\ Len(f) = n
<1>1. f \in Seq(S)
  BY SeqDef
<1>2. DOMAIN f = 1..n /\ DOMAIN f = 1..Len(f) /\ Len(f) \in Nat
  BY <1>1, LenProperties
<1> QED
  BY <1>1, <1>2

\* A part written into a line.
LEMMA CopiedType ==
    ASSUME NEW n \in Nat, NEW line \in [0..n-1 -> Row0], NEW index \in Nat,
           NEW part \in Seq(Row0)
    PROVE  /\ Copied(line, index, part) \in [0..n-1 -> Row0]
           /\ \A i \in 0..n-1 : Copied(line, index, part)[i] =
                 IF i \in index..index+Len(part)-1 THEN part[i-index+1] ELSE line[i]
<1>1. \A i \in 0..n-1 : i \in index..index+Len(part)-1 => part[i-index+1] \in Row0
  BY LenProperties, ElementOfSeq
<1> QED
  BY <1>1 DEF Copied

LEMMA CopiedRows ==
    ASSUME NEW n \in Nat, NEW line \in [0..n-1 -> Row0], NEW index \in Nat,
           NEW part \in Seq(Row0), NEW c, LineOK(c, line, n),
           \A k \in 1..Len(part) : Own(c, index + k - 1, part[k])
    PROVE  LineOK(c, Copied(line, index, part), n)
<1> SUFFICES ASSUME NEW i \in 0..n-1 PROVE Own(c, i, Copied(line, index, part)[i])
  BY DEF LineOK
<1>1. CASE i \in index..index+Len(part)-1
  <2>1. i - index + 1 \in 1..Len(part) /\ index + (i - index + 1) - 1 = i
    BY <1>1, LenProperties
  <2>2. Own(c, i, part[i-index+1])
    BY <2>1
  <2> QED
    BY <1>1, <2>2, CopiedType
<1>2. CASE i \notin index..index+Len(part)-1
  BY <1>2, CopiedType DEF LineOK
<1> QED
  BY <1>1, <1>2

Mem == [0..MEMSIZE-1 -> Row0]

LEMMA EmptyType ==
    /\ EmptyRoute \in [count : 0..CARPATH, line : [0..CARPATH-1 -> Row0]]
    /\ NoHome \in [0..HOMESIZE-1 -> Row0]
    /\ Blank \in Row0
  BY DownloadAssumption DEF EmptyRoute, NoHome, Row0, Blank, Byte

LEMMA EmptyRows ==
    ASSUME NEW c
    PROVE  /\ Fits(c, EmptyRoute.count) /\ LineOK(c, EmptyRoute.line, CARPATH)
           /\ LineOK(c, NoHome, HOMESIZE)
  BY NoRow DEF EmptyRoute, NoHome, LineOK

LEMMA RowType ==
    ASSUME NEW r \in Row0 PROVE r.id \in Byte /\ r.action \in Byte /\ r.action \in Nat
  BY DEF Row0, Byte

LEMMA BlankRow == ~There(Blank)
  BY DEF There, Blank

LEMMA Modulo ==
    ASSUME NEW a \in Nat, NEW b \in Nat \ {0}
    PROVE  a % b \in 0..b-1 /\ (a < b => a % b = a)
  OBVIOUS

\* Where a record lies, and that no other lies there.
LEMMA Places ==
    ASSUME NEW c \in Cars
    PROVE  /\ Place[c] \in 0..MEMSIZE-1 /\ MEMSIZE \in Nat /\ MAXPATH \in Nat
           /\ CNTSIZE \in Nat \ {0} /\ CNTSIZE <= 256 /\ MAXPATH < CNTSIZE
           /\ \A i \in 0..CNTSIZE-2 : At(c, i) \in 0..MEMSIZE-1
           /\ \A d \in Cars \ {c} : \A i \in 0..MAXPATH-1 :
                 /\ Place[d] # Place[c] /\ At(d, i) # Place[c]
                 /\ Place[d] \notin At(c, 0)..At(c, MAXPATH-1)
                 /\ At(d, i) \notin At(c, 0)..At(c, MAXPATH-1)
<1>1. /\ MAXPATH \in Nat /\ CNTSIZE \in 1..256 /\ MAXPATH < CNTSIZE /\ MEMSIZE \in Nat
      /\ Place[c] \in Nat /\ Place[c] + CNTSIZE <= MEMSIZE
  BY DownloadAssumption
<1>2. \A i \in 0..CNTSIZE-2 : At(c, i) \in 0..MEMSIZE-1
  BY <1>1 DEF At
<1>3. ASSUME NEW d \in Cars \ {c}, NEW i \in 0..MAXPATH-1
      PROVE  /\ Place[d] # Place[c] /\ At(d, i) # Place[c]
             /\ Place[d] \notin At(c, 0)..At(c, MAXPATH-1)
             /\ At(d, i) \notin At(c, 0)..At(c, MAXPATH-1)
  <2>1. Place[d] \in Nat /\ (Place[c] + MAXPATH < Place[d] \/ Place[d] + MAXPATH < Place[c])
    BY DownloadAssumption
  <2> QED
    BY <1>1, <2>1 DEF At
<1> QED
  BY <1>1, <1>2, <1>3

LEMMA ClearedType ==
    ASSUME NEW m \in Mem, NEW c \in Cars PROVE Cleared(m, c) \in Mem
<1> DEFINE found == {d \in Cars : m[Place[d]].id = c}
           d == CHOOSE d \in found : \A e \in found : Place[d] <= Place[e]
           r == [x \in DOMAIN m |-> IF x = Place[d] THEN [id |-> c, action |-> 0]
                                    ELSE IF x \in At(d, 0)..At(d, MAXPATH-1) THEN Blank ELSE m[x]]
<1>1. [id |-> c, action |-> 0] \in Row0 /\ Blank \in Row0
  BY EmptyType, DownloadAssumption DEF Row0, Byte
<1>2. r \in Mem
  BY <1>1 DEF Mem
<1>3. Cleared(m, c) = IF found = {} THEN m ELSE r
  BY DEF Cleared
<1> QED
  BY <1>2, <1>3

LEMMA ClearedRecords ==
    ASSUME NEW m \in Mem, RecordsOK(m), NEW c \in Cars PROVE RecordsOK(Cleared(m, c))
<1> DEFINE found == {d \in Cars : m[Place[d]].id = c}
           r(d) == [x \in DOMAIN m |-> IF x = Place[d] THEN [id |-> c, action |-> 0]
                                    ELSE IF x \in At(d, 0)..At(d, MAXPATH-1) THEN Blank ELSE m[x]]
<1>1. found = {c}
  BY DEF RecordsOK, RecordOK
<1>2. (CHOOSE d \in found : \A e \in found : Place[d] <= Place[e]) = c
  <2>1. Place[c] <= Place[c]
    BY Places
  <2> QED
    BY <1>1, <2>1
<1>3. Cleared(m, c) = r(c)
  BY <1>1, <1>2 DEF Cleared
<1>4. DOMAIN m = 0..MEMSIZE-1
  BY DEF Mem
<1>5. RecordOK(r(c), c)
  <2>1. r(c)[Place[c]] = [id |-> c, action |-> 0]
    BY <1>4, Places
  <2>2. \A i \in 0..MAXPATH-1 : At(c, i) \in At(c, 0)..At(c, MAXPATH-1) /\ At(c, i) # Place[c]
                               /\ At(c, i) \in 0..MEMSIZE-1
    BY Places DEF At
  <2>3. \A i \in 0..MAXPATH-1 : r(c)[At(c, i)] = Blank
    BY <1>4, <2>2
  <2> HIDE DEF r
  <2> QED
    BY <2>1, <2>3, NoRow, Places DEF RecordOK
<1>6. ASSUME NEW d \in Cars \ {c} PROVE RecordOK(r(c), d)
  <2>1. MAXPATH \in Nat /\ Place[d] \in 0..MEMSIZE-1 /\ \A i \in 0..MAXPATH-1 : At(d, i) \in 0..MEMSIZE-1
    BY Places
  <2>2. Place[d] # Place[c] /\ Place[d] \notin At(c, 0)..At(c, MAXPATH-1)
    <3>1. Place[d] \in Nat /\ Place[c] \in Nat
          /\ (Place[c] + MAXPATH < Place[d] \/ Place[d] + MAXPATH < Place[c])
      BY DownloadAssumption
    <3> QED
      BY <2>1, <3>1 DEF At
  <2>3. r(c)[Place[d]] = m[Place[d]]
    BY <1>4, <2>1, <2>2
  <2>4. \A i \in 0..MAXPATH-1 : r(c)[At(d, i)] = m[At(d, i)]
    BY <1>4, <2>1, Places
  <2> HIDE DEF r
  <2> QED
    BY <2>3, <2>4 DEF RecordsOK, RecordOK
<1> HIDE DEF r
<1> QED
  BY <1>3, <1>5, <1>6 DEF RecordsOK

\* Memory a is m, but for the count of c and the part written into its record.
Elsewhere(a, m, c, index, part) ==
    \A x \in 0..MEMSIZE-1 : x # Place[c] =>
       a[x] = IF x \in At(c, index)..At(c, index)+Len(part)-1
              THEN part[x-At(c, index)+1] ELSE m[x]

LEMMA AddedType ==
    ASSUME NEW m \in Mem, NEW c \in Cars, NEW index \in Nat, NEW part \in Seq(Row0)
    PROVE  /\ Added(m, c, index, part) \in Mem
           /\ Added(m, c, index, part)[Place[c]] =
                 [id |-> m[Place[c]].id, action |-> (index + Len(part)) % CNTSIZE]
           /\ Elsewhere(Added(m, c, index, part), m, c, index, part)
<1> DEFINE n == (index + Len(part)) % CNTSIZE
           k == Copied(m, At(c, index), part)
<1>1. At(c, index) \in Nat /\ At(c, index) > Place[c] /\ Len(part) \in Nat
  BY Places, LenProperties DEF At
<1>2. n \in Byte
  <2>1. index + Len(part) \in Nat /\ CNTSIZE \in Nat \ {0} /\ CNTSIZE <= 256
    BY <1>1, Places
  <2>2. n \in 0..CNTSIZE-1
    BY <2>1, Modulo
  <2> HIDE DEF n
  <2> QED
    BY <2>1, <2>2 DEF Byte
<1>3. /\ k \in Mem
      /\ \A x \in 0..MEMSIZE-1 : k[x] =
            IF x \in At(c, index)..At(c, index)+Len(part)-1 THEN part[x-At(c, index)+1] ELSE m[x]
  BY <1>1, Places, CopiedType DEF Mem
<1>4. k[Place[c]] = m[Place[c]] /\ m[Place[c]] \in Row0
  BY <1>1, <1>3, Places DEF Mem
<1>5. Added(m, c, index, part) = [k EXCEPT ![Place[c]].action = n]
  BY DEF Added
<1> HIDE DEF k, n
<1>6. /\ [k EXCEPT ![Place[c]].action = n] \in Mem
      /\ [k EXCEPT ![Place[c]].action = n][Place[c]] = [id |-> m[Place[c]].id, action |-> n]
      /\ \A x \in 0..MEMSIZE-1 : x # Place[c] => [k EXCEPT ![Place[c]].action = n][x] = k[x]
  BY <1>2, <1>3, <1>4, Places DEF Mem, Row0
<1> QED
  BY <1>3, <1>5, <1>6 DEF n, Elsewhere

LEMMA AddedRecords ==
    ASSUME NEW m \in Mem, RecordsOK(m), NEW c \in Cars, NEW index \in Nat, NEW part \in Seq(Row0),
           index + Len(part) <= MAXPATH, Fits(c, index + Len(part)),
           \A k \in 1..Len(part) : Own(c, index + k - 1, part[k])
    PROVE  RecordsOK(Added(m, c, index, part))
<1> DEFINE a == Added(m, c, index, part)
<1>0. /\ Len(part) \in Nat /\ index + Len(part) \in Nat /\ MAXPATH \in Nat
      /\ (index + Len(part)) % CNTSIZE = index + Len(part)
  <2>1. Len(part) \in Nat /\ index + Len(part) \in Nat
    BY LenProperties
  <2>2. MAXPATH \in Nat /\ CNTSIZE \in Nat \ {0} /\ MAXPATH < CNTSIZE
    BY Places
  <2>3. index + Len(part) < CNTSIZE
    BY <2>1, <2>2
  <2> QED
    BY <2>1, <2>2, <2>3, Modulo
<1>1. a[Place[c]] = [id |-> m[Place[c]].id, action |-> index + Len(part)]
  BY <1>0, AddedType
<1>6. Elsewhere(a, m, c, index, part)
  BY AddedType
<1>2. \A x \in 0..MEMSIZE-1 : x # Place[c] =>
         a[x] = IF x \in At(c, index)..At(c, index)+Len(part)-1
                THEN part[x-At(c, index)+1] ELSE m[x]
  <2> HIDE DEF a
  <2> QED
    BY <1>6 DEF Elsewhere
<1>5. Place[c] \in Nat
  BY DownloadAssumption
<1> HIDE DEF a
<1>3. RecordOK(a, c)
  <2>1. ASSUME NEW i \in 0..MAXPATH-1 PROVE Own(c, i, a[At(c, i)])
    <3>1. At(c, i) \in 0..MEMSIZE-1 /\ At(c, i) # Place[c]
      BY Places DEF At
    <3>2. CASE i \in index..index+Len(part)-1
      <4>1. i - index + 1 \in 1..Len(part) /\ index + (i - index + 1) - 1 = i
        BY <1>0, <3>2
      <4>2. /\ At(c, i) \in At(c, index)..At(c, index)+Len(part)-1
            /\ At(c, i) - At(c, index) + 1 = i - index + 1
        BY <1>0, <1>5, <3>2 DEF At
      <4>3. Own(c, i, part[i-index+1])
        BY <4>1
      <4> QED
        BY <1>2, <3>1, <4>2, <4>3
    <3>3. CASE i \notin index..index+Len(part)-1
      <4>1. At(c, i) \notin At(c, index)..At(c, index)+Len(part)-1
        BY <1>0, <1>5, <3>3 DEF At
      <4> QED
        BY <1>2, <3>1, <4>1 DEF RecordsOK, RecordOK
    <3> QED
      BY <3>2, <3>3
  <2> QED
    BY <1>1, <2>1 DEF RecordsOK, RecordOK
<1>4. ASSUME NEW d \in Cars \ {c} PROVE RecordOK(a, d)
  <2>1. /\ Place[d] \in 0..MEMSIZE-1 /\ \A i \in 0..MAXPATH-1 : At(d, i) \in 0..MEMSIZE-1
        /\ Place[c] \in Nat /\ Place[d] \in Nat
    BY Places, DownloadAssumption
  <2>2. (Place[c] + MAXPATH < Place[d] \/ Place[d] + MAXPATH < Place[c])
    BY DownloadAssumption
  <2>5. index + Len(part) <= MAXPATH
    OBVIOUS
  <2>6. Place[d] # Place[c] /\ Place[d] \notin At(c, index)..At(c, index)+Len(part)-1
    BY <1>0, <2>1, <2>2, <2>5 DEF At
  <2>7. ASSUME NEW i \in 0..MAXPATH-1
        PROVE  At(d, i) # Place[c] /\ At(d, i) \notin At(c, index)..At(c, index)+Len(part)-1
    <3>1. i \in Nat /\ i < MAXPATH /\ index \in Nat
      BY <1>0
    <3>2. CASE Place[c] + MAXPATH < Place[d]
      BY <1>0, <2>1, <2>5, <3>1, <3>2 DEF At
    <3>3. CASE Place[d] + MAXPATH < Place[c]
      BY <1>0, <2>1, <2>5, <3>1, <3>3 DEF At
    <3> QED
      BY <2>2, <3>2, <3>3
  <2>3. /\ Place[d] # Place[c] /\ Place[d] \notin At(c, index)..At(c, index)+Len(part)-1
        /\ \A i \in 0..MAXPATH-1 : At(d, i) # Place[c]
                                   /\ At(d, i) \notin At(c, index)..At(c, index)+Len(part)-1
    BY <2>6, <2>7
  <2>4. a[Place[d]] = m[Place[d]] /\ \A i \in 0..MAXPATH-1 : a[At(d, i)] = m[At(d, i)]
    BY <1>2, <2>1, <2>3
  <2> QED
    BY <2>4 DEF RecordsOK, RecordOK
<1> QED
  BY <1>3, <1>4 DEF RecordsOK, a

LEMMA FreshOK == Fresh \in Mem /\ RecordsOK(Fresh)
<1>1. ASSUME NEW c \in Cars
      PROVE  /\ Fresh[Place[c]] = [id |-> c, action |-> 0]
             /\ \A i \in 0..MAXPATH-1 : Fresh[At(c, i)] = Blank
  <2>1. ASSUME NEW d \in Cars, Place[d] = Place[c] PROVE d = c
    BY <2>1, DownloadAssumption
  <2>2. (CHOOSE d \in Cars : Place[d] = Place[c]) = c
    BY <2>1
  <2>3. Fresh[Place[c]] = [id |-> c, action |-> 0]
    BY <2>2, Places DEF Fresh
  <2>4. ASSUME NEW i \in 0..MAXPATH-1, NEW d \in Cars PROVE Place[d] # At(c, i)
    <3>1. Place[c] \in Nat /\ Place[d] \in Nat /\ MAXPATH \in Nat
      BY DownloadAssumption
    <3>2. d = c \/ Place[c] + MAXPATH < Place[d] \/ Place[d] + MAXPATH < Place[c]
      BY DownloadAssumption
    <3> QED
      BY <3>1, <3>2 DEF At
  <2>5. \A i \in 0..MAXPATH-1 : At(c, i) \in 0..MEMSIZE-1
    BY Places
  <2> QED
    BY <2>3, <2>4, <2>5 DEF Fresh
<1>2. Fresh \in Mem
  <2>1. ASSUME NEW x \in 0..MEMSIZE-1, \E c \in Cars : Place[c] = x
        PROVE  [id |-> CHOOSE c \in Cars : Place[c] = x, action |-> 0] \in Row0
    <3>1. (CHOOSE c \in Cars : Place[c] = x) \in Byte
      BY <2>1, DownloadAssumption
    <3> QED
      BY <3>1 DEF Row0, Byte
  <2> QED
    BY <2>1, EmptyType DEF Fresh, Mem
<1>3. ASSUME NEW c \in Cars PROVE RecordOK(Fresh, c)
  <2>1. MAXPATH \in Nat /\ Fits(c, 0) /\ \A i \in 0..MAXPATH-1 : Own(c, i, Blank)
    BY NoRow, DownloadAssumption
  <2>4. Fresh[Place[c]] = [id |-> c, action |-> 0]
    BY <1>1
  <2>2. Fresh[Place[c]].id = c /\ Fresh[Place[c]].action = 0
    BY <2>4
  <2>3. \A i \in 0..MAXPATH-1 : Own(c, i, Fresh[At(c, i)])
    BY <1>1, <2>1
  <2> QED
    BY <2>1, <2>2, <2>3 DEF RecordOK
<1> QED
  BY <1>2, <1>3 DEF RecordsOK

\* The queue.
LEMMA QueueSend ==
    ASSUME TypeOK, NEW m \in Msg, Ring!Send(m)
    PROVE  /\ send1' \in Seq(Msg) /\ curmsg' \in {curmsg, m}
           /\ curmsg' = NoMsg <=> curmsg = NoMsg
           /\ Len(send1') <= Len(send1) + 1
           /\ SendOK /\ PartOK(m) => SendOK'
<1>0. send1 \in Seq(Msg) /\ Len(send1) \in Nat /\ m # NoMsg
  BY DownloadAssumption, LenProperties DEF TypeOK
<1>1. CASE Ring!Put(m)
  <2>1. send1' = Append(send1, m) /\ curmsg' = curmsg
    BY <1>1 DEF Ring!Put
  <2>2. /\ Len(send1') = Len(send1) + 1 /\ send1' \in Seq(Msg)
        /\ \A n \in 1..Len(send1) : send1'[n] = send1[n]
        /\ send1'[Len(send1) + 1] = m
    BY <1>0, <2>1, AppendProperties
  <2>3. ASSUME SendOK, PartOK(m), NEW n \in 1..Len(send1') PROVE PartOK(send1'[n])
    <3>1. CASE n = Len(send1) + 1
      BY <2>2, <2>3, <3>1
    <3>2. CASE n \in 1..Len(send1)
      BY <2>2, <2>3, <3>2 DEF SendOK
    <3> QED
      BY <1>0, <2>2, <3>1, <3>2
  <2> QED
    BY <1>0, <2>1, <2>2, <2>3 DEF SendOK
<1>2. CASE Ring!Overrun(m)
  <2>1. send1' = <<>> /\ curmsg' = IF curmsg = NoMsg THEN NoMsg ELSE m
    BY <1>2 DEF Ring!Overrun
  <2>2. send1' \in Seq(Msg) /\ Len(send1') = 0
    BY <2>1, EmptySeq
  <2>3. SendOK'
    BY <2>2 DEF SendOK
  <2> QED
    BY <1>0, <2>1, <2>2, <2>3
<1> QED
  BY <1>1, <1>2 DEF Ring!Send

LEMMA QueueGet ==
    ASSUME TypeOK, Ring!Get
    PROVE  /\ send1' \in Seq(Msg) /\ curmsg' \in Msg /\ curmsg' # NoMsg
           /\ SendOK => SendOK' /\ PartOK(curmsg')
<1>1. send1 \in Seq(Msg) /\ send1 # <<>> /\ send1' = Tail(send1) /\ curmsg' = Head(send1)
  BY DEF Ring!Get, TypeOK
<1>2. /\ Head(send1) \in Msg /\ Head(send1) = send1[1] /\ Tail(send1) \in Seq(Msg)
      /\ Len(send1) \in Nat /\ Len(send1) >= 1
      /\ Len(Tail(send1)) = Len(send1) - 1
      /\ \A n \in 1..Len(Tail(send1)) : Tail(send1)[n] = send1[n+1]
  BY <1>1, HeadTailProperties, LenProperties, EmptySeq
<1>3. ASSUME SendOK PROVE SendOK' /\ PartOK(curmsg')
  <2>1. 1 \in 1..Len(send1) /\ \A n \in 1..Len(send1') : n + 1 \in 1..Len(send1)
    BY <1>1, <1>2
  <2>2. \A n \in 1..Len(send1') : PartOK(send1'[n])
    BY <1>1, <1>2, <1>3, <2>1 DEF SendOK
  <2> QED
    BY <1>1, <1>2, <1>3, <2>1, <2>2 DEF SendOK
<1> QED
  BY <1>1, <1>2, <1>3, DownloadAssumption
-----------------------------------------------------------------------------
(* Types.                                                                    *)

\* A part of a given table.
LEMMA PartOfTable ==
    ASSUME NEW c \in Cars, NEW t \in Given[c], NEW index \in 0..Len(t)-1,
           NEW last \in index+1..Len(t)
    PROVE  /\ SubSeq(t, index + 1, last) \in Seq(Row0)
           /\ index \in Nat /\ last \in Nat
           /\ index + Len(SubSeq(t, index + 1, last)) = last
           /\ Fits(c, last)
           /\ \A k \in 1..Len(SubSeq(t, index + 1, last)) :
                 Own(c, index + k - 1, SubSeq(t, index + 1, last)[k])
<1>0. Rows \subseteq Row0
  BY DownloadAssumption DEF Row0, Byte
<1>1. t \in Seq(Rows) /\ t \in Seq(Row0) /\ Len(t) \in Nat
  BY <1>0, DownloadAssumption, LenProperties
<1>2. index \in Nat /\ last \in Nat /\ index + 1 \in 1..Len(t) /\ last \in 1..Len(t)
  BY <1>1
<1>3. \A i \in index+1..last : i \in 1..Len(t) /\ t[i] \in Row0
  BY <1>1, <1>2, ElementOfSeq
<1>4. /\ SubSeq(t, index + 1, last) \in Seq(Row0)
      /\ Len(SubSeq(t, index + 1, last)) = last - index
      /\ \A k \in 1..last-index : SubSeq(t, index + 1, last)[k] = t[index + k]
  BY <1>1, <1>2, <1>3, SubSeqProperties
<1>5. ASSUME NEW k \in 1..last-index PROVE Own(c, index + k - 1, t[index + k])
  BY <1>1, <1>2 DEF Own
<1>6. Fits(c, last)
  BY <1>2 DEF Fits
<1>7. index + (last - index) = last
  BY <1>2
<1>8. \A k \in 1..last-index : Own(c, index + k - 1, SubSeq(t, index + 1, last)[k])
  BY <1>4, <1>5
<1> QED
  BY <1>2, <1>4, <1>6, <1>7, <1>8

LEMMA AddType ==
    ASSUME TypeOK, NEW c \in Cars, NEW index \in Nat, NEW part \in Seq(Row0),
           sea_routeadd(c, index, part)
    PROVE  mem' \in Mem /\ beyond' \in BOOLEAN
<1> DEFINE m == IF index = 0 THEN Cleared(mem, c) ELSE mem
<1>1. m \in Mem
  BY ClearedType DEF TypeOK, Mem
<1>2. mem' = Added(m, c, index, part) /\ beyond' \in BOOLEAN
  BY DEF sea_routeadd, TypeOK
<1> HIDE DEF m
<1> QED
  BY <1>1, <1>2, AddedType

\* The record of a part that is sent.
LEMMA SentPart ==
    ASSUME TypeOK, w108 # Idle, w108.i < Cnt(w108.car), NEW size, NEW part,
           size = IF Cnt(w108.car) < RTSENDSIZE + w108.i
                  THEN Cnt(w108.car) - w108.i ELSE w108.size,
           part = [k \in 1..size |-> mem[At(w108.car, w108.i+k-1)]]
    PROVE  /\ w108.car \in Cars /\ w108.i \in 0..CNTSIZE /\ Num(w108.car) \in Byte
           /\ size \in 1..RTSENDSIZE /\ w108.i + size \in 0..Cnt(w108.car)
           /\ Cnt(w108.car) \in 0..CNTSIZE-1
           /\ part \in Seq(Row0) /\ Len(part) = size
           /\ \A k \in 1..size : w108.i + k - 1 \in 0..Cnt(w108.car)-1
<1> DEFINE c == w108.car
           cnt == Cnt(w108.car)
<1>1. /\ w108 \in [at : {"send"}, car : Cars, i : 0..CNTSIZE, size : 1..RTSENDSIZE]
      /\ mem \in Mem /\ RTSENDSIZE \in Nat
  BY DownloadAssumption DEF TypeOK, Mem
<1>2. c \in Cars /\ mem[Place[c]] \in Row0 /\ CNTSIZE \in Nat \ {0}
  BY <1>1, Places DEF Mem
<1>3. Num(c) \in Byte /\ cnt \in 0..CNTSIZE-1
  <2>1. mem[Place[c]].action \in Nat /\ mem[Place[c]].id \in Byte
    BY <1>2, RowType
  <2>2. mem[Place[c]].action % CNTSIZE \in 0..CNTSIZE-1
    BY <1>2, <2>1, Modulo
  <2> QED
    BY <2>1, <2>2 DEF Num, Cnt
<1> HIDE DEF cnt
<1>4. size \in 1..RTSENDSIZE /\ w108.i + size \in 0..cnt /\ size \in Nat
  BY <1>1, <1>3 DEF cnt
<1>5. \A k \in 1..size : w108.i + k - 1 \in 0..cnt-1
  <2> DEFINE i == w108.i
  <2>1. i \in Nat /\ i + size \in Nat /\ i + size <= cnt /\ cnt \in Nat
    BY <1>1, <1>3, <1>4
  <2> HIDE DEF i
  <2>2. \A k \in 1..size : i + k - 1 \in 0..cnt-1
    BY <1>4, <2>1
  <2> QED
    BY <2>2 DEF i
<1>6. \A i \in 0..cnt-1 : At(c, i) \in 0..MEMSIZE-1
  BY <1>2, <1>3, Places
<1>7. part \in [1..size -> Row0]
  <2>1. \A k \in 1..size : mem[At(c, w108.i+k-1)] \in Row0
    BY <1>1, <1>5, <1>6 DEF Mem
  <2> QED
    BY <2>1
<1>8. part \in Seq(Row0) /\ Len(part) = size
  BY <1>4, <1>7, FunctionSeq
<1> QED
  BY <1>1, <1>3, <1>4, <1>5, <1>8 DEF cnt

LEMMA PutType ==
    ASSUME TypeOK, NEW f \in Frame, PutFrame(f)
    PROVE  serial' \in Seq(Frame) /\ puts' \in 0..PutBound
<1>1. serial \in Seq(Frame) /\ puts \in 0..PutBound /\ PutBound \in Nat
  BY DownloadAssumption DEF TypeOK
<1>2. serial' = Append(serial, f) /\ puts < PutBound /\ puts' = puts + 1
  BY DEF PutFrame
<1>3. Append(serial, f) \in Seq(Frame)
  BY <1>1, AppendProperties
<1> QED
  BY <1>1, <1>2, <1>3

LEMMA ServerType ==
    ASSUME TypeInv, Server PROVE TypeInv'
<1>1. TypeOK
  BY DEF TypeInv
<1>2. ASSUME NEW c \in Cars, PcTable(c) PROVE TypeInv'
  <2>1. PICK t \in Given[c] : \E index \in 0..Len(t)-1 : \E last \in index+1..Len(t) :
          sea_routeadd(c, index, SubSeq(t, index + 1, last))
    BY <1>2 DEF PcTable
  <2>2. PICK index \in 0..Len(t)-1 : \E last \in index+1..Len(t) :
          sea_routeadd(c, index, SubSeq(t, index + 1, last))
    BY <2>1
  <2>4. PICK last \in index+1..Len(t) : sea_routeadd(c, index, SubSeq(t, index + 1, last))
    BY <2>2
  <2>3. mem' \in Mem /\ beyond' \in BOOLEAN
    <3> DEFINE part == SubSeq(t, index + 1, last)
    <3>0. part \in Seq(Row0) /\ index \in Nat
      BY PartOfTable
    <3>2. sea_routeadd(c, index, part)
      BY <2>4
    <3> HIDE DEF part
    <3> QED
      BY <1>1, <3>0, <3>2, AddType
  <2> QED
    BY <1>2, <2>3 DEF PcTable, TypeInv, TypeOK, Taken, Mem, coordinator, cars
<1>3. ASSUME NEW c \in Cars, sea_routeclear(c) PROVE TypeInv'
  <2>1. mem' \in Mem
    BY <1>1, <1>3, ClearedType DEF sea_routeclear, TypeOK, Mem
  <2> QED
    BY <1>3, <2>1 DEF sea_routeclear, TypeInv, TypeOK, Taken, Mem, coordinator, cars
<1>4. ASSUME NEW c \in Cars, SendRoute(c) PROVE TypeInv'
  BY <1>4, DownloadAssumption DEF SendRoute, TypeInv, TypeOK, Taken, coordinator, cars
<1>5. CASE SendPart
  <2> DEFINE size == IF Cnt(w108.car) < RTSENDSIZE + w108.i
                     THEN Cnt(w108.car) - w108.i ELSE w108.size
             part == [k \in 1..size |-> mem[At(w108.car, w108.i+k-1)]]
             f    == [cmd |-> "ROUTE", car |-> Num(w108.car), index |-> w108.i, rows |-> part]
  <2>1. w108 # Idle /\ w108.i < Cnt(w108.car) /\ PutFrame(f)
        /\ w108' = [w108 EXCEPT !.i = @ + size, !.size = size]
        /\ UNCHANGED <<mem, beyond, coordinator, cars>>
    BY <1>5 DEF SendPart
  <2>2. /\ w108.car \in Cars /\ w108.i \in 0..CNTSIZE /\ Num(w108.car) \in Byte
        /\ size \in 1..RTSENDSIZE /\ w108.i + size \in 0..Cnt(w108.car)
        /\ Cnt(w108.car) \in 0..CNTSIZE-1
        /\ part \in Seq(Row0)
    BY <1>1, <2>1, SentPart
  <2> HIDE DEF size, part
  <2>3. f \in Frame
    BY <2>2 DEF Frame
  <2>4. serial' \in Seq(Frame) /\ puts' \in 0..PutBound
    BY <1>1, <2>1, <2>3, PutType
  <2>5. w108' \in {Idle} \cup [at : {"send"}, car : Cars, i : 0..CNTSIZE, size : 1..RTSENDSIZE]
    <3>1. w108 \in [at : {"send"}, car : Cars, i : 0..CNTSIZE, size : 1..RTSENDSIZE]
      BY <1>1, <2>1 DEF TypeOK
    <3>2. w108.i + size \in 0..CNTSIZE
      BY <2>2, DownloadAssumption
    <3> QED
      BY <2>1, <2>2, <3>1, <3>2
  <2> QED
    BY <2>1, <2>4, <2>5 DEF TypeInv, TypeOK, Taken, coordinator, cars
<1>6. CASE SendDone
  BY <1>6 DEF SendDone, TypeInv, TypeOK, Taken, coordinator, cars
<1>7. ASSUME NEW c \in Cars, SendEnd(c) PROVE TypeInv'
  <2>1. [cmd |-> "END", car |-> c, index |-> 0, rows |-> <<>>] \in Frame
    <3>1. c \in Byte /\ 0 \in 0..CNTSIZE /\ <<>> \in Seq(Row0)
      BY DownloadAssumption, EmptySeq
    <3> QED
      BY <3>1 DEF Frame
  <2>2. serial' \in Seq(Frame) /\ puts' \in 0..PutBound
    BY <1>1, <1>7, <2>1, PutType DEF SendEnd
  <2> QED
    BY <1>7, <2>2 DEF SendEnd, TypeInv, TypeOK, Taken, coordinator, cars
<1> QED
  BY <1>2, <1>3, <1>4, <1>5, <1>6, <1>7 DEF Server

LEMMA CoordinatorType ==
    ASSUME TypeInv, Coordinator PROVE TypeInv'
<1>1. TypeOK
  BY DEF TypeInv
<1>2. CASE Parse
  <2> DEFINE m == To(Head(serial), addr[Head(serial).car])
  <2>1. Head(serial) \in Frame /\ serial' \in Seq(Frame)
    BY <1>1, <1>2, HeadTailProperties DEF Parse, TypeOK
  <2>2. CASE Head(serial).car \in Cars /\ addr[Head(serial).car] # 0 /\ Ring!Send(m)
    <3>1. m \in Msg
      BY <1>1, <2>1, <2>2 DEF To, Msg, Frame, TypeOK
    <3> HIDE DEF m
    <3>2. send1' \in Seq(Msg) /\ curmsg' \in {curmsg, m} /\ (curmsg' = NoMsg <=> curmsg = NoMsg)
      BY <1>1, <2>2, <3>1, QueueSend
    <3> QED
      BY <1>2, <2>1, <3>1, <3>2 DEF Parse, TypeInv, TypeOK, Taken, server, cars
  <2>3. CASE UNCHANGED <<send1, curmsg>>
    BY <1>2, <2>1, <2>3 DEF Parse, TypeInv, TypeOK, Taken, server, cars
  <2> QED
    BY <1>2, <2>2, <2>3 DEF Parse
<1>3. CASE MsEvent
  <2>1. send1' \in Seq(Msg) /\ curmsg' \in Msg /\ curmsg' # NoMsg
    BY <1>1, <1>3, QueueGet DEF MsEvent
  <2>2. air' \in [1..AirBound -> Msg \cup {NoMsg}]
    BY <1>1, <1>3, <2>1 DEF MsEvent, TypeOK
  <2> QED
    BY <1>3, <2>1, <2>2 DEF MsEvent, TypeInv, TypeOK, Taken, server, cars
<1>4. ASSUME NEW c \in Cars, Heard(c) PROVE TypeInv'
  BY <1>4 DEF Heard, TypeInv, TypeOK, Taken, server, cars
<1> QED
  BY <1>2, <1>3, <1>4 DEF Coordinator

RouteType == [count : 0..CARPATH, line : [0..CARPATH-1 -> Row0]]
HomeType  == [0..HOMESIZE-1 -> Row0]

LEMMA SaveHomeType ==
    ASSUME TypeOK, NEW c \in Cars, NEW r \in RouteType, NEW index, HOMESIZE <= CARPATH,
           SaveHome(c, r, index)
    PROVE  home' \in [Cars -> HomeType]
<1> DEFINE h == [i \in DOMAIN home[c] |-> IF i < r.count THEN r.line[i] ELSE Blank]
<1>1. home \in [Cars -> HomeType] /\ HOMESIZE \in Nat /\ CARPATH \in Nat /\ Blank \in Row0
  BY DownloadAssumption, EmptyType DEF TypeOK, HomeType
<1>2. h \in HomeType
  <2>1. DOMAIN home[c] = 0..HOMESIZE-1 /\ \A i \in 0..HOMESIZE-1 : i \in 0..CARPATH-1
    BY <1>1 DEF HomeType
  <2>2. \A i \in 0..CARPATH-1 : r.line[i] \in Row0
    BY DEF RouteType
  <2> QED
    BY <1>1, <2>1, <2>2 DEF HomeType
<1>3. home' = home \/ home' = [home EXCEPT ![c] = h]
  BY DEF SaveHome
<1> QED
  BY <1>1, <1>2, <1>3

LEMMA TakesType ==
    ASSUME TypeOK, NEW c \in Cars, NEW m \in Msg, Takes(c, m)
    PROVE  car' \in [Cars -> RouteType] /\ home' \in [Cars -> HomeType]
<1> DEFINE last == m.index + Len(m.rows)
           new  == [count |-> IF car[c].count < last THEN last ELSE car[c].count,
                    line  |-> Copied(car[c].line, m.index, m.rows)]
<1>1. car \in [Cars -> RouteType] /\ home \in [Cars -> HomeType] /\ EmptyRoute \in RouteType
  BY EmptyType DEF TypeOK, RouteType, HomeType
<1>2. /\ m.index \in Nat /\ m.rows \in Seq(Row0) /\ Len(m.rows) \in Nat /\ CARPATH \in Nat
      /\ HOMESIZE <= CARPATH
  BY DownloadAssumption, LenProperties DEF Msg
<1>3. \/ UNCHANGED <<car, home>>
      \/ car' = [car EXCEPT ![c] = EmptyRoute] /\ home' = home
      \/ last < CARPATH /\ car' = [car EXCEPT ![c] = new] /\ SaveHome(c, new, m.index)
  BY <1>2 DEF Takes, vehicleRouteTable
<1>4. ASSUME last < CARPATH, car' = [car EXCEPT ![c] = new], SaveHome(c, new, m.index)
      PROVE  car' \in [Cars -> RouteType] /\ home' \in [Cars -> HomeType]
  <2>1. car[c].count \in 0..CARPATH /\ car[c].line \in [0..CARPATH-1 -> Row0]
    BY <1>1 DEF RouteType
  <2>2. new.line \in [0..CARPATH-1 -> Row0]
    BY <1>2, <2>1, CopiedType
  <2>3. new.count \in 0..CARPATH
    BY <1>2, <1>4, <2>1
  <2> HIDE DEF last
  <2>4. new \in RouteType
    BY <2>2, <2>3 DEF RouteType
  <2> HIDE DEF new
  <2> QED
    BY <1>1, <1>2, <1>4, <2>4, SaveHomeType
<1> HIDE DEF last, new
<1> QED
  BY <1>1, <1>3, <1>4

\* The report of the stack.
LEMMA ReportType ==
    ASSUME TypeOK, NEW m \in Msg, Failed(m) \/ Delivered(m), curmsg # NoMsg
    PROVE  /\ send1' \in Seq(Msg) /\ curmsg' = curmsg /\ retry' \in 0..RETRYSIZE-1
           /\ SendOK /\ PartOK(curmsg) => SendOK'
<1>1. curmsg \in Msg /\ retry \in 0..RETRYSIZE-1 /\ send1 \in Seq(Msg)
  BY DEF TypeOK
<1>2. retry' \in 0..RETRYSIZE-1
  <2>1. retry' = retry \/ retry' = 0 \/ (retry + 1 # RETRYSIZE /\ retry' = retry + 1)
    BY DEF Failed, Delivered
  <2> QED
    BY <1>1, <2>1, DownloadAssumption
<1>3. CASE UNCHANGED <<send1, curmsg>>
  BY <1>1, <1>2, <1>3 DEF SendOK, PartOK
<1>4. CASE Ring!Send(curmsg)
  BY <1>1, <1>2, <1>4, QueueSend
<1> QED
  BY <1>3, <1>4 DEF Failed, Delivered

LEMMA RadioType ==
    ASSUME TypeInv, Radio PROVE TypeInv'
<1>1. TypeOK /\ Taken
  BY DEF TypeInv
<1>2. PICK b \in DOMAIN air :
          /\ air[b] # NoMsg /\ air' = [air EXCEPT ![b] = NoMsg]
          /\ Arrives(air[b]) \/ Lost(air[b])
  BY DEF Radio
<1> DEFINE m == air[b]
<1>3. m \in Msg /\ curmsg # NoMsg /\ air' \in [1..AirBound -> Msg \cup {NoMsg}]
  <2>1. air \in [1..AirBound -> Msg \cup {NoMsg}] /\ b \in 1..AirBound
    BY <1>1, <1>2 DEF TypeOK
  <2>2. curmsg # NoMsg
    BY <1>1, <1>2, <2>1 DEF Taken
  <2> QED
    BY <1>2, <2>1, <2>2
<1>4. Failed(m) \/ Delivered(m)
  BY <1>2 DEF Arrives, Lost
<1>5. send1' \in Seq(Msg) /\ curmsg' = curmsg /\ retry' \in 0..RETRYSIZE-1
  BY <1>1, <1>3, <1>4, ReportType
<1>6. car' \in [Cars -> RouteType] /\ home' \in [Cars -> HomeType]
  <2>1. CASE Lost(m)
    BY <1>1, <2>1 DEF Lost, TypeOK, RouteType, HomeType
  <2>2. CASE Arrives(m)
    BY <1>1, <1>3, <2>2, TakesType DEF Arrives
  <2> QED
    BY <1>2, <2>1, <2>2
<1>7. faults' \in 0..FaultBound
  <2>1. faults \in 0..FaultBound /\ FaultBound \in Nat
    BY <1>1, DownloadAssumption DEF TypeOK
  <2>2. faults' = faults \/ (faults < FaultBound /\ faults' = faults + 1)
    <3>1. CASE Lost(m)
      BY <3>1 DEF Lost
    <3>2. CASE Arrives(m)
      BY <3>2 DEF Arrives
    <3> QED
      BY <1>2, <3>1, <3>2
  <2> QED
    BY <2>1, <2>2
<1> HIDE DEF m
<1>8. UNCHANGED <<server, serial, addr, node>>
  BY DEF Radio
<1> QED
  BY <1>1, <1>3, <1>5, <1>6, <1>7, <1>8 DEF TypeInv, TypeOK, Taken, RouteType, HomeType, server

LEMMA RebootType ==
    ASSUME TypeInv, NEW c \in Cars, Reboot(c) PROVE TypeInv'
<1>1. PICK n \in HomeWay(home[c]) :
          /\ home' = [home EXCEPT ![c] = [i \in DOMAIN @ |-> IF i < n THEN @[i] ELSE Blank]]
          /\ car' = [car EXCEPT ![c] = [count |-> n, line |->
                        [i \in 0..CARPATH-1 |-> IF i < n THEN home[c][i] ELSE Blank]]]
  BY DEF Reboot
<1>2. /\ home \in [Cars -> HomeType] /\ car \in [Cars -> RouteType] /\ Blank \in Row0
      /\ HOMESIZE \in Nat /\ CARPATH \in Nat /\ HOMESIZE <= CARPATH /\ n \in 0..HOMESIZE
  BY DownloadAssumption, EmptyType DEF TypeInv, TypeOK, HomeType, RouteType, HomeWay
<1>3. home[c] \in [0..HOMESIZE-1 -> Row0] /\ DOMAIN home[c] = 0..HOMESIZE-1
  BY <1>2 DEF HomeType
<1>4. home' \in [Cars -> HomeType]
  BY <1>1, <1>2, <1>3 DEF HomeType
<1>5. [i \in 0..CARPATH-1 |-> IF i < n THEN home[c][i] ELSE Blank] \in [0..CARPATH-1 -> Row0]
  <2>1. ASSUME NEW i \in 0..CARPATH-1, i < n PROVE home[c][i] \in Row0
    BY <1>2, <1>3, <2>1
  <2> QED
    BY <1>2, <2>1
<1>6. car' \in [Cars -> RouteType]
  <2>1. n \in 0..CARPATH
    BY <1>2
  <2> QED
    BY <1>1, <1>2, <1>5, <2>1 DEF RouteType
<1>7. node' \in [Cars -> Addrs \cup {0}] /\ UNCHANGED <<server, serial, coordinator>>
  BY DEF Reboot, TypeInv, TypeOK
<1> QED
  BY <1>4, <1>6, <1>7
  DEF TypeInv, TypeOK, Taken, HomeType, RouteType, server, coordinator

LEMMA OtherType ==
    ASSUME TypeInv, ServerResets \/ CoordinatorResets \/ \E c \in Cars : Moves(c)
    PROVE  TypeInv'
<1>1. CASE ServerResets
  BY <1>1, FreshOK DEF ServerResets, TypeInv, TypeOK, Taken, Mem, coordinator, cars
<1>2. CASE CoordinatorResets
  <2>1. <<>> \in Seq(Msg) /\ <<>> \in Seq(Frame)
    BY EmptySeq
  <2>2. DOMAIN air = 1..AirBound
    BY DEF TypeInv, TypeOK
  <2>3. 0 \in 0..RETRYSIZE-1
    BY DownloadAssumption
  <2> QED
    BY <1>2, <2>1, <2>2, <2>3 DEF CoordinatorResets, TypeInv, TypeOK, Taken, server, cars
<1>3. ASSUME NEW c \in Cars, Moves(c) PROVE TypeInv'
  BY <1>3 DEF Moves, TypeInv, TypeOK, Taken, server, coordinator
<1> QED
  BY <1>1, <1>2, <1>3

LEMMA TypeStep == TypeInv /\ [Next]_vars => TypeInv'
<1> SUFFICES ASSUME TypeInv, [Next]_vars PROVE TypeInv'
  OBVIOUS
<1>1. CASE UNCHANGED vars
  BY <1>1 DEF TypeInv, TypeOK, Taken, vars, server, coordinator, cars
<1>2. CASE Next
  BY <1>2, ServerType, CoordinatorType, RadioType, RebootType, OtherType DEF Next, Car
<1> QED
  BY <1>1, <1>2

LEMMA TypeInit == Init => TypeInv
<1> SUFFICES ASSUME Init PROVE TypeInv
  OBVIOUS
<1>1. <<>> \in Seq(Msg) /\ <<>> \in Seq(Frame)
  BY EmptySeq
<1>2. 0 \in 0..PutBound /\ 0 \in 0..RETRYSIZE-1 /\ 0 \in 0..FaultBound
  BY DownloadAssumption
<1>3. /\ car \in [Cars -> [count : 0..CARPATH, line : [0..CARPATH-1 -> Row0]]]
      /\ home \in [Cars -> [0..HOMESIZE-1 -> Row0]]
  BY EmptyType DEF Init
<1> QED
  BY <1>1, <1>2, <1>3, FreshOK DEF Init, TypeInv, TypeOK, Taken, Mem

\* Every variable has its type, and a message that the stack works on was taken before.
THEOREM TypeCorrect == Spec => []TypeOK
<1>1. TypeInv => TypeOK
  BY DEF TypeInv
<1> QED
  BY <1>1, TypeInit, TypeStep, PTL DEF Spec
-----------------------------------------------------------------------------
(* Rows: wherever a row is, in the server, under way or in a car, it is of a *)
(* table of that car and in its place.                                       *)

\* Nothing under way is touched.
Under == UNCHANGED <<serial, send1, curmsg, air>>

LEMMA PutRows ==
    ASSUME TypeOK, SerialOK, NEW f \in Frame, PartOK(f), PutFrame(f)
    PROVE  SerialOK'
<1>1. serial \in Seq(Frame) /\ serial' = Append(serial, f) /\ Len(serial) \in Nat
  BY LenProperties DEF PutFrame, TypeOK
<1>2. /\ Len(serial') = Len(serial) + 1 /\ serial'[Len(serial) + 1] = f
      /\ \A n \in 1..Len(serial) : serial'[n] = serial[n]
  BY <1>1, AppendProperties
<1>3. ASSUME NEW n \in 1..Len(serial') PROVE PartOK(serial'[n])
  <2>1. CASE n = Len(serial) + 1
    BY <1>2, <2>1
  <2>2. CASE n \in 1..Len(serial)
    BY <1>2, <2>2 DEF SerialOK
  <2> QED
    BY <1>1, <1>2, <2>1, <2>2
<1> QED
  BY <1>3 DEF SerialOK

LEMMA UnderSame ==
    ASSUME Under PROVE (SerialOK /\ SendOK /\ AirOK) => (SerialOK /\ SendOK /\ AirOK)'
<1>1. serial' = serial /\ send1' = send1 /\ curmsg' = curmsg /\ air' = air
  BY DEF Under
<1>2. SerialOK => SerialOK'
  BY <1>1 DEF SerialOK, PartOK
<1>3. SendOK => SendOK'
  BY <1>1 DEF SendOK, PartOK
<1>4. AirOK => AirOK'
  BY <1>1 DEF AirOK, PartOK
<1> QED
  BY <1>2, <1>3, <1>4

LEMMA CarsSame ==
    ASSUME CarsOK, UNCHANGED <<car, home>> PROVE CarsOK'
  BY DEF CarsOK, LineOK

LEMMA ServerRows ==
    ASSUME TypeInv, AllOK, ~beyond', Server PROVE AllOK'
<1>1. TypeOK /\ RecordsOK(mem) /\ SerialOK /\ CarsOK /\ mem \in Mem
  BY DEF TypeInv, TypeOK, Mem, AllOK
<1>2. ASSUME NEW c \in Cars, PcTable(c) PROVE AllOK'
  <2>1. PICK t \in Given[c] : \E index \in 0..Len(t)-1 : \E last \in index+1..Len(t) :
          sea_routeadd(c, index, SubSeq(t, index + 1, last))
    BY <1>2 DEF PcTable
  <2>2. PICK index \in 0..Len(t)-1 : \E last \in index+1..Len(t) :
          sea_routeadd(c, index, SubSeq(t, index + 1, last))
    BY <2>1
  <2>3. PICK last \in index+1..Len(t) : sea_routeadd(c, index, SubSeq(t, index + 1, last))
    BY <2>2
  <2>4. RecordsOK(mem')
    <3> DEFINE part == SubSeq(t, index + 1, last)
               m    == IF index = 0 THEN Cleared(mem, c) ELSE mem
    <3>1. part \in Seq(Row0) /\ index \in Nat /\ Fits(c, index + Len(part))
          /\ \A k \in 1..Len(part) : Own(c, index + k - 1, part[k])
      BY PartOfTable
    <3>2. mem' = Added(m, c, index, part) /\ ~(index + Len(part) > MAXPATH)
      BY <2>3 DEF sea_routeadd
    <3>3. m \in Mem /\ RecordsOK(m)
      BY <1>1, ClearedType, ClearedRecords
    <3> HIDE DEF part, m
    <3>4. index + Len(part) <= MAXPATH
      BY <3>1, <3>2, LenProperties, DownloadAssumption
    <3> QED
      BY <3>1, <3>2, <3>3, <3>4, AddedRecords
  <2>5. Under /\ UNCHANGED <<car, home>>
    BY <1>2 DEF PcTable, Under, coordinator, cars
  <2> QED
    BY <1>1, <2>4, <2>5, UnderSame, CarsSame DEF AllOK
<1>3. ASSUME NEW c \in Cars, sea_routeclear(c) PROVE AllOK'
  <2>1. Under /\ UNCHANGED <<car, home>> /\ mem' = Cleared(mem, c)
    BY <1>1, <1>3 DEF sea_routeclear, Under, coordinator, cars
  <2>2. RecordsOK(mem')
    BY <1>1, <2>1, ClearedRecords
  <2> QED
    BY <1>1, <2>1, <2>2, UnderSame, CarsSame DEF AllOK
<1>4. ASSUME (\E c \in Cars : SendRoute(c)) \/ SendDone PROVE AllOK'
  <2>1. Under /\ UNCHANGED <<mem, car, home>>
    BY <1>4 DEF SendRoute, SendDone, Under, coordinator, cars
  <2> QED
    BY <1>1, <2>1, UnderSame, CarsSame DEF AllOK
<1>5. CASE SendPart
  <2> DEFINE size == IF Cnt(w108.car) < RTSENDSIZE + w108.i
                     THEN Cnt(w108.car) - w108.i ELSE w108.size
             part == [k \in 1..size |-> mem[At(w108.car, w108.i+k-1)]]
             f    == [cmd |-> "ROUTE", car |-> Num(w108.car), index |-> w108.i, rows |-> part]
  <2>1. w108 # Idle /\ w108.i < Cnt(w108.car) /\ PutFrame(f)
        /\ UNCHANGED <<mem, coordinator, cars>>
    BY <1>5 DEF SendPart
  <2>2. /\ w108.car \in Cars /\ w108.i \in 0..CNTSIZE /\ Num(w108.car) \in Byte
        /\ size \in 1..RTSENDSIZE /\ w108.i + size \in 0..Cnt(w108.car)
        /\ Cnt(w108.car) \in 0..CNTSIZE-1
        /\ part \in Seq(Row0) /\ Len(part) = size
        /\ \A k \in 1..size : w108.i + k - 1 \in 0..Cnt(w108.car)-1
    BY <1>1, <2>1, SentPart
  <2> DEFINE c == w108.car
  <2>3. Num(c) = c /\ Cnt(c) = mem[Place[c]].action /\ Cnt(c) <= MAXPATH /\ Fits(c, Cnt(c))
    <3>1. /\ mem[Place[c]].id = c /\ mem[Place[c]].action <= MAXPATH
          /\ Fits(c, mem[Place[c]].action) /\ mem[Place[c]].action \in Nat
      <4>1. c \in Cars /\ RecordOK(mem, c)
        BY <1>1, <2>2 DEF RecordsOK
      <4>2. mem[Place[c]] \in Row0
        BY <1>1, <4>1, Places DEF Mem
      <4> QED
        BY <4>1, <4>2, RowType DEF RecordOK
    <3>2. mem[Place[c]].action % CNTSIZE = mem[Place[c]].action
      <4>1. c \in Cars
        BY <2>2
      <4>2. MAXPATH \in Nat /\ CNTSIZE \in Nat \ {0} /\ MAXPATH < CNTSIZE
        BY <4>1, Places
      <4>3. mem[Place[c]].action < CNTSIZE
        BY <3>1, <4>2
      <4> QED
        BY <3>1, <4>2, <4>3, Modulo
    <3> QED
      BY <3>1, <3>2 DEF Num, Cnt
  <2>4. \A i \in 0..Cnt(c)-1 : Own(c, i, mem[At(c, i)])
    BY <1>1, <2>2, <2>3, DownloadAssumption DEF RecordsOK, RecordOK
  <2>5. \A k \in 1..size : Own(c, w108.i + k - 1, part[k])
    BY <2>2, <2>4
  <2> HIDE DEF size, part
  <2>6. Fits(c, w108.i + size)
    <3>1. w108.i + size \in Nat /\ w108.i + size <= Cnt(c) /\ Cnt(c) \in Nat
      BY <2>2, DownloadAssumption
    <3>2. \A t \in Given[c] : Len(t) \in Nat
      BY <2>2, DownloadAssumption, LenProperties
    <3> QED
      BY <2>3, <3>1, <3>2 DEF Fits
  <2>7. f \in Frame /\ PartOK(f)
    BY <2>2, <2>3, <2>5, <2>6 DEF Frame, PartOK
  <2>8. SerialOK'
    BY <1>1, <2>1, <2>7, PutRows
  <2>9. UNCHANGED <<mem, send1, curmsg, air, car, home>>
    BY <2>1 DEF coordinator, cars
  <2> QED
    BY <1>1, <2>8, <2>9, CarsSame DEF AllOK, SendOK, AirOK, PartOK
<1>6. ASSUME NEW c \in Cars, SendEnd(c) PROVE AllOK'
  <2> DEFINE f == [cmd |-> "END", car |-> c, index |-> 0, rows |-> <<>>]
  <2>1. f \in Frame /\ PartOK(f)
    BY DownloadAssumption, EmptySeq DEF Frame, PartOK
  <2>2. SerialOK'
    BY <1>1, <1>6, <2>1, PutRows DEF SendEnd
  <2>3. UNCHANGED <<mem, send1, curmsg, air, car, home>>
    BY <1>6 DEF SendEnd, coordinator, cars
  <2> QED
    BY <1>1, <2>2, <2>3, CarsSame DEF AllOK, SendOK, AirOK, PartOK
<1> QED
  BY <1>2, <1>3, <1>4, <1>5, <1>6 DEF Server

LEMMA CoordinatorRows ==
    ASSUME TypeInv, AllOK, Coordinator PROVE AllOK'
<1>1. TypeOK /\ RecordsOK(mem) /\ SerialOK /\ SendOK /\ AirOK /\ CarsOK
  BY DEF TypeInv, AllOK
<1>2. CASE Parse
  <2> DEFINE f == Head(serial)
             m == To(f, addr[f.car])
  <2>1. /\ serial \in Seq(Frame) /\ serial # <<>> /\ serial' = Tail(serial)
        /\ UNCHANGED <<mem, air, car, home>>
    BY <1>1, <1>2 DEF Parse, TypeOK, server, cars
  <2>2. /\ f \in Frame /\ f = serial[1] /\ Len(serial) \in Nat /\ Len(serial) >= 1
        /\ Len(Tail(serial)) = Len(serial) - 1
        /\ \A n \in 1..Len(Tail(serial)) : Tail(serial)[n] = serial[n+1]
    BY <2>1, HeadTailProperties, LenProperties, EmptySeq
  <2>3. PartOK(f) /\ SerialOK'
    <3>1. 1 \in 1..Len(serial) /\ \A n \in 1..Len(serial') : n + 1 \in 1..Len(serial)
      BY <2>1, <2>2
    <3>2. \A n \in 1..Len(serial') : PartOK(serial'[n])
      BY <1>1, <2>1, <2>2, <3>1 DEF SerialOK
    <3> QED
      BY <1>1, <2>2, <3>1, <3>2 DEF SerialOK
  <2>4. SendOK' /\ (curmsg' # NoMsg => PartOK(curmsg'))
    <3>1. CASE f.car \in Cars /\ addr[f.car] # 0 /\ Ring!Send(m)
      <4>1. m \in Msg /\ PartOK(m)
        BY <1>1, <2>2, <2>3, <3>1 DEF To, Msg, Frame, TypeOK, PartOK
      <4> HIDE DEF m, f
      <4>2. SendOK' /\ curmsg' \in {curmsg, m}
        BY <1>1, <3>1, <4>1, QueueSend
      <4> QED
        BY <1>1, <4>1, <4>2 DEF AirOK
    <3>2. CASE UNCHANGED <<send1, curmsg>>
      BY <1>1, <3>2 DEF SendOK, AirOK, PartOK
    <3> QED
      BY <1>2, <3>1, <3>2 DEF Parse
  <2>5. AirOK'
    BY <1>1, <2>1, <2>4 DEF AirOK, PartOK
  <2> QED
    BY <1>1, <2>1, <2>3, <2>4, <2>5, CarsSame DEF AllOK
<1>3. CASE MsEvent
  <2>1. curmsg' # NoMsg /\ SendOK' /\ PartOK(curmsg')
    BY <1>1, <1>3, QueueGet DEF MsEvent
  <2>2. \A b \in 1..AirBound : air'[b] = air[b] \/ air'[b] = curmsg'
    BY <1>1, <1>3 DEF MsEvent, TypeOK
  <2>3. AirOK'
    BY <1>1, <2>1, <2>2 DEF AirOK
  <2>4. UNCHANGED <<mem, serial, car, home>>
    BY <1>3 DEF MsEvent, server, cars
  <2> QED
    BY <1>1, <2>1, <2>3, <2>4, CarsSame DEF AllOK, SerialOK, PartOK
<1>4. ASSUME NEW c \in Cars, Heard(c) PROVE AllOK'
  <2>1. Under /\ UNCHANGED <<mem, car, home>>
    BY <1>4 DEF Heard, Under, server, cars
  <2> QED
    BY <1>1, <2>1, UnderSame, CarsSame DEF AllOK
<1> QED
  BY <1>2, <1>3, <1>4 DEF Coordinator

LEMMA SaveHomeRows ==
    ASSUME TypeOK, CarsOK, NEW c \in Cars, NEW r \in RouteType, NEW index,
           LineOK(c, r.line, CARPATH), SaveHome(c, r, index)
    PROVE  \A d \in Cars : LineOK(d, home'[d], HOMESIZE)
<1> DEFINE h == [i \in DOMAIN home[c] |-> IF i < r.count THEN r.line[i] ELSE Blank]
<1>1. /\ home \in [Cars -> HomeType] /\ HOMESIZE \in Nat /\ CARPATH \in Nat
      /\ HOMESIZE <= CARPATH /\ \A d \in Cars : LineOK(d, home[d], HOMESIZE)
  BY DownloadAssumption DEF TypeOK, HomeType, CarsOK
<1>2. LineOK(c, h, HOMESIZE)
  <2>1. DOMAIN home[c] = 0..HOMESIZE-1 /\ \A i \in 0..HOMESIZE-1 : i \in 0..CARPATH-1
    BY <1>1 DEF HomeType
  <2>2. \A i \in 0..HOMESIZE-1 : Own(c, i, r.line[i]) /\ Own(c, i, Blank)
    BY <2>1, NoRow DEF LineOK
  <2> QED
    BY <2>1, <2>2 DEF LineOK
<1>3. home' = home \/ home' = [home EXCEPT ![c] = h]
  BY DEF SaveHome
<1> HIDE DEF h
<1> QED
  BY <1>1, <1>2, <1>3

\* A message that a car takes is for this car.
LEMMA TakesRows ==
    ASSUME TypeOK, CarsOK, NEW c \in Cars, NEW m \in Msg, PartOK(m), Takes(c, m)
    PROVE  CarsOK'
<1> DEFINE last == m.index + Len(m.rows)
           line == Copied(car[c].line, m.index, m.rows)
           count == IF car[c].count < last THEN last ELSE car[c].count
           new  == [count |-> count, line |-> line]
<1>1. /\ car \in [Cars -> RouteType] /\ DOMAIN home = Cars
      /\ \A d \in Cars : Fits(d, car[d].count) /\ LineOK(d, car[d].line, CARPATH)
                         /\ LineOK(d, home[d], HOMESIZE)
  BY DEF TypeOK, RouteType, CarsOK
<1>2. /\ m.index \in Nat /\ m.rows \in Seq(Row0) /\ Len(m.rows) \in Nat /\ CARPATH \in Nat
      /\ m.cmd \in {"ROUTE", "END"}
  BY DownloadAssumption, LenProperties DEF Msg
<1>3. \/ UNCHANGED <<car, home>>
      \/ car' = [car EXCEPT ![c] = EmptyRoute] /\ home' = home
      \/ /\ m.car = c /\ m.cmd = "ROUTE" /\ last < CARPATH
         /\ car' = [car EXCEPT ![c] = new] /\ SaveHome(c, new, m.index)
  BY <1>2 DEF Takes, vehicleRouteTable
<1>4. ASSUME m.car = c, m.cmd = "ROUTE", last < CARPATH,
             car' = [car EXCEPT ![c] = new], SaveHome(c, new, m.index)
      PROVE  \A d \in Cars : Fits(d, car'[d].count) /\ LineOK(d, car'[d].line, CARPATH)
                            /\ LineOK(d, home'[d], HOMESIZE)
  <2>1. car[c].count \in 0..CARPATH /\ car[c].line \in [0..CARPATH-1 -> Row0]
    BY <1>1 DEF RouteType
  <2>2. line \in [0..CARPATH-1 -> Row0]
    BY <1>2, <2>1, CopiedType
  <2>3. Fits(c, last) /\ \A k \in 1..Len(m.rows) : Own(c, m.index + k - 1, m.rows[k])
    BY <1>4 DEF PartOK
  <2>4. LineOK(c, line, CARPATH)
    BY <1>1, <1>2, <2>1, <2>3, CopiedRows
  <2>5. count \in 0..CARPATH /\ Fits(c, count)
    BY <1>1, <1>2, <1>4, <2>1, <2>3
  <2> HIDE DEF last, line, count
  <2>6. new \in RouteType
    BY <2>2, <2>5 DEF RouteType
  <2>7. \A d \in Cars : LineOK(d, home'[d], HOMESIZE)
    BY <1>4, <2>4, <2>6, SaveHomeRows
  <2> QED
    BY <1>1, <1>4, <2>4, <2>5, <2>7
<1> HIDE DEF last, new
<1>5. \A d \in Cars : Fits(d, car'[d].count) /\ LineOK(d, car'[d].line, CARPATH)
                     /\ LineOK(d, home'[d], HOMESIZE)
  <2>1. CASE UNCHANGED <<car, home>>
    BY <1>1, <2>1
  <2>2. CASE car' = [car EXCEPT ![c] = EmptyRoute] /\ home' = home
    BY <1>1, <2>2, EmptyRows
  <2> QED
    BY <1>3, <1>4, <2>1, <2>2
<1> QED
  BY <1>5 DEF CarsOK, LineOK

LEMMA RadioRows ==
    ASSUME TypeInv, AllOK, Radio PROVE AllOK'
<1>1. TypeOK /\ Taken /\ RecordsOK(mem) /\ SerialOK /\ SendOK /\ AirOK /\ CarsOK
  BY DEF TypeInv, AllOK
<1>2. PICK b \in DOMAIN air :
          /\ air[b] # NoMsg /\ air' = [air EXCEPT ![b] = NoMsg]
          /\ Arrives(air[b]) \/ Lost(air[b])
  BY DEF Radio
<1>3. air \in [1..AirBound -> Msg \cup {NoMsg}] /\ b \in 1..AirBound
  BY <1>1, <1>2 DEF TypeOK
<1> DEFINE m == air[b]
<1>4. m \in Msg /\ PartOK(m) /\ curmsg # NoMsg /\ PartOK(curmsg)
  BY <1>1, <1>2, <1>3 DEF Taken, AirOK
<1>5. Failed(m) \/ Delivered(m)
  BY <1>2 DEF Arrives, Lost
<1>6. SendOK' /\ curmsg' = curmsg
  BY <1>1, <1>4, <1>5, ReportType
<1>7. AirOK'
  BY <1>1, <1>2, <1>3, <1>6 DEF AirOK
<1>8. CarsOK'
  <2>1. CASE Lost(m)
    BY <1>1, <2>1, CarsSame DEF Lost
  <2>2. CASE Arrives(m)
    BY <1>1, <1>4, <2>2, TakesRows DEF Arrives
  <2> QED
    BY <1>2, <2>1, <2>2
<1> HIDE DEF m
<1>9. UNCHANGED <<mem, serial>>
  BY DEF Radio, server
<1> QED
  BY <1>1, <1>6, <1>7, <1>8, <1>9 DEF AllOK, SerialOK, PartOK

\* A start loads rows that are there: the last of them shows that a table is as long.
LEMMA RebootRows ==
    ASSUME TypeInv, AllOK, NEW c \in Cars, Reboot(c) PROVE AllOK'
<1>0. RecordsOK(mem) /\ SerialOK /\ SendOK /\ AirOK /\ CarsOK
  BY DEF AllOK
<1>1. PICK n \in HomeWay(home[c]) :
          /\ home' = [home EXCEPT ![c] = [i \in DOMAIN @ |-> IF i < n THEN @[i] ELSE Blank]]
          /\ car' = [car EXCEPT ![c] = [count |-> n, line |->
                        [i \in 0..CARPATH-1 |-> IF i < n THEN home[c][i] ELSE Blank]]]
  BY DEF Reboot
<1> DEFINE h == [i \in DOMAIN home[c] |-> IF i < n THEN home[c][i] ELSE Blank]
           l == [i \in 0..CARPATH-1 |-> IF i < n THEN home[c][i] ELSE Blank]
<1>2. /\ DOMAIN home = Cars /\ DOMAIN car = Cars /\ DOMAIN home[c] = 0..HOMESIZE-1
      /\ HOMESIZE \in Nat /\ CARPATH \in Nat /\ HOMESIZE <= CARPATH
      /\ n \in 0..HOMESIZE /\ \A i \in 0..n-1 : home[c][i] # Blank
  <2>1. \A i \in 0..n-1 : There(home[c][i])
    BY <1>1 DEF HomeWay
  <2>2. \A i \in 0..n-1 : home[c][i] # Blank
    BY <2>1, BlankRow
  <2> QED
    BY <1>1, <2>2, DownloadAssumption DEF TypeInv, TypeOK, HomeWay
<1>3. \A i \in 0..HOMESIZE-1 : Own(c, i, home[c][i])
  BY <1>0 DEF CarsOK, LineOK
<1>4. LineOK(c, h, HOMESIZE) /\ LineOK(c, l, CARPATH)
  <2>1. \A i \in 0..CARPATH-1 : i < n => i \in 0..HOMESIZE-1
    BY <1>2
  <2>2. \A i \in 0..CARPATH-1 : Own(c, i, l[i])
    BY <1>3, <2>1, NoRow
  <2>3. \A i \in 0..HOMESIZE-1 : Own(c, i, h[i])
    BY <1>2, <1>3, NoRow
  <2> QED
    BY <2>2, <2>3 DEF LineOK
<1>5. Fits(c, n)
  <2>1. CASE n = 0
    BY <2>1, NoRow
  <2>2. CASE n # 0
    <3>1. n - 1 \in 0..HOMESIZE-1 /\ n - 1 \in 0..n-1
      BY <1>2, <2>2
    <3>2. Own(c, n - 1, home[c][n - 1]) /\ home[c][n - 1] # Blank
      BY <1>2, <1>3, <3>1
    <3>3. PICK t \in Given[c] : (n - 1) + 1 \in DOMAIN t
      BY <3>2 DEF Own
    <3>4. DOMAIN t = 1..Len(t) /\ Len(t) \in Nat
      BY DownloadAssumption, LenProperties
    <3>5. n <= Len(t)
      BY <1>2, <3>3, <3>4
    <3> QED
      BY <3>5 DEF Fits
  <2> QED
    BY <2>1, <2>2
<1>6. Under /\ UNCHANGED mem
  BY DEF Reboot, Under, server, coordinator
<1>7. CarsOK'
  <2>1. home' = [home EXCEPT ![c] = h] /\ car' = [car EXCEPT ![c] = [count |-> n, line |-> l]]
    BY <1>1
  <2> HIDE DEF h, l
  <2> QED
    BY <1>0, <1>2, <1>4, <1>5, <2>1 DEF CarsOK, LineOK
<1> QED
  BY <1>0, <1>6, <1>7, UnderSame DEF AllOK

LEMMA OtherRows ==
    ASSUME TypeInv, AllOK, ServerResets \/ CoordinatorResets \/ \E c \in Cars : Moves(c)
    PROVE  AllOK'
<1>0. RecordsOK(mem) /\ SerialOK /\ SendOK /\ AirOK /\ CarsOK
  BY DEF AllOK
<1>1. CASE ServerResets
  <2>1. Under /\ UNCHANGED <<car, home>> /\ RecordsOK(mem')
    BY <1>1, FreshOK DEF ServerResets, Under, coordinator, cars
  <2> QED
    BY <1>0, <2>1, UnderSame, CarsSame DEF AllOK
<1>2. CASE CoordinatorResets
  <2>1. /\ serial' = <<>> /\ send1' = <<>> /\ curmsg' = NoMsg
        /\ \A b \in 1..AirBound : air'[b] = NoMsg
        /\ UNCHANGED <<mem, car, home>>
    BY <1>2 DEF CoordinatorResets, TypeInv, TypeOK, server, cars
  <2>2. SerialOK' /\ SendOK' /\ AirOK'
    BY <2>1, EmptySeq DEF SerialOK, SendOK, AirOK
  <2> QED
    BY <1>0, <2>1, <2>2, CarsSame DEF AllOK
<1>3. ASSUME NEW c \in Cars, Moves(c) PROVE AllOK'
  <2>1. Under /\ UNCHANGED <<mem, car, home>>
    BY <1>3 DEF Moves, Under, server, coordinator
  <2> QED
    BY <1>0, <2>1, UnderSame, CarsSame DEF AllOK
<1> QED
  BY <1>1, <1>2, <1>3

\* No step forgets that a part was written beyond the end of a record.
LEMMA BeyondStays == TypeOK /\ [Next]_vars => (beyond => beyond')
<1> SUFFICES ASSUME TypeOK, [Next]_vars, beyond PROVE beyond'
  OBVIOUS
<1>1. ASSUME NEW c \in Cars, PcTable(c) PROVE beyond'
  BY <1>1 DEF PcTable, sea_routeadd
<1>2. CASE UNCHANGED beyond
  BY <1>2
<1> QED
  BY <1>1, <1>2, Zenon
  DEF Next, Server, sea_routeclear, SendRoute, SendPart, SendDone, SendEnd, Coordinator, Parse,
      MsEvent, Heard, Radio, Car, Reboot, Moves, ServerResets, CoordinatorResets, vars, server

LEMMA RowsStep == TypeInv /\ RowsInv /\ [Next]_vars => RowsInv'
<1> SUFFICES ASSUME TypeInv, RowsInv, [Next]_vars, ~beyond' PROVE AllOK'
  BY DEF RowsInv
<1>0. AllOK
  BY BeyondStays DEF RowsInv, TypeInv
<1>1. CASE UNCHANGED vars
  <2>1. Under /\ UNCHANGED <<mem, car, home>>
    BY <1>1 DEF vars, server, coordinator, cars, Under
  <2> QED
    BY <1>0, <2>1, UnderSame, CarsSame DEF AllOK
<1>2. CASE Next
  BY <1>0, <1>2, ServerRows, CoordinatorRows, RadioRows, RebootRows, OtherRows DEF Next, Car
<1> QED
  BY <1>1, <1>2

LEMMA RowsInit == Init => RowsInv
<1> SUFFICES ASSUME Init PROVE AllOK
  BY DEF RowsInv
<1>1. RecordsOK(mem) /\ CarsOK
  BY EmptyRows, FreshOK DEF Init, CarsOK
<1>2. SerialOK /\ SendOK /\ AirOK
  BY EmptySeq DEF Init, SerialOK, SendOK, AirOK
<1> QED
  BY <1>1, <1>2 DEF AllOK

\* A car never holds a row of another car, or one of its own in another place, whatever
\* becomes of its address while the messages are under way, as long as the PC gives no table
\* that is longer than a record of the server.
THEOREM RowsAreOwn == Spec => []OwnRows
<1>1. TypeInv /\ RowsInv => OwnRows
  BY DEF RowsInv, AllOK, CarsOK, LineOK, OwnRows
<1> QED
  BY <1>1, TypeInit, TypeStep, RowsInit, RowsStep, PTL DEF Spec

\* A car never takes its table to be longer than every table that was given to it, as long as
\* none was longer than a record of the server.
THEOREM LengthIsOwn == Spec => []OwnLength
<1>1. TypeInv /\ RowsInv => OwnLength
  BY DEF RowsInv, AllOK, CarsOK, OwnLength
<1> QED
  BY <1>1, TypeInit, TypeStep, RowsInit, RowsStep, PTL DEF Spec
-----------------------------------------------------------------------------
(* What the coordinator has left to do.                                     *)

LEMMA BusyType ==
    ASSUME TypeOK
    PROVE  /\ IsFiniteSet(Busy) /\ Cardinality(Busy) \in Nat
           /\ Len(send1) \in Nat /\ Resends \in 0..3 /\ Work \in Nat
<1>1. DOMAIN air = 1..AirBound /\ AirBound \in Nat
  BY DownloadAssumption DEF TypeOK
<1>2. IsFiniteSet(Busy) /\ Busy \in SUBSET (1..AirBound)
  BY <1>1, FS_Interval, FS_Subset DEF Busy
<1>3. Cardinality(Busy) \in Nat
  BY <1>2, FS_CardinalityType
<1>4. Len(send1) \in Nat /\ Resends \in 0..3
  BY LenProperties, DownloadAssumption DEF TypeOK, Resends
<1> QED
  BY <1>2, <1>3, <1>4 DEF Work

\* The stack reports on a message: it has one less.
LEMMA BusyLess ==
    ASSUME TypeOK, NEW b \in Busy, air' = [air EXCEPT ![b] = NoMsg]
    PROVE  Cardinality(Busy') = Cardinality(Busy) - 1
<1>1. Busy' = Busy \ {b}
  BY DEF Busy, TypeOK
<1> QED
  BY <1>1, BusyType, FS_RemoveElement

\* The stack takes a message into a free buffer: it has one more.
LEMMA BusyMore ==
    ASSUME TypeOK, NEW b \in DOMAIN air \ Busy, NEW m \in Msg, air' = [air EXCEPT ![b] = m]
    PROVE  Cardinality(Busy') = Cardinality(Busy) + 1
<1>1. m # NoMsg
  BY DownloadAssumption
<1>2. Busy' = Busy \cup {b}
  BY <1>1 DEF Busy, TypeOK
<1> QED
  BY <1>2, BusyType, FS_AddElement

LEMMA QueueLengths ==
    ASSUME TypeOK
    PROVE  /\ Ring!Get => Len(send1') = Len(send1) - 1
           /\ \A m \in Msg : Ring!Send(m) => Len(send1') \in Nat /\ Len(send1') <= Len(send1) + 1
<1>1. send1 \in Seq(Msg)
  BY DEF TypeOK
<1>2. Ring!Get => Len(send1') = Len(send1) - 1
  BY <1>1, HeadTailProperties DEF Ring!Get
<1>3. ASSUME NEW m \in Msg, Ring!Send(m)
      PROVE  Len(send1') \in Nat /\ Len(send1') <= Len(send1) + 1
  BY <1>1, <1>3, QueueSend, LenProperties
<1> QED
  BY <1>2, <1>3

LEMMA MsEventShrinks ==
    ASSUME TypeInv, MsEvent
    PROVE  Work' < Work
<1> DEFINE free == {b \in DOMAIN air : air[b] = NoMsg}
<1>1. TypeOK /\ Ring!Get /\ Resends' = Resends
  BY DEF TypeInv, MsEvent, Resends
<1>2. Len(send1') = Len(send1) - 1 /\ curmsg' \in Msg
  BY <1>1, QueueLengths, QueueGet
<1>3. Cardinality(Busy') \in {Cardinality(Busy), Cardinality(Busy) + 1}
  <2>1. CASE free = {}
    BY <2>1 DEF MsEvent, Busy
  <2>2. CASE free # {}
    <3> DEFINE b == CHOOSE b \in free : TRUE
    <3>1. b \in DOMAIN air \ Busy
      BY <2>2 DEF Busy
    <3>2. air' = [air EXCEPT ![b] = curmsg']
      BY <2>2 DEF MsEvent
    <3> HIDE DEF b
    <3> QED
      BY <1>1, <1>2, <3>1, <3>2, BusyMore
  <2> QED
    BY <2>1, <2>2
<1> QED
  BY <1>1, <1>2, <1>3, BusyType DEF Work

LEMMA RadioShrinks ==
    ASSUME TypeInv, Radio
    PROVE  Work' < Work
<1>1. TypeOK /\ Taken
  BY DEF TypeInv
<1>2. PICK b \in DOMAIN air :
          /\ air[b] # NoMsg /\ air' = [air EXCEPT ![b] = NoMsg]
          /\ Arrives(air[b]) \/ Lost(air[b])
  BY DEF Radio
<1>3. Cardinality(Busy') = Cardinality(Busy) - 1
  BY <1>1, <1>2, BusyLess DEF Busy
<1>4. curmsg \in Msg
  BY <1>1, <1>2 DEF Taken, TypeOK
<1>5. Delivered(air[b]) \/ Failed(air[b])
  BY <1>2 DEF Arrives, Lost
<1>0. retry \in 0..RETRYSIZE-1 /\ RETRYSIZE \in Nat /\ RETRYSIZE > 3
  BY <1>1, DownloadAssumption DEF TypeOK
<1>6. CASE Delivered(air[b])
  <2>1. Len(send1') = Len(send1) /\ Resends' \in {Resends, 2}
    BY <1>0, <1>6 DEF Delivered, Resends
  <2> QED
    BY <1>1, <1>3, <2>1, BusyType DEF Work
<1>7. CASE Failed(air[b])
  <2>1. CASE curmsg.cmd # air[b].cmd
    <3>1. Len(send1') = Len(send1) /\ Resends' = Resends
      BY <1>7, <2>1 DEF Failed, Resends
    <3> QED
      BY <1>1, <1>3, <3>1, BusyType DEF Work
  <2>2. CASE curmsg.cmd = air[b].cmd /\ retry' <= 2
    <3>1. Ring!Send(curmsg)
      BY <1>7, <2>2 DEF Failed
    <3>2. Resends' = Resends - 1
      BY <1>0, <1>7, <2>2 DEF Failed, Resends
    <3>3. Len(send1') \in Nat /\ Len(send1') <= Len(send1) + 1
      BY <1>1, <1>4, <3>1, QueueLengths
    <3>4. Work = 8 * Len(send1) + 7 * Cardinality(Busy) + 2 * Resends
          /\ Work' = 8 * Len(send1') + 7 * Cardinality(Busy') + 2 * Resends'
      BY DEF Work
    <3> HIDE DEF Work
    <3>5. ASSUME NEW l \in Nat, NEW k \in Nat, NEW n \in Nat, NEW r \in Nat, k <= l + 1
          PROVE  8 * k + 7 * (n - 1) + 2 * (r - 1) < 8 * l + 7 * n + 2 * r
      BY <3>5
    <3>6. Len(send1) \in Nat /\ Cardinality(Busy) \in Nat /\ Resends \in Nat
      BY <1>1, BusyType
    <3> QED
      BY <1>3, <3>2, <3>3, <3>4, <3>5, <3>6
  <2>3. CASE curmsg.cmd = air[b].cmd /\ ~(retry' <= 2)
    <3>1. Len(send1') = Len(send1)
      BY <1>7, <2>3 DEF Failed
    <3>2. Resends' = 3
      BY <1>0, <1>7, <2>3 DEF Failed, Resends
    <3> QED
      BY <1>1, <1>3, <3>1, <3>2, BusyType DEF Work
  <2> QED
    BY <1>7, <2>1, <2>2, <2>3
<1> QED
  BY <1>5, <1>6, <1>7

\* The coordinator gets nearer to silence with whatever it or its stack does, until the
\* server has another frame: single_info.retry bounds what is sent again (sink.c:46-71).
THEOREM SendingShrinks == Spec => WorkShrinks
<1>1. ASSUME TypeInv, [Next]_vars
      PROVE  Work' < Work \/ UNCHANGED <<send1, air, retry>> \/ Parse \/ CoordinatorResets
  <2>1. CASE Server
    BY <2>1 DEF Server, PcTable, sea_routeclear, SendRoute, SendPart, SendDone, SendEnd, coordinator
  <2>2. CASE MsEvent \/ Radio
    BY <1>1, <2>2, MsEventShrinks, RadioShrinks
  <2>3. ASSUME NEW c \in Cars, Heard(c) \/ Reboot(c) \/ Moves(c)
        PROVE  UNCHANGED <<send1, air, retry>>
    BY <2>3 DEF Heard, Reboot, Moves, coordinator
  <2>4. CASE ServerResets \/ UNCHANGED vars
    BY <2>4 DEF ServerResets, vars, coordinator
  <2> QED
    BY <1>1, <2>1, <2>2, <2>3, <2>4 DEF Next, Coordinator, Car
<1> QED
  BY <1>1, TypeInit, TypeStep, PTL DEF Spec, WorkShrinks
=============================================================================
