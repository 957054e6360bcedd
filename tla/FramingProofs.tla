---------------------------- MODULE FramingProofs ----------------------------
(***************************************************************************)
(* Proofs about Framing: both ends keep their types, a frame to which      *)
(* nothing happens arrives as it was sent, and one with a changed byte is  *)
(* not taken, for every size of a byte and of a body.                      *)
(*                                                                         *)
(* The invariant has three parts: what the receiver holds (Receives), what *)
(* the sender holds (Sends), and how far the two are together while cur is *)
(* clean or hit (InStep).                                                  *)
(***************************************************************************)
EXTENDS Framing, SequenceTheorems, TLAPS

USE FramingAssumption DEF FEXTRASIZE, MAXFRMLEN

Receives ==
    /\ state \in {"IDLE", "DATA", "SUM", "WRECKED"} /\ in \in 0..FRAMEBUFLEN-1
    /\ idx \in 0..MAXFRMLEN+FEXTRASIZE+1 /\ sum \in Byte
    /\ slot \in Frame /\ got \in Frame \cup {NoFrame} /\ Len(slot.body) <= FRDATASIZE
    /\ state = "DATA" /\ idx >= 2 => Len(slot.body) = 0 \/ Len(slot.body) + FEXTRASIZE <= idx
    /\ state = "DATA" /\ idx >= 2 => GoodLength(slot.len) /\ idx <= slot.len + FEXTRASIZE

Sends ==
    /\ cur \in Frames /\ total \in Byte
    /\ pos \in Nat /\ pos <= cur.len + FEXTRASIZE + 2
    /\ pos <= 1 => total = 0

\* Of cur the receiver has what left after the prefix.
Fields ==
    /\ pos >= 2 => sum = total /\ slot.cmd = cur.cmd
    /\ pos >= 3 => slot.len = cur.len
    /\ pos >= 4 => slot.hi = cur.hi
    /\ pos >= 5 => slot.lo = cur.lo

BodySoFar == pos >= 3 =>
    /\ Len(slot.body) = IF pos <= 5 THEN 0 ELSE pos - 5
    /\ \A i \in 1..Len(slot.body) : slot.body[i] = cur.body[i]

Follows == state = "DATA" /\ idx = pos - 1 /\ Fields /\ BodySoFar

\* The receiver is as far as the sender, but its sum is another one.
Astray ==
    /\ state = "DATA" /\ idx = pos - 1 /\ sum # total
    /\ pos >= 3 => slot.len = cur.len

InStep ==
    /\ fate = "clean" => (~Done /\ pos > 0 => Follows) /\ (Done => got = cur)
    /\ fate = "hit" => pos >= 2 /\ (~Done => Astray)

TypeInv ==
    Receives /\ Sends /\ faults \in 0..FaultBound /\ fate \in {"clean", "hit", "lost"}
-----------------------------------------------------------------------------
(* Bytes.                                                                  *)

\* A sum in one byte is a byte.
LEMMA SumIsByte == \A a, b \in Byte : (a + b) % W \in Byte
BY DEF Byte

\* What fits into a byte is not changed by it.
LEMMA ByteStays == \A a \in Byte : (0 + a) % W = a
BY DEF Byte

\* A sum tells two bytes, and two sums so far, apart.
LEMMA SumsDiffer ==
    ASSUME NEW a \in Byte, NEW b \in Byte, NEW c \in Byte, a # b
    PROVE  (a + c) % W # (b + c) % W /\ (c + a) % W # (c + b) % W
<1>1. \A x \in 0..2*W-2 : x % W = IF x < W THEN x ELSE x - W
  <2>1. SUFFICES ASSUME NEW x \in 0..2*W-2 PROVE x % W = IF x < W THEN x ELSE x - W
    OBVIOUS
  <2>2. CASE x < W
    BY <2>2
  <2>3. CASE ~(x < W)
    BY <2>3
  <2> QED BY <2>2, <2>3
<1>2. /\ a \in 0..W-1 /\ b \in 0..W-1 /\ c \in 0..W-1
      /\ a + c \in 0..2*W-2 /\ b + c \in 0..2*W-2
  BY DEF Byte
<1>3. PICK x \in 0..2*W-2, y \in 0..2*W-2 : x = a + c /\ y = b + c
  BY <1>2
<1>5. x % W # y % W
  <2>1. /\ x % W = IF x < W THEN x ELSE x - W
        /\ y % W = IF y < W THEN y ELSE y - W
    BY <1>1
  <2> QED BY <1>2, <1>3, <2>1
<1>4. c + a = a + c /\ c + b = b + c
  BY <1>2
<1> QED BY <1>3, <1>4, <1>5

\* The length of a frame that is sent.
LEMMA Sizes == \A f \in Frames : f \in Frame /\ f.len = Len(f.body) /\ f.len \in 1..FRDATASIZE
OBVIOUS

\* What leaves is a byte, and the sum with it is one.
LEMMA Leaves ==
    ASSUME Sends, ~Done
    PROVE  ByteAt \in Byte /\ SumWith \in Byte
<1>1. cur \in Frame /\ cur.len = Len(cur.body) /\ cur.len \in 1..FRDATASIZE
  BY Sizes DEF Sends
<1>2. cur.cmd \in Byte /\ cur.len \in Byte /\ cur.hi \in Byte /\ cur.lo \in Byte /\ cur.body \in Seq(Byte)
  BY <1>1 DEF Frame
<1>3. PREFIX \in Byte /\ 0 \in Byte /\ total \in Byte /\ pos \in Nat
  BY DEF Sends, Byte
<1>4. ASSUME pos > 4, pos < cur.len + 5  PROVE cur.body[pos-4] \in Byte
  <2>1. pos - 4 \in 1..Len(cur.body)
    BY <1>1, <1>3, <1>4
  <2> QED BY <2>1, <1>2, ElementOfSeq
<1>5. ByteAt \in Byte
  BY <1>2, <1>3, <1>4 DEF ByteAt
<1> QED BY <1>3, <1>5, SumIsByte DEF SumWith
-----------------------------------------------------------------------------
(* The receiver keeps its type, whatever byte comes.                       *)

LEMMA ReceiverType ==
    ASSUME Receives, NEW ch \in Byte, sea_recvbyte(ch)
    PROVE  Receives'
<1>1. ch \in Nat /\ idx \in Nat /\ slot.len \in Nat /\ slot.body \in Seq(Byte)
      /\ Len(slot.body) \in Nat
  BY LenProperties DEF Receives, Frame, Byte
<1>5. CASE state = "WRECKED"
  BY <1>5 DEF sea_recvbyte, Receives, receiver
<1>2. CASE state # "WRECKED" /\ Starts(ch)
  BY <1>2, <1>1 DEF sea_recvbyte, Receives
<1>3. CASE /\ state # "WRECKED" /\ ~Starts(ch)
           /\ state # "DATA" \/ (idx = 1 /\ ~GoodLength(ch))
  BY <1>3, <1>1 DEF sea_recvbyte, Receives
<1>4. CASE ~Starts(ch) /\ state = "DATA" /\ (idx = 1 => GoodLength(ch))
  <2>1. /\ IF Behind THEN state' = "IDLE" /\ UNCHANGED <<in, slot, got>>
           ELSE Header(ch) \/ InBody(ch) \/ PastBody(ch) \/ Check(ch)
        /\ idx' = idx + 1
        /\ sum' = IF idx = 0 THEN ch ELSE (sum + ch) % W
    BY <1>4 DEF sea_recvbyte
  <2>2. sum' \in Byte
    BY <2>1, SumIsByte DEF Receives
  <2>3. ~Behind
    BY <1>4, <1>1 DEF Behind, Receives
  <2>4. CASE Header(ch)
    <3>1. state' = state /\ in' = in /\ got' = got
      BY <2>4 DEF Header, Field
    <3>2. idx \in 0..3 /\ (idx = 1 => slot' = [slot EXCEPT !.len = ch, !.body = <<>>])
                       /\ (idx # 1 => slot' \in {[slot EXCEPT !.cmd = ch], [slot EXCEPT !.hi = ch],
                                                 [slot EXCEPT !.lo = ch]})
      BY <2>4, <1>1 DEF Header, Field
    <3>3. slot \in Frame /\ <<>> \in Seq(Byte)
      BY EmptySeq DEF Receives
    <3>4. /\ slot' \in Frame
          /\ idx = 1 => slot'.len = ch /\ slot'.body = <<>>
          /\ idx # 1 => slot'.len = slot.len /\ slot'.body = slot.body
      BY <3>2, <3>3 DEF Frame
    <3>5. idx = 1 => Len(slot'.body) = 0
      BY <3>4, EmptySeq
    <3>6. idx # 1 => Len(slot'.body) = Len(slot.body)
      BY <3>4
    <3>7. /\ state' = "DATA" /\ idx' = idx + 1 /\ idx \in 0..3
          /\ idx >= 2 => GoodLength(slot.len) /\ (Len(slot.body) = 0 \/ Len(slot.body) + FEXTRASIZE <= idx)
          /\ Len(slot.body) <= FRDATASIZE
      BY <2>1, <3>1, <3>2, <1>4 DEF Receives
    <3>8. Len(slot'.body) <= FRDATASIZE
      BY <3>5, <3>6, <3>7
    <3>9. idx' >= 2 => /\ Len(slot'.body) = 0 \/ Len(slot'.body) + FEXTRASIZE <= idx'
                       /\ GoodLength(slot'.len) /\ idx' <= slot'.len + FEXTRASIZE
      BY <3>4, <3>5, <3>6, <3>7, <1>1, <1>4 DEF GoodLength
    <3> QED BY <2>2, <3>1, <3>4, <3>7, <3>8, <3>9 DEF Receives
  <2>5. CASE InBody(ch)
    <3>1. state' = state /\ in' = in /\ got' = got /\ slot' = [slot EXCEPT !.body = Append(@, ch)]
      BY <2>5 DEF InBody, Field
    <3>4. Append(slot.body, ch) \in Seq(Byte) /\ Len(Append(slot.body, ch)) = Len(slot.body) + 1
      BY <1>1, AppendProperties
    <3>5. slot \in [cmd : Byte, len : Byte, hi : Byte, lo : Byte, body : Seq(Byte)]
      BY DEF Receives, Frame
    <3>6. /\ slot' \in [cmd : Byte, len : Byte, hi : Byte, lo : Byte, body : Seq(Byte)]
          /\ slot'.len = slot.len /\ slot'.body = Append(slot.body, ch)
      BY <3>1, <3>4, <3>5
    <3>2. slot' \in Frame /\ slot'.len = slot.len /\ Len(slot'.body) = Len(slot.body) + 1
      BY <3>4, <3>6 DEF Frame
    <3>3. idx + 1 <= slot.len + FEXTRASIZE /\ idx >= FEXTRASIZE /\ idx < FRDATASIZE + FEXTRASIZE
      BY <2>5, <1>1 DEF InBody
    <3>7. /\ state' = "DATA" /\ idx' = idx + 1
          /\ GoodLength(slot.len) /\ (Len(slot.body) = 0 \/ Len(slot.body) + FEXTRASIZE <= idx)
      BY <2>1, <3>1, <3>3, <1>1, <1>4 DEF Receives
    <3>8. Len(slot'.body) + FEXTRASIZE <= idx' /\ Len(slot'.body) <= FRDATASIZE
      BY <3>2, <3>3, <3>7, <1>1
    <3>9. GoodLength(slot'.len) /\ idx' <= slot'.len + FEXTRASIZE /\ idx' \in 0..MAXFRMLEN+FEXTRASIZE+1
      BY <3>2, <3>3, <3>7, <1>1 DEF GoodLength
    <3>10. in' \in 0..FRAMEBUFLEN-1 /\ got' \in Frame \cup {NoFrame}
      BY <3>1 DEF Receives
    <3> QED BY <2>2, <3>2, <3>7, <3>8, <3>9, <3>10 DEF Receives
  <2>7. CASE PastBody(ch)
    BY <2>1, <2>2, <2>7, <1>1, <1>4 DEF Receives, PastBody, GoodLength
  <2>6. CASE Check(ch)
    <3>1. in' \in 0..FRAMEBUFLEN-1
      BY <2>6 DEF Receives, Check
    <3>2. /\ state' = "SUM" /\ slot' = slot /\ got' \in {slot, got} /\ idx' = idx + 1
          /\ idx = slot.len + FEXTRASIZE /\ idx >= FEXTRASIZE
      BY <2>1, <2>6 DEF Check
    <3>3. GoodLength(slot.len)
      BY <3>2, <1>4 DEF Receives
    <3>4. idx' \in 0..MAXFRMLEN+FEXTRASIZE+1
      BY <3>2, <3>3, <1>1 DEF GoodLength
    <3>5. slot' \in Frame /\ got' \in Frame \cup {NoFrame} /\ Len(slot'.body) <= FRDATASIZE
      BY <3>2 DEF Receives
    <3> QED BY <2>2, <3>1, <3>2, <3>4, <3>5 DEF Receives
  <2> QED BY <2>1, <2>3, <2>4, <2>5, <2>6, <2>7
<1> QED BY <1>2, <1>3, <1>4, <1>5
-----------------------------------------------------------------------------
(* Types.                                                                  *)

LEMMA SenderType ==
    ASSUME Sends, SendByte
    PROVE  Sends'
<1>1. cur.len \in Nat
  BY Sizes DEF Sends
<1> QED BY <1>1, Leaves DEF Sends, SendByte, Done, SumWith

LEMMA TypeInit == Init => TypeInv
<1> SUFFICES ASSUME Init PROVE TypeInv
  OBVIOUS
<1>1. Empty \in Frame
  BY EmptySeq DEF Empty, Frame, Byte
<1>3. Len(Empty.body) = 0
  BY EmptySeq DEF Empty
<1>2. cur.len \in Nat /\ 0 \in Byte
  BY Sizes DEF Init, Byte
<1> QED BY <1>1, <1>2, <1>3 DEF Init, TypeInv, Receives, Sends

\* A fault is counted.
LEMMA FaultType ==
    ASSUME TypeInv, Fault
    PROVE  faults' \in 0..FaultBound
<1>1. faults \in 0..FaultBound /\ faults < FaultBound /\ faults' = faults + 1
  BY DEF TypeInv, Fault
<1> QED BY <1>1

LEMMA TypeStep == TypeInv /\ [Next]_vars => TypeInv'
<1> SUFFICES ASSUME TypeInv, [Next]_vars PROVE TypeInv'
  OBVIOUS
<1>1. Receives /\ Sends /\ faults \in 0..FaultBound /\ fate \in {"clean", "hit", "lost"}
  BY DEF TypeInv
<1>2. CASE sea_putframe
  <2>1. cur'.len \in Nat /\ 0 \in Byte
    BY <1>2, Sizes DEF sea_putframe, Byte
  <2> QED BY <1>1, <1>2, <2>1 DEF sea_putframe, TypeInv, Receives, Sends, receiver
<1>3. CASE Arrives
  <2>1. SendByte /\ ~Done /\ sea_recvbyte(ByteAt)
    BY <1>3 DEF Arrives, SendByte
  <2>2. ByteAt \in Byte
    BY <1>1, <2>1, Leaves
  <2>3. Receives'
    BY <1>1, <2>1, <2>2, ReceiverType
  <2>4. Sends'
    BY <1>1, <2>1, SenderType
  <2> QED BY <1>1, <1>3, <2>3, <2>4 DEF Arrives, TypeInv
<1>4. CASE Lost
  <2>1. SendByte /\ Fault /\ UNCHANGED receiver /\ fate' = "lost"
    BY <1>4 DEF Lost
  <2>2. Receives'
    BY <1>1, <2>1 DEF Receives, receiver
  <2>3. Sends'
    BY <1>1, <2>1, SenderType
  <2> QED BY <2>1, <2>2, <2>3, FaultType DEF TypeInv
<1>5. CASE Changed
  <2>1. /\ SendByte /\ Fault /\ \E ch \in Byte : sea_recvbyte(ch)
        /\ fate' \in {"hit", "lost"}
    BY <1>5 DEF Changed
  <2>2. Receives'
    BY <1>1, <2>1, ReceiverType
  <2>3. Sends'
    BY <1>1, <2>1, SenderType
  <2> QED BY <2>1, <2>2, <2>3, FaultType DEF TypeInv
<1>6. CASE Noise
  <2>1. Fault /\ UNCHANGED sender /\ fate' = "lost" /\ \E ch \in Byte : sea_recvbyte(ch)
    BY <1>6 DEF Noise
  <2>2. Receives'
    BY <1>1, <2>1, ReceiverType
  <2>3. Sends'
    BY <1>1, <2>1 DEF Sends, sender
  <2> QED BY <2>1, <2>2, <2>3, FaultType DEF TypeInv
<1>7. CASE UNCHANGED vars
  BY <1>1, <1>7 DEF vars, sender, receiver, TypeInv, Receives, Sends
<1>8. CASE Restart
  <2>1. Empty \in Frame /\ Len(Empty.body) = 0 /\ 0 \in Byte
    BY EmptySeq DEF Empty, Frame, Byte
  <2>2. Receives'
    BY <1>1, <1>8, <2>1 DEF Restart, Receives
  <2>3. Sends'
    BY <1>1, <1>8 DEF Restart, Sends, sender
  <2> QED BY <1>1, <1>8, <2>2, <2>3 DEF Restart, TypeInv
<1> QED BY <1>2, <1>3, <1>4, <1>5, <1>6, <1>7, <1>8 DEF Next

\* Both ends keep their types on a faulty line: whatever length passes line 198 of frame.c,
\* idx stays within MAXFRMLEN and the sum, a body never holds more than its FRDATASIZE bytes,
\* and the next slot is one of the list.  What a length above FRDATASIZE does beyond the body
\* is the state WRECKED: the theorem does not say that it cannot come.
THEOREM TypeCorrect == Spec => []TypeOK
<1>1. TypeInv => TypeOK
  <2> SUFFICES ASSUME TypeInv PROVE TypeOK
    OBVIOUS
  <2>1. cur.len \in 1..FRDATASIZE
    BY Sizes DEF TypeInv, Sends
  <2> QED BY <2>1 DEF TypeInv, Receives, Sends, TypeOK
<1> QED BY <1>1, TypeInit, TypeStep, PTL DEF Spec
-----------------------------------------------------------------------------
(* A clean frame arrives.                                                  *)

\* The first byte of a frame puts the receiver to its beginning, unless it is inside one.
LEMMA FirstByte ==
    ASSUME TypeInv, pos = 0, Arrives, state \notin {"DATA", "WRECKED"}
    PROVE  Follows'
<1>1. cur.len \in Nat /\ ~Done /\ SendByte /\ sea_recvbyte(PREFIX)
  BY Sizes DEF TypeInv, Sends, Done, Arrives, SendByte, ByteAt
<1>2. state' = "DATA" /\ idx' = 0
  BY <1>1 DEF sea_recvbyte, Starts
<1>3. pos' = 1
  BY <1>1 DEF SendByte
<1> QED BY <1>2, <1>3 DEF Follows, Fields, BodySoFar

\* Each further byte of the frame is stored where it belongs; the length is good.
LEMMA NextByte ==
    ASSUME TypeInv, pos > 0, pos < cur.len + 5, Follows, Arrives
    PROVE  Follows'
<1> DEFINE ch == ByteAt
<1>1. /\ cur \in Frame /\ cur.len = Len(cur.body) /\ cur.len \in 1..FRDATASIZE
      /\ cur.body \in Seq(Byte) /\ cur.cmd \in Byte
  BY Sizes DEF TypeInv, Sends, Frame
<1>2. pos \in Nat /\ ~Done /\ pos' = pos + 1 /\ cur' = cur /\ total' = (total + ch) % W
  BY <1>1 DEF TypeInv, Sends, Arrives, SendByte, SumWith, Done
<1>3. state = "DATA" /\ idx = pos - 1 /\ Fields /\ BodySoFar /\ slot \in Frame /\ slot.body \in Seq(Byte)
  BY DEF Follows, TypeInv, Receives, Frame
<1>4. ch \in Byte
  BY <1>2, Leaves DEF TypeInv
<1>5. sea_recvbyte(ch) /\ ~Starts(ch)
  BY <1>3 DEF Arrives, Starts
<1>6. idx = 1 => GoodLength(ch)
  BY <1>1, <1>2, <1>3 DEF ByteAt, GoodLength
<1>7. ~Behind /\ (idx >= FEXTRASIZE => slot.len = cur.len /\ idx < slot.len + FEXTRASIZE)
  BY <1>1, <1>2, <1>3 DEF Fields, Behind
<1>14. idx < FRDATASIZE + FEXTRASIZE
  BY <1>1, <1>2, <1>3
<1>8. /\ Header(ch) \/ InBody(ch) \/ PastBody(ch) \/ Check(ch)
      /\ idx' = idx + 1
      /\ sum' = IF idx = 0 THEN ch ELSE (sum + ch) % W
  BY <1>3, <1>5, <1>6, <1>7 DEF sea_recvbyte
<1>9. Header(ch) \/ InBody(ch)
  BY <1>1, <1>2, <1>3, <1>7, <1>8, <1>14 DEF Check, PastBody
<1>10. state' = "DATA" /\ idx' = pos' - 1
  BY <1>2, <1>3, <1>8, <1>9 DEF Header, InBody, Field
<1>11. sum' = total'
  <2>1. CASE pos = 1
    <3>1. total' = ch
      BY <2>1, <1>2, <1>4, ByteStays DEF TypeInv, Sends
    <3> QED BY <2>1, <3>1, <1>3, <1>8
  <2>2. CASE pos # 1
    BY <2>2, <1>2, <1>3, <1>8 DEF Fields
  <2> QED BY <2>1, <2>2
<1>12. CASE Header(ch)
  <2>1. pos \in 1..4 /\ slot \in [cmd : Byte, len : Byte, hi : Byte, lo : Byte, body : Seq(Byte)]
    BY <1>2, <1>3, <1>12 DEF Header, Frame
  <2>2. CASE pos = 1
    BY <2>1, <2>2, <1>2, <1>3, <1>10, <1>11, <1>12 DEF Header, Field, ByteAt, Follows, Fields, BodySoFar
  <2>3. CASE pos = 2
    <3>1. slot' = [slot EXCEPT !.len = cur.len, !.body = <<>>]
      BY <2>3, <1>2, <1>3, <1>12 DEF Header, Field, ByteAt
    <3>2. slot'.cmd = slot.cmd /\ slot'.len = cur.len /\ slot'.body = <<>>
      BY <2>1, <3>1
    <3>3. Len(slot'.body) = 0
      BY <3>2, EmptySeq
    <3> QED BY <2>3, <3>2, <3>3, <1>2, <1>3, <1>10, <1>11 DEF Follows, Fields, BodySoFar
  <2>4. CASE pos = 3
    BY <2>1, <2>4, <1>2, <1>3, <1>10, <1>11, <1>12 DEF Header, Field, ByteAt, Follows, Fields, BodySoFar
  <2>5. CASE pos = 4
    BY <2>1, <2>5, <1>2, <1>3, <1>10, <1>11, <1>12 DEF Header, Field, ByteAt, Follows, Fields, BodySoFar
  <2> QED BY <2>1, <2>2, <2>3, <2>4, <2>5
<1>13. CASE InBody(ch)
  <2>1. pos >= 5 /\ slot' = [slot EXCEPT !.body = Append(@, ch)]
    BY <1>2, <1>3, <1>13 DEF InBody, Field
  <2>2. slot \in [cmd : Byte, len : Byte, hi : Byte, lo : Byte, body : Seq(Byte)]
    BY <1>3 DEF Frame
  <2>3. Fields'
    BY <2>1, <2>2, <1>2, <1>3, <1>11 DEF Fields
  <2>4. ch = cur.body[pos-4]
    BY <2>1, <1>1, <1>2 DEF ByteAt
  <2>5. slot'.body = Append(slot.body, ch)
    BY <2>1, <2>2
  <2>6. /\ Len(slot.body) = pos - 5
        /\ \A i \in 1..Len(slot.body) : slot.body[i] = cur.body[i]
    BY <2>1, <1>2, <1>3 DEF BodySoFar
  <2>7. /\ Len(slot'.body) = pos - 4
        /\ \A i \in 1..pos-5 : slot'.body[i] = slot.body[i]
        /\ slot'.body[pos-4] = ch
    BY <2>1, <2>5, <2>6, <1>2, <1>3, <1>4, AppendProperties
  <2>8. \A i \in 1..pos-4 : slot'.body[i] = cur.body[i]
    BY <2>1, <2>4, <2>6, <2>7, <1>2
  <2>9. BodySoFar'
    BY <2>1, <2>7, <2>8, <1>2 DEF BodySoFar
  <2> QED BY <2>3, <2>9, <1>10 DEF Follows
<1> QED BY <1>9, <1>12, <1>13

\* The sum is that of the sender: the frame is taken, and it is cur.
LEMMA LastByte ==
    ASSUME TypeInv, pos = cur.len + 5, Follows, Arrives
    PROVE  got' = cur'
<1>1. /\ cur \in Frame /\ cur.len = Len(cur.body) /\ cur.len \in 1..FRDATASIZE
      /\ cur.body \in Seq(Byte)
  BY Sizes DEF TypeInv, Sends, Frame
<1>2. pos \in Nat /\ cur' = cur /\ ByteAt = total /\ total \in Byte
  BY <1>1 DEF TypeInv, Sends, Arrives, SendByte, ByteAt
<1>3. state = "DATA" /\ idx = pos - 1 /\ Fields /\ BodySoFar /\ slot \in Frame /\ slot.body \in Seq(Byte)
  BY DEF Follows, TypeInv, Receives, Frame
<1>4. idx = slot.len + FEXTRASIZE /\ idx > 4 /\ sum = total
  BY <1>1, <1>2, <1>3 DEF Fields
<1>5. Check(total)
  <2>1. sea_recvbyte(total) /\ ~Starts(total) /\ ~Behind /\ idx # 1 /\ state # "WRECKED"
    BY <1>2, <1>3, <1>4 DEF Arrives, Starts, Behind
  <2>2. Header(total) \/ InBody(total) \/ PastBody(total) \/ Check(total)
    BY <2>1, <1>3 DEF sea_recvbyte
  <2>3. idx \in Nat /\ slot.len \in Nat
    BY <1>3, <1>4, <1>2 DEF Frame, Byte
  <2> QED
    BY <2>2, <2>3, <1>4 DEF Header, InBody, PastBody
<1>6. got' = slot
  BY <1>4, <1>5 DEF Check
<1>7. slot.body = cur.body
  <2>1. Len(slot.body) = Len(cur.body) /\ \A i \in 1..Len(slot.body) : slot.body[i] = cur.body[i]
    BY <1>1, <1>2, <1>3 DEF BodySoFar
  <2> QED
    BY <1>1, <1>3, <2>1, SeqEqual
<1>8. slot = cur
  BY <1>1, <1>2, <1>3, <1>7 DEF Fields, Frame
<1> QED BY <1>2, <1>6, <1>8

-----------------------------------------------------------------------------
(* A frame that is hit does not.                                           *)

\* Behind the prefix the receiver goes on with the sender, whatever the byte, if it is not
\* the length, and takes no frame before the last one.
LEMMA GoesOn ==
    ASSUME TypeInv, pos > 0, pos < cur.len + 5, SendByte, NEW ch \in Byte, sea_recvbyte(ch),
           state = "DATA", idx = pos - 1, pos >= 3 => slot.len = cur.len,
           pos = 2 => ch = cur.len
    PROVE  /\ state' = "DATA" /\ idx' = pos' - 1 /\ got' = got
           /\ pos' >= 3 => slot'.len = cur'.len
           /\ sum' = IF pos = 1 THEN ch ELSE (sum + ch) % W
<1>1. cur.len \in 1..FRDATASIZE /\ pos \in Nat /\ pos' = pos + 1 /\ cur' = cur
  BY Sizes DEF TypeInv, Sends, SendByte
<1>2. ~Starts(ch) /\ (idx = 1 => GoodLength(ch))
  BY <1>1 DEF Starts, GoodLength
<1>3. ~Behind /\ (idx >= FEXTRASIZE => idx < slot.len + FEXTRASIZE) /\ idx < FRDATASIZE + FEXTRASIZE
  BY <1>1 DEF Behind
<1>4. /\ Header(ch) \/ InBody(ch) \/ PastBody(ch) \/ Check(ch)
      /\ idx' = idx + 1
      /\ sum' = IF idx = 0 THEN ch ELSE (sum + ch) % W
  BY <1>2, <1>3 DEF sea_recvbyte
<1>5. Header(ch) \/ InBody(ch)
  BY <1>1, <1>3, <1>4 DEF Check, PastBody
<1>6. state' = "DATA" /\ got' = got
  BY <1>5 DEF Header, InBody, Field
<1>7. slot \in [cmd : Byte, len : Byte, hi : Byte, lo : Byte, body : Seq(Byte)]
  BY DEF TypeInv, Receives, Frame
<1>8. pos' >= 3 => slot'.len = cur'.len
  <2>1. CASE pos = 2
    <3>1. slot' = [slot EXCEPT !.len = ch, !.body = <<>>] /\ ch = cur.len
      BY <1>5, <2>1 DEF Header, InBody, Field
    <3>2. [slot EXCEPT !.len = ch, !.body = <<>>].len = ch
      BY <1>7
    <3> QED BY <1>1, <3>1, <3>2
  <2>2. CASE pos >= 3
    <3>1. slot' \in {[slot EXCEPT !.hi = ch], [slot EXCEPT !.lo = ch],
                    [slot EXCEPT !.body = Append(@, ch)]}
      BY <1>1, <1>5, <2>2 DEF Header, InBody, Field
    <3>2. /\ [slot EXCEPT !.hi = ch].len = slot.len /\ [slot EXCEPT !.lo = ch].len = slot.len
          /\ [slot EXCEPT !.body = Append(@, ch)].len = slot.len
      BY <1>7
    <3>3. slot'.len = slot.len
      BY <3>1, <3>2
    <3> QED BY <1>1, <2>2, <3>3
  <2> QED BY <1>1, <2>1, <2>2
<1>9. idx' = pos' - 1 /\ sum' = IF pos = 1 THEN ch ELSE (sum + ch) % W
  BY <1>1, <1>4
<1> QED BY <1>6, <1>8, <1>9

\* The last byte, when it is not the receiver's sum.
LEMMA NotTaken ==
    ASSUME TypeInv, pos = cur.len + 5, NEW ch \in Byte, sea_recvbyte(ch), ch # sum,
           state = "DATA", idx = pos - 1, slot.len = cur.len
    PROVE  got' = got
<1>1. cur.len \in 1..FRDATASIZE /\ pos \in Nat
  BY Sizes DEF TypeInv, Sends
<1>2. idx = slot.len + FEXTRASIZE /\ idx > 4
  BY <1>1
<1>3. Check(ch)
  BY <1>1, <1>2 DEF sea_recvbyte, Starts, Behind, Header, InBody, PastBody
<1> QED BY <1>3 DEF Check

\* One byte is changed: from here on the two sums differ.
LEMMA Hit ==
    ASSUME TypeInv, InStep, fate = "clean", pos \notin {0, 2}, SendByte,
           NEW ch \in Byte \ {ByteAt}, sea_recvbyte(ch)
    PROVE  got' = got /\ pos' >= 2 /\ (~Done' => Astray')
<1>1. cur.len \in 1..FRDATASIZE /\ pos \in Nat /\ pos' = pos + 1 /\ cur' = cur /\ pos > 0
  BY Sizes DEF TypeInv, Sends, SendByte
<1>2. ~Done /\ pos < cur.len + 6 /\ total' = (total + ByteAt) % W /\ ByteAt \in Byte
  BY <1>1, Leaves DEF TypeInv, Sends, SendByte, SumWith, Done
<1>3. Follows
  BY <1>1, <1>2 DEF InStep
<1>4. state = "DATA" /\ idx = pos - 1 /\ (pos >= 3 => slot.len = cur.len) /\ (pos >= 2 => sum = total)
  BY <1>3 DEF Follows, Fields
<1>5. CASE pos < cur.len + 5
  <2>1. /\ state' = "DATA" /\ idx' = pos' - 1 /\ got' = got
        /\ pos' >= 3 => slot'.len = cur'.len
        /\ sum' = IF pos = 1 THEN ch ELSE (sum + ch) % W
    BY <1>1, <1>4, <1>5, GoesOn
  <2>2. total \in Byte /\ (pos = 1 => total' = ByteAt)
    BY <1>2, ByteStays DEF TypeInv, Sends
  <2>3. sum' # total'
    <3>1. CASE pos = 1
      BY <2>1, <2>2, <3>1
    <3>2. CASE pos # 1
      BY <1>1, <1>2, <1>4, <2>1, <2>2, <3>2, SumsDiffer
    <3> QED BY <3>1, <3>2
  <2> QED BY <1>1, <2>1, <2>3 DEF Astray
<1>6. CASE pos = cur.len + 5
  <2>1. ByteAt = total /\ Done'
    BY <1>1, <1>6 DEF ByteAt, Done
  <2> QED BY <1>1, <1>4, <1>6, <2>1, NotTaken
<1> QED BY <1>1, <1>2, <1>5, <1>6

\* The other bytes of a frame that was hit arrive: the sums stay apart.
LEMMA StaysHit ==
    ASSUME TypeInv, InStep, fate = "hit", Arrives
    PROVE  got' = got /\ pos' >= 2 /\ (~Done' => Astray')
<1>1. /\ cur.len \in 1..FRDATASIZE /\ pos \in Nat /\ SendByte /\ sea_recvbyte(ByteAt)
      /\ pos' = pos + 1 /\ cur' = cur
  BY Sizes DEF TypeInv, Sends, Arrives, SendByte
<1>2. ~Done /\ pos < cur.len + 6 /\ total' = (total + ByteAt) % W /\ ByteAt \in Byte /\ pos >= 2
  BY <1>1, Leaves DEF TypeInv, Sends, SendByte, SumWith, Done, InStep
<1>3. Astray
  BY <1>2 DEF InStep
<1>4. CASE pos < cur.len + 5
  <2>1. pos = 2 => ByteAt = cur.len
    BY DEF ByteAt
  <2>2. /\ state' = "DATA" /\ idx' = pos' - 1 /\ got' = got
        /\ pos' >= 3 => slot'.len = cur'.len
        /\ sum' = (sum + ByteAt) % W
    BY <1>1, <1>2, <1>3, <1>4, <2>1, GoesOn DEF Astray
  <2>3. sum \in Byte /\ total \in Byte /\ sum # total
    BY <1>3 DEF TypeInv, Receives, Sends, Astray
  <2>4. sum' # total'
    BY <1>2, <2>2, <2>3, SumsDiffer
  <2> QED BY <1>1, <1>2, <2>2, <2>4 DEF Astray
<1>5. CASE pos = cur.len + 5
  <2>1. ByteAt = total /\ Done' /\ pos >= 3
    BY <1>1, <1>5 DEF ByteAt, Done
  <2>2. ByteAt # sum /\ state = "DATA" /\ idx = pos - 1 /\ slot.len = cur.len
    BY <1>3, <2>1 DEF Astray
  <2> QED BY <1>1, <1>2, <1>5, <2>1, <2>2, NotTaken
<1> QED BY <1>1, <1>2, <1>4, <1>5
-----------------------------------------------------------------------------
LEMMA InStepInit == Init => InStep
<1> SUFFICES ASSUME Init PROVE InStep
  OBVIOUS
<1>1. pos = 0 /\ cur.len \in Nat /\ fate = "clean"
  BY Sizes DEF Init
<1> QED BY <1>1 DEF InStep, Done

LEMMA InStepStep == TypeInv /\ InStep /\ [Next]_vars => InStep'
<1> SUFFICES ASSUME TypeInv, InStep, [Next]_vars PROVE InStep'
  OBVIOUS
<1>1. cur \in Frames /\ cur.len \in 1..FRDATASIZE /\ pos \in Nat
  BY Sizes DEF TypeInv, Sends
<1>2. CASE sea_putframe
  <2>1. pos' = 0 /\ cur'.len \in Nat /\ fate' = "clean"
    BY <1>2, Sizes DEF sea_putframe
  <2> QED BY <2>1 DEF InStep, Done
<1>3. CASE Arrives /\ fate' = "clean"
  <2>1. ~Done /\ pos' = pos + 1 /\ cur' = cur /\ fate = "clean"
        /\ (pos = 0 => state \notin {"DATA", "WRECKED"})
    BY <1>3 DEF Arrives, SendByte
  <2>2. pos < cur.len + 6
    BY <1>1, <2>1 DEF TypeInv, Sends, Done
  <2> SUFFICES (~Done /\ pos > 0 => Follows)' /\ (Done => got = cur)'
    BY <1>3 DEF InStep
  <2>3. CASE pos = 0
    BY <1>1, <1>3, <2>1, <2>3, FirstByte DEF Done
  <2>4. CASE pos > 0 /\ pos < cur.len + 5
    <3>1. Follows /\ ~Done'
      BY <1>1, <2>1, <2>4 DEF InStep, Done
    <3> QED BY <1>3, <2>4, <3>1, NextByte
  <2>5. CASE pos = cur.len + 5
    <3>1. Follows /\ Done'
      BY <1>1, <2>1, <2>5 DEF InStep, Done
    <3> QED BY <1>3, <2>5, <3>1, LastByte
  <2> QED BY <1>1, <2>2, <2>3, <2>4, <2>5
<1>4. CASE Arrives /\ fate' = "hit"
  <2>1. fate = "hit"
    BY <1>4 DEF Arrives
  <2> QED BY <1>4, <2>1, StaysHit DEF InStep
<1>5. CASE Changed /\ fate' = "hit"
  <2>1. fate = "clean" /\ pos \notin {0, 2} /\ SendByte /\ \E ch \in Byte \ {ByteAt} : sea_recvbyte(ch)
    BY <1>5 DEF Changed
  <2> QED BY <1>5, <2>1, Hit DEF InStep
<1>6. CASE fate' = "lost"
  BY <1>6 DEF InStep
<1>7. CASE UNCHANGED vars
  BY <1>7 DEF vars, sender, receiver, InStep, Done, Follows, Fields, BodySoFar, Astray
<1>9. CASE Restart
  <2>1. state = "WRECKED" /\ UNCHANGED <<sender, got, fate>>
    BY <1>9 DEF Restart
  <2>2. fate = "clean" => pos = 0 \/ Done
    BY <1>1, <2>1 DEF InStep, Follows
  <2>3. fate = "hit" => Done
    BY <1>1, <2>1 DEF InStep, Astray
  <2> QED BY <1>1, <2>1, <2>2, <2>3 DEF InStep, Done, sender
<1>8. ASSUME Arrives \/ Lost \/ Changed \/ Noise
      PROVE  \/ Arrives /\ fate' \in {"clean", "hit"}
             \/ Changed /\ fate' = "hit"
             \/ fate' = "lost"
  <2>1. fate \in {"clean", "hit", "lost"}
    BY DEF TypeInv
  <2>2. CASE Arrives
    <3>1. fate' = fate \/ fate' = "lost"
      BY <2>2 DEF Arrives
    <3>2. fate' \in {"clean", "hit", "lost"}
      BY <2>1, <3>1
    <3> QED BY <2>2, <3>2
  <2>3. CASE Changed
    <3>1. fate' = "hit" \/ fate' = "lost"
      BY <2>3 DEF Changed
    <3> QED BY <2>3, <3>1
  <2>4. CASE Lost \/ Noise
    BY <2>4 DEF Lost, Noise
  <2> QED BY <1>8, <2>2, <2>3, <2>4
<1> QED BY <1>2, <1>3, <1>4, <1>5, <1>6, <1>7, <1>8, <1>9 DEF Next

\* A frame to which nothing happens on the line, and whose first byte finds a receiver that
\* works and is not inside another frame, is taken as it was sent: its bytes, a prefix or a
\* sum that is a prefix among them, cannot make the receiver lose it, nor can what faults
\* have left in its state.
THEOREM CleanArrives == Spec => []Transparent
<1>1. InStep => Transparent
  BY DEF InStep, Transparent
<1> QED BY <1>1, TypeInit, TypeStep, InStepInit, InStepStep, PTL DEF Spec

\* A frame with one changed byte is not taken, for every size of a byte and of a body and
\* wherever the byte is but in the prefix or the length: the sum of sea_recvbyte and its
\* stillness behind the prefix (frame.c:176-233) notice it together.
THEOREM DamageIsNoticed == Spec => DamageNoticed
<1>1. ASSUME TypeInv, InStep, [Next]_vars, fate' = "hit"
      PROVE  got' = got
  <2>1. CASE sea_putframe \/ Lost \/ Noise
    BY <1>1, <2>1 DEF sea_putframe, Lost, Noise
  <2>2. CASE Arrives
    BY <1>1, <2>2, StaysHit DEF Arrives
  <2>3. CASE Changed
    <3>1. fate = "clean" /\ pos \notin {0, 2} /\ SendByte /\ \E ch \in Byte \ {ByteAt} : sea_recvbyte(ch)
      BY <1>1, <2>3 DEF Changed
    <3> QED BY <1>1, <3>1, Hit
  <2>4. CASE UNCHANGED vars \/ Restart
    BY <2>4 DEF vars, receiver, Restart
  <2> QED BY <1>1, <2>1, <2>2, <2>3, <2>4 DEF Next
<1> QED BY <1>1, TypeInit, TypeStep, InStepInit, InStepStep, PTL DEF Spec, DamageNoticed
=============================================================================
