------------------------------- MODULE Framing -------------------------------
(***************************************************************************)
(* Frames on a serial line (src/lamps/sealib/lamp/frame.c): one side puts  *)
(* frames byte by byte, the other finds them in what arrives.  The line    *)
(* may lose a byte, change one, or deliver one that nobody sent.           *)
(*                                                                         *)
(* The coordinator takes a frame in the call that received its last byte   *)
(* (sinkCommandHandler), so of the list of four frames there is the slot   *)
(* that is being filled, and which one it is: behind the last one is the   *)
(* pointer to sea_getframe.                                                *)
(***************************************************************************)
EXTENDS Naturals, Sequences

CONSTANTS
    W,           \* values of a byte
    PREFIX,      \* the byte a frame starts with
    FRDATASIZE,  \* bytes of the body of a frame
    FRAMEBUFLEN, \* frames in the list: 4
    Frames,      \* the frames that are sent
    NoFrame,
    FaultBound   \* bytes lost, changed or made up by the line

Byte       == 0..W-1
FEXTRASIZE == 4
MAXFRMLEN  == FRDATASIZE + FEXTRASIZE
Frame == [cmd : Byte, len : Byte, hi : Byte, lo : Byte, body : Seq(Byte)]

ASSUME FramingAssumption ==
    /\ W \in Nat \ {0} /\ PREFIX \in Byte /\ FRDATASIZE \in Nat /\ FRDATASIZE < W
    /\ FRAMEBUFLEN \in Nat /\ FRAMEBUFLEN > 1
    /\ Frames \subseteq Frame /\ NoFrame \notin Frame /\ FaultBound \in Nat
    /\ \A f \in Frames : f.len = Len(f.body) /\ f.len \in 1..FRDATASIZE

VARIABLES
    cur,    \* the frame that is sent, or was sent last
    pos,    \* bytes of it that have left
    total,  \* sum of these bytes, in sea_putstring
    state,  \* frm->state: IDLE, DATA or SUM; WRECKED when frm->get is overwritten
    in,     \* frm->in
    idx,    \* frm->idx
    sum,    \* sum, in sea_recvbyte
    slot,   \* frm->list[frm->in], of the body the bytes received so far that it has
    got,    \* the frame that sea_getframe gave last
    faults, \* faults of the line so far
    fate    \* history: what the line has done to cur.  "clean": nothing, and its first byte
            \* met a receiver that works and was not inside a frame; "hit": to such a frame
            \* only that one byte was changed, not the prefix and not the length; "lost": more

sender   == <<cur, pos, total>>
receiver == <<state, in, idx, sum, slot, got>>
vars     == <<sender, receiver, faults, fate>>
-----------------------------------------------------------------------------
(* The receiver.                                                           *)

\* Slip: the prefix starts a frame wherever it stands.
StartAnywhere(ch) == ch = PREFIX

Starts(ch) == ch = PREFIX /\ state # "DATA"

\* Slip: the length is not looked at.
AnyLength(len) == TRUE

GoodLength(len) == len <= MAXFRMLEN

Field(f) == slot' = f /\ UNCHANGED <<state, in, got>>

\* The bytes of a frame behind the prefix, before the sum.
Header(ch) ==
    \/ idx = 0 /\ Field([slot EXCEPT !.cmd = ch])
    \/ idx = 1 /\ GoodLength(ch) /\ Field([slot EXCEPT !.len = ch, !.body = <<>>])
    \/ idx = 2 /\ Field([slot EXCEPT !.hi = ch])
    \/ idx = 3 /\ Field([slot EXCEPT !.lo = ch])

InBody(ch) ==
    /\ idx >= FEXTRASIZE /\ idx < slot.len + FEXTRASIZE /\ idx < FRDATASIZE + FEXTRASIZE
    /\ Field([slot EXCEPT !.body = Append(@, ch)])

\* A byte behind the body, of a frame with a length above FRDATASIZE.  In the head of the
\* next slot it does no harm, it is written again before it is read.  Behind the last slot
\* is frm->get, which is called next: unless the byte is the one that was there, what the
\* program does from then on is not defined.
PastBody(ch) ==
    /\ idx < slot.len + FEXTRASIZE /\ idx >= FRDATASIZE + FEXTRASIZE
    /\ state' = state \/ (in = FRAMEBUFLEN - 1 /\ state' = "WRECKED")
    /\ UNCHANGED <<in, slot, got>>

\* Slip: the sum does not end the frame.
CheckOnly(ch) ==
    /\ idx >= FEXTRASIZE /\ idx = slot.len + FEXTRASIZE
    /\ IF sum = ch THEN got' = slot /\ in' = (in + 1) % FRAMEBUFLEN ELSE UNCHANGED <<got, in>>
    /\ UNCHANGED <<state, slot>>

\* Slip: the sum is not compared.
CheckNothing(ch) ==
    /\ idx >= FEXTRASIZE /\ idx = slot.len + FEXTRASIZE
    /\ got' = slot /\ in' = (in + 1) % FRAMEBUFLEN /\ state' = "SUM" /\ UNCHANGED slot

\* The last byte: the frame is taken if the sum is right.
Check(ch) ==
    /\ idx >= FEXTRASIZE /\ idx = slot.len + FEXTRASIZE
    /\ IF sum = ch THEN got' = slot /\ in' = (in + 1) % FRAMEBUFLEN ELSE UNCHANGED <<got, in>>
    /\ state' = "SUM" /\ UNCHANGED slot

Behind == idx >= FEXTRASIZE /\ idx > slot.len + FEXTRASIZE

\* sea_recvbyte, and sea_getframe behind it.  A length that cannot be, and a byte behind
\* the sum, end the frame.  A program that has lost its way is taken to receive nothing.
sea_recvbyte(ch) ==
    IF state = "WRECKED" THEN UNCHANGED receiver
    ELSE IF Starts(ch) THEN state' = "DATA" /\ idx' = 0 /\ UNCHANGED <<in, sum, slot, got>>
    ELSE IF state # "DATA" \/ (idx = 1 /\ ~GoodLength(ch))
    THEN state' = "IDLE" /\ UNCHANGED <<in, idx, sum, slot, got>>
    ELSE /\ IF Behind THEN state' = "IDLE" /\ UNCHANGED <<in, slot, got>>
            ELSE Header(ch) \/ InBody(ch) \/ PastBody(ch) \/ Check(ch)
         /\ idx' = idx + 1
         /\ sum' = IF idx = 0 THEN ch ELSE (sum + ch) % W
-----------------------------------------------------------------------------
(* The sender.                                                             *)

Done == pos = cur.len + FEXTRASIZE + 2

\* The byte of cur that leaves next.
ByteAt ==
    CASE pos = 0 -> PREFIX
      [] pos = 1 -> cur.cmd
      [] pos = 2 -> cur.len
      [] pos = 3 -> cur.hi
      [] pos = 4 -> cur.lo
      [] pos > 4 /\ pos < cur.len + 5 -> cur.body[pos-4]
      [] OTHER -> total

\* What the sum is with it; the prefix is not counted.
SumWith == IF pos = 0 THEN 0 ELSE (total + ByteAt) % W

sea_putframe ==
    /\ Done /\ cur' \in Frames /\ pos' = 0 /\ total' = 0 /\ fate' = "clean"
    /\ UNCHANGED <<receiver, faults>>

SendByte == ~Done /\ pos' = pos + 1 /\ total' = SumWith /\ cur' = cur

Arrives ==
    /\ SendByte /\ sea_recvbyte(ByteAt)
    /\ fate' = IF pos = 0 /\ state \in {"DATA", "WRECKED"} THEN "lost" ELSE fate
    /\ UNCHANGED faults

Fault == faults < FaultBound /\ faults' = faults + 1

Lost    == Fault /\ SendByte /\ fate' = "lost" /\ UNCHANGED receiver
Changed ==
    /\ Fault /\ SendByte /\ \E ch \in Byte \ {ByteAt} : sea_recvbyte(ch)
    /\ fate' = IF fate = "clean" /\ pos \notin {0, 2} THEN "hit" ELSE "lost"
Noise   == Fault /\ ~Done /\ (\E ch \in Byte : sea_recvbyte(ch)) /\ fate' = "lost" /\ UNCHANGED sender

Empty == [cmd |-> 0, len |-> 0, hi |-> 0, lo |-> 0, body |-> <<>>]

\* A wrecked receiver is switched off and on, maybe.
Restart ==
    /\ state = "WRECKED"
    /\ state' = "IDLE" /\ in' = 0 /\ idx' = 0 /\ sum' = 0 /\ slot' = Empty
    /\ UNCHANGED <<sender, got, faults, fate>>
-----------------------------------------------------------------------------

\* Both sides have just been switched on.
Init ==
    /\ cur \in Frames /\ pos = 0 /\ total = 0
    /\ state = "IDLE" /\ in = 0 /\ idx = 0 /\ sum = 0 /\ slot = Empty /\ got = NoFrame
    /\ faults = 0 /\ fate = "clean"

Next == sea_putframe \/ Arrives \/ Lost \/ Changed \/ Noise \/ Restart

\* The sender goes on, and the line delivers.
Fairness == WF_vars(sea_putframe) /\ WF_vars(Arrives)

Spec     == Init /\ [][Next]_vars
FairSpec == Spec /\ Fairness
-----------------------------------------------------------------------------
TypeOK ==
    /\ cur \in Frames /\ pos \in 0..FRDATASIZE+FEXTRASIZE+2 /\ total \in Byte
    /\ state \in {"IDLE", "DATA", "SUM", "WRECKED"} /\ in \in 0..FRAMEBUFLEN-1
    /\ idx \in 0..MAXFRMLEN+FEXTRASIZE+1 /\ sum \in Byte
    /\ slot \in Frame /\ Len(slot.body) <= FRDATASIZE /\ got \in Frame \cup {NoFrame}
    /\ faults \in 0..FaultBound /\ fate \in {"clean", "hit", "lost"}

\* A frame to which nothing happens, and whose first byte meets a receiver that is neither
\* inside a frame nor wrecked by a damaged length, arrives as it was sent, whatever else was
\* on the line before it and whatever bytes it has: also a prefix in its body, also a sum
\* that is a prefix.
Transparent == Done /\ fate = "clean" => got = cur

\* A frame of which one byte is changed is never taken, unless the byte is the prefix or
\* the length: not when it is changed into a prefix and not when the sum is what changed.
DamageNoticed == [][fate' = "hit" => got' = got]_vars

\* No byte but the first of a frame is a prefix.
Quiet == ~Done /\ pos > 0 => ByteAt # PREFIX

\* Once the line is good, and the frames have no prefix inside, the receiver finds the
\* beginning of a frame again, and from then on no frame is lost.  Only from a length that
\* has led it over frm->get it need not recover.
Resync == <>[]Quiet /\ <>[](state # "WRECKED") => <>[](Done => fate = "clean")
=============================================================================
