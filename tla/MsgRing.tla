------------------------------ MODULE MsgRing ------------------------------
(***************************************************************************)
(* send1, the ring of outgoing messages of a radio module                  *)
(* (src/lamps/sealib/lamp/msg.c).  The ring has no count: it is empty when *)
(* the two positions are equal, and sea_sendmsg does not look whether it   *)
(* is full: with one slot left it makes the positions equal.  curmsg       *)
(* points into the ring, at the message taken last.                        *)
(***************************************************************************)
EXTENDS Integers, Sequences

CONSTANTS
    Msgs,        \* the messages
    NoMsg,       \* the content of a cleared slot
    MAXMSGSIZE   \* slots of the ring

ASSUME RingAssumption == MAXMSGSIZE \in Nat \ {0} /\ NoMsg \notin Msgs

VARIABLES
    list,    \* send1.list
    in, out, \* send1.in, send1.out
    curmsg   \* send1.curmsg: a slot, or NULL

ringVars == <<list, in, out, curmsg>>
Slots    == 0..MAXMSGSIZE-1
NULL     == -1

\* init_msginfo
RingInit == list = [s \in Slots |-> NoMsg] /\ in = 0 /\ out = 0 /\ curmsg = NULL

\* A position moves on to the next slot, round the end.
After(s) == IF s + 1 >= MAXMSGSIZE THEN 0 ELSE s + 1

sea_msgisempty == out = in

\* The messages between the two positions.
Count    == IF in >= out THEN in - out ELSE in - out + MAXMSGSIZE
SlotOf(i) == IF out + i - 1 >= MAXMSGSIZE THEN out + i - 1 - MAXMSGSIZE ELSE out + i - 1
Queue    == [i \in 1..Count |-> list[SlotOf(i)]]
Taken    == IF curmsg = NULL THEN NoMsg ELSE list[curmsg]

\* Slip: the position moves on before the message is written.
SendAfterMove(m) ==
    /\ in' = After(in) /\ list' = [list EXCEPT ![After(in)] = m]
    /\ UNCHANGED <<out, curmsg>>

\* Without a look at the messages that wait.
sea_sendmsg(m) ==
    /\ list' = [list EXCEPT ![in] = m] /\ in' = After(in)
    /\ UNCHANGED <<out, curmsg>>

\* Slip: the position goes one past the last slot before it returns to the first.
GetPastEnd ==
    /\ ~sea_msgisempty
    /\ curmsg' = out /\ out' = IF out + 1 > MAXMSGSIZE THEN 0 ELSE out + 1
    /\ UNCHANGED <<list, in>>

sea_getmsg ==
    /\ ~sea_msgisempty
    /\ curmsg' = out /\ out' = After(out)
    /\ UNCHANGED <<list, in>>

RingNext == sea_getmsg \/ \E m \in Msgs : sea_sendmsg(m)
RingSpec == RingInit /\ [][RingNext]_ringVars

\* The ring is the bounded queue of all slots but one.  What curmsg points at stays the
\* message taken last until the next is taken, but for one case: one message more than
\* fits empties the queue and lands in the slot under curmsg (msg.c:73-87 has no test).
F == INSTANCE Fifo WITH queue <- Queue, taken <- Taken, Limit <- MAXMSGSIZE - 1
FifoSpec == F!Spec
=============================================================================
