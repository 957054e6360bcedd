-------------------------------- MODULE Fifo --------------------------------
(* What the message queue of a radio module comes to: a bounded queue, and  *)
(* the message taken last stays readable until the next one is taken.  It   *)
(* has no test for a full queue: one message more drops all that wait, and  *)
(* takes the place of the message taken last.                               *)
EXTENDS Naturals, Sequences

CONSTANTS
    Msgs,   \* the messages
    NoMsg,  \* what is read before a message was taken
    Limit   \* messages that may wait

VARIABLES
    queue,  \* the messages that wait
    taken   \* the message taken last

Init == queue = <<>> /\ taken = NoMsg

Put(m) == Len(queue) < Limit /\ queue' = Append(queue, m) /\ UNCHANGED taken

Overrun(m) ==
    /\ Len(queue) >= Limit /\ queue' = <<>>
    /\ taken' = IF taken = NoMsg THEN NoMsg ELSE m

Send(m) == Put(m) \/ Overrun(m)

Get ==
    /\ queue # <<>>
    /\ taken' = Head(queue) /\ queue' = Tail(queue)

Next == Get \/ \E m \in Msgs : Send(m)
Spec == Init /\ [][Next]_<<queue, taken>>
=============================================================================
