----------------------------- MODULE MCDownload -----------------------------
(* A small instance of Download: car 2 may get the address that car 1 had.  A record has
   two rows, and the third row of the table of car 1 is written over the head of the
   record of car 2, which then names car 1 and counts three rows. *)
EXTENDS Download

CONSTANTS a1, none

MCAddrs == {a1}
s == [id |-> 2, action |-> 4]
p == [id |-> 3, action |-> 1]
q == [id |-> 1, action |-> 3]
MCRows  == {p, q, s}
MCGiven == <<{<<s, p, q>>}, {}>>
MCPlace == <<0, 3>>
MCNoMsg == [cmd |-> none]
=============================================================================
