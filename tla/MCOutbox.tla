------------------------------ MODULE MCOutbox ------------------------------
(* A small instance of Outbox: two responses that differ, and a report. *)
EXTENDS Outbox

CONSTANTS none

MCMsgs == {[id |-> "RESPONSE", body |-> 1], [id |-> "RESPONSE", body |-> 2],
           [id |-> "RPT", body |-> 0]}
MCNoMsg == [id |-> none, body |-> 0]
=============================================================================
