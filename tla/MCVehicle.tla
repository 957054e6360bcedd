----------------------------- MODULE MCVehicle -----------------------------
(* Small instances of Vehicle. *)
EXTENDS Vehicle

Row(c, a) == [id |-> c, action |-> a]

\* A round trip that passes card 2 twice, and the way home (short, one STOP).
RoundTrip == <<Row(2, "LEFT"), Row(2, "STOP"), Row(1, "STOP")>>
WayHome   == <<Row(2, "LEFT"), Row(1, "STOP")>>
MCTables  == {RoundTrip, WayHome}
MCFlash   == {<<>>}

\* The smallest round for the liveness properties: a station, then the end, no way home.
LiveTables == {<<Row(1, "STOP"), Row(2, "STOP")>>}
LiveFlash  == {<<>>}
MCCards   == {1, 2}
=============================================================================
