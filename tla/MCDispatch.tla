---------------------------- MODULE MCDispatch ----------------------------
(* Small instances of Dispatch: one caller station and one car.  One address is enough for
   it to pass from one to the other; with two both are in the network at once. *)
EXTENDS Dispatch, TLC

CONSTANTS a1, a2

OneAddr   == {a1}
MCAddrs   == {a1, a2}
AddrsSame == Permutations(MCAddrs)
=============================================================================
