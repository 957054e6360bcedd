------------------------------ MODULE MCTicker ------------------------------
(* Ticker with the flags of sysinfo.h: LAMP_CF_OPEN 0x02, LAMP_CF_NETWORK 0x20. *)
EXTENDS Ticker

MCOpen    == {1}
MCNetwork == {5}
MCConfigs == SUBSET {1, 5}
=============================================================================
