---------------------------- MODULE MCJoinScan ----------------------------
(* Small instances of JoinScan. *)
EXTENDS JoinScan

\* Channel 1 is not in reach, the last stands for channel 26.
MCChannels == {1, 2, 3, 4}
MCOrder    == <<1, 2, 3, 4>>
MCAllowed  == {1, 2, 3}
MCNear     == {2, 3, 4}
=============================================================================
