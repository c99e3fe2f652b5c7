---------------------------- MODULE MCReconnect ----------------------------
(* Delays in quarters of a second to three seconds, and a clock that may be *)
(* set a little or a lot, either way.                                       *)
EXTENDS Reconnect

MCJumps == {-9, -1, 1, 9}
=============================================================================
