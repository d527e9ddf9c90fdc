----------------------------- MODULE MCStateLock -----------------------------
(* Three contenders where a third must change the lock between two steps   *)
(* of another, two for the race.                                           *)
EXTENDS StateLock
=============================================================================
