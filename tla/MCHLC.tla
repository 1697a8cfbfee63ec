-------------------------------- MODULE MCHLC --------------------------------
(* HLC for TLC.  The .cfg gives every constant its value: two threads, two   *)
(* milliseconds, a counter of one bit.                                       *)
EXTENDS HLC
=============================================================================
