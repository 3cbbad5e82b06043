---------------------------- MODULE MCCrossfade ----------------------------
(* Small instances of Crossfade. *)
EXTENDS Crossfade

CONSTANTS e1, e2
Rows2 == <<e1, e2>>
=============================================================================
