---------------------------- MODULE MCConnection ----------------------------
(***************************************************************************)
(* Connection for TLC.                                                     *)
(***************************************************************************)
EXTENDS Connection

CONSTANTS box1, box2, p1, p2
=============================================================================
