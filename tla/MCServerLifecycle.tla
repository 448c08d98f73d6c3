------------------------- MODULE MCServerLifecycle -------------------------
(***************************************************************************)
(* ServerLifecycle for TLC.                                                *)
(***************************************************************************)
EXTENDS ServerLifecycle

CONSTANTS c1, c2
=============================================================================
