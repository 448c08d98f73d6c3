-------------------------- MODULE MCMailboxTracker --------------------------
(***************************************************************************)
(* MailboxTracker for TLC.                                                 *)
(***************************************************************************)
EXTENDS SessionReaders, TrackerRefinement

CONSTANT s1
=============================================================================
