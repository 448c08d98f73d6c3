------------------------- MODULE TrackerRefinement -------------------------
(***************************************************************************)
(* The tracker implements SharedMailbox: what its clients number is the    *)
(* mailbox, but for what they have not been told yet.                      *)
(***************************************************************************)
EXTENDS MailboxTracker

Shared == INSTANCE SharedMailbox WITH
    Client <- Session,
    next   <- nextUID,
    opened <- {s \in Session : life[s] # "new"},
    lost   <- {s \in Session : broken[s]}

(***************************************************************************)
(* Every response poll writes, computed by the client on sequence numbers  *)
(* alone, moves its picture of the mailbox forward: only messages that     *)
(* have left disappear from it, new ones come at the end, and none that is *)
(* still there is passed over; nothing else changes it.                    *)
(***************************************************************************)
SharedMailboxImplemented == Shared!Spec

-----------------------------------------------------------------------------
(***************************************************************************)
(* What the refinement needs beyond TrackerInv.                            *)
(***************************************************************************)

(* S has been the mailbox, which is now mbox, with next its UIDNEXT. *)
Past(S, mbox, next) ==
    /\ S \subseteq 1 .. next - 1
    /\ \A a \in S, b \in mbox \ S : a < b

Good(u, mbox, next) ==
    /\ Past(u.pre, mbox, next) /\ Past(u.post, mbox, next)
    /\ u.kind = "expunge" => u.uid \notin mbox
    /\ \A a \in u.pre, b \in u.post \ u.pre : a < b

AllGood(q, mbox, next) == \A i \in 1 .. Len(q) : Good(q[i], mbox, next)

SessionPast(s) ==
    /\ Past(seen[s], content, nextUID)
    /\ AllGood(queue[s], content, nextUID)
    /\ AllGood(batch[s], content, nextUID)
    /\ vanished[s] \subseteq 1 .. nextUID - 1
    /\ vanished[s] \cap content = {}

RefinementInv ==
    /\ mutex => Good(update, content, nextUID)
    /\ \A s \in Session : SessionPast(s)
=============================================================================
