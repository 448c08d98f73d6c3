--------------------------- MODULE SharedMailbox ---------------------------
(***************************************************************************)
(* What a MailboxTracker promises, without sequence numbers, queues, locks *)
(* or batches: a mailbox that messages join at the end and leave from      *)
(* anywhere, and clients whose picture of it moves forward.                *)
(***************************************************************************)
EXTENDS Integers

CONSTANT Client

VARIABLES
    content, \* the messages, by UID
    next,    \* the UID of the next message
    view,    \* the messages each client numbers
    opened,  \* clients that have selected the mailbox
    lost     \* clients whose connection has failed

vars == <<content, next, view, opened, lost>>

Init ==
    /\ content = {} /\ next = 1
    /\ view = [c \in Client |-> {}]
    /\ opened = {} /\ lost = {}

Arrive ==
    /\ next' \in Nat /\ next' >= next
    /\ content' = content \cup (next .. next' - 1)
    /\ UNCHANGED <<view, opened, lost>>

Leave ==
    /\ \E u \in content : content' = content \ {u}
    /\ UNCHANGED <<next, view, opened, lost>>

(* A client selects the mailbox, and sees what is in it. *)
Open(c) ==
    /\ c \notin opened
    /\ opened' = opened \cup {c}
    /\ view' = [view EXCEPT ![c] = content]
    /\ UNCHANGED <<content, next, lost>>

(* A client is told something: messages that have left, and messages that  *)
(* have joined, which it numbers behind those it has.  It is spared none   *)
(* that is still there.                                                    *)
Tell(c) ==
    /\ c \in opened \ lost
    /\ \E v \in SUBSET (1 .. next - 1) :
        /\ view' = [view EXCEPT ![c] = v]
        /\ (view[c] \ v) \cap content = {}
        /\ \A a \in view[c], b \in v \ view[c] : a < b
        /\ \A a \in v, b \in content \ v : a < b
    /\ UNCHANGED <<content, next, opened, lost>>

Lose(c) ==
    /\ lost' = lost \cup {c}
    /\ view' = [view EXCEPT ![c] = {}]
    /\ UNCHANGED <<content, next, opened>>

Next == Arrive \/ Leave \/ \E c \in Client : Open(c) \/ Tell(c) \/ Lose(c)

Spec == Init /\ [][Next]_vars
=============================================================================
