---------------------------- MODULE MCMemMailbox ----------------------------
EXTENDS MemMailbox, TLC

CONSTANTS s1, s2, n1, n2

CopierSymmetry == Permutations({s1, s2}) \cup Permutations({n1, n2})

(* One client keeps a cache of the mailbox that the other changes. *)
Busy == (s1 :> {"fetch", "store"}) @@ (s2 :> {"store", "expunge", "copy"})
Nearby == [s \in Session |-> {n1}]
Copying == (s1 :> {"copy"}) @@ (s2 :> {"copy"})

Everywhere == [s \in Session |-> Name]
Sets == {{1}, UID}
DeletedOnly == {{Deleted}}
Empty == {{}}
=============================================================================
