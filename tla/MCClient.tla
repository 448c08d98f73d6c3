------------------------------ MODULE MCClient ------------------------------
(***************************************************************************)
(* Client for TLC.                                                         *)
(***************************************************************************)
EXTENDS Client

CONSTANTS a, b

(* Either goroutine may wait for a continuation request; one of them may    *)
(* also authenticate.                                                       *)
Concurrent == [c \in {a, b} |-> IF c = a THEN {"plain", "literal", "auth"}
                                ELSE {"literal", "idle"}]
=============================================================================
