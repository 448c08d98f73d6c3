--------------------------- MODULE MCFetchStream ---------------------------
(***************************************************************************)
(* FetchStream for TLC: a SELECT with QRESYNC, a FETCH by sequence number  *)
(* and one by UID, over two messages.                                      *)
(***************************************************************************)
EXTENDS FetchStream

CONSTANTS sel, seq, uid

KindOf == [c \in {sel, seq, uid} |->
              CASE c = sel -> "select" [] c = seq -> "seq" [] OTHER -> "uid"]

AsksFor == [c \in {sel, seq, uid} |-> IF c = uid THEN {1, 2} ELSE {1}]

(* A body behind its UID and ahead of it, and more items than a channel      *)
(* holds, as a QRESYNC update may have them.                                 *)
SomeShapes == {<<"uid", "body">>, <<"body", "uid">>, <<"env", "uid", "modseq">>}
=============================================================================
