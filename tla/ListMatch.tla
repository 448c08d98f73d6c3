------------------------------ MODULE ListMatch ------------------------------
(***************************************************************************)
(* Whether a LIST pattern matches a mailbox name (internal/listmatch.go):  *)
(* a dynamic programme over the name, checked against what the wildcards   *)
(* mean.  A byte is a model of a character or of a part of one: a          *)
(* delimiter may take several.                                             *)
(***************************************************************************)
EXTENDS Integers, Sequences

CONSTANTS
    Byte,        \* the bytes of names
    Delims,      \* delimiters: sequences of bytes, <<>> for none
    References,  \* reference arguments
    MaxName,     \* bound: length of a name
    MaxPattern   \* bound: length of a pattern

VARIABLES name, delim, reference, pattern

Wild == {"*", "%"}

HasPrefix(s, p) == Len(p) <= Len(s) /\ SubSeq(s, 1, Len(p)) = p

HasSuffix(s, p) == Len(p) <= Len(s) /\ SubSeq(s, Len(s) - Len(p) + 1, Len(s)) = p

Drop(s, n) == SubSeq(s, n + 1, Len(s))

\* Mutant: "%" starts over at a delimiter but forgets what is inside of it.
ExtendForgetful(nm, dl, reach, star) ==
    LET next[j \in 0..Len(nm)] ==
            \/ reach[j]
            \/ j > 0 /\ next[j - 1] /\ (star \/ dl = <<>> \/ ~HasSuffix(SubSeq(nm, 1, j), dl))
    IN next

(* A run of wildcards extends every position reached to the right: `%` not   *)
(* over a delimiter, though from inside of the one that ends here.           *)
Extend(nm, dl, reach, star) ==
    LET ends(j) == ~star /\ dl # <<>> /\ HasSuffix(SubSeq(nm, 1, j), dl)
        next[j \in 0..Len(nm)] ==
            \/ reach[j]
            \/ IF ends(j) THEN \E k \in (j - Len(dl) + 1)..(j - 1) : reach[k]
               ELSE j > 0 /\ next[j - 1]
    IN next

(* A literal byte consumes one byte of the name. *)
Consume(nm, reach, c) == [j \in 0..Len(nm) |-> j > 0 /\ reach[j - 1] /\ nm[j] = c]

(* matchList: reach after each byte of the pattern, a run of wildcards being *)
(* dealt with at its last.                                                   *)
MatchName(nm, dl, pt) ==
    LET literals == {i \in 1..Len(pt) : pt[i] \notin Wild}
        n == Len(nm)
        first[i \in 1..Len(pt)] == IF i > 1 /\ pt[i - 1] \in Wild THEN first[i - 1] ELSE i
        run(i) == first[i]..i
        reach[i \in 0..Len(pt)] ==
            IF i = 0 THEN [j \in 0..n |-> j = 0]
            ELSE IF i \in literals THEN Consume(nm, reach[i - 1], pt[i])
            ELSE IF i < Len(pt) /\ i + 1 \notin literals THEN reach[i - 1]
            ELSE Extend(nm, dl, reach[i - 1], \E k \in run(i) : pt[k] = "*")
    IN IF Len(SelectSeq(pt, LAMBDA c : c \notin Wild)) > n THEN FALSE
       ELSE IF literals = 1..Len(pt) THEN nm = pt
       ELSE /\ \A i \in 0..Len(pt) : \E j \in 0..n : reach[i][j]
            /\ reach[Len(pt)][n]

(* MatchList: a pattern that begins with the delimiter overrides the         *)
(* reference; else the name must be below it.                                *)
MatchList(nm, dl, rf, pt) ==
    LET rooted == dl # <<>> /\ HasPrefix(pt, dl)
        base == IF rooted THEN <<>>
                ELSE IF rf # <<>> /\ dl # <<>> /\ ~HasSuffix(rf, dl) THEN rf \o dl ELSE rf
        rest == IF rooted THEN Drop(pt, Len(dl)) ELSE pt
    IN HasPrefix(nm, base) /\ MatchName(Drop(nm, Len(base)), dl, rest)

-----------------------------------------------------------------------------

InitMatch == name = <<>> /\ delim \in Delims /\ reference \in References /\ pattern = <<>>

(* A longer name, and then a longer pattern. *)
NextMatch ==
    /\ \/ \E c \in Byte : /\ Len(name) < MaxName /\ pattern = <<>>
                          /\ name' = Append(name, c) /\ UNCHANGED pattern
       \/ \E c \in Byte \cup Wild : /\ Len(pattern) < MaxPattern
                                    /\ pattern' = Append(pattern, c) /\ UNCHANGED name
    /\ UNCHANGED <<delim, reference>>

-----------------------------------------------------------------------------

Contiguous(s, d) == \E i \in 0..(Len(s) - Len(d)) : SubSeq(s, i + 1, i + Len(d)) = d

(* RFC 9051 section 6.3.9: nm from i + 1 on is matched by pt from k on. *)
Means(nm, dl, pt) ==
    LET m[i \in 0..Len(nm), k \in 1..(Len(pt) + 1)] ==
            IF k > Len(pt) THEN i = Len(nm)
            ELSE IF pt[k] \notin Wild THEN i < Len(nm) /\ nm[i + 1] = pt[k] /\ m[i + 1, k + 1]
            ELSE \E j \in i..Len(nm) :
                    /\ pt[k] = "*" \/ dl = <<>> \/ ~Contiguous(SubSeq(nm, i + 1, j), dl)
                    /\ m[j, k + 1]
    IN m[0, 1]

(* "%%" is one "%": it does not match the two halves of a delimiter. *)
Doubled == Len(delim) > 1 /\ \E i \in 1..(Len(pattern) - 1) : pattern[i] = "%" /\ pattern[i + 1] = "%"

(* The programme finds a match just when there is one: each "*" can be given *)
(* any part of the name and each "%" one without the delimiter in it, below  *)
(* the reference or, for a rooted pattern, from the root.                    *)
MatchExact ==
    Doubled \/
    /\ MatchName(name, delim, pattern) <=> Means(name, delim, pattern)
    /\ MatchList(name, delim, reference, pattern) <=>
        IF delim # <<>> /\ HasPrefix(pattern, delim)
        THEN Means(name, delim, Drop(pattern, Len(delim)))
        ELSE \E i \in 0..Len(name) :
                /\ \E sep \in {<<>>, delim} :
                        /\ SubSeq(name, 1, i) = reference \o sep
                        /\ sep = <<>> <=> reference = <<>> \/ HasSuffix(reference, delim)
                /\ Means(Drop(name, i), delim, pattern)
=============================================================================
