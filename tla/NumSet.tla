------------------------------- MODULE NumSet -------------------------------
(***************************************************************************)
(* Sets of message numbers and UIDs (internal/imapnum, numset.go): sorted  *)
(* ranges of numbers of a fixed width, where 0 stands for "*" and a range  *)
(* that stops at 0 for "n:*".  A set is built by insertions in any order;  *)
(* `ref` is the set of numbers it should hold.                             *)
(***************************************************************************)
EXTENDS Integers, Sequences, FiniteSets

CONSTANT Max   \* the greatest number: 2^32 - 1 in the code

ASSUME MaxAssumption == Max \in Nat \ {0}

VARIABLES set, ref

Num == 0..Max

RangeOf(start, stop) == [start |-> start, stop |-> stop]

(* Start <= Stop, except for "n:*". *)
Ranges == {r \in [start : Num, stop : Num] : r.stop = 0 \/ (r.start # 0 /\ r.start <= r.stop)}

(* Addition of the code's width. *)
Succ(n) == IF n = Max THEN 0 ELSE n + 1

(* Range.Contains. *)
Contains(s, q) ==
    IF q = 0 THEN s.stop = 0
    ELSE s.start # 0 /\ s.start <= q /\ (q <= s.stop \/ s.stop = 0)

(* Range.Less. *)
Less(s, q) == (s.stop < q \/ q = 0) /\ s.stop # 0

\* Mutant: the successor of the greatest number is not thought of.
MergeInOrderWraps(s, t) ==
    IF (s.stop >= t.stop /\ t.stop # 0) \/ s.stop = 0 THEN [union |-> s, ok |-> TRUE]
    ELSE IF Succ(s.stop) >= t.start
    THEN [union |-> RangeOf(s.start, t.stop), ok |-> TRUE]
    ELSE [union |-> s, ok |-> FALSE]

(* s starts at or before t, and neither is "*". *)
MergeInOrder(s, t) ==
    IF (s.stop >= t.stop /\ t.stop # 0) \/ s.stop = 0 THEN [union |-> s, ok |-> TRUE]
    ELSE IF Succ(s.stop) >= t.start \/ s.stop = Max
    THEN [union |-> RangeOf(s.start, t.stop), ok |-> TRUE]
    ELSE [union |-> s, ok |-> FALSE]

(* Range.Merge: the union, if it is a range.  "*" is only in "n:*". *)
Merge(s, t) ==
    IF s = t THEN [union |-> s, ok |-> TRUE]
    ELSE IF s.start # 0 /\ t.start # 0
    THEN LET m == IF s.start > t.start THEN MergeInOrder(t, s) ELSE MergeInOrder(s, t)
         IN IF m.ok THEN m ELSE [union |-> s, ok |-> FALSE]
    ELSE IF s.start = 0 /\ t.stop = 0 THEN [union |-> t, ok |-> TRUE]
    ELSE IF s.start # 0 /\ s.stop = 0 THEN [union |-> s, ok |-> TRUE]
    ELSE [union |-> s, ok |-> FALSE]

(* Set.search: where q is, or belongs. *)
Search(s, q) ==
    LET half[lo \in 1..Len(s), hi \in 1..Len(s)] ==
            IF lo >= hi THEN lo
            ELSE LET mid == (lo + hi) \div 2
                 IN IF Less(s[mid], q) THEN half[mid + 1, hi] ELSE half[lo, mid]
    IN IF s = <<>> \/ Less(s[half[1, Len(s)]], q) THEN Len(s) + 1 ELSE half[1, Len(s)]

(* Set.insertAt. *)
InsertAt(s, i, v) == SubSeq(s, 1, i - 1) \o <<v>> \o SubSeq(s, i, Len(s))

(* The entry at i has become r, and takes in those after it that it touches. *)
Absorb(s, i, r) ==
    LET upTo[j \in i..Len(s)] ==
            IF j = i THEN [r |-> r, next |-> i + 1]
            ELSE LET a == upTo[j - 1] IN
                 IF a.next = j /\ Merge(a.r, s[j]).ok
                 THEN [r |-> Merge(a.r, s[j]).union, next |-> j + 1] ELSE a
        all == upTo[Len(s)]
    IN SubSeq(s, 1, i - 1) \o <<all.r>> \o SubSeq(s, all.next, Len(s))

(* Set.insert: into the entry before, into the one there, or between them. *)
Insert(s, v) ==
    LET i == Search(s, v.start) IN
    IF i > 1 /\ Merge(s[i - 1], v).ok THEN Absorb(s, i - 1, Merge(s[i - 1], v).union)
    ELSE IF i <= Len(s) /\ Merge(s[i], v).ok THEN Absorb(s, i, Merge(s[i], v).union)
    ELSE InsertAt(s, i, v)

(* The ends in order, "*" being the greatest. *)
Normal(start, stop) ==
    IF (stop < start /\ stop # 0) \/ start = 0 THEN RangeOf(stop, start) ELSE RangeOf(start, stop)

(* Set.String: each range as its ends, either one number or "n:m". *)
Text(s) == [i \in 1..Len(s) |-> <<s[i].start, s[i].stop>>]

(* ParseSet: the ranges, with their ends either way, are added one by one. *)
ParseSet(items) ==
    LET upTo[i \in 0..Len(items)] ==
            IF i = 0 THEN <<>> ELSE Insert(upTo[i - 1], Normal(items[i][1], items[i][2]))
    IN upTo[Len(items)]

(* Set.Dynamic, Contains and Cardinality. *)
Dynamic(s) == s # <<>> /\ s[Len(s)].stop = 0

SetContains(s, q) ==
    LET i == Search(s, q) IN i <= Len(s) /\ Contains(s[i], q) /\ q # 0

Cardinal(s) ==
    LET upTo[i \in 0..Len(s)] == IF i = 0 THEN 0 ELSE upTo[i - 1] + (s[i].stop - s[i].start + 1)
    IN upTo[Len(s)]

-----------------------------------------------------------------------------

(* What a range stands for. *)
Values(r) == IF r.start = 0 THEN {0}
             ELSE IF r.stop = 0 THEN (r.start..Max) \cup {0} ELSE r.start..r.stop

AllValues(s) == UNION {Values(s[i]) : i \in 1..Len(s)}

InitSet == set = <<>> /\ ref = {}

AddNum(q) ==
    /\ set' = Insert(set, RangeOf(q, q))
    /\ ref' = ref \cup {q}

AddRange(start, stop) ==
    /\ set' = Insert(set, Normal(start, stop))
    /\ ref' = ref \cup Values(Normal(start, stop))

(* AddSet: the ranges of a set are inserted one by one. *)
AddSet(t) ==
    /\ LET upTo[i \in 0..Len(t)] == IF i = 0 THEN set ELSE Insert(upTo[i - 1], t[i])
       IN set' = upTo[Len(t)]
    /\ ref' = ref \cup AllValues(t)

NextSet ==
    \/ \E q \in Num : AddNum(q)
    \/ \E start, stop \in Num : AddRange(start, stop)
    \/ \E r, t \in Ranges : AddSet(Insert(Insert(<<>>, r), t))

-----------------------------------------------------------------------------

(* Whatever was inserted, in whatever order, at both ends of the number      *)
(* space: the set holds just those numbers, its ranges are in order and      *)
(* apart, what it says of itself is so, and it is read back as it is written. *)
SetExact ==
    /\ AllValues(set) = ref
    /\ \A i \in 1..Len(set) : set[i] \in Ranges
    /\ \A i \in 1..(Len(set) - 1) :
            /\ set[i].stop # 0
            /\ set[i + 1].start = 0 \/ set[i].stop + 1 < set[i + 1].start
    /\ \A q \in Num \ {0} : SetContains(set, q) <=> q \in ref
    /\ Dynamic(set) <=> 0 \in ref
    /\ ~Dynamic(set) => Cardinal(set) = Cardinality(ref)
    /\ ParseSet(Text(set)) = set
=============================================================================
