----------------------------- MODULE UIDMapping -----------------------------
(***************************************************************************)
(* The mapping a COPY or MOVE reports with COPYUID (uidmapping.go,         *)
(* internal/imapwire/uidmapping.go): pairs of UIDs in copying order, kept  *)
(* as pairs of ranges, written as two lists of ranges and read back.       *)
(***************************************************************************)
EXTENDS Integers, Sequences, FiniteSets

LOCAL INSTANCE TLC

CONSTANTS
    MaxUID,   \* the greatest UID: 2^32 - 1 in the code
    MaxPairs  \* bound: messages copied

VARIABLES mapping, pairs

UID == 0..MaxUID

Span(start, stop) == [start |-> start, stop |-> stop]

Size(r) == r.stop - r.start + 1

\* Mutant: a pair is merged when its source is consecutive.
AddSourceOnly(m, source, dest) ==
    LET last == m[Len(m)] IN
    IF m # <<>> /\ source # 0 /\ dest # 0 /\ last.source.stop # MaxUID
        /\ source = last.source.stop + 1
    THEN [m EXCEPT ![Len(m)] = [source |-> Span(last.source.start, source), dest |-> Span(last.dest.start, dest)]]
    ELSE Append(m, [source |-> Span(source, source), dest |-> Span(dest, dest)])

(* UIDMapping.Add: a pair that is consecutive on both sides joins the last. *)
Add(m, source, dest) ==
    LET last == m[Len(m)] IN
    IF m # <<>> /\ source # 0 /\ dest # 0 /\ last.source.stop # MaxUID /\ last.dest.stop # MaxUID
        /\ source = last.source.stop + 1 /\ dest = last.dest.stop + 1
    THEN [m EXCEPT ![Len(m)] = [source |-> Span(last.source.start, source), dest |-> Span(last.dest.start, dest)]]
    ELSE Append(m, [source |-> Span(source, source), dest |-> Span(dest, dest)])

(* UIDPairRange.cardinality: 0 for a malformed one. *)
PairCardinality(p) ==
    IF \/ p.source.start = 0 \/ p.dest.start = 0
       \/ p.source.stop < p.source.start \/ p.dest.stop < p.dest.start
       \/ Size(p.source) # Size(p.dest)
    THEN 0 ELSE Size(p.source)

(* UIDMapping.Cardinality: 0 if a range is malformed or there are too many. *)
MappingCardinality(m) ==
    LET upTo[i \in 0..Len(m)] ==
            IF i = 0 THEN 0
            ELSE LET n == PairCardinality(m[i]) IN
                 IF upTo[i - 1] = -1 \/ n = 0 \/ upTo[i - 1] > MaxUID - n THEN -1 ELSE upTo[i - 1] + n
    IN IF upTo[Len(m)] = -1 THEN 0 ELSE upTo[Len(m)]

(* UIDMapping.All. *)
All(m) ==
    LET Expand(p) == [i \in 1..Size(p.source) |-> <<p.source.start + i - 1, p.dest.start + i - 1>>]
        upTo[i \in 0..Len(m)] == IF i = 0 THEN <<>> ELSE upTo[i - 1] \o Expand(m[i])
    IN IF MappingCardinality(m) = 0 THEN <<>> ELSE upTo[Len(m)]

(* UIDMapping.Validate: with the ranges of a side sorted, each begins after  *)
(* the one before has stopped.                                               *)
Validate(m) ==
    LET Distinct(ranges) ==
            LET sorted == SortSeq(ranges, LAMBDA a, b : a.start < b.start)
            IN \A i \in 2..Len(sorted) : sorted[i].start > sorted[i - 1].stop
    IN /\ m # <<>>
       /\ \A i \in 1..Len(m) : PairCardinality(m[i]) # 0
       /\ Distinct([i \in 1..Len(m) |-> m[i].source])
       /\ Distinct([i \in 1..Len(m) |-> m[i].dest])

(* Encoder.UIDMapping, of one side: a range that goes on where the last one  *)
(* stopped is written with it.                                               *)
Written(ranges) ==
    LET upTo[i \in 0..Len(ranges)] ==
            IF i = 0 THEN <<>>
            ELSE LET w == upTo[i - 1] r == ranges[i] IN
                 IF w # <<>> /\ w[Len(w)].stop + 1 = r.start
                 THEN [w EXCEPT ![Len(w)].stop = r.stop] ELSE Append(w, r)
    IN upTo[Len(ranges)]

(* parseOrderedUIDSet: a range may be written either way. *)
Parsed(items) ==
    [i \in 1..Len(items) |->
        IF items[i].stop < items[i].start THEN Span(items[i].stop, items[i].start) ELSE items[i]]

(* ParseUIDMapping: both lists are walked together, and as much as both      *)
(* have left of a range is a pair.  <<>> is an error.                        *)
ParseUIDMapping(source, dest) ==
    LET src == Parsed(source)
        dst == Parsed(dest)
        Step(w) ==
            LET s == src[w.i].start + w.srcOffset
                d == dst[w.j].start + w.dstOffset
                left == {src[w.i].stop - s + 1, dst[w.j].stop - d + 1}
                count == CHOOSE n \in left : \A k \in left : n <= k
            IN [m |-> Append(w.m, [source |-> Span(s, s + count - 1), dest |-> Span(d, d + count - 1)]),
                i |-> IF s + count > src[w.i].stop THEN w.i + 1 ELSE w.i,
                j |-> IF d + count > dst[w.j].stop THEN w.j + 1 ELSE w.j,
                srcOffset |-> IF s + count > src[w.i].stop THEN 0 ELSE w.srcOffset + count,
                dstOffset |-> IF d + count > dst[w.j].stop THEN 0 ELSE w.dstOffset + count]
        AtEnd(w) == w.i > Len(src) \/ w.j > Len(dst)
        walk[n \in 0..(Len(src) + Len(dst))] ==
            IF n = 0 THEN [m |-> <<>>, i |-> 1, j |-> 1, srcOffset |-> 0, dstOffset |-> 0]
            ELSE IF AtEnd(walk[n - 1]) THEN walk[n - 1] ELSE Step(walk[n - 1])
        w == walk[Len(src) + Len(dst)]
    IN IF w.i > Len(src) /\ w.j > Len(dst) /\ Validate(w.m) THEN w.m ELSE <<>>

-----------------------------------------------------------------------------

InitMapping == mapping = <<>> /\ pairs = <<>>

(* A message is copied. *)
CopyOne(source, dest) ==
    /\ Len(pairs) < MaxPairs
    /\ mapping' = Add(mapping, source, dest)
    /\ pairs' = Append(pairs, <<source, dest>>)

NextMapping == \E source, dest \in UID : CopyOne(source, dest)

-----------------------------------------------------------------------------

(* UIDs that are UIDs, each once. *)
Proper ==
    /\ pairs # <<>>
    /\ \A i \in 1..Len(pairs), k \in 1..2 :
            /\ pairs[i][k] # 0
            /\ \A j \in 1..Len(pairs) : i # j => pairs[i][k] # pairs[j][k]

Backwards(items) == [i \in 1..Len(items) |-> Span(items[i].stop, items[i].start)]

(* A mapping is valid just when each UID is one and occurs once on its side; *)
(* then it stands for the pairs that were added, in that order, and so does  *)
(* what is read from how it is written, though each side is compressed on    *)
(* its own and each range may be turned round.                               *)
MappingExact ==
    /\ Validate(mapping) <=> Proper
    /\ Proper =>
        LET source == Written([i \in 1..Len(mapping) |-> mapping[i].source])
            dest == Written([i \in 1..Len(mapping) |-> mapping[i].dest])
        IN /\ All(mapping) = pairs
           /\ All(ParseUIDMapping(source, dest)) = pairs
           /\ All(ParseUIDMapping(Backwards(source), dest)) = pairs
=============================================================================
