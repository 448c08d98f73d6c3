----------------------------- MODULE FetchProofs -----------------------------
(***************************************************************************)
(* Proofs about the streaming of FETCH responses: each reaches the command *)
(* it answers, and the budget is accounted for.  At the end, proofs about  *)
(* the ranges of a number set.                                             *)
(***************************************************************************)
EXTENDS FetchStream, TLAPS

(* Commands are sent before they are pending, and SELECT before any FETCH. *)
Ordered ==
    /\ \A i \in 1..Len(pending) : pending[i] \in sent
    /\ \A i, j \in 1..Len(pending) :
        i < j /\ Kind[pending[j]] = "select" => Kind[pending[i]] = "select"

(* What the reader's place says of its other state. *)
ReaderPlace ==
    /\ rd.at \in {"idle", "gone"} => rd.bytes = 0
    /\ rd.at \notin {"idle", "gone"} => last \in Resp
    /\ rd.handled => rd.bytes = 0
    /\ rd.at = "handle" => ~rd.handled
    /\ rd.at = "deliver" => rd.bytes = 0
    /\ rd.at \in {"acquire", "parked"} => ~rd.handled /\ Len(rd.todo) > 0 /\ rd.bytes < MaxBuffer

(* A response that was not handled yet. *)
Unhandled == rd.at \notin {"idle", "deliver", "gone"} /\ ~rd.handled

(* No consumer owes anything for a response to come. *)
Fresh == \A r \in Resp : r > last => data[r].release = 0

(* What is known of a response the server sent for c before it is handled. *)
Expected(c) ==
    /\ rd.m \in Asks[c]
    /\ pending = <<>> => broken
    /\ pending # <<>> => Head(pending) = c /\ rd.m \notin recv[c]
    /\ rd.sel <=> Kind[c] = "select"
    /\ Kind[c] = "uid" => rd.needsUID
    /\ Kind[c] # "seq" => rd.uid \/ Has(rd.todo, "uid")
    /\ Kind[c] = "select" => (rd.modseq \/ Has(rd.todo, "modseq")) /\ ~Has(rd.todo, "body")
    /\ rd.at = "handle" => /\ Kind[c] # "seq" => rd.uid
                           /\ Kind[c] = "select" => rd.modseq

(* A response in the reader's hands answers the first pending command, or,  *)
(* if the server sent it by itself, none that still waits for its message.  *)
Addressed ==
    Unhandled =>
        /\ data[last].owner = "none" /\ data[last].release = 0
        /\ IF data[last].answers = NoCmd
           THEN /\ ~rd.sel
                /\ \A c \in Cmd : rd.m \in Asks[c] => c \in sent /\ (c \in Pending => rd.m \in recv[c])
           ELSE Expected(data[last].answers)

(* The inductive invariant. *)
FetchInv ==
    TypeOK /\ Ordered /\ ReaderPlace /\ Fresh /\ Addressed /\ AnswersGoHome /\ BudgetExact

-----------------------------------------------------------------------------

INSTANCE WellFoundedInduction

(* A non-empty set of naturals has a least element. *)
LEMMA LeastNatural ==
    ASSUME NEW S \in SUBSET Nat, S # {}
    PROVE  \E k \in S : \A j \in S : k <= j
<1>1. PICK k \in S : \A j \in S : ~ (<<j, k>> \in OpToRel(<, Nat))
  BY WFMin, NatLessThanWellFounded, Zenon
<1>2. ASSUME NEW j \in S, j < k PROVE FALSE
  <2>1. <<j, k>> \in OpToRel(<, Nat)
    BY <1>2 DEF OpToRel
  <2> QED BY <1>1, <2>1, Zenon
<1> QED BY <1>2

(* What holds at the start and is handed on holds everywhere. *)
LEMMA Induction ==
    ASSUME NEW N \in Nat, NEW P, P \subseteq 0 .. N, 0 \in P,
           \A i \in 1 .. N : i - 1 \in P => i \in P
    PROVE  P = 0 .. N
<1> DEFINE Bad == (0 .. N) \ P
<1>1. ASSUME Bad # {} PROVE FALSE
  <2>1. Bad \in SUBSET Nat
    OBVIOUS
  <2>2. PICK k \in Bad : \A j \in Bad : k <= j
    BY <1>1, <2>1, LeastNatural, Zenon
  <2>3. k \in 1 .. N /\ k \notin P
    BY <2>2
  <2>4. k - 1 \in 0 .. N /\ ~(k <= k - 1)
    BY <2>3
  <2>5. k - 1 \in P
    BY <2>2, <2>4
  <2> QED BY <2>3, <2>5
<1> QED BY <1>1, Zenon

(* The values of a loop of N steps: b, and what each step makes of the last. *)
Walks(f, V, N, b, step) ==
    /\ f \in [0 .. N -> V]
    /\ f[0] = b
    /\ \A i \in 1 .. N : f[i] = step[i][f[i - 1]]

(* A loop whose steps stay in V has such values. *)
LEMMA WalkExists ==
    ASSUME NEW V, NEW N \in Nat, NEW b \in V, NEW step \in [1 .. N -> [V -> V]]
    PROVE  \E f : Walks(f, V, N, b, step)
<1> DEFINE Walk(n, f) == f[0] = b /\ \A i \in 1 .. n : f[i] = step[i][f[i - 1]]
           P == {n \in 0 .. N : \E f \in [0 .. n -> V] : Walk(n, f)}
<1>1. 0 \in P
  <2>1. [i \in 0 .. 0 |-> b] \in [0 .. 0 -> V] /\ Walk(0, [i \in 0 .. 0 |-> b])
    OBVIOUS
  <2>2. 0 \in 0 .. N
    OBVIOUS
  <2> HIDE DEF Walk
  <2> QED BY <2>1, <2>2, Zenon
<1>2. ASSUME NEW k \in 1 .. N, k - 1 \in P PROVE k \in P
  <2>1. PICK f \in [0 .. k - 1 -> V] : Walk(k - 1, f)
    BY <1>2
  <2> DEFINE g == [i \in 0 .. k |-> IF i < k THEN f[i] ELSE step[k][f[k - 1]]]
  <2>2. step[k][f[k - 1]] \in V
    BY <2>1
  <2>3. g \in [0 .. k -> V]
    BY <2>1, <2>2
  <2>4. Walk(k, g)
    BY <2>1
  <2>5. k \in 0 .. N
    OBVIOUS
  <2> HIDE DEF Walk, g
  <2> QED BY <2>3, <2>4, <2>5, Zenon
<1>3. P \subseteq 0 .. N
  OBVIOUS
<1>4. N \in 0 .. N
  OBVIOUS
<1>5. N \in P
  <2> HIDE DEF P
  <2> QED BY <1>1, <1>2, <1>3, <1>4, Induction, Zenon
<1> QED BY <1>5, Zenon DEF Walks

(* What a message owes is a number. *)
LEMMA ReleaseType ==
    ASSUME NEW d \in [Resp -> DataType], NEW r \in Resp
    PROVE  d[r].release \in Nat /\ d[r].release \in 0 .. MaxBuffer
<1>1. d[r] \in DataType
  OBVIOUS
<1> QED BY <1>1, FetchAssumption DEF DataType

(* The sum of what is owed, step by step. *)
LEMMA OwedWalk ==
    ASSUME NEW d \in [Resp -> DataType]
    PROVE  \E f : /\ f \in [0 .. MaxResp -> Nat] /\ f[0] = 0 /\ Owed(d) = f[MaxResp]
                  /\ \A r \in Resp : f[r] = f[r - 1] + d[r].release
<1> DEFINE N == MaxResp
           step == [i \in 1 .. N |-> [v \in Nat |-> v + d[i].release]]
           Def(f) == f = [i \in 0 .. N |-> IF i = 0 THEN 0 ELSE f[i - 1] + d[i].release]
           upTo == CHOOSE f : Def(f)
<1>1. N \in Nat /\ Resp = 1 .. N
  BY FetchAssumption DEF Resp
<1>a. \A r \in Resp : d[r].release \in Nat
  BY ReleaseType
<1>2. Owed(d) = upTo[N]
  BY DEF Owed
<1> HIDE DEF N
<1>3. step \in [1 .. N -> [Nat -> Nat]]
  BY <1>1, <1>a
<1>4. PICK f : Walks(f, Nat, N, 0, step)
  <2> HIDE DEF step, Def, upTo
  <2>1. 0 \in Nat
    OBVIOUS
  <2> QED BY <1>1, <1>3, <2>1, WalkExists, Zenon
<1>5. ASSUME NEW i \in 1 .. N PROVE f[i] = f[i - 1] + d[i].release
  <2>1. f[i] = step[i][f[i - 1]] /\ f[i - 1] \in Nat
    <3> HIDE DEF step
    <3> QED BY <1>1, <1>4 DEF Walks
  <2> QED BY <2>1
<1>6. Def(f)
  <2>1. f = [i \in 0 .. N |-> f[i]]
    BY <1>4 DEF Walks
  <2>2. \A i \in 0 .. N : f[i] = IF i = 0 THEN 0 ELSE f[i - 1] + d[i].release
    BY <1>1, <1>4, <1>5 DEF Walks
  <2> QED BY <2>1, <2>2, Zenon
<1>7. Def(upTo)
  BY <1>6, Zenon
<1> HIDE DEF upTo
<1>8. upTo = [i \in 0 .. N |-> upTo[i]]
  BY <1>7, Zenon
<1>9. \A i \in 0 .. N : upTo[i] = IF i = 0 THEN 0 ELSE upTo[i - 1] + d[i].release
  BY <1>7, Zenon
<1>10. upTo[0] = 0 /\ \A i \in 1 .. N : upTo[i] = upTo[i - 1] + d[i].release
  <2>1. 0 \in 0 .. N /\ \A i \in 1 .. N : i \in 0 .. N /\ i # 0
    BY <1>1
  <2> QED BY <1>9, <2>1, Zenon
<1> DEFINE P == {i \in 0 .. N : upTo[i] \in Nat}
<1>11. P = 0 .. N
  <2>1. 0 \in P
    BY <1>1, <1>10
  <2>2. ASSUME NEW i \in 1 .. N, i - 1 \in P PROVE i \in P
    <3>1. upTo[i] = upTo[i - 1] + d[i].release /\ upTo[i - 1] \in Nat /\ d[i].release \in Nat
      BY <1>1, <1>a, <1>10, <2>2
    <3>2. upTo[i] \in Nat
      BY <3>1
    <3> QED BY <1>1, <3>2
  <2>3. P \subseteq 0 .. N
    OBVIOUS
  <2> HIDE DEF P
  <2> QED BY <1>1, <2>1, <2>2, <2>3, Induction, Zenon
<1>12. upTo \in [0 .. N -> Nat]
  BY <1>8, <1>11
<1> QED BY <1>1, <1>2, <1>10, <1>12, Zenon DEF N

(* Each message's share is part of the sum. *)
LEMMA OwedBounds ==
    ASSUME NEW d \in [Resp -> DataType]
    PROVE  Owed(d) \in Nat /\ \A r \in Resp : d[r].release <= Owed(d)
<1>1. PICK f : /\ f \in [0 .. MaxResp -> Nat] /\ f[0] = 0 /\ Owed(d) = f[MaxResp]
               /\ \A r \in Resp : f[r] = f[r - 1] + d[r].release
  BY OwedWalk
<1>2. MaxResp \in Nat /\ Resp = 1 .. MaxResp
  BY FetchAssumption DEF Resp
<1>3. ASSUME NEW r \in Resp PROVE d[r].release <= Owed(d)
  <2> DEFINE P == {i \in 0 .. MaxResp : i >= r => d[r].release <= f[i]}
  <2>1. 0 \in P
    BY <1>2, <1>3
  <2>2. ASSUME NEW i \in 1 .. MaxResp, i - 1 \in P PROVE i \in P
    <3>1. f[i] = f[i - 1] + d[i].release /\ f[i - 1] \in Nat /\ d[i].release \in Nat
      <4>1. i \in Resp /\ i - 1 \in 0 .. MaxResp
        BY <1>2
      <4> QED BY <1>1, <4>1, ReleaseType
    <3>2. i - 1 >= r => d[r].release <= f[i - 1]
      BY <2>2
    <3>3. i >= r => i = r \/ i - 1 >= r
      BY <1>2
    <3>4. d[r].release \in Nat
      BY ReleaseType
    <3>5. i >= r => d[r].release <= f[i]
      BY <3>1, <3>2, <3>3, <3>4
    <3> QED BY <1>2, <3>5
  <2>3. P \subseteq 0 .. MaxResp
    OBVIOUS
  <2>4. P = 0 .. MaxResp
    <3> HIDE DEF P
    <3> QED BY <1>2, <2>1, <2>2, <2>3, Induction, Zenon
  <2>5. MaxResp \in P /\ MaxResp >= r
    BY <1>2, <1>3, <2>4
  <2>6. d[r].release <= f[MaxResp]
    BY <2>5
  <2> QED BY <1>1, <2>6
<1> QED BY <1>1, <1>2, <1>3

(* When one message's share changes, the sum changes by as much. *)
LEMMA OwedChange ==
    ASSUME NEW d \in [Resp -> DataType], NEW e \in [Resp -> DataType],
           NEW k \in Resp, \A r \in Resp : r # k => e[r].release = d[r].release
    PROVE  Owed(e) = Owed(d) - d[k].release + e[k].release
<1>1. PICK f : /\ f \in [0 .. MaxResp -> Nat] /\ f[0] = 0 /\ Owed(d) = f[MaxResp]
               /\ \A r \in Resp : f[r] = f[r - 1] + d[r].release
  BY OwedWalk
<1>2. PICK g : /\ g \in [0 .. MaxResp -> Nat] /\ g[0] = 0 /\ Owed(e) = g[MaxResp]
               /\ \A r \in Resp : g[r] = g[r - 1] + e[r].release
  BY OwedWalk
<1>3. MaxResp \in Nat /\ Resp = 1 .. MaxResp
  BY FetchAssumption DEF Resp
<1> DEFINE Moved(i) == IF i < k THEN 0 ELSE e[k].release - d[k].release
           P == {i \in 0 .. MaxResp : g[i] = f[i] + Moved(i)}
<1>4. 0 \in P
  BY <1>1, <1>2, <1>3
<1>5. ASSUME NEW i \in 1 .. MaxResp, i - 1 \in P PROVE i \in P
  <2>1. /\ f[i] = f[i - 1] + d[i].release /\ f[i - 1] \in Nat /\ d[i].release \in Nat
        /\ g[i] = g[i - 1] + e[i].release /\ g[i - 1] \in Nat /\ e[i].release \in Nat
        /\ d[k].release \in Nat /\ e[k].release \in Nat
    <3>1. i \in Resp /\ i - 1 \in 0 .. MaxResp
      BY <1>3
    <3> QED BY <1>1, <1>2, <3>1, ReleaseType, Zenon
  <2>2. g[i - 1] = f[i - 1] + Moved(i - 1)
    BY <1>5
  <2>3. g[i] = f[i] + Moved(i)
    <3>1. CASE i = k
      BY <1>3, <2>1, <2>2, <3>1
    <3>2. CASE i # k
      <4>1. e[i].release = d[i].release
        BY <1>3, <3>2
      <4>2. (i < k) <=> (i - 1 < k)
        BY <1>3, <3>2
      <4> QED BY <2>1, <2>2, <4>1, <4>2
    <3> QED BY <3>1, <3>2
  <2> QED BY <1>3, <2>3
<1>6. P \subseteq 0 .. MaxResp
  OBVIOUS
<1>7. P = 0 .. MaxResp
  <2> HIDE DEF P
  <2> QED BY <1>3, <1>4, <1>5, <1>6, Induction, Zenon
<1>8. g[MaxResp] = f[MaxResp] + Moved(MaxResp)
  BY <1>3, <1>7
<1>9. Moved(MaxResp) = e[k].release - d[k].release
  BY <1>3
<1>10. Owed(d) \in Nat /\ d[k].release \in Nat /\ e[k].release \in Nat
  BY OwedBounds, ReleaseType
<1> QED BY <1>1, <1>2, <1>8, <1>9, <1>10

(* When none does, the sum stays. *)
LEMMA OwedSame ==
    ASSUME NEW d \in [Resp -> DataType], NEW e \in [Resp -> DataType],
           \A r \in Resp : e[r].release = d[r].release
    PROVE  Owed(e) = Owed(d)
<1>1. CASE Resp = {}
  <2>1. MaxResp = 0
    <3>1. MaxResp \in Nat /\ Resp = 1 .. MaxResp
      BY FetchAssumption DEF Resp
    <3>2. MaxResp # 0 => 1 \in Resp
      BY <3>1
    <3> QED BY <1>1, <3>2
  <2>2. Owed(d) = 0 /\ Owed(e) = 0
    BY <1>1, <2>1, OwedWalk, Zenon
  <2> QED BY <2>2
<1>2. CASE Resp # {}
  <2>1. PICK k \in Resp : TRUE
    BY <1>2
  <2>2. Owed(e) = Owed(d) - d[k].release + e[k].release
    BY OwedChange
  <2> QED BY <2>2, OwedBounds, ReleaseType
<1> QED BY <1>1, <1>2

(* What the types say of the numbers. *)
LEMMA Numbers ==
    ASSUME TypeOK
    PROVE  /\ MaxBuffer \in Nat /\ MaxResp \in Nat /\ Resp = 1 .. MaxResp
           /\ \A r \in Resp : data[r] \in DataType /\ data[r].release \in 0 .. MaxBuffer
           /\ \A r \in Resp : data[r].release \in Nat
           /\ rd.bytes \in 0 .. MaxBuffer /\ inUse \in 0 .. MaxBuffer /\ last \in 0 .. MaxResp
           /\ Owed(data) \in Nat
           /\ rd \in ReaderType
<1>1. MaxBuffer \in Nat /\ MaxResp \in Nat /\ Resp = 1 .. MaxResp
  BY FetchAssumption DEF Resp
<1>2. \A r \in Resp : data[r] \in DataType /\ data[r].release \in 0 .. MaxBuffer
  BY DEF TypeOK, DataType
<1>3. \A r \in Resp : data[r].release \in Nat
  BY <1>1, <1>2
<1>4. rd.bytes \in 0 .. MaxBuffer /\ inUse \in 0 .. MaxBuffer /\ last \in 0 .. MaxResp /\ rd \in ReaderType
  BY DEF TypeOK, ReaderType
<1>5. Owed(data) \in Nat
  <2>1. data \in [Resp -> DataType]
    BY DEF TypeOK
  <2> QED BY <2>1, OwedBounds
<1> QED BY <1>1, <1>2, <1>3, <1>4, <1>5

(* The data of one response is replaced. *)
Replaced(d, e, k, x) == e = [d EXCEPT ![k] = x]

(* What that does to the sum. *)
LEMMA DataChange ==
    ASSUME NEW d \in [Resp -> DataType], NEW e \in [Resp -> DataType],
           NEW k \in Resp, NEW x \in DataType, Replaced(d, e, k, x)
    PROVE  /\ e[k] = x
           /\ \A r \in Resp : r # k => e[r] = d[r]
           /\ Owed(e) = Owed(d) - d[k].release + x.release
           /\ d[k].release \in 0 .. MaxBuffer /\ x.release \in 0 .. MaxBuffer
           /\ Owed(d) \in Nat /\ d[k].release <= Owed(d)
<1>1. e[k] = x /\ \A r \in Resp : r # k => e[r] = d[r]
  BY DEF Replaced
<1>2. \A r \in Resp : r # k => e[r].release = d[r].release
  BY <1>1
<1>3. Owed(e) = Owed(d) - d[k].release + e[k].release
  BY <1>2, OwedChange
<1>4. d[k].release \in 0 .. MaxBuffer /\ e[k].release \in 0 .. MaxBuffer
  BY ReleaseType
<1>5. Owed(d) \in Nat /\ d[k].release <= Owed(d)
  BY OwedBounds
<1> QED BY <1>1, <1>3, <1>4, <1>5

(* An item is among the rest of a response, or is the next. *)
LEMMA HasTail ==
    ASSUME NEW q \in Seq(Item), Len(q) > 0, NEW it
    PROVE  Has(q, it) <=> Head(q) = it \/ Has(Tail(q), it)
<1>1. /\ Len(q) \in Nat /\ Len(Tail(q)) = Len(q) - 1 /\ Head(q) = q[1]
      /\ \A i \in 1 .. Len(q) - 1 : Tail(q)[i] = q[i + 1]
  OBVIOUS
<1>2. ASSUME NEW i \in 1 .. Len(q), q[i] = it PROVE Head(q) = it \/ Has(Tail(q), it)
  <2>1. CASE i = 1
    BY <1>1, <1>2, <2>1
  <2>2. CASE i # 1
    <3>1. i - 1 \in 1 .. Len(Tail(q)) /\ Tail(q)[i - 1] = it
      BY <1>1, <1>2, <2>2
    <3> QED BY <3>1 DEF Has
  <2> QED BY <2>1, <2>2
<1>3. ASSUME NEW i \in 1 .. Len(Tail(q)), Tail(q)[i] = it PROVE Has(q, it)
  <2>1. i + 1 \in 1 .. Len(q) /\ q[i + 1] = it
    BY <1>1, <1>3
  <2> QED BY <2>1 DEF Has
<1>4. Head(q) = it => Has(q, it)
  BY <1>1 DEF Has
<1> QED BY <1>2, <1>3, <1>4 DEF Has

(* readItem: what it leaves alone, and when the message has to be handled. *)
LEMMA ReadFacts ==
    ASSUME NEW r \in ReaderType, Len(r.todo) > 0, NEW it \in Item
    PROVE  /\ Read(r, it) \in ReaderType
           /\ Read(r, it).m = r.m /\ Read(r, it).sel = r.sel
           /\ Read(r, it).needsUID = r.needsUID
           /\ Read(r, it).handled = r.handled /\ Read(r, it).bytes = r.bytes
           /\ Read(r, it).todo = Tail(r.todo)
           /\ Read(r, it).uid <=> r.uid \/ it = "uid"
           /\ Read(r, it).modseq <=> r.modseq \/ it = "modseq"
           /\ Read(r, it).at \in {"item", "handle", "send"}
           /\ Read(r, it).at = "handle" => /\ ~r.handled
                                           /\ r.needsUID => Read(r, it).uid
                                           /\ r.sel => it = "body"
<1> DEFINE r1 == [r EXCEPT !.uid = @ \/ it = "uid", !.modseq = @ \/ it = "modseq",
                           !.atts = @ + 1, !.todo = Tail(@)]
           keep == ShouldBuffer(r1) \/ (ShouldBufferMetadata(r1) /\ it # "body")
           must == Len(r1.buffered) > 0 \/ r1.atts > ItemsCap \/ it = "body"
           u == r.uid \/ it = "uid"
           o == r.modseq \/ it = "modseq"
<1>1. /\ r1 \in ReaderType /\ r1.m = r.m /\ r1.sel = r.sel /\ r1.needsUID = r.needsUID
      /\ r1.handled = r.handled /\ r1.bytes = r.bytes /\ r1.todo = Tail(r.todo)
      /\ r1.uid = u /\ r1.modseq = o
      /\ r1.buffered \in Seq(Item)
  <2> DEFINE n == r.atts + 1
             t == Tail(r.todo)
  <2>1. u \in BOOLEAN /\ o \in BOOLEAN
    OBVIOUS
  <2>2. r.todo \in Seq(Item) /\ r.atts \in Nat /\ r.buffered \in Seq(Item)
    BY DEF ReaderType
  <2>3. n \in Nat /\ t \in Seq(Item)
    BY <2>2
  <2>4. r1 = [r EXCEPT !.uid = u, !.modseq = o, !.atts = n, !.todo = t]
    OBVIOUS
  <2> HIDE DEF r1, u, o, n, t
  <2>5. r1 \in ReaderType
    BY <2>1, <2>3, <2>4, Zenon DEF ReaderType
  <2>6. /\ r1.m = r.m /\ r1.sel = r.sel /\ r1.needsUID = r.needsUID
        /\ r1.handled = r.handled /\ r1.bytes = r.bytes /\ r1.todo = t
        /\ r1.uid = u /\ r1.modseq = o /\ r1.buffered = r.buffered
    BY <2>4 DEF ReaderType
  <2> QED BY <2>2, <2>5, <2>6 DEF t
<1>2. Read(r, it) = IF keep THEN [r1 EXCEPT !.buffered = Append(@, it), !.at = "item"]
                    ELSE [r1 EXCEPT !.buffered = <<>>, !.out = Append(r1.buffered, it),
                                    !.at = IF must /\ ~r1.handled THEN "handle" ELSE "send"]
  BY DEF Read
<1> HIDE DEF r1, u, o
<1>a. (u <=> r.uid \/ it = "uid") /\ (o <=> r.modseq \/ it = "modseq")
  BY DEF u, o
<1>3. CASE keep
  <2>1. Read(r, it) = [r1 EXCEPT !.buffered = Append(@, it), !.at = "item"]
    BY <1>2, <1>3
  <2> DEFINE b == Append(r1.buffered, it)
  <2>2. b \in Seq(Item)
    BY <1>1
  <2>3. Read(r, it) = [r1 EXCEPT !.buffered = b, !.at = "item"]
    BY <2>1
  <2> HIDE DEF keep, must, b
  <2>4. Read(r, it) \in ReaderType
    BY <1>1, <2>2, <2>3, Zenon DEF ReaderType
  <2>5. /\ Read(r, it).m = r.m /\ Read(r, it).sel = r.sel
        /\ Read(r, it).needsUID = r.needsUID
        /\ Read(r, it).handled = r.handled /\ Read(r, it).bytes = r.bytes
        /\ Read(r, it).todo = Tail(r.todo)
        /\ Read(r, it).uid = u /\ Read(r, it).modseq = o /\ Read(r, it).at = "item"
    BY <1>1, <2>3 DEF ReaderType
  <2> QED BY <1>a, <2>4, <2>5
<1>4. CASE ~keep
  <2> DEFINE place == IF must /\ ~r1.handled THEN "handle" ELSE "send"
  <2>1. Read(r, it) = [r1 EXCEPT !.buffered = <<>>, !.out = Append(r1.buffered, it),
                                 !.at = place]
    BY <1>2, <1>4
  <2>2. /\ place \in {"handle", "send"}
        /\ place = "handle" => ~r.handled /\ (r.needsUID => r1.uid) /\ (r.sel => it = "body")
    BY <1>1, <1>4 DEF ShouldBuffer, ShouldBufferMetadata
  <2> DEFINE b == Append(r1.buffered, it)
  <2>3. b \in Seq(Item) /\ <<>> \in Seq(Item)
    BY <1>1
  <2>4. Read(r, it) = [r1 EXCEPT !.buffered = <<>>, !.out = b, !.at = place]
    BY <2>1
  <2> HIDE DEF keep, must, place, b
  <2>5. Read(r, it) \in ReaderType
    BY <1>1, <2>2, <2>3, <2>4, Zenon DEF ReaderType
  <2>6. /\ Read(r, it).m = r.m /\ Read(r, it).sel = r.sel
        /\ Read(r, it).needsUID = r.needsUID
        /\ Read(r, it).handled = r.handled /\ Read(r, it).bytes = r.bytes
        /\ Read(r, it).todo = Tail(r.todo)
        /\ Read(r, it).uid = u /\ Read(r, it).modseq = o /\ Read(r, it).at = place
    BY <1>1, <2>4 DEF ReaderType
  <2>7. place = "handle" => ~r.handled /\ (r.needsUID => u) /\ (r.sel => it = "body")
    BY <1>1, <2>2
  <2> QED BY <1>a, <2>2, <2>5, <2>6, <2>7
<1> QED BY <1>3, <1>4

(* The reader goes on with the response, which stays as the caller sees it. *)
LEMMA ReaderMoves ==
    ASSUME FetchInv, UNCHANGED <<sent, pending, recv, msgs, cons, data, last, closed, broken>>,
           rd' \in ReaderType, inUse' \in 0 .. MaxBuffer, freed' \in BOOLEAN,
           inUse' - rd'.bytes = inUse - rd.bytes,
           rd.at \notin {"idle", "deliver", "gone"}, rd'.at \notin {"idle", "deliver", "gone"},
           rd'.m = rd.m, rd'.sel = rd.sel, rd'.needsUID = rd.needsUID, rd'.handled = rd.handled,
           ReaderPlace',
           ~rd.handled /\ data[last].answers # NoCmd => Expected(data[last].answers)'
    PROVE  FetchInv'
<1>1. TypeOK' /\ Ordered' /\ Fresh'
  BY DEF FetchInv, TypeOK, Ordered, Fresh
<1>2. AnswersGoHome'
  BY DEF FetchInv, AnswersGoHome
<1>3. Addressed'
  <2>1. Unhandled' => Unhandled
    BY DEF Unhandled
  <2>2. Pending' = Pending
    BY DEF Pending
  <2> QED BY <2>1, <2>2 DEF FetchInv, Addressed, Unhandled
<1>4. BudgetExact'
  <2>1. /\ rd.bytes \in 0 .. MaxBuffer /\ inUse \in 0 .. MaxBuffer /\ Owed(data) \in Nat
        /\ MaxBuffer \in Nat
    BY Numbers DEF FetchInv
  <2>2. rd'.bytes \in 0 .. MaxBuffer
    BY DEF ReaderType
  <2>3. Owed(data)' = Owed(data)
    BY DEF Owed
  <2> QED BY <2>1, <2>2, <2>3 DEF FetchInv, BudgetExact
<1> QED BY <1>1, <1>2, <1>3, <1>4 DEF FetchInv

(* The arithmetic of a release: of b and o in use, p of o becomes n. *)
LEMMA BudgetMoves ==
    ASSUME NEW B \in Nat, NEW u \in 0 .. B, NEW b \in 0 .. B, NEW o \in Nat,
           NEW p \in 0 .. B, NEW n \in 0 .. B, n <= p, p <= o, u >= b + o
    PROVE  /\ u - (p - n) \in 0 .. B
           /\ u - (p - n) >= b + (o - p + n)
           /\ u = b + o => u - (p - n) = b + (o - p + n)
OBVIOUS

(* A consumer goes on with its message: it may not make one out of another. *)
LEMMA ConsumerMoves ==
    ASSUME FetchInv, NEW r \in Resp, NEW x \in DataType, Len(x.items) <= ItemsCap,
           data' = [data EXCEPT ![r] = x],
           UNCHANGED <<sent, pending, recv, msgs, rd, last, closed, broken>>,
           cons' \in [Cmd -> Resp \cup {0, Ended}], freed' \in BOOLEAN,
           x.release <= data[r].release, inUse' = inUse - (data[r].release - x.release),
           data[r].owner = "none" => /\ x.owner = "none" /\ x.answers = data[r].answers
                                     /\ x.release = data[r].release,
           \/ x.owner = "none"
           \/ /\ x.answers = data[r].answers
              /\ \/ x.owner = data[r].owner
                 \/ data[r].owner = "handler" /\ x.owner = "released"
    PROVE  FetchInv'
<1>1. /\ data \in [Resp -> DataType] /\ TypeOK
      /\ MaxBuffer \in Nat /\ rd.bytes \in 0 .. MaxBuffer /\ inUse \in 0 .. MaxBuffer
  BY Numbers DEF FetchInv, TypeOK
<1>2. /\ data' \in [Resp -> DataType] /\ data'[r] = x
      /\ \A s \in Resp : s # r => data'[s] = data[s]
      /\ Owed(data') = Owed(data) - data[r].release + x.release
      /\ data[r].release \in 0 .. MaxBuffer /\ x.release \in 0 .. MaxBuffer
      /\ Owed(data) \in Nat /\ data[r].release <= Owed(data)
  <2>1. data' \in [Resp -> DataType]
    BY <1>1
  <2>2. Replaced(data, data', r, x)
    BY DEF Replaced
  <2>3. x \in DataType /\ r \in Resp
    OBVIOUS
  <2> QED BY ONLY <1>1, <2>1, <2>2, <2>3, DataChange
<1>3. BudgetExact'
  <2>1. inUse >= rd.bytes + Owed(data) /\ (~broken => inUse = rd.bytes + Owed(data))
    BY <1>1, <1>2 DEF FetchInv, BudgetExact
  <2>2. /\ inUse' >= rd.bytes + Owed(data')
        /\ ~broken => inUse' = rd.bytes + Owed(data')
    <3>1. inUse' = inUse - (data[r].release - x.release)
      OBVIOUS
    <3>2. Owed(data') = Owed(data) - data[r].release + x.release
      BY <1>2, Zenon
    <3>3. x.release <= data[r].release
      OBVIOUS
    <3> QED BY ONLY <1>1, <1>2, <2>1, <3>1, <3>2, <3>3, BudgetMoves
  <2> QED BY <2>2 DEF BudgetExact
<1>4. inUse' \in 0 .. MaxBuffer
  <2>1. inUse >= rd.bytes + Owed(data)
    BY <1>1, <1>2 DEF FetchInv, BudgetExact
  <2> QED BY <1>1, <1>2, <2>1, BudgetMoves, Zenon
<1>5. \A s \in Resp : Len(data'[s].items) <= ItemsCap
  BY <1>2 DEF FetchInv, TypeOK
<1>6. TypeOK'
  BY <1>2, <1>4, <1>5, Zenon DEF FetchInv, TypeOK
<1>7. Ordered' /\ ReaderPlace'
  BY DEF FetchInv, Ordered, ReaderPlace
<1>8. Fresh'
  <2>1. \A s \in Resp : s > last => data'[s].release = 0
    BY <1>1, <1>2 DEF FetchInv, Fresh
  <2> QED BY <2>1 DEF Fresh
<1>9. AnswersGoHome'
  <2>1. "none" \notin Cmd /\ "released" \notin Cmd
    BY FetchAssumption, Zenon
  <2>2. /\ x.owner \in Cmd => x.owner = x.answers
        /\ x.owner = "select" => x.answers # NoCmd /\ Kind[x.answers] = "select"
        /\ x.owner \in {"discard", "handler", "released"} /\ ~broken => x.answers = NoCmd
    BY <2>1, Zenon DEF FetchInv, AnswersGoHome
  <2> QED BY <1>2, <2>2, Zenon DEF FetchInv, AnswersGoHome
<1>10. Addressed'
  <2>1. SUFFICES ASSUME Unhandled PROVE Addressed'
    BY DEF Addressed, Unhandled
  <2>2. last \in Resp
    BY <2>1, Zenon DEF FetchInv, ReaderPlace, Unhandled
  <2>3. /\ data'[last].owner = "none" /\ data'[last].release = 0
        /\ data'[last].answers = data[last].answers
    BY <1>2, <2>1, <2>2 DEF FetchInv, Addressed
  <2>4. Pending' = Pending
    BY DEF Pending
  <2> QED BY <2>1, <2>3, <2>4, Zenon DEF FetchInv, Addressed, Expected
<1> QED BY <1>3, <1>6, <1>7, <1>8, <1>9, <1>10 DEF FetchInv

(* FetchMessageData.Next, fetchLiteralReader and releaseAfterCallback. *)
LEMMA ConsumersKept ==
    ASSUME FetchInv, NEW r \in Resp
    PROVE  Consume(r) \/ CallbackReturns(r) => FetchInv'
<1>1. /\ data \in [Resp -> DataType] /\ data[r] \in DataType /\ cons \in [Cmd -> Resp \cup {0, Ended}]
      /\ freed \in BOOLEAN /\ Len(data[r].items) <= ItemsCap
      /\ data[r].release \in Nat /\ inUse \in Nat /\ MaxBuffer \in Nat
  BY Numbers DEF FetchInv, TypeOK
<1>2. data[r].items \in Seq(Item) /\ data[r].held \in BOOLEAN
  BY <1>1 DEF DataType
<1>3. ASSUME NextItem(r) PROVE FetchInv'
  <2> DEFINE q == Tail(data[r].items)
             h == Head(data[r].items) = "body"
             x == [data[r] EXCEPT !.items = q, !.held = h]
  <2>1. q \in Seq(Item) /\ h \in BOOLEAN /\ Len(q) <= ItemsCap
    BY <1>1, <1>2, <1>3, FetchAssumption DEF NextItem
  <2>2. data' = [data EXCEPT ![r] = x]
    BY <1>1, <1>3, Zenon DEF NextItem
  <2>3. UNCHANGED <<sent, pending, recv, msgs, cons, rd, last, inUse, freed, closed, broken>>
    BY <1>3 DEF NextItem
  <2> HIDE DEF q, h
  <2>4. /\ x \in DataType /\ x.items = q /\ x.owner = data[r].owner
        /\ x.answers = data[r].answers /\ x.release = data[r].release
    BY <1>1, <2>1, Zenon DEF DataType
  <2> HIDE DEF x
  <2>5. x.release <= data[r].release /\ inUse' = inUse - (data[r].release - x.release)
    BY <1>1, <2>3, <2>4
  <2> QED BY <1>1, <2>1, <2>2, <2>3, <2>4, <2>5, ConsumerMoves, Zenon
<1>4. ASSUME DrainBody(r) PROVE FetchInv'
  <2> DEFINE x == [data[r] EXCEPT !.held = FALSE]
  <2>1. data' = [data EXCEPT ![r] = x]
    BY <1>1, <1>4 DEF DrainBody
  <2>2. UNCHANGED <<sent, pending, recv, msgs, cons, rd, last, inUse, freed, closed, broken>>
    BY <1>4 DEF DrainBody
  <2>3. /\ x \in DataType /\ x.items = data[r].items /\ x.owner = data[r].owner
        /\ x.answers = data[r].answers /\ x.release = data[r].release
    BY <1>1, Zenon DEF DataType
  <2> HIDE DEF x
  <2>4. x.release <= data[r].release /\ inUse' = inUse - (data[r].release - x.release)
    BY <1>1, <2>2, <2>3
  <2> QED BY <1>1, <2>1, <2>2, <2>3, <2>4, ConsumerMoves, Zenon
<1>5. ASSUME EndMsg(r) PROVE FetchInv'
  <2>1. /\ data' = [data EXCEPT ![r] = NoData] /\ data[r].owner # "none"
        /\ inUse' = inUse - data[r].release
        /\ UNCHANGED <<sent, pending, recv, msgs, rd, last, closed, broken>>
    BY <1>5 DEF EndMsg, Reads, ReleaseFetchBuffer
  <2>2. cons' \in [Cmd -> Resp \cup {0, Ended}]
    BY <1>1, <1>5 DEF EndMsg
  <2>3. freed' \in BOOLEAN
    BY <1>1, <1>5, Zenon DEF EndMsg, ReleaseFetchBuffer
  <2>4. /\ NoData \in DataType /\ Len(NoData.items) <= ItemsCap /\ NoData.owner = "none"
        /\ NoData.release = 0
    BY FetchAssumption DEF NoData, DataType
  <2>5. NoData.release <= data[r].release /\ inUse' = inUse - (data[r].release - NoData.release)
    BY <1>1, <2>1, <2>4
  <2> QED BY <2>1, <2>2, <2>3, <2>4, <2>5, ConsumerMoves, Zenon
<1>6. ASSUME CallbackReturns(r) PROVE FetchInv'
  <2> DEFINE x == [data[r] EXCEPT !.owner = "released"]
  <2>1. data' = [data EXCEPT ![r] = x] /\ data[r].owner = "handler"
    BY <1>1, <1>6 DEF CallbackReturns
  <2>2. UNCHANGED <<sent, pending, recv, msgs, cons, rd, last, inUse, freed, closed, broken>>
    BY <1>6 DEF CallbackReturns
  <2>3. /\ x \in DataType /\ x.items = data[r].items /\ x.owner = "released"
        /\ x.answers = data[r].answers /\ x.release = data[r].release
    BY <1>1, Zenon DEF DataType
  <2> HIDE DEF x
  <2>4. x.release <= data[r].release /\ inUse' = inUse - (data[r].release - x.release)
    BY <1>1, <2>2, <2>3
  <2> QED BY <1>1, <2>1, <2>2, <2>3, <2>4, ConsumerMoves, Zenon
<1> QED BY <1>3, <1>4, <1>5, <1>6, Zenon DEF Consume

(* A caller sends a command, behind the others: the response being read has  *)
(* its command already.                                                      *)
LEMMA SendKept ==
    ASSUME FetchInv, NEW c \in Cmd, Send(c)
    PROVE  FetchInv'
<1>1. /\ pending \in Seq(Cmd) /\ c \notin sent /\ ~broken /\ sent' = sent \cup {c}
      /\ pending' = Append(pending, c)
      /\ UNCHANGED <<recv, msgs, data, rd, last, inUse, freed, closed, broken>>
  BY DEF FetchInv, TypeOK, Send
<1>2. /\ Len(pending) \in Nat /\ Len(pending') = Len(pending) + 1 /\ pending'[Len(pending) + 1] = c
      /\ \A i \in 1 .. Len(pending) : pending'[i] = pending[i] /\ pending[i] \in Cmd
      /\ pending' \in Seq(Cmd) /\ pending' # <<>>
      /\ pending # <<>> => Head(pending') = Head(pending)
  BY <1>1
<1>3. TypeOK'
  <2>1. cons' \in [Cmd -> Resp \cup {0, Ended}]
    BY DEF Send, FetchInv, TypeOK
  <2> QED BY <1>1, <1>2, <2>1, Zenon DEF FetchInv, TypeOK
<1>4. Ordered'
  <2>1. \A i \in 1 .. Len(pending) : pending[i] \in Pending
    BY Zenon DEF Pending
  <2>2. Kind[c] = "select" => \A i \in 1 .. Len(pending) : Kind[pending[i]] = "select"
    BY <2>1, Zenon DEF Send, IsFetch
  <2>3. \A i \in 1 .. Len(pending') : i \in 1 .. Len(pending) \/ i = Len(pending) + 1
    BY <1>2
  <2>4. \A i \in 1 .. Len(pending') : pending'[i] \in sent'
    BY <1>1, <1>2, <2>3 DEF FetchInv, Ordered
  <2>5. ASSUME NEW i \in 1 .. Len(pending'), NEW j \in 1 .. Len(pending'), i < j,
               Kind[pending'[j]] = "select"
        PROVE  Kind[pending'[i]] = "select"
    <3>1. i \in 1 .. Len(pending)
      BY <1>2, <2>5
    <3>2. CASE j \in 1 .. Len(pending)
      BY <1>2, <2>5, <3>1, <3>2 DEF FetchInv, Ordered
    <3>3. CASE j = Len(pending) + 1
      BY <1>2, <2>2, <2>5, <3>1, <3>3, Zenon
    <3> QED BY <2>3, <3>2, <3>3, Zenon
  <2> QED BY <2>4, <2>5, Zenon DEF Ordered
<1>5. ReaderPlace' /\ Fresh' /\ AnswersGoHome'
  BY <1>1 DEF FetchInv, ReaderPlace, Fresh, AnswersGoHome
<1>6. BudgetExact'
  BY <1>1 DEF FetchInv, BudgetExact
<1>7. Addressed'
  <2>1. \A d \in Pending' : d \in Pending \/ d = c
    <3>1. ASSUME NEW i \in 1 .. Len(pending') PROVE pending'[i] \in Pending \/ pending'[i] = c
      BY <1>2 DEF Pending
    <3> QED BY <3>1, Zenon DEF Pending
  <2>2. SUFFICES ASSUME Unhandled PROVE Addressed'
    BY <1>1, Zenon DEF Addressed, Unhandled
  <2>3. CASE data[last].answers = NoCmd
    <3>1. \A d \in Cmd : rd.m \in Asks[d] => d \in sent /\ (d \in Pending => rd.m \in recv[d])
      BY <2>2, <2>3, Zenon DEF FetchInv, Addressed
    <3>2. \A d \in Cmd : rd.m \in Asks[d] => d \in sent' /\ (d \in Pending' => rd.m \in recv[d])
      BY <1>1, <2>1, <3>1
    <3> QED BY <1>1, <2>2, <2>3, <3>2 DEF FetchInv, Addressed
  <2>4. CASE data[last].answers # NoCmd
    <3> DEFINE a == data[last].answers
    <3>1. Expected(a)
      BY <2>2, <2>4, Zenon DEF FetchInv, Addressed
    <3>2. pending # <<>> /\ Head(pending') = a /\ rd.m \notin recv[a]
      BY <1>1, <1>2, <3>1, Zenon DEF Expected
    <3>3. Expected(a)'
      BY <1>1, <1>2, <3>1, <3>2 DEF Expected
    <3> QED BY <1>1, <2>2, <2>4, <3>3, Zenon DEF FetchInv, Addressed
  <2> QED BY <2>3, <2>4, Zenon
<1> QED BY <1>3, <1>4, <1>5, <1>6, <1>7 DEF FetchInv

(* The data of a response that begins. *)
LEMMA NewData ==
    ASSUME NEW c \in Cmd \cup {NoCmd}, NEW x, x = [NoData EXCEPT !.answers = c, !.open = TRUE]
    PROVE  /\ x \in DataType /\ x.answers = c /\ x.owner = "none" /\ x.release = 0
           /\ x.items = <<>>
<1>1. 0 \in 0 .. MaxBuffer /\ <<>> \in Seq(Item)
  BY FetchAssumption
<1>2. x \in DataType
  BY <1>1, Zenon DEF NoData, DataType
<1> QED BY <1>2 DEF NoData

(* A response begins.  Of a SELECT in progress it is the oldest command, and *)
(* a UID command that is the oldest makes the reader wait for the UID.       *)
LEMMA StartsKept ==
    ASSUME FetchInv, NEW m \in Msg, NEW shape \in Shapes, Answer(m, shape) \/ Unsolicited(m, shape)
    PROVE  FetchInv'
<1>1. PICK c \in Cmd \cup {NoCmd} :
        /\ Starts(m, shape, c)
        /\ \/ Answer(m, shape) /\ c = Head(pending) /\ Len(pending) > 0 /\ c \in Cmd
           \/ Unsolicited(m, shape) /\ c = NoCmd
  <2>1. pending \in Seq(Cmd)
    BY Zenon DEF FetchInv, TypeOK
  <2>2. ASSUME Answer(m, shape)
        PROVE  Head(pending) \in Cmd /\ Len(pending) > 0 /\ Starts(m, shape, Head(pending))
    BY <2>1, <2>2 DEF Answer
  <2>3. ASSUME Unsolicited(m, shape) PROVE Starts(m, shape, NoCmd)
    BY <2>3 DEF Unsolicited
  <2> QED BY <2>2, <2>3
<1> DEFINE needs == UIDPending /\ ~SeqClaimed(m)
           sp == SelectPending
           x == [NoData EXCEPT !.answers = c, !.open = TRUE]
           k == last + 1
<1>2. /\ rd.at = "idle" /\ ~broken /\ last < MaxResp /\ last' = k
      /\ rd' = [Idle EXCEPT !.at = "item", !.m = m, !.todo = shape, !.needsUID = needs, !.sel = sp]
      /\ data' = [data EXCEPT ![k] = x]
      /\ UNCHANGED <<sent, pending, recv, msgs, cons, inUse, freed, closed, broken>>
  BY <1>1 DEF Starts
<1>3. needs \in BOOLEAN /\ sp \in BOOLEAN /\ shape \in Seq(Item)
      /\ "none" \notin Cmd /\ "select" \notin Cmd
  <2>1. needs \in BOOLEAN
    BY Zenon
  <2>2. sp \in BOOLEAN
    BY Zenon DEF SelectPending
  <2>3. shape \in Seq(Item) /\ "none" \notin Cmd /\ "select" \notin Cmd
    BY FetchAssumption
  <2> QED BY <2>1, <2>2, <2>3
<1>4. /\ last \in 0 .. MaxResp /\ MaxResp \in Nat /\ Resp = 1 .. MaxResp /\ MaxBuffer \in Nat
      /\ data \in [Resp -> DataType] /\ pending \in Seq(Cmd)
  BY Numbers DEF FetchInv, TypeOK
<1>5. k \in Resp /\ k \in 0 .. MaxResp
  BY <1>2, <1>4
<1>6. /\ x \in DataType /\ x.answers = c /\ x.owner = "none" /\ x.release = 0
      /\ x.items = <<>>
  <2>1. x = [NoData EXCEPT !.answers = c, !.open = TRUE]
    BY Zenon
  <2> HIDE DEF x
  <2> QED BY <2>1, NewData, Zenon
<1> HIDE DEF needs, sp, x
<1>7. /\ rd' \in ReaderType /\ rd'.at = "item" /\ rd'.m = m /\ rd'.todo = shape
      /\ rd'.needsUID = needs /\ rd'.sel = sp /\ ~rd'.handled /\ rd'.bytes = 0
      /\ rd'.uid = FALSE /\ rd'.modseq = FALSE
  <2>1. rd' = [at |-> "item", m |-> m, todo |-> shape, uid |-> FALSE, modseq |-> FALSE,
               needsUID |-> needs, sel |-> sp, handled |-> FALSE, buffered |-> <<>>,
               bytes |-> 0, atts |-> 0, out |-> <<>>]
    BY <1>2, Zenon DEF Idle
  <2>2. 0 \in 0 .. MaxBuffer /\ <<>> \in Seq(Item)
    BY <1>4
  <2>3. rd' \in ReaderType
    BY <1>3, <2>1, <2>2, Zenon DEF ReaderType
  <2> QED BY <2>1, <2>3
<1>8. /\ data' \in [Resp -> DataType] /\ data'[k] = x
      /\ \A r \in Resp : r # k => data'[r] = data[r]
  BY <1>2, <1>4, <1>5, <1>6
<1>9. TypeOK'
  <2>1. \A r \in Resp : Len(data'[r].items) <= ItemsCap
    <3>1. Len(x.items) <= ItemsCap
      BY <1>6, FetchAssumption
    <3> QED BY <1>8, <3>1, Zenon DEF FetchInv, TypeOK
  <2> QED BY <1>2, <1>5, <1>7, <1>8, <2>1, Zenon DEF FetchInv, TypeOK
<1>10. Ordered' /\ ReaderPlace'
  BY <1>2, <1>5, <1>7, Zenon DEF FetchInv, Ordered, ReaderPlace
<1>11. Fresh'
  <2>1. \A r \in Resp : r > k => r > last /\ r # k
    BY <1>4
  <2> QED BY <1>2, <1>8, <2>1 DEF FetchInv, Fresh
<1>12. AnswersGoHome'
  <2>1. "none" \notin Cmd
    BY FetchAssumption
  <2> QED BY <1>2, <1>6, <1>8, <2>1, Zenon DEF FetchInv, AnswersGoHome
<1>13. BudgetExact'
  <2>1. k > last
    BY <1>4
  <2>2. data[k].release = 0
    BY <1>5, <2>1 DEF FetchInv, Fresh
  <2>3. Replaced(data, data', k, x)
    BY <1>2 DEF Replaced
  <2>4. Owed(data') = Owed(data) - data[k].release + x.release /\ Owed(data) \in Nat
    BY ONLY <1>4, <1>5, <1>6, <1>8, <2>3, DataChange
  <2>5. Owed(data') = Owed(data)
    BY <1>6, <2>2, <2>4
  <2>6. rd.bytes = 0
    BY <1>2 DEF FetchInv, ReaderPlace
  <2> QED BY <1>2, <1>7, <2>5, <2>6 DEF FetchInv, BudgetExact
<1>14. Addressed'
  <2>1. data'[last'].owner = "none" /\ data'[last'].release = 0 /\ data'[last'].answers = c
    BY <1>2, <1>6, <1>8, Zenon
  <2>2. ASSUME Unsolicited(m, shape), c = NoCmd PROVE Addressed'
    <3>1. ~sp /\ \A d \in Cmd : m \in Asks[d] => d \in sent /\ (d \in Pending => m \in recv[d])
      BY <2>2, Zenon DEF Unsolicited, sp
    <3>2. Pending' = Pending
      BY <1>2, Zenon DEF Pending
    <3> QED BY <1>2, <1>7, <2>1, <2>2, <3>1, <3>2 DEF Addressed
  <2>3. ASSUME Answer(m, shape), c = Head(pending), Len(pending) > 0, c \in Cmd PROVE Addressed'
    <3>1. /\ m \in Asks[c] /\ m \notin recv[c]
          /\ Kind[c] = "uid" => Has(shape, "uid")
          /\ Kind[c] = "select" => Has(shape, "uid") /\ Has(shape, "modseq") /\ ~Has(shape, "body")
      BY <2>3, Zenon DEF Answer
    <3>2. Kind[c] \in {"uid", "seq", "select"} /\ c # NoCmd
      BY <2>3, FetchAssumption
    <3>3. c = pending[1] /\ Len(pending) \in Nat /\ 1 \in 1 .. Len(pending) /\ c \in Pending
      BY <1>4, <2>3 DEF Pending
    <3>4. sp <=> Kind[c] = "select"
      <4>1. ASSUME NEW i \in 1 .. Len(pending), Kind[pending[i]] = "select"
            PROVE  Kind[c] = "select"
        <5>1. i = 1 \/ 1 < i
          BY <3>3
        <5> QED BY <3>3, <4>1, <5>1 DEF FetchInv, Ordered
      <4> QED BY <3>3, <4>1, Zenon DEF sp, SelectPending, Pending
    <3>5. Kind[c] = "uid" => needs
      <4>1. SUFFICES ASSUME Kind[c] = "uid" PROVE UIDPending /\ ~SeqClaimed(m)
        BY DEF needs
      <4>2. UIDPending
        BY <3>3, <4>1, Zenon DEF UIDPending
      <4>3. ASSUME NEW i \in 1 .. Len(pending), Kind[pending[i]] = "seq",
                   \A j \in 1 .. (i - 1) : Kind[pending[j]] # "uid"
            PROVE  FALSE
        <5>1. i # 1
          BY <3>3, <4>1, <4>3, Zenon
        <5>2. 1 \in 1 .. (i - 1)
          BY <3>3, <5>1
        <5> QED BY <3>3, <4>1, <4>3, <5>2
      <4> QED BY <4>2, <4>3 DEF SeqClaimed
    <3>6. pending' = pending /\ pending # <<>>
      BY <1>2, <1>4, <2>3
    <3>7. Expected(c)'
      BY <1>2, <1>7, <2>3, <3>1, <3>2, <3>4, <3>5, <3>6, Zenon DEF Expected
    <3> QED BY <2>1, <3>2, <3>7, Zenon DEF Addressed
  <2> QED BY <1>1, <2>2, <2>3, Zenon
<1> QED BY <1>9, <1>10, <1>11, <1>12, <1>13, <1>14 DEF FetchInv

(* The rest of readItem, with or without a reservation: a response that a UID *)
(* command awaits is not handled before its UID is read, and one that SELECT  *)
(* awaits not before its end.                                                 *)
LEMMA ReadKept ==
    ASSUME FetchInv, UNCHANGED <<sent, pending, recv, msgs, cons, data, last, closed, broken>>,
           rd.at \in {"item", "acquire"}, Len(rd.todo) > 0,
           NEW r \in ReaderType, rd' = Read(r, Head(rd.todo)),
           r.m = rd.m, r.todo = rd.todo, r.uid = rd.uid, r.modseq = rd.modseq,
           r.needsUID = rd.needsUID, r.sel = rd.sel, r.handled = rd.handled,
           rd.handled => r.bytes = 0,
           inUse' \in 0 .. MaxBuffer, freed' \in BOOLEAN,
           inUse' - r.bytes = inUse - rd.bytes
    PROVE  FetchInv'
<1> DEFINE it == Head(rd.todo)
<1>1. rd.todo \in Seq(Item) /\ it \in Item /\ Len(r.todo) > 0
  <2>1. rd \in ReaderType /\ Len(rd.todo) > 0 /\ r.todo = rd.todo
    BY Zenon DEF FetchInv, TypeOK
  <2>2. rd.todo \in Seq(Item)
    BY ONLY <2>1, Zenon DEF ReaderType
  <2> QED BY ONLY <2>1, <2>2
<1>2. /\ rd' \in ReaderType /\ rd'.m = rd.m /\ rd'.sel = rd.sel /\ rd'.needsUID = rd.needsUID
      /\ rd'.handled = rd.handled /\ rd'.bytes = r.bytes /\ rd'.todo = Tail(rd.todo)
      /\ rd'.uid <=> rd.uid \/ it = "uid"
      /\ rd'.modseq <=> rd.modseq \/ it = "modseq"
      /\ rd'.at \in {"item", "handle", "send"}
      /\ rd'.at = "handle" => /\ ~rd.handled
                              /\ rd.needsUID => rd'.uid
                              /\ rd.sel => it = "body"
  BY <1>1, ReadFacts
<1>3. \A y : Has(rd.todo, y) <=> it = y \/ Has(rd'.todo, y)
  BY <1>1, <1>2, HasTail
<1> HIDE DEF it
<1>4. ReaderPlace'
  <2>1. last \in Resp /\ last' = last
    BY Zenon DEF FetchInv, ReaderPlace
  <2>2. rd'.handled => rd'.bytes = 0
    BY <1>2, Zenon
  <2> QED BY <1>2, <2>1, <2>2, Zenon DEF ReaderPlace
<1>5. ASSUME ~rd.handled, data[last].answers # NoCmd PROVE Expected(data[last].answers)'
  <2> DEFINE a == data[last].answers
  <2>1. Expected(a)
    BY <1>5, Zenon DEF FetchInv, Addressed, Unhandled
  <2>2. Kind[a] # "seq" => rd'.uid \/ Has(rd'.todo, "uid")
    BY <1>2, <1>3, <2>1, Zenon DEF Expected
  <2>3. Kind[a] = "select" => (rd'.modseq \/ Has(rd'.todo, "modseq")) /\ ~Has(rd'.todo, "body")
    BY <1>2, <1>3, <2>1, Zenon DEF Expected
  <2>4. Kind[a] = "select" => it # "body"
    BY <1>3, <2>1, Zenon DEF Expected
  <2>5. a \in Cmd
    <3>1. last \in Resp
      BY DEF FetchInv, ReaderPlace
    <3> QED BY <1>5, <3>1, Numbers, Zenon DEF FetchInv, DataType
  <2>6. Kind[a] \in {"uid", "seq", "select"}
    BY <2>5, FetchAssumption, Zenon
  <2>7. rd'.at = "handle" => (Kind[a] # "seq" => rd'.uid) /\ Kind[a] # "select"
    <3>1. (Kind[a] = "uid" => rd.needsUID) /\ (Kind[a] = "select" => rd.sel)
      BY <2>1, Zenon DEF Expected
    <3>2. ASSUME rd'.at = "handle" PROVE (Kind[a] # "seq" => rd'.uid) /\ Kind[a] # "select"
      <4>1. (Kind[a] = "uid" => rd'.uid) /\ Kind[a] # "select"
        BY <1>2, <2>4, <3>1, <3>2, Zenon
      <4> QED BY <2>6, <4>1, Zenon
    <3> QED BY <3>2, Zenon
  <2> QED BY <1>2, <2>1, <2>2, <2>3, <2>7, Zenon DEF Expected
<1>6. inUse' - rd'.bytes = inUse - rd.bytes
  BY <1>2, Zenon
<1>7. rd.at \notin {"idle", "deliver", "gone"} /\ rd'.at \notin {"idle", "deliver", "gone"}
  BY <1>2
<1> QED BY <1>2, <1>4, <1>5, <1>6, <1>7, ReaderMoves, Zenon

(* The reader only changes its place, not to the handling of the message. *)
LEMMA PlaceKept ==
    ASSUME FetchInv, UNCHANGED <<sent, pending, recv, msgs, cons, data, last, closed, broken>>,
           inUse' = inUse, freed' \in BOOLEAN,
           NEW at \in {"item", "acquire", "parked", "send"}, NEW out \in Seq(Item),
           NEW buffered \in Seq(Item),
           rd' = [rd EXCEPT !.at = at, !.out = out, !.buffered = buffered],
           rd.at \notin {"idle", "deliver", "gone"},
           at \in {"acquire", "parked"} => ~rd.handled /\ Len(rd.todo) > 0 /\ rd.bytes < MaxBuffer
    PROVE  FetchInv'
<1>1. rd \in ReaderType /\ inUse \in 0 .. MaxBuffer /\ rd.bytes \in 0 .. MaxBuffer /\ MaxBuffer \in Nat
  BY Numbers DEF FetchInv
<1>2. /\ rd' \in ReaderType /\ rd'.at = at /\ rd'.m = rd.m /\ rd'.sel = rd.sel
      /\ rd'.needsUID = rd.needsUID /\ rd'.handled = rd.handled /\ rd'.bytes = rd.bytes
      /\ rd'.todo = rd.todo /\ rd'.uid = rd.uid /\ rd'.modseq = rd.modseq
  BY <1>1, Zenon DEF ReaderType
<1>3. ReaderPlace'
  BY <1>2 DEF FetchInv, ReaderPlace
<1>4. ASSUME ~rd.handled, data[last].answers # NoCmd PROVE Expected(data[last].answers)'
  <2>1. Expected(data[last].answers)
    BY <1>4 DEF FetchInv, Addressed, Unhandled
  <2> QED BY <1>2, <2>1 DEF Expected
<1>5. inUse' \in 0 .. MaxBuffer /\ inUse' - rd'.bytes = inUse - rd.bytes
  BY <1>1, <1>2
<1>6. rd'.at \notin {"idle", "deliver", "gone"}
  BY <1>2
<1> QED BY <1>2, <1>3, <1>4, <1>5, <1>6, ReaderMoves

(* readItem up to the reservation. *)
LEMMA ReadItemKept ==
    ASSUME FetchInv, ReadItem
    PROVE  FetchInv'
<1>1. /\ rd \in ReaderType /\ inUse \in 0 .. MaxBuffer /\ freed \in BOOLEAN
      /\ rd.out \in Seq(Item) /\ rd.buffered \in Seq(Item)
  BY Numbers, Zenon DEF FetchInv, TypeOK, ReaderType
<1>2. /\ rd.at = "item" /\ Len(rd.todo) > 0
      /\ UNCHANGED <<sent, pending, recv, msgs, cons, data, last, inUse, freed, closed, broken>>
  BY DEF ReadItem
<1>3. CASE Reserves(rd, Head(rd.todo))
  <2>1. rd.bytes < MaxBuffer /\ rd' = [rd EXCEPT !.at = "acquire"]
    BY <1>3 DEF ReadItem
  <2>2. ~rd.handled
    BY <1>3 DEF Reserves, ShouldBuffer, ShouldBufferMetadata
  <2>3. rd' = [rd EXCEPT !.at = "acquire", !.out = rd.out, !.buffered = rd.buffered]
    BY <1>1, <2>1, Zenon DEF ReaderType
  <2> QED BY <1>1, <1>2, <2>1, <2>2, <2>3, PlaceKept, Zenon
<1>4. CASE ~Reserves(rd, Head(rd.todo))
  <2>1. rd' = Read(rd, Head(rd.todo))
    BY <1>4 DEF ReadItem
  <2>2. rd.handled => rd.bytes = 0
    BY DEF FetchInv, ReaderPlace
  <2> QED BY <1>1, <1>2, <2>1, <2>2, ReadKept
<1> QED BY <1>3, <1>4

(* acquireFetchBuffer *)
LEMMA AcquireKept ==
    ASSUME FetchInv, Acquire
    PROVE  FetchInv'
<1>1. /\ rd \in ReaderType /\ inUse \in 0 .. MaxBuffer /\ freed \in BOOLEAN /\ MaxBuffer \in Nat
      /\ rd.out \in Seq(Item) /\ rd.buffered \in Seq(Item) /\ rd.bytes \in 0 .. MaxBuffer
  BY Numbers, Zenon DEF FetchInv, TypeOK, ReaderType
<1>2. /\ rd.at = "acquire" /\ ~rd.handled /\ Len(rd.todo) > 0 /\ rd.bytes < MaxBuffer
      /\ UNCHANGED <<sent, pending, recv, msgs, cons, data, last, closed, broken>>
  BY Zenon DEF Acquire, FetchInv, ReaderPlace
<1>3. CASE inUse < MaxBuffer
  <2> DEFINE n == rd.bytes + 1
             r == [rd EXCEPT !.bytes = n]
  <2>1. inUse' = inUse + 1 /\ rd' = Read(r, Head(rd.todo)) /\ freed' = freed
    BY <1>3 DEF Acquire
  <2>2. n \in 0 .. MaxBuffer
    BY <1>1, <1>2
  <2> HIDE DEF n
  <2>3. /\ r \in ReaderType /\ r.m = rd.m /\ r.todo = rd.todo /\ r.uid = rd.uid
        /\ r.modseq = rd.modseq /\ r.needsUID = rd.needsUID /\ r.sel = rd.sel
        /\ r.handled = rd.handled /\ r.bytes = n
    BY <1>1, <2>2, Zenon DEF ReaderType
  <2> HIDE DEF r
  <2>4. inUse' \in 0 .. MaxBuffer /\ inUse' - r.bytes = inUse - rd.bytes
    BY <1>1, <1>3, <2>1, <2>3 DEF n
  <2> QED BY <1>1, <1>2, <2>1, <2>3, <2>4, ReadKept
<1>4. CASE ~(inUse < MaxBuffer)
  <2>1. freed' = TRUE /\ inUse' = inUse /\ rd' = [rd EXCEPT !.at = "parked"]
    BY <1>4 DEF Acquire
  <2>2. rd' = [rd EXCEPT !.at = "parked", !.out = rd.out, !.buffered = rd.buffered]
    BY <1>1, <2>1, Zenon DEF ReaderType
  <2> QED BY <1>1, <1>2, <2>1, <2>2, PlaceKept, Zenon
<1> QED BY <1>3, <1>4

(* The wait for a release ends, and the one for a body. *)
LEMMA WaitsKept ==
    ASSUME FetchInv, Unpark \/ BodyDone
    PROVE  FetchInv'
<1>1. /\ rd \in ReaderType /\ freed \in BOOLEAN /\ rd.out \in Seq(Item) /\ rd.buffered \in Seq(Item)
  BY Numbers, Zenon DEF FetchInv, TypeOK, ReaderType
<1>2. UNCHANGED <<sent, pending, recv, msgs, cons, data, last, inUse, freed, closed, broken>>
  BY DEF Unpark, BodyDone
<1>3. ASSUME Unpark PROVE FetchInv'
  <2>1. /\ rd.at = "parked" /\ ~rd.handled /\ Len(rd.todo) > 0 /\ rd.bytes < MaxBuffer
        /\ rd' = [rd EXCEPT !.at = "acquire"]
    BY <1>3 DEF Unpark, FetchInv, ReaderPlace
  <2>2. rd' = [rd EXCEPT !.at = "acquire", !.out = rd.out, !.buffered = rd.buffered]
    BY <1>1, <2>1, Zenon DEF ReaderType
  <2> QED BY <1>1, <1>2, <2>1, <2>2, PlaceKept, Zenon
<1>4. ASSUME BodyDone PROVE FetchInv'
  <2>1. rd.at = "done" /\ rd' = [rd EXCEPT !.at = "send"]
    BY <1>4 DEF BodyDone
  <2>2. rd' = [rd EXCEPT !.at = "send", !.out = rd.out, !.buffered = rd.buffered]
    BY <1>1, <2>1, Zenon DEF ReaderType
  <2> QED BY <1>1, <1>2, <2>1, <2>2, PlaceKept, Zenon
<1> QED BY <1>3, <1>4, Zenon

(* finish: all items are read, so the UID is if there is one. *)
LEMMA FinishKept ==
    ASSUME FetchInv, Finish
    PROVE  FetchInv'
<1>1. /\ rd \in ReaderType /\ inUse \in 0 .. MaxBuffer /\ freed \in BOOLEAN /\ MaxBuffer \in Nat
      /\ rd.buffered \in Seq(Item) /\ rd.bytes \in 0 .. MaxBuffer /\ <<>> \in Seq(Item)
  <2>1. rd \in ReaderType /\ inUse \in 0 .. MaxBuffer /\ freed \in BOOLEAN
    BY Zenon DEF FetchInv, TypeOK
  <2>2. rd.bytes \in 0 .. MaxBuffer /\ MaxBuffer \in Nat
    BY Numbers, Zenon DEF FetchInv
  <2>3. rd.buffered \in Seq(Item) /\ <<>> \in Seq(Item)
    BY ONLY <2>1 DEF ReaderType
  <2> QED BY <2>1, <2>2, <2>3, Zenon
<1> DEFINE place == IF rd.handled THEN "send" ELSE "handle"
<1>2. /\ rd.at = "item" /\ Len(rd.todo) = 0
      /\ rd' = [rd EXCEPT !.buffered = <<>>, !.out = rd.buffered, !.at = place]
      /\ UNCHANGED <<sent, pending, recv, msgs, cons, data, last, inUse, freed, closed, broken>>
  BY DEF Finish
<1>3. place \in {"send", "handle"} /\ (place = "handle" => ~rd.handled)
  OBVIOUS
<1> HIDE DEF place
<1>4. /\ rd' \in ReaderType /\ rd'.at = place /\ rd'.m = rd.m /\ rd'.sel = rd.sel
      /\ rd'.needsUID = rd.needsUID /\ rd'.handled = rd.handled /\ rd'.bytes = rd.bytes
      /\ rd'.todo = rd.todo /\ rd'.uid = rd.uid /\ rd'.modseq = rd.modseq
  BY <1>1, <1>2, <1>3, Zenon DEF ReaderType
<1>5. ReaderPlace'
  BY <1>2, <1>3, <1>4 DEF FetchInv, ReaderPlace
<1>6. ASSUME ~rd.handled, data[last].answers # NoCmd PROVE Expected(data[last].answers)'
  <2>1. Expected(data[last].answers)
    BY <1>2, <1>6 DEF FetchInv, Addressed, Unhandled
  <2>2. \A y : ~Has(rd.todo, y)
    BY <1>2 DEF Has
  <2> QED BY <1>2, <1>4, <2>1, <2>2 DEF Expected
<1>7. inUse' \in 0 .. MaxBuffer /\ inUse' - rd'.bytes = inUse - rd.bytes
  BY <1>1, <1>2, <1>4
<1>8. rd.at \notin {"idle", "deliver", "gone"} /\ rd'.at \notin {"idle", "deliver", "gone"}
  BY <1>2, <1>3, <1>4, Zenon
<1> QED BY <1>1, <1>2, <1>4, <1>5, <1>6, <1>7, <1>8, ReaderMoves

(* Whose message it is: the oldest command's that the server answers, if the *)
(* answer is one.                                                            *)
LEMMA OwnerRight ==
    ASSUME FetchInv, rd.at = "handle", NEW C, C = {c \in Pending : Wants(c)}
    PROVE  /\ rd.sel /\ rd.uid /\ rd.modseq =>
                data[last].answers # NoCmd /\ Kind[data[last].answers] = "select"
           /\ ~(rd.sel /\ rd.uid /\ rd.modseq) /\ C # {} =>
                First(C) = data[last].answers /\ First(C) \in Cmd
           /\ ~(rd.sel /\ rd.uid /\ rd.modseq) /\ C = {} /\ ~broken => data[last].answers = NoCmd
<1> DEFINE a == data[last].answers
<1>1. /\ ~rd.handled /\ last \in Resp /\ Unhandled
  BY Zenon DEF FetchInv, ReaderPlace, Unhandled
<1>2. a \in Cmd \cup {NoCmd} /\ pending \in Seq(Cmd)
  BY <1>1, Numbers, Zenon DEF FetchInv, TypeOK, DataType
<1>3. CASE a = NoCmd
  <2>1. ~rd.sel /\ \A c \in Cmd : rd.m \in Asks[c] => (c \in Pending => rd.m \in recv[c])
    BY <1>1, <1>3, Zenon DEF FetchInv, Addressed
  <2>2. \A c \in Pending : c \in Cmd
    BY <1>2 DEF Pending
  <2>3. C = {}
    BY <2>1, <2>2, Zenon DEF Wants
  <2> QED BY <1>3, <2>1, <2>3
<1>4. CASE a # NoCmd
  <2>1. Expected(a)
    BY <1>1, <1>4 DEF FetchInv, Addressed
  <2>2. a \in Cmd /\ Kind[a] \in {"uid", "seq", "select"}
    BY <1>2, <1>4, FetchAssumption, Zenon
  <2>3. Kind[a] = "select" => rd.sel /\ rd.uid /\ rd.modseq
    BY <2>1, <2>2, Zenon DEF Expected
  <2>4. rd.sel => Kind[a] = "select"
    BY <2>1, Zenon DEF Expected
  <2>5. CASE pending = <<>>
    <3>1. Pending = {} /\ broken
      BY <2>1, <2>5 DEF Expected, Pending
    <3>2. C = {}
      BY <3>1
    <3> QED BY <1>4, <2>4, <3>1, <3>2
  <2>6. CASE pending # <<>> /\ Kind[a] # "select"
    <3>1. /\ Len(pending) \in Nat /\ 1 \in 1 .. Len(pending) /\ pending[1] = a
          /\ rd.m \in Asks[a] /\ rd.m \notin recv[a] /\ (Kind[a] = "uid" => rd.uid)
      BY <1>2, <2>1, <2>6 DEF Expected
    <3>2. a \in C
      BY <2>6, <3>1 DEF Wants, IsFetch, Pending
    <3>3. First(C) = a
      <4> DEFINE P(c) == \E i \in 1 .. Len(pending) :
                            pending[i] = c /\ \A j \in 1 .. (i - 1) : pending[j] \notin C
      <4>1. P(a)
        BY <3>1
      <4>2. ASSUME NEW c \in C, P(c) PROVE c = a
        <5>1. PICK i \in 1 .. Len(pending) :
                pending[i] = c /\ \A j \in 1 .. (i - 1) : pending[j] \notin C
          BY <4>2
        <5>2. ~(1 \in 1 .. (i - 1))
          BY <3>1, <3>2, <5>1, Zenon
        <5>3. i = 1
          BY <3>1, <5>2
        <5> QED BY <3>1, <5>1, <5>3
      <4> HIDE DEF P
      <4>3. (CHOOSE c \in C : P(c)) = a
        BY <3>2, <4>1, <4>2
      <4> QED BY <4>3 DEF First, P
    <3> QED BY <1>4, <2>2, <2>4, <2>6, <3>2, <3>3, Zenon
  <2>7. CASE Kind[a] = "select"
    BY <1>4, <2>3, <2>7, Zenon
  <2> QED BY <2>5, <2>6, <2>7, Zenon
<1> QED BY <1>2, <1>3, <1>4, Zenon

(* The message is given to an owner, who owes the budget for it from now on. *)
LEMMA GiveKept ==
    ASSUME FetchInv, rd.at = "handle",
           NEW o \in Cmd \cup {"select", "discard", "handler"}, NEW at \in {"send", "deliver"},
           data' = [data EXCEPT ![last].owner = o, ![last].release = rd.bytes],
           rd' = [rd EXCEPT !.at = at, !.bytes = 0, !.handled = at = "send"],
           recv' \in [Cmd -> SUBSET Msg],
           UNCHANGED <<sent, pending, msgs, cons, last, inUse, freed, closed, broken>>,
           o \in Cmd => o = data[last].answers,
           o = "select" => data[last].answers # NoCmd /\ Kind[data[last].answers] = "select",
           o \in {"discard", "handler"} /\ ~broken => data[last].answers = NoCmd
    PROVE  FetchInv'
<1> DEFINE h == at = "send"
           n == rd.bytes
           x == [data[last] EXCEPT !.owner = o, !.release = n]
<1>1. /\ last \in Resp /\ ~rd.handled /\ Unhandled
  BY DEF FetchInv, ReaderPlace, Unhandled
<1>2. /\ data \in [Resp -> DataType] /\ rd \in ReaderType /\ n \in 0 .. MaxBuffer
      /\ MaxBuffer \in Nat /\ inUse \in 0 .. MaxBuffer /\ 0 \in 0 .. MaxBuffer
      /\ data[last] \in DataType /\ Len(data[last].items) <= ItemsCap
      /\ h \in BOOLEAN
  BY <1>1, Numbers DEF FetchInv, TypeOK
<1>3. data' = [data EXCEPT ![last] = x]
  BY <1>1, <1>2, Zenon
<1>4. rd' = [rd EXCEPT !.at = at, !.bytes = 0, !.handled = h]
  OBVIOUS
<1>5. data[last].release = 0
  BY <1>1 DEF FetchInv, Addressed
<1> HIDE DEF h, n
<1>6. /\ x \in DataType /\ x.owner = o /\ x.release = n /\ x.answers = data[last].answers
      /\ x.items = data[last].items
  BY <1>2, Zenon DEF DataType
<1> HIDE DEF x
<1>7. /\ rd' \in ReaderType /\ rd'.at = at /\ rd'.bytes = 0 /\ rd'.handled = h
  BY <1>2, <1>4, Zenon DEF ReaderType
<1>8. /\ data' \in [Resp -> DataType] /\ data'[last] = x
      /\ \A r \in Resp : r # last => data'[r] = data[r]
  BY <1>1, <1>2, <1>3, <1>6, ZenonT(30)
<1>9. TypeOK'
  <2>1. \A r \in Resp : Len(data'[r].items) <= ItemsCap
    BY <1>2, <1>6, <1>8 DEF FetchInv, TypeOK
  <2> QED BY <1>7, <1>8, <2>1 DEF FetchInv, TypeOK
<1>10. Ordered' /\ ReaderPlace'
  BY <1>1, <1>7 DEF FetchInv, Ordered, ReaderPlace
<1>11. Fresh'
  <2>1. \A r \in Resp : r > last => r # last
    BY Numbers DEF FetchInv
  <2> QED BY <1>8, <2>1 DEF FetchInv, Fresh
<1>12. Addressed'
  BY <1>7, Zenon DEF Addressed, Unhandled, h
<1>13. AnswersGoHome'
  <2>1. "select" \notin Cmd /\ "discard" \notin Cmd /\ "handler" \notin Cmd /\ "released" \notin Cmd
    BY FetchAssumption, Zenon
  <2> QED BY <1>6, <1>8, <2>1 DEF FetchInv, AnswersGoHome
<1>14. BudgetExact'
  <2>1. Replaced(data, data', last, x)
    BY <1>3, Zenon DEF Replaced
  <2>2. Owed(data') = Owed(data) - data[last].release + x.release /\ Owed(data) \in Nat
    BY ONLY <1>1, <1>2, <1>6, <1>8, <2>1, DataChange
  <2>3. Owed(data') = Owed(data) + n
    BY ONLY <1>2, <1>5, <1>6, <2>2
  <2>4. n + Owed(data) = rd'.bytes + Owed(data')
    BY ONLY <1>2, <1>7, <2>2, <2>3
  <2> QED BY <2>4, Zenon DEF FetchInv, BudgetExact, n
<1> QED BY <1>9, <1>10, <1>11, <1>12, <1>13, <1>14 DEF FetchInv

(* handleMsg *)
LEMMA HandleMsgKept ==
    ASSUME FetchInv, HandleMsg
    PROVE  FetchInv'
<1> DEFINE C == {c \in Pending : Wants(c)}
           all == rd.sel /\ rd.uid /\ rd.modseq
           o == IF HasHandler THEN "handler" ELSE "discard"
<1>1. /\ rd.at = "handle"
      /\ UNCHANGED <<sent, pending, msgs, cons, last, inUse, freed, closed, broken>>
      /\ recv \in [Cmd -> SUBSET Msg] /\ rd.m \in Msg \cup {0}
  BY Numbers, Zenon DEF HandleMsg, FetchInv, TypeOK, ReaderType
<1>2. /\ all => data[last].answers # NoCmd /\ Kind[data[last].answers] = "select"
      /\ ~all /\ C # {} => First(C) = data[last].answers /\ First(C) \in Cmd
      /\ ~all /\ C = {} /\ ~broken => data[last].answers = NoCmd
  BY <1>1, OwnerRight, Zenon
<1>3. "select" \notin Cmd /\ "discard" \notin Cmd /\ "handler" \notin Cmd
  BY FetchAssumption
<1>4. CASE all
  <2>1. /\ data' = [data EXCEPT ![last].owner = "select", ![last].release = rd.bytes]
        /\ rd' = [rd EXCEPT !.at = "send", !.bytes = 0, !.handled = "send" = "send"]
        /\ recv' = recv
    BY <1>4, Zenon DEF HandleMsg
  <2> QED BY <1>1, <1>2, <1>3, <1>4, <2>1, GiveKept, Zenon
<1>5. CASE ~all /\ C # {}
  <2>1. /\ data' = [data EXCEPT ![last].owner = First(C), ![last].release = rd.bytes]
        /\ rd' = [rd EXCEPT !.at = "deliver", !.bytes = 0, !.handled = "deliver" = "send"]
        /\ recv' = [recv EXCEPT ![First(C)] = @ \cup {rd.m}]
    BY <1>5 DEF HandleMsg
  <2>2. First(C) = data[last].answers /\ First(C) \in Cmd
    BY <1>2, <1>5, Zenon
  <2> DEFINE f == First(C)
  <2> HIDE DEF C, all, f
  <2>3. f = data[last].answers /\ f \in Cmd /\ f # "select" /\ f \notin {"discard", "handler"}
    BY <1>3, <2>2 DEF f
  <2>4. recv' \in [Cmd -> SUBSET Msg]
    <3>1. rd.m \in Msg
      <4>1. Unhandled /\ data[last].answers # NoCmd
        BY <1>1, <2>3, FetchAssumption, Zenon DEF FetchInv, ReaderPlace, Unhandled
      <4>2. rd.m \in Asks[f]
        BY <2>3, <4>1, Zenon DEF FetchInv, Addressed, Expected
      <4> QED BY <2>3, <4>2, FetchAssumption, Zenon
    <3> QED BY <1>1, <2>1, <2>3, <3>1 DEF f
  <2>5. data' = [data EXCEPT ![last].owner = f, ![last].release = rd.bytes]
    BY <2>1 DEF f
  <2> QED BY <1>1, <2>1, <2>3, <2>4, <2>5, GiveKept, Zenon
<1>6. CASE ~all /\ C = {}
  <2>1. /\ data' = [data EXCEPT ![last].owner = o, ![last].release = rd.bytes]
        /\ rd' = [rd EXCEPT !.at = "send", !.bytes = 0, !.handled = "send" = "send"]
        /\ recv' = recv
    BY <1>6, Zenon DEF HandleMsg
  <2>2. o \in {"discard", "handler"}
    BY Zenon
  <2>3. ~broken => data[last].answers = NoCmd
    BY <1>2, <1>6, Zenon
  <2> HIDE DEF o
  <2> QED BY <1>1, <1>3, <2>1, <2>2, <2>3, GiveKept, Zenon
<1> QED BY <1>4, <1>5, <1>6, Zenon

(* The reader changes the data of the response it reads, not whose it is. *)
LEMMA ItemsMove ==
    ASSUME FetchInv, last \in Resp, NEW x \in DataType, Len(x.items) <= ItemsCap,
           data' = [data EXCEPT ![last] = x],
           x.owner = data[last].owner, x.answers = data[last].answers,
           x.release = data[last].release,
           UNCHANGED <<recv, msgs, cons, last, closed>>,
           sent' = sent, broken => broken', broken' \in BOOLEAN
    PROVE  /\ data' \in [Resp -> DataType] /\ \A r \in Resp : Len(data'[r].items) <= ItemsCap
           /\ data'[last] = x /\ \A r \in Resp : r # last => data'[r] = data[r]
           /\ Fresh' /\ AnswersGoHome' /\ Owed(data') = Owed(data) /\ Owed(data) \in Nat
<1>1. data \in [Resp -> DataType]
  BY Zenon DEF FetchInv, TypeOK
<1>2. /\ data' \in [Resp -> DataType] /\ data'[last] = x
      /\ \A r \in Resp : r # last => data'[r] = data[r]
  BY <1>1, Zenon
<1>3. \A r \in Resp : Len(data'[r].items) <= ItemsCap
  BY <1>2 DEF FetchInv, TypeOK
<1>4. \A r \in Resp : /\ data'[r].release = data[r].release
                      /\ data'[r].owner = data[r].owner /\ data'[r].answers = data[r].answers
  BY <1>2, Zenon
<1>5. Fresh' /\ AnswersGoHome'
  BY <1>4 DEF FetchInv, Fresh, AnswersGoHome
<1>6. Owed(data') = Owed(data)
  BY ONLY <1>1, <1>2, <1>4, OwedSame
<1> QED BY <1>1, <1>2, <1>3, <1>5, <1>6, OwedBounds

(* sendItem *)
LEMMA SendItemKept ==
    ASSUME FetchInv, SendItem
    PROVE  FetchInv'
<1>1. /\ rd.at = "send" /\ last \in Resp
      /\ UNCHANGED <<sent, pending, recv, msgs, cons, last, inUse, freed, closed, broken>>
  BY DEF SendItem, FetchInv, ReaderPlace
<1>2. /\ rd \in ReaderType /\ data[last] \in DataType /\ data \in [Resp -> DataType]
      /\ rd.out \in Seq(Item) /\ rd.buffered \in Seq(Item) /\ freed \in BOOLEAN
      /\ data[last].items \in Seq(Item) /\ ItemsCap \in Nat
  BY <1>1, Numbers, FetchAssumption, Zenon DEF FetchInv, TypeOK, ReaderType, DataType
<1>3. CASE Len(rd.out) = 0
  <2>1. rd' = [rd EXCEPT !.at = "item"] /\ data' = data
    BY <1>3, Zenon DEF SendItem
  <2>2. rd' = [rd EXCEPT !.at = "item", !.out = rd.out, !.buffered = rd.buffered]
    BY <1>2, <2>1, Zenon DEF ReaderType
  <2> QED BY <1>1, <1>2, <2>1, <2>2, PlaceKept, Zenon
<1>4. CASE Len(rd.out) # 0
  <2> DEFINE q == Append(data[last].items, Head(rd.out))
             t == Tail(rd.out)
             at == IF Head(rd.out) = "body" THEN "done" ELSE "send"
             x == [data[last] EXCEPT !.items = q]
  <2>1. /\ data' = [data EXCEPT ![last] = x] /\ rd' = [rd EXCEPT !.out = t, !.at = at]
        /\ Len(data[last].items) < ItemsCap
    BY <1>1, <1>2, <1>4 DEF SendItem
  <2>2. q \in Seq(Item) /\ t \in Seq(Item) /\ at \in {"done", "send"} /\ Len(q) <= ItemsCap
    BY <1>2, <1>4, <2>1
  <2> HIDE DEF q, t, at
  <2>3. /\ x \in DataType /\ x.items = q /\ x.owner = data[last].owner
        /\ x.answers = data[last].answers /\ x.release = data[last].release
    BY <1>2, <2>2, Zenon DEF DataType
  <2> HIDE DEF x
  <2>4. /\ rd' \in ReaderType /\ rd'.at = at /\ rd'.m = rd.m /\ rd'.sel = rd.sel
        /\ rd'.needsUID = rd.needsUID /\ rd'.handled = rd.handled /\ rd'.bytes = rd.bytes
        /\ rd'.todo = rd.todo /\ rd'.uid = rd.uid /\ rd'.modseq = rd.modseq
    BY <1>2, <2>1, <2>2, Zenon DEF ReaderType
  <2>5. broken' \in BOOLEAN /\ Len(x.items) <= ItemsCap
    BY <1>1, <2>2, <2>3 DEF FetchInv, TypeOK
  <2>6. /\ data' \in [Resp -> DataType] /\ \A r \in Resp : Len(data'[r].items) <= ItemsCap
        /\ data'[last] = x /\ \A r \in Resp : r # last => data'[r] = data[r]
        /\ Fresh' /\ AnswersGoHome' /\ Owed(data') = Owed(data) /\ Owed(data) \in Nat
    BY <1>1, <2>1, <2>3, <2>5, ItemsMove, Zenon
  <2>7. TypeOK' /\ Ordered'
    BY <1>1, <2>4, <2>6, Zenon DEF FetchInv, TypeOK, Ordered
  <2>8. ReaderPlace'
    BY <1>1, <2>2, <2>4, Zenon DEF FetchInv, ReaderPlace
  <2>9. BudgetExact'
    BY <1>1, <2>4, <2>6, Zenon DEF FetchInv, BudgetExact
  <2>10. Addressed'
    <3>1. Unhandled' => Unhandled
      BY <1>1, <2>4 DEF Unhandled
    <3>2. Pending' = Pending
      BY <1>1, Zenon DEF Pending
    <3>3. ASSUME Unhandled, data[last].answers # NoCmd PROVE Expected(data[last].answers)'
      <4>1. Expected(data[last].answers)
        BY <3>3 DEF FetchInv, Addressed
      <4> QED BY <1>1, <2>2, <2>3, <2>4, <2>6, <4>1, Zenon DEF Expected
    <3> QED BY <1>1, <2>3, <2>4, <2>6, <3>1, <3>2, <3>3, Zenon DEF FetchInv, Addressed
  <2> QED BY <2>6, <2>7, <2>8, <2>9, <2>10 DEF FetchInv
<1> QED BY <1>3, <1>4

(* cmd.msgs <- msg *)
LEMMA DeliverKept ==
    ASSUME FetchInv, Deliver
    PROVE  FetchInv'
<1>1. /\ rd.at = "deliver" /\ last \in Resp /\ rd.bytes = 0
      /\ rd' = [rd EXCEPT !.at = "send", !.handled = TRUE]
      /\ UNCHANGED <<sent, pending, recv, cons, data, last, inUse, freed, closed, broken>>
  BY DEF Deliver, FetchInv, ReaderPlace
<1>2. rd \in ReaderType
  BY Numbers DEF FetchInv
<1>3. rd' \in ReaderType /\ rd'.at = "send" /\ rd'.handled = TRUE /\ rd'.bytes = rd.bytes
  BY <1>1, <1>2, Zenon DEF ReaderType
<1>4. msgs' \in [Cmd -> Seq(Resp)] /\ \A c \in Cmd : Len(msgs'[c]) <= MsgsCap
  <2> DEFINE c == data[last].owner
             q == Append(msgs[c], last)
  <2>1. /\ c \in Pending /\ Len(msgs[c]) < MsgsCap /\ msgs' = [msgs EXCEPT ![c] = q]
        /\ pending \in Seq(Cmd) /\ msgs \in [Cmd -> Seq(Resp)] /\ MsgsCap \in Nat
        /\ \A d \in Cmd : Len(msgs[d]) <= MsgsCap
    BY FetchAssumption DEF Deliver, FetchInv, TypeOK
  <2> HIDE DEF c
  <2>2. c \in Cmd
    BY <2>1 DEF Pending
  <2>3. q \in Seq(Resp) /\ Len(q) <= MsgsCap
    BY <1>1, <2>1, <2>2
  <2> HIDE DEF q
  <2> QED BY <2>1, <2>2, <2>3
<1>5. TypeOK' /\ Ordered' /\ Fresh' /\ AnswersGoHome'
  BY <1>1, <1>3, <1>4 DEF FetchInv, TypeOK, Ordered, Fresh, AnswersGoHome
<1>6. ReaderPlace'
  BY <1>1, <1>3, Zenon DEF FetchInv, ReaderPlace
<1>7. Addressed'
  BY <1>3 DEF Addressed, Unhandled
<1>8. BudgetExact'
  BY <1>1, <1>3 DEF FetchInv, BudgetExact
<1> QED BY <1>5, <1>6, <1>7, <1>8 DEF FetchInv

(* handleFetch returns. *)
LEMMA EndsKept ==
    ASSUME FetchInv, Ends
    PROVE  FetchInv'
<1> DEFINE x == ItemsClosed(data[last])
<1>1. /\ rd.at = "item" /\ rd.handled /\ last \in Resp /\ rd.bytes = 0 /\ rd' = Idle
      /\ UNCHANGED <<sent, pending, recv, msgs, cons, last, inUse, freed, closed, broken>>
  BY DEF Ends, FetchInv, ReaderPlace
<1>2. data \in [Resp -> DataType] /\ data[last] \in DataType /\ Len(data[last].items) <= ItemsCap
      /\ 0 \in 0 .. MaxBuffer /\ <<>> \in Seq(Item)
  BY <1>1, FetchAssumption DEF FetchInv, TypeOK
<1>3. data' = [data EXCEPT ![last] = x]
  BY <1>1, <1>2, Zenon DEF Ends
<1>4. /\ x \in DataType /\ x.items = data[last].items /\ x.owner = data[last].owner
      /\ x.answers = data[last].answers /\ x.release = data[last].release
  BY <1>2, Zenon DEF ItemsClosed, DataType
<1> HIDE DEF x
<1>5. rd' \in ReaderType /\ rd'.at = "idle" /\ rd'.bytes = 0 /\ rd'.handled = FALSE
  BY <1>1, <1>2, Zenon DEF Idle, ReaderType
<1>6. broken' \in BOOLEAN
  BY <1>1, Zenon DEF FetchInv, TypeOK
<1>7. /\ data' \in [Resp -> DataType] /\ \A r \in Resp : Len(data'[r].items) <= ItemsCap
      /\ Fresh' /\ AnswersGoHome' /\ Owed(data') = Owed(data) /\ Owed(data) \in Nat
  BY <1>1, <1>2, <1>3, <1>4, <1>6, ItemsMove, Zenon
<1>8. TypeOK' /\ Ordered'
  BY <1>1, <1>5, <1>7, Zenon DEF FetchInv, TypeOK, Ordered
<1>9. ReaderPlace' /\ Addressed'
  BY <1>1, <1>5, Zenon DEF FetchInv, ReaderPlace, Addressed, Unhandled
<1>10. BudgetExact'
  BY <1>1, <1>5, <1>7 DEF FetchInv, BudgetExact
<1> QED BY <1>7, <1>8, <1>9, <1>10, Zenon DEF FetchInv

(* The reader fails: what it holds is returned, and nothing is pending. *)
LEMMA AbortKept ==
    ASSUME FetchInv, Abort
    PROVE  FetchInv'
<1>1. /\ pending' = <<>> /\ broken' = TRUE /\ rd' = [Idle EXCEPT !.at = "gone"]
      /\ inUse' = inUse - rd.bytes
      /\ UNCHANGED <<sent, msgs, cons, last, closed>>
  BY Zenon DEF Abort, ReleaseFetchBuffer
<1>2. /\ data \in [Resp -> DataType] /\ \A r \in Resp : Len(data[r].items) <= ItemsCap
      /\ recv \in [Cmd -> SUBSET Msg] /\ freed \in BOOLEAN
      /\ rd.bytes \in 0 .. MaxBuffer /\ inUse \in 0 .. MaxBuffer /\ MaxBuffer \in Nat
      /\ Owed(data) \in Nat /\ <<>> \in Seq(Item) /\ 0 \in 0 .. MaxBuffer
      /\ ItemsCap \in Nat /\ <<>> \in Seq(Cmd)
  BY Numbers, FetchAssumption DEF FetchInv, TypeOK
<1>3. recv' \in [Cmd -> SUBSET Msg] /\ freed' \in BOOLEAN
  BY <1>2, Zenon DEF Abort, Completes, ReleaseFetchBuffer
<1>4. rd' \in ReaderType /\ rd'.at = "gone" /\ rd'.bytes = 0 /\ rd'.handled = FALSE
  BY <1>1, <1>2, Zenon DEF Idle, ReaderType
<1>5. /\ data' \in [Resp -> DataType] /\ \A r \in Resp : Len(data'[r].items) <= ItemsCap
      /\ Fresh' /\ AnswersGoHome' /\ Owed(data') <= Owed(data) /\ Owed(data') \in Nat
  <2>1. rd.at # "gone"
    BY DEF Abort, Fails
  <2>2. CASE rd.at = "idle"
    <3>1. data' = data
      BY <2>2 DEF Abort
    <3>2. Fresh' /\ AnswersGoHome'
      BY <1>1, <3>1 DEF FetchInv, Fresh, AnswersGoHome
    <3> QED BY <1>2, <3>1, <3>2
  <2>3. CASE rd.at = "deliver"
    <3>1. data' = [data EXCEPT ![last] = NoData] /\ last \in Resp
      BY <2>1, <2>3, Zenon DEF Abort, FetchInv, ReaderPlace
    <3>2. /\ NoData \in DataType /\ NoData.items = <<>> /\ NoData.owner = "none"
          /\ NoData.release = 0
      BY <1>2, Zenon DEF NoData, DataType
    <3>3. /\ data' \in [Resp -> DataType] /\ data'[last] = NoData
          /\ \A r \in Resp : r # last => data'[r] = data[r]
      BY <1>2, <3>1, <3>2
    <3>4. \A r \in Resp : Len(data'[r].items) <= ItemsCap
      BY <1>2, <3>2, <3>3
    <3>5. Fresh'
      BY <1>1, <3>2, <3>3 DEF FetchInv, Fresh
    <3>6. AnswersGoHome'
      <4>1. "none" \notin Cmd
        BY FetchAssumption, Zenon
      <4> QED BY <1>1, <3>2, <3>3, <4>1 DEF FetchInv, AnswersGoHome
    <3>7. Replaced(data, data', last, NoData)
      BY <3>1, Zenon DEF Replaced
    <3>8. /\ Owed(data') = Owed(data) - data[last].release + NoData.release
          /\ data[last].release \in 0 .. MaxBuffer /\ data[last].release <= Owed(data)
      BY ONLY <1>2, <3>1, <3>2, <3>3, <3>7, DataChange, ZenonT(30)
    <3>9. Owed(data') <= Owed(data) /\ Owed(data') \in Nat
      BY ONLY <1>2, <3>2, <3>8
    <3> QED BY <3>3, <3>4, <3>5, <3>6, <3>9, Zenon
  <2>4. CASE rd.at \notin {"idle", "deliver"}
    <3> DEFINE x == ItemsClosed(data[last])
    <3>1. last \in Resp /\ data[last] \in DataType
      BY <1>2, <2>1, <2>4 DEF FetchInv, ReaderPlace
    <3>2. data' = [data EXCEPT ![last] = x]
      BY <1>2, <2>4, <3>1 DEF Abort
    <3>3. /\ x \in DataType /\ x.items = data[last].items /\ x.owner = data[last].owner
          /\ x.answers = data[last].answers /\ x.release = data[last].release
      BY <3>1, Zenon DEF ItemsClosed, DataType
    <3> HIDE DEF x
    <3>4. /\ data' \in [Resp -> DataType] /\ data'[last] = x
          /\ \A r \in Resp : r # last => data'[r] = data[r]
      BY <1>2, <3>1, <3>2, <3>3
    <3>5. \A r \in Resp : /\ data'[r].release = data[r].release
                          /\ data'[r].items = data[r].items
                          /\ data'[r].owner = data[r].owner
                          /\ data'[r].answers = data[r].answers
      BY <3>3, <3>4, Zenon
    <3>6. \A r \in Resp : Len(data'[r].items) <= ItemsCap
      BY <1>2, <3>5
    <3>7. Fresh' /\ AnswersGoHome'
      BY <1>1, <3>5 DEF FetchInv, Fresh, AnswersGoHome
    <3>8. Owed(data') = Owed(data)
      BY ONLY <1>2, <3>4, <3>5, OwedSame, Zenon
    <3> QED BY <1>2, <3>4, <3>6, <3>7, <3>8
  <2> QED BY <2>2, <2>3, <2>4
<1>6. inUse >= rd.bytes + Owed(data)
  BY <1>2 DEF FetchInv, BudgetExact
<1>7. inUse' \in 0 .. MaxBuffer /\ inUse' >= 0 + Owed(data')
  BY ONLY <1>1, <1>2, <1>5, <1>6
<1>8. TypeOK'
  BY <1>1, <1>2, <1>3, <1>4, <1>5, <1>7, Zenon DEF FetchInv, TypeOK
<1>9. Ordered'
  BY <1>1 DEF Ordered
<1>10. ReaderPlace' /\ Addressed'
  BY <1>4, Zenon DEF ReaderPlace, Addressed, Unhandled
<1>11. BudgetExact'
  BY <1>1, <1>4, <1>7, Zenon DEF BudgetExact
<1> QED BY <1>5, <1>8, <1>9, <1>10, <1>11 DEF FetchInv

(* The oldest command is completed, between two responses. *)
LEMMA TaggedKept ==
    ASSUME FetchInv, Tagged
    PROVE  FetchInv'
<1>1. /\ rd.at = "idle" /\ Len(pending) > 0 /\ pending' = Tail(pending) /\ pending \in Seq(Cmd)
      /\ recv \in [Cmd -> SUBSET Msg]
      /\ UNCHANGED <<sent, msgs, cons, data, rd, last, inUse, freed, closed, broken>>
  BY Zenon DEF Tagged, FetchInv, TypeOK
<1>2. /\ Len(pending') = Len(pending) - 1 /\ pending' \in Seq(Cmd) /\ Len(pending) \in Nat
      /\ \A i \in 1 .. Len(pending') : i + 1 \in 1 .. Len(pending) /\ pending'[i] = pending[i + 1]
  <2>1. pending \in Seq(Cmd) /\ Len(pending) > 0 /\ pending' = Tail(pending)
    BY <1>1, Zenon
  <2> QED BY ONLY <2>1
<1>3. recv' \in [Cmd -> SUBSET Msg]
  BY <1>1 DEF Tagged, Completes
<1>4. TypeOK' /\ ReaderPlace' /\ Fresh' /\ AnswersGoHome'
  BY <1>1, <1>2, <1>3, Zenon DEF FetchInv, TypeOK, ReaderPlace, Fresh, AnswersGoHome
<1>5. Ordered'
  <2>1. \A i \in 1 .. Len(pending') : pending'[i] \in sent'
    BY <1>1, <1>2, Zenon DEF FetchInv, Ordered
  <2>2. ASSUME NEW i \in 1 .. Len(pending'), NEW j \in 1 .. Len(pending'), i < j,
               Kind[pending'[j]] = "select"
        PROVE  Kind[pending'[i]] = "select"
    <3>1. i + 1 < j + 1 /\ i + 1 \in 1 .. Len(pending) /\ j + 1 \in 1 .. Len(pending)
      BY <1>2, <2>2
    <3> QED BY <1>2, <2>2, <3>1, Zenon DEF FetchInv, Ordered
  <2> QED BY <2>1, <2>2, Zenon DEF Ordered
<1>6. Addressed' /\ BudgetExact'
  BY <1>1, Zenon DEF FetchInv, Addressed, Unhandled, BudgetExact
<1> QED BY <1>4, <1>5, <1>6 DEF FetchInv

(* A failed write, Close and a consumer's next message, at any point. *)
LEMMA OthersKept ==
    ASSUME FetchInv
    PROVE  WriteFails \/ Close \/ (\E c \in Cmd : NextMsg(c)) \/ UNCHANGED vars => FetchInv'
<1>1. /\ rd.bytes \in 0 .. MaxBuffer /\ inUse \in 0 .. MaxBuffer /\ MaxBuffer \in Nat
      /\ Owed(data) \in Nat /\ recv \in [Cmd -> SUBSET Msg]
  BY Numbers, Zenon DEF FetchInv, TypeOK
<1>2. ASSUME WriteFails PROVE FetchInv'
  <2>1. /\ pending' = <<>> /\ broken' = TRUE
        /\ UNCHANGED <<sent, msgs, cons, data, rd, last, inUse, freed, closed>>
    BY <1>2, Zenon DEF WriteFails
  <2>2. recv' \in [Cmd -> SUBSET Msg]
    BY <1>1, <1>2, Zenon DEF WriteFails, Completes
  <2>3. TypeOK' /\ Ordered' /\ ReaderPlace' /\ Fresh' /\ AnswersGoHome'
    BY <2>1, <2>2 DEF FetchInv, TypeOK, Ordered, ReaderPlace, Fresh, AnswersGoHome
  <2>4. BudgetExact'
    BY <1>1, <2>1 DEF FetchInv, BudgetExact
  <2>5. Addressed'
    <3>1. SUFFICES ASSUME Unhandled PROVE Addressed'
      BY <2>1, Zenon DEF Addressed, Unhandled
    <3>2. Pending' = {}
      BY <2>1 DEF Pending
    <3>3. ASSUME data[last].answers # NoCmd PROVE Expected(data[last].answers)'
      <4>1. Expected(data[last].answers)
        BY <3>1, <3>3, Zenon DEF FetchInv, Addressed
      <4> QED BY <2>1, <4>1, Zenon DEF Expected
    <3> QED BY <2>1, <3>1, <3>2, <3>3, Zenon DEF FetchInv, Addressed
  <2> QED BY <2>3, <2>4, <2>5 DEF FetchInv
<1>3. ASSUME UNCHANGED <<sent, pending, recv, data, rd, last, inUse, freed>>,
             broken' \in BOOLEAN, broken => broken', closed' \in BOOLEAN,
             msgs' \in [Cmd -> Seq(Resp)], \A c \in Cmd : Len(msgs'[c]) <= MsgsCap,
             cons' \in [Cmd -> Resp \cup {0, Ended}]
      PROVE  FetchInv'
  <2>1. TypeOK' /\ Ordered' /\ ReaderPlace' /\ Fresh' /\ AnswersGoHome'
    BY <1>3, Zenon DEF FetchInv, TypeOK, Ordered, ReaderPlace, Fresh, AnswersGoHome
  <2>2. BudgetExact'
    BY <1>1, <1>3 DEF FetchInv, BudgetExact
  <2>3. Addressed'
    <3>1. Pending' = Pending
      BY <1>3, Zenon DEF Pending
    <3> QED BY <1>3, <3>1, Zenon DEF FetchInv, Addressed, Unhandled, Expected
  <2> QED BY <2>1, <2>2, <2>3 DEF FetchInv
<1>4. ASSUME Close PROVE FetchInv'
  BY <1>3, <1>4, Zenon DEF Close, FetchInv, TypeOK
<1>5. ASSUME NEW c \in Cmd, NextMsg(c) PROVE FetchInv'
  <2>1. /\ msgs \in [Cmd -> Seq(Resp)] /\ \A d \in Cmd : Len(msgs[d]) <= MsgsCap
        /\ cons \in [Cmd -> Resp \cup {0, Ended}] /\ broken \in BOOLEAN /\ closed \in BOOLEAN
        /\ MsgsCap \in Nat
        /\ UNCHANGED <<sent, pending, recv, data, rd, last, inUse, freed, closed, broken>>
    BY <1>5, FetchAssumption, Zenon DEF NextMsg, FetchInv, TypeOK
  <2>2. CASE Len(msgs[c]) > 0
    <3> DEFINE h == Head(msgs[c])
               t == Tail(msgs[c])
    <3>1. cons' = [cons EXCEPT ![c] = h] /\ msgs' = [msgs EXCEPT ![c] = t]
      BY <1>5, <2>2, Zenon DEF NextMsg
    <3>2. h \in Resp /\ t \in Seq(Resp) /\ Len(t) <= MsgsCap
      BY <1>5, <2>1, <2>2
    <3> HIDE DEF h, t
    <3>3. cons' \in [Cmd -> Resp \cup {0, Ended}]
      BY <2>1, <3>1, <3>2
    <3>4. msgs' \in [Cmd -> Seq(Resp)] /\ \A d \in Cmd : Len(msgs'[d]) <= MsgsCap
      BY <2>1, <3>1, <3>2, Zenon
    <3> QED BY <1>3, <2>1, <3>3, <3>4
  <2>3. CASE ~(Len(msgs[c]) > 0)
    <3>1. cons' = [cons EXCEPT ![c] = Ended] /\ msgs' = msgs
      BY <1>5, <2>3, Zenon DEF NextMsg
    <3>2. cons' \in [Cmd -> Resp \cup {0, Ended}]
      BY <2>1, <3>1, Zenon
    <3> QED BY <1>3, <2>1, <3>1, <3>2
  <2> QED BY <2>2, <2>3, Zenon
<1>6. ASSUME UNCHANGED vars PROVE FetchInv'
  BY <1>3, <1>6 DEF vars, FetchInv, TypeOK
<1> QED BY <1>2, <1>4, <1>5, <1>6, Zenon

(* The invariant of the streaming, for any commands, messages and shapes of   *)
(* responses, and any capacity of the channels and the budget.                *)
THEOREM StreamInvariant == Spec => []FetchInv
<1>1. Init => FetchInv
  <2> SUFFICES ASSUME Init PROVE FetchInv
    BY Zenon
  <2>1. NoData \in DataType /\ NoData.items = <<>> /\ NoData.owner = "none" /\ NoData.release = 0
    BY FetchAssumption DEF NoData, DataType
  <2>2. Idle \in ReaderType /\ Idle.at = "idle" /\ Idle.bytes = 0 /\ Idle.handled = FALSE
    <3>1. /\ <<>> \in Seq(Item) /\ 0 \in 0 .. MaxBuffer /\ FALSE \in BOOLEAN /\ 0 \in Nat
          /\ 0 \in Msg \cup {0}
      BY FetchAssumption
    <3> QED BY ONLY <3>1, Zenon DEF Idle, ReaderType
  <2>3. data \in [Resp -> DataType] /\ \A r \in Resp : data[r] = NoData
    BY <2>1, Zenon DEF Init
  <2>4. TypeOK
    <3>1. /\ sent \subseteq Cmd /\ pending \in Seq(Cmd) /\ recv \in [Cmd -> SUBSET Msg]
          /\ cons \in [Cmd -> Resp \cup {0, Ended}]
      BY DEF Init
    <3>2. msgs \in [Cmd -> Seq(Resp)] /\ \A c \in Cmd : Len(msgs[c]) <= MsgsCap
      <4>1. /\ msgs = [c \in Cmd |-> <<>>] /\ <<>> \in Seq(Resp) /\ Len(<<>>) = 0
            /\ MsgsCap \in Nat
        BY FetchAssumption DEF Init
      <4> QED BY ONLY <4>1
    <3>3. \A r \in Resp : Len(data[r].items) <= ItemsCap
      <4>1. NoData.items = <<>> /\ Len(<<>>) = 0 /\ ItemsCap \in Nat
        BY <2>1, FetchAssumption
      <4>2. \A r \in Resp : data[r] = NoData
        BY <2>3
      <4> QED BY ONLY <4>1, <4>2
    <3>4. rd \in ReaderType
      BY <2>2 DEF Init
    <3>5. last \in 0 .. MaxResp /\ inUse \in 0 .. MaxBuffer
      <4>1. last = 0 /\ inUse = 0 /\ MaxResp \in Nat /\ MaxBuffer \in Nat
        BY FetchAssumption DEF Init
      <4> QED BY ONLY <4>1
    <3>6. freed \in BOOLEAN /\ closed \in BOOLEAN /\ broken \in BOOLEAN
      BY Zenon DEF Init
    <3> QED BY <2>3, <3>1, <3>2, <3>3, <3>4, <3>5, <3>6 DEF TypeOK
  <2>5. Ordered /\ ReaderPlace /\ Fresh /\ Addressed
    BY <2>1, <2>2, <2>3 DEF Init, Ordered, ReaderPlace, Fresh, Addressed, Unhandled
  <2>6. AnswersGoHome
    BY <2>1, <2>3, FetchAssumption, Zenon DEF AnswersGoHome
  <2>7. BudgetExact
    <3>1. Owed(data) = 0
      <4>1. PICK f : /\ f \in [0 .. MaxResp -> Nat] /\ f[0] = 0 /\ Owed(data) = f[MaxResp]
                     /\ \A r \in Resp : f[r] = f[r - 1] + data[r].release
        BY <2>3, OwedWalk
      <4>2. MaxResp \in Nat /\ Resp = 1 .. MaxResp
        BY FetchAssumption, Zenon DEF Resp
      <4> DEFINE P == {i \in 0 .. MaxResp : f[i] = 0}
      <4>3. 0 \in P /\ P \subseteq 0 .. MaxResp
        BY <4>1, <4>2
      <4>4. ASSUME NEW i \in 1 .. MaxResp, i - 1 \in P PROVE i \in P
        <5>1. f[i] = f[i - 1] + data[i].release /\ f[i - 1] = 0 /\ data[i].release = 0
          BY <2>1, <2>3, <4>1, <4>2, <4>4
        <5> QED BY ONLY <4>2, <4>1, <4>4, <5>1
      <4>5. P = 0 .. MaxResp
        <5> HIDE DEF P
        <5> QED BY <4>2, <4>3, <4>4, Induction, Zenon
      <4>6. MaxResp \in 0 .. MaxResp
        BY ONLY <4>2
      <4>7. f[MaxResp] = 0
        BY <4>5, <4>6, Zenon
      <4> QED BY <4>1, <4>7, Zenon
    <3> QED BY <2>2, <3>1 DEF Init, BudgetExact
  <2> QED BY <2>4, <2>5, <2>6, <2>7 DEF FetchInv
<1>2. FetchInv /\ [Next]_vars => FetchInv'
  <2> SUFFICES ASSUME FetchInv, [Next]_vars PROVE FetchInv'
    BY Zenon
  <2>1. ASSUME NEW c \in Cmd, Send(c) \/ NextMsg(c) PROVE FetchInv'
    BY <2>1, SendKept, OthersKept, Zenon
  <2>2. ASSUME NEW m \in Msg, NEW shape \in Shapes, Answer(m, shape) \/ Unsolicited(m, shape)
        PROVE  FetchInv'
    BY <2>2, StartsKept
  <2>3. ASSUME ReaderStep PROVE FetchInv'
    BY <2>3, ReadItemKept, FinishKept, EndsKept, AcquireKept, WaitsKept, HandleMsgKept,
       DeliverKept, SendItemKept, AbortKept, Zenon DEF ReaderStep
  <2>4. ASSUME Tagged \/ WriteFails \/ Close \/ UNCHANGED vars PROVE FetchInv'
    BY <2>4, TaggedKept, OthersKept
  <2>5. ASSUME NEW r \in Resp, Consume(r) \/ CallbackReturns(r) PROVE FetchInv'
    BY <2>5, ConsumersKept
  <2> QED BY <2>1, <2>2, <2>3, <2>4, <2>5 DEF Next
<1> QED BY <1>1, <1>2, PTL DEF Spec

(* The types: channels and budget stay within their capacities. *)
THEOREM StreamTypes == Spec => []TypeOK
<1>1. FetchInv => TypeOK
  BY DEF FetchInv
<1> QED BY <1>1, StreamInvariant, PTL

(* Each response that is handed over goes to the command it answers. *)
THEOREM ResponsesGoHome == Spec => []AnswersGoHome
<1>1. FetchInv => AnswersGoHome
  BY DEF FetchInv
<1> QED BY <1>1, StreamInvariant, PTL

(* Nothing of the budget is lost or returned twice. *)
THEOREM BudgetAccounted == Spec => []BudgetExact
<1>1. FetchInv => BudgetExact
  BY DEF FetchInv
<1> QED BY <1>1, StreamInvariant, PTL

-----------------------------------------------------------------------------
(***************************************************************************)
(* The messages a FETCH command asks for and those it has received         *)
(* (recvSeqSet, recvUIDSet) are number sets.  What follows is about the    *)
(* ranges of such a set, for every greatest number Max: the one of the     *)
(* code, 2^32 - 1, included.                                               *)
(***************************************************************************)
CONSTANT Max
VARIABLES set, ref
INSTANCE NumSet

(* The parts of a range are numbers. *)
LEMMA RangeType ==
    ASSUME Max \in Nat \ {0}, NEW r \in Ranges
    PROVE  /\ r \in [start : Num, stop : Num]
           /\ r = RangeOf(r.start, r.stop)
           /\ r.start \in Nat /\ r.start <= Max /\ r.stop \in Nat /\ r.stop <= Max
           /\ r.stop # 0 => r.start # 0 /\ r.start <= r.stop
BY DEF Ranges, Num, RangeOf

(* Range.Contains tells what a range stands for, "*" included. *)
THEOREM ContainsExact ==
    ASSUME Max \in Nat \ {0}, NEW r \in Ranges, NEW q \in Num
    PROVE  Contains(r, q) <=> q \in Values(r)
<1>1. /\ r.start \in Nat /\ r.start <= Max /\ r.stop \in Nat /\ r.stop <= Max
      /\ r.stop # 0 => r.start # 0 /\ r.start <= r.stop
  BY RangeType
<1>2. q \in Nat /\ q <= Max /\ Max \in Nat \ {0}
  BY DEF Num
<1>3. CASE r.start = 0
  BY <1>1, <1>2, <1>3 DEF Contains, Values
<1>4. CASE r.start # 0 /\ r.stop = 0
  BY <1>1, <1>2, <1>4 DEF Contains, Values
<1>5. CASE r.start # 0 /\ r.stop # 0
  BY <1>1, <1>2, <1>5 DEF Contains, Values
<1> QED
  BY <1>3, <1>4, <1>5

(* Range.Less, which the binary search relies on: all of the range comes     *)
(* before q, "*" being the greatest.                                         *)
THEOREM LessExact ==
    ASSUME Max \in Nat \ {0}, NEW r \in Ranges, NEW q \in Num
    PROVE  Less(r, q) <=> \A v \in Values(r) : v # 0 /\ (q = 0 \/ v < q)
<1>1. /\ r.start \in Nat /\ r.start <= Max /\ r.stop \in Nat /\ r.stop <= Max
      /\ r.stop # 0 => r.start # 0 /\ r.start <= r.stop
  BY RangeType
<1>2. q \in Nat /\ q <= Max /\ Max \in Nat \ {0}
  BY DEF Num
<1>3. CASE r.stop = 0
  <2>1. 0 \in Values(r)
    BY <1>3 DEF Values
  <2> QED
    BY <1>3, <2>1 DEF Less
<1>4. CASE r.stop # 0
  <2>1. Values(r) = r.start .. r.stop /\ r.stop \in Values(r)
    BY <1>1, <1>4 DEF Values
  <2>2. \A v \in Values(r) : v \in Nat /\ v # 0 /\ v <= r.stop
    BY <1>1, <1>4, <2>1
  <2> HIDE DEF Values
  <2>3. ASSUME Less(r, q), NEW v \in Values(r)
        PROVE  v # 0 /\ (q = 0 \/ v < q)
    BY <1>1, <1>2, <2>2, <2>3 DEF Less
  <2>4. ASSUME \A v \in Values(r) : v # 0 /\ (q = 0 \/ v < q)
        PROVE  Less(r, q)
    BY <1>4, <2>1, <2>4 DEF Less
  <2> QED
    BY <2>3, <2>4
<1> QED
  BY <1>3, <1>4

(* The case of Merge in which s starts at or before t and neither is "*". *)
LEMMA MergeInOrderExact ==
    ASSUME Max \in Nat \ {0}, NEW s \in Ranges, NEW t \in Ranges, s.start # 0, t.start # 0,
           s.start <= t.start
    PROVE  LET m == MergeInOrder(s, t) IN
           /\ m.ok \in BOOLEAN
           /\ m.ok => /\ m.union \in Ranges
                      /\ Values(m.union) = Values(s) \cup Values(t)
           /\ ~m.ok => \A a \in Values(s), b \in Values(t) : b = 0 \/ a + 1 < b
           /\ ~m.ok => 0 \notin Values(s)
<1>1. /\ s.start \in Nat /\ s.start <= Max /\ s.stop \in Nat /\ s.stop <= Max
      /\ s.stop # 0 => s.start <= s.stop
  BY RangeType
<1>2. /\ t.start \in Nat /\ t.start <= Max /\ t.stop \in Nat /\ t.stop <= Max
      /\ t.stop # 0 => t.start <= t.stop
  BY RangeType
<1>3. Max \in Nat \ {0}
  OBVIOUS
<1>4. CASE (s.stop >= t.stop /\ t.stop # 0) \/ s.stop = 0
  <2>1. MergeInOrder(s, t) = [union |-> s, ok |-> TRUE]
    BY <1>4 DEF MergeInOrder
  <2>2. Values(t) \subseteq Values(s)
    BY <1>1, <1>2, <1>3, <1>4 DEF Values
  <2>3. Values(s) = Values(s) \cup Values(t)
    BY <2>2
  <2> QED
    BY <2>1, <2>3
<1>5. CASE ~((s.stop >= t.stop /\ t.stop # 0) \/ s.stop = 0)
  <2>1. s.stop # 0 /\ (t.stop = 0 \/ s.stop < t.stop)
    BY <1>1, <1>2, <1>5
  <2>2. CASE Succ(s.stop) >= t.start \/ s.stop = Max
    <3> DEFINE r == RangeOf(s.start, t.stop)
    <3>1. MergeInOrder(s, t) = [union |-> r, ok |-> TRUE]
      BY <1>5, <2>2 DEF MergeInOrder
    <3>2. r.start = s.start /\ r.stop = t.stop /\ r \in [start : Num, stop : Num]
      BY <1>1, <1>2 DEF RangeOf, Num
    <3> HIDE DEF r
    <3>3. r \in Ranges
      BY <1>1, <1>2, <2>1, <3>2 DEF Ranges
    <3>4. t.start <= s.stop + 1
      BY <1>1, <1>2, <1>3, <2>2 DEF Succ
    <3>5. Values(r) = Values(s) \cup Values(t)
      <4>1. Values(s) = s.start .. s.stop
        BY <2>1 DEF Values
      <4>2. CASE t.stop = 0
        <5>1. /\ Values(r) = (s.start .. Max) \cup {0}
              /\ Values(t) = (t.start .. Max) \cup {0}
          BY <3>2, <4>2 DEF Values
        <5>2. s.start .. Max = (s.start .. s.stop) \cup (t.start .. Max)
          BY <1>1, <1>2, <1>3, <3>4
        <5> QED
          BY <4>1, <5>1, <5>2
      <4>3. CASE t.stop # 0
        <5>1. Values(r) = s.start .. t.stop /\ Values(t) = t.start .. t.stop
          BY <3>2, <4>3 DEF Values
        <5>2. s.start .. t.stop = (s.start .. s.stop) \cup (t.start .. t.stop)
          BY <1>1, <1>2, <2>1, <3>4, <4>3
        <5> QED
          BY <4>1, <5>1, <5>2
      <4> QED
        BY <4>2, <4>3
    <3> QED
      BY <3>1, <3>3, <3>5
  <2>3. CASE ~(Succ(s.stop) >= t.start \/ s.stop = Max)
    <3>1. MergeInOrder(s, t) = [union |-> s, ok |-> FALSE]
      BY <1>5, <2>3 DEF MergeInOrder
    <3>2. s.stop + 1 < t.start
      BY <1>1, <1>2, <2>3 DEF Succ
    <3>3. ASSUME NEW a \in Values(s), NEW b \in Values(t)
          PROVE  a # 0 /\ (b = 0 \/ a + 1 < b)
      <4>1. a \in Nat /\ a # 0 /\ a <= s.stop
        BY <1>1, <2>1, <3>3 DEF Values
      <4>2. b = 0 \/ (b \in Nat /\ b >= t.start)
        BY <1>2, <3>3 DEF Values
      <4> QED
        BY <1>1, <1>2, <3>2, <4>1, <4>2
    <3>4. t.start \in Values(t)
      BY <1>2, <1>3 DEF Values
    <3>5. 0 \notin Values(s)
      BY <3>3, <3>4
    <3>6. \A a \in Values(s), b \in Values(t) : b = 0 \/ a + 1 < b
      BY Zenon, <3>3
    <3>7. MergeInOrder(s, t).ok = FALSE
      BY <3>1
    <3> QED
      BY <3>5, <3>6, <3>7
  <2> QED
    BY <2>2, <2>3
<1> QED
  BY <1>4, <1>5

(* Range.Merge, which every insertion rests on: when it succeeds the result  *)
(* is a range that holds what the two hold and nothing else, at the largest  *)
(* number and at "*" too; when it refuses, the two have nothing in common,   *)
(* and no number of one is next to one of the other.                         *)
THEOREM MergeExact ==
    ASSUME Max \in Nat \ {0}, NEW s \in Ranges, NEW t \in Ranges
    PROVE  /\ Merge(s, t).ok => /\ Merge(s, t).union \in Ranges
                                /\ Values(Merge(s, t).union) = Values(s) \cup Values(t)
           /\ ~Merge(s, t).ok =>
                \A a \in Values(s), b \in Values(t) :
                    /\ a # b
                    /\ a # 0 /\ b # 0 => a + 1 # b /\ b + 1 # a
<1>1. CASE s = t
  <2>1. Merge(s, t) = [union |-> s, ok |-> TRUE]
    BY <1>1 DEF Merge
  <2> QED
    BY <1>1, <2>1
<1>2. CASE s # t /\ s.start # 0 /\ t.start # 0
  <2>1. ASSUME NEW x \in Ranges, NEW y \in Ranges, x.start # 0, y.start # 0,
               x.start <= y.start, {x, y} = {s, t},
               Merge(s, t) = IF MergeInOrder(x, y).ok THEN MergeInOrder(x, y)
                             ELSE [union |-> s, ok |-> FALSE]
        PROVE  /\ Merge(s, t).ok => /\ Merge(s, t).union \in Ranges
                                    /\ Values(Merge(s, t).union) = Values(s) \cup Values(t)
               /\ ~Merge(s, t).ok =>
                    \A a \in Values(s), b \in Values(t) :
                        /\ a # b
                        /\ a # 0 /\ b # 0 => a + 1 # b /\ b + 1 # a
    <3> DEFINE m == MergeInOrder(x, y)
    <3>1. /\ m.ok \in BOOLEAN
          /\ m.ok => m.union \in Ranges /\ Values(m.union) = Values(x) \cup Values(y)
          /\ ~m.ok => \A a \in Values(x), b \in Values(y) : b = 0 \/ a + 1 < b
          /\ ~m.ok => 0 \notin Values(x)
      BY <2>1, MergeInOrderExact
    <3> HIDE DEF m
    <3>2. Values(x) \cup Values(y) = Values(s) \cup Values(t)
      BY <2>1
    <3>3. (x = s /\ y = t) \/ (x = t /\ y = s)
      BY <2>1
    <3>4. CASE m.ok
      <4>1. Merge(s, t) = m
        BY <2>1, <3>4 DEF m
      <4> QED
        BY <3>1, <3>2, <3>4, <4>1
    <3>5. CASE ~m.ok
      <4>1. ~Merge(s, t).ok
        BY <2>1, <3>5 DEF m
      <4>2. ASSUME NEW a \in Values(x), NEW b \in Values(y)
            PROVE  a # b /\ (a # 0 /\ b # 0 => a + 1 # b /\ b + 1 # a)
        <5>1. a \in Nat /\ b \in Nat
          <6>1. /\ x.start \in Nat /\ x.stop \in Nat /\ y.start \in Nat /\ y.stop \in Nat
            BY RangeType
          <6>2. Max \in Nat
            OBVIOUS
          <6> QED
            BY <4>2, <6>1, <6>2 DEF Values
        <5>2. a # 0 /\ (b = 0 \/ a + 1 < b)
          BY <3>1, <3>5
        <5> QED
          BY <5>1, <5>2
      <4> QED
        BY <3>3, <4>1, <4>2
    <3> QED
      BY <3>1, <3>4, <3>5
  <2>2. s.start \in Nat /\ t.start \in Nat
    BY RangeType
  <2>3. CASE s.start > t.start
    <3>1. Merge(s, t) = IF MergeInOrder(t, s).ok THEN MergeInOrder(t, s)
                        ELSE [union |-> s, ok |-> FALSE]
      BY <1>2, <2>3 DEF Merge
    <3>2. t.start <= s.start /\ {t, s} = {s, t}
      BY <2>2, <2>3
    <3> QED
      BY <1>2, <2>1, <3>1, <3>2
  <2>4. CASE ~(s.start > t.start)
    <3>1. Merge(s, t) = IF MergeInOrder(s, t).ok THEN MergeInOrder(s, t)
                        ELSE [union |-> s, ok |-> FALSE]
      BY <1>2, <2>4 DEF Merge
    <3>2. s.start <= t.start
      BY <2>2, <2>4
    <3> QED
      BY <1>2, <2>1, <3>1, <3>2
  <2> QED
    BY <2>3, <2>4
<1>3. CASE s # t /\ ~(s.start # 0 /\ t.start # 0)
  <2>1. /\ s.start \in Nat /\ s.stop \in Nat /\ s = RangeOf(s.start, s.stop)
        /\ s.stop # 0 => s.start # 0
    BY RangeType
  <2>2. /\ t.start \in Nat /\ t.stop \in Nat /\ t = RangeOf(t.start, t.stop)
        /\ t.stop # 0 => t.start # 0
    BY RangeType
  <2>3. CASE s.start = 0
    <3>1. s.stop = 0 /\ t.start # 0 /\ Values(s) = {0}
      BY <1>3, <2>1, <2>2, <2>3 DEF Values
    <3>2. CASE t.stop = 0
      <4>1. Merge(s, t) = [union |-> t, ok |-> TRUE]
        BY <1>3, <2>3, <3>2 DEF Merge
      <4>2. 0 \in Values(t)
        BY <3>1, <3>2 DEF Values
      <4> QED
        BY <3>1, <4>1, <4>2
    <3>3. CASE t.stop # 0
      <4>1. Merge(s, t) = [union |-> s, ok |-> FALSE]
        BY <1>3, <2>3, <3>3 DEF Merge
      <4>2. 0 \notin Values(t)
        BY <2>2, <3>1, <3>3 DEF Values
      <4> QED
        BY <3>1, <4>1, <4>2
    <3> QED
      BY <3>2, <3>3
  <2>4. CASE s.start # 0
    <3>1. t.start = 0 /\ t.stop = 0 /\ Values(t) = {0}
      BY <1>3, <2>2, <2>4 DEF Values
    <3>2. CASE s.stop = 0
      <4>1. Merge(s, t) = [union |-> s, ok |-> TRUE]
        BY <1>3, <2>4, <3>1, <3>2 DEF Merge
      <4>2. 0 \in Values(s)
        BY <2>4, <3>2 DEF Values
      <4> QED
        BY <3>1, <4>1, <4>2
    <3>3. CASE s.stop # 0
      <4>1. Merge(s, t) = [union |-> s, ok |-> FALSE]
        BY <1>3, <2>4, <3>1, <3>3 DEF Merge
      <4>2. 0 \notin Values(s)
        BY <2>1, <2>4, <3>3 DEF Values
      <4> QED
        BY <3>1, <4>1, <4>2
    <3> QED
      BY <3>2, <3>3
  <2> QED
    BY <2>3, <2>4
<1> QED
  BY <1>1, <1>2, <1>3

(* AddRange's normalisation: whichever way its ends are given, n:m is a      *)
(* range that holds both of them.                                            *)
THEOREM NormalExact ==
    ASSUME Max \in Nat \ {0}, NEW start \in Num, NEW stop \in Num
    PROVE  /\ Normal(start, stop) \in Ranges
           /\ Normal(start, stop) = Normal(stop, start)
           /\ {start, stop} \subseteq Values(Normal(start, stop))
<1>1. start \in Nat /\ stop \in Nat /\ start <= Max /\ stop <= Max
  BY DEF Num
<1>2. Normal(start, stop) \in Ranges
  BY <1>1 DEF Normal, RangeOf, Ranges, Num
<1>3. Normal(start, stop) = Normal(stop, start)
  BY <1>1 DEF Normal, RangeOf
<1>4. {start, stop} \subseteq Values(Normal(start, stop))
  BY <1>1 DEF Normal, RangeOf, Values
<1> QED
  BY <1>2, <1>3, <1>4
==============================================================================
