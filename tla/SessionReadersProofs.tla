------------------------ MODULE SessionReadersProofs ------------------------
(***************************************************************************)
(* What the loops of a session's readers compute, along a queue of any      *)
(* length.                                                                 *)
(***************************************************************************)
EXTENDS SessionReaders, FiniteSetTheorems, TLAPS

(* A non-empty set of naturals has a least element. *)
LEMMA LeastNatural ==
    ASSUME NEW S \in SUBSET Nat, S # {}
    PROVE  \E k \in S : \A j \in S : k <= j
<1>1. PICK k \in S : \A j \in S : ~ (<<j, k>> \in OpToRel(<, Nat))
  BY WFMin, NatLessThanWellFounded, Zenon
<1>2. ASSUME NEW j \in S, j < k PROVE FALSE
  <2>1. <<j, k>> \in OpToRel(<, Nat)
    BY <1>2 DEF OpToRel
  <2> QED BY <1>1, <2>1, Zenon
<1> QED BY <1>2

(* What holds at the start and is handed on holds everywhere. *)
LEMMA Induction ==
    ASSUME NEW N \in Nat, NEW P, P \subseteq 0 .. N, 0 \in P,
           \A i \in 1 .. N : i - 1 \in P => i \in P
    PROVE  P = 0 .. N
<1> DEFINE Bad == (0 .. N) \ P
<1>1. ASSUME Bad # {} PROVE FALSE
  <2>1. Bad \in SUBSET Nat
    OBVIOUS
  <2>2. PICK k \in Bad : \A j \in Bad : k <= j
    BY <1>1, <2>1, LeastNatural, Zenon
  <2>3. k \in 1 .. N /\ k \notin P
    BY <2>2
  <2>4. k - 1 \in 0 .. N /\ ~(k <= k - 1)
    BY <2>3
  <2>5. k - 1 \in P
    BY <2>2, <2>4
  <2> QED BY <2>3, <2>5
<1> QED BY <1>1, Zenon

(* The values of a loop of N steps: b, and what each step makes of the last. *)
Walks(f, V, N, b, step) ==
    /\ f \in [0 .. N -> V]
    /\ f[0] = b
    /\ \A i \in 1 .. N : f[i] = step[i][f[i - 1]]

(* A loop whose steps stay in V has such values. *)
LEMMA WalkExists ==
    ASSUME NEW V, NEW N \in Nat, NEW b \in V, NEW step \in [1 .. N -> [V -> V]]
    PROVE  \E f : Walks(f, V, N, b, step)
<1> DEFINE Walk(n, f) == f[0] = b /\ \A i \in 1 .. n : f[i] = step[i][f[i - 1]]
           P == {n \in 0 .. N : \E f \in [0 .. n -> V] : Walk(n, f)}
<1>1. 0 \in P
  <2>1. [i \in 0 .. 0 |-> b] \in [0 .. 0 -> V] /\ Walk(0, [i \in 0 .. 0 |-> b])
    OBVIOUS
  <2>2. 0 \in 0 .. N
    OBVIOUS
  <2> HIDE DEF Walk
  <2> QED BY <2>1, <2>2, Zenon
<1>2. ASSUME NEW k \in 1 .. N, k - 1 \in P PROVE k \in P
  <2>1. PICK f \in [0 .. k - 1 -> V] : Walk(k - 1, f)
    BY <1>2
  <2> DEFINE g == [i \in 0 .. k |-> IF i < k THEN f[i] ELSE step[k][f[k - 1]]]
  <2>2. step[k][f[k - 1]] \in V
    BY <2>1
  <2>3. g \in [0 .. k -> V]
    BY <2>1, <2>2
  <2>4. Walk(k, g)
    BY <2>1
  <2>5. k \in 0 .. N
    OBVIOUS
  <2> HIDE DEF Walk, g
  <2> QED BY <2>3, <2>4, <2>5, Zenon
<1>3. P \subseteq 0 .. N
  OBVIOUS
<1>4. N \in 0 .. N
  OBVIOUS
<1>5. N \in P
  <2> HIDE DEF P
  <2> QED BY <1>1, <1>2, <1>3, <1>4, Induction, Zenon
<1> QED BY <1>5, Zenon DEF Walks

(* DecodeSeqNum's loop, from the oldest update to the latest. *)
LEMMA DecodedWalk ==
    ASSUME NEW q \in Seq(Update), NEW n \in Int
    PROVE  \E f : /\ f[0] = n /\ Decoded(q, n) = f[Len(q)]
                  /\ \A i \in 1 .. Len(q) : f[i] = DecodeStep(f[i - 1], q[i])
<1> DEFINE N == Len(q)
           step == [i \in 1 .. N |-> [v \in Int |-> DecodeStep(v, q[i])]]
           Def(f) == f = [i \in 0 .. N |-> IF i = 0 THEN n ELSE DecodeStep(f[i - 1], q[i])]
           after == CHOOSE f : Def(f)
<1>1. N \in Nat
  OBVIOUS
<1>2. \A i \in 1 .. N : q[i].n \in Int /\ q[i].prev \in Int
  <2>1. \A i \in 1 .. N : q[i] \in Update
    OBVIOUS
  <2> QED BY <2>1 DEF Update
<1> HIDE DEF N
<1>3. step \in [1 .. N -> [Int -> Int]]
  BY <1>1, <1>2 DEF DecodeStep
<1>4. PICK f : Walks(f, Int, N, n, step)
  <2> HIDE DEF step, Def, after
  <2> QED BY <1>1, <1>3, WalkExists, Zenon
<1>5. ASSUME NEW i \in 1 .. N PROVE f[i] = DecodeStep(f[i - 1], q[i])
  <2>1. f[i] = step[i][f[i - 1]] /\ f[i - 1] \in Int
    <3> HIDE DEF step
    <3> QED BY <1>1, <1>4 DEF Walks
  <2> QED BY <2>1
<1>6. Def(f)
  <2>1. f = [i \in 0 .. N |-> f[i]]
    BY <1>4 DEF Walks
  <2>2. \A i \in 0 .. N : f[i] = IF i = 0 THEN n ELSE DecodeStep(f[i - 1], q[i])
    BY <1>1, <1>4, <1>5 DEF Walks
  <2> QED BY <2>1, <2>2, Zenon
<1>7. Def(after)
  BY <1>6, Zenon
<1>8. Decoded(q, n) = after[N]
  BY DEF Decoded, N
<1> HIDE DEF after
<1>9. \A i \in 0 .. N : after[i] = IF i = 0 THEN n ELSE DecodeStep(after[i - 1], q[i])
  BY <1>7, Zenon
<1>10. after[0] = n /\ \A i \in 1 .. N : after[i] = DecodeStep(after[i - 1], q[i])
  BY <1>1, <1>9
<1> QED BY <1>8, <1>10 DEF N

(* EncodeSeqNum's loop, from the latest update back to the oldest. *)
LEMMA EncodedWalk ==
    ASSUME NEW q \in Seq(Update), NEW n \in Int
    PROVE  \E f : /\ f[0] = n /\ Encoded(q, n) = f[Len(q)]
                  /\ \A i \in 1 .. Len(q) : f[i] = EncodeStep(q[Len(q) + 1 - i], f[i - 1])
<1> DEFINE N == Len(q)
           step == [i \in 1 .. N |-> [v \in Int |-> EncodeStep(q[N + 1 - i], v)]]
           Def(f) == f = [i \in 0 .. N |-> IF i = 0 THEN n ELSE EncodeStep(q[N + 1 - i], f[i - 1])]
           before == CHOOSE f : Def(f)
<1>1. N \in Nat
  OBVIOUS
<1>2. \A i \in 1 .. N : q[i].n \in Int /\ q[i].prev \in Int
  <2>1. \A i \in 1 .. N : q[i] \in Update
    OBVIOUS
  <2> QED BY <2>1 DEF Update
<1> HIDE DEF N
<1>3. step \in [1 .. N -> [Int -> Int]]
  BY <1>1, <1>2 DEF EncodeStep
<1>4. PICK f : Walks(f, Int, N, n, step)
  <2> HIDE DEF step, Def, before
  <2> QED BY <1>1, <1>3, WalkExists, Zenon
<1>5. ASSUME NEW i \in 1 .. N PROVE f[i] = EncodeStep(q[N + 1 - i], f[i - 1])
  <2>1. f[i] = step[i][f[i - 1]] /\ f[i - 1] \in Int
    <3> HIDE DEF step
    <3> QED BY <1>1, <1>4 DEF Walks
  <2> QED BY <2>1
<1>6. Def(f)
  <2>1. f = [i \in 0 .. N |-> f[i]]
    BY <1>4 DEF Walks
  <2>2. \A i \in 0 .. N : f[i] = IF i = 0 THEN n ELSE EncodeStep(q[N + 1 - i], f[i - 1])
    BY <1>1, <1>4, <1>5 DEF Walks
  <2> QED BY <2>1, <2>2, Zenon
<1>7. Def(before)
  BY <1>6, Zenon
<1>8. Encoded(q, n) = before[N]
  BY DEF Encoded, N
<1> HIDE DEF before
<1>9. \A i \in 0 .. N : before[i] = IF i = 0 THEN n ELSE EncodeStep(q[N + 1 - i], before[i - 1])
  BY <1>7, Zenon
<1>10. before[0] = n /\ \A i \in 1 .. N : before[i] = EncodeStep(q[N + 1 - i], before[i - 1])
  BY <1>1, <1>9
<1> QED BY <1>8, <1>10 DEF N

(* EncodeNumMessages's loop, likewise. *)
LEMMA EncodedNumWalk ==
    ASSUME NEW q \in Seq(Update), NEW n \in Int
    PROVE  \E f : /\ f[0] = n /\ EncodedNum(q, n) = f[Len(q)]
                  /\ \A i \in 1 .. Len(q) : f[i] = EncodeNumStep(q[Len(q) + 1 - i], f[i - 1])
<1> DEFINE N == Len(q)
           step == [i \in 1 .. N |-> [v \in Int |-> EncodeNumStep(q[N + 1 - i], v)]]
           Def(f) == f = [i \in 0 .. N |-> IF i = 0 THEN n ELSE EncodeNumStep(q[N + 1 - i], f[i - 1])]
           before == CHOOSE f : Def(f)
<1>1. N \in Nat
  OBVIOUS
<1>2. \A i \in 1 .. N : q[i].n \in Int /\ q[i].prev \in Int
  <2>1. \A i \in 1 .. N : q[i] \in Update
    OBVIOUS
  <2> QED BY <2>1 DEF Update
<1> HIDE DEF N
<1>3. step \in [1 .. N -> [Int -> Int]]
  BY <1>1, <1>2 DEF EncodeNumStep
<1>4. PICK f : Walks(f, Int, N, n, step)
  <2> HIDE DEF step, Def, before
  <2> QED BY <1>1, <1>3, WalkExists, Zenon
<1>5. ASSUME NEW i \in 1 .. N PROVE f[i] = EncodeNumStep(q[N + 1 - i], f[i - 1])
  <2>1. f[i] = step[i][f[i - 1]] /\ f[i - 1] \in Int
    <3> HIDE DEF step
    <3> QED BY <1>1, <1>4 DEF Walks
  <2> QED BY <2>1
<1>6. Def(f)
  <2>1. f = [i \in 0 .. N |-> f[i]]
    BY <1>4 DEF Walks
  <2>2. \A i \in 0 .. N : f[i] = IF i = 0 THEN n ELSE EncodeNumStep(q[N + 1 - i], f[i - 1])
    BY <1>1, <1>4, <1>5 DEF Walks
  <2> QED BY <2>1, <2>2, Zenon
<1>7. Def(before)
  BY <1>6, Zenon
<1>8. EncodedNum(q, n) = before[N]
  BY DEF EncodedNum, N
<1> HIDE DEF before
<1>9. \A i \in 0 .. N : before[i] = IF i = 0 THEN n ELSE EncodeNumStep(q[N + 1 - i], before[i - 1])
  BY <1>7, Zenon
<1>10. before[0] = n /\ \A i \in 1 .. N : before[i] = EncodeNumStep(q[N + 1 - i], before[i - 1])
  BY <1>1, <1>9
<1> QED BY <1>8, <1>10 DEF N

(* A set of messages is finite, and its sequence numbers are those from 1   *)
(* to its size.                                                             *)
LEMMA Counted ==
    ASSUME NEW S \in SUBSET UID
    PROVE  /\ IsFiniteSet(S) /\ Cardinality(S) \in Nat
           /\ \A u \in S : SeqNumOf(S, u) \in 1 .. Cardinality(S)
<1>1. IsFiniteSet(UID)
  BY FS_Interval, TrackerAssumption DEF UID
<1>2. IsFiniteSet(S)
  BY <1>1, FS_Subset
<1>3. Cardinality(S) \in Nat
  BY <1>2, FS_CardinalityType
<1>4. ASSUME NEW u \in S PROVE SeqNumOf(S, u) \in 1 .. Cardinality(S)
  <2> DEFINE T == {v \in S : v <= u}
  <2>1. T \in SUBSET S /\ u \in T
    BY TrackerAssumption DEF UID
  <2>2. IsFiniteSet(T) /\ Cardinality(T) <= Cardinality(S)
    BY <1>2, <2>1, FS_Subset
  <2>3. Cardinality(T) \in Nat /\ Cardinality(T) # 0
    BY <2>1, <2>2, FS_CardinalityType, FS_EmptySet
  <2> QED BY <1>3, <2>2, <2>3 DEF SeqNumOf
<1> QED BY <1>2, <1>3, <1>4

(* No position in a mailbox is beyond its size. *)
LEMMA InRange ==
    ASSUME NEW S \in SUBSET UID, NEW u
    PROVE  /\ ~(Position(S, u) > Cardinality(S))
           /\ u \in S => ~(SeqNumOf(S, u) > Cardinality(S))
<1>1. Cardinality(S) \in Nat /\ (u \in S => SeqNumOf(S, u) \in 1 .. Cardinality(S))
  BY Counted, Zenon
<1>2. u \in S => ~(SeqNumOf(S, u) > Cardinality(S))
  BY ONLY <1>1
<1>3. ~(0 > Cardinality(S))
  BY ONLY <1>1
<1> QED BY <1>2, <1>3, Zenon DEF Position

(* Taking a message out of a mailbox shifts those behind it. *)
LEMMA RankRemoved ==
    ASSUME NEW S \in SUBSET UID, NEW x \in S, NEW u \in S, u # x
    PROVE  /\ x < u => /\ SeqNumOf(S, x) < SeqNumOf(S, u)
                       /\ SeqNumOf(S \ {x}, u) = SeqNumOf(S, u) - 1
           /\ u < x => /\ SeqNumOf(S, u) < SeqNumOf(S, x)
                       /\ SeqNumOf(S \ {x}, u) = SeqNumOf(S, u)
<1> DEFINE U == {v \in S : v <= u}
           X == {v \in S : v <= x}
<1>1. u \in Int /\ x \in Int /\ \A v \in S : v \in Int
  BY TrackerAssumption DEF UID
<1>2. IsFiniteSet(U) /\ IsFiniteSet(X) /\ U \in SUBSET UID /\ X \in SUBSET UID
  <2>1. U \in SUBSET UID /\ X \in SUBSET UID
    OBVIOUS
  <2> QED BY <2>1, Counted
<1>3. SeqNumOf(S, u) \in Nat /\ SeqNumOf(S, x) \in Nat
  BY Counted
<1>4. CASE x < u
  <2>1. x \in U
    BY <1>1, <1>4
  <2>2. Cardinality(U \ {x}) = Cardinality(U) - 1
    BY <1>2, <2>1, FS_RemoveElement, Zenon
  <2>3. X \in SUBSET U /\ u \in U /\ u \notin X
    <3>1. (\A v \in S : v <= x => v <= u) /\ u <= u /\ ~(u <= x)
      BY <1>1, <1>4
    <3> QED BY <3>1, Zenon
  <2>4. Cardinality(X) <= Cardinality(U) /\ Cardinality(X) # Cardinality(U)
    <3>1. X # U
      BY <2>3
    <3> QED BY <1>2, <2>3, <3>1, FS_Subset
  <2>5. {v \in S \ {x} : v <= u} = U \ {x}
    BY <1>1, <1>4
  <2> QED BY <1>1, <1>3, <1>4, <2>2, <2>4, <2>5 DEF SeqNumOf
<1>5. CASE u < x
  <2>1. U \in SUBSET X /\ x \in X /\ x \notin U
    <3>1. (\A v \in S : v <= u => v <= x) /\ x <= x /\ ~(x <= u)
      BY <1>1, <1>5
    <3> QED BY <3>1, Zenon
  <2>2. Cardinality(U) <= Cardinality(X) /\ Cardinality(X) # Cardinality(U)
    <3>1. X # U
      BY <2>1
    <3> QED BY <1>2, <2>1, <3>1, FS_Subset
  <2>3. {v \in S \ {x} : v <= u} = U
    BY <1>1, <1>5
  <2> QED BY <1>1, <1>3, <1>5, <2>2, <2>3 DEF SeqNumOf
<1> QED BY <1>1, <1>4, <1>5

(* Messages that join behind the others leave their numbers alone. *)
LEMMA RankGrown ==
    ASSUME NEW S \in SUBSET UID, NEW T \in SUBSET UID, S \subseteq T,
           \A a \in S, b \in T \ S : a < b
    PROVE  /\ \A u \in S : SeqNumOf(T, u) = SeqNumOf(S, u)
           /\ \A u \in T \ S : SeqNumOf(T, u) > Cardinality(S)
<1>1. \A v \in T : v \in Int
  BY TrackerAssumption DEF UID
<1>2. ASSUME NEW u \in S PROVE SeqNumOf(T, u) = SeqNumOf(S, u)
  <2>1. {v \in T : v <= u} = {v \in S : v <= u}
    BY <1>1
  <2> QED BY <2>1 DEF SeqNumOf
<1>3. ASSUME NEW u \in T \ S PROVE SeqNumOf(T, u) > Cardinality(S)
  <2> DEFINE U == {v \in T : v <= u}
  <2>1. S \in SUBSET U /\ u \in U /\ u \notin S
    BY <1>1
  <2>2. U \in SUBSET UID /\ IsFiniteSet(U) /\ Cardinality(U) \in Nat /\ Cardinality(S) \in Nat
    <3>1. U \in SUBSET UID
      OBVIOUS
    <3> QED BY <3>1, Counted
  <2> HIDE DEF U
  <2>3. Cardinality(S) <= Cardinality(U) /\ Cardinality(S) # Cardinality(U)
    BY <2>1, <2>2, FS_Subset
  <2> QED BY <2>2, <2>3 DEF SeqNumOf, U
<1> QED BY <1>2, <1>3
(* What an update adds is behind what was there. *)
InOrder(w) == \A a \in w.pre, b \in w.post \ w.pre : a < b

(* What an update that is well formed says of the two mailboxes. *)
LEMMA StepFacts ==
    ASSUME NEW w \in Update, WellFormed(w), InOrder(w)
    PROVE  /\ w.pre \in SUBSET UID /\ w.post \in SUBSET UID
           /\ Cardinality(w.pre) \in Nat /\ Cardinality(w.post) \in Nat
           /\ w.kind = "expunge" => Cardinality(w.post) = Cardinality(w.pre) - 1
           /\ \A u \in w.pre : SeqNumOf(w.pre, u) \in 1 .. Cardinality(w.pre)
           /\ \A u \in w.post : SeqNumOf(w.post, u) \in 1 .. Cardinality(w.post)
<1>1. w.pre \in SUBSET UID /\ w.post \in SUBSET UID
  BY DEF Update
<1>2. IsFiniteSet(w.pre) /\ Cardinality(w.pre) \in Nat /\ Cardinality(w.post) \in Nat
  BY <1>1, Counted
<1>3. w.kind = "expunge" => Cardinality(w.post) = Cardinality(w.pre) - 1
  BY <1>2, FS_RemoveElement DEF WellFormed
<1> QED BY <1>1, <1>2, <1>3, Counted

(* DecodeSeqNum's step follows a message that does not come back. *)
LEMMA DecodeStepExact ==
    ASSUME NEW w \in Update, WellFormed(w), InOrder(w), NEW u, u \in w.post => u \in w.pre
    PROVE  DecodeStep(Position(w.pre, u), w) = Position(w.post, u)
<1>1. /\ w.pre \in SUBSET UID /\ w.post \in SUBSET UID
      /\ \A v \in w.pre : SeqNumOf(w.pre, v) \in 1 .. Cardinality(w.pre)
      /\ Cardinality(w.pre) \in Nat
  BY StepFacts
<1>2. CASE w.kind = "expunge"
  <2> DEFINE x == w.uid
  <2>1. x \in w.pre /\ w.n = SeqNumOf(w.pre, x) /\ w.post = w.pre \ {x}
    BY <1>2 DEF WellFormed
  <2>2. CASE u \notin w.pre
    BY <1>1, <1>2, <2>1, <2>2 DEF DecodeStep, Position
  <2>3. CASE u = x
    BY <1>1, <1>2, <2>1, <2>3 DEF DecodeStep, Position
  <2>4. CASE u \in w.pre /\ u # x
    <3>1. u \in Int /\ x \in Int
      BY <1>1, <2>1, <2>4, TrackerAssumption DEF UID
    <3>2. /\ x < u => SeqNumOf(w.pre, x) < SeqNumOf(w.pre, u) /\ SeqNumOf(w.post, u) = SeqNumOf(w.pre, u) - 1
          /\ u < x => SeqNumOf(w.pre, u) < SeqNumOf(w.pre, x) /\ SeqNumOf(w.post, u) = SeqNumOf(w.pre, u)
      BY <1>1, <2>1, <2>4, RankRemoved
    <3> HIDE DEF x
    <3> QED BY <1>1, <1>2, <2>1, <2>4, <3>1, <3>2 DEF DecodeStep, Position
  <2> QED BY <2>2, <2>3, <2>4
<1>3. CASE w.kind = "exists"
  <2>1. w.pre \subseteq w.post
    BY <1>3 DEF WellFormed
  <2>2. u \in w.pre => SeqNumOf(w.post, u) = SeqNumOf(w.pre, u)
    BY <1>1, <2>1, RankGrown DEF InOrder
  <2> QED BY <1>3, <2>1, <2>2 DEF DecodeStep, Position
<1>4. CASE w.kind \in {"flags", "fetch"}
  BY <1>4 DEF WellFormed, DecodeStep, Position
<1> QED BY <1>2, <1>3, <1>4 DEF Update, Kind

(* EncodeSeqNum's step follows a message back that is not the expunged one. *)
LEMMA EncodeStepExact ==
    ASSUME NEW w \in Update, WellFormed(w), InOrder(w), NEW u, w.kind = "expunge" => u # w.uid
    PROVE  EncodeStep(w, Position(w.post, u)) = Position(w.pre, u)
<1>1. /\ w.pre \in SUBSET UID /\ w.post \in SUBSET UID
      /\ \A v \in w.pre : SeqNumOf(w.pre, v) \in 1 .. Cardinality(w.pre)
      /\ \A v \in w.post : SeqNumOf(w.post, v) \in 1 .. Cardinality(w.post)
      /\ Cardinality(w.pre) \in Nat /\ Cardinality(w.post) \in Nat
  BY StepFacts
<1>2. CASE w.kind = "expunge"
  <2> DEFINE x == w.uid
  <2>1. x \in w.pre /\ w.n = SeqNumOf(w.pre, x) /\ w.post = w.pre \ {x} /\ u # x
    BY <1>2 DEF WellFormed
  <2>2. CASE u \notin w.pre
    BY <1>1, <1>2, <2>1, <2>2 DEF EncodeStep, Position
  <2>3. CASE u \in w.pre
    <3>1. u \in Int /\ x \in Int
      BY <1>1, <2>1, <2>3, TrackerAssumption DEF UID
    <3>2. /\ x < u => SeqNumOf(w.pre, x) < SeqNumOf(w.pre, u) /\ SeqNumOf(w.post, u) = SeqNumOf(w.pre, u) - 1
          /\ u < x => SeqNumOf(w.pre, u) < SeqNumOf(w.pre, x) /\ SeqNumOf(w.post, u) = SeqNumOf(w.pre, u)
      BY <1>1, <2>1, <2>3, RankRemoved
    <3> HIDE DEF x
    <3> QED BY <1>1, <1>2, <2>1, <2>3, <3>1, <3>2 DEF EncodeStep, Position
  <2> QED BY <2>2, <2>3
<1>3. CASE w.kind = "exists"
  <2>1. w.pre \subseteq w.post /\ w.prev = Cardinality(w.pre) /\ w.n = Cardinality(w.post)
    BY <1>3 DEF WellFormed
  <2>2. /\ u \in w.pre => SeqNumOf(w.post, u) = SeqNumOf(w.pre, u)
        /\ u \in w.post \ w.pre => SeqNumOf(w.post, u) > Cardinality(w.pre)
    BY <1>1, <2>1, RankGrown DEF InOrder
  <2> QED BY <1>1, <1>3, <2>1, <2>2 DEF EncodeStep, Position
<1>4. CASE w.kind \in {"flags", "fetch"}
  BY <1>4 DEF WellFormed, EncodeStep, Position
<1> QED BY <1>2, <1>3, <1>4 DEF Update, Kind

(* EncodeNumMessages's step goes back to the size before. *)
LEMMA EncodeNumStepExact ==
    ASSUME NEW w \in Update, WellFormed(w), InOrder(w)
    PROVE  EncodeNumStep(w, Cardinality(w.post)) = Cardinality(w.pre)
<1>1. /\ Cardinality(w.pre) \in Nat
      /\ w.kind = "expunge" => Cardinality(w.post) = Cardinality(w.pre) - 1
  BY StepFacts
<1> QED BY <1>1 DEF WellFormed, EncodeNumStep, Update, Kind

(* The mailboxes along a chain. *)
LEMMA ChainLinks ==
    ASSUME NEW q \in Seq(Update), NEW a, NEW b, Chained(q, a, b)
    PROVE  /\ Between(q, b, 0) = a /\ Between(q, b, Len(q)) = b
           /\ \A i \in 1 .. Len(q) :
                q[i].pre = Between(q, b, i - 1) /\ q[i].post = Between(q, b, i)
<1>1. Len(q) \in Nat
  OBVIOUS
<1>2. Between(q, b, 0) = a /\ Between(q, b, Len(q)) = b
  BY <1>1 DEF Between, Chained
<1>3. ASSUME NEW i \in 1 .. Len(q)
      PROVE  q[i].pre = Between(q, b, i - 1) /\ q[i].post = Between(q, b, i)
  <2>1. i - 1 # Len(q) /\ (i - 1) + 1 = i
    BY <1>1
  <2>2. CASE i = Len(q)
    <3>1. Len(q) # 0 /\ Between(q, b, i) = b
      BY <1>1, <2>2 DEF Between
    <3>2. q[i].post = b
      BY <2>2, <3>1 DEF Chained
    <3> QED BY <2>1, <3>1, <3>2 DEF Between
  <2>3. CASE i # Len(q)
    BY <1>1, <2>1, <2>3 DEF Between, Chained
  <2> QED BY <2>2, <2>3
<1> QED BY <1>2, <1>3
(* The loops of the readers, along a chain of updates from a to b in which  *)
(* no message comes back.                                                   *)
Forward(q, a, b) ==
    /\ q \in Seq(Update) /\ a \in SUBSET UID /\ b \in SUBSET UID
    /\ Chained(q, a, b) /\ NoneReturns(q)
    /\ \A i \in 1 .. Len(q) : WellFormed(q[i]) /\ InOrder(q[i])

(* What such a chain says of its updates and the mailboxes between them. *)
LEMMA ForwardFacts ==
    ASSUME NEW q, NEW a, NEW b, Forward(q, a, b)
    PROVE  /\ q \in Seq(Update) /\ Len(q) \in Nat
           /\ Between(q, b, 0) = a /\ Between(q, b, Len(q)) = b
           /\ \A i \in 1 .. Len(q) :
                /\ q[i] \in Update /\ WellFormed(q[i]) /\ InOrder(q[i])
                /\ q[i].pre = Between(q, b, i - 1) /\ q[i].post = Between(q, b, i)
<1>1. q \in Seq(Update) /\ Len(q) \in Nat /\ \A i \in 1 .. Len(q) : q[i] \in Update
  BY DEF Forward
<1> QED BY <1>1, ChainLinks DEF Forward

(* DecodeSeqNum's loop takes the number of a message in a to its number in b. *)
LEMMA DecodedExact ==
    ASSUME NEW q, NEW a, NEW b, Forward(q, a, b), NEW u \in a
    PROVE  Decoded(q, SeqNumOf(a, u)) = Position(b, u)
<1> DEFINE B(i) == Between(q, b, i)
           Gone(i) == \E k \in 1 .. i : q[k].kind = "expunge" /\ q[k].uid = u
<1>1. /\ q \in Seq(Update) /\ Len(q) \in Nat /\ B(0) = a /\ B(Len(q)) = b
      /\ \A i \in 1 .. Len(q) :
            /\ q[i] \in Update /\ WellFormed(q[i]) /\ InOrder(q[i])
            /\ q[i].pre = B(i - 1) /\ q[i].post = B(i)
  BY ForwardFacts
<1>2. SeqNumOf(a, u) \in Int
  <2>1. a \in SUBSET UID
    BY DEF Forward
  <2>2. SeqNumOf(a, u) \in 1 .. Cardinality(a) /\ Cardinality(a) \in Nat
    BY <2>1, Counted
  <2> QED BY <2>2
<1>3. PICK f : /\ f[0] = SeqNumOf(a, u) /\ Decoded(q, SeqNumOf(a, u)) = f[Len(q)]
               /\ \A i \in 1 .. Len(q) : f[i] = DecodeStep(f[i - 1], q[i])
  BY <1>1, <1>2, DecodedWalk
<1> HIDE DEF B
<1> DEFINE P == {i \in 0 .. Len(q) : f[i] = Position(B(i), u) /\ (u \in B(i) \/ Gone(i))}
<1>4. 0 \in P
  BY <1>1, <1>3 DEF Position
<1>5. ASSUME NEW i \in 1 .. Len(q), i - 1 \in P PROVE i \in P
  <2>1. f[i - 1] = Position(B(i - 1), u) /\ (u \in B(i - 1) \/ Gone(i - 1))
    BY <1>5
  <2>2. u \in q[i].post => u \in q[i].pre
    <3>1. ASSUME Gone(i - 1) PROVE u \notin q[i].post
      <4>1. PICK k \in 1 .. i - 1 : q[k].kind = "expunge" /\ q[k].uid = u
        BY <3>1
      <4>2. k \in 1 .. Len(q) /\ k < i
        BY <1>1
      <4> QED BY <4>1, <4>2 DEF Forward, NoneReturns
    <3> QED BY <1>1, <2>1, <3>1
  <2>3. f[i] = Position(B(i), u)
    BY <1>1, <1>3, <2>1, <2>2, DecodeStepExact
  <2>4. u \in B(i) \/ Gone(i)
    <3>1. ASSUME Gone(i - 1) PROVE Gone(i)
      <4>1. PICK k \in 1 .. i - 1 : q[k].kind = "expunge" /\ q[k].uid = u
        BY <3>1
      <4>2. k \in 1 .. i
        OBVIOUS
      <4> QED BY <4>1, <4>2
    <3>2. ASSUME u \in q[i].pre, u \notin q[i].post PROVE Gone(i)
      <4>1. q[i].kind = "expunge" /\ q[i].uid = u
        BY <1>1, <3>2, Zenon DEF WellFormed, Update, Kind
      <4>2. i \in 1 .. i
        OBVIOUS
      <4> QED BY <4>1, <4>2
    <3> HIDE DEF Gone
    <3> QED BY <1>1, <2>1, <3>1, <3>2
  <2>5. i \in 0 .. Len(q)
    OBVIOUS
  <2> HIDE DEF Gone
  <2> QED BY <2>3, <2>4, <2>5
<1>6. P \subseteq 0 .. Len(q) /\ Len(q) \in 0 .. Len(q)
  BY <1>1
<1>7. Len(q) \in P
  <2> HIDE DEF P
  <2> QED BY <1>1, <1>4, <1>5, <1>6, Induction, Zenon
<1> QED BY <1>1, <1>3, <1>7

(* EncodeSeqNum's loop takes the number of a message in b to its number in a. *)
LEMMA EncodedExact ==
    ASSUME NEW q, NEW a, NEW b, Forward(q, a, b), NEW u \in b
    PROVE  Encoded(q, SeqNumOf(b, u)) = Position(a, u)
<1> DEFINE N == Len(q)
           B(i) == Between(q, b, i)
<1>1. /\ q \in Seq(Update) /\ N \in Nat /\ B(0) = a /\ B(N) = b
      /\ \A i \in 1 .. N :
            /\ q[i] \in Update /\ WellFormed(q[i]) /\ InOrder(q[i])
            /\ q[i].pre = B(i - 1) /\ q[i].post = B(i)
  BY ForwardFacts
<1>2. SeqNumOf(b, u) \in Int
  <2>1. b \in SUBSET UID
    BY DEF Forward
  <2>2. SeqNumOf(b, u) \in 1 .. Cardinality(b) /\ Cardinality(b) \in Nat
    BY <2>1, Counted
  <2> QED BY <2>2
<1>3. PICK f : /\ f[0] = SeqNumOf(b, u) /\ Encoded(q, SeqNumOf(b, u)) = f[N]
               /\ \A i \in 1 .. N : f[i] = EncodeStep(q[N + 1 - i], f[i - 1])
  BY <1>1, <1>2, EncodedWalk
<1>4. ASSUME NEW k \in 1 .. N, q[k].kind = "expunge" PROVE u # q[k].uid
  <2>1. CASE k = N
    BY <1>1, <1>4, <2>1 DEF WellFormed
  <2>2. CASE k # N
    <3>1. N \in 1 .. N /\ k < N
      BY <1>1, <2>2
    <3> QED BY <1>1, <1>4, <3>1 DEF Forward, NoneReturns
  <2> QED BY <2>1, <2>2
<1> HIDE DEF B, N
<1> DEFINE P == {i \in 0 .. N : f[i] = Position(B(N - i), u)}
<1>5. 0 \in P
  BY <1>1, <1>3 DEF Position
<1>6. ASSUME NEW i \in 1 .. N, i - 1 \in P PROVE i \in P
  <2> DEFINE k == N + 1 - i
  <2>1. k \in 1 .. N /\ k - 1 = N - i /\ k = N - (i - 1) /\ i \in 0 .. N
    BY <1>1
  <2>2. f[i - 1] = Position(B(k), u) /\ f[i] = EncodeStep(q[k], f[i - 1])
    BY <1>3, <1>6, <2>1
  <2> HIDE DEF k
  <2>3. /\ q[k] \in Update /\ WellFormed(q[k]) /\ InOrder(q[k])
        /\ q[k].pre = B(k - 1) /\ q[k].post = B(k)
    BY <1>1, <2>1
  <2>4. EncodeStep(q[k], Position(q[k].post, u)) = Position(q[k].pre, u)
    BY <1>4, <2>1, <2>3, EncodeStepExact, Zenon
  <2>5. f[i] = Position(B(k - 1), u)
    BY <2>2, <2>3, <2>4
  <2> QED BY <2>1, <2>5
<1>7. P \subseteq 0 .. N /\ N \in 0 .. N /\ N - N = 0
  BY <1>1
<1>8. N \in P
  <2> HIDE DEF P
  <2> QED BY <1>1, <1>5, <1>6, <1>7, Induction, Zenon
<1> QED BY <1>1, <1>3, <1>7, <1>8

(* EncodeNumMessages's loop takes the size of b to the size of a. *)
LEMMA EncodedNumExact ==
    ASSUME NEW q, NEW a, NEW b, Forward(q, a, b)
    PROVE  EncodedNum(q, Cardinality(b)) = Cardinality(a)
<1> DEFINE N == Len(q)
           B(i) == Between(q, b, i)
<1>1. /\ q \in Seq(Update) /\ N \in Nat /\ B(0) = a /\ B(N) = b
      /\ \A i \in 1 .. N :
            /\ q[i] \in Update /\ WellFormed(q[i]) /\ InOrder(q[i])
            /\ q[i].pre = B(i - 1) /\ q[i].post = B(i)
  BY ForwardFacts
<1>2. Cardinality(b) \in Int
  BY Counted DEF Forward
<1>3. PICK f : /\ f[0] = Cardinality(b) /\ EncodedNum(q, Cardinality(b)) = f[N]
               /\ \A i \in 1 .. N : f[i] = EncodeNumStep(q[N + 1 - i], f[i - 1])
  BY <1>1, <1>2, EncodedNumWalk
<1> HIDE DEF B, N
<1> DEFINE P == {i \in 0 .. N : f[i] = Cardinality(B(N - i))}
<1>4. 0 \in P
  BY <1>1, <1>3
<1>5. ASSUME NEW i \in 1 .. N, i - 1 \in P PROVE i \in P
  <2> DEFINE k == N + 1 - i
  <2>1. k \in 1 .. N /\ k - 1 = N - i /\ k = N - (i - 1) /\ i \in 0 .. N
    BY <1>1
  <2>2. f[i - 1] = Cardinality(B(k)) /\ f[i] = EncodeNumStep(q[k], f[i - 1])
    BY <1>3, <1>5, <2>1
  <2> HIDE DEF k
  <2>3. f[i] = Cardinality(B(k - 1))
    BY <1>1, <2>1, <2>2, EncodeNumStepExact
  <2> QED BY <2>1, <2>3
<1>6. P \subseteq 0 .. N /\ N \in 0 .. N /\ N - N = 0
  BY <1>1
<1>7. N \in P
  <2> HIDE DEF P
  <2> QED BY <1>1, <1>4, <1>5, <1>6, Induction, Zenon
<1> QED BY <1>1, <1>3, <1>6, <1>7
=============================================================================
