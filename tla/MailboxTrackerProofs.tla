------------------------ MODULE MailboxTrackerProofs ------------------------
(***************************************************************************)
(* Proofs about MailboxTracker, for any number of sessions, messages and   *)
(* queued updates.                                                         *)
(***************************************************************************)
EXTENDS MailboxTracker, FiniteSetTheorems, TLAPS

(* A set of UIDs is finite. *)
LEMMA UIDsFinite ==
    ASSUME NEW S \in SUBSET UID
    PROVE  IsFiniteSet(S) /\ Cardinality(S) \in Nat
<1>1. IsFiniteSet(UID)
  BY FS_Interval, TrackerAssumption DEF UID
<1>2. IsFiniteSet(S)
  BY <1>1, FS_Subset
<1> QED
  BY <1>2, FS_CardinalityType

(* A rank lies between 1 and the size of the set. *)
LEMMA RankRange ==
    ASSUME NEW S \in SUBSET UID, NEW u \in S
    PROVE  SeqNumOf(S, u) \in 1 .. Cardinality(S)
<1> DEFINE T == {v \in S : v <= u}
<1>1. IsFiniteSet(S) /\ Cardinality(S) \in Nat
  BY UIDsFinite
<1>2. T \in SUBSET S /\ u \in T
  BY TrackerAssumption DEF UID
<1>3. IsFiniteSet(T) /\ Cardinality(T) <= Cardinality(S)
  BY <1>1, <1>2, FS_Subset
<1>4. Cardinality(T) \in Nat /\ Cardinality(T) # 0
  BY <1>2, <1>3, FS_CardinalityType, FS_EmptySet
<1> QED
  BY <1>1, <1>3, <1>4 DEF SeqNumOf

(* Two messages of a mailbox have different sequence numbers. *)
LEMMA RankInjective ==
    ASSUME NEW S \in SUBSET UID, NEW u \in S, NEW v \in S,
           SeqNumOf(S, u) = SeqNumOf(S, v)
    PROVE  u = v
<1>1. ASSUME NEW a \in S, NEW b \in S, a < b,
             SeqNumOf(S, a) = SeqNumOf(S, b)
      PROVE  FALSE
  <2> DEFINE A == {w \in S : w <= a}
             B == {w \in S : w <= b}
  <2>1. a \in Int /\ b \in Int /\ \A w \in S : w \in Int
    BY TrackerAssumption DEF UID
  <2>2. A \in SUBSET B /\ B \in SUBSET UID /\ b \in B /\ b \notin A
    <3>1. \A w \in S : w <= a => w <= b
      BY <1>1, <2>1
    <3>2. b <= b /\ ~(b <= a)
      BY <1>1, <2>1
    <3> QED
      BY <3>1, <3>2
  <2>3. IsFiniteSet(B)
    BY <2>2, UIDsFinite
  <2>4. Cardinality(A) = Cardinality(B)
    BY <1>1 DEF SeqNumOf
  <2>5. A = B
    BY <2>2, <2>3, <2>4, FS_Subset
  <2> QED
    BY <2>2, <2>5
<1>2. u \in Int /\ v \in Int
  BY TrackerAssumption DEF UID
<1> QED
  BY <1>1, <1>2

(* Every sequence number up to the size of the mailbox names a message. *)
LEMMA RankOnto ==
    ASSUME NEW S \in SUBSET UID, NEW n \in 1 .. Cardinality(S)
    PROVE  /\ MessageAt(S, n) \in S
           /\ SeqNumOf(S, MessageAt(S, n)) = n
<1> DEFINE c == Cardinality(S)
           f == [u \in S |-> SeqNumOf(S, u)]
<1>1. IsFiniteSet(S) /\ c \in Nat
  BY UIDsFinite
<1>2. IsFiniteSet(1 .. c) /\ Cardinality(1 .. c) = c
  BY <1>1, FS_Interval
<1>3. f \in Injection(S, 1 .. c)
  BY RankRange, RankInjective DEF Injection, IsInjective
<1>4. f \in Surjection(S, 1 .. c)
  BY <1>2, <1>3, FS_Injection
<1>5. PICK u \in S : f[u] = n
  BY <1>4, Zenon DEF Surjection
<1>6. \E v \in S : SeqNumOf(S, v) = n
  BY <1>5
<1> QED
  BY <1>6 DEF MessageAt

(* A message is found again under its own sequence number. *)
LEMMA MessageAtRank ==
    ASSUME NEW S \in SUBSET UID, NEW u \in S
    PROVE  MessageAt(S, SeqNumOf(S, u)) = u
<1> DEFINE n == SeqNumOf(S, u)
<1>1. n \in 1 .. Cardinality(S)
  BY RankRange
<1>2. MessageAt(S, n) \in S /\ SeqNumOf(S, MessageAt(S, n)) = n
  BY <1>1, RankOnto
<1> QED
  BY <1>2, RankInjective

(* A sequence number takes out the message that has it, and no other. *)
LEMMA RemoveRanked ==
    ASSUME NEW S \in SUBSET UID, NEW u \in S
    PROVE  {w \in S : SeqNumOf(S, w) # SeqNumOf(S, u)} = S \ {u}
<1>1. \A w \in S : SeqNumOf(S, w) = SeqNumOf(S, u) => w = u
  BY RankInjective
<1> QED
  BY Zenon, <1>1

-----------------------------------------------------------------------------
(***************************************************************************)
(* Chains of updates.                                                      *)
(***************************************************************************)
LEMMA LenZero ==
    ASSUME NEW q \in Seq(Update)
    PROVE  Len(q) \in Nat /\ (q = <<>> <=> Len(q) = 0)
OBVIOUS

LEMMA ChainEmpty ==
    ASSUME NEW a
    PROVE  Chained(<<>>, a, a)
BY DEF Chained

(* Appending the next update extends a chain. *)
LEMMA ChainAppend ==
    ASSUME NEW q \in Seq(Update), NEW a, NEW b, NEW u \in Update,
           Chained(q, a, b), u.pre = b
    PROVE  Chained(Append(q, u), a, u.post)
<1> DEFINE r == Append(q, u)
<1>1. /\ r \in Seq(Update) /\ Len(r) = Len(q) + 1
      /\ \A i \in 1 .. Len(q) : r[i] = q[i]
      /\ r[Len(q) + 1] = u
  OBVIOUS
<1>2. Len(q) \in Nat
  OBVIOUS
<1> HIDE DEF r
<1>3. r[1].pre = a
  <2>1. CASE Len(q) = 0
    BY <2>1, <1>1 DEF Chained
  <2>2. CASE Len(q) # 0
    BY <2>2, <1>1, <1>2 DEF Chained
  <2> QED
    BY <2>1, <2>2
<1>4. ASSUME NEW i \in 1 .. Len(r) - 1
      PROVE  r[i].post = r[i + 1].pre
  <2>1. CASE i = Len(q)
    BY <2>1, <1>1, <1>2 DEF Chained
  <2>2. CASE i # Len(q)
    BY <2>2, <1>1, <1>2 DEF Chained
  <2> QED
    BY <2>1, <2>2
<1>5. Chained(r, a, u.post)
  BY <1>1, <1>2, <1>3, <1>4 DEF Chained
<1> QED
  BY <1>5 DEF r

(* Taking the first k updates splits a chain where the rest begins. *)
LEMMA ChainSplit ==
    ASSUME NEW q \in Seq(Update), NEW a, NEW b, NEW k \in 0 .. Len(q),
           Chained(q, a, b)
    PROVE  /\ Chained(SubSeq(q, 1, k), a, Between(q, b, k))
           /\ Chained(SubSeq(q, k + 1, Len(q)), Between(q, b, k), b)
<1> DEFINE front == SubSeq(q, 1, k)
           rest == SubSeq(q, k + 1, Len(q))
           mid == Between(q, b, k)
<1>1. Len(q) \in Nat /\ k \in Nat /\ \A i \in 1 .. Len(q) : q[i] \in Update
  OBVIOUS
<1>2. Len(front) = k /\ \A i \in 1 .. k : front[i] = q[i]
  BY <1>1
<1>3. Len(rest) = Len(q) - k /\ \A i \in 1 .. (Len(q) - k) : rest[i] = q[k + i]
  BY <1>1
<1>4. mid = IF k = Len(q) THEN b ELSE q[k + 1].pre
  BY DEF Between
<1> HIDE DEF front, rest, mid
<1>5. Chained(front, a, mid)
  BY <1>1, <1>2, <1>4 DEF Chained
<1>6. Chained(rest, mid, b)
  <2>1. CASE k = Len(q)
    BY <2>1, <1>1, <1>3, <1>4 DEF Chained
  <2>2. CASE k < Len(q)
    <3>1. Len(rest) # 0 /\ rest[1].pre = mid
      BY <2>2, <1>1, <1>3, <1>4
    <3>2. rest[Len(rest)].post = b
      <4>1. Len(rest) \in 1 .. (Len(q) - k) /\ k + Len(rest) = Len(q)
        BY <2>2, <1>1, <1>3
      <4>2. rest[Len(rest)] = q[Len(q)]
        BY <4>1, <1>3
      <4>3. q[Len(q)].post = b
        BY <2>2, <1>1 DEF Chained
      <4> QED
        BY <4>2, <4>3
    <3>3. \A i \in 1 .. Len(rest) - 1 : rest[i].post = rest[i + 1].pre
      BY <2>2, <1>1, <1>3 DEF Chained
    <3> QED
      BY <3>1, <3>2, <3>3 DEF Chained
  <2> QED
    BY <1>1, <2>1, <2>2
<1> QED
  BY <1>5, <1>6 DEF front, rest, mid

(* What a queue is after an update is appended. *)
LEMMA Appended ==
    ASSUME NEW q \in Seq(Update), NEW u \in Update
    PROVE  /\ Append(q, u) \in Seq(Update)
           /\ Len(Append(q, u)) # 0
           /\ Append(q, u)[1] = IF Len(q) = 0 THEN u ELSE q[1]
           /\ (/\ WellFormed(u)
               /\ \A i \in 1 .. Len(q) : WellFormed(q[i]))
              => \A i \in 1 .. Len(Append(q, u)) : WellFormed(Append(q, u)[i])
<1> DEFINE r == Append(q, u)
<1>1. /\ r \in Seq(Update) /\ Len(r) = Len(q) + 1
      /\ \A i \in 1 .. Len(q) : r[i] = q[i]
      /\ r[Len(q) + 1] = u
  OBVIOUS
<1>2. Len(q) \in Nat
  OBVIOUS
<1> HIDE DEF r
<1>3. Len(r) # 0 /\ r[1] = IF Len(q) = 0 THEN u ELSE q[1]
  BY <1>1, <1>2
<1>4. ASSUME WellFormed(u), \A i \in 1 .. Len(q) : WellFormed(q[i]),
             NEW i \in 1 .. Len(r)
      PROVE  WellFormed(r[i])
  <2>1. i \in 1 .. Len(q) \/ i = Len(q) + 1
    BY <1>1, <1>2
  <2> QED
    BY <2>1, <1>1, <1>4, Zenon
<1> QED
  BY <1>1, <1>3, <1>4 DEF r

(* What the two parts of a queue are. *)
LEMMA Parts ==
    ASSUME NEW q \in Seq(Update), NEW k \in 0 .. Len(q)
    PROVE  LET front == SubSeq(q, 1, k)
               rest  == SubSeq(q, k + 1, Len(q)) IN
           /\ front \in Seq(Update) /\ rest \in Seq(Update)
           /\ \A b : (IF Len(rest) = 0 THEN b ELSE rest[1].pre) = Between(q, b, k)
           /\ (\A i \in 1 .. Len(q) : WellFormed(q[i]))
              => /\ \A i \in 1 .. Len(front) : WellFormed(front[i])
                 /\ \A i \in 1 .. Len(rest) : WellFormed(rest[i])
<1> DEFINE front == SubSeq(q, 1, k)
           rest == SubSeq(q, k + 1, Len(q))
<1>1. Len(q) \in Nat /\ k \in Nat /\ k <= Len(q)
      /\ \A i \in 1 .. Len(q) : q[i] \in Update
  OBVIOUS
<1>2. /\ front \in Seq(Update) /\ Len(front) = k
      /\ \A i \in 1 .. k : front[i] = q[i]
  BY <1>1
<1>3. /\ rest \in Seq(Update) /\ Len(rest) = Len(q) - k
      /\ \A i \in 1 .. (Len(q) - k) : rest[i] = q[k + i]
  BY <1>1
<1> HIDE DEF front, rest
<1>4. ASSUME NEW b
      PROVE  (IF Len(rest) = 0 THEN b ELSE rest[1].pre) = Between(q, b, k)
  <2>1. CASE k = Len(q)
    BY <2>1, <1>1, <1>3 DEF Between
  <2>2. CASE k # Len(q)
    <3>1. Len(rest) # 0 /\ 1 \in 1 .. (Len(q) - k)
      BY <2>2, <1>1, <1>3
    <3>2. rest[1] = q[k + 1]
      BY <3>1, <1>3
    <3> QED
      BY <2>2, <3>1, <3>2 DEF Between
  <2> QED
    BY <2>1, <2>2
<1>5. ASSUME \A i \in 1 .. Len(q) : WellFormed(q[i]), NEW i \in 1 .. Len(front)
      PROVE  WellFormed(front[i])
  <2>1. i \in 1 .. k /\ i \in 1 .. Len(q)
    BY <1>1, <1>2
  <2> QED
    BY <2>1, <1>2, <1>5
<1>6. ASSUME \A i \in 1 .. Len(q) : WellFormed(q[i]), NEW i \in 1 .. Len(rest)
      PROVE  WellFormed(rest[i])
  <2>1. i \in 1 .. (Len(q) - k) /\ k + i \in 1 .. Len(q)
    BY <1>1, <1>3
  <2> QED
    BY <2>1, <1>3, <1>6
<1> QED
  BY <1>2, <1>3, <1>4, <1>5, <1>6 DEF front, rest

(* Writing the head of a chain leaves a chain from where it led. *)
LEMMA ChainTail ==
    ASSUME NEW q \in Seq(Update), NEW a, NEW b, q # <<>>, Chained(q, a, b)
    PROVE  /\ Head(q) \in Update /\ Head(q) = q[1]
           /\ Head(q).pre = a
           /\ Tail(q) \in Seq(Update) /\ Len(Tail(q)) = Len(q) - 1
           /\ \A i \in 1 .. Len(Tail(q)) : Tail(q)[i] = q[i + 1]
           /\ Chained(Tail(q), Head(q).post, b)
<1> DEFINE r == Tail(q)
<1>1. /\ r \in Seq(Update) /\ Len(r) = Len(q) - 1
      /\ Head(q) \in Update
      /\ \A i \in 1 .. Len(r) : r[i] = q[i + 1]
  OBVIOUS
<1>2. Len(q) \in Nat \ {0}
  OBVIOUS
<1>3. Head(q) = q[1]
  OBVIOUS
<1> HIDE DEF r
<1>4. Chained(r, q[1].post, b)
  BY <1>1, <1>2 DEF Chained
<1>5. q[1].pre = a
  BY <1>2 DEF Chained
<1> QED
  BY <1>1, <1>3, <1>4, <1>5 DEF r

LEMMA ChainHead ==
    ASSUME NEW q, NEW a, NEW b, q \in Seq(Update), q # <<>>, Chained(q, a, b)
    PROVE  Head(q).pre = a /\ Chained(Tail(q), Head(q).post, b)
BY ChainTail, Zenon

-----------------------------------------------------------------------------
(***************************************************************************)
(* What the four Queue operations put into the fan-out.                    *)
(***************************************************************************)
LEMMA ExpungeUpdate ==
    ASSUME TypeOK, MailboxInv, NEW n \in 1 .. numMessages,
           NEW known \in BOOLEAN
    PROVE  /\ Expunge(n, known) \in Update
           /\ WellFormed(Expunge(n, known))
           /\ Expunge(n, known).pre = content
           /\ Cardinality(Expunge(n, known).post) = numMessages - 1
           /\ Expunge(n, known).post \subseteq content
<1> DEFINE m == MessageAt(content, n)
<1>1. content \in SUBSET UID /\ n \in 1 .. Cardinality(content)
  BY DEF TypeOK, MailboxType, SessionType, DeliveryType, MailboxInv
<1>2. m \in content /\ SeqNumOf(content, m) = n
  BY <1>1, RankOnto
<1>3. IsFiniteSet(content)
  BY <1>1, UIDsFinite
<1>4. Cardinality(content \ {m}) = Cardinality(content) - 1
  BY <1>2, <1>3, FS_RemoveElement, Zenon
<1>5. m \in Nat /\ n \in Nat
  <2>1. m \in UID /\ numMessages \in Nat /\ MaxUID \in Nat
    BY <1>1, <1>2, TrackerAssumption DEF TypeOK, MailboxType, SessionType, DeliveryType
  <2> HIDE DEF m
  <2> QED
    BY <2>1 DEF UID
<1> HIDE DEF m
<1>6. Expunge(n, known) = [kind |-> "expunge", n |-> n, prev |-> 0, uid |-> m,
                           known |-> known, pre |-> content,
                           post |-> content \ {m}]
  BY Zenon DEF Expunge, m
<1> QED
  BY <1>1, <1>2, <1>4, <1>5, <1>6 DEF Update, Kind, WellFormed, MailboxInv

LEMMA NumMessagesUpdate ==
    ASSUME TypeOK, MailboxInv, NEW n \in Nat, n >= numMessages,
           nextUID + (n - numMessages) <= MaxUID + 1
    PROVE  /\ NumMessages(n) \in Update
           /\ WellFormed(NumMessages(n))
           /\ NumMessages(n).pre = content
           /\ Cardinality(NumMessages(n).post) = n
           /\ \A u \in NumMessages(n).post : u < nextUID + (n - numMessages)
<1> DEFINE last == nextUID + (n - numMessages) - 1
           new  == nextUID .. last
<1>1. nextUID \in 1 .. MaxUID + 1 /\ numMessages \in Nat /\ MaxUID \in Nat
  BY TrackerAssumption DEF TypeOK, MailboxType, SessionType, DeliveryType
<1>2. content \in SUBSET UID /\ new \in SUBSET UID
  BY <1>1 DEF TypeOK, MailboxType, SessionType, DeliveryType, UID
<1>3. IsFiniteSet(content) /\ IsFiniteSet(new)
  BY <1>2, UIDsFinite, Zenon
<1>4. Cardinality(new) = n - numMessages
  BY <1>1, FS_Interval
<1>5. content \cap new = {}
  BY <1>1, <1>2 DEF MailboxInv, UID
<1>6. Cardinality(content \cup new) = n
  <2>1. Cardinality(content \cup new)
          = Cardinality(content) + Cardinality(new) - Cardinality(content \cap new)
    BY <1>3, FS_Union, Zenon
  <2>2. Cardinality(content \cap new) = 0
    BY <1>5, FS_EmptySet
  <2>3. Cardinality(content) = numMessages
    BY DEF MailboxInv
  <2> HIDE DEF new
  <2> QED
    BY <2>1, <2>2, <2>3, <1>1, <1>4
<1>7. \A u \in content \cup new : u < nextUID + (n - numMessages)
  BY <1>1, <1>2 DEF MailboxInv, UID
<1> HIDE DEF new
<1>8. NumMessages(n) = [kind |-> "exists", n |-> n, prev |-> numMessages,
                        uid |-> 0, known |-> FALSE, pre |-> content,
                        post |-> content \cup new]
  BY Zenon DEF NumMessages, new
<1> QED
  BY <1>1, <1>2, <1>6, <1>7, <1>8 DEF Update, Kind, WellFormed, MailboxInv

LEMMA FlagsUpdates ==
    ASSUME TypeOK, MailboxInv
    PROVE  /\ MailboxFlags \in Update
           /\ WellFormed(MailboxFlags)
           /\ MailboxFlags.pre = content /\ MailboxFlags.post = content
           /\ \A n \in 1 .. numMessages :
                /\ MessageFlags(n) \in Update
                /\ WellFormed(MessageFlags(n))
                /\ MessageFlags(n).kind = "fetch"
                /\ MessageFlags(n).pre = content
                /\ MessageFlags(n).post = content
<1>1. content \in SUBSET UID
  BY DEF TypeOK, MailboxType, SessionType, DeliveryType
<1>2. MailboxFlags \in Update /\ WellFormed(MailboxFlags)
  BY <1>1, Zenon DEF Update, Kind, WellFormed, MailboxFlags
<1>3. ASSUME NEW n \in 1 .. numMessages
      PROVE  MessageFlags(n) \in Update /\ WellFormed(MessageFlags(n))
  <2> DEFINE m == MessageAt(content, n)
  <2>1. n \in 1 .. Cardinality(content) /\ n \in Nat
    BY DEF MailboxInv, TypeOK, MailboxType, SessionType, DeliveryType
  <2>2. m \in content /\ SeqNumOf(content, m) = n
    BY <1>1, <2>1, RankOnto, Zenon
  <2> HIDE DEF m
  <2>3. m \in Nat
    BY <1>1, <2>2, TrackerAssumption DEF UID
  <2>4. MessageFlags(n) = [kind |-> "fetch", n |-> n, prev |-> 0, uid |-> m,
                           known |-> FALSE, pre |-> content, post |-> content]
    BY DEF MessageFlags, m
  <2> QED
    BY <1>1, <2>1, <2>2, <2>3, <2>4 DEF Update, Kind, WellFormed
<1> QED
  BY <1>2, <1>3 DEF MailboxFlags, MessageFlags

-----------------------------------------------------------------------------
(***************************************************************************)
(* Each step preserves TrackerInv.                                         *)
(***************************************************************************)
LEMMA InitInv == Init => TrackerInv
<1> SUFFICES ASSUME Init PROVE TrackerInv
  OBVIOUS
<1>1. TypeOK
  <2>1. NoUpdate \in Update
    BY DEF Update, Kind, NoUpdate
  <2>2. <<>> \in Seq(Update)
    OBVIOUS
  <2>3. MaxUID \in Nat /\ ChanCap \in Nat
    BY TrackerAssumption
  <2>4. MailboxType
    <3>1. nextUID \in 1 .. MaxUID + 1 /\ numMessages \in Nat
      BY <2>3 DEF Init
    <3> QED
      BY <3>1, <2>1, Zenon DEF Init, MailboxType
  <2>5. SessionType
    BY <2>2, <2>3 DEF Init, SessionType, NoChan
  <2>6. DeliveryType
    BY <2>2 DEF Init, DeliveryType
  <2> QED
    BY <2>4, <2>5, <2>6 DEF TypeOK
<1>2. MailboxInv
  BY FS_EmptySet DEF Init, MailboxInv
<1>3. FanOutInv
  BY DEF Init, FanOutInv
<1>4. ASSUME NEW s \in Session PROVE SessionInv(s)
  BY FS_EmptySet DEF Init, SessionInv, FreshInv
<1>5. ASSUME NEW s \in Session PROVE ChainInv(s)
  BY FS_EmptySet, ChainEmpty, Zenon DEF Init, ChainInv, QueueStart
<1> QED
  BY <1>1, <1>2, <1>3, <1>4, <1>5, Zenon DEF TrackerInv, UnbrokenChain

LEMMA SessionKept ==
    ASSUME NEW s \in Session, SessionInv(s), ~broken[s] => ChainInv(s),
           UNCHANGED <<sessNum[s], queue[s], seen[s], deliver[s], batch[s],
                       vanished[s], exists[s], broken[s], view[s]>>,
           FreshInv(s)'
    PROVE  SessionInv(s)' /\ (~broken[s] => ChainInv(s))'
BY DEF SessionInv, ChainInv, QueueStart

(* A step that leaves a session alone keeps what is known about it. *)
LEMMA SessionUntouched ==
    ASSUME NEW s \in Session, SessionInv(s), ~broken[s] => ChainInv(s),
           UNCHANGED <<life[s], sessNum[s], queue[s], seen[s], deliver[s],
                       batch[s], vanished[s], exists[s], broken[s], view[s]>>,
           life[s] = "new" => s \notin sessions'
    PROVE  SessionInv(s)' /\ (~broken[s] => ChainInv(s))'
BY Zenon DEF SessionInv, FreshInv, ChainInv, QueueStart

(* A step that leaves the update being fanned out alone. *)
LEMMA FanOutKept ==
    ASSUME FanOutInv, UNCHANGED <<mutex, update, source, pending, content>>,
           pending \subseteq sessions',
           \A s \in sessions' : \/ s \in sessions /\ seen'[s] = seen[s]
                                \/ s \notin pending /\ seen'[s] = content
    PROVE  FanOutInv'
<1>1. mutex' => WellFormed(update)' /\ update'.post = content'
  BY DEF FanOutInv
<1> QED
  BY <1>1 DEF FanOutInv

LEMMA BeginFanOutInv ==
    ASSUME TrackerInv, NEW u \in Update, NEW src \in sessions \cup {NoSession},
           BeginFanOut(u, src), WellFormed(u), u.pre = content,
           src # NoSession => u.kind = "fetch",
           numMessages' = Cardinality(u.post),
           nextUID' \in 1 .. MaxUID + 1,
           \A x \in u.post : x < nextUID'
    PROVE  TrackerInv'
<1> USE DEF BeginFanOut, sessVars, idleVars, deliverVars, clientVars
<1>1. TypeOK'
  <2>1. u.post \in SUBSET UID
    BY DEF Update
  <2>2. Cardinality(u.post) \in Nat
    BY <2>1, UIDsFinite
  <2> QED
    BY <2>1, <2>2, Zenon DEF TrackerInv, TypeOK, MailboxType, SessionType, DeliveryType
<1>2. MailboxInv'
  BY Zenon DEF MailboxInv
<1>3. FanOutInv'
  <2>1. \A s \in sessions : seen[s] = content
    BY Zenon DEF TrackerInv, FanOutInv
  <2> QED
    BY <2>1 DEF TrackerInv, FanOutInv, WellFormed, SeqNumOf
<1>4. ASSUME NEW s \in Session
      PROVE  SessionInv(s)' /\ (~broken[s] => ChainInv(s))'
  BY SessionUntouched DEF TrackerInv, UnbrokenChain, SessionInv, FreshInv
<1> QED
  BY <1>1, <1>2, <1>3, <1>4, Zenon DEF TrackerInv, UnbrokenChain

LEMMA NewSessionInv ==
    ASSUME TrackerInv, NEW s \in Session, NewSession(s)
    PROVE  TrackerInv'
<1> USE DEF NewSession, fanVars, idleVars, deliverVars
<1>1. TypeOK'
  BY SMTT(30) DEF TrackerInv, TypeOK, MailboxType, SessionType, DeliveryType
<1>2. MailboxInv'
  BY Zenon DEF TrackerInv, MailboxInv
<1>3. FanOutInv'
  <2>1. FanOutInv /\ s \notin sessions /\ s \notin pending /\ pending \subseteq sessions
    BY DEF TrackerInv, FanOutInv, SessionInv, FreshInv
  <2>2. seen \in [Session -> SUBSET UID] /\ sessions \subseteq Session
    BY DEF TrackerInv, TypeOK, MailboxType, SessionType
  <2>3. UNCHANGED <<mutex, update, source, pending, content>> /\ pending \subseteq sessions'
    BY <2>1, Zenon
  <2>4. \A r \in sessions' : \/ r \in sessions /\ seen'[r] = seen[r]
                             \/ r \notin pending /\ seen'[r] = content
    BY <2>1, <2>2
  <2> QED
    BY Zenon, <2>1, <2>3, <2>4, FanOutKept
<1>4. SessionInv(s)'
  <2>1. life'[s] = "open" /\ sessNum'[s] = numMessages /\ seen'[s] = content
    BY DEF TrackerInv, TypeOK, SessionType
  <2>2. SessionInv(s) /\ numMessages = Cardinality(content)
    BY DEF TrackerInv, MailboxInv
  <2>3. UNCHANGED <<queue, batch, deliver, vanished>>
    BY Zenon
  <2> HIDE DEF NewSession
  <2> QED
    BY <2>1, <2>2, <2>3, Zenon DEF SessionInv, FreshInv
<1>5. ChainInv(s)'
  <2>1. queue'[s] = <<>> /\ batch'[s] = <<>> /\ vanished'[s] = {}
    BY Zenon DEF TrackerInv, TypeOK, MailboxType, SessionType, DeliveryType, SessionInv, FreshInv
  <2>2. seen'[s] = content /\ view'[s] = content /\ exists'[s] = Cardinality(content)
    BY Zenon DEF TrackerInv, TypeOK, MailboxType, SessionType, DeliveryType, MailboxInv
  <2>3. QueueStart(s)' = content
    BY <2>1, <2>2, Zenon DEF QueueStart
  <2> QED
    BY <2>1, <2>2, <2>3, ChainEmpty, Zenon DEF ChainInv
<1>6. ASSUME NEW r \in Session, r # s
      PROVE  SessionInv(r)' /\ (~broken[r] => ChainInv(r))'
  <2>1. SessionInv(r) /\ (~broken[r] => ChainInv(r))
    BY DEF TrackerInv, UnbrokenChain
  <2>2. UNCHANGED <<life[r], sessNum[r], queue[r], seen[r], deliver[r],
                    batch[r], vanished[r], exists[r], broken[r], view[r]>>
    BY <1>6, Zenon DEF TrackerInv, TypeOK, SessionType, DeliveryType
  <2>3. life[r] = "new" => r \notin sessions'
    BY <1>6, <2>1, Zenon DEF SessionInv, FreshInv
  <2> QED
    BY <2>1, <2>2, <2>3, SessionUntouched, Zenon
<1> QED
  BY <1>1, <1>2, <1>3, <1>4, <1>5, <1>6, Zenon DEF TrackerInv, UnbrokenChain

LEMMA EnqueueUpdateInv ==
    ASSUME TrackerInv, NEW s \in Session, EnqueueUpdate(s)
    PROVE  TrackerInv'
<1> USE DEF EnqueueUpdate, mboxVars, idleVars, deliverVars, clientVars
<1>1. update \in Update /\ update.pre \in SUBSET UID /\ update.post \in SUBSET UID
  BY Zenon DEF TrackerInv, TypeOK, MailboxType, SessionType, DeliveryType, Update
<1>2. s \in sessions /\ s \in pending
  BY DEF TrackerInv, FanOutInv
<1>3. WellFormed(update) /\ update.post = content /\ seen[s] = update.pre
  BY <1>2, Zenon DEF TrackerInv, FanOutInv
<1>4. s = source => update.post = update.pre
  BY <1>3, TrackerAssumption, Zenon DEF TrackerInv, FanOutInv, WellFormed
<1>5. queue[s] \in Seq(Update) /\ batch[s] \in Seq(Update)
  BY Zenon DEF TrackerInv, TypeOK, MailboxType, SessionType, DeliveryType
<1>6. Append(queue[s], update) \in Seq(Update)
  BY Zenon, <1>1, <1>5, Appended
<1>7. queue'[s] = IF s = source THEN queue[s] ELSE Append(queue[s], update)
  BY Zenon DEF TrackerInv, TypeOK, MailboxType, SessionType, DeliveryType
<1>8. seen'[s] = update.post /\ sessNum'[s] = Cardinality(update.post)
  BY <1>3, Zenon DEF MailboxInv, TrackerInv, TypeOK, MailboxType, SessionType, DeliveryType
<1>9. TypeOK'
  <2>2. queue' \in [Session -> Seq(Update)]
    BY <1>6, Zenon DEF TrackerInv, TypeOK, MailboxType, SessionType, DeliveryType
  <2> QED
    BY <1>1, <2>2, Zenon DEF TrackerInv, TypeOK, MailboxType, SessionType, DeliveryType
<1>10. MailboxInv'
  BY DEF TrackerInv, MailboxInv
<1>11. FanOutInv'
  BY <1>3, Zenon DEF TrackerInv, TypeOK, MailboxType, SessionType, DeliveryType, FanOutInv, WellFormed, SeqNumOf
<1>12. SessionInv(s)'
  <2>1. \A i \in 1 .. Len(queue'[s]) : WellFormed(queue'[s][i])
    <3>1. \A i \in 1 .. Len(queue[s]) : WellFormed(queue[s][i])
      BY Zenon DEF TrackerInv, SessionInv
    <3> HIDE DEF EnqueueUpdate
    <3>2. \A i \in 1 .. Len(Append(queue[s], update)) :
            WellFormed(Append(queue[s], update)[i])
      BY Zenon, <3>1, <1>1, <1>3, <1>5, Appended
    <3> QED
      BY Zenon, <3>1, <3>2, <1>7
  <2>2. FreshInv(s)'
    BY <1>2, Zenon DEF TrackerInv, SessionInv, FreshInv
  <2>3. sessNum'[s] = Cardinality(seen'[s])
    BY <1>8, Zenon
  <2>4. /\ deliver'[s] = "free" => batch'[s] = <<>> /\ vanished'[s] = {}
        /\ \A i \in 1 .. Len(batch'[s]) : WellFormed(batch'[s][i])
    BY Zenon DEF TrackerInv, SessionInv
  <2> QED
    BY <2>1, <2>2, <2>3, <2>4, Zenon DEF SessionInv, WellFormed, SeqNumOf
<1>13. ASSUME ~broken'[s] PROVE ChainInv(s)'
  <2>1. ChainInv(s)
    BY <1>13, Zenon DEF TrackerInv, UnbrokenChain
  <2>2. CASE s = source
    BY <2>1, <2>2, <1>3, <1>4, <1>7, <1>8 DEF ChainInv, QueueStart
  <2>3. CASE s # source
    <3>1. Chained(queue[s], QueueStart(s), update.pre)
      BY <2>1, <1>3, Zenon DEF ChainInv
    <3>2. Chained(queue'[s], QueueStart(s), seen'[s])
      BY <2>3, <3>1, <1>1, <1>5, <1>7, <1>8, ChainAppend, Zenon
    <3>3. QueueStart(s)' = QueueStart(s)
      <4> HIDE DEF EnqueueUpdate
      <4> DEFINE q == Append(queue[s], update)
      <4>1. Len(q) # 0 /\ q[1] = IF Len(queue[s]) = 0 THEN update ELSE queue[s][1]
        BY Zenon, <1>1, <1>5, Appended
      <4>2. queue'[s] = q
        BY <2>3, <1>7
      <4> HIDE DEF q
      <4> QED
        BY <4>1, <4>2, <1>3, Zenon DEF QueueStart
    <3> QED
      BY <2>1, <3>2, <3>3, Zenon DEF ChainInv
  <2> QED
    BY <2>2, <2>3, Zenon
<1>14. ASSUME NEW r \in Session, r # s
      PROVE  SessionInv(r)' /\ (~broken[r] => ChainInv(r))'
  BY ZenonT(30), <1>14, SessionUntouched DEF TrackerInv, UnbrokenChain, TypeOK, MailboxType, SessionType, DeliveryType, SessionInv, FreshInv
<1> QED
  BY <1>9, <1>10, <1>11, <1>12, <1>13, <1>14, Zenon DEF TrackerInv, UnbrokenChain

(* Steps that move neither updates nor what the client knows. *)
LEMMA SignalInv ==
    ASSUME TrackerInv, NEW s \in Session, SendSignal(s)
    PROVE  TrackerInv'
<1> USE DEF SendSignal, mboxVars, sessVars, deliverVars, clientVars
<1>1. TypeOK'
  <2>1. updates' \in [Session -> {NoChan} \cup 0 .. ChanCap]
    BY TrackerAssumption DEF TrackerInv, TypeOK, SessionType, NoChan
  <2> QED
    BY <2>1, Zenon DEF TrackerInv, TypeOK, MailboxType, SessionType, DeliveryType
<1>2. MailboxInv' /\ FanOutInv'
  BY Zenon DEF TrackerInv, MailboxInv, FanOutInv, WellFormed, SeqNumOf
<1>3. ASSUME NEW r \in Session
      PROVE  SessionInv(r)' /\ (~broken[r] => ChainInv(r))'
  BY SessionUntouched, Zenon DEF TrackerInv, UnbrokenChain, SessionInv, FreshInv
<1> QED
  BY <1>1, <1>2, <1>3, Zenon DEF TrackerInv, UnbrokenChain

LEMMA EndFanOutInv ==
    ASSUME TrackerInv, EndFanOut
    PROVE  TrackerInv'
<1> USE DEF EndFanOut, mboxVars, sessVars, idleVars, deliverVars, clientVars
<1>1. TypeOK'
  <2>1. NoUpdate \in Update
    BY Zenon DEF Update, Kind, NoUpdate
  <2> QED
    BY <2>1, Zenon DEF TrackerInv, TypeOK, MailboxType, SessionType, DeliveryType
<1>2. MailboxInv' /\ FanOutInv'
  BY Zenon DEF TrackerInv, MailboxInv, FanOutInv, WellFormed, SeqNumOf
<1>3. ASSUME NEW r \in Session
      PROVE  SessionInv(r)' /\ (~broken[r] => ChainInv(r))'
  BY SessionUntouched DEF TrackerInv, UnbrokenChain, SessionInv, FreshInv
<1> QED
  BY <1>1, <1>2, <1>3, Zenon DEF TrackerInv, UnbrokenChain

LEMMA CloseInv ==
    ASSUME TrackerInv, NEW s \in Session, CloseClear(s) \/ CloseDelete(s)
    PROVE  TrackerInv'
<1> USE DEF CloseClear, CloseDelete, mboxVars, fanVars, idleVars, deliverVars,
            clientVars
<1>1. TypeOK'
  BY Zenon DEF TrackerInv, TypeOK, MailboxType, SessionType, DeliveryType
<1>2. MailboxInv'
  BY Zenon DEF TrackerInv, MailboxInv
<1>3. FanOutInv'
  <2>1. FanOutInv
    BY Zenon DEF TrackerInv
  <2>2. /\ UNCHANGED <<mutex, update, source, pending, content, seen>>
        /\ sessions' \subseteq sessions /\ pending \subseteq sessions'
    BY <2>1 DEF FanOutInv
  <2> HIDE DEF CloseClear, CloseDelete
  <2> QED
    BY <2>1, <2>2, FanOutKept
<1>4. life[s] # "new" /\ life'[s] # "new"
  BY Zenon DEF TrackerInv, TypeOK, SessionType
<1>5. ASSUME NEW r \in Session
      PROVE  SessionInv(r)' /\ (~broken[r] => ChainInv(r))'
  <2>1. SessionInv(r) /\ (~broken[r] => ChainInv(r))
    BY DEF TrackerInv, UnbrokenChain
  <2>2. FreshInv(r)'
    <3>1. CASE r = s
      BY <3>1, <1>4, Zenon DEF FreshInv
    <3>2. CASE r # s
      BY <3>2, <2>1, Zenon DEF SessionInv, FreshInv, TrackerInv, TypeOK, SessionType
    <3> QED
      BY <3>1, <3>2, Zenon
  <2>3. UNCHANGED <<sessNum[r], queue[r], seen[r], deliver[r], batch[r],
                    vanished[r], exists[r], broken[r], view[r]>>
    BY Zenon
  <2> QED
    BY <2>1, <2>2, <2>3, SessionKept, Zenon
<1> QED
  BY <1>1, <1>2, <1>3, <1>5 DEF TrackerInv, UnbrokenChain

LEMMA IdleInv ==
    ASSUME TrackerInv, NEW s \in Session,
           IdleRegister(s) \/ IdleWake(s) \/ IdleStop(s)
    PROVE  TrackerInv'
<1> USE DEF IdleRegister, IdleWake, IdleStop, IdleReturns, mboxVars, fanVars,
            sessVars, deliverVars, clientVars
<1>1. TypeOK'
  <2>1. updates' \in [Session -> {NoChan} \cup 0 .. ChanCap]
    <3>1. /\ updates \in [Session -> {NoChan} \cup 0 .. ChanCap]
          /\ ChanCap \in Nat /\ NoChan = -1
      BY TrackerAssumption DEF TrackerInv, TypeOK, SessionType, NoChan
    <3>2. CASE IdleRegister(s)
      <4>1. updates' = [updates EXCEPT ![s] = 0]
        BY <3>2
      <4> HIDE DEF IdleRegister, IdleWake, IdleStop
      <4> QED
        BY <3>1, <4>1
    <3>3. CASE IdleWake(s)
      <4>1. updates[s] > 0 /\ updates' = [updates EXCEPT ![s] = @ - 1]
        BY <3>3, Zenon
      <4> HIDE DEF IdleRegister, IdleWake, IdleStop
      <4>2. updates[s] - 1 \in 0 .. ChanCap
        BY <3>1, <4>1
      <4> QED
        BY <3>1, <4>1, <4>2, Zenon
    <3>4. CASE IdleStop(s)
      BY <3>1, <3>4, Zenon
    <3> QED
      BY <3>2, <3>3, <3>4, Zenon
  <2> QED
    BY ZenonT(30), <2>1 DEF TrackerInv, TypeOK, MailboxType, SessionType, DeliveryType
<1>2. MailboxInv' /\ FanOutInv'
  <2>1. FanOutInv /\ pending \subseteq sessions
    BY Zenon DEF TrackerInv, FanOutInv
  <2>2. UNCHANGED <<mutex, update, source, pending, content, seen, sessions, numMessages, nextUID>>
    BY Zenon
  <2> HIDE DEF IdleRegister, IdleWake, IdleStop
  <2>3. FanOutInv'
    BY <2>1, <2>2, FanOutKept
  <2> QED
    BY <2>2, <2>3, Zenon DEF TrackerInv, MailboxInv
<1>3. ASSUME NEW r \in Session
      PROVE  SessionInv(r)' /\ (~broken[r] => ChainInv(r))'
  BY SessionUntouched, Zenon DEF TrackerInv, UnbrokenChain, SessionInv, FreshInv
<1> QED
  BY <1>1, <1>2, <1>3, Zenon DEF TrackerInv, UnbrokenChain

(***************************************************************************)
(* Steps of a delivery.  Each changes one session only.                    *)
(***************************************************************************)
LEMMA OneSession ==
    ASSUME TrackerInv, NEW s \in Session,
           MailboxType', SessionType', DeliveryType',
           UNCHANGED <<mboxVars, mutex, update, source, pending, life, seen>>,
           \A r \in Session \ {s} :
             UNCHANGED <<sessNum[r], queue[r], deliver[r], batch[r],
                         vanished[r], exists[r], broken[r], view[r]>>,
           SessionInv(s)', ~broken'[s] => ChainInv(s)'
    PROVE  TrackerInv'
<1> USE DEF mboxVars
<1>1. MailboxInv' /\ FanOutInv'
  BY Zenon DEF TrackerInv, MailboxInv, FanOutInv, WellFormed, SeqNumOf
<1>2. ASSUME NEW r \in Session \ {s}
      PROVE  SessionInv(r)' /\ (~broken[r] => ChainInv(r))'
  <2>1. SessionInv(r) /\ (~broken[r] => ChainInv(r)) /\ FreshInv(r)
    BY Zenon DEF TrackerInv, UnbrokenChain, SessionInv
  <2>2. FreshInv(r)'
    BY <2>1, <1>2, Zenon DEF FreshInv
  <2> QED
    BY <2>1, <2>2, <1>2, SessionKept, Zenon
<1> QED
  BY <1>1, <1>2, Zenon DEF TrackerInv, TypeOK, UnbrokenChain

LEMMA DequeueInv ==
    ASSUME TrackerInv, NEW s \in Session, life[s] # "new",
           NEW allowExpunge \in BOOLEAN, NEW who \in {"poll", "idle"},
           Dequeue(s, allowExpunge, who),
           idle' \in [Session -> {"off", "drain", "polling", "select"}]
    PROVE  TrackerInv'
<1> USE DEF Dequeue, mboxVars, fanVars, clientVars
<1>1. PICK k \in 0 .. Len(queue[s]) :
        /\ batch' = [batch EXCEPT ![s] = SubSeq(queue[s], 1, k)]
        /\ queue' = [queue EXCEPT ![s] = SubSeq(queue[s], k + 1, Len(queue[s]))]
  BY Zenon
<1>2. queue[s] \in Seq(Update) /\ Len(queue[s]) \in Nat /\ k \in Nat
  BY DEF TrackerInv, TypeOK, SessionType
<1> DEFINE front == SubSeq(queue[s], 1, k)
           rest  == SubSeq(queue[s], k + 1, Len(queue[s]))
           start == IF Len(rest) = 0 THEN seen[s] ELSE rest[1].pre
<1>3. \A i \in 1 .. Len(queue[s]) : WellFormed(queue[s][i])
  BY Zenon DEF TrackerInv, SessionInv
<1>4. /\ front \in Seq(Update) /\ rest \in Seq(Update)
      /\ start = Between(queue[s], seen[s], k)
  BY Zenon, <1>2, Parts
<1>5. /\ \A i \in 1 .. Len(front) : WellFormed(front[i])
      /\ \A i \in 1 .. Len(rest) : WellFormed(rest[i])
  BY Zenon, <1>2, <1>3, Parts
<1>6. batch'[s] = front /\ queue'[s] = rest
  BY <1>1, Zenon DEF TrackerInv, TypeOK, SessionType, DeliveryType
<1> HIDE DEF front, rest, start
<1>7. MailboxType' /\ SessionType' /\ DeliveryType'
  <2>1. batch' \in [Session -> Seq(Update)] /\ queue' \in [Session -> Seq(Update)]
    BY <1>1, <1>4, Zenon DEF TrackerInv, TypeOK, SessionType, DeliveryType, front, rest
  <2>2. qresync' \in [Session -> BOOLEAN]
    BY TrackerAssumption, Zenon DEF TrackerInv, TypeOK, DeliveryType
  <2>3. deliver' \in [Session -> {"free", "poll", "idle"}]
    BY Zenon DEF TrackerInv, TypeOK, DeliveryType
  <2> QED
    BY <2>1, <2>2, <2>3, Zenon DEF TrackerInv, TypeOK, MailboxType, SessionType, DeliveryType
<1>8. batch[s] = <<>> /\ vanished[s] = {}
  BY Zenon DEF TrackerInv, SessionInv
<1>9. SessionInv(s)'
  <2>3. deliver'[s] # "free" /\ FreshInv(s)'
    BY DEF FreshInv, TrackerInv, TypeOK, DeliveryType
  <2>4. sessNum'[s] = Cardinality(seen'[s])
    BY Zenon DEF TrackerInv, SessionInv
  <2> QED
    BY <1>5, <2>3, <2>4, <1>6, Zenon DEF SessionInv
<1>10. ASSUME ~broken'[s] PROVE ChainInv(s)'
  <2>1. ChainInv(s)
    BY <1>10, Zenon DEF TrackerInv, UnbrokenChain
  <2>2. view[s] \ vanished[s] = QueueStart(s)
    BY <2>1, <1>8, Zenon DEF ChainInv, Chained
  <2>3. Chained(queue[s], QueueStart(s), seen[s])
    BY <2>1, Zenon DEF ChainInv
  <2>4. QueueStart(s)' = start
    BY <1>6, Zenon DEF QueueStart, start
  <2>5. /\ Chained(front, QueueStart(s), QueueStart(s)')
        /\ Chained(rest, QueueStart(s)', seen[s])
    <3>1. QueueStart(s)' = Between(queue[s], seen[s], k)
      <4> HIDE DEF Dequeue
      <4> QED
        BY Zenon, <2>4, <1>4
    <3>2. /\ Chained(front, QueueStart(s), Between(queue[s], seen[s], k))
          /\ Chained(rest, Between(queue[s], seen[s], k), seen[s])
      BY <1>2, <2>3, ChainSplit, Zenon DEF front, rest
    <3> QED
      BY <3>1, <3>2, Zenon
  <2>6. Chained(batch'[s], view'[s] \ vanished'[s], QueueStart(s)')
    BY <2>2, <2>5, <1>6, Zenon
  <2>7. Chained(queue'[s], QueueStart(s)', seen'[s])
    BY <2>5, <1>6, Zenon
  <2> QED
    BY <2>1, <2>6, <2>7, Zenon DEF ChainInv
<1>11. \A r \in Session \ {s} :
         UNCHANGED <<sessNum[r], queue[r], deliver[r], batch[r],
                     vanished[r], exists[r], broken[r], view[r]>>
  <2>1. /\ UNCHANGED <<sessNum, vanished, exists, broken, view>>
        /\ deliver' = [deliver EXCEPT ![s] = who]
    BY Zenon
  <2>2. /\ queue \in [Session -> Seq(Update)] /\ batch \in [Session -> Seq(Update)]
        /\ deliver \in [Session -> {"free", "poll", "idle"}]
    BY DEF TrackerInv, TypeOK, SessionType, DeliveryType
  <2> HIDE DEF Dequeue
  <2> QED
    BY <1>1, <2>1, <2>2, Zenon
<1> QED
  BY <1>7, <1>9, <1>10, <1>11, OneSession, Zenon

(* The first update of a batch is well formed, and so are the others. *)
LEMMA BatchTail ==
    ASSUME NEW q \in Seq(Update), q # <<>>,
           \A i \in 1 .. Len(q) : WellFormed(q[i])
    PROVE  /\ Head(q) \in Update /\ WellFormed(Head(q))
           /\ Tail(q) \in Seq(Update)
           /\ \A i \in 1 .. Len(Tail(q)) : WellFormed(Tail(q)[i])
<1>1. Len(q) \in Nat \ {0} /\ Head(q) = q[1]
  OBVIOUS
<1>2. /\ Tail(q) \in Seq(Update) /\ Len(Tail(q)) = Len(q) - 1
      /\ Head(q) \in Update
      /\ \A i \in 1 .. Len(Tail(q)) : Tail(q)[i] = q[i + 1]
  OBVIOUS
<1>3. ASSUME NEW i \in 1 .. Len(Tail(q)) PROVE WellFormed(Tail(q)[i])
  <2>1. i + 1 \in 1 .. Len(q)
    BY <1>1, <1>2
  <2> QED
    BY <2>1, <1>2
<1>4. WellFormed(Head(q))
  <2>1. 1 \in 1 .. Len(q)
    BY <1>1
  <2> QED
    BY <2>1, <1>1, Zenon
<1> QED
  BY <1>2, <1>3, <1>4

(***************************************************************************)
(* A client in the state an update starts from is taken by the response to *)
(* the state it leads to.                                                  *)
(***************************************************************************)
LEMMA ClientStep ==
    ASSUME NEW u \in Update, WellFormed(u), NEW v, v = u.pre,
           NEW n, n = Cardinality(v)
    PROVE  /\ ClientView(u, v) = u.post
           /\ ClientExists(u, n) = Cardinality(u.post)
           /\ Meaningful(u, n, v)
<1>1. /\ v \in SUBSET UID /\ u.post \in SUBSET UID /\ u.kind \in Kind
      /\ u.n \in Nat
  BY DEF Update
<1>2. /\ IsFiniteSet(v) /\ n \in Nat
      /\ IsFiniteSet(u.post) /\ Cardinality(u.post) \in Nat
  BY <1>1, UIDsFinite
<1>3. CASE u.kind = "expunge"
  <2>1. u.uid \in v /\ u.n = SeqNumOf(v, u.uid) /\ u.post = v \ {u.uid}
    BY <1>3 DEF WellFormed
  <2>2. MessageAt(v, u.n) = u.uid /\ u.n \in 1 .. n
    <3>1. MessageAt(v, SeqNumOf(v, u.uid)) = u.uid
      BY Zenon, <2>1, <1>1, MessageAtRank
    <3>2. SeqNumOf(v, u.uid) \in 1 .. Cardinality(v)
      BY Zenon, <2>1, <1>1, RankRange
    <3> QED
      BY Zenon, <2>1, <3>1, <3>2
  <2>3. Cardinality(u.post) = n - 1
    <3>1. Cardinality(v \ {u.uid}) = Cardinality(v) - 1
      BY Zenon, <2>1, <1>2, FS_RemoveElement
    <3> QED
      BY Zenon, <2>1, <3>1
  <2>4. {w \in v : SeqNumOf(v, w) # u.n} = u.post
    <3>1. {w \in v : SeqNumOf(v, w) # SeqNumOf(v, u.uid)} = v \ {u.uid}
      BY Zenon, <2>1, <1>1, RemoveRanked
    <3> QED
      BY Zenon, <2>1, <3>1
  <2>5. ClientView(u, v) = u.post
    BY Zenon, <1>3, <2>4 DEF ClientView
  <2> QED
    BY <1>3, <2>2, <2>3, <2>5, Zenon DEF ClientExists, Meaningful
<1>4. CASE u.kind = "exists"
  <2>1. v \subseteq u.post /\ u.n = Cardinality(u.post)
    BY <1>4, Zenon DEF WellFormed
  <2>2. n <= u.n
    BY <2>1, <1>2, FS_Subset
  <2>3. ClientView(u, v) = u.post
    BY <1>4, <2>1, Zenon DEF ClientView
  <2>4. ClientExists(u, n) = Cardinality(u.post)
    BY <1>4, <2>1 DEF ClientExists
  <2>5. Meaningful(u, n, v)
    BY <1>1, <1>2, <1>4, <2>2 DEF Meaningful
  <2> QED
    BY <2>3, <2>4, <2>5
<1>5. CASE u.kind = "fetch"
  <2>1. u.uid \in v /\ u.n = SeqNumOf(v, u.uid) /\ u.post = v
    BY <1>5, Zenon DEF WellFormed
  <2>2. MessageAt(v, u.n) = u.uid /\ u.n \in 1 .. n
    BY <2>1, <1>1, MessageAtRank, RankRange
  <2> QED
    BY <1>5, <2>1, <2>2, Zenon DEF ClientView, ClientExists, Meaningful
<1>6. CASE u.kind = "flags"
  BY <1>6, Zenon DEF WellFormed, ClientView, ClientExists, Meaningful
<1> QED
  BY <1>1, <1>3, <1>4, <1>5, <1>6, Zenon DEF Kind

LEMMA CoalesceInv ==
    ASSUME TrackerInv, NEW s \in Session, Coalesce(s)
    PROVE  TrackerInv'
<1> USE DEF Coalesce, mboxVars, fanVars, sessVars, idleVars, clientVars
<1> DEFINE h == Head(batch[s])
<1>1. batch[s] \in Seq(Update) /\ batch[s] # <<>> /\ h.kind = "expunge"
  BY Zenon DEF TrackerInv, TypeOK, DeliveryType, Coalesces
<1>2. \A i \in 1 .. Len(batch[s]) : WellFormed(batch[s][i])
  BY DEF TrackerInv, SessionInv
<1>3. /\ h \in Update /\ WellFormed(h)
      /\ Tail(batch[s]) \in Seq(Update)
      /\ \A i \in 1 .. Len(Tail(batch[s])) : WellFormed(Tail(batch[s])[i])
  BY <1>1, <1>2, BatchTail, Zenon
<1>4. h.uid \in h.pre /\ h.post = h.pre \ {h.uid} /\ h.uid \in UID
  BY <1>1, <1>3, Zenon DEF WellFormed, Update
<1>5. batch'[s] = Tail(batch[s]) /\ vanished'[s] = vanished[s] \cup {h.uid}
  BY Zenon DEF TrackerInv, TypeOK, DeliveryType
<1>6. MailboxType' /\ SessionType' /\ DeliveryType'
  <2>1. batch' \in [Session -> Seq(Update)]
    BY <1>3, Zenon DEF TrackerInv, TypeOK, DeliveryType
  <2>2. vanished' \in [Session -> SUBSET UID]
    BY <1>4, Zenon DEF TrackerInv, TypeOK, DeliveryType
  <2> QED
    BY <2>1, <2>2, Zenon DEF TrackerInv, TypeOK, MailboxType, SessionType, DeliveryType
<1> HIDE DEF h
<1>7. SessionInv(s)'
  <2>1. /\ FreshInv(s)' /\ sessNum'[s] = Cardinality(seen'[s])
        /\ \A i \in 1 .. Len(queue[s]) : WellFormed(queue[s][i])
    BY Zenon DEF TrackerInv, SessionInv, FreshInv
  <2> QED
    BY <2>1, <1>3, <1>5, Zenon DEF SessionInv
<1>8. ASSUME ~broken'[s] PROVE ChainInv(s)'
  <2>1. ChainInv(s)
    BY <1>8, Zenon DEF TrackerInv, UnbrokenChain
  <2>2. Chained(batch[s], view[s] \ vanished[s], QueueStart(s))
    BY <2>1, Zenon DEF ChainInv
  <2>3. /\ h.pre = view[s] \ vanished[s]
        /\ Chained(Tail(batch[s]), h.post, QueueStart(s))
    <3> HIDE DEF Coalesce
    <3>1. batch[s] \in Seq(Update) /\ batch[s] # <<>>
      BY <1>1
    <3> QED
      BY Zenon, <3>1, <2>2, ChainHead DEF h
  <2>4. view'[s] \ vanished'[s] = h.post /\ vanished'[s] \subseteq view'[s]
    BY <2>1, <2>3, <1>4, <1>5, Zenon DEF ChainInv
  <2>5. QueueStart(s)' = QueueStart(s)
    BY Zenon DEF QueueStart
  <2>6. Chained(batch'[s], view'[s] \ vanished'[s], QueueStart(s)')
    BY <2>3, <2>4, <2>5, <1>5, Zenon
  <2>7. Chained(queue'[s], QueueStart(s)', seen'[s]) /\ exists'[s] = Cardinality(view'[s])
    BY <2>1, <2>5, Zenon DEF ChainInv
  <2> QED
    BY <2>4, <2>6, <2>7, Zenon DEF ChainInv
<1>9. \A r \in Session \ {s} :
        UNCHANGED <<sessNum[r], queue[r], deliver[r], batch[r],
                    vanished[r], exists[r], broken[r], view[r]>>
  BY Zenon DEF TrackerInv, TypeOK, SessionType, DeliveryType
<1> QED
  BY <1>6, <1>7, <1>8, <1>9, OneSession, Zenon

LEMMA FlushVanishedInv ==
    ASSUME TrackerInv, NEW s \in Session, FlushVanished(s)
    PROVE  TrackerInv'
<1> USE DEF FlushVanished, mboxVars, fanVars, sessVars, idleVars
<1>1. /\ vanished'[s] = {} /\ view'[s] = view[s] \ vanished[s]
      /\ exists'[s] = exists[s] - Cardinality(vanished[s])
      /\ ~broken[s] /\ view[s] \in SUBSET UID /\ vanished[s] \in SUBSET UID
  BY Zenon DEF TrackerInv, TypeOK, DeliveryType
<1>2. ChainInv(s)
  BY <1>1, Zenon DEF TrackerInv, UnbrokenChain
<1>3. exists'[s] = Cardinality(view'[s])
  <2>1. view[s] \cap vanished[s] = vanished[s] /\ exists[s] = Cardinality(view[s])
    BY <1>2, Zenon DEF ChainInv
  <2>2. Cardinality(view[s] \ vanished[s]) =
          Cardinality(view[s]) - Cardinality(view[s] \cap vanished[s])
    BY <1>1, UIDsFinite, FS_Difference, Zenon
  <2> QED
    BY <1>1, <2>1, <2>2, Zenon
<1>4. MailboxType' /\ SessionType' /\ DeliveryType'
  <2>1. exists' \in [Session -> Int]
    <3>1. exists[s] - Cardinality(vanished[s]) \in Int
      <4>1. exists[s] \in Int
        BY Zenon DEF TrackerInv, TypeOK, DeliveryType
      <4>2. Cardinality(vanished[s]) \in Nat
        BY <1>1, UIDsFinite, Zenon
      <4> HIDE DEF FlushVanished
      <4> QED
        BY <4>1, <4>2
    <3> QED
      BY <3>1 DEF TrackerInv, TypeOK, DeliveryType
  <2>2. view' \in [Session -> SUBSET UID] /\ vanished' \in [Session -> SUBSET UID]
    BY <1>1 DEF TrackerInv, TypeOK, DeliveryType
  <2> QED
    BY <2>1, <2>2, Zenon DEF TrackerInv, TypeOK, MailboxType, SessionType, DeliveryType
<1>5. SessionInv(s)'
  <2>1. SessionInv(s)
    BY Zenon DEF TrackerInv
  <2> QED
    BY <2>1, <1>1, Zenon DEF SessionInv, FreshInv
<1>6. ChainInv(s)'
  <2>1. QueueStart(s)' = QueueStart(s)
    BY Zenon DEF QueueStart
  <2>2. view'[s] \ vanished'[s] = view[s] \ vanished[s]
    BY <1>1, Zenon
  <2> QED
    BY <1>1, <1>2, <1>3, <2>1, <2>2, Zenon DEF ChainInv
<1>7. \A r \in Session \ {s} :
        UNCHANGED <<sessNum[r], queue[r], deliver[r], batch[r],
                    vanished[r], exists[r], broken[r], view[r]>>
  BY Zenon DEF TrackerInv, TypeOK, SessionType, DeliveryType
<1> QED
  BY <1>4, <1>5, <1>6, <1>7, OneSession, Zenon

LEMMA WriteUpdateInv ==
    ASSUME TrackerInv, NEW s \in Session, WriteUpdate(s)
    PROVE  TrackerInv'
<1> USE DEF WriteUpdate, mboxVars, fanVars, sessVars, idleVars
<1> DEFINE h == Head(batch[s])
<1>1. batch[s] \in Seq(Update) /\ batch[s] # <<>> /\ ~broken[s]
  BY DEF TrackerInv, TypeOK, DeliveryType
<1>2. \A i \in 1 .. Len(batch[s]) : WellFormed(batch[s][i])
  BY Zenon DEF TrackerInv, SessionInv
<1>3. /\ h \in Update /\ WellFormed(h)
      /\ Tail(batch[s]) \in Seq(Update)
      /\ \A i \in 1 .. Len(Tail(batch[s])) : WellFormed(Tail(batch[s])[i])
  BY <1>1, <1>2, BatchTail, Zenon
<1>4. ChainInv(s)
  BY <1>1, Zenon DEF TrackerInv, UnbrokenChain
<1>5. Chained(batch[s], view[s] \ vanished[s], QueueStart(s))
  BY <1>4, Zenon DEF ChainInv
<1>6. /\ h.pre = view[s] /\ exists[s] = Cardinality(view[s])
      /\ Chained(Tail(batch[s]), h.post, QueueStart(s))
  <2>1. view[s] \ vanished[s] = view[s]
    BY Zenon
  <2>2. h.pre = view[s] \ vanished[s] /\ Chained(Tail(batch[s]), h.post, QueueStart(s))
    <3> HIDE DEF WriteUpdate
    <3>1. batch[s] \in Seq(Update) /\ batch[s] # <<>>
      BY <1>1, Zenon
    <3> QED
      BY Zenon, <3>1, <1>5, ChainHead
  <2> QED
    BY <2>1, <2>2, <1>4, Zenon DEF ChainInv
<1>7. /\ batch'[s] = Tail(batch[s]) /\ vanished'[s] = {}
      /\ view'[s] = ClientView(h, view[s])
      /\ exists'[s] = ClientExists(h, exists[s])
  BY Zenon DEF TrackerInv, TypeOK, DeliveryType
<1>8. view'[s] = h.post /\ exists'[s] = Cardinality(h.post)
  BY <1>3, <1>6, <1>7, ClientStep, Zenon
<1>9. h.post \in SUBSET UID /\ Cardinality(h.post) \in Int
  <2> HIDE DEF WriteUpdate, h
  <2>1. h.post \in SUBSET UID
    BY <1>3, Zenon DEF Update
  <2>2. Cardinality(h.post) \in Nat
    BY <2>1, UIDsFinite, Zenon
  <2> QED
    BY <2>1, <2>2
<1>10. MailboxType' /\ SessionType' /\ DeliveryType'
  <2>1. batch' \in [Session -> Seq(Update)]
    BY <1>3, Zenon DEF TrackerInv, TypeOK, DeliveryType
  <2>2. view' \in [Session -> SUBSET UID] /\ exists' \in [Session -> Int]
    BY <1>7, <1>8, <1>9, Zenon DEF TrackerInv, TypeOK, DeliveryType
  <2> QED
    BY <2>1, <2>2, Zenon DEF TrackerInv, TypeOK, MailboxType, SessionType, DeliveryType
<1> HIDE DEF h
<1>11. SessionInv(s)'
  <2>1. SessionInv(s)
    BY Zenon DEF TrackerInv
  <2> QED
    BY <2>1, <1>3, <1>7, Zenon DEF SessionInv, FreshInv
<1>12. ChainInv(s)'
  <2>1. QueueStart(s)' = QueueStart(s)
    BY Zenon DEF QueueStart
  <2>2. view'[s] \ vanished'[s] = h.post
    BY <1>7, <1>8, Zenon
  <2>3. Chained(batch'[s], view'[s] \ vanished'[s], QueueStart(s)')
    BY <2>1, <2>2, <1>6, <1>7, Zenon
  <2>4. Chained(queue'[s], QueueStart(s)', seen'[s])
    BY <2>1, <1>4, Zenon DEF ChainInv
  <2> QED
    BY <2>3, <2>4, <1>7, <1>8, Zenon DEF ChainInv
<1>13. \A r \in Session \ {s} :
        UNCHANGED <<sessNum[r], queue[r], deliver[r], batch[r],
                    vanished[r], exists[r], broken[r], view[r]>>
  BY Zenon DEF TrackerInv, TypeOK, SessionType, DeliveryType
<1> QED
  BY <1>10, <1>11, <1>12, <1>13, OneSession, Zenon

LEMMA WriteFailsInv ==
    ASSUME TrackerInv, NEW s \in Session, WriteFails(s)
    PROVE  TrackerInv'
<1> USE DEF WriteFails, IdleReturns, mboxVars, sessVars, idleVars
<1>1. /\ batch'[s] = <<>> /\ vanished'[s] = {} /\ deliver'[s] = "free"
      /\ broken'[s] = TRUE
  BY Zenon DEF TrackerInv, TypeOK, DeliveryType
<1>2. MailboxType' /\ SessionType' /\ DeliveryType'
  <2>1. updates' \in [Session -> {NoChan} \cup 0 .. ChanCap]
    BY Zenon DEF TrackerInv, TypeOK, SessionType
  <2>2. idle' \in [Session -> {"off", "drain", "polling", "select"}]
    BY Zenon DEF TrackerInv, TypeOK, SessionType
  <2>3. signal' \in Session \cup {NoSession}
    BY Zenon DEF TrackerInv, TypeOK, MailboxType
  <2>4. batch' \in [Session -> Seq(Update)]
    BY DEF TrackerInv, TypeOK, DeliveryType
  <2>5. /\ deliver' \in [Session -> {"free", "poll", "idle"}]
        /\ vanished' \in [Session -> SUBSET UID]
        /\ broken' \in [Session -> BOOLEAN]
    BY Zenon DEF TrackerInv, TypeOK, DeliveryType
  <2>6. /\ qresync' \in [Session -> BOOLEAN]
        /\ exists' \in [Session -> Int]
        /\ view' \in [Session -> SUBSET UID]
    BY DEF TrackerInv, TypeOK, DeliveryType
  <2>7. DeliveryType'
    BY Zenon, <2>4, <2>5, <2>6 DEF DeliveryType
  <2> QED
    BY <2>1, <2>2, <2>3, <2>7, Zenon DEF TrackerInv, TypeOK, MailboxType, SessionType
<1>3. SessionInv(s)'
  <2>1. SessionInv(s)
    BY DEF TrackerInv
  <2>2. \A i \in 1 .. Len(batch'[s]) : WellFormed(batch'[s][i])
    <3> HIDE DEF WriteFails
    <3>1. Len(batch'[s]) = 0
      BY <1>1
    <3> QED
      BY <3>1
  <2> QED
    BY <2>1, <2>2, <1>1, Zenon DEF SessionInv, FreshInv
<1>4. \A r \in Session \ {s} :
        UNCHANGED <<sessNum[r], queue[r], deliver[r], batch[r],
                    vanished[r], exists[r], broken[r], view[r]>>
  BY DEF TrackerInv, TypeOK, SessionType, DeliveryType
<1> QED
  BY <1>1, <1>2, <1>3, <1>4, OneSession, Zenon

LEMMA EndPollInv ==
    ASSUME TrackerInv, NEW s \in Session, EndPoll(s)
    PROVE  TrackerInv'
<1> USE DEF EndPoll, mboxVars, fanVars, sessVars, clientVars
<1>1. MailboxType' /\ SessionType' /\ DeliveryType'
  BY Zenon DEF TrackerInv, TypeOK, MailboxType, SessionType, DeliveryType
<1>2. SessionInv(s)'
  <2>1. SessionInv(s) /\ deliver'[s] = "free"
    BY Zenon DEF TrackerInv, TypeOK, DeliveryType
  <2> QED
    BY <2>1 DEF SessionInv, FreshInv
<1>3. ~broken'[s] => ChainInv(s)'
  BY Zenon DEF TrackerInv, UnbrokenChain, ChainInv, QueueStart
<1>4. \A r \in Session \ {s} :
        UNCHANGED <<sessNum[r], queue[r], deliver[r], batch[r],
                    vanished[r], exists[r], broken[r], view[r]>>
  BY Zenon DEF TrackerInv, TypeOK, SessionType, DeliveryType
<1> QED
  BY <1>1, <1>2, <1>3, <1>4, OneSession, Zenon

(***************************************************************************)
(* The four Queue operations begin a fan-out.                              *)
(***************************************************************************)
LEMMA BackendInv ==
    ASSUME TrackerInv, Backend
    PROVE  TrackerInv'
<1>1. TypeOK /\ MailboxInv /\ numMessages \in Nat /\ nextUID \in 1 .. MaxUID + 1
  BY Zenon DEF TrackerInv, TypeOK, MailboxType
<1>2. ASSUME NEW n \in 1 .. MaxUID, NEW known \in UIDGiven, QueueExpunge(n, known)
      PROVE  TrackerInv'
  <2>1. n \in 1 .. numMessages /\ known \in BOOLEAN
    BY <1>1, <1>2, TrackerAssumption DEF QueueExpunge
  <2>2. /\ Expunge(n, known) \in Update /\ WellFormed(Expunge(n, known))
        /\ Expunge(n, known).pre = content
        /\ Cardinality(Expunge(n, known).post) = numMessages - 1
        /\ Expunge(n, known).post \subseteq content
    BY <1>1, <2>1, ExpungeUpdate, Zenon
  <2>3. \A x \in Expunge(n, known).post : x < nextUID'
    BY <1>1, <1>2, <2>2, Zenon DEF MailboxInv, QueueExpunge
  <2>4. /\ BeginFanOut(Expunge(n, known), NoSession)
        /\ numMessages' = numMessages - 1 /\ nextUID' = nextUID
    BY <1>2, Zenon DEF QueueExpunge
  <2> HIDE DEF Expunge
  <2> QED
    BY <1>1, <2>2, <2>3, <2>4, BeginFanOutInv, Zenon
<1>3. ASSUME NEW n \in 1 .. MaxUID, QueueNumMessages(n)
      PROVE  TrackerInv'
  <2>1. /\ n >= numMessages
        /\ nextUID + (n - numMessages) <= MaxUID + 1
        /\ nextUID' = nextUID + (n - numMessages)
        /\ numMessages' = n
        /\ BeginFanOut(NumMessages(n), NoSession)
    BY <1>3, Zenon DEF QueueNumMessages
  <2>2. n \in Nat /\ MaxUID \in Nat
    BY TrackerAssumption
  <2>3. /\ NumMessages(n) \in Update /\ WellFormed(NumMessages(n))
        /\ NumMessages(n).pre = content
        /\ Cardinality(NumMessages(n).post) = n
        /\ \A x \in NumMessages(n).post : x < nextUID + (n - numMessages)
    BY <1>1, <2>1, <2>2, NumMessagesUpdate, Zenon
  <2>4. nextUID' \in 1 .. MaxUID + 1
    BY <1>1, <2>1, <2>2
  <2> QED
    BY <2>1, <2>3, <2>4, BeginFanOutInv, Zenon
<1>4. ASSUME QueueMailboxFlags PROVE TrackerInv'
  <2>1. /\ MailboxFlags \in Update /\ WellFormed(MailboxFlags)
        /\ MailboxFlags.pre = content /\ MailboxFlags.post = content
    BY <1>1, FlagsUpdates
  <2>2. /\ BeginFanOut(MailboxFlags, NoSession)
        /\ numMessages' = numMessages /\ nextUID' = nextUID
    BY <1>4, Zenon DEF QueueMailboxFlags
  <2> QED
    BY <1>1, <2>1, <2>2, BeginFanOutInv, Zenon DEF MailboxInv
<1>5. ASSUME NEW n \in 1 .. MaxUID, NEW src \in sessions \cup {NoSession},
             QueueMessageFlags(n, src)
      PROVE  TrackerInv'
  <2>1. /\ n \in 1 .. numMessages /\ BeginFanOut(MessageFlags(n), src)
        /\ numMessages' = numMessages /\ nextUID' = nextUID
    BY <1>5, Zenon DEF QueueMessageFlags
  <2>2. /\ MessageFlags(n) \in Update /\ WellFormed(MessageFlags(n))
        /\ MessageFlags(n).pre = content /\ MessageFlags(n).post = content
        /\ MessageFlags(n).kind = "fetch"
    BY <1>1, <2>1, FlagsUpdates, Zenon DEF MessageFlags
  <2> QED
    BY <1>1, <2>1, <2>2, BeginFanOutInv, Zenon DEF MailboxInv
<1> QED
  BY <1>2, <1>3, <1>4, <1>5, Zenon DEF Backend

LEMMA StutterInv ==
    ASSUME TrackerInv, UNCHANGED vars
    PROVE  TrackerInv'
<1> USE DEF vars, mboxVars, fanVars, sessVars, idleVars, deliverVars, clientVars
<1>1. TypeOK'
  BY Zenon DEF TrackerInv, TypeOK, MailboxType, SessionType, DeliveryType
<1>2. MailboxInv' /\ FanOutInv'
  BY Zenon DEF TrackerInv, MailboxInv, FanOutInv, WellFormed, SeqNumOf
<1>3. ASSUME NEW r \in Session
      PROVE  SessionInv(r)' /\ (~broken[r] => ChainInv(r))'
  BY SessionUntouched, Zenon DEF TrackerInv, UnbrokenChain, SessionInv, FreshInv
<1> QED
  BY <1>1, <1>2, <1>3 DEF TrackerInv, UnbrokenChain

(* Idle runs on sessions that exist. *)
FreshIdle == \A r \in Session : life[r] = "new" => idle[r] = "off"

LEMMA FreshIdleStep ==
    ASSUME TrackerInv, FreshIdle, [Next]_vars
    PROVE  FreshIdle'
<1> SUFFICES ASSUME NEW r \in Session, life'[r] = "new"
             PROVE  idle'[r] = "off"
  BY DEF FreshIdle
<1>1. /\ life \in [Session -> {"new", "open", "closing", "closed"}]
      /\ idle \in [Session -> {"off", "drain", "polling", "select"}]
  BY Zenon DEF TrackerInv, TypeOK, SessionType
<1>2. life[r] = "new" => idle[r] = "off"
  BY DEF FreshIdle
<1>3. CASE Backend
  BY <1>2, <1>3, Zenon DEF Backend, QueueExpunge, QueueNumMessages, QueueMailboxFlags,
                    QueueMessageFlags, BeginFanOut, sessVars, idleVars
<1>4. CASE FanOut
  BY <1>2, <1>4, Zenon DEF FanOut, EnqueueUpdate, SendSignal, EndFanOut, sessVars, idleVars
<1>5. ASSUME NEW s \in Session, SessionStep(s) PROVE idle'[r] = "off"
  <2>1. CASE NewSession(s) \/ CloseClear(s) \/ CloseDelete(s)
    BY <1>1, <1>2, <2>1, Zenon DEF NewSession, CloseClear, CloseDelete, idleVars
  <2>2. CASE \E allowExpunge \in BOOLEAN : Poll(s, allowExpunge)
    <3>1. PICK allowExpunge \in BOOLEAN : Poll(s, allowExpunge)
      BY <2>2
    <3>2. life' = life /\ idle' = idle
      BY <3>1, Zenon DEF Poll, Dequeue
    <3> QED
      BY <1>2, <3>2
  <2>3. CASE Coalesce(s) \/ FlushVanished(s) \/ WriteUpdate(s)
    <3>1. life' = life /\ idle' = idle
      BY <2>3, Zenon DEF Coalesce, FlushVanished, WriteUpdate, sessVars, idleVars
    <3> QED
      BY <1>2, <3>1, Zenon
  <2>4. CASE WriteFails(s)
    BY <1>1, <1>2, <2>4, Zenon DEF WriteFails, IdleReturns, sessVars, idleVars
  <2>5. CASE EndPoll(s)
    <3>1. life' = life /\ deliver[r] = "free"
      BY <2>5, Zenon DEF EndPoll, sessVars, TrackerInv, SessionInv, FreshInv
    <3> QED
      BY <1>1, <1>2, <2>5, <3>1 DEF EndPoll
  <2>6. CASE IdleRegister(s) \/ IdleWake(s) \/ IdleStop(s)
    BY <1>1, <1>2, <2>6 DEF IdleRegister, IdleWake, IdleStop, IdleReturns, sessVars
  <2>7. CASE IdlePoll(s)
    BY <1>1, <1>2, <2>7, Zenon DEF IdlePoll, Dequeue
  <2> QED
    BY <1>5, <2>1, <2>2, <2>3, <2>4, <2>5, <2>6, <2>7, Zenon
       DEF SessionStep, Delivery, IdleLoop
<1>6. CASE UNCHANGED vars
  BY <1>2, <1>6 DEF vars, sessVars, idleVars
<1> QED
  BY <1>3, <1>4, <1>5, <1>6, Zenon DEF Next

LEMMA SessionStepInv ==
    ASSUME TrackerInv, FreshIdle, NEW s \in Session, SessionStep(s)
    PROVE  TrackerInv'
<1>1. ASSUME NEW allowExpunge \in BOOLEAN, Poll(s, allowExpunge) PROVE TrackerInv'
  <2>1. /\ life[s] # "new" /\ Dequeue(s, allowExpunge, "poll")
        /\ idle' \in [Session -> {"off", "drain", "polling", "select"}]
    BY <1>1, Zenon DEF Poll, TrackerInv, TypeOK, SessionType
  <2> QED
    BY <2>1, DequeueInv
<1>2. ASSUME IdlePoll(s) PROVE TrackerInv'
  <2>1. Dequeue(s, TRUE, "idle") /\ idle[s] = "drain"
    BY <1>2, Zenon DEF IdlePoll
  <2>2. idle' \in [Session -> {"off", "drain", "polling", "select"}]
    BY <1>2, Zenon DEF IdlePoll, TrackerInv, TypeOK, SessionType
  <2>3. life[s] # "new"
    BY <2>1 DEF FreshIdle
  <2> QED
    BY <2>1, <2>2, <2>3, DequeueInv, Zenon
<1> QED
  BY <1>1, <1>2, NewSessionInv, CloseInv, CoalesceInv, FlushVanishedInv,
     WriteUpdateInv, WriteFailsInv, EndPollInv, IdleInv, Zenon
     DEF SessionStep, Delivery, IdleLoop

-----------------------------------------------------------------------------
(***************************************************************************)
(* The chain of updates from every client's view to the mailbox is never   *)
(* broken: an invariant of the tracker, whatever the number of sessions,   *)
(* messages and waiting updates.                                           *)
(***************************************************************************)
THEOREM TrackerInvariant == Spec => []TrackerInv
<1>1. ASSUME TrackerInv, FreshIdle, [Next]_vars PROVE TrackerInv' /\ FreshIdle'
  <2>0. FreshIdle'
    BY <1>1, FreshIdleStep, Zenon
  <2>1. CASE Backend
    BY <1>1, <2>0, <2>1, BackendInv
  <2>2. CASE FanOut
    BY <1>1, <2>0, <2>2, EnqueueUpdateInv, SignalInv, EndFanOutInv, Zenon DEF FanOut
  <2>3. CASE \E s \in Session : SessionStep(s)
    BY <1>1, <2>0, <2>3, SessionStepInv
  <2>4. CASE UNCHANGED vars
    BY <1>1, <2>0, <2>4, StutterInv
  <2> QED
    BY <1>1, <2>1, <2>2, <2>3, <2>4, Zenon DEF Next
<1>2. Init => FreshIdle
  BY DEF Init, FreshIdle
<1> QED
  BY <1>1, <1>2, InitInv, PTL DEF Spec

(* Every variable keeps its type. *)
THEOREM TypeCorrect == Spec => []TypeOK
<1>1. TrackerInv => TypeOK
  BY DEF TrackerInv
<1> QED
  BY <1>1, TrackerInvariant, PTL

(***************************************************************************)
(* What a poll is about to write names, in the numbering the client has at *)
(* that moment, the messages it was queued for.                            *)
(***************************************************************************)
THEOREM PollsAreMeaningful == Spec => []ResponsesMeaningful
<1>1. ASSUME TrackerInv PROVE ResponsesMeaningful
  <2> SUFFICES ASSUME NEW s \in Session, ~broken[s]
               PROVE  /\ vanished[s] \subseteq view[s]
                      /\ batch[s] # <<>> /\ vanished[s] = {}
                            => Meaningful(Head(batch[s]), exists[s], view[s])
    BY Zenon DEF ResponsesMeaningful
  <2>1. ChainInv(s) /\ SessionInv(s) /\ batch[s] \in Seq(Update)
    BY <1>1, Zenon DEF TrackerInv, UnbrokenChain, TypeOK, DeliveryType
  <2>2. ASSUME batch[s] # <<>>, vanished[s] = {}
        PROVE  Meaningful(Head(batch[s]), exists[s], view[s])
    <3>1. Head(batch[s]) \in Update /\ WellFormed(Head(batch[s]))
      BY <2>1, <2>2, BatchTail, Zenon DEF SessionInv
    <3>2. Chained(batch[s], view[s] \ vanished[s], QueueStart(s))
      BY <2>1, Zenon DEF ChainInv
    <3>3. Head(batch[s]).pre = view[s] \ vanished[s]
      <4>1. batch[s] \in Seq(Update) /\ batch[s] # <<>>
        BY <2>1, <2>2, Zenon
      <4> QED
        BY Zenon, <4>1, <3>2, ChainHead
    <3>4. view[s] = Head(batch[s]).pre /\ exists[s] = Cardinality(view[s])
      BY <2>1, <2>2, <3>3, Zenon DEF ChainInv
    <3> QED
      BY <3>1, <3>4, ClientStep
  <2> QED
    BY <2>1, <2>2, Zenon DEF ChainInv
<1> QED
  BY <1>1, TrackerInvariant, PTL

(***************************************************************************)
(* The client's arithmetic on EXISTS, EXPUNGE and VANISHED never drifts.   *)
(***************************************************************************)
THEOREM ClientNeverMiscounts == Spec => []ClientCountRight
<1>1. TrackerInv => ClientCountRight
  BY Zenon DEF TrackerInv, UnbrokenChain, ChainInv, ClientCountRight
<1> QED
  BY <1>1, TrackerInvariant, PTL

(***************************************************************************)
(* A fan-out misses no registered session, and gives none an update twice. *)
(***************************************************************************)
THEOREM FanOutComplete == Spec => []RegisteredSessionsCurrent
<1>1. ASSUME TrackerInv PROVE RegisteredSessionsCurrent
  <2> SUFFICES ASSUME NEW s \in sessions \ pending
               PROVE  sessNum[s] = numMessages /\ seen[s] = content
    BY Zenon DEF RegisteredSessionsCurrent
  <2>1. seen[s] = content /\ s \in Session
    BY <1>1, Zenon DEF TrackerInv, FanOutInv, TypeOK, MailboxType
  <2>2. sessNum[s] = Cardinality(seen[s]) /\ numMessages = Cardinality(content)
    BY <1>1, <2>1 DEF TrackerInv, SessionInv, MailboxInv
  <2> QED
    BY <2>1, <2>2, Zenon
<1> QED
  BY <1>1, TrackerInvariant, PTL
=============================================================================
