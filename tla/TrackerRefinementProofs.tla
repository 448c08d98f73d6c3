---------------------- MODULE TrackerRefinementProofs ----------------------
(***************************************************************************)
(* The proof that the tracker implements SharedMailbox, and that the       *)
(* readers of a session translate sequence numbers by message, which rests *)
(* on the same invariant.                                                  *)
(***************************************************************************)
EXTENDS TrackerRefinement, MailboxTrackerProofs, SessionReadersProofs

(* The mailbox c2 with UIDNEXT n2 may follow the mailbox c with UIDNEXT n. *)
Later(c, n, c2, n2) ==
    /\ n \in Nat /\ n2 \in Nat /\ n2 >= n
    /\ c2 \subseteq Nat
    /\ \A x \in c2 : x \in c \/ x >= n

(* What has been the mailbox has been it for good. *)
LEMMA PastLater ==
    ASSUME NEW c, NEW n, NEW c2, NEW n2, NEW S,
           Later(c, n, c2, n2), Past(S, c, n)
    PROVE  Past(S, c2, n2)
<1>1. S \subseteq 1 .. n2 - 1
  BY DEF Later, Past
<1>2. ASSUME NEW a \in S, NEW b \in c2 \ S
      PROVE  a < b
  <2>1. CASE b \in c
    BY <2>1, <1>2, Zenon DEF Past
  <2>2. CASE b >= n
    BY <2>2, <1>2 DEF Later, Past
  <2> QED
    BY <2>1, <2>2, <1>2 DEF Later
<1> QED
  BY <1>1, <1>2, Zenon DEF Past

(* A message that has left does not come back. *)
LEMMA GoodLater ==
    ASSUME NEW c, NEW n, NEW c2, NEW n2, NEW u,
           Later(c, n, c2, n2), WellFormed(u), Good(u, c, n)
    PROVE  Good(u, c2, n2)
<1>1. Past(u.pre, c2, n2) /\ Past(u.post, c2, n2)
  BY PastLater DEF Good
<1>2. ASSUME u.kind = "expunge"
      PROVE  u.uid \notin c2
  <2>1. u.uid \in 1 .. n - 1 /\ u.uid \notin c
    BY <1>2 DEF WellFormed, Good, Past
  <2> QED
    BY <2>1 DEF Later
<1> QED
  BY <1>1, <1>2 DEF Good

LEMMA GoodAppend ==
    ASSUME NEW c, NEW n, NEW q \in Seq(Update), NEW u \in Update,
           AllGood(q, c, n), Good(u, c, n)
    PROVE  AllGood(Append(q, u), c, n)
<1> DEFINE r == Append(q, u)
<1>1. /\ Len(r) = Len(q) + 1
      /\ \A i \in 1 .. Len(q) : r[i] = q[i]
      /\ r[Len(q) + 1] = u
  OBVIOUS
<1>2. Len(q) \in Nat
  OBVIOUS
<1> HIDE DEF r
<1>3. ASSUME NEW i \in 1 .. Len(r)
      PROVE  Good(r[i], c, n)
  <2>1. i \in 1 .. Len(q) \/ i = Len(q) + 1
    BY <1>1, <1>2
  <2> QED
    BY <2>1, <1>1, Zenon DEF AllGood
<1>4. AllGood(r, c, n)
  BY <1>3 DEF AllGood
<1> QED
  BY <1>4 DEF r

LEMMA GoodParts ==
    ASSUME NEW c, NEW n, NEW q \in Seq(Update), NEW k \in 0 .. Len(q), AllGood(q, c, n)
    PROVE  /\ AllGood(SubSeq(q, 1, k), c, n)
           /\ AllGood(SubSeq(q, k + 1, Len(q)), c, n)
<1> DEFINE front == SubSeq(q, 1, k)
           rest == SubSeq(q, k + 1, Len(q))
<1>1. Len(q) \in Nat /\ k \in Nat /\ k <= Len(q)
      /\ \A i \in 1 .. Len(q) : q[i] \in Update
  OBVIOUS
<1>2. Len(front) = k /\ \A i \in 1 .. k : front[i] = q[i]
  BY <1>1
<1>3. Len(rest) = Len(q) - k /\ \A i \in 1 .. (Len(q) - k) : rest[i] = q[k + i]
  BY <1>1
<1> HIDE DEF front, rest
<1>4. ASSUME NEW i \in 1 .. Len(front)
      PROVE  Good(front[i], c, n)
  <2>1. i \in 1 .. k /\ i \in 1 .. Len(q)
    BY <1>1, <1>2
  <2> QED
    BY <2>1, <1>2 DEF AllGood
<1>5. ASSUME NEW i \in 1 .. Len(rest)
      PROVE  Good(rest[i], c, n)
  <2>1. i \in 1 .. (Len(q) - k) /\ k + i \in 1 .. Len(q)
    BY <1>1, <1>3
  <2> QED
    BY <2>1, <1>3, Zenon DEF AllGood
<1>6. AllGood(front, c, n) /\ AllGood(rest, c, n)
  BY <1>4, <1>5, Zenon DEF AllGood
<1> QED
  BY <1>6, Zenon DEF front, rest

LEMMA GoodTail ==
    ASSUME NEW c, NEW n, NEW q \in Seq(Update), q # <<>>, AllGood(q, c, n)
    PROVE  Good(Head(q), c, n) /\ AllGood(Tail(q), c, n)
<1> DEFINE r == Tail(q)
<1>1. Len(r) = Len(q) - 1 /\ \A i \in 1 .. Len(r) : r[i] = q[i + 1]
  OBVIOUS
<1>2. Len(q) \in Nat \ {0} /\ Head(q) = q[1]
  OBVIOUS
<1> HIDE DEF r
<1>3. ASSUME NEW i \in 1 .. Len(r)
      PROVE  Good(r[i], c, n)
  <2>1. i + 1 \in 1 .. Len(q)
    BY <1>1, <1>2
  <2> QED
    BY <2>1, <1>1 DEF AllGood
<1>4. AllGood(r, c, n)
  BY <1>3, Zenon DEF AllGood
<1>5. Good(Head(q), c, n)
  BY <1>2 DEF AllGood
<1> QED
  BY <1>4, <1>5 DEF r

-----------------------------------------------------------------------------
(***************************************************************************)
(* RefinementInv is preserved.                                             *)
(***************************************************************************)
LEMMA InitRefinementInv == Init => RefinementInv
<1> SUFFICES ASSUME Init PROVE RefinementInv
  BY Zenon
<1>1. Past({}, content, nextUID) /\ AllGood(<<>>, content, nextUID)
  BY DEF Past, AllGood
<1>2. ASSUME NEW s \in Session
      PROVE  SessionPast(s)
  <2>1. seen[s] = {} /\ queue[s] = <<>> /\ batch[s] = <<>> /\ vanished[s] = {}
    BY Zenon DEF Init
  <2> QED
    BY <1>1, <2>1 DEF SessionPast
<1> QED
  BY <1>2 DEF Init, RefinementInv

(* The present mailbox. *)
LEMMA PresentIsPast ==
    ASSUME TypeOK, MailboxInv
    PROVE  Past(content, content, nextUID)
<1>1. nextUID \in Nat /\ content \subseteq 1 .. MaxUID /\ MaxUID \in Nat
  BY TrackerAssumption DEF TypeOK, MailboxType, UID
<1>2. \A u \in content : u < nextUID /\ u \in Nat /\ u >= 1
  BY <1>1 DEF MailboxInv
<1> QED
  BY <1>1, <1>2 DEF Past

(* A session none of whose variables changes. *)
LEMMA SessionPastKept ==
    ASSUME NEW s \in Session, SessionPast(s), content' = content, nextUID' = nextUID,
           seen'[s] = seen[s], queue'[s] = queue[s], batch'[s] = batch[s],
           vanished'[s] = vanished[s]
    PROVE  SessionPast(s)'
BY DEF SessionPast

(* A step in which the mailbox moves on and the sessions do not. *)
LEMMA SessionPastLater ==
    ASSUME NEW s \in Session, SessionPast(s), SessionInv(s),
           Later(content, nextUID, content', nextUID'),
           seen' = seen, queue' = queue, batch' = batch, vanished' = vanished
    PROVE  SessionPast(s)'
<1> DEFINE c == content
           n == nextUID
           c2 == content'
           n2 == nextUID'
<1>1. Past(seen[s], c2, n2)
  BY PastLater, Zenon DEF SessionPast
<1>2. AllGood(queue[s], c2, n2)
  <2>1. \A i \in 1 .. Len(queue[s]) : WellFormed(queue[s][i]) /\ Good(queue[s][i], c, n)
    BY Zenon DEF SessionPast, SessionInv, AllGood
  <2> QED
    BY <2>1, GoodLater DEF AllGood
<1>3. AllGood(batch[s], c2, n2)
  <2>1. \A i \in 1 .. Len(batch[s]) : WellFormed(batch[s][i]) /\ Good(batch[s][i], c, n)
    BY Zenon DEF SessionPast, SessionInv, AllGood
  <2> QED
    BY <2>1, GoodLater, Zenon DEF AllGood
<1>4. vanished[s] \subseteq 1 .. n2 - 1 /\ vanished[s] \cap c2 = {}
  BY DEF SessionPast, Later
<1> QED
  BY <1>1, <1>2, <1>3, <1>4, Zenon DEF SessionPast

(* An update enters the fan-out. *)
LEMMA BeginFanOutPast ==
    ASSUME TrackerInv, RefinementInv, NEW u, NEW src, BeginFanOut(u, src),
           Later(content, nextUID, content', nextUID'),
           Good(u, u.post, nextUID')
    PROVE  RefinementInv'
<1>1. seen' = seen /\ queue' = queue /\ batch' = batch /\ vanished' = vanished
  BY Zenon DEF BeginFanOut, sessVars, deliverVars
<1>2. ASSUME NEW s \in Session
      PROVE  SessionPast(s)'
  BY <1>1, SessionPastLater, Zenon DEF TrackerInv, RefinementInv
<1>3. update' = u /\ content' = u.post
  BY DEF BeginFanOut
<1>4. Good(update, content, nextUID)'
  BY <1>3, Zenon
<1> QED
  BY <1>2, <1>4 DEF RefinementInv

LEMMA BelowLater ==
    ASSUME NEW x \in Nat, NEW n \in Nat, NEW n2 \in Nat, x >= 1, x < n, n2 >= n
    PROVE  x \in 1 .. n2 - 1
OBVIOUS

LEMMA BackendPast ==
    ASSUME TrackerInv, RefinementInv, Backend
    PROVE  RefinementInv'
<1> DEFINE c == content
           n == nextUID
<1>1. TypeOK /\ MailboxInv
  BY Zenon DEF TrackerInv
<1>2. /\ nextUID \in Nat \ {0} /\ content \subseteq Nat /\ numMessages \in Nat
      /\ \A x \in content : x < nextUID /\ x >= 1
  BY <1>1, TrackerAssumption DEF TypeOK, MailboxType, UID, MailboxInv
<1>3. Past(content, content, nextUID)
  BY <1>1, PresentIsPast
<1>4. ASSUME NEW m \in 1 .. MaxUID, NEW known \in UIDGiven, QueueExpunge(m, known)
      PROVE  RefinementInv'
  <2> DEFINE u == Expunge(m, known)
  <2>1. m \in 1 .. numMessages /\ known \in BOOLEAN
    BY <1>2, <1>4, TrackerAssumption DEF QueueExpunge
  <2>2. /\ u.kind = "expunge" /\ u.pre = content /\ u.uid = MessageAt(content, m)
        /\ u.post = content \ {u.uid}
    BY Zenon DEF Expunge
  <2>3. nextUID' = nextUID /\ content' = u.post /\ BeginFanOut(u, NoSession)
    BY <1>4, Zenon DEF QueueExpunge, BeginFanOut
  <2> HIDE DEF u
  <2>4. Later(content, nextUID, content', nextUID')
    <3>1. content' \subseteq content /\ nextUID' = nextUID
      BY <2>2, <2>3
    <3>2. content' \subseteq Nat
      BY <1>2, <3>1, Zenon
    <3>3. nextUID \in Nat /\ nextUID >= nextUID
      BY <1>2
    <3> QED
      BY <3>1, <3>2, <3>3 DEF Later
  <2>5. Past(u.pre, u.post, nextUID) /\ Past(u.post, u.post, nextUID)
    BY <1>3, <2>2, Zenon DEF Past
  <2>6. Good(u, u.post, nextUID')
    BY <2>2, <2>3, <2>5 DEF Good
  <2> QED
    BY <2>3, <2>4, <2>6, BeginFanOutPast, Zenon
<1>5. ASSUME NEW m \in 1 .. MaxUID, QueueNumMessages(m)
      PROVE  RefinementInv'
  <2> DEFINE u == NumMessages(m)
             new == nextUID .. (nextUID + (m - numMessages) - 1)
  <2>1. m \in Nat /\ m >= numMessages
    BY <1>2, <1>5, TrackerAssumption DEF QueueNumMessages
  <2>2. u.kind = "exists" /\ u.pre = content /\ u.post = content \cup new
    BY Zenon DEF NumMessages
  <2>3. /\ nextUID' = nextUID + (m - numMessages) /\ content' = u.post
        /\ BeginFanOut(u, NoSession)
    BY <1>5, Zenon DEF QueueNumMessages, BeginFanOut
  <2>4. nextUID' \in Nat /\ nextUID' >= nextUID
    BY <1>2, <2>1, <2>3
  <2>5. new \subseteq Nat /\ \A x \in new : x >= nextUID /\ x \in 1 .. nextUID' - 1
    BY <1>2, <2>1, <2>3
  <2> HIDE DEF u, new
  <2>6. Later(content, nextUID, content', nextUID')
    BY <1>2, <2>2, <2>3, <2>4, <2>5, Zenon DEF Later
  <2>7. content \subseteq 1 .. nextUID' - 1
    <3>1. ASSUME NEW x \in content
          PROVE  x \in 1 .. nextUID' - 1
      <4>1. x \in Nat /\ x < nextUID /\ x >= 1 /\ nextUID \in Nat
        BY <1>2
      <4> QED
        BY <4>1, <2>4, BelowLater, Zenon
    <3> QED
      BY <3>1
  <2>8. \A a \in content, b \in new : a < b
    BY <1>2, <2>5
  <2>9. Past(u.pre, u.post, nextUID') /\ Past(u.post, u.post, nextUID')
    BY <2>2, <2>5, <2>7, <2>8, Zenon DEF Past
  <2>10. Good(u, u.post, nextUID')
    BY <2>2, <2>8, <2>9 DEF Good
  <2> QED
    BY <2>3, <2>6, <2>10, BeginFanOutPast
<1>6. ASSUME NEW u, NEW src, BeginFanOut(u, src), nextUID' = nextUID,
             u.kind # "expunge", u.pre = content, u.post = content
      PROVE  RefinementInv'
  <2>1. content' = content
    BY <1>6 DEF BeginFanOut
  <2>2. Later(content, nextUID, content', nextUID')
    BY <1>2, <1>6, <2>1 DEF Later
  <2>3. Good(u, u.post, nextUID')
    BY <1>3, <1>6 DEF Good
  <2> QED
    BY <1>6, <2>2, <2>3, BeginFanOutPast, Zenon
<1>7. ASSUME QueueMailboxFlags
      PROVE  RefinementInv'
  BY <1>6, <1>7, Zenon DEF QueueMailboxFlags, MailboxFlags
<1>8. ASSUME NEW m \in 1 .. MaxUID, NEW src, QueueMessageFlags(m, src)
      PROVE  RefinementInv'
  BY <1>6, <1>8, Zenon DEF QueueMessageFlags, MessageFlags
<1> QED
  BY <1>4, <1>5, <1>7, <1>8 DEF Backend

(* A step of one session that leaves the mailbox and the fan-out alone. *)
LEMMA OneSessionPast ==
    ASSUME RefinementInv, NEW s \in Session, content' = content, nextUID' = nextUID,
           mutex' => mutex /\ update' = update,
           \A t \in Session \ {s} : /\ seen'[t] = seen[t] /\ queue'[t] = queue[t]
                                    /\ batch'[t] = batch[t] /\ vanished'[t] = vanished[t],
           SessionPast(s)'
    PROVE  RefinementInv'
<1>1. ASSUME NEW t \in Session
      PROVE  SessionPast(t)'
  <2>1. CASE t = s
    BY <2>1, Zenon
  <2>2. CASE t # s
    BY <2>2, SessionPastKept DEF RefinementInv
  <2> QED
    BY <2>1, <2>2
<1>2. mutex' => Good(update, content, nextUID)'
  BY Zenon DEF RefinementInv
<1> QED
  BY <1>1, <1>2, Zenon DEF RefinementInv

LEMMA NewSessionPast ==
    ASSUME TrackerInv, RefinementInv, NEW s \in Session, NewSession(s)
    PROVE  RefinementInv'
<1>1. /\ content' = content /\ nextUID' = nextUID /\ mutex' = mutex /\ update' = update
      /\ queue' = queue /\ batch' = batch /\ vanished' = vanished
      /\ seen' = [seen EXCEPT ![s] = content]
  BY Zenon DEF NewSession, fanVars, deliverVars
<1>2. Past(content, content, nextUID) /\ seen'[s] = content
  BY <1>1, PresentIsPast, Zenon DEF TrackerInv, TypeOK, SessionType
<1>3. SessionPast(s)'
  BY <1>1, <1>2, Zenon DEF RefinementInv, SessionPast
<1> QED
  BY <1>1, <1>3, OneSessionPast DEF TrackerInv, TypeOK, SessionType

LEMMA EnqueuePast ==
    ASSUME TrackerInv, RefinementInv, NEW s \in Session, EnqueueUpdate(s)
    PROVE  RefinementInv'
<1>1. /\ content' = content /\ nextUID' = nextUID /\ mutex /\ mutex' = mutex
      /\ update' = update /\ batch' = batch /\ vanished' = vanished
      /\ seen' = [seen EXCEPT ![s] = update.post]
      /\ queue' = queue \/ queue' = [queue EXCEPT ![s] = Append(@, update)]
  BY DEF EnqueueUpdate, mboxVars, deliverVars
<1>2. /\ seen \in [Session -> SUBSET UID] /\ queue \in [Session -> Seq(Update)]
      /\ update \in Update
  BY Zenon DEF TrackerInv, TypeOK, SessionType, MailboxType
<1>3. Good(update, content, nextUID) /\ SessionPast(s)
  BY <1>1, Zenon DEF RefinementInv
<1>4. AllGood(queue'[s], content, nextUID)
  <2>1. queue'[s] = queue[s] \/ queue'[s] = Append(queue[s], update)
    BY <1>1, <1>2, Zenon
  <2>2. queue[s] \in Seq(Update) /\ AllGood(queue[s], content, nextUID)
    BY <1>2, <1>3, Zenon DEF SessionPast
  <2> QED
    BY <2>1, <2>2, <1>2, <1>3, GoodAppend, Zenon
<1>5. Past(seen'[s], content, nextUID)
  BY <1>1, <1>2, <1>3 DEF Good
<1>6. SessionPast(s)'
  BY <1>1, <1>3, <1>4, <1>5, Zenon DEF SessionPast
<1> QED
  BY <1>1, <1>2, <1>6, OneSessionPast, Zenon

LEMMA DequeuePast ==
    ASSUME TrackerInv, RefinementInv, NEW s \in Session, NEW allowExpunge, NEW who,
           Dequeue(s, allowExpunge, who)
    PROVE  RefinementInv'
<1>1. /\ content' = content /\ nextUID' = nextUID /\ mutex' = mutex /\ update' = update
      /\ seen' = seen /\ vanished' = vanished
  BY DEF Dequeue, mboxVars, fanVars
<1>2. PICK k \in 0 .. Len(queue[s]) :
        /\ batch' = [batch EXCEPT ![s] = SubSeq(queue[s], 1, k)]
        /\ queue' = [queue EXCEPT ![s] = SubSeq(queue[s], k + 1, Len(queue[s]))]
  BY Zenon DEF Dequeue
<1>3. queue \in [Session -> Seq(Update)] /\ batch \in [Session -> Seq(Update)]
  BY DEF TrackerInv, TypeOK, SessionType, DeliveryType
<1>4. SessionPast(s) /\ queue[s] \in Seq(Update)
  BY <1>3 DEF RefinementInv
<1>5. /\ batch'[s] = SubSeq(queue[s], 1, k)
      /\ queue'[s] = SubSeq(queue[s], k + 1, Len(queue[s]))
  BY <1>2, <1>3, Zenon
<1>6. AllGood(batch'[s], content, nextUID) /\ AllGood(queue'[s], content, nextUID)
  BY <1>4, <1>5, GoodParts, Zenon DEF SessionPast
<1>7. SessionPast(s)'
  BY <1>1, <1>4, <1>6, Zenon DEF SessionPast
<1>8. \A t \in Session \ {s} : queue'[t] = queue[t] /\ batch'[t] = batch[t]
  BY <1>2, <1>3
<1> QED
  BY <1>1, <1>7, <1>8, OneSessionPast, Zenon

LEMMA DeliveryPast ==
    ASSUME TrackerInv, RefinementInv, NEW s \in Session, Delivery(s)
    PROVE  RefinementInv'
<1>1. /\ batch \in [Session -> Seq(Update)] /\ vanished \in [Session -> SUBSET UID]
  BY Zenon DEF TrackerInv, TypeOK, DeliveryType
<1>2. /\ SessionPast(s) /\ batch[s] \in Seq(Update)
      /\ \A i \in 1 .. Len(batch[s]) : WellFormed(batch[s][i])
  BY <1>1, Zenon DEF RefinementInv, TrackerInv, SessionInv
<1>3. /\ content' = content /\ nextUID' = nextUID /\ mutex' = mutex /\ update' = update
      /\ seen' = seen /\ queue' = queue
  BY Zenon DEF Delivery, Coalesce, FlushVanished, WriteUpdate, WriteFails, EndPoll,
         mboxVars, fanVars, sessVars
<1>4. ASSUME batch[s] # <<>>
      PROVE  /\ Good(Head(batch[s]), content, nextUID)
             /\ AllGood(Tail(batch[s]), content, nextUID)
             /\ WellFormed(Head(batch[s]))
  <2>1. Len(batch[s]) \in Nat \ {0} /\ Head(batch[s]) = batch[s][1]
    BY <1>2, <1>4
  <2>2. WellFormed(Head(batch[s]))
    BY <1>2, <2>1
  <2> QED
    BY <1>2, <1>4, <2>2, GoodTail DEF SessionPast
<1>5. AllGood(<<>>, content, nextUID)
  BY DEF AllGood
<1>6. ASSUME \A t \in Session \ {s} : batch'[t] = batch[t] /\ vanished'[t] = vanished[t],
             AllGood(batch'[s], content, nextUID),
             vanished'[s] \subseteq 1 .. nextUID - 1, vanished'[s] \cap content = {}
      PROVE  RefinementInv'
  <2>1. SessionPast(s)'
    BY <1>2, <1>3, <1>6, Zenon DEF SessionPast
  <2> QED
    BY <1>3, <1>6, <2>1, OneSessionPast, Zenon
<1>7. CASE Coalesce(s)
  <2> DEFINE u == Head(batch[s])
  <2>1. /\ batch[s] # <<>> /\ u.kind = "expunge"
        /\ vanished' = [vanished EXCEPT ![s] = @ \cup {u.uid}]
        /\ batch' = [batch EXCEPT ![s] = Tail(@)]
    BY <1>7, Zenon DEF Coalesce, Coalesces
  <2>2. vanished'[s] = vanished[s] \cup {u.uid} /\ batch'[s] = Tail(batch[s])
    BY <1>1, <2>1
  <2>3. Good(u, content, nextUID) /\ WellFormed(u) /\ AllGood(Tail(batch[s]), content, nextUID)
    BY <1>4, <2>1, Zenon
  <2> HIDE DEF u
  <2>4. u.uid \notin content /\ u.uid \in 1 .. nextUID - 1
    BY <2>1, <2>3 DEF Good, Past, WellFormed
  <2>5. vanished'[s] \subseteq 1 .. nextUID - 1 /\ vanished'[s] \cap content = {}
    BY <1>2, <2>2, <2>4, Zenon DEF SessionPast
  <2>6. \A t \in Session \ {s} : batch'[t] = batch[t] /\ vanished'[t] = vanished[t]
    BY <1>1, <2>1
  <2> QED
    BY <1>6, <2>2, <2>3, <2>5, <2>6, Zenon
<1>8. CASE FlushVanished(s)
  <2>1. vanished' = [vanished EXCEPT ![s] = {}] /\ batch' = batch
    BY <1>8, Zenon DEF FlushVanished
  <2> QED
    BY <1>1, <1>2, <1>6, <2>1, Zenon DEF SessionPast
<1>9. CASE WriteUpdate(s)
  <2>1. batch[s] # <<>> /\ batch' = [batch EXCEPT ![s] = Tail(@)] /\ vanished' = vanished
    BY <1>9, Zenon DEF WriteUpdate
  <2>2. batch'[s] = Tail(batch[s]) /\ \A t \in Session \ {s} : batch'[t] = batch[t]
    BY <1>1, <2>1, Zenon
  <2> QED
    BY <1>2, <1>4, <1>6, <2>1, <2>2, Zenon DEF SessionPast
<1>10. CASE WriteFails(s)
  <2>1. /\ batch' = [batch EXCEPT ![s] = <<>>]
        /\ vanished' = [vanished EXCEPT ![s] = {}]
    BY <1>10, Zenon DEF WriteFails
  <2>2. batch'[s] = <<>> /\ vanished'[s] = {}
    BY <1>1, <2>1
  <2>3. \A t \in Session \ {s} : batch'[t] = batch[t] /\ vanished'[t] = vanished[t]
    BY <1>1, <2>1
  <2> QED
    BY <1>5, <1>6, <2>2, <2>3, Zenon
<1>11. CASE EndPoll(s)
  <2>1. batch' = batch /\ vanished' = vanished
    BY <1>11, Zenon DEF EndPoll
  <2> QED
    BY <1>2, <1>6, <2>1, Zenon DEF SessionPast
<1> QED
  BY <1>7, <1>8, <1>9, <1>10, <1>11, Zenon DEF Delivery

(* Steps that touch nothing of what RefinementInv speaks of. *)
LEMMA UnrelatedPast ==
    ASSUME RefinementInv, content' = content, nextUID' = nextUID,
           mutex' => mutex /\ update' = update,
           seen' = seen, queue' = queue, batch' = batch, vanished' = vanished
    PROVE  RefinementInv'
<1>1. ASSUME NEW s \in Session
      PROVE  SessionPast(s)'
  BY SessionPastKept, Zenon DEF RefinementInv
<1>2. mutex' => Good(update, content, nextUID)'
  BY DEF RefinementInv
<1> QED
  BY <1>1, <1>2 DEF RefinementInv

LEMMA StepPast ==
    ASSUME TrackerInv, RefinementInv, [Next]_vars
    PROVE  RefinementInv'
<1>1. CASE Backend
  BY <1>1, BackendPast, Zenon
<1>2. CASE FanOut
  <2>1. ASSUME NEW s \in Session, EnqueueUpdate(s)
        PROVE  RefinementInv'
    BY <2>1, EnqueuePast, Zenon
  <2>2. ASSUME NEW s \in Session, SendSignal(s)
        PROVE  RefinementInv'
    BY <2>2, UnrelatedPast DEF SendSignal, mboxVars, sessVars, deliverVars
  <2>3. CASE EndFanOut
    BY <2>3, UnrelatedPast, Zenon DEF EndFanOut, mboxVars, sessVars, deliverVars
  <2> QED
    BY <1>2, <2>1, <2>2, <2>3 DEF FanOut
<1>3. ASSUME NEW s \in Session, SessionStep(s)
      PROVE  RefinementInv'
  <2>1. CASE NewSession(s)
    BY <2>1, NewSessionPast
  <2>2. CASE CloseClear(s)
    BY <2>2, UnrelatedPast, Zenon DEF CloseClear, mboxVars, fanVars, deliverVars
  <2>3. CASE CloseDelete(s)
    BY <2>3, UnrelatedPast DEF CloseDelete, fanVars, deliverVars
  <2>4. ASSUME NEW allowExpunge \in BOOLEAN, Poll(s, allowExpunge)
        PROVE  RefinementInv'
    BY <2>4, DequeuePast, Zenon DEF Poll
  <2>5. CASE Delivery(s)
    BY <2>5, DeliveryPast
  <2>6. CASE IdleRegister(s)
    BY <2>6, UnrelatedPast, Zenon DEF IdleRegister, mboxVars, fanVars, sessVars, deliverVars
  <2>7. CASE IdlePoll(s)
    BY <2>7, DequeuePast, Zenon DEF IdlePoll
  <2>8. CASE IdleWake(s)
    BY <2>8, UnrelatedPast DEF IdleWake, mboxVars, fanVars, sessVars, deliverVars
  <2>9. CASE IdleStop(s)
    BY <2>9, UnrelatedPast DEF IdleStop, mboxVars, sessVars, deliverVars
  <2> QED
    BY <1>3, <2>1, <2>2, <2>3, <2>4, <2>5, <2>6, <2>7, <2>8, <2>9 DEF SessionStep, IdleLoop
<1>4. CASE UNCHANGED vars
  BY <1>4, UnrelatedPast DEF vars, mboxVars, fanVars, sessVars, deliverVars
<1> QED
  BY <1>1, <1>2, <1>3, <1>4 DEF Next

-----------------------------------------------------------------------------
(***************************************************************************)
(* Each step is a step of SharedMailbox, or none.                          *)
(***************************************************************************)
LEMMA SharedInit == Init => Shared!Init
<1> SUFFICES ASSUME Init PROVE Shared!Init
  OBVIOUS
<1>1. {s \in Session : life[s] # "new"} = {} /\ {s \in Session : broken[s]} = {}
  BY DEF Init
<1> QED
  BY <1>1, Zenon DEF Init, Shared!Init

(* A step that SharedMailbox does not see. *)
LEMMA Unseen ==
    ASSUME content' = content, nextUID' = nextUID, view' = view, broken' = broken,
           \A s \in Session : life'[s] = "new" <=> life[s] = "new"
    PROVE  UNCHANGED Shared!vars
<1>1. {s \in Session : life'[s] # "new"} = {s \in Session : life[s] # "new"}
  BY Zenon
<1> QED
  BY <1>1 DEF Shared!vars

LEMMA BackendShared ==
    ASSUME TrackerInv, Backend
    PROVE  Shared!Next \/ UNCHANGED Shared!vars
<1>1. TypeOK /\ MailboxInv
  BY Zenon DEF TrackerInv
<1>2. life' = life /\ view' = view /\ broken' = broken
  BY Zenon DEF Backend, QueueExpunge, QueueNumMessages, QueueMailboxFlags, QueueMessageFlags,
         BeginFanOut, sessVars, clientVars
<1>3. ASSUME NEW m \in 1 .. MaxUID, NEW known \in UIDGiven, QueueExpunge(m, known)
      PROVE  Shared!Leave
  <2> DEFINE w == MessageAt(content, m)
  <2>1. m \in 1 .. Cardinality(content) /\ content \in SUBSET UID
    BY <1>1, <1>3, TrackerAssumption DEF QueueExpunge, MailboxInv, TypeOK, MailboxType
  <2>2. w \in content
    BY <2>1, RankOnto, Zenon
  <2>3. content' = content \ {w} /\ nextUID' = nextUID
    BY <1>3, Zenon DEF QueueExpunge, BeginFanOut, Expunge
  <2> HIDE DEF w
  <2> QED
    BY <1>2, <2>2, <2>3 DEF Shared!Leave
<1>4. ASSUME NEW m \in 1 .. MaxUID, QueueNumMessages(m)
      PROVE  Shared!Arrive
  <2>1. nextUID \in Nat /\ numMessages \in Nat /\ m \in Nat /\ m >= numMessages
    BY <1>1, <1>4, TrackerAssumption DEF QueueNumMessages, TypeOK, MailboxType
  <2>2. /\ nextUID' = nextUID + (m - numMessages)
        /\ content' = content \cup (nextUID .. (nextUID + (m - numMessages) - 1))
    BY <1>4, Zenon DEF QueueNumMessages, BeginFanOut, NumMessages
  <2>3. nextUID' \in Nat /\ nextUID' >= nextUID
    BY <2>1, <2>2
  <2>4. content' = content \cup (nextUID .. nextUID' - 1)
    <3>1. nextUID' = nextUID + (m - numMessages)
      BY <2>2, Zenon
    <3>2. nextUID + (m - numMessages) - 1 = nextUID' - 1
      BY <2>1, <3>1
    <3> QED
      BY Zenon, <2>2, <3>2
  <2> QED
    BY <1>2, <2>3, <2>4 DEF Shared!Arrive
<1>5. CASE QueueMailboxFlags
  <2>1. content' = content /\ nextUID' = nextUID
    BY <1>5, Zenon DEF QueueMailboxFlags, BeginFanOut, MailboxFlags
  <2> QED
    BY <1>2, <2>1, Unseen
<1>6. ASSUME NEW m, NEW src, QueueMessageFlags(m, src)
      PROVE  UNCHANGED Shared!vars
  <2>1. content' = content /\ nextUID' = nextUID
    BY <1>6, Zenon DEF QueueMessageFlags, BeginFanOut, MessageFlags
  <2> QED
    BY <1>2, <2>1, Unseen
<1> QED
  BY <1>3, <1>4, <1>5, <1>6 DEF Backend, Shared!Next

LEMMA NewSessionShared ==
    ASSUME TrackerInv, NEW s \in Session, NewSession(s)
    PROVE  Shared!Open(s)
<1>1. life \in [Session -> {"new", "open", "closing", "closed"}] /\ life[s] = "new"
  BY Zenon DEF NewSession, TrackerInv, TypeOK, SessionType
<1>2. life' = [life EXCEPT ![s] = "open"] /\ view' = [view EXCEPT ![s] = content]
      /\ content' = content /\ nextUID' = nextUID /\ broken' = broken
  BY DEF NewSession
<1>3. {t \in Session : life'[t] # "new"} = {t \in Session : life[t] # "new"} \cup {s}
  BY <1>1, <1>2
<1> QED
  BY <1>1, <1>2, <1>3 DEF Shared!Open

(* A client that is told of v. *)
LEMMA TellShared ==
    ASSUME NEW s \in Session, NEW v, life[s] # "new", ~broken[s],
           life' = life, broken' = broken, content' = content, nextUID' = nextUID,
           view' = [view EXCEPT ![s] = v],
           Past(v, content, nextUID),
           (view[s] \ v) \cap content = {},
           \A a \in view[s], b \in v \ view[s] : a < b
    PROVE  Shared!Tell(s)
<1>1. v \in SUBSET (1 .. nextUID - 1) /\ \A a \in v, b \in content \ v : a < b
  BY Zenon DEF Past
<1>2. s \in {t \in Session : life[t] # "new"} \ {t \in Session : broken[t]}
  OBVIOUS
<1> QED
  BY <1>1, <1>2, Zenon DEF Shared!Tell

(* Where the queue starts has been the mailbox. *)
LEMMA QueueStartPast ==
    ASSUME TrackerInv, RefinementInv, NEW s \in Session
    PROVE  Past(QueueStart(s), content, nextUID)
<1>1. SessionPast(s) /\ Len(queue[s]) \in Nat
  BY LenZero, Zenon DEF RefinementInv, TrackerInv, TypeOK, SessionType
<1>2. CASE Len(queue[s]) = 0
  BY <1>1, <1>2, Zenon DEF SessionPast, QueueStart
<1>3. CASE Len(queue[s]) # 0
  BY <1>1, <1>3 DEF SessionPast, QueueStart, AllGood, Good
<1> QED
  BY <1>2, <1>3, Zenon

LEMMA FlushShared ==
    ASSUME TrackerInv, RefinementInv, NEW s \in Session, FlushVanished(s)
    PROVE  Shared!Tell(s)
<1> DEFINE v == view[s] \ vanished[s]
<1>1. /\ ~broken[s] /\ deliver[s] # "free" /\ view' = [view EXCEPT ![s] = v]
      /\ life' = life /\ broken' = broken /\ content' = content /\ nextUID' = nextUID
  BY Zenon DEF FlushVanished, mboxVars, sessVars
<1>2. /\ life[s] # "new" /\ batch[s] \in Seq(Update) /\ SessionPast(s)
      /\ Chained(batch[s], v, QueueStart(s)) /\ vanished[s] \subseteq view[s]
  BY <1>1, Zenon DEF TrackerInv, SessionInv, FreshInv, UnbrokenChain, ChainInv, TypeOK,
              DeliveryType, RefinementInv
<1>3. Len(batch[s]) \in Nat
  BY <1>2, LenZero, Zenon
<1> HIDE DEF v
<1>4. Past(v, content, nextUID)
  <2>1. CASE Len(batch[s]) = 0
    BY <1>2, <2>1, QueueStartPast, Zenon DEF Chained
  <2>2. CASE Len(batch[s]) # 0
    <3>1. v = batch[s][1].pre
      BY <1>2, <2>2, Zenon DEF Chained
    <3>2. AllGood(batch[s], content, nextUID)
      BY <1>2 DEF SessionPast
    <3>3. 1 \in 1 .. Len(batch[s])
      BY <1>3, <2>2
    <3>4. Past(batch[s][1].pre, content, nextUID)
      BY Zenon, <3>2, <3>3 DEF AllGood, Good
    <3> QED
      BY Zenon, <3>1, <3>4
  <2> QED
    BY <2>1, <2>2, Zenon
<1>5. (view[s] \ v) \cap content = {} /\ v \ view[s] = {}
  BY <1>2, Zenon DEF v, SessionPast
<1> QED
  BY <1>1, <1>2, <1>4, <1>5, TellShared, Zenon

LEMMA WriteShared ==
    ASSUME TrackerInv, RefinementInv, NEW s \in Session, WriteUpdate(s)
    PROVE  Shared!Tell(s)
<1> DEFINE u == Head(batch[s])
           v == ClientView(u, view[s])
<1>1. /\ ~broken[s] /\ deliver[s] # "free" /\ batch[s] # <<>> /\ vanished[s] = {}
      /\ view' = [view EXCEPT ![s] = v]
      /\ life' = life /\ broken' = broken /\ content' = content /\ nextUID' = nextUID
  BY Zenon DEF WriteUpdate, mboxVars, sessVars
<1>2. /\ life[s] # "new" /\ batch[s] \in Seq(Update) /\ SessionPast(s)
      /\ Chained(batch[s], view[s], QueueStart(s))
      /\ view[s] \in SUBSET UID
      /\ \A i \in 1 .. Len(batch[s]) : WellFormed(batch[s][i])
  BY <1>1, Zenon DEF TrackerInv, SessionInv, FreshInv, UnbrokenChain, ChainInv, TypeOK,
              DeliveryType, RefinementInv
<1>3. /\ u \in Update /\ u.pre = view[s] /\ u = batch[s][1]
      /\ Good(u, content, nextUID)
  <2>1. AllGood(batch[s], content, nextUID)
    BY <1>2, Zenon DEF SessionPast
  <2> QED
    BY <1>1, <1>2, <2>1, ChainTail, GoodTail, Zenon
<1>4. WellFormed(u)
  <2>1. Len(batch[s]) \in Nat \ {0}
    BY <1>1, <1>2
  <2>2. 1 \in 1 .. Len(batch[s])
    BY <2>1
  <2>3. WellFormed(batch[s][1])
    BY Zenon, <1>2, <2>2
  <2>4. u = batch[s][1]
    BY Zenon, <1>3
  <2> HIDE DEF u
  <2> QED
    BY Zenon, <2>3, <2>4
<1> HIDE DEF u
<1>5. v = u.post /\ (u.kind = "expunge" => u.post = view[s] \ {u.uid})
      /\ (u.kind # "expunge" => view[s] \subseteq u.post)
  <2>1. CASE u.kind = "expunge"
    <3>1. u.uid \in view[s] /\ u.n = SeqNumOf(view[s], u.uid) /\ u.post = view[s] \ {u.uid}
      BY <1>3, <1>4, <2>1, Zenon DEF WellFormed
    <3>2. {w \in view[s] : SeqNumOf(view[s], w) # SeqNumOf(view[s], u.uid)} = view[s] \ {u.uid}
      BY Zenon, <1>2, <3>1, RemoveRanked
    <3>3. {w \in view[s] : SeqNumOf(view[s], w) # u.n} = u.post
      BY Zenon, <3>1, <3>2
    <3>4. v = u.post
      BY Zenon, <2>1, <3>3 DEF ClientView
    <3> QED
      BY <2>1, <3>1, <3>4, Zenon
  <2>2. CASE u.kind = "exists"
    BY <1>3, <1>4, <2>2, Zenon DEF WellFormed, ClientView
  <2>3. CASE u.kind \in {"flags", "fetch"}
    BY <1>3, <1>4, <2>3, Zenon DEF WellFormed, ClientView
  <2> QED
    BY <1>3, <2>1, <2>2, <2>3, Zenon DEF Update, Kind
<1> HIDE DEF v
<1>6. Past(v, content, nextUID) /\ \A a \in view[s], b \in v \ view[s] : a < b
  BY <1>3, <1>5, Zenon DEF Good
<1>7. (view[s] \ v) \cap content = {}
  <2>1. CASE u.kind = "expunge"
    BY <1>3, <1>5, <2>1, Zenon DEF Good
  <2>2. CASE u.kind # "expunge"
    BY <1>5, <2>2
  <2> QED
    BY <2>1, <2>2
<1> QED
  BY <1>1, <1>2, <1>6, <1>7, TellShared, Zenon

LEMMA FailShared ==
    ASSUME TrackerInv, NEW s \in Session, WriteFails(s)
    PROVE  Shared!Lose(s)
<1>1. /\ broken' = [broken EXCEPT ![s] = TRUE] /\ view' = [view EXCEPT ![s] = {}]
      /\ life' = life /\ content' = content /\ nextUID' = nextUID
  BY DEF WriteFails, mboxVars, sessVars
<1>2. broken \in [Session -> BOOLEAN]
  BY Zenon DEF TrackerInv, TypeOK, DeliveryType
<1>3. {t \in Session : broken'[t]} = {t \in Session : broken[t]} \cup {s}
  BY <1>1, <1>2
<1> QED
  BY <1>1, <1>3, Zenon DEF Shared!Lose

LEMMA StepShared ==
    ASSUME TrackerInv, RefinementInv, [Next]_vars
    PROVE  Shared!Next \/ UNCHANGED Shared!vars
<1>1. CASE Backend
  BY <1>1, BackendShared, Zenon
<1>2. CASE FanOut
  <2>1. content' = content /\ nextUID' = nextUID /\ view' = view /\ broken' = broken
        /\ life' = life
    BY <1>2, Zenon DEF FanOut, EnqueueUpdate, SendSignal, EndFanOut, mboxVars, sessVars, clientVars
  <2> QED
    BY <2>1, Unseen, Zenon
<1>3. ASSUME NEW s \in Session, SessionStep(s)
      PROVE  Shared!Next \/ UNCHANGED Shared!vars
  <2>1. CASE NewSession(s)
    BY <2>1, NewSessionShared, Zenon DEF Shared!Next
  <2>2. CASE FlushVanished(s)
    BY <2>2, FlushShared DEF Shared!Next
  <2>3. CASE WriteUpdate(s)
    BY <2>3, WriteShared DEF Shared!Next
  <2>4. CASE WriteFails(s)
    BY <2>4, FailShared, Zenon DEF Shared!Next
  <2>5. CASE CloseClear(s) \/ CloseDelete(s)
    <3>1. content' = content /\ nextUID' = nextUID /\ view' = view /\ broken' = broken
      BY <2>5, Zenon DEF CloseClear, CloseDelete, mboxVars, clientVars
    <3>2. /\ life[s] # "new"
          /\ life' = [life EXCEPT ![s] = "closing"] \/ life' = [life EXCEPT ![s] = "closed"]
      BY <2>5 DEF CloseClear, CloseDelete
    <3>3. life \in [Session -> {"new", "open", "closing", "closed"}]
      BY Zenon DEF TrackerInv, TypeOK, SessionType
    <3>4. \A t \in Session : life'[t] = "new" <=> life[t] = "new"
      BY <3>2, <3>3
    <3> QED
      BY <3>1, <3>4, Unseen
  <2>6. CASE \/ \E allowExpunge \in BOOLEAN : Poll(s, allowExpunge)
             \/ Coalesce(s) \/ EndPoll(s)
             \/ IdleRegister(s) \/ IdleLoop(s) \/ IdleStop(s)
    <3>1. content' = content /\ nextUID' = nextUID /\ view' = view /\ broken' = broken
          /\ life' = life
      BY <2>6, Zenon DEF Poll, Dequeue, Coalesce, EndPoll, IdleRegister, IdleLoop, IdlePoll,
                  IdleWake, IdleStop, mboxVars, sessVars, clientVars
    <3> QED
      BY <3>1, Unseen
  <2> QED
    BY <1>3, <2>1, <2>2, <2>3, <2>4, <2>5, <2>6 DEF SessionStep, Delivery
<1>4. CASE UNCHANGED vars
  BY <1>4, Unseen DEF vars, mboxVars, sessVars, clientVars
<1> QED
  BY <1>1, <1>2, <1>3, <1>4 DEF Next

(* What was handed to sessions has been the mailbox, and what they are told *)
(* has left it is gone for good, whatever the four Queue operations do.     *)
THEOREM UpdatesStayTrue == Spec => []RefinementInv
<1>1. TrackerInv /\ RefinementInv /\ [Next]_vars => RefinementInv'
  BY StepPast, Zenon
<1> QED
  BY <1>1, InitRefinementInv, TrackerInvariant, PTL DEF Spec

(* The tracker, with its fan-out, queues, batches, VANISHED sets and        *)
(* sequence numbers, implements the shared mailbox.                         *)
THEOREM TrackerImplementsSharedMailbox == Spec => SharedMailboxImplemented
<1>1. TrackerInv /\ RefinementInv /\ [Next]_vars => [Shared!Next]_(Shared!vars)
  BY StepShared, Zenon
<1> QED
  BY <1>1, SharedInit, TrackerInvariant, UpdatesStayTrue, PTL
     DEF Spec, SharedMailboxImplemented, Shared!Spec

-----------------------------------------------------------------------------
(* A message that leaves the mailbox does not come back into any queue: the *)
(* update of a fan-out speaks of the mailbox as it is, which has none of    *)
(* those that were expunged before.                                         *)
LEMMA QueuesForwardStep ==
    TrackerInv /\ RefinementInv /\ QueuesForward /\ [Next]_vars => QueuesForward'
<1> SUFFICES ASSUME TrackerInv, RefinementInv, QueuesForward, [Next]_vars, NEW s \in Session
             PROVE  NoneReturns(queue'[s])
  BY Zenon DEF QueuesForward
<1>1. queue \in [Session -> Seq(Update)] /\ NoneReturns(queue[s])
  BY DEF TrackerInv, TypeOK, SessionType, QueuesForward
<1>2. ASSUME queue'[s] = queue[s] PROVE NoneReturns(queue'[s])
  BY <1>1, <1>2
<1>3. ASSUME NEW t \in Session, EnqueueUpdate(t) PROVE NoneReturns(queue'[s])
  <2> DEFINE q == queue[s]
             r == Append(q, update)
  <2>1. CASE queue'[s] = q
    BY <1>2, <2>1
  <2>2. CASE queue'[s] # q
    <3>1. queue'[s] = r
      BY <1>1, <1>3, <2>2 DEF EnqueueUpdate
    <3>2. q \in Seq(Update) /\ Len(q) \in Nat /\ update \in Update
      BY <1>1 DEF TrackerInv, TypeOK, MailboxType
    <3>3. update.post = content
      BY <1>3, Zenon DEF EnqueueUpdate, TrackerInv, FanOutInv
    <3>4. \A i \in 1 .. Len(q) : q[i].kind = "expunge" => q[i].uid \notin content
      BY Zenon DEF RefinementInv, SessionPast, AllGood, Good
    <3> HIDE DEF q
    <3>5. Len(r) = Len(q) + 1 /\ r[Len(q) + 1] = update /\ \A i \in 1 .. Len(q) : r[i] = q[i]
      BY <3>2
    <3> HIDE DEF r
    <3>6. NoneReturns(q)
      BY <1>1, Zenon DEF q
    <3>7. ASSUME NEW i \in 1 .. Len(r), NEW j \in 1 .. Len(r), r[i].kind = "expunge", i < j
          PROVE  r[i].uid \notin r[j].post
      <4>1. i \in 1 .. Len(q) /\ r[i] = q[i]
        BY <3>2, <3>5, <3>7
      <4>2. CASE j = Len(q) + 1
        BY <3>3, <3>4, <3>5, <3>7, <4>1, <4>2, Zenon
      <4>3. CASE j # Len(q) + 1
        <5>1. j \in 1 .. Len(q) /\ r[j] = q[j]
          BY <3>2, <3>5, <4>3
        <5> QED BY <3>6, <3>7, <4>1, <5>1, Zenon DEF NoneReturns
      <4> QED BY <4>2, <4>3
    <3> QED BY <3>1, <3>7, Zenon DEF NoneReturns
  <2> QED BY <2>1, <2>2, Zenon
<1>4. ASSUME NEW t \in Session, NEW e, NEW w, Dequeue(t, e, w) PROVE NoneReturns(queue'[s])
  <2> DEFINE q == queue[s]
  <2>1. CASE t # s
    BY <1>1, <1>2, <1>4, <2>1, Zenon DEF Dequeue
  <2>2. CASE t = s
    <3>1. PICK k \in 0 .. Len(q) : queue'[s] = SubSeq(q, k + 1, Len(q))
      BY <1>1, <1>4, <2>2, Zenon DEF Dequeue
    <3> DEFINE r == SubSeq(q, k + 1, Len(q))
    <3>2. q \in Seq(Update) /\ Len(q) \in Nat /\ k \in Nat /\ NoneReturns(q)
      BY <1>1
    <3> HIDE DEF q
    <3>3. Len(r) = Len(q) - k /\ \A i \in 1 .. Len(r) : r[i] = q[k + i]
      BY <3>2
    <3> HIDE DEF r
    <3>4. ASSUME NEW i \in 1 .. Len(r), NEW j \in 1 .. Len(r), r[i].kind = "expunge", i < j
          PROVE  r[i].uid \notin r[j].post
      <4>1. k + i \in 1 .. Len(q) /\ k + j \in 1 .. Len(q) /\ k + i < k + j
        BY <3>2, <3>3, <3>4
      <4> QED BY <3>2, <3>3, <3>4, <4>1, Zenon DEF NoneReturns
    <3>5. NoneReturns(r)
      BY <3>4 DEF NoneReturns
    <3> QED BY <3>1, <3>5 DEF r
  <2> QED BY <2>1, <2>2
<1>5. ASSUME UNCHANGED queue PROVE NoneReturns(queue'[s])
  BY <1>2, <1>5, Zenon
<1>6. ASSUME Backend PROVE NoneReturns(queue'[s])
  BY <1>5, <1>6, Zenon
  DEF Backend, QueueExpunge, QueueNumMessages, QueueMailboxFlags, QueueMessageFlags, BeginFanOut, sessVars
<1>7. ASSUME FanOut PROVE NoneReturns(queue'[s])
  BY <1>3, <1>5, <1>7, Zenon DEF FanOut, SendSignal, EndFanOut, sessVars
<1>8. ASSUME NEW t \in Session, SessionStep(t) PROVE NoneReturns(queue'[s])
  <2>1. ASSUME Delivery(t) PROVE UNCHANGED queue
    BY <2>1, Zenon DEF Delivery, Coalesce, FlushVanished, WriteUpdate, WriteFails, EndPoll, sessVars
  <2>2. ASSUME NewSession(t) \/ CloseClear(t) \/ CloseDelete(t) \/ IdleRegister(t) \/ IdleWake(t) \/ IdleStop(t)
        PROVE  UNCHANGED queue
    BY <2>2, Zenon DEF NewSession, CloseClear, CloseDelete, IdleRegister, IdleWake, IdleStop, sessVars
  <2> QED BY <1>4, <1>5, <1>8, <2>1, <2>2, Zenon DEF SessionStep, Poll, IdleLoop, IdlePoll
<1>9. ASSUME UNCHANGED vars PROVE NoneReturns(queue'[s])
  BY <1>5, <1>9, Zenon DEF vars, sessVars
<1> QED BY <1>6, <1>7, <1>8, <1>9, Zenon DEF Next

(* A session at rest translates exactly. *)
LEMMA Translates ==
    TrackerInv /\ RefinementInv /\ QueuesForward => TranslationExact
<1> SUFFICES ASSUME TrackerInv, RefinementInv, QueuesForward,
                    NEW s \in Session, life[s] = "open", Settled(s)
             PROVE  /\ EncodeNumMessages(s) = exists[s]
                    /\ \A u \in seen[s] :
                          EncodeSeqNum(s, SeqNumOf(seen[s], u)) = Position(view[s], u)
                    /\ \A u \in view[s] :
                          DecodeSeqNum(s, SeqNumOf(view[s], u)) = Position(seen[s], u)
  BY Zenon DEF TranslationExact
<1> DEFINE q == queue[s]
           a == view[s]
           b == seen[s]
<1>1. q \in Seq(Update) /\ a \in SUBSET UID /\ b \in SUBSET UID
  BY Zenon DEF TrackerInv, TypeOK, SessionType, DeliveryType
<1>2. /\ exists[s] = Cardinality(a) /\ sessNum[s] = Cardinality(b)
      /\ \A i \in 1 .. Len(q) : WellFormed(q[i])
      /\ Chained(batch[s], a \ {}, QueueStart(s)) /\ Chained(q, QueueStart(s), b)
  BY Zenon DEF Settled, TrackerInv, SessionInv, UnbrokenChain, ChainInv
<1>3. QueueStart(s) = a
  BY <1>2, Zenon DEF Settled, Chained
<1>4. \A i \in 1 .. Len(q) : InOrder(q[i])
  BY Zenon DEF RefinementInv, SessionPast, AllGood, Good, InOrder
<1>5. Forward(q, a, b)
  BY <1>1, <1>2, <1>3, <1>4, Zenon DEF Forward, QueuesForward
<1>6. EncodeNumMessages(s) = exists[s]
  <2>1. EncodeNumMessages(s) = EncodedNum(q, Cardinality(b))
    BY <1>2, Zenon DEF EncodeNumMessages
  <2>2. EncodedNum(q, Cardinality(b)) = Cardinality(a)
    BY ONLY <1>5, EncodedNumExact
  <2> QED BY <1>2, <2>1, <2>2, Zenon
<1>7. ASSUME NEW u \in b PROVE EncodeSeqNum(s, SeqNumOf(b, u)) = Position(a, u)
  <2>1. Encoded(q, SeqNumOf(b, u)) = Position(a, u)
    BY ONLY <1>5, <1>7, EncodedExact
  <2>2. ~(SeqNumOf(b, u) > sessNum[s])
    <3>1. ~(SeqNumOf(b, u) > Cardinality(b))
      BY ONLY <1>1, <1>7, InRange, Zenon
    <3> QED BY <1>2, <3>1, Zenon
  <2> QED BY <2>1, <2>2, Zenon DEF EncodeSeqNum
<1>8. ASSUME NEW u \in a PROVE DecodeSeqNum(s, SeqNumOf(a, u)) = Position(b, u)
  <2>1. Decoded(q, SeqNumOf(a, u)) = Position(b, u)
    BY ONLY <1>5, <1>8, DecodedExact
  <2>2. ~(Position(b, u) > sessNum[s])
    <3>1. ~(Position(b, u) > Cardinality(b))
      BY ONLY <1>1, InRange, Zenon
    <3> QED BY <1>2, <3>1, Zenon
  <2> QED BY <2>1, <2>2, Zenon DEF DecodeSeqNum
<1> QED BY <1>6, <1>7, <1>8, Zenon

(***************************************************************************)
(* At any moment at which no delivery to it is under way, a session's      *)
(* EncodeSeqNum, DecodeSeqNum and EncodeNumMessages translate between the  *)
(* numbers of the server and those of its client by message, through any   *)
(* queue of expunges, arrivals and flag changes.                           *)
(***************************************************************************)
THEOREM NumbersTranslate == Spec => []TranslationExact
<1>1. Init => QueuesForward
  <2> SUFFICES ASSUME Init, NEW s \in Session PROVE NoneReturns(queue[s])
    BY DEF QueuesForward
  <2>1. queue[s] = <<>>
    BY DEF Init
  <2> QED BY <2>1 DEF NoneReturns
<1> QED
  BY <1>1, QueuesForwardStep, Translates, TrackerInvariant, UpdatesStayTrue, PTL DEF Spec
=============================================================================
