--------------------------- MODULE SessionReaders ---------------------------
(***************************************************************************)
(* The sequence-number conversions of SessionTracker (tracker.go), read by *)
(* the commands of a session at any moment of its tracker's life.          *)
(***************************************************************************)
EXTENDS MailboxTracker

(***************************************************************************)
(* The readers of a session.  Each walks the queue under the session's     *)
(* mutex, and answers 0 once Close has cleared mailbox.                    *)
(***************************************************************************)
DecodeStep(n, u) ==
    IF u.kind = "expunge" /\ n = u.n THEN 0
    ELSE IF u.kind = "expunge" /\ n > u.n THEN n - 1
    ELSE n

(* From the oldest update to the latest. *)
Decoded(q, seqNum) ==
    LET after[i \in 0 .. Len(q)] ==
            IF i = 0 THEN seqNum ELSE DecodeStep(after[i - 1], q[i])
    IN  after[Len(q)]

DecodeSeqNum(s, seqNum) ==
    LET n == Decoded(queue[s], seqNum)
    IN  IF life[s] # "open" \/ n > sessNum[s] THEN 0 ELSE n

(* Mutant: off by one, the expunged position itself is not shifted. *)
EncodeStepOffByOne(u, n) ==
    IF u.kind = "exists" /\ u.prev < n /\ n <= u.n THEN 0
    ELSE IF u.kind = "expunge" /\ n > u.n THEN n + 1
    ELSE n

EncodeStep(u, n) ==
    IF u.kind = "exists" /\ u.prev < n /\ n <= u.n THEN 0
    ELSE IF u.kind = "expunge" /\ n >= u.n THEN n + 1
    ELSE n

(* From the latest update back to the oldest. *)
Encoded(q, seqNum) ==
    LET before[i \in 0 .. Len(q)] ==
            IF i = 0 THEN seqNum ELSE EncodeStep(q[Len(q) + 1 - i], before[i - 1])
    IN  before[Len(q)]

EncodeSeqNum(s, seqNum) ==
    IF life[s] # "open" \/ seqNum > sessNum[s] THEN 0 ELSE Encoded(queue[s], seqNum)

EncodeNumStep(u, n) ==
    CASE u.kind = "exists"  -> u.prev
      [] u.kind = "expunge" -> n + 1
      [] OTHER              -> n

EncodedNum(q, num) ==
    LET before[i \in 0 .. Len(q)] ==
            IF i = 0 THEN num ELSE EncodeNumStep(q[Len(q) + 1 - i], before[i - 1])
    IN  before[Len(q)]

EncodeNumMessages(s) == IF life[s] # "open" THEN 0 ELSE EncodedNum(queue[s], sessNum[s])

-----------------------------------------------------------------------------
Settled(s) == batch[s] = <<>> /\ vanished[s] = {} /\ ~broken[s]

Position(S, u) == IF u \in S THEN SeqNumOf(S, u) ELSE 0

(***************************************************************************)
(* Whenever no delivery is under way, also in the middle of a fan-out that *)
(* has reached only some of the sessions: EncodeNumMessages ("*" in a      *)
(* sequence set) is the largest sequence number the client can name, and   *)
(* EncodeSeqNum and DecodeSeqNum translate by message.  A server position  *)
(* becomes the number under which the client knows that very message (0 if *)
(* it does not), and back, whatever is queued in between.                  *)
(***************************************************************************)
TranslationExact ==
    \A s \in Session : life[s] = "open" /\ Settled(s) =>
        /\ EncodeNumMessages(s) = exists[s]
        /\ \A u \in seen[s] :
              EncodeSeqNum(s, SeqNumOf(seen[s], u)) = Position(view[s], u)
        /\ \A u \in view[s] :
              DecodeSeqNum(s, SeqNumOf(view[s], u)) = Position(seen[s], u)

-----------------------------------------------------------------------------
(* What TranslationExact needs of a queue beyond the chain it is: a message *)
(* that is expunged in it does not come back in it.                         *)
NoneReturns(q) ==
    \A i, j \in 1 .. Len(q) :
        q[i].kind = "expunge" /\ i < j => q[i].uid \notin q[j].post

QueuesForward == \A s \in Session : NoneReturns(queue[s])
=============================================================================
