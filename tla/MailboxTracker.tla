--------------------------- MODULE MailboxTracker ---------------------------
(***************************************************************************)
(* MailboxTracker and SessionTracker (imapserver/tracker.go): the fan-out  *)
(* of mailbox updates to every session that has the mailbox selected, the  *)
(* per-session queue, and its delivery to the client by Poll and Idle.     *)
(* SessionReaders adds the conversions of sequence numbers.                *)
(*                                                                         *)
(* Steps are as fine as the locks: queueUpdate holds the mailbox mutex     *)
(* (mutex) while it hands the update to one session after the other, each  *)
(* under that session's own mutex, and signals the session's Idle after    *)
(* releasing it; a poll holds the session's delivery mutex (deliver) from  *)
(* the moment it takes a batch out of the queue to its last network write. *)
(*                                                                         *)
(* History variables name the messages behind the numbers: a message is a  *)
(* UID, a mailbox or a client's view of it is a set of UIDs, and the       *)
(* sequence number of a message is its rank in that set.                   *)
(***************************************************************************)
EXTENDS Integers, Sequences, FiniteSets

CONSTANTS
    Session,    \* the SessionTrackers that may be created
    NoSession,  \* a nil *SessionTracker
    MaxUID,     \* bound: the largest UID given to a message
    MaxQueue,   \* bound: updates waiting for a session, queued or in a batch
    Idler,      \* the sessions whose client issues IDLE
    QResyncOn,  \* what a poll may read from the enabled set: subset of BOOLEAN
    UIDGiven,   \* whether backends pass the expunged UID: subset of BOOLEAN
    ChanCap     \* capacity of Idle's channel (64 in the code)

ASSUME TrackerAssumption ==
    /\ NoSession \notin Session
    /\ MaxUID \in Nat
    /\ MaxQueue \in Nat
    /\ Idler \subseteq Session
    /\ QResyncOn \subseteq BOOLEAN
    /\ UIDGiven \subseteq BOOLEAN
    /\ ChanCap \in Nat \ {0}

VARIABLES
    (* MailboxTracker *)
    numMessages,   \* the server's message count
    sessions,      \* registered sessions
    mutex,         \* TRUE while queueUpdate holds the mailbox mutex
    update,        \* the update being fanned out
    source,        \* the session spared the update, or NoSession
    pending,       \* sessions the fan-out has not reached yet
    signal,        \* session whose channel the fan-out is about to signal
    (* SessionTracker *)
    life,          \* "new", "open", "closing" (mailbox = nil), "closed"
    sessNum,       \* SessionTracker.numMessages
    queue,         \* updates not yet taken by a poll
    updates,       \* nil (NoChan) or the number of signals in the channel
    idle,          \* program counter of SessionTracker.Idle
    (* a delivery in progress *)
    deliver,       \* who holds deliverMutex: "free", "poll", "idle"
    qresync,       \* what the poll read from the connection's enabled set
    batch,         \* dequeued updates not yet written
    vanished,      \* UIDs coalesced into the next VANISHED
    (* the client *)
    exists,        \* the message count the client computes from the wire
    broken,        \* a network write failed: the connection is lost
    (* history *)
    content,       \* the messages in the mailbox
    nextUID,       \* the UID of the next message
    seen,          \* the mailbox as of the last update given to the session
    view           \* the messages the client's sequence numbers stand for

mboxVars    == <<numMessages, sessions, content, nextUID>>
fanVars     == <<mutex, update, source, pending, signal>>
sessVars    == <<life, sessNum, queue, seen>>
idleVars    == <<updates, idle>>
deliverVars == <<deliver, qresync, batch, vanished>>
clientVars  == <<exists, broken, view>>
vars == <<mboxVars, fanVars, sessVars, idleVars, deliverVars, clientVars>>

NoChan == -1

UID == 1 .. MaxUID

(***************************************************************************)
(* Sequence numbers as ranks.                                              *)
(***************************************************************************)
SeqNumOf(S, u) == Cardinality({v \in S : v <= u})
MessageAt(S, n) == CHOOSE u \in S : SeqNumOf(S, u) = n

(***************************************************************************)
(* trackerUpdate.  n is expunge, numMessages or fetch.seqNum by kind; prev *)
(* is prevNumMessages; uid is the message named (known says whether        *)
(* expungeUID carries it, or is 0).  pre and post are history: the mailbox *)
(* before and after the update.                                            *)
(***************************************************************************)
Kind == {"expunge", "exists", "flags", "fetch"}

Update == [kind : Kind, n : Nat, prev : Nat, uid : Nat, known : BOOLEAN,
           pre : SUBSET UID, post : SUBSET UID]

NoUpdate == [kind |-> "flags", n |-> 0, prev |-> 0, uid |-> 0,
             known |-> FALSE, pre |-> {}, post |-> {}]

Expunge(seqNum, known) ==
    LET uid == MessageAt(content, seqNum) IN
    [kind |-> "expunge", n |-> seqNum, prev |-> 0, uid |-> uid,
     known |-> known, pre |-> content, post |-> content \ {uid}]

NumMessages(n) ==
    [kind |-> "exists", n |-> n, prev |-> numMessages, uid |-> 0,
     known |-> FALSE, pre |-> content,
     post |-> content \cup (nextUID .. (nextUID + (n - numMessages) - 1))]

MailboxFlags ==
    [kind |-> "flags", n |-> 0, prev |-> 0, uid |-> 0, known |-> FALSE,
     pre |-> content, post |-> content]

MessageFlags(seqNum) ==
    [kind |-> "fetch", n |-> seqNum, prev |-> 0,
     uid |-> MessageAt(content, seqNum), known |-> FALSE,
     pre |-> content, post |-> content]

-----------------------------------------------------------------------------
Init ==
    /\ numMessages = 0 /\ content = {} /\ nextUID = 1
    /\ sessions = {}
    /\ mutex = FALSE /\ update = NoUpdate /\ source = NoSession
    /\ pending = {} /\ signal = NoSession
    /\ life = [s \in Session |-> "new"]
    /\ sessNum = [s \in Session |-> 0]
    /\ queue = [s \in Session |-> <<>>]
    /\ seen = [s \in Session |-> {}]
    /\ updates = [s \in Session |-> NoChan]
    /\ idle = [s \in Session |-> "off"]
    /\ deliver = [s \in Session |-> "free"]
    /\ qresync = [s \in Session |-> FALSE]
    /\ batch = [s \in Session |-> <<>>]
    /\ vanished = [s \in Session |-> {}]
    /\ exists = [s \in Session |-> 0]
    /\ broken = [s \in Session |-> FALSE]
    /\ view = [s \in Session |-> {}]

(***************************************************************************)
(* NewSession seeds the count and registers in one critical section.  The  *)
(* client starts from the mailbox as of that moment: what a backend        *)
(* answers SELECT with.                                                    *)
(***************************************************************************)
NewSession(s) ==
    /\ ~mutex
    /\ life[s] = "new"
    /\ life' = [life EXCEPT ![s] = "open"]
    /\ sessions' = sessions \cup {s}
    /\ sessNum' = [sessNum EXCEPT ![s] = numMessages]
    /\ seen' = [seen EXCEPT ![s] = content]
    /\ exists' = [exists EXCEPT ![s] = numMessages]
    /\ view' = [view EXCEPT ![s] = content]
    /\ UNCHANGED <<numMessages, content, nextUID, fanVars, queue, idleVars,
                   deliverVars, broken>>

(***************************************************************************)
(* MailboxTracker.queueUpdate up to the loop over the sessions.            *)
(***************************************************************************)
BeginFanOut(u, src) ==
    /\ ~mutex
    /\ \A s \in sessions : Len(batch[s]) + Len(queue[s]) < MaxQueue
    /\ mutex' = TRUE
    /\ update' = u
    /\ source' = src
    /\ pending' = sessions
    /\ content' = u.post
    /\ UNCHANGED <<sessions, signal, sessVars, idleVars, deliverVars, clientVars>>

(* Guards that fail are the error returns: nothing changes. *)
QueueExpunge(seqNum, known) ==
    /\ seqNum # 0
    /\ seqNum <= numMessages
    /\ numMessages' = numMessages - 1
    /\ nextUID' = nextUID
    /\ BeginFanOut(Expunge(seqNum, known), NoSession)

QueueNumMessages(n) ==
    /\ n # 0
    /\ n >= numMessages
    /\ nextUID + (n - numMessages) <= MaxUID + 1
    /\ numMessages' = n
    /\ nextUID' = nextUID + (n - numMessages)
    /\ BeginFanOut(NumMessages(n), NoSession)

QueueMailboxFlags ==
    /\ UNCHANGED <<numMessages, nextUID>>
    /\ BeginFanOut(MailboxFlags, NoSession)

QueueMessageFlags(seqNum, src) ==
    /\ seqNum \in 1 .. numMessages
    /\ UNCHANGED <<numMessages, nextUID>>
    /\ BeginFanOut(MessageFlags(seqNum), src)

(***************************************************************************)
(* SessionTracker.queueUpdate: count and queue in one critical section,    *)
(* the channel read there and signalled after the unlock.                  *)
(***************************************************************************)
EnqueueUpdate(s) ==
    /\ mutex
    /\ signal = NoSession
    /\ s \in pending
    /\ pending' = pending \ {s}
    /\ sessNum' = [sessNum EXCEPT ![s] = numMessages]
    /\ seen' = [seen EXCEPT ![s] = update.post]
    /\ queue' = IF s = source THEN queue
                ELSE [queue EXCEPT ![s] = Append(@, update)]
    /\ signal' = IF s # source /\ updates[s] # NoChan THEN s ELSE NoSession
    /\ UNCHANGED <<mboxVars, mutex, update, source, life, idleVars,
                   deliverVars, clientVars>>

(* The non-blocking send: a full channel drops the signal. *)
SendSignal(s) ==
    /\ signal = s
    /\ signal' = NoSession
    /\ updates' = [updates EXCEPT ![s] = IF @ < ChanCap THEN @ + 1 ELSE @]
    /\ UNCHANGED <<mboxVars, mutex, update, source, pending, sessVars, idle,
                   deliverVars, clientVars>>

(* Mutant: the loop over the sessions is left early. *)
EndFanOutEarly ==
    /\ mutex
    /\ signal = NoSession
    /\ mutex' = FALSE
    /\ update' = NoUpdate
    /\ source' = NoSession
    /\ pending' = {}
    /\ UNCHANGED <<mboxVars, signal, sessVars, idleVars, deliverVars, clientVars>>

EndFanOut ==
    /\ mutex
    /\ pending = {}
    /\ signal = NoSession
    /\ mutex' = FALSE
    /\ update' = NoUpdate
    /\ source' = NoSession
    /\ UNCHANGED <<mboxVars, pending, signal, sessVars, idleVars, deliverVars,
                   clientVars>>

(***************************************************************************)
(* Close: mailbox = nil under the session's mutex, then the deletion under *)
(* the mailbox's.                                                          *)
(***************************************************************************)
CloseClear(s) ==
    /\ life[s] = "open"
    /\ life' = [life EXCEPT ![s] = "closing"]
    /\ UNCHANGED <<mboxVars, fanVars, sessNum, queue, seen, idleVars,
                   deliverVars, clientVars>>

CloseDelete(s) ==
    /\ life[s] = "closing"
    /\ ~mutex
    /\ life' = [life EXCEPT ![s] = "closed"]
    /\ sessions' = sessions \ {s}
    /\ UNCHANGED <<numMessages, content, nextUID, fanVars, sessNum, queue, seen,
                   idleVars, deliverVars, clientVars>>

-----------------------------------------------------------------------------
(***************************************************************************)
(* poll: the delivery mutex is taken and the batch dequeued.  Without      *)
(* allowExpunge the batch stops before the first expunge.                  *)
(***************************************************************************)
BatchLen(q, allowExpunge, k) ==
    IF allowExpunge THEN k = Len(q)
    ELSE /\ \A i \in 1 .. k : q[i].kind # "expunge"
         /\ k < Len(q) => q[k + 1].kind = "expunge"

(* Mutant: without allowExpunge the other updates overtake the expunges. *)
DequeueOvertaking(s, allowExpunge, who) ==
    LET others(u) == allowExpunge \/ u.kind # "expunge"
        left(u)   == ~others(u) IN
    /\ deliver[s] = "free"
    /\ deliver' = [deliver EXCEPT ![s] = who]
    /\ \E q \in QResyncOn : qresync' = [qresync EXCEPT ![s] = q]
    /\ batch' = [batch EXCEPT ![s] = SelectSeq(queue[s], others)]
    /\ queue' = [queue EXCEPT ![s] = SelectSeq(queue[s], left)]
    /\ UNCHANGED <<mboxVars, fanVars, life, sessNum, seen, updates, vanished,
                   clientVars>>

(* Mutant: what is taken is not removed from the queue. *)
DequeueKeeping(s, allowExpunge, who) ==
    /\ deliver[s] = "free"
    /\ deliver' = [deliver EXCEPT ![s] = who]
    /\ \E q \in QResyncOn : qresync' = [qresync EXCEPT ![s] = q]
    /\ \E k \in 0 .. Len(queue[s]) :
        /\ BatchLen(queue[s], allowExpunge, k)
        /\ batch' = [batch EXCEPT ![s] = SubSeq(queue[s], 1, k)]
    /\ UNCHANGED <<mboxVars, fanVars, life, queue, sessNum, seen, updates, vanished,
                   clientVars>>

(* Mutant: the queue resumes one update too late. *)
DequeueSkipping(s, allowExpunge, who) ==
    /\ deliver[s] = "free"
    /\ deliver' = [deliver EXCEPT ![s] = who]
    /\ \E q \in QResyncOn : qresync' = [qresync EXCEPT ![s] = q]
    /\ \E k \in 0 .. Len(queue[s]) :
        /\ BatchLen(queue[s], allowExpunge, k)
        /\ batch' = [batch EXCEPT ![s] = SubSeq(queue[s], 1, k)]
        /\ queue' = [queue EXCEPT ![s] = SubSeq(queue[s], k + 2, Len(queue[s]))]
    /\ UNCHANGED <<mboxVars, fanVars, life, sessNum, seen, updates, vanished,
                   clientVars>>

Dequeue(s, allowExpunge, who) ==
    /\ deliver[s] = "free"
    /\ deliver' = [deliver EXCEPT ![s] = who]
    /\ \E q \in QResyncOn : qresync' = [qresync EXCEPT ![s] = q]
    /\ \E k \in 0 .. Len(queue[s]) :
        /\ BatchLen(queue[s], allowExpunge, k)
        /\ batch' = [batch EXCEPT ![s] = SubSeq(queue[s], 1, k)]
        /\ queue' = [queue EXCEPT ![s] = SubSeq(queue[s], k + 1, Len(queue[s]))]
    /\ UNCHANGED <<mboxVars, fanVars, life, sessNum, seen, updates, vanished,
                   clientVars>>

(* Poll by the command loop, by a NOTIFY pump, ...: any number of callers. *)
Poll(s, allowExpunge) ==
    /\ life[s] # "new"
    /\ Dequeue(s, allowExpunge, "poll")
    /\ UNCHANGED idle

(* A QRESYNC session gets the expunge in a VANISHED set. *)
Coalesces(s) ==
    /\ batch[s] # <<>>
    /\ qresync[s]
    /\ Head(batch[s]).kind = "expunge"
    /\ Head(batch[s]).known

Coalesce(s) ==
    /\ deliver[s] # "free"
    /\ Coalesces(s)
    /\ vanished' = [vanished EXCEPT ![s] = @ \cup {Head(batch[s]).uid}]
    /\ batch' = [batch EXCEPT ![s] = Tail(@)]
    /\ UNCHANGED <<mboxVars, fanVars, sessVars, idleVars, deliver, qresync,
                   clientVars>>

FlushVanished(s) ==
    /\ deliver[s] # "free"
    /\ ~broken[s]
    /\ ~Coalesces(s)
    /\ vanished[s] # {}
    /\ vanished' = [vanished EXCEPT ![s] = {}]
    /\ view' = [view EXCEPT ![s] = @ \ vanished[s]]
    /\ exists' = [exists EXCEPT ![s] = @ - Cardinality(vanished[s])]
    /\ UNCHANGED <<mboxVars, fanVars, sessVars, idleVars, deliver, qresync,
                   batch, broken>>

(* What the client does with an untagged EXPUNGE, EXISTS, FLAGS or FETCH. *)
ClientExists(u, n) ==
    CASE u.kind = "expunge" -> n - 1
      [] u.kind = "exists"  -> u.n
      [] OTHER              -> n

ClientView(u, v) ==
    CASE u.kind = "expunge" -> {w \in v : SeqNumOf(v, w) # u.n}
      [] u.kind = "exists"  -> v \cup (u.post \ u.pre)
      [] OTHER              -> v

(* Mutant: the pending VANISHED is not flushed before another response. *)
WriteUpdateUnflushed(s) ==
    /\ deliver[s] # "free"
    /\ ~broken[s]
    /\ batch[s] # <<>>
    /\ ~Coalesces(s)
    /\ batch' = [batch EXCEPT ![s] = Tail(@)]
    /\ exists' = [exists EXCEPT ![s] = ClientExists(Head(batch[s]), @)]
    /\ view' = [view EXCEPT ![s] = ClientView(Head(batch[s]), @)]
    /\ UNCHANGED <<mboxVars, fanVars, sessVars, idleVars, deliver, qresync,
                   vanished, broken>>

WriteUpdate(s) ==
    /\ deliver[s] # "free"
    /\ ~broken[s]
    /\ batch[s] # <<>>
    /\ ~Coalesces(s)
    /\ vanished[s] = {}
    /\ batch' = [batch EXCEPT ![s] = Tail(@)]
    /\ exists' = [exists EXCEPT ![s] = ClientExists(Head(batch[s]), @)]
    /\ view' = [view EXCEPT ![s] = ClientView(Head(batch[s]), @)]
    /\ UNCHANGED <<mboxVars, fanVars, sessVars, idleVars, deliver, qresync,
                   vanished, broken>>

(* Idle's deferred reset of the channel; a signal in flight is for nobody. *)
IdleReturns(s) ==
    /\ idle' = [idle EXCEPT ![s] = "off"]
    /\ updates' = [updates EXCEPT ![s] = NoChan]
    /\ signal' = IF signal = s THEN NoSession ELSE signal

(* A write fails: poll returns the error, the rest of the batch is lost and *)
(* so is the client (its count and view no longer mean anything).           *)
WriteFails(s) ==
    /\ deliver[s] # "free"
    /\ ~Coalesces(s)
    /\ batch[s] # <<>> \/ vanished[s] # {}
    /\ broken' = [broken EXCEPT ![s] = TRUE]
    /\ deliver' = [deliver EXCEPT ![s] = "free"]
    /\ batch' = [batch EXCEPT ![s] = <<>>]
    /\ vanished' = [vanished EXCEPT ![s] = {}]
    /\ qresync' = [qresync EXCEPT ![s] = FALSE]
    /\ exists' = [exists EXCEPT ![s] = 0]
    /\ view' = [view EXCEPT ![s] = {}]
    /\ IF deliver[s] = "idle" THEN IdleReturns(s)
                              ELSE UNCHANGED <<idleVars, signal>>
    /\ UNCHANGED <<mboxVars, mutex, update, source, pending, sessVars>>

(* PollWith's after callback runs between the last write and this unlock. *)
EndPoll(s) ==
    /\ deliver[s] # "free"
    /\ batch[s] = <<>>
    /\ vanished[s] = {}
    /\ deliver' = [deliver EXCEPT ![s] = "free"]
    /\ qresync' = [qresync EXCEPT ![s] = FALSE]
    /\ idle' = IF deliver[s] = "idle" THEN [idle EXCEPT ![s] = "select"] ELSE idle
    /\ UNCHANGED <<mboxVars, fanVars, sessVars, updates, batch, vanished,
                   clientVars>>

(* Mutant: Idle does not drain the queue once its channel is registered. *)
IdleRegisterNoDrain(s) ==
    /\ s \in Idler
    /\ life[s] # "new"
    /\ idle[s] = "off"
    /\ updates[s] = NoChan
    /\ updates' = [updates EXCEPT ![s] = 0]
    /\ idle' = [idle EXCEPT ![s] = "select"]
    /\ UNCHANGED <<mboxVars, fanVars, sessVars, deliverVars, clientVars>>

(***************************************************************************)
(* SessionTracker.Idle: register the channel, drain once, then poll once   *)
(* per signal until stop is closed.                                        *)
(***************************************************************************)
IdleRegister(s) ==
    /\ s \in Idler
    /\ life[s] # "new"
    /\ idle[s] = "off"
    /\ updates[s] = NoChan
    /\ updates' = [updates EXCEPT ![s] = 0]
    /\ idle' = [idle EXCEPT ![s] = "drain"]
    /\ UNCHANGED <<mboxVars, fanVars, sessVars, deliverVars, clientVars>>

IdlePoll(s) ==
    /\ idle[s] = "drain"
    /\ Dequeue(s, TRUE, "idle")
    /\ idle' = [idle EXCEPT ![s] = "polling"]

IdleWake(s) ==
    /\ idle[s] = "select"
    /\ updates[s] > 0
    /\ updates' = [updates EXCEPT ![s] = @ - 1]
    /\ idle' = [idle EXCEPT ![s] = "drain"]
    /\ UNCHANGED <<mboxVars, fanVars, sessVars, deliverVars, clientVars>>

IdleStop(s) ==
    /\ idle[s] = "select"
    /\ IdleReturns(s)
    /\ UNCHANGED <<mboxVars, mutex, update, source, pending, sessVars,
                   deliverVars, clientVars>>

-----------------------------------------------------------------------------
Backend ==
    \/ \E n \in 1 .. MaxUID, known \in UIDGiven : QueueExpunge(n, known)
    \/ \E n \in 1 .. MaxUID : QueueNumMessages(n)
    \/ QueueMailboxFlags
    \/ \E n \in 1 .. MaxUID, src \in sessions \cup {NoSession} :
           QueueMessageFlags(n, src)

FanOut ==
    \/ \E s \in Session : EnqueueUpdate(s) \/ SendSignal(s)
    \/ EndFanOut

Delivery(s) ==
    \/ Coalesce(s)
    \/ FlushVanished(s)
    \/ WriteUpdate(s)
    \/ WriteFails(s)
    \/ EndPoll(s)

IdleLoop(s) == IdlePoll(s) \/ IdleWake(s)

SessionStep(s) ==
    \/ NewSession(s)
    \/ CloseClear(s)
    \/ CloseDelete(s)
    \/ \E allowExpunge \in BOOLEAN : Poll(s, allowExpunge)
    \/ Delivery(s)
    \/ IdleRegister(s)
    \/ IdleLoop(s)
    \/ IdleStop(s)

Next == Backend \/ FanOut \/ \E s \in Session : SessionStep(s)

Spec == Init /\ [][Next]_vars

(***************************************************************************)
(* Goroutines that hold a lock or have been signalled keep running (weak   *)
(* fairness); Go's mutexes do not starve a waiter (strong fairness of the  *)
(* step that takes the delivery mutex).  Nothing obliges a backend, a      *)
(* client or a command loop to act.                                        *)
(***************************************************************************)
Fairness ==
    /\ WF_vars(FanOut)
    /\ \A s \in Session :
        /\ WF_vars(Delivery(s))
        /\ SF_vars(IdlePoll(s))
        /\ WF_vars(IdleWake(s))

FairSpec == Spec /\ Fairness

-----------------------------------------------------------------------------
MailboxType ==
    /\ numMessages \in Nat
    /\ nextUID \in 1 .. MaxUID + 1
    /\ content \subseteq UID
    /\ sessions \subseteq Session
    /\ mutex \in BOOLEAN
    /\ update \in Update
    /\ source \in Session \cup {NoSession}
    /\ pending \subseteq Session
    /\ signal \in Session \cup {NoSession}

SessionType ==
    /\ life \in [Session -> {"new", "open", "closing", "closed"}]
    /\ sessNum \in [Session -> Nat]
    /\ queue \in [Session -> Seq(Update)]
    /\ seen \in [Session -> SUBSET UID]
    /\ updates \in [Session -> {NoChan} \cup 0 .. ChanCap]
    /\ idle \in [Session -> {"off", "drain", "polling", "select"}]

DeliveryType ==
    /\ deliver \in [Session -> {"free", "poll", "idle"}]
    /\ qresync \in [Session -> BOOLEAN]
    /\ batch \in [Session -> Seq(Update)]
    /\ vanished \in [Session -> SUBSET UID]
    /\ exists \in [Session -> Int]
    /\ broken \in [Session -> BOOLEAN]
    /\ view \in [Session -> SUBSET UID]

TypeOK == MailboxType /\ SessionType /\ DeliveryType

(***************************************************************************)
(* Every response a poll is about to write means to the client what it     *)
(* meant to the mailbox: an EXPUNGE names, in the client's numbering of    *)
(* that moment, the message that was removed; an EXISTS never lowers the   *)
(* client's count; a FETCH carries the flags of the message the client     *)
(* knows by that number; a VANISHED removes messages the client has.       *)
(* Fails if batches interleave, if a non-expunge overtakes an expunge, or  *)
(* if VANISHED is not flushed before the next response.                    *)
(***************************************************************************)
Meaningful(u, n, v) ==
    CASE u.kind = "expunge" -> u.n \in 1 .. n /\ MessageAt(v, u.n) = u.uid
      [] u.kind = "exists"  -> u.n >= n
      [] u.kind = "fetch"   -> u.n \in 1 .. n /\ MessageAt(v, u.n) = u.uid
      [] OTHER              -> TRUE

ResponsesMeaningful ==
    \A s \in Session :
        /\ vanished[s] \subseteq view[s] \/ broken[s]
        /\ batch[s] # <<>> /\ ~Coalesces(s) /\ vanished[s] = {} /\ ~broken[s]
              => Meaningful(Head(batch[s]), exists[s], view[s])

(***************************************************************************)
(* The client's own arithmetic on EXISTS, EXPUNGE and VANISHED always      *)
(* gives the number of messages its sequence numbers stand for.            *)
(***************************************************************************)
ClientCountRight ==
    \A s \in Session : ~broken[s] => exists[s] = Cardinality(view[s])

(***************************************************************************)
(* Once the fan-out has passed a registered session, that session's count  *)
(* is the mailbox's: no session is missed and none counts an update twice, *)
(* whatever registers or closes around it.                                 *)
(***************************************************************************)
RegisteredSessionsCurrent ==
    \A s \in sessions \ pending :
        sessNum[s] = numMessages /\ seen[s] = content

(***************************************************************************)
(* While Idle runs, an update in the session's queue is taken for delivery *)
(* (or Idle returns): no wake-up is lost, whenever the update was queued   *)
(* relative to Idle's registration and however full its channel.           *)
(***************************************************************************)
IdleDelivers ==
    \A s \in Session :
        (idle[s] # "off" /\ queue[s] # <<>>)
            ~> (queue[s] = <<>> \/ idle[s] = "off")

-----------------------------------------------------------------------------
(***************************************************************************)
(* The inductive invariant.                                                *)
(***************************************************************************)
WellFormed(u) ==
    /\ u.kind = "expunge" => /\ u.uid \in u.pre
                             /\ u.n = SeqNumOf(u.pre, u.uid)
                             /\ u.post = u.pre \ {u.uid}
    /\ u.kind = "exists"  => /\ u.pre \subseteq u.post
                             /\ u.prev = Cardinality(u.pre)
                             /\ u.n = Cardinality(u.post)
    /\ u.kind = "fetch"   => /\ u.uid \in u.pre
                             /\ u.n = SeqNumOf(u.pre, u.uid)
                             /\ u.post = u.pre
    /\ u.kind = "flags"   => u.post = u.pre

(* The updates of q lead from the mailbox a to the mailbox b. *)
Chained(q, a, b) ==
    /\ Len(q) = 0 => a = b
    /\ Len(q) # 0 => q[1].pre = a /\ q[Len(q)].post = b
    /\ \A i \in 1 .. Len(q) - 1 : q[i].post = q[i + 1].pre

(* The mailbox between the first k updates of q and the rest, q ending in b. *)
Between(q, b, k) == IF k = Len(q) THEN b ELSE q[k + 1].pre

(* What the client will know once the batch in flight has been written. *)
QueueStart(s) == IF Len(queue[s]) = 0 THEN seen[s] ELSE queue[s][1].pre

MailboxInv ==
    /\ numMessages = Cardinality(content)
    /\ \A u \in content : u < nextUID

FanOutInv ==
    /\ mutex => WellFormed(update) /\ update.post = content
    /\ source # NoSession => update.kind = "fetch"
    /\ ~mutex => pending = {}
    /\ pending \subseteq sessions
    /\ \A s \in sessions : seen[s] = IF s \in pending THEN update.pre
                                                    ELSE content

FreshInv(s) ==
    life[s] = "new" => /\ queue[s] = <<>>
                       /\ deliver[s] = "free"
                       /\ s \notin sessions

SessionInv(s) ==
    /\ FreshInv(s)
    /\ sessNum[s] = Cardinality(seen[s])
    /\ deliver[s] = "free" => batch[s] = <<>> /\ vanished[s] = {}
    /\ \A i \in 1 .. Len(queue[s]) : WellFormed(queue[s][i])
    /\ \A i \in 1 .. Len(batch[s]) : WellFormed(batch[s][i])

(***************************************************************************)
(* From the client's view through the coalesced VANISHED, the batch in     *)
(* flight and the queue there is an unbroken chain of updates to the       *)
(* mailbox the session was last handed: no update is lost, duplicated or   *)
(* reordered between queueUpdate and the network.                          *)
(***************************************************************************)
ChainInv(s) ==
    /\ vanished[s] \subseteq view[s]
    /\ exists[s] = Cardinality(view[s])
    /\ Chained(batch[s], view[s] \ vanished[s], QueueStart(s))
    /\ Chained(queue[s], QueueStart(s), seen[s])

UnbrokenChain == \A s \in Session : ~broken[s] => ChainInv(s)

TrackerInv ==
    /\ TypeOK
    /\ MailboxInv
    /\ FanOutInv
    /\ \A s \in Session : SessionInv(s)
    /\ UnbrokenChain
=============================================================================
