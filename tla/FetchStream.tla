----------------------------- MODULE FetchStream -----------------------------
(***************************************************************************)
(* How a client hands FETCH responses over (imapclient/fetch.go): the read *)
(* goroutine decodes one response at a time, item by item, decides which   *)
(* command it answers, and streams it through bounded channels to the      *)
(* goroutine that consumes the command, waiting for each body to be read.  *)
(* Until a response's UID is known its data is kept back, at the cost of a *)
(* budget that all messages share.                                         *)
(*                                                                         *)
(* The server is the environment: it answers the commands in order, may    *)
(* add unsolicited responses, and may fail at any point.                   *)
(***************************************************************************)
EXTENDS Integers, Sequences

CONSTANTS
    Msg,        \* messages of the mailbox, by sequence number or UID
    Cmd,        \* FETCH commands, and a SELECT with QRESYNC
    Kind,       \* [Cmd -> {"uid", "seq", "select"}]
    Asks,       \* [Cmd -> SUBSET Msg]: the command's numSet
    NoCmd,
    Shapes,     \* the sequences of items a response may have
    HasHandler, \* the client has a UnilateralDataHandler.Fetch
    MsgsCap,    \* capacity of FetchCommand.msgs
    ItemsCap,   \* capacity of FetchMessageData.items
    MaxBuffer,  \* maxFetchBufferSize, in literals
    MaxResp     \* bound: responses

Item == {"uid", "modseq", "env", "body"}

ASSUME FetchAssumption ==
    /\ Kind \in [Cmd -> {"uid", "seq", "select"}] /\ Asks \in [Cmd -> SUBSET Msg]
    /\ NoCmd \notin Cmd
    /\ Cmd \cap {"none", "select", "discard", "handler", "released"} = {}
    /\ Shapes \subseteq Seq(Item) /\ HasHandler \in BOOLEAN
    /\ MsgsCap \in Nat \ {0} /\ ItemsCap \in Nat \ {0}
    /\ MaxBuffer \in Nat /\ MaxResp \in Nat

Resp == 1..MaxResp
Ended == -1

VARIABLES
    sent,      \* commands that were sent
    pending,   \* pendingCmds, in the order sent
    recv,      \* recvSeqSet or recvUIDSet of each command
    msgs,      \* the msgs channel of each command
    cons,      \* what each command's consumer is at: a message, 0 or Ended
    data,      \* the FetchMessageData of each response, see DataType
    rd,        \* the read goroutine in handleFetch, see ReaderType
    last,      \* the number of responses so far
    inUse,     \* fetchBufInUse
    freed,     \* fetchBufFreed is a channel that is not closed
    closed,    \* closeCh is closed
    broken     \* the connection is closed or has failed

vars == <<sent, pending, recv, msgs, cons, data, rd, last, inUse, freed, closed, broken>>

DataType == [
    answers : Cmd \cup {NoCmd},   \* the command the server answers with it
    owner   : Cmd \cup {"none", "select", "discard", "handler", "released"},
    items   : Seq(Item),          \* the items channel
    open    : BOOLEAN,            \* the items channel is not closed
    held    : BOOLEAN,            \* its consumer has a body that is not read to its end
    release : 0..MaxBuffer]       \* what release returns to the budget

NoData == [answers |-> NoCmd, owner |-> "none", items |-> <<>>, open |-> FALSE,
           held |-> FALSE, release |-> 0]

ReaderType == [
    at       : {"idle", "item", "acquire", "parked", "handle", "deliver", "send", "done", "gone"},
    m        : Msg \cup {0},
    todo     : Seq(Item),         \* items not decoded yet
    uid      : BOOLEAN,           \* its UID is known
    modseq   : BOOLEAN,           \* and its MODSEQ
    needsUID : BOOLEAN,
    sel      : BOOLEAN,           \* a SELECT is pending
    handled  : BOOLEAN,
    buffered : Seq(Item),         \* items kept back
    bytes    : 0..MaxBuffer,      \* bufferedBytes that no consumer owes
    atts     : Nat,               \* numAtts
    out      : Seq(Item)]         \* items on their way to the consumer

Idle == [at |-> "idle", m |-> 0, todo |-> <<>>, uid |-> FALSE, modseq |-> FALSE,
         needsUID |-> FALSE, sel |-> FALSE, handled |-> FALSE, buffered |-> <<>>,
         bytes |-> 0, atts |-> 0, out |-> <<>>]

Init ==
    /\ sent = {} /\ pending = <<>>
    /\ recv = [c \in Cmd |-> {}]
    /\ msgs = [c \in Cmd |-> <<>>]
    /\ cons = [c \in Cmd |-> Ended]
    /\ data = [r \in Resp |-> NoData]
    /\ rd = Idle /\ last = 0
    /\ inUse = 0 /\ freed = FALSE
    /\ closed = FALSE /\ broken = FALSE

Pending == {pending[i] : i \in 1..Len(pending)}

IsFetch(c) == Kind[c] # "select"

-----------------------------------------------------------------------------

(* A caller sends a command.  The pipelining that RFC 9051 section 5.5      *)
(* calls ambiguous is left out: a sequence number with a UID command in     *)
(* progress, or SELECT with a FETCH in progress.                            *)
Send(c) ==
    /\ c \notin sent /\ ~broken
    /\ \A d \in Pending :
        /\ Kind[c] = "seq" => Kind[d] # "uid"
        /\ Kind[c] = "select" => ~IsFetch(d)
    /\ sent' = sent \cup {c}
    /\ pending' = Append(pending, c)
    /\ cons' = IF IsFetch(c) THEN [cons EXCEPT ![c] = 0] ELSE cons
    /\ UNCHANGED <<recv, msgs, data, rd, last, inUse, freed, closed, broken>>

(* The command that handleFetch's first scan finds entitled to stream by    *)
(* its sequence number: none that a UID command precedes.                   *)
SeqClaimed(m) ==
    \E i \in 1..Len(pending) :
        /\ Kind[pending[i]] = "seq"
        /\ \A j \in 1..(i - 1) : Kind[pending[j]] # "uid"
        /\ m \in Asks[pending[i]] /\ m \notin recv[pending[i]]

UIDPending == \E c \in Pending : Kind[c] = "uid"

SelectPending == \E c \in Pending : Kind[c] = "select"

(* The start of handleFetch. *)
Starts(m, shape, c) ==
    /\ rd.at = "idle" /\ ~broken
    /\ last < MaxResp
    /\ last' = last + 1
    /\ rd' = [Idle EXCEPT !.at = "item", !.m = m, !.todo = shape,
                          !.needsUID = UIDPending /\ ~SeqClaimed(m),
                          !.sel = SelectPending]
    /\ data' = [data EXCEPT ![last + 1] = [NoData EXCEPT !.answers = c, !.open = TRUE]]
    /\ UNCHANGED <<sent, pending, recv, msgs, cons, inUse, freed, closed, broken>>

Has(shape, it) == \E i \in 1..Len(shape) : shape[i] = it

(* The server answers the oldest command, with the UID where it has to. *)
Answer(m, shape) ==
    LET c == Head(pending) IN
    /\ Len(pending) > 0 /\ m \in Asks[c] /\ m \notin recv[c]
    /\ Kind[c] = "uid" => Has(shape, "uid")
    /\ Kind[c] = "select" => Has(shape, "uid") /\ Has(shape, "modseq") /\ ~Has(shape, "body")
    /\ Starts(m, shape, c)

(* It reports a message that no command expects, or will before the report   *)
(* is read: the comment in handleMsg says that the others cannot be told      *)
(* from an answer.                                                           *)
Unsolicited(m, shape) ==
    /\ \A c \in Cmd : m \in Asks[c] => c \in sent /\ (c \in Pending => m \in recv[c])
    /\ ~SelectPending
    /\ Starts(m, shape, NoCmd)

(* completeCommand: a command that is no longer pending has its msgs channel *)
(* closed, and no more use for what it received.                             *)
Completes(C) == recv' = [c \in Cmd |-> IF c \in C THEN {} ELSE recv[c]]

(* readResponseTagged for the oldest command. *)
Tagged ==
    /\ rd.at = "idle" /\ ~broken /\ Len(pending) > 0
    /\ pending' = Tail(pending)
    /\ Completes({Head(pending)})
    /\ UNCHANGED <<sent, msgs, cons, data, rd, last, inUse, freed, closed, broken>>

-----------------------------------------------------------------------------

ShouldBuffer(r) == r.needsUID /\ ~r.handled /\ ~r.uid

ShouldBufferMetadataUID(r) == ShouldBuffer(r)

ShouldBufferMetadata(r) == ShouldBuffer(r) \/ (~r.handled /\ r.sel)

(* What readItem reserves before the data is read into memory: a literal    *)
(* that metadata has, by CheckLiteralFunc, and a body.                      *)
Reserves(r, it) ==
    \/ it = "env" /\ ShouldBufferMetadata(r)
    \/ it = "body" /\ ShouldBuffer(r)

(* The rest of readItem: keep the item, or have the message handled and     *)
(* send what was kept back and the item.                                    *)
Read(r, it) ==
    LET r1 == [r EXCEPT !.uid = @ \/ it = "uid", !.modseq = @ \/ it = "modseq",
                        !.atts = @ + 1, !.todo = Tail(@)]
        keep == ShouldBuffer(r1) \/ (ShouldBufferMetadata(r1) /\ it # "body")
        must == Len(r1.buffered) > 0 \/ r1.atts > ItemsCap \/ it = "body"
    IN
    IF keep THEN [r1 EXCEPT !.buffered = Append(@, it), !.at = "item"]
            ELSE [r1 EXCEPT !.buffered = <<>>, !.out = Append(r1.buffered, it),
                            !.at = IF must /\ ~r1.handled THEN "handle" ELSE "send"]

ReadItem ==
    /\ rd.at = "item" /\ Len(rd.todo) > 0 /\ ~broken
    /\ LET it == Head(rd.todo) IN
       IF Reserves(rd, it) THEN /\ rd.bytes < MaxBuffer
                                /\ rd' = [rd EXCEPT !.at = "acquire"]
                           ELSE rd' = Read(rd, it)
    /\ UNCHANGED <<sent, pending, recv, msgs, cons, data, last, inUse, freed, closed, broken>>

ReleaseFetchBufferLost(n) ==
    inUse' = inUse /\ freed' = IF n > 0 THEN FALSE ELSE freed

ReleaseFetchBufferQuiet(n) ==
    inUse' = inUse - n /\ freed' = freed

(* releaseFetchBuffer: n is returned, which wakes who waits for some. *)
ReleaseFetchBuffer(n) ==
    inUse' = inUse - n /\ freed' = IF n > 0 THEN FALSE ELSE freed

ItemsLeftOpen(d) == d

(* The deferred close(items). *)
ItemsClosed(d) == [d EXCEPT !.open = FALSE]

(* finish *)
Finish ==
    /\ rd.at = "item" /\ Len(rd.todo) = 0
    /\ ~(rd.handled /\ Len(rd.buffered) = 0)
    /\ rd' = [rd EXCEPT !.buffered = <<>>, !.out = rd.buffered,
                        !.at = IF rd.handled THEN "send" ELSE "handle"]
    /\ UNCHANGED <<sent, pending, recv, msgs, cons, data, last, inUse, freed, closed, broken>>

(* handleFetch returns: the items channel is closed. *)
Ends ==
    /\ rd.at = "item" /\ Len(rd.todo) = 0 /\ rd.handled /\ Len(rd.buffered) = 0
    /\ data' = [data EXCEPT ![last] = ItemsClosed(@)]
    /\ rd' = Idle
    /\ UNCHANGED <<sent, pending, recv, msgs, cons, last, inUse, freed, closed, broken>>

(* acquireFetchBuffer: what is free is taken, or the next release awaited. *)
Acquire ==
    /\ rd.at = "acquire"
    /\ IF inUse < MaxBuffer
       THEN /\ inUse' = inUse + 1
            /\ rd' = Read([rd EXCEPT !.bytes = @ + 1], Head(rd.todo))
            /\ UNCHANGED freed
       ELSE /\ freed' = TRUE
            /\ rd' = [rd EXCEPT !.at = "parked"]
            /\ UNCHANGED inUse
    /\ UNCHANGED <<sent, pending, recv, msgs, cons, data, last, closed, broken>>

Unpark ==
    /\ rd.at = "parked" /\ ~freed
    /\ rd' = [rd EXCEPT !.at = "acquire"]
    /\ UNCHANGED <<sent, pending, recv, msgs, cons, data, last, inUse, freed, closed, broken>>

(* recvUID, recvSeqNum *)
Wants(c) ==
    /\ IsFetch(c)
    /\ Kind[c] = "uid" => rd.uid
    /\ rd.m \in Asks[c] /\ rd.m \notin recv[c]

First(C) == CHOOSE c \in C : \E i \in 1..Len(pending) :
                pending[i] = c /\ \A j \in 1..(i - 1) : pending[j] \notin C

(* handleMsg up to the hand-over: from here the consumer owes the budget.    *)
(* The message is SELECT's, the first command's that wants it, or nobody's,  *)
(* for the handler of unilateral data if there is one.                       *)
HandleMsg ==
    LET C == {c \in Pending : Wants(c)}
        Gives(o) == data' = [data EXCEPT ![last].owner = o, ![last].release = rd.bytes]
        Goes(at) == rd' = [rd EXCEPT !.at = at, !.bytes = 0, !.handled = at = "send"]
    IN
    /\ rd.at = "handle"
    /\ IF rd.sel /\ rd.uid /\ rd.modseq
       THEN Gives("select") /\ Goes("send") /\ UNCHANGED recv
       ELSE IF C # {}
       THEN /\ Gives(First(C)) /\ Goes("deliver")
            /\ recv' = [recv EXCEPT ![First(C)] = @ \cup {rd.m}]
       ELSE /\ Gives(IF HasHandler THEN "handler" ELSE "discard")
            /\ Goes("send") /\ UNCHANGED recv
    /\ UNCHANGED <<sent, pending, msgs, cons, last, inUse, freed, closed, broken>>

(* cmd.msgs <- msg *)
Deliver ==
    LET c == data[last].owner IN
    /\ rd.at = "deliver"
    /\ c \in Pending /\ Len(msgs[c]) < MsgsCap
    /\ msgs' = [msgs EXCEPT ![c] = Append(@, last)]
    /\ rd' = [rd EXCEPT !.at = "send", !.handled = TRUE]
    /\ UNCHANGED <<sent, pending, recv, cons, data, last, inUse, freed, closed, broken>>

(* sendItem: a body's consumption is awaited. *)
SendItem ==
    /\ rd.at = "send"
    /\ IF Len(rd.out) = 0
       THEN rd' = [rd EXCEPT !.at = "item"] /\ UNCHANGED data
       ELSE /\ Len(data[last].items) < ItemsCap
            /\ data' = [data EXCEPT ![last].items = Append(@, Head(rd.out))]
            /\ rd' = [rd EXCEPT !.out = Tail(@),
                                !.at = IF Head(rd.out) = "body" THEN "done" ELSE "send"]
    /\ UNCHANGED <<sent, pending, recv, msgs, cons, last, inUse, freed, closed, broken>>

BodyDone ==
    /\ rd.at = "done"
    /\ ~data[last].held /\ ~Has(data[last].items, "body")
    /\ rd' = [rd EXCEPT !.at = "send"]
    /\ UNCHANGED <<sent, pending, recv, msgs, cons, data, last, inUse, freed, closed, broken>>

(* Why handleFetch returns an error: the connection or the response is bad, *)
(* or needs more than the whole budget; a channel operation finds closeCh    *)
(* closed; or the command's channel was closed under it, which panics.       *)
Fails ==
    \/ rd.at \in {"item", "idle"}
    \/ closed /\ rd.at \in {"parked", "deliver", "send", "done"}
    \/ rd.at = "deliver" /\ data[last].owner \notin Pending

(* Then its deferred calls run, and those of read: the items channel is      *)
(* closed, what the response still holds of the budget returned, and every   *)
(* pending command completed.                                                *)
Abort ==
    /\ Fails
    /\ data' = CASE rd.at = "idle" -> data
                 [] rd.at = "deliver" -> [data EXCEPT ![last] = NoData]
                 [] OTHER -> [data EXCEPT ![last] = ItemsClosed(@)]
    /\ ReleaseFetchBuffer(rd.bytes)
    /\ pending' = <<>> /\ Completes(Pending)
    /\ broken' = TRUE
    /\ rd' = [Idle EXCEPT !.at = "gone"]
    /\ UNCHANGED <<sent, msgs, cons, last, closed>>

(* A caller whose write failed runs closeWithError at any point of this. *)
WriteFails ==
    /\ Len(pending) > 0
    /\ pending' = <<>> /\ Completes(Pending)
    /\ broken' = TRUE
    /\ UNCHANGED <<sent, msgs, cons, data, rd, last, inUse, freed, closed>>

(* Client.Close *)
Close ==
    /\ ~closed
    /\ closed' = TRUE /\ broken' = TRUE
    /\ UNCHANGED <<sent, pending, recv, msgs, cons, data, rd, last, inUse, freed>>

-----------------------------------------------------------------------------

(* FetchCommand.Next: the next message, or nil once the channel is closed. *)
NextMsg(c) ==
    /\ cons[c] = 0
    /\ IF Len(msgs[c]) > 0
       THEN /\ cons' = [cons EXCEPT ![c] = Head(msgs[c])]
            /\ msgs' = [msgs EXCEPT ![c] = Tail(@)]
       ELSE /\ c \notin Pending
            /\ cons' = [cons EXCEPT ![c] = Ended]
            /\ UNCHANGED msgs
    /\ UNCHANGED <<sent, pending, recv, data, rd, last, inUse, freed, closed, broken>>

(* The message is with someone who reads it. *)
Reads(r) == data[r].owner # "none" /\ (data[r].owner \in Cmd => cons[data[r].owner] = r)

(* FetchMessageData.Next: an item. *)
NextItem(r) ==
    /\ Reads(r) /\ ~data[r].held /\ Len(data[r].items) > 0
    /\ data' = [data EXCEPT ![r].items = Tail(@), ![r].held = Head(data[r].items) = "body"]
    /\ UNCHANGED <<sent, pending, recv, msgs, cons, rd, last, inUse, freed, closed, broken>>

(* fetchLiteralReader: the body is read to its end, by the user or by        *)
(* discard, which ends the reader's wait.                                    *)
DrainBody(r) ==
    /\ data[r].held
    /\ data' = [data EXCEPT ![r].held = FALSE]
    /\ UNCHANGED <<sent, pending, recv, msgs, cons, rd, last, inUse, freed, closed, broken>>

(* FetchMessageData.Next at the end: releaseFetchBuffer wakes the reader. *)
EndMsg(r) ==
    /\ Reads(r) /\ ~data[r].held /\ Len(data[r].items) = 0 /\ ~data[r].open
    /\ ReleaseFetchBuffer(data[r].release)
    /\ cons' = [c \in Cmd |-> IF c = data[r].owner THEN 0 ELSE cons[c]]
    /\ data' = [data EXCEPT ![r] = NoData]
    /\ UNCHANGED <<sent, pending, recv, msgs, rd, last, closed, broken>>

(* releaseAfterCallback: the handler has returned; what it left is drained. *)
CallbackReturns(r) ==
    /\ data[r].owner = "handler"
    /\ data' = [data EXCEPT ![r].owner = "released"]
    /\ UNCHANGED <<sent, pending, recv, msgs, cons, rd, last, inUse, freed, closed, broken>>

Consume(r) == NextItem(r) \/ DrainBody(r) \/ EndMsg(r)

ReaderStep ==
    \/ ReadItem \/ Finish \/ Ends \/ Acquire \/ Unpark \/ HandleMsg \/ Deliver \/ SendItem
    \/ BodyDone \/ Abort

Next ==
    \/ \E c \in Cmd : Send(c) \/ NextMsg(c)
    \/ \E m \in Msg, shape \in Shapes : Answer(m, shape) \/ Unsolicited(m, shape)
    \/ Tagged \/ ReaderStep \/ WriteFails \/ Close
    \/ \E r \in Resp : Consume(r) \/ CallbackReturns(r)

Spec == Init /\ [][Next]_vars

(* The goroutines run; a caller consumes its command, as Fetch asks of it;   *)
(* a callback returns; a response that has begun arrives or times out.       *)
Fairness ==
    /\ WF_vars((rd.at # "idle" \/ broken) /\ ReaderStep)
    /\ \A c \in Cmd : WF_vars(NextMsg(c))
    /\ \A r \in Resp : WF_vars(Consume(r) \/ CallbackReturns(r))

FairSpec == Spec /\ Fairness

-----------------------------------------------------------------------------

(* Type correctness of the streaming state. *)
TypeOK ==
    /\ sent \subseteq Cmd /\ pending \in Seq(Cmd)
    /\ recv \in [Cmd -> SUBSET Msg]
    /\ msgs \in [Cmd -> Seq(Resp)] /\ \A c \in Cmd : Len(msgs[c]) <= MsgsCap
    /\ cons \in [Cmd -> Resp \cup {0, Ended}]
    /\ data \in [Resp -> DataType] /\ \A r \in Resp : Len(data[r].items) <= ItemsCap
    /\ rd \in ReaderType
    /\ last \in 0..MaxResp
    /\ inUse \in 0..MaxBuffer
    /\ freed \in BOOLEAN /\ closed \in BOOLEAN /\ broken \in BOOLEAN

(* A response reaches the command that the server answers with it, wherever  *)
(* its UID stands and whatever else is pending: a pipelined UID FETCH does   *)
(* not take a SELECT's QRESYNC update, an unsolicited response goes to no    *)
(* command, and an answer to no handler.                                     *)
AnswersGoHome ==
    \A r \in Resp :
        /\ data[r].owner \in Cmd => data[r].owner = data[r].answers
        /\ data[r].owner = "select" => data[r].answers # NoCmd /\ Kind[data[r].answers] = "select"
        /\ data[r].owner \in {"discard", "handler", "released"} /\ ~broken => data[r].answers = NoCmd

(* What the consumers of d owe the budget together. *)
Owed(d) ==
    LET upTo[r \in 0..MaxResp] == IF r = 0 THEN 0 ELSE upTo[r - 1] + d[r].release
    IN upTo[MaxResp]

(* The budget is what the response being read and the messages that are not  *)
(* consumed hold together: none of it is lost or returned twice, until the   *)
(* connection ends.                                                          *)
BudgetExact ==
    LET held == rd.bytes + Owed(data) IN
    IF broken THEN inUse >= held ELSE inUse = held

(* The reader gets through every response, whoever consumes what: it never   *)
(* waits for a channel, a body or the budget for good.                       *)
ReaderProgresses == rd.at # "idle" ~> rd.at \in {"idle", "gone"}

(* When a command is no longer pending its consumer reaches the end, also    *)
(* when the connection failed, was closed, or the reader died of a panic.    *)
ConsumersEnd == \A c \in Cmd : (c \in sent /\ c \notin Pending) ~> cons[c] = Ended
=============================================================================
