------------------------------ MODULE Connection ------------------------------
(***************************************************************************)
(* One server connection (imapserver/conn.go): the command loop with its   *)
(* protocol state, and the NOTIFY pumps (imapserver/notify.go) that write  *)
(* to the same client from goroutines of their own.  The session is the    *)
(* in-memory backend's (imapmemserver/session.go, notify.go).              *)
(*                                                                         *)
(* A mailbox's updates are kept as kinds, in the queue of the session's    *)
(* view of that mailbox; MailboxTracker has what they stand for.  A        *)
(* command's guards, its call of the session and its response are one      *)
(* step where no pump can act in between; stopNotifyPump's wait, the polls *)
(* and IDLE are steps of their own.                                        *)
(***************************************************************************)
EXTENDS Integers, Sequences, FiniteSets

CONSTANTS
    Box,         \* mailboxes
    NoBox,       \* no mailbox selected
    Pump,        \* bound: goroutines started by startNotifyPump, not yet gone
    NoPump,      \* notifyStop = nil
    Command,     \* commands the client uses, see Commands
    Grants,      \* what the backend may grant a SELECT, see Access
    MaxQueued,   \* maxNotifyQueuedUpdates (1024 in the code)
    MaxUpdates,  \* bound: updates queued for a view
    ChanCap      \* capacity of notifyEvents (256 in the code)

Commands == {"LOGIN", "UNAUTHENTICATE", "LOGOUT", "SELECT", "EXAMINE", "CLOSE",
             "UNSELECT", "NOTIFY", "NOOP", "FETCH", "STORE", "EXPUNGE", "MOVE", "IDLE"}

Access == {"rw", "ro", "private"}

ASSUME ConnectionAssumption ==
    /\ NoBox \notin Box /\ NoPump \notin Pump
    /\ Command \subseteq Commands /\ Grants \subseteq Access
    /\ MaxQueued \in Nat /\ MaxUpdates \in Nat /\ ChanCap \in Nat \ {0}

VARIABLES
    conn,     \* Conn, see ConnType
    sess,     \* UserSession, see SessType
    queue,    \* updates queued for the view of each mailbox
    deliver,  \* holder of the selected view's delivery mutex
    pump,     \* the goroutines of startNotifyPump, see PumpType
    told      \* history: what the client was told, see ToldType

vars == <<conn, sess, queue, deliver, pump, told>>

Kind == {"exists", "expunge"}

(* What NOTIFY asks for: no message event of the selected mailbox (NOTIFY   *)
(* NONE, or other mailboxes only), SELECTED or SELECTED-DELAYED.            *)
Watch == {"none", "selected", "delayed"}

ConnType == [
    pc     : {"ready", "stop", "wait", "swap", "restart", "poll", "idle", "linger", "done"},
    cmd    : Commands \cup {"", "shutdown", "teardown"},      \* activeCmd
    state  : {"notauth", "auth", "selected", "logout"},
    access : Access,           \* selectedReadOnly, selectedPrivateStore
    used   : BOOLEAN,          \* notifyUsed
    events : BOOLEAN,          \* notifySelectedEvents has a message event
    pump   : Pump \cup {NoPump},   \* notifyStop, notifyDone
    wait   : Pump \cup {NoPump},   \* the pump that stopNotifyPump waits for
    had    : BOOLEAN,          \* fenceNotifyPump's result, hadPump
    socket : {"open", "half", "closed"}]   \* half: closed for writing

SessType == [
    mailbox : Box \cup {NoBox},
    watch   : Watch,
    listens : BOOLEAN,         \* notifyEvents # nil
    chan    : Seq(Box),        \* its content
    off     : BOOLEAN]         \* notifyOff # nil

PumpType == [
    pc    : {"off", "start", "select", "event", "take", "write", "check", "drop", "sent"},
    stop  : BOOLEAN,           \* its stop channel is closed
    box   : Box \cup {NoBox},  \* the view it polls
    mode  : Watch,
    allow : BOOLEAN,           \* allowExpunge
    batch : Seq(Kind),
    err   : BOOLEAN]

ToldType == [
    box    : Box \cup {NoBox}, \* the mailbox the client has selected
    access : Access,
    watch  : Watch,            \* what it asked for with the last NOTIFY
    told   : BOOLEAN,          \* one was, and no overflow since
    bye    : BOOLEAN,          \* the shutdown BYE was written
    harm   : BOOLEAN]          \* a read-only mailbox was changed

NewPump == [pc |-> "off", stop |-> FALSE, box |-> NoBox, mode |-> "none",
            allow |-> FALSE, batch |-> <<>>, err |-> FALSE]

NewSession == [mailbox |-> NoBox, watch |-> "none", listens |-> FALSE,
               chan |-> <<>>, off |-> FALSE]

(* A view ends with its mailbox: the old one's queue is dropped. *)
NoUpdates == [b \in Box |-> <<>>]

Init ==
    /\ conn = [pc |-> "ready", cmd |-> "", state |-> "notauth", access |-> "rw",
               used |-> FALSE, events |-> FALSE, pump |-> NoPump, wait |-> NoPump,
               had |-> FALSE, socket |-> "open"]
    /\ sess = NewSession
    /\ queue = NoUpdates
    /\ deliver = NoPump
    /\ pump = [p \in Pump |-> NewPump]
    /\ told = [box |-> NoBox, access |-> "rw", watch |-> "none", told |-> FALSE,
               bye |-> FALSE, harm |-> FALSE]

(* A command with this effect changes the selected mailbox: its messages, *)
(* or only the flags (STORE, FETCH), which may be the user's own.          *)
Harmed(cmd) ==
    [told EXCEPT !.harm = @ \/ told.access = "ro"
                            \/ (told.access = "private" /\ cmd \notin {"STORE", "FETCH"})]

Open == conn.socket = "open"
Live(p) == pump[p].pc \notin {"off", "sent"}

-----------------------------------------------------------------------------
(***************************************************************************)
(* readCommand: the command is recorded for the pumps, then dispatched.    *)
(* checkState and checkWritableMailbox refuse without effect.              *)
(***************************************************************************)
StateAllows(cmd) ==
    CASE cmd = "LOGIN" -> conn.state = "notauth"
      [] cmd \in {"NOOP", "LOGOUT"} -> TRUE
      [] cmd \in {"FETCH", "STORE", "EXPUNGE", "MOVE", "CLOSE", "UNSELECT"} ->
             conn.state = "selected"
      [] OTHER -> conn.state \in {"auth", "selected"}

WriteAllowed(cmd) ==
    CASE cmd = "EXPUNGE" -> conn.access = "rw"
      [] cmd = "STORE" -> conn.access \in {"rw", "private"}
      [] OTHER -> TRUE

Fenced == {"SELECT", "EXAMINE", "CLOSE", "UNSELECT", "NOTIFY", "UNAUTHENTICATE"}

(* notifyRegistry.broadcast: a full channel drops the event. *)
Notified(s, b) ==
    IF s.listens /\ Len(s.chan) < ChanCap THEN [s EXCEPT !.chan = Append(@, b)] ELSE s

(* FETCH sets \Seen when an item is not a PEEK; no test of the access. *)
Begin(cmd) ==
    /\ conn.pc = "ready" /\ Open /\ conn.state # "logout"
    /\ StateAllows(cmd) /\ WriteAllowed(cmd)
    /\ cmd \notin {"LOGIN", "LOGOUT", "EXPUNGE", "MOVE"}
    /\ conn' = [conn EXCEPT
            !.cmd = cmd,
            !.pc = IF cmd \in Fenced THEN "stop" ELSE IF cmd = "IDLE" THEN "idle" ELSE "poll"]
    /\ \/ /\ cmd \in {"STORE", "FETCH"}
          /\ sess' = Notified(sess, sess.mailbox) /\ told' = Harmed(cmd)
       \/ cmd # "STORE" /\ UNCHANGED <<sess, told>>
    /\ UNCHANGED <<queue, deliver, pump>>

Login ==
    /\ conn.pc = "ready" /\ Open /\ StateAllows("LOGIN")
    /\ conn' = [conn EXCEPT !.state = "auth"]
    /\ sess' = NewSession
    /\ UNCHANGED <<queue, deliver, pump, told>>

Logout ==
    /\ conn.pc = "ready" /\ Open /\ conn.state # "logout"
    /\ conn' = [conn EXCEPT !.state = "logout"]
    /\ UNCHANGED <<sess, queue, deliver, pump, told>>

(* EXPUNGE and MOVE: the session removes messages of the mailbox. *)
Remove(cmd) ==
    /\ conn.pc = "ready" /\ Open
    /\ StateAllows(cmd) /\ WriteAllowed(cmd)
    /\ Len(queue[sess.mailbox]) < MaxUpdates
    /\ conn' = [conn EXCEPT !.cmd = cmd, !.pc = "poll"]
    /\ queue' = [queue EXCEPT ![sess.mailbox] = Append(@, "expunge")]
    /\ sess' = Notified(sess, sess.mailbox)
    /\ told' = Harmed(cmd)
    /\ UNCHANGED <<deliver, pump>>

(***************************************************************************)
(* stopNotifyPump: close the channel, then wait for the pump, 30 seconds   *)
(* at most; after those the socket is closed and the context cancelled.    *)
(***************************************************************************)
(* Mutant: SELECT and EXAMINE leave the pump running. *)
StopPumpUnfenced ==
    /\ conn.pc = "stop"
    /\ IF conn.pump = NoPump \/ conn.cmd \in {"SELECT", "EXAMINE"}
       THEN /\ conn' = [conn EXCEPT !.pc = "swap", !.had = FALSE]
            /\ UNCHANGED pump
       ELSE /\ pump' = [pump EXCEPT ![conn.pump].stop = TRUE]
            /\ conn' = [conn EXCEPT !.pc = "wait", !.had = TRUE, !.wait = conn.pump,
                                    !.pump = NoPump]
    /\ UNCHANGED <<sess, queue, deliver, told>>

StopPump ==
    /\ conn.pc = "stop"
    /\ IF conn.pump = NoPump
       THEN /\ conn' = [conn EXCEPT !.pc = "swap", !.had = FALSE]
            /\ UNCHANGED pump
       ELSE /\ pump' = [pump EXCEPT ![conn.pump].stop = TRUE]
            /\ conn' = [conn EXCEPT !.pc = "wait", !.had = TRUE, !.wait = conn.pump,
                                    !.pump = NoPump]
    /\ UNCHANGED <<sess, queue, deliver, told>>

PumpGone ==
    /\ conn.pc = "wait"
    /\ ~Live(conn.wait)
    /\ conn' = [conn EXCEPT !.pc = "swap", !.wait = NoPump]
    /\ UNCHANGED <<sess, queue, deliver, pump, told>>

(* Mutant: the wait ends, the connection stays. *)
StopExpiresOpen ==
    /\ conn.pc = "wait"
    /\ conn' = [conn EXCEPT !.pc = "swap", !.wait = NoPump]
    /\ UNCHANGED <<sess, queue, deliver, pump, told>>

(* Mutant: no timer. *)
StopExpiresNever == FALSE

StopExpires ==
    /\ conn.pc = "wait"
    /\ conn' = [conn EXCEPT !.pc = "swap", !.wait = NoPump, !.socket = "closed"]
    /\ UNCHANGED <<sess, queue, deliver, pump, told>>

Started(p) == [pump EXCEPT ![p] = [NewPump EXCEPT !.pc = "start"]]

(***************************************************************************)
(* handleSelect once the pump is gone: the old mailbox is closed and the   *)
(* client told so, then the new one is opened, or is not.                  *)
(***************************************************************************)
Unselected(c) == [c EXCEPT !.state = "auth", !.access = "rw"]

SelectFails ==
    /\ conn.pc = "swap" /\ conn.cmd \in {"SELECT", "EXAMINE"}
    /\ conn' = [Unselected(conn) EXCEPT !.pc = "restart"]
    /\ sess' = [sess EXCEPT !.mailbox = NoBox]
    /\ queue' = NoUpdates
    /\ told' = [told EXCEPT !.box = NoBox]
    /\ UNCHANGED <<deliver, pump>>

SelectOpens(b, access) ==
    LET got == IF conn.cmd = "EXAMINE" THEN "ro" ELSE access IN
    /\ conn.pc = "swap" /\ conn.cmd \in {"SELECT", "EXAMINE"}
    /\ conn' = [conn EXCEPT !.pc = "restart", !.state = "selected", !.access = got]
    /\ sess' = [sess EXCEPT !.mailbox = b]
    /\ queue' = NoUpdates
    /\ told' = [told EXCEPT !.box = b, !.access = got]
    /\ UNCHANGED <<deliver, pump>>

(* CLOSE removes the \Deleted messages unless the mailbox is read-only. *)
ImplicitExpunge(c) == c.cmd = "CLOSE" /\ c.access = "rw"

Unselect ==
    /\ conn.pc = "swap" /\ conn.cmd \in {"CLOSE", "UNSELECT"}
    /\ conn' = [Unselected(conn) EXCEPT !.pc = "restart"]
    /\ sess' = [(IF ImplicitExpunge(conn) THEN Notified(sess, sess.mailbox) ELSE sess)
                EXCEPT !.mailbox = NoBox]
    /\ queue' = NoUpdates
    /\ told' = [(IF ImplicitExpunge(conn) THEN Harmed("CLOSE") ELSE told) EXCEPT !.box = NoBox]
    /\ UNCHANGED <<deliver, pump>>

(* A failed expunge of CLOSE, or a failed Unselect, leaves all as it was. *)
SwapFails ==
    /\ conn.pc = "swap"
    /\ \/ conn.cmd \in {"CLOSE", "UNSELECT", "UNAUTHENTICATE"}
       \/ conn.cmd \in {"SELECT", "EXAMINE"} /\ conn.state = "selected"
    /\ conn' = [conn EXCEPT !.pc = "restart", !.cmd = ""]
    /\ UNCHANGED <<sess, queue, deliver, pump, told>>

(* Session.Unauthenticate drops the user's session, its watch included. *)
Unauthenticate ==
    /\ conn.pc = "swap" /\ conn.cmd = "UNAUTHENTICATE"
    /\ conn' = [conn EXCEPT !.pc = "ready", !.cmd = "", !.had = FALSE, !.state = "notauth",
                            !.used = FALSE, !.events = FALSE]
    /\ sess' = NewSession
    /\ queue' = NoUpdates
    /\ told' = [told EXCEPT !.box = NoBox, !.told = FALSE, !.watch = "none"]
    /\ UNCHANGED <<deliver, pump>>

(* Mutant: the pump comes back only for a mailbox. *)
RestartSelected ==
    /\ conn.pc = "restart"
    /\ \E p \in Pump :
        LET on == conn.had /\ conn.state = "selected" IN
        /\ pump[p].pc = "off"
        /\ conn' = [conn EXCEPT
                !.pump = IF on THEN p ELSE NoPump, !.had = FALSE,
                !.pc = IF conn.cmd \in {"CLOSE", "UNSELECT"} THEN "poll" ELSE "ready",
                !.cmd = IF conn.cmd \in {"CLOSE", "UNSELECT"} THEN @ ELSE ""]
        /\ pump' = IF on THEN Started(p) ELSE pump
    /\ UNCHANGED <<sess, queue, deliver, told>>

(* restartNotifyPump: the SELECT response is out, UNSELECT's is to come. *)
Restart ==
    /\ conn.pc = "restart"
    /\ \E p \in Pump :
        /\ pump[p].pc = "off"
        /\ conn' = [conn EXCEPT
                !.pump = IF conn.had THEN p ELSE NoPump, !.had = FALSE,
                !.pc = IF conn.cmd \in {"CLOSE", "UNSELECT"} THEN "poll" ELSE "ready",
                !.cmd = IF conn.cmd \in {"CLOSE", "UNSELECT"} THEN @ ELSE ""]
        /\ pump' = IF conn.had THEN Started(p) ELSE pump
    /\ UNCHANGED <<sess, queue, deliver, told>>

(***************************************************************************)
(* handleNotify once the pump is gone: SetNotify installs the watch and    *)
(* starts listening; the pump is started for NOTIFY NONE too.  A refused   *)
(* NOTIFY leaves the previous watch and its pump.                          *)
(***************************************************************************)
SetNotify(w) ==
    /\ conn.pc = "swap" /\ conn.cmd = "NOTIFY"
    /\ \E p \in Pump :
        /\ pump[p].pc = "off"
        /\ pump' = Started(p)
        /\ conn' = [conn EXCEPT !.pc = "poll", !.pump = p, !.had = FALSE, !.used = TRUE,
                                !.events = w \in {"selected", "delayed"}]
    /\ sess' = [sess EXCEPT !.watch = w, !.listens = TRUE, !.off = TRUE]
    /\ told' = [told EXCEPT !.watch = w, !.told = TRUE]
    /\ UNCHANGED <<queue, deliver>>

SetNotifyFails ==
    /\ conn.pc = "swap" /\ conn.cmd = "NOTIFY"
    /\ \E p \in Pump :
        /\ pump[p].pc = "off"
        /\ pump' = IF conn.had THEN Started(p) ELSE pump
        /\ conn' = [conn EXCEPT !.pc = "ready", !.cmd = "",
                                !.pump = IF conn.had THEN p ELSE NoPump, !.had = FALSE]
    /\ UNCHANGED <<sess, queue, deliver, told>>

-----------------------------------------------------------------------------
(* Mutant: poll does not ask what NOTIFY asked for. *)
PollDeliversAlways == TRUE

(***************************************************************************)
(* Conn.poll, after a command and before its tagged response.  With NOTIFY *)
(* in use it only delivers what was asked for; EXPUNGE must report.        *)
(***************************************************************************)
PollDelivers == conn.cmd = "EXPUNGE" \/ ~conn.used \/ conn.events

AllowExpunge == conn.cmd \notin {"FETCH", "STORE"}

(* SessionTracker.poll: everything, or what comes before an expunge. *)
BatchEnd(q, allow) ==
    CHOOSE k \in 0 .. Len(q) :
        /\ \A j \in 1 .. k : allow \/ q[j] # "expunge"
        /\ k < Len(q) => ~allow /\ q[k + 1] = "expunge"

Rest(q, k) == SubSeq(q, k + 1, Len(q))

Finished(c) == [c EXCEPT !.pc = "ready", !.cmd = ""]

(* PollWith waits for the delivery mutex, also on a dead connection. *)
CommandPoll ==
    LET b == sess.mailbox IN
    /\ conn.pc = "poll"
    /\ b # NoBox /\ PollDelivers /\ deliver = NoPump
    /\ queue' = [queue EXCEPT ![b] = Rest(@, BatchEnd(@, AllowExpunge))]
    /\ conn' = Finished(conn)
    /\ UNCHANGED <<sess, deliver, pump, told>>

NoPoll ==
    /\ conn.pc = "poll"
    /\ sess.mailbox = NoBox \/ ~PollDelivers
    /\ conn' = Finished(conn)
    /\ UNCHANGED <<sess, queue, deliver, pump, told>>

(* finishBye: the session ends the connection instead. *)
PollBye ==
    /\ conn.pc = "poll" /\ Open
    /\ conn' = [conn EXCEPT !.pc = "linger", !.socket = "half"]
    /\ UNCHANGED <<sess, queue, deliver, pump, told>>

(* UserSession.Idle: silent while notifyOff is there, else tracker.Idle. *)
IdleDeliver ==
    /\ conn.pc = "idle" /\ Open
    /\ sess.mailbox # NoBox /\ ~sess.off
    /\ deliver = NoPump
    /\ queue[sess.mailbox] # <<>>
    /\ queue' = [queue EXCEPT ![sess.mailbox] = <<>>]
    /\ UNCHANGED <<conn, sess, deliver, pump, told>>

IdleEnd ==
    /\ conn.pc = "idle"
    /\ conn' = [conn EXCEPT !.pc = "poll"]
    /\ UNCHANGED <<sess, queue, deliver, pump, told>>

(* Mutant: the pump is left to the deferred calls. *)
ShutdownHasty ==
    /\ conn.pc = "ready" /\ Open /\ conn.state # "logout"
    /\ conn' = [conn EXCEPT !.pc = "swap", !.cmd = "shutdown"]
    /\ UNCHANGED <<sess, queue, deliver, pump, told>>

(***************************************************************************)
(* The ends of serve: Shutdown between two commands (the pump first, then  *)
(* BYE and a lingering close), LOGOUT, a lost client; and its deferred     *)
(* calls: stopNotifyPump, then Session.Close.                              *)
(***************************************************************************)
Shutdown ==
    /\ conn.pc = "ready" /\ Open /\ conn.state # "logout"
    /\ conn' = [conn EXCEPT !.pc = "stop", !.cmd = "shutdown"]
    /\ UNCHANGED <<sess, queue, deliver, pump, told>>

ShutdownBye ==
    /\ conn.pc = "swap" /\ conn.cmd = "shutdown"
    /\ conn' = [conn EXCEPT !.pc = "linger", !.socket = IF Open THEN "half" ELSE @]
    /\ told' = [told EXCEPT !.bye = Open]
    /\ UNCHANGED <<sess, queue, deliver, pump>>

Teardown ==
    /\ \/ conn.pc = "ready" /\ (~Open \/ conn.state = "logout")
       \/ conn.pc = "linger"
    /\ conn' = [conn EXCEPT !.pc = "stop", !.cmd = "teardown"]
    /\ UNCHANGED <<sess, queue, deliver, pump, told>>

CloseSession ==
    /\ conn.pc = "swap" /\ conn.cmd = "teardown"
    /\ conn' = [conn EXCEPT !.pc = "done", !.socket = "closed"]
    /\ sess' = NewSession
    /\ queue' = NoUpdates
    /\ UNCHANGED <<deliver, pump, told>>

-----------------------------------------------------------------------------
(***************************************************************************)
(* The goroutine of startNotifyPump: UserSession.NotifyPoll, then the      *)
(* result is sent and, unless stop was closed, an error ends the           *)
(* connection (abortFromBackground).                                       *)
(***************************************************************************)
Returned(p, err) == [pump EXCEPT ![p] = [NewPump EXCEPT !.pc = "sent", !.stop = pump[p].stop,
                                                        !.err = err]]
Freed(p) == IF deliver = p THEN NoPump ELSE deliver

PumpStart(p) ==
    /\ pump[p].pc = "start"
    /\ pump' = IF sess.listens THEN [pump EXCEPT ![p].pc = "select"] ELSE Returned(p, FALSE)
    /\ UNCHANGED <<conn, sess, queue, deliver, told>>

PumpStops(p) ==
    /\ pump[p].pc = "select"
    /\ pump[p].stop \/ ~Open
    /\ pump' = Returned(p, FALSE)
    /\ UNCHANGED <<conn, sess, queue, deliver, told>>

(* handleNotifyEvent: the watch and the selected mailbox as they are now. *)
PumpEvent(p) ==
    LET b == Head(sess.chan)
        mine == b = sess.mailbox /\ sess.watch \in {"selected", "delayed"}
    IN  /\ pump[p].pc = "select"
        /\ sess.chan # <<>>
        /\ sess' = [sess EXCEPT !.chan = Tail(@)]
        /\ pump' = [pump EXCEPT ![p].pc = IF mine THEN "event" ELSE "check",
                                ![p].box = IF mine THEN b ELSE NoBox,
                                ![p].mode = IF mine THEN sess.watch ELSE "none"]
        /\ UNCHANGED <<conn, queue, deliver, told>>

(* ExpungeAllowed and DelayedExpungeAllowed look at the command in progress. *)
PumpAllows(mode) ==
    IF mode = "selected" THEN conn.cmd \notin {"FETCH", "STORE"}
    ELSE conn.cmd \in {"NOOP", "IDLE", "EXPUNGE"}

PumpDecide(p) ==
    /\ pump[p].pc = "event"
    /\ pump' = [pump EXCEPT ![p].pc = "take", ![p].mode = "none",
                            ![p].allow = PumpAllows(pump[p].mode)]
    /\ UNCHANGED <<conn, sess, queue, deliver, told>>

(* PollWith, with the view's delivery mutex until the last write. *)
PumpTake(p) ==
    LET b == pump[p].box
        k == BatchEnd(queue[b], pump[p].allow)
    IN  /\ pump[p].pc = "take"
        /\ deliver = NoPump
        /\ deliver' = p
        /\ pump' = [pump EXCEPT ![p].pc = "write", ![p].allow = FALSE,
                                ![p].batch = SubSeq(queue[b], 1, k)]
        /\ queue' = [queue EXCEPT ![b] = Rest(@, k)]
        /\ UNCHANGED <<conn, sess, told>>

PumpWrite(p) ==
    /\ pump[p].pc = "write" /\ pump[p].batch # <<>> /\ Open
    /\ pump' = [pump EXCEPT ![p].batch = Tail(@)]
    /\ UNCHANGED <<conn, sess, queue, deliver, told>>

PumpWritten(p) ==
    /\ pump[p].pc = "write" /\ pump[p].batch = <<>>
    /\ deliver' = NoPump
    /\ pump' = [pump EXCEPT ![p] = [NewPump EXCEPT !.pc = "check", !.stop = pump[p].stop]]
    /\ UNCHANGED <<conn, sess, queue, told>>

(* checkNotifyOverflow and WriteNotificationOverflow. *)
Overflowing == \E b \in Box : b = sess.mailbox /\ Len(queue[b]) > MaxQueued

PumpNoOverflow(p) ==
    /\ pump[p].pc = "check"
    /\ ~Overflowing
    /\ pump' = [pump EXCEPT ![p].pc = "select"]
    /\ UNCHANGED <<conn, sess, queue, deliver, told>>

PumpOverflow(p) ==
    /\ pump[p].pc = "check" /\ Open /\ Overflowing
    /\ conn' = [conn EXCEPT !.used = FALSE, !.events = FALSE]
    /\ told' = [told EXCEPT !.told = FALSE, !.watch = "none"]
    /\ pump' = [pump EXCEPT ![p].pc = "drop"]
    /\ UNCHANGED <<sess, queue, deliver>>

(* Mutant: an IDLE keeps waiting for the pump to deliver. *)
PumpDropMute(p) ==
    /\ pump[p].pc = "drop"
    /\ sess' = [sess EXCEPT !.watch = "none", !.listens = FALSE, !.chan = <<>>]
    /\ pump' = Returned(p, FALSE)
    /\ UNCHANGED <<conn, queue, deliver, told>>

(* stopNotifyEvents; closing notifyOff releases an IDLE that waits for it. *)
PumpDrop(p) ==
    /\ pump[p].pc = "drop"
    /\ sess' = [sess EXCEPT !.watch = "none", !.listens = FALSE, !.chan = <<>>, !.off = FALSE]
    /\ pump' = Returned(p, FALSE)
    /\ UNCHANGED <<conn, queue, deliver, told>>

(* A failed write, an error of the backend or a panic. *)
PumpFails(p) ==
    /\ Live(p) /\ pump[p].pc # "drop"
    /\ pump' = Returned(p, TRUE)
    /\ deliver' = Freed(p)
    /\ UNCHANGED <<conn, sess, queue, told>>

Aborts(p) == pump[p].err /\ ~pump[p].stop

PumpExit(p) ==
    /\ pump[p].pc = "sent"
    /\ pump' = [pump EXCEPT ![p] = NewPump]
    /\ conn' = IF Aborts(p) THEN [conn EXCEPT !.socket = "closed"] ELSE conn
    /\ UNCHANGED <<sess, queue, deliver, told>>

-----------------------------------------------------------------------------
(* Another session changes a mailbox of the user. *)
Change(b, k) ==
    /\ conn.pc # "done"
    /\ IF b = sess.mailbox THEN Len(queue[b]) < MaxUpdates ELSE TRUE
    /\ queue' = IF b = sess.mailbox THEN [queue EXCEPT ![b] = Append(@, k)] ELSE queue
    /\ sess' = Notified(sess, b)
    /\ UNCHANGED <<conn, deliver, pump, told>>

HangUp ==
    /\ Open
    /\ conn' = [conn EXCEPT !.socket = "closed"]
    /\ UNCHANGED <<sess, queue, deliver, pump, told>>

Swap ==
    \/ SelectFails
    \/ \E b \in Box, access \in Grants : SelectOpens(b, access)
    \/ Unselect \/ SwapFails \/ Unauthenticate
    \/ \E w \in Watch : SetNotify(w)
    \/ SetNotifyFails
    \/ ShutdownBye \/ CloseSession

Client ==
    \/ \E cmd \in Command : Begin(cmd)
    \/ "LOGIN" \in Command /\ Login
    \/ "LOGOUT" \in Command /\ Logout
    \/ \E cmd \in Command \cap {"EXPUNGE", "MOVE"} : Remove(cmd)
    \/ IdleEnd
    \/ HangUp

Poll == CommandPoll \/ NoPoll \/ PollBye

PumpStep(p) ==
    \/ PumpStart(p) \/ PumpStops(p) \/ PumpEvent(p) \/ PumpDecide(p)
    \/ PumpTake(p) \/ PumpWrite(p) \/ PumpWritten(p)
    \/ PumpNoOverflow(p) \/ PumpOverflow(p) \/ PumpDrop(p) \/ PumpFails(p)
    \/ PumpExit(p)

Next ==
    \/ Client \/ Shutdown
    \/ StopPump \/ PumpGone \/ StopExpires \/ Swap \/ Restart
    \/ Poll \/ IdleDeliver \/ Teardown
    \/ \E p \in Pump : PumpStep(p)
    \/ \E b \in Box, k \in Kind : Change(b, k)

Spec == Init /\ [][Next]_vars

(***************************************************************************)
(* The command goroutine runs, its timer expires, and so does an IDLE read *)
(* of a dead socket; a goroutine that has sent its result ends.  A mutex   *)
(* that is released again and again is got.  NotifyPoll is the backend's   *)
(* and may hang, but neither while it delivers a batch, where each write   *)
(* ends by its deadline or with the socket, nor between the overflow       *)
(* response and its return.                                                *)
(***************************************************************************)
Delivering(p) == pump[p].pc = "write"

Fairness ==
    /\ WF_vars(StopPump) /\ WF_vars(PumpGone \/ StopExpires)
    /\ WF_vars(Swap) /\ WF_vars(Restart) /\ SF_vars(Poll) /\ WF_vars(Teardown)
    /\ WF_vars(IdleEnd /\ ~Open)
    /\ WF_vars(IdleDeliver)
    /\ \A p \in Pump : /\ WF_vars(PumpExit(p)) /\ WF_vars(PumpDrop(p))
                       /\ WF_vars(PumpStep(p) /\ Delivering(p))

FairSpec == Spec /\ Fairness

-----------------------------------------------------------------------------
TypeOK ==
    /\ conn \in ConnType
    /\ sess \in SessType /\ pump \in [Pump -> PumpType]
    /\ Len(sess.chan) <= ChanCap
    /\ \A b \in Box : Len(queue[b]) <= MaxUpdates
    /\ deliver \in Pump \cup {NoPump}
    /\ told \in ToldType
    /\ conn.pump # NoPump => conn.pump # conn.wait

(***************************************************************************)
(* An update that a pump is about to write is about the mailbox the client *)
(* has selected: handleSelect and handleUnselect let no NotifyPoll         *)
(* delivery cross the switch, also when the pump ignores stop.             *)
(***************************************************************************)
NoCrossDelivery ==
    \A p \in Pump : Open /\ pump[p].batch # <<>> => pump[p].box = told.box

(***************************************************************************)
(* On a working connection at most one NotifyPoll runs: stopNotifyPump     *)
(* waits for the old one, or gives the connection up.                      *)
(***************************************************************************)
OnePump == Open => Cardinality({p \in Pump : Live(p)}) <= 1

(***************************************************************************)
(* A client whose NOTIFY was accepted, and that was told of no overflow,   *)
(* is being notified: the watch is the one it asked for and its pump runs, *)
(* or has failed and is about to end the connection (startNotifyPump,      *)
(* restartNotifyPump, handleNotify's error paths).                         *)
(***************************************************************************)
WatchAlive ==
    /\ told.told /\ Open
    /\ conn.pc \in {"ready", "poll", "idle"} /\ conn.state \in {"auth", "selected"}
    => /\ sess.listens /\ sess.watch = told.watch
       /\ conn.pump # NoPump
       /\ Live(conn.pump) \/ Aborts(conn.pump)

(***************************************************************************)
(* A client whose NOTIFY leaves out the messages of the selected mailbox   *)
(* gets no update of it, by pump, poll or IDLE, but from EXPUNGE           *)
(* (Conn.poll, UserSession.Idle).                                          *)
(***************************************************************************)
FrozenView == [][
    /\ Open /\ told.told /\ told.watch = "none"
    /\ conn.cmd # "EXPUNGE" /\ told.box # NoBox /\ told'.box = told.box
    /\ conn.pc \notin {"swap", "done"}
    => Len(queue'[told.box]) >= Len(queue[told.box])]_vars

(***************************************************************************)
(* No command changes a mailbox that the client was told is read-only, but *)
(* for the per-user flags of a private store: what the comment of          *)
(* checkWritableMailbox says.  STORE, EXPUNGE and CLOSE ask; MOVE and the  *)
(* FETCH that sets \Seen do not.                                           *)
(***************************************************************************)
ReadOnlyUnchanged == ~told.harm

(***************************************************************************)
(* After the BYE of a shutdown no pump is left to write or to fail on the  *)
(* half-closed socket (the end of serve).                                  *)
(***************************************************************************)
NoPumpAfterBye == told.bye => \A p \in Pump : ~Live(p)

(***************************************************************************)
(* A connection that is lost, or given up, is torn down and its session    *)
(* closed, even if NotifyPoll never returns (stopNotifyPump's timer) and   *)
(* if its delivery keeps the poll of a command waiting (PollWith's mutex). *)
(***************************************************************************)
TeardownCompletes == ~Open ~> conn.pc = "done"

(***************************************************************************)
(* An IDLE that left delivery to the pump takes over when an overflow ends *)
(* the watch (notifyOff): updates do not wait for the client to give up.   *)
(***************************************************************************)
Idling == conn.pc = "idle" /\ Open /\ told.box # NoBox
OverflowThaws ==
    (Idling /\ ~told.told /\ sess.off) ~> (~Idling \/ queue[told.box] = <<>>)
=============================================================================
