--------------------------- MODULE ServerLifecycle ---------------------------
(***************************************************************************)
(* The life of a server and of its connections: Server.Serve, Close and    *)
(* Shutdown (imapserver/server.go), the serve loop of a connection and its *)
(* idle/active protocol (conn.go), and the IDLE command, in which three    *)
(* goroutines share the connection (idle.go): the command loop blocked on  *)
(* DONE, the backend's Session.Idle, and the watcher that interrupts the   *)
(* read when the backend ends the connection.                              *)
(*                                                                         *)
(* A blocked read is interrupted by arming a deadline in the past; the     *)
(* state of the deadline is kept, because it is what the races are about.  *)
(***************************************************************************)
EXTENDS Integers, Sequences, FiniteSets

CONSTANTS
    Conn,            \* the connections clients may open
    MaxConnections,  \* Options.MaxConnections (positive: the limit is on)
    Lines,           \* what clients send: a subset of Line
    MaxInput         \* bound: lines a client has sent that are not read yet

Line == {"cmd", "idle", "done", "logout"}

ASSUME LifecycleAssumption ==
    /\ IsFiniteSet(Conn)
    /\ Lines \subseteq Line
    /\ MaxConnections \in Nat \ {0}
    /\ MaxInput \in Nat \ {0}

VARIABLES
    closed,     \* Server.closed
    serveLoop,  \* pc of Serve: "off", "accept", "got", "returned"
    slots,      \* tokens in connSem
    conns,      \* Server.conns
    stop,       \* pc of the Close or Shutdown that set closed
    toVisit,    \* connections its loop over conns has not reached
    conn        \* the connections, a record (ConnState) for each

serverVars == <<closed, serveLoop, slots, conns, stop, toVisit>>
vars == <<serverVars, conn>>

(* Inside handleIdle, waiting for DONE; inside handleIdle. *)
Parking == {"i_arm", "i_watch", "i_park", "i_read"}
Idling  == Parking \cup {"i_wake", "i_await", "i_join"}

(* Registered by serve: NewSession and everything after it. *)
Served == Idling \cup {"session", "loop", "park", "read", "wake", "command",
                      "respond", "bye", "linger", "teardown"}

(* Conn.serve runs; its slot is taken; connsWaitGroup counts it. *)
InServe == {"start", "close"} \cup Served
Holding == InServe \cup {"release"}

(* Mutant: the wait group is told before the slot is given back. *)
RunningInServe == InServe
Running == Holding \cup {"leave"}

ConnState == [
    pc           : {"none", "accepted", "rejected", "done"} \cup Running,
    idle         : BOOLEAN,              \* Conn.idle
    shuttingDown : BOOLEAN,              \* Conn.shuttingDown
    deadline     : {"future", "past"},   \* of the blocking reads
    socket       : {"open", "closed"},
    got          : Line \cup {"none", "eof", "closed", "timeout"}, \* last read
    owed         : BOOLEAN,              \* a command was accepted, not answered
    bye          : {"none", "shutdown", "other"},               \* BYE written
    backend      : {"none", "run", "nil", "bye", "err"},        \* Session.Idle
    stopped      : BOOLEAN,              \* its stop channel is closed
    watcher      : {"none", "wait", "fire", "fired", "done"},
    ret          : {"none", "shutdown", "backend", "bye", "answer"}, \* handleIdle's
    orphan       : BOOLEAN,              \* an earlier Session.Idle still runs
    abandoned    : BOOLEAN,              \* handleIdle did not wait for it
    inbox        : Seq(Line),            \* sent by the client, not read
    peer         : {"up", "gone"}]

(* Mutant: Shutdown keeps the server's mutex while it waits. *)
LockedWaiting == stop \in {"shut_ask", "shut_wait", "shut_force", "close_force"}

(* Shutdown and forceCloseConns hold the server's mutex over their loops. *)
Locked == stop \in {"shut_ask", "shut_force", "close_force"}

-----------------------------------------------------------------------------
(* newConn *)
NewConn == [
    pc |-> "none", idle |-> FALSE, shuttingDown |-> FALSE, deadline |-> "future",
    socket |-> "open", got |-> "none", owed |-> FALSE, bye |-> "none",
    backend |-> "none", stopped |-> FALSE, watcher |-> "none", ret |-> "none",
    orphan |-> FALSE, abandoned |-> FALSE, inbox |-> <<>>, peer |-> "up"]

Init ==
    /\ closed = FALSE
    /\ serveLoop = "off"
    /\ slots = 0
    /\ conns = {}
    /\ stop = "none"
    /\ toVisit = {}
    /\ conn = [c \in Conn |-> NewConn]

(***************************************************************************)
(* Server.Serve.                                                           *)
(***************************************************************************)
Serve ==
    /\ serveLoop = "off"
    /\ ~Locked
    /\ serveLoop' = IF closed THEN "returned" ELSE "accept"
    /\ UNCHANGED <<closed, slots, conns, stop, toVisit, conn>>

(* Accept succeeds while the listener is open: until closed is set. *)
Accept(c) ==
    /\ serveLoop = "accept"
    /\ ~closed
    /\ conn[c].pc = "none"
    /\ conn' = [conn EXCEPT ![c].pc = "accepted"]
    /\ serveLoop' = "got"
    /\ UNCHANGED <<closed, slots, conns, stop, toVisit>>

(* The slot is taken without blocking; at the limit the client is refused. *)
Spawn(c) ==
    /\ serveLoop = "got"
    /\ conn[c].pc = "accepted"
    /\ serveLoop' = "accept"
    /\ IF slots < MaxConnections
         THEN /\ slots' = slots + 1
              /\ conn' = [conn EXCEPT ![c].pc = "start"]
         ELSE /\ slots' = slots
              /\ conn' = [conn EXCEPT ![c].pc = "rejected"]
    /\ UNCHANGED <<closed, conns, stop, toVisit>>

(* rejectConn, in a goroutine that nobody waits for. *)
RejectConn(c) ==
    /\ conn[c].pc = "rejected"
    /\ conn' = [conn EXCEPT ![c].pc = "done", ![c].bye = "other", ![c].socket = "closed"]
    /\ UNCHANGED serverVars

(* Accept fails: net.ErrClosed once the listener is closed, or for good. *)
ServeReturns ==
    /\ serveLoop = "accept"
    /\ ~Locked
    /\ serveLoop' = "returned"
    /\ UNCHANGED <<closed, slots, conns, stop, toVisit, conn>>

(***************************************************************************)
(* Close and Shutdown.  Only the first call gets past the test of closed.  *)
(***************************************************************************)
Close ==
    /\ stop = "none"
    /\ stop' = "close_wait"
    /\ closed' = TRUE
    /\ UNCHANGED <<serveLoop, slots, conns, toVisit, conn>>

CloseForces ==
    /\ stop = "close_wait"
    /\ serveLoop \in {"off", "returned"}
    /\ stop' = "close_force"
    /\ toVisit' = conns
    /\ UNCHANGED <<closed, serveLoop, slots, conns, conn>>

Shutdown ==
    /\ stop = "none"
    /\ stop' = "shut_ask"
    /\ closed' = TRUE
    /\ toVisit' = conns
    /\ UNCHANGED <<serveLoop, slots, conns, conn>>

(* requestShutdown: an idle connection is woken by a deadline in the past. *)
WakeDeadline(s) == IF s.idle THEN "past" ELSE s.deadline

RequestShutdown(c) ==
    /\ stop = "shut_ask"
    /\ c \in toVisit
    /\ toVisit' = toVisit \ {c}
    /\ conn' = [conn EXCEPT ![c].shuttingDown = TRUE,
                            ![c].deadline = WakeDeadline(conn[c])]
    /\ UNCHANGED <<closed, serveLoop, slots, conns, stop>>

ShutdownWaits ==
    /\ stop = "shut_ask"
    /\ toVisit = {}
    /\ stop' = "shut_wait"
    /\ UNCHANGED <<closed, serveLoop, slots, conns, toVisit, conn>>

ShutdownDone ==
    /\ stop = "shut_wait"
    /\ serveLoop \in {"off", "returned"}
    /\ \A c \in Conn : conn[c].pc \notin Running
    /\ stop' = "shut_done"
    /\ UNCHANGED <<closed, serveLoop, slots, conns, toVisit, conn>>

ContextExpires ==
    /\ stop = "shut_wait"
    /\ stop' = "shut_force"
    /\ toVisit' = conns
    /\ UNCHANGED <<closed, serveLoop, slots, conns, conn>>

(* forceCloseConns: cancel the context, close the socket. *)
ForceClose(c) ==
    /\ stop \in {"shut_force", "close_force"}
    /\ c \in toVisit
    /\ toVisit' = toVisit \ {c}
    /\ conn' = [conn EXCEPT ![c].socket = "closed"]
    /\ UNCHANGED <<closed, serveLoop, slots, conns, stop>>

ForceReturns ==
    /\ stop \in {"shut_force", "close_force"}
    /\ toVisit = {}
    /\ stop' = IF stop = "shut_force" THEN "shut_expired" ELSE "close_done"
    /\ UNCHANGED <<closed, serveLoop, slots, conns, toVisit, conn>>

-----------------------------------------------------------------------------
(***************************************************************************)
(* Conn.serve, up to the loop.                                             *)
(***************************************************************************)
(* How a write to the client ends. *)
WriteResults(s) ==
    CASE s.socket = "closed" -> {FALSE}
      [] s.socket = "open" /\ s.peer = "gone" -> BOOLEAN
      [] OTHER -> {TRUE}

(* The server may have been closed since the accept. *)
MayRegisterAlways == TRUE
MayRegister == ~closed

Register(c) ==
    /\ conn[c].pc = "start"
    /\ ~Locked
    /\ IF MayRegister
         THEN /\ conns' = conns \cup {c}
              /\ conn' = [conn EXCEPT ![c].pc = "session"]
         ELSE /\ conns' = conns
              /\ conn' = [conn EXCEPT ![c].pc = "close", ![c].bye = "other"]
    /\ UNCHANGED <<closed, serveLoop, slots, stop, toVisit>>

(* Options.NewSession and the greeting; either may end the connection. *)
Greet(c) ==
    /\ conn[c].pc = "session"
    /\ \/ /\ TRUE \in WriteResults(conn[c])
          /\ conn' = [conn EXCEPT ![c].pc = "loop"]
       \/ \E b \in {"none", "other"} :
            conn' = [conn EXCEPT ![c].pc = "teardown", ![c].bye = b]
    /\ UNCHANGED serverVars

(***************************************************************************)
(* The loop: arm the deadline, declare the connection idle, read, declare  *)
(* it active, handle one command.                                          *)
(***************************************************************************)
ArmRead(c) ==
    /\ conn[c].pc = "loop"
    /\ conn' = [conn EXCEPT
                  ![c].pc = IF conn[c].got = "logout" THEN "teardown" ELSE "park",
                  ![c].deadline = "future", ![c].got = "none", ![c].ret = "none"]
    /\ UNCHANGED serverVars

(* What setIdle reports. *)
MayParkAlways(s) == TRUE
MayPark(s) == ~s.shuttingDown

SetIdle(c) ==
    /\ conn[c].pc = "park"
    /\ conn' = IF MayPark(conn[c])
               THEN [conn EXCEPT ![c].pc = "read", ![c].idle = TRUE]
               ELSE [conn EXCEPT ![c].pc = "bye"]
    /\ UNCHANGED serverVars

(* The blocking read of the loop or of handleIdle returns. *)
ReadReturns(c) ==
    LET woken == IF conn[c].pc = "read" THEN "wake" ELSE "i_wake" IN
    /\ conn[c].pc \in {"read", "i_read"}
    /\ \/ /\ conn[c].inbox # <<>>
          /\ conn' = [conn EXCEPT ![c].pc = woken, ![c].got = Head(conn[c].inbox),
                                  ![c].inbox = Tail(@)]
       \/ /\ conn[c].socket = "closed"
          /\ conn' = [conn EXCEPT ![c].pc = woken, ![c].got = "closed"]
       \/ /\ conn[c].peer = "gone" /\ conn[c].inbox = <<>>
          /\ conn' = [conn EXCEPT ![c].pc = woken, ![c].got = "eof"]
       \/ /\ conn[c].deadline = "past"
          /\ conn' = [conn EXCEPT ![c].pc = woken, ![c].got = "timeout"]
    /\ UNCHANGED serverVars

(* The client stays silent until the armed deadline. *)
ReadExpires(c) ==
    /\ conn[c].pc \in {"read", "i_read"}
    /\ conn' = [conn EXCEPT ![c].pc = IF @ = "read" THEN "wake" ELSE "i_wake",
                            ![c].got = "timeout"]
    /\ UNCHANGED serverVars

(* An input that arrived together with the shutdown is dropped for the BYE. *)
SetActive(c) ==
    /\ conn[c].pc = "wake"
    /\ conn' =
         IF conn[c].shuttingDown
         THEN [conn EXCEPT ![c].idle = FALSE,
                           ![c].pc = IF conn[c].got = "eof" THEN "teardown" ELSE "bye"]
         ELSE IF conn[c].got \in {"eof", "closed", "timeout"}
         THEN [conn EXCEPT ![c].idle = FALSE, ![c].pc = "teardown"]
         ELSE [conn EXCEPT ![c].idle = FALSE, ![c].pc = "command",
                           ![c].deadline = "future", ![c].owed = TRUE]
    /\ UNCHANGED serverVars

(* A command other than IDLE runs to its end; or its handler panics, or   *)
(* what is left of its input cannot be skipped, and the connection ends.  *)
Handle(c) ==
    /\ conn[c].pc = "command"
    /\ conn[c].got # "idle"
    /\ \/ conn' = [conn EXCEPT ![c].pc = "respond",
                  ![c].bye = IF conn[c].got = "logout" /\ TRUE \in WriteResults(conn[c])
                             THEN "other" ELSE @]
       \/ \E b \in {"none", "other"} :
            conn' = [conn EXCEPT ![c].pc = "teardown", ![c].bye = b]
    /\ UNCHANGED serverVars

(* The tagged response, after a poll; a BYE-typed error of either is the  *)
(* last response (finishBye), any other error of the poll or of the write *)
(* ends the connection.                                                   *)
Respond(c) ==
    /\ conn[c].pc = "respond"
    /\ \/ /\ TRUE \in WriteResults(conn[c])
          /\ conn[c].ret # "bye"
          /\ conn' = [conn EXCEPT ![c].pc = "loop", ![c].owed = FALSE]
       \/ /\ TRUE \in WriteResults(conn[c])
          /\ conn' = [conn EXCEPT ![c].pc = "linger", ![c].owed = FALSE,
                                  ![c].bye = "other"]
       \/ conn' = [conn EXCEPT ![c].pc = "teardown"]
    /\ UNCHANGED serverVars

(* byeOnExit: the connection is told, then closed without cutting it off. *)
ShutdownBye(c) ==
    /\ conn[c].pc = "bye"
    /\ \E ok \in WriteResults(conn[c]) :
        conn' = IF ok THEN [conn EXCEPT ![c].pc = "linger", ![c].bye = "shutdown"]
                ELSE [conn EXCEPT ![c].pc = "teardown"]
    /\ UNCHANGED serverVars

LingerClose(c) ==
    /\ conn[c].pc = "linger"
    /\ conn' = [conn EXCEPT ![c].pc = "teardown", ![c].inbox = <<>>]
    /\ UNCHANGED serverVars

(* The deferred calls: session.Close, the deletion from conns, ... *)
Teardown(c) ==
    /\ conn[c].pc = "teardown"
    /\ ~Locked
    /\ conns' = conns \ {c}
    /\ conn' = [conn EXCEPT ![c].pc = "close"]
    /\ UNCHANGED <<closed, serveLoop, slots, stop, toVisit>>

(* ... the socket and the context. *)
CloseConn(c) ==
    /\ conn[c].pc = "close"
    /\ conn' = [conn EXCEPT ![c].pc = "release", ![c].socket = "closed",
                            ![c].inbox = <<>>]
    /\ UNCHANGED serverVars

(* The goroutine of Serve: the slot, then the wait group. *)
Release(c) ==
    /\ conn[c].pc = "release"
    /\ slots' = slots - 1
    /\ conn' = [conn EXCEPT ![c].pc = "leave"]
    /\ UNCHANGED <<closed, serveLoop, conns, stop, toVisit>>

Leave(c) ==
    /\ conn[c].pc = "leave"
    /\ conn' = [conn EXCEPT ![c].pc = "done"]
    /\ UNCHANGED serverVars

-----------------------------------------------------------------------------
(***************************************************************************)
(* handleIdle: the continuation request is written and the backend starts; *)
(* the deadline is armed before the watcher exists and before setIdle.     *)
(***************************************************************************)
IdleBegin(c) ==
    /\ conn[c].pc = "command"
    /\ conn[c].got = "idle"
    /\ \/ /\ TRUE \in WriteResults(conn[c])
          /\ conn' = [conn EXCEPT ![c].pc = "i_arm", ![c].stopped = FALSE,
                                  ![c].orphan = @ \/ conn[c].backend = "run",
                                  ![c].backend = "run", ![c].watcher = "none"]
       \/ conn' = [conn EXCEPT ![c].pc = "respond"]
    /\ UNCHANGED serverVars

IdleArm(c) ==
    /\ conn[c].pc = "i_arm"
    /\ conn' = [conn EXCEPT ![c].pc = "i_watch", ![c].deadline = "future"]
    /\ UNCHANGED serverVars

IdleWatch(c) ==
    /\ conn[c].pc = "i_watch"
    /\ conn' = [conn EXCEPT ![c].pc = "i_park", ![c].watcher = "wait"]
    /\ UNCHANGED serverVars

(* Mutant: the deadline is armed (again) after the watcher was started. *)
IdleSetIdleRearming(c) ==
    /\ conn[c].pc = "i_park"
    /\ conn' = [conn EXCEPT ![c].pc = "i_read", ![c].idle = TRUE,
                            ![c].deadline = "future"]
    /\ UNCHANGED serverVars

IdleSetIdle(c) ==
    /\ conn[c].pc = "i_park"
    /\ conn' = IF MayPark(conn[c])
               THEN [conn EXCEPT ![c].pc = "i_read", ![c].idle = TRUE]
               ELSE [conn EXCEPT ![c].pc = "i_await", ![c].stopped = TRUE,
                                 ![c].ret = "shutdown"]
    /\ UNCHANGED serverVars

(* After the read: the shutdown, the backend's BYE and the client are  *)
(* looked at in this order.  Only the first two and DONE wait for the  *)
(* backend.                                                            *)
IdleOutcomeHasty(s) ==
    IF s.shuttingDown THEN [next |-> "i_join", ret |-> "shutdown"]
    ELSE [next |-> "i_await", ret |-> "backend"]
IdleOutcome(s) ==
    IF s.shuttingDown THEN [next |-> "i_await", ret |-> "shutdown"]
    ELSE IF s.watcher \in {"fire", "fired"} \/ s.got = "done"
      THEN [next |-> "i_await", ret |-> "backend"]
    ELSE [next |-> "i_join", ret |-> IF s.got = "timeout" THEN "bye" ELSE "answer"]

IdleSetActive(c) ==
    /\ conn[c].pc = "i_wake"
    /\ conn' = [conn EXCEPT ![c].pc = IdleOutcome(conn[c]).next,
                            ![c].ret = IdleOutcome(conn[c]).ret,
                            ![c].idle = FALSE, ![c].stopped = TRUE]
    /\ UNCHANGED serverVars

(* awaitBackend: Session.Idle returned, or the 30 seconds are over. *)
IdleAwait(c) ==
    /\ conn[c].pc = "i_await"
    /\ conn[c].backend # "run"
    /\ conn' = [conn EXCEPT ![c].pc = "i_join",
                  ![c].ret = IF @ = "shutdown" THEN @
                             ELSE IF conn[c].backend = "bye" THEN "bye" ELSE "answer"]
    /\ UNCHANGED serverVars

IdleAwaitExpires(c) ==
    /\ conn[c].pc = "i_await"
    /\ conn' = [conn EXCEPT ![c].pc = "i_join",
                            ![c].ret = IF @ = "shutdown" THEN @ ELSE "answer",
                            ![c].abandoned = @ \/ conn[c].backend = "run"]
    /\ UNCHANGED serverVars

(* The deferred call: join the watcher, then restore the deadline.  A *)
(* shutdown leaves the IDLE unanswered on purpose.                    *)
WatcherJoined(s) == s.watcher \in {"fired", "done"}

IdleReturn(c) ==
    /\ conn[c].pc = "i_join"
    /\ WatcherJoined(conn[c])
    /\ conn' = [conn EXCEPT
                  ![c].pc = IF conn[c].ret = "shutdown" THEN "bye" ELSE "respond",
                  ![c].owed = conn[c].ret # "shutdown",
                  ![c].deadline = "future",
                  ![c].abandoned = \/ @
                                   \/ conn[c].backend = "run" /\ conn[c].ret # "shutdown"]
    /\ UNCHANGED serverVars

(* Session.Idle returns when stop is closed, or before, of its own accord. *)
BackendReturns(c) ==
    /\ conn[c].backend = "run"
    /\ \E how \in {"nil", "bye", "err"} : conn' = [conn EXCEPT ![c].backend = how]
    /\ UNCHANGED serverVars

OrphanReturns(c) ==
    /\ conn[c].orphan
    /\ conn' = [conn EXCEPT ![c].orphan = FALSE]
    /\ UNCHANGED serverVars

(* The watcher: ended or watchStop, whichever it sees first; backendEnded *)
(* is stored before the read is interrupted.                              *)
WatcherWakes(c) ==
    /\ conn[c].watcher = "wait"
    /\ \/ /\ conn[c].backend # "run"
          /\ conn' = [conn EXCEPT ![c].watcher =
                                    IF conn[c].backend = "bye" THEN "fire" ELSE "done"]
       \/ /\ conn[c].pc = "i_join"
          /\ conn' = [conn EXCEPT ![c].watcher = "done"]
    /\ UNCHANGED serverVars

WatcherInterrupts(c) ==
    /\ conn[c].watcher = "fire"
    /\ conn' = [conn EXCEPT ![c].watcher = "fired", ![c].deadline = "past"]
    /\ UNCHANGED serverVars

-----------------------------------------------------------------------------
(***************************************************************************)
(* Clients.                                                                *)
(***************************************************************************)
Send(c, l) ==
    /\ conn[c].pc \in InServe
    /\ conn[c].peer = "up"
    /\ Len(conn[c].inbox) < MaxInput
    /\ conn' = [conn EXCEPT ![c].inbox = Append(@, l)]
    /\ UNCHANGED serverVars

HangUp(c) ==
    /\ conn[c].pc \in InServe
    /\ conn[c].peer = "up"
    /\ conn' = [conn EXCEPT ![c].peer = "gone"]
    /\ UNCHANGED serverVars

-----------------------------------------------------------------------------
(* Steps of serve that wait for nobody outside the server. *)
ServeStep(c) ==
    \/ RejectConn(c) \/ Register(c) \/ Greet(c) \/ ArmRead(c) \/ SetIdle(c)
    \/ ReadReturns(c) \/ SetActive(c) \/ Handle(c) \/ Respond(c) \/ ShutdownBye(c)
    \/ LingerClose(c) \/ Teardown(c) \/ CloseConn(c) \/ Release(c) \/ Leave(c)
    \/ IdleBegin(c) \/ IdleArm(c) \/ IdleWatch(c) \/ IdleSetIdle(c)
    \/ IdleSetActive(c) \/ IdleAwait(c) \/ IdleReturn(c)

WatcherStep(c) == WatcherWakes(c) \/ WatcherInterrupts(c)

AcceptLoop == ServeReturns \/ \E c \in Conn : Spawn(c)

Stopper ==
    \/ CloseForces \/ ShutdownWaits \/ ShutdownDone \/ ForceReturns
    \/ \E c \in Conn : RequestShutdown(c) \/ ForceClose(c)

Next ==
    \/ Serve \/ AcceptLoop \/ Close \/ Shutdown \/ ContextExpires \/ Stopper
    \/ \E c \in Conn :
        \/ Accept(c) \/ ServeStep(c) \/ ReadExpires(c) \/ IdleAwaitExpires(c)
        \/ BackendReturns(c) \/ OrphanReturns(c) \/ WatcherStep(c)
        \/ HangUp(c) \/ \E l \in Lines : Send(c, l)

Spec == Init /\ [][Next]_vars

(***************************************************************************)
(* Goroutines run, command handlers and Session.Idle come to an end, and   *)
(* Accept fails on a closed listener.  No client has to say anything, no   *)
(* armed deadline has to expire, and nor does Shutdown's context.          *)
(***************************************************************************)
Fairness ==
    /\ WF_vars(closed /\ AcceptLoop)
    /\ WF_vars(Stopper)
    /\ \A c \in Conn :
        /\ WF_vars(ServeStep(c))
        /\ WF_vars(WatcherStep(c))
        /\ WF_vars(conn[c].stopped /\ BackendReturns(c))

FairSpec == Spec /\ Fairness

-----------------------------------------------------------------------------
TypeOK ==
    /\ closed \in BOOLEAN
    /\ serveLoop \in {"off", "accept", "got", "returned"}
    /\ slots \in 0 .. MaxConnections
    /\ conns \subseteq Conn
    /\ stop \in {"none", "shut_ask", "shut_wait", "shut_force", "shut_done",
                 "shut_expired", "close_wait", "close_force", "close_done"}
    /\ toVisit \subseteq Conn
    /\ conn \in [Conn -> ConnState]

(***************************************************************************)
(* When Close has returned, or Shutdown after its context expired, every   *)
(* connection still being served has lost its socket: none slipped between *)
(* the accept and the snapshot of conns.                                   *)
(***************************************************************************)
NoSurvivor ==
    stop \in {"close_done", "shut_expired"} =>
        \A c \in Conn : conn[c].pc \in Served => conn[c].socket = "closed"

(***************************************************************************)
(* When Shutdown has returned without its context expiring, nothing of a   *)
(* connection is left: no entry in conns, no slot of MaxConnections, no    *)
(* open socket (the order of the deferred calls, and connsWaitGroup.Add    *)
(* before the goroutine starts), but for that of a client over the limit,  *)
(* for whose rejectConn Shutdown does not wait.                            *)
(***************************************************************************)
NothingLeft ==
    stop = "shut_done" =>
        /\ conns = {} /\ slots = 0
        /\ \A c \in Conn : conn[c].pc \notin {"none", "rejected"} => conn[c].socket = "closed"

(***************************************************************************)
(* A client that is lost gives its slot back, wherever the connection is   *)
(* in its life and whatever Close or Shutdown does meanwhile: the limit    *)
(* does not fill up with connections nobody uses.                          *)
(***************************************************************************)
LostClientFreesSlot ==
    \A c \in Conn :
        (conn[c].pc \in Holding /\ conn[c].peer = "gone")
            ~> (slots = Cardinality({d \in Conn \ {c} : conn[d].pc \in Holding}))

(***************************************************************************)
(* The shutdown BYE is the last thing a connection says, and it says it    *)
(* with nothing in flight: no accepted command is unanswered, and no       *)
(* Session.Idle is left that could still write (but for one that handleIdle*)
(* had already given up on).                                               *)
(***************************************************************************)
ShutdownByeIsLast ==
    \A c \in Conn :
        conn[c].bye = "shutdown" =>
            /\ ~conn[c].owed
            /\ conn[c].backend = "run" => conn[c].abandoned

(***************************************************************************)
(* Shutdown ends by itself: idle clients, also those in IDLE, are not      *)
(* waited for, and the context does not have to expire.                    *)
(***************************************************************************)
ShutdownCompletes ==
    stop = "shut_ask" ~> stop \in {"shut_done", "shut_expired"}

(***************************************************************************)
(* A backend that ends an IDLE with BYE is heard however early it does so: *)
(* the connection does not stay parked on a client that never sends DONE.  *)
(***************************************************************************)
BackendByeUnparks ==
    \A c \in Conn :
        (conn[c].backend = "bye" /\ conn[c].pc \in Parking) ~> conn[c].pc \notin Parking
=============================================================================
