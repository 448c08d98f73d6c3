-------------------------------- MODULE Client --------------------------------
(***************************************************************************)
(* The command pipeline of a client (imapclient/client.go): goroutines     *)
(* that send commands under encMutex, the read goroutine that dispatches   *)
(* responses to the pending commands, and the read deadline, Close and     *)
(* closeWithError that end them.  A command is plain (sent in one go),     *)
(* carries a synchronizing literal (append.go), or is IDLE or AUTHENTICATE *)
(* (idle.go, authenticate.go).                                             *)
(*                                                                         *)
(* The server is the environment: it answers in order, accepts or refuses, *)
(* and may stall or hang up at any time.                                   *)
(***************************************************************************)
EXTENDS Integers, Sequences

CONSTANTS
    Caller,    \* goroutines using the client
    Reader,    \* the read goroutine
    NoCaller,  \* encMutex is free
    Sends      \* [Caller -> SUBSET Kind]: the commands a goroutine sends

Kind == {"plain", "literal", "idle", "auth"}

ASSUME ClientAssumption ==
    /\ Reader \notin Caller
    /\ NoCaller \notin Caller \cup {Reader} \cup (Caller \X {0, 1})
    /\ Sends \in [Caller -> SUBSET Kind]

(* A goroutine's commands, told apart by their tags.  Two are enough: the   *)
(* one it is at, and one it left behind (a restarted IDLE, a failed SASL    *)
(* exchange).                                                               *)
Cmd == Caller \X {0, 1}

Proc == Caller \cup {Reader}

VARIABLES
    pc,        \* where each goroutine is
    cur,       \* the command each caller is at
    cmd,       \* the commands, see CmdType
    encMutex,  \* its holder
    pending,   \* pendingCmds
    contReqs,  \* the commands of the registered continuation requests
    doomed,    \* commands that a goroutine in closeWithError still completes
    deadline,  \* the read deadline: for a response, for IDLE, or the reader's own
    greeted,   \* greetingCh is closed
    open,      \* the client has not closed the connection
    up, down,  \* lines to and from the server
    server,    \* what the server is at, see ServerType
    left       \* history: an Authenticate has left its exchange unfinished

vars == <<pc, cur, cmd, encMutex, pending, contReqs, doomed, deadline, greeted,
          open, up, down, server, left>>
clientVars == <<pc, cur, cmd, encMutex, pending, contReqs, doomed, deadline, greeted, open, left>>

CmdType == [
    kind : Kind,
    cont : {"none", "queued", "done", "cancelled"},  \* its ContinuationRequest
    done : 0..2]                                     \* completions; 1 before its first use

Unsent == [kind |-> "plain", cont |-> "none", done |-> 1]

ServerType == [
    at  : {"new", "ready", "gone"} \cup (Kind \ {"plain"}),
    cmd : Cmd \cup {NoCaller}]   \* the command it waits for more of

Line == [t : {"cmd", "literal", "done", "sasl", "cont", "tagged"}, cmd : Cmd]
        \cup {[t |-> "greeting"]}

Init ==
    /\ pc = [p \in Proc |-> IF p = Reader THEN "read" ELSE "out"]
    /\ cur = [c \in Caller |-> <<c, 0>>]
    /\ cmd = [x \in Cmd |-> Unsent]
    /\ encMutex = NoCaller
    /\ pending = <<>> /\ contReqs = <<>>
    /\ doomed = [p \in Proc |-> <<>>]
    /\ deadline = "response"
    /\ greeted = FALSE /\ open = TRUE
    /\ up = <<>> /\ down = <<>>
    /\ server = [at |-> "new", cmd |-> NoCaller]
    /\ left = FALSE

-----------------------------------------------------------------------------

In(x, q) == \E i \in 1..Len(q) : q[i] = x

(* A command has at most one entry in the lists it is taken from, which    *)
(* ClientProofs shows: deletePendingCmdByTag's removal of the first and     *)
(* completeCommand's filter leave the same list.                            *)
Without(q, x) ==
    LET i == CHOOSE i \in 1..Len(q) : q[i] = x IN
    IF In(x, q) THEN [j \in 1..Len(q) - 1 |-> q[IF j < i THEN j ELSE j + 1]] ELSE q

(* readTimeoutLocked *)
TimeoutFor(q) ==
    IF Len(q) > 0 /\ \A i \in 1..Len(q) : cmd[q[i]].kind # "idle" THEN "response" ELSE "idle"

(* Mutant: the cancelled request stays registered. *)
CompleteKeeping(x) ==
    /\ UNCHANGED contReqs
    /\ cmd' = [cmd EXCEPT ![x].cont = IF @ = "queued" THEN "cancelled" ELSE @,
                          ![x].done = @ + 1]

(* completeCommand: cancel the command's continuation request, then send on *)
(* its done channel.                                                        *)
Complete(x) ==
    /\ contReqs' = Without(contReqs, x)
    /\ cmd' = [cmd EXCEPT ![x].cont = IF @ = "queued" THEN "cancelled" ELSE @,
                          ![x].done = @ + 1]

Unused(x) ==
    /\ ~In(x, pending) /\ ~In(x, contReqs)
    /\ \A p \in Proc : ~In(x, doomed[p])

Fresh(c) == IF Unused(<<c, 0>>) THEN <<c, 0>> ELSE <<c, 1>>

(* Up to beginCommand: Idle and Authenticate register their continuation    *)
(* request before they wait for encMutex.                                   *)
Prepare(c, x, k) ==
    LET early == k \in {"idle", "auth"} IN
    /\ Unused(x)
    /\ cur' = [cur EXCEPT ![c] = x]
    /\ contReqs' = IF early THEN Append(contReqs, x) ELSE contReqs
    /\ cmd' = [cmd EXCEPT ![x] = [kind |-> k, done |-> 0,
                                  cont |-> IF early THEN "queued" ELSE "none"]]
    /\ pc' = [pc EXCEPT ![c] = "enc"]

Start(c) ==
    /\ pc[c] = "out"
    /\ \E k \in Sends[c] : Prepare(c, Fresh(c), k)
    /\ UNCHANGED <<encMutex, pending, doomed, deadline, greeted, open, up, down, server, left>>

(* Mutant: a command sent to a parked reader leaves its deadline alone. *)
RetunedNever(q) == deadline

(* Retuning the deadline of a reader that is parked, and of no other. *)
Retuned(q) == IF pc[Reader] = "await" THEN TimeoutFor(q) ELSE deadline

(* beginCommand after awaitGreeting, and commandEncoder.Literal's            *)
(* registerContReq: a literal's request is registered under encMutex.        *)
Begin(c) ==
    LET x == cur[c] IN
    /\ pc[c] = "enc"
    /\ greeted \/ pc[Reader] = "gone"
    /\ encMutex = NoCaller
    /\ encMutex' = c
    /\ pending' = Append(pending, x)
    /\ deadline' = Retuned(pending')
    /\ IF cmd[x].kind = "literal"
       THEN /\ contReqs' = Append(contReqs, x)
            /\ cmd' = [cmd EXCEPT ![x].cont = "queued"]
       ELSE UNCHANGED <<contReqs, cmd>>
    /\ pc' = [pc EXCEPT ![c] = "flush"]
    /\ UNCHANGED <<cur, doomed, greeted, open, up, down, server, left>>

(* A write succeeds while the client's end is open: what a server that hung *)
(* up would have read is lost.  It may also fail then.                      *)
Write(t, x) ==
    /\ open
    /\ up' = IF server.at = "gone" THEN up ELSE Append(up, [t |-> t, cmd |-> x])

WriteFails == ~open \/ server.at = "gone"

Unlocked(c) == IF encMutex = c THEN NoCaller ELSE encMutex

(* The command line leaves: commandEncoder.end for a plain command, flush   *)
(* for the others, which keep encMutex and wait for the server.             *)
Flush(c) ==
    LET x == cur[c] IN
    /\ pc[c] = "flush"
    /\ Write("cmd", x)
    /\ IF cmd[x].kind = "plain"
       THEN pc' = [pc EXCEPT ![c] = "wait"] /\ encMutex' = Unlocked(c)
       ELSE pc' = [pc EXCEPT ![c] = "cont"] /\ UNCHANGED encMutex
    /\ UNCHANGED <<cur, cmd, pending, contReqs, doomed, deadline, greeted, open, down, server, left>>

(* A failed write, a literal's data included, runs closeWithError. *)
FlushFails(c) ==
    /\ pc[c] \in {"flush", "data"}
    /\ WriteFails
    /\ pc' = [pc EXCEPT ![c] = "close"]
    /\ UNCHANGED <<cur, cmd, encMutex, pending, contReqs, doomed, deadline, greeted,
                   open, up, down, server, left>>

(* ContinuationRequest.Wait returns.  A literal goes on to its data, IDLE   *)
(* runs, AUTHENTICATE has a challenge; cancelled, a literal leaves its      *)
(* error in the encoder, for which end runs closeWithError, idle gives up   *)
(* and Authenticate waits for the command with encMutex held.               *)
Continue(c) ==
    LET x == cur[c]
        Goto(l) == pc' = [pc EXCEPT ![c] = l]
    IN
    /\ pc[c] = "cont"
    /\ \/ /\ cmd[x].cont = "done"
          /\ Goto(CASE cmd[x].kind = "literal" -> "data"
                    [] cmd[x].kind = "idle" -> "idling"
                    [] cmd[x].kind = "auth" -> "sasl")
          /\ UNCHANGED encMutex
       \/ /\ cmd[x].cont = "cancelled"
          /\ Goto(CASE cmd[x].kind = "literal" -> "close"
                    [] cmd[x].kind = "idle" -> "out"
                    [] cmd[x].kind = "auth" -> "wait")
          /\ encMutex' = IF cmd[x].kind = "idle" THEN Unlocked(c) ELSE encMutex
    /\ UNCHANGED <<cur, cmd, pending, contReqs, doomed, deadline, greeted, open, up, down, server, left>>

(* The literal's data and commandEncoder.end. *)
Data(c) ==
    /\ pc[c] = "data"
    /\ Write("literal", cur[c])
    /\ pc' = [pc EXCEPT ![c] = "wait"]
    /\ encMutex' = Unlocked(c)
    /\ UNCHANGED <<cur, cmd, pending, contReqs, doomed, deadline, greeted, open, down, server, left>>

(* Authenticate answers a challenge: it registers the next request, then    *)
(* writes the response (writeSASLResp).                                     *)
Respond(c) ==
    LET x == cur[c] IN
    /\ pc[c] = "sasl"
    /\ contReqs' = Append(contReqs, x)
    /\ cmd' = [cmd EXCEPT ![x].cont = "queued"]
    /\ \/ /\ Write("sasl", x)
          /\ pc' = [pc EXCEPT ![c] = "cont"]
          /\ UNCHANGED encMutex
       \/ /\ WriteFails
          /\ pc' = [pc EXCEPT ![c] = "out"]
          /\ encMutex' = Unlocked(c)
          /\ UNCHANGED up
    /\ UNCHANGED <<cur, pending, doomed, deadline, greeted, open, down, server, left>>

(* The SASL mechanism fails: Authenticate returns its error and leaves the  *)
(* command pending.                                                         *)
AbandonSASL(c) ==
    /\ pc[c] = "sasl"
    /\ pc' = [pc EXCEPT ![c] = "out"]
    /\ encMutex' = Unlocked(c)
    /\ left' = TRUE
    /\ UNCHANGED <<cur, cmd, pending, contReqs, doomed, deadline, greeted, open, up, down, server>>

(* IdleCommand.Close and idleCommand.Close: DONE is written and encMutex    *)
(* released; a failed write is returned and closes nothing.                 *)
IdleStop(c) ==
    /\ pc[c] = "idling"
    /\ \/ Write("done", cur[c]) /\ pc' = [pc EXCEPT ![c] = "wait"]
       \/ WriteFails /\ pc' = [pc EXCEPT ![c] = "out"] /\ UNCHANGED up
    /\ encMutex' = Unlocked(c)
    /\ UNCHANGED <<cur, cmd, pending, contReqs, doomed, deadline, greeted, open, down, server, left>>

(* IdleCommand.run's timer: the next IDLE starts without waiting for the    *)
(* completion of the last.                                                  *)
IdleRestart(c) ==
    /\ pc[c] = "idling"
    /\ Write("done", cur[c])
    /\ encMutex' = Unlocked(c)
    /\ Prepare(c, Fresh(c), "idle")
    /\ UNCHANGED <<pending, doomed, deadline, greeted, open, down, server, left>>

(* commandBase.wait; Authenticate's deferred end follows it. *)
Wait(c) ==
    /\ pc[c] = "wait"
    /\ cmd[cur[c]].done > 0
    /\ cmd' = [cmd EXCEPT ![cur[c]].kind = "plain", ![cur[c]].cont = "none"]
    /\ pc' = [pc EXCEPT ![c] = "out"]
    /\ encMutex' = Unlocked(c)
    /\ UNCHANGED <<cur, pending, contReqs, doomed, deadline, greeted, open, up, down, server, left>>

-----------------------------------------------------------------------------

(* conn.Close: what the server does from now on reaches nobody. *)
Cut ==
    /\ open' = FALSE
    /\ server' = [at |-> "gone", cmd |-> NoCaller]
    /\ up' = <<>>

(* closeWithError, by the read goroutine or by a caller whose write failed: *)
(* close the connection, take the pending commands, complete each.  A read  *)
(* goroutine that is here reads no more.                                    *)
CloseConn(p) ==
    /\ pc[p] = "close"
    /\ Cut
    /\ pc' = [pc EXCEPT ![p] = "swap"]
    /\ IF p = Reader THEN down' = <<>> /\ deadline' = "reader" ELSE UNCHANGED <<down, deadline>>
    /\ UNCHANGED <<cur, cmd, encMutex, pending, contReqs, doomed, greeted, left>>

Swap(p) ==
    /\ pc[p] = "swap"
    /\ doomed' = [doomed EXCEPT ![p] = pending]
    /\ pending' = <<>>
    /\ pc' = [pc EXCEPT ![p] = "doom"]
    /\ UNCHANGED <<cur, cmd, encMutex, contReqs, deadline, greeted, open, up, down, server, left>>

Doom(p) ==
    /\ pc[p] = "doom" /\ Len(doomed[p]) > 0
    /\ Complete(Head(doomed[p]))
    /\ doomed' = [doomed EXCEPT ![p] = Tail(@)]
    /\ UNCHANGED <<pc, cur, encMutex, pending, deadline, greeted, open, up, down, server, left>>

(* The read goroutine closes decCh; a caller goes on, to end or, when it    *)
(* flushed IDLE or AUTHENTICATE, to its continuation request.               *)
Closed(p) ==
    /\ pc[p] = "doom" /\ Len(doomed[p]) = 0
    /\ IF p = Reader
       THEN pc' = [pc EXCEPT ![p] = "gone"] /\ UNCHANGED encMutex
       ELSE IF cmd[cur[p]].kind \in {"idle", "auth"}
       THEN pc' = [pc EXCEPT ![p] = "cont"] /\ UNCHANGED encMutex
       ELSE pc' = [pc EXCEPT ![p] = "wait"] /\ encMutex' = Unlocked(p)
    /\ UNCHANGED <<cur, cmd, pending, contReqs, doomed, deadline, greeted, open, up, down, server, left>>

(* Client.Close *)
Close ==
    /\ open
    /\ Cut
    /\ UNCHANGED <<pc, cur, cmd, encMutex, pending, contReqs, doomed, deadline, greeted,
                   down, left>>

-----------------------------------------------------------------------------

(* beginAwaitResponse, at the head of the read loop.  The first one comes   *)
(* right after read has set the response timeout "for the greeting", and    *)
(* puts the idle timeout in its place: no command is pending yet.           *)
Park(q) == pc' = [pc EXCEPT ![Reader] = "await"] /\ deadline' = TimeoutFor(q)

Read ==
    /\ pc[Reader] = "read"
    /\ Park(pending)
    /\ UNCHANGED <<cur, cmd, encMutex, pending, contReqs, doomed, greeted, open, up, down, server, left>>

(* The first byte of a response is there: endAwaitResponse, and             *)
(* readResponse takes the deadline over.                                    *)
Receive ==
    /\ pc[Reader] = "await" /\ Len(down) > 0
    /\ pc' = [pc EXCEPT ![Reader] = "decode"]
    /\ deadline' = "reader"
    /\ UNCHANGED <<cur, cmd, encMutex, pending, contReqs, doomed, greeted, open, up, down, server, left>>

(* A response that nobody asked for ends the loop: closeWithError. *)
Abort == pc' = [pc EXCEPT ![Reader] = "close"] /\ UNCHANGED deadline

Decoded(t) ==
    /\ pc[Reader] = "decode" /\ Head(down).t = t
    /\ down' = Tail(down)
    /\ UNCHANGED <<cur, encMutex, doomed, open, up, server, left>>

(* The greeting; BYE makes greetingErr, for which the loop ends. *)
Greeting ==
    /\ Decoded("greeting")
    /\ greeted' = TRUE
    /\ Park(pending) \/ Abort
    /\ UNCHANGED <<cmd, pending, contReqs>>

(* readContinueReq: the oldest request has it. *)
ReadContinueReq ==
    /\ Decoded("cont")
    /\ IF Len(contReqs) = 0
       THEN Abort /\ UNCHANGED <<cmd, contReqs>>
       ELSE /\ cmd' = [cmd EXCEPT ![Head(contReqs)].cont = "done"]
            /\ contReqs' = Tail(contReqs)
            /\ Park(pending)
    /\ UNCHANGED <<pending, greeted>>

(* Mutant: the command stays on the pending list. *)
ReadResponseTaggedKept ==
    LET x == Head(down).cmd IN
    /\ Decoded("tagged")
    /\ IF In(x, pending)
       THEN Complete(x) /\ (Park(pending) \/ Abort)
       ELSE Abort /\ UNCHANGED <<cmd, contReqs>>
    /\ UNCHANGED <<pending, greeted>>

(* Mutant: a response that does not parse leaves its command waiting. *)
ReadResponseTaggedStalls ==
    LET x == Head(down).cmd IN
    /\ Decoded("tagged")
    /\ IF In(x, pending)
       THEN /\ pending' = Without(pending, x)
            /\ \/ Complete(x) /\ Park(pending')
               \/ Abort /\ UNCHANGED <<cmd, contReqs>>
       ELSE Abort /\ UNCHANGED <<cmd, pending, contReqs>>
    /\ UNCHANGED greeted

(* readResponseTagged.  Once the command is off the pending list its         *)
(* completion is owed, also when the rest of the response does not parse or  *)
(* does not arrive in time.                                                  *)
ReadResponseTagged ==
    LET x == Head(down).cmd IN
    /\ Decoded("tagged")
    /\ IF In(x, pending)
       THEN /\ pending' = Without(pending, x)
            /\ Complete(x)
            /\ Park(pending') \/ Abort
       ELSE Abort /\ UNCHANGED <<cmd, pending, contReqs>>
    /\ UNCHANGED greeted

(* EOF, or a response that breaks off before its kind is known. *)
ReadFails ==
    /\ \/ pc[Reader] = "await" /\ (~open \/ (server.at = "gone" /\ Len(down) = 0))
       \/ pc[Reader] = "decode"
    /\ pc' = [pc EXCEPT ![Reader] = "close"]
    /\ UNCHANGED <<cur, cmd, encMutex, pending, contReqs, doomed, deadline, greeted,
                   open, up, down, server, left>>

(* The deadline passes with nothing received. *)
ReadTimesOut ==
    /\ pc[Reader] = "await" /\ open /\ Len(down) = 0
    /\ pc' = [pc EXCEPT ![Reader] = "close"]
    /\ UNCHANGED <<cur, cmd, encMutex, pending, contReqs, doomed, deadline, greeted,
                   open, up, down, server, left>>

-----------------------------------------------------------------------------

Says(t, x) == down' = Append(down, [t |-> t, cmd |-> x])

Greet ==
    /\ server.at = "new"
    /\ server' = [server EXCEPT !.at = "ready"]
    /\ down' = Append(down, [t |-> "greeting"])
    /\ UNCHANGED <<clientVars, up>>

(* The server reads a command: it answers, or asks for the rest of it. *)
Serve ==
    /\ server.at = "ready" /\ Len(up) > 0 /\ Head(up).t = "cmd"
    /\ LET x == Head(up).cmd IN
       \/ Says("tagged", x) /\ UNCHANGED server
       \/ /\ cmd[x].kind # "plain"
          /\ Says("cont", x)
          /\ server' = [at |-> cmd[x].kind, cmd |-> x]
    /\ up' = Tail(up)
    /\ UNCHANGED clientVars

(* The rest of the command: the data, DONE, or a SASL response, as which it *)
(* takes any line.  One challenge is modelled.                              *)
ServeRest ==
    /\ Len(up) > 0
    /\ \/ server.at = "literal" /\ Head(up).t = "literal"
       \/ server.at = "idle" /\ Head(up).t = "done"
       \/ server.at = "auth"
    /\ Says("tagged", server.cmd)
    /\ up' = Tail(up)
    /\ server' = [at |-> "ready", cmd |-> NoCaller]
    /\ UNCHANGED clientVars

HangUp ==
    /\ server.at # "gone"
    /\ server' = [at |-> "gone", cmd |-> NoCaller]
    /\ up' = <<>>
    /\ UNCHANGED <<clientVars, down>>

CallerStep(c) ==
    \/ Start(c) \/ Begin(c) \/ Flush(c) \/ FlushFails(c) \/ Continue(c) \/ Data(c)
    \/ Respond(c) \/ AbandonSASL(c) \/ IdleStop(c) \/ IdleRestart(c) \/ Wait(c)

Failing(p) == CloseConn(p) \/ Swap(p) \/ Doom(p) \/ Closed(p)

ReaderStep ==
    \/ Read \/ Receive \/ Greeting \/ ReadContinueReq \/ ReadResponseTagged
    \/ ReadFails \/ ReadTimesOut

Next ==
    \/ \E c \in Caller : CallerStep(c)
    \/ \E p \in Proc : Failing(p)
    \/ ReaderStep
    \/ Close
    \/ Greet \/ Serve \/ ServeRest \/ HangUp

Spec == Init /\ [][Next]_vars

(* The goroutines run, a sync.Mutex starves nobody, the user closes an IDLE *)
(* that runs, and a deadline that stands passes.  Nothing is assumed of the *)
(* server.                                                                  *)
Fairness ==
    /\ \A c \in Caller :
        /\ SF_vars(Begin(c) \/ Flush(c) \/ FlushFails(c) \/ Continue(c) \/ Data(c)
                   \/ Respond(c) \/ Wait(c) \/ Failing(c))
        /\ SF_vars(IdleStop(c))
    /\ WF_vars(ReaderStep \/ Failing(Reader))

FairSpec == Spec /\ Fairness

-----------------------------------------------------------------------------

(* Type correctness of the pipeline's state. *)
TypeOK ==
    /\ pc \in [Proc -> {"out", "enc", "flush", "cont", "data", "sasl", "idling", "wait", "read",
                        "await", "decode", "close", "swap", "doom", "gone"}]
    /\ cur \in [Caller -> Cmd]
    /\ cmd \in [Cmd -> CmdType]
    /\ encMutex \in Caller \cup {NoCaller}
    /\ pending \in Seq(Cmd) /\ contReqs \in Seq(Cmd)
    /\ doomed \in [Proc -> Seq(Cmd)]
    /\ deadline \in {"response", "idle", "reader"}
    /\ greeted \in BOOLEAN /\ open \in BOOLEAN
    /\ up \in Seq(Line) /\ down \in Seq(Line)
    /\ server \in ServerType
    /\ left \in BOOLEAN

(* A command completes at most once, whoever ends it: its response, the     *)
(* read goroutine's closeWithError, or that of a caller whose write failed.  *)
(* (completeCommand closes the done channel: a second send would panic.)     *)
CompletedOnce == \A x \in Cmd : cmd[x].done <= 1

(* Once the greeting is there, the deadline of a parked read goroutine is   *)
(* the one the pending commands call for, whichever goroutine sent them and *)
(* when (readTimeoutLocked); while it decodes a response the deadline is    *)
(* its own.  It says nothing of the wait for the greeting, for which read   *)
(* means to have the response timeout and has the idle timeout.             *)
DeadlineRight ==
    /\ pc[Reader] = "await" /\ open /\ greeted => deadline = TimeoutFor(pending)
    /\ pc[Reader] = "decode" => deadline = "reader"

(* The request is there and the command is not sent. *)
Registered(x) == \E c \in Caller : pc[c] = "enc" /\ cur[c] = x

(* A continuation request goes to the command that the server sent it for,  *)
(* with any number of goroutines sending literals, IDLE and AUTHENTICATE,   *)
(* refused and abandoned ones among them.  The one thief is an Idle or an   *)
(* Authenticate that has registered its request and does not have encMutex  *)
(* yet, so that its command is not sent (idle.go, authenticate.go).         *)
ContinuationGoesHome ==
    pc[Reader] = "decode" /\ Head(down).t = "cont" /\ Len(contReqs) > 0
        => Head(contReqs) = Head(down).cmd \/ Registered(Head(contReqs))

(* Every call returns, whatever the server does: answered, refused, timed   *)
(* out or failed, unless an Authenticate left the server waiting for a      *)
(* response, as which it takes the next command.  (IDLE's call returns when *)
(* IDLE runs; Close's returns when the read goroutine has ended.)           *)
Busy(c) == pc[c] \notin {"out", "idling"}
EveryCallReturns ==
    /\ \A c \in Caller : Busy(c) ~> (~Busy(c) \/ left)
    /\ ~open ~> pc[Reader] = "gone"
=============================================================================
