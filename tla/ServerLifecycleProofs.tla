----------------------- MODULE ServerLifecycleProofs -----------------------
(***************************************************************************)
(* Proofs about ServerLifecycle, for any number of connections and any     *)
(* MaxConnections.                                                         *)
(***************************************************************************)
EXTENDS ServerLifecycle, TLAPS

(* What is true of each connection: a command is owed an answer only while  *)
(* it is handled or the connection ends without one; the BYE of a shutdown  *)
(* comes after that; and a Session.Idle that runs outside handleIdle was    *)
(* given up by it, as was one that runs when a shutdown ends the IDLE.  The *)
(* socket is closed before the slot is given back.                          *)
ConnInv(s) ==
    /\ s.bye = "shutdown" =>
            s.pc \in {"linger", "teardown", "close", "release", "leave", "done"} /\ ~s.owed
    /\ s.owed => s.pc \in {"command", "respond", "teardown", "close", "release", "leave", "done"} \cup Idling
    /\ s.pc \in {"release", "leave", "done"} => s.socket = "closed"
    /\ s.backend = "run" /\ s.pc \notin Idling => s.abandoned
    /\ s.backend = "run" /\ s.pc = "i_join" /\ s.ret = "shutdown" => s.abandoned

(* The connections that forceCloseConns has passed have lost their socket,  *)
(* and no other is served: conns is exact, and nobody registers any more.   *)
Forced ==
    /\ closed <=> stop # "none"
    /\ conns = {c \in Conn : conn[c].pc \in Served}
    /\ stop \in {"shut_force", "close_force"} =>
        \A c \in conns \ toVisit : conn[c].socket = "closed"

(* A slot is taken for each connection that has not given it back. *)
Holders == {c \in Conn : conn[c].pc \in Holding}

SlotsHeld == slots = Cardinality(Holders)

(* One connection at a time is between Accept and its goroutine, and none   *)
(* is, nor is there a goroutine, once Shutdown has seen them all go.        *)
Settled ==
    /\ \A c \in Conn : conn[c].pc = "accepted" =>
            serveLoop = "got" /\ \A d \in Conn : conn[d].pc = "accepted" => d = c
    /\ stop = "shut_done" =>
            serveLoop \in {"off", "returned"} /\ \A c \in Conn : conn[c].pc \notin Running

LifecycleInv ==
    /\ TypeOK
    /\ SlotsHeld
    /\ Forced
    /\ NoSurvivor
    /\ Settled
    /\ \A c \in Conn : ConnInv(conn[c])

-----------------------------------------------------------------------------
(* A step that leaves a connection what it was for conns, the semaphore and *)
(* the wait group, and a closed socket closed.                              *)
Alike(s, t) ==
    /\ t.pc \in Served <=> s.pc \in Served
    /\ t.pc \in Holding <=> s.pc \in Holding
    /\ t.pc \in Running <=> s.pc \in Running
    /\ s.socket = "closed" => t.socket = "closed"

(* A step of one connection that leaves the server's own state alone: it is *)
(* within what serve does between its registration and its teardown.        *)
Kept(s, t) ==
    /\ t.pc = s.pc \/ (s.pc \in Served /\ t.pc \in Served)
    /\ s.socket = "closed" => t.socket = "closed"

(* Such a step is neither an accept nor an exit. *)
LEMMA KeptAlike ==
    ASSUME NEW s, NEW t, Kept(s, t)
    PROVE  Alike(s, t) /\ (t.pc = "accepted" <=> s.pc = "accepted")
<1>1. "accepted" \notin Served
  BY DEF Served, Idling, Parking
<1> QED
  BY <1>1 DEF Kept, Alike, Running, Holding, InServe

LocalStep(c) ==
    /\ conn' \in [Conn -> ConnState]
    /\ \A d \in Conn \ {c} : conn'[d] = conn[d]
    /\ Kept(conn[c], conn'[c])
    /\ ConnInv(conn'[c])

Local(c) ==
    \/ Greet(c) \/ ArmRead(c) \/ SetIdle(c) \/ ReadReturns(c) \/ SetActive(c) \/ Handle(c) \/ Respond(c)
    \/ ShutdownBye(c) \/ LingerClose(c) \/ IdleBegin(c) \/ IdleArm(c) \/ IdleWatch(c) \/ IdleSetIdle(c) \/ IdleSetActive(c)
    \/ IdleAwait(c) \/ IdleReturn(c) \/ ReadExpires(c) \/ IdleAwaitExpires(c)
    \/ BackendReturns(c) \/ OrphanReturns(c) \/ WatcherStep(c) \/ HangUp(c)
    \/ \E l \in Lines : Send(c, l)

State == {"none", "accepted", "rejected", "done"} \cup Running

Conns == [Conn -> ConnState]

(* Assigning to a field of a connection a value of its type gives a state   *)
(* of the connections again.                                                *)
LEMMA FieldUpdates ==
    ASSUME NEW c \in Conn
    PROVE
    /\ \A f \in Conns, x \in State : [f EXCEPT ![c].pc = x] \in Conns
    /\ \A f \in Conns, x \in BOOLEAN : [f EXCEPT ![c].idle = x] \in Conns
    /\ \A f \in Conns, x \in BOOLEAN : [f EXCEPT ![c].shuttingDown = x] \in Conns
    /\ \A f \in Conns, x \in {"future", "past"} : [f EXCEPT ![c].deadline = x] \in Conns
    /\ \A f \in Conns, x \in {"open", "closed"} : [f EXCEPT ![c].socket = x] \in Conns
    /\ \A f \in Conns, x \in Line \cup {"none", "eof", "closed", "timeout"} : [f EXCEPT ![c].got = x] \in Conns
    /\ \A f \in Conns, x \in BOOLEAN : [f EXCEPT ![c].owed = x] \in Conns
    /\ \A f \in Conns, x \in {"none", "shutdown", "other"} : [f EXCEPT ![c].bye = x] \in Conns
    /\ \A f \in Conns, x \in {"none", "run", "nil", "bye", "err"} : [f EXCEPT ![c].backend = x] \in Conns
    /\ \A f \in Conns, x \in BOOLEAN : [f EXCEPT ![c].stopped = x] \in Conns
    /\ \A f \in Conns, x \in {"none", "wait", "fire", "fired", "done"} : [f EXCEPT ![c].watcher = x] \in Conns
    /\ \A f \in Conns, x \in {"none", "shutdown", "backend", "bye", "answer"} : [f EXCEPT ![c].ret = x] \in Conns
    /\ \A f \in Conns, x \in BOOLEAN : [f EXCEPT ![c].orphan = x] \in Conns
    /\ \A f \in Conns, x \in BOOLEAN : [f EXCEPT ![c].abandoned = x] \in Conns
    /\ \A f \in Conns, x \in Seq(Line) : [f EXCEPT ![c].inbox = x] \in Conns
    /\ \A f \in Conns, x \in {"up", "gone"} : [f EXCEPT ![c].peer = x] \in Conns
<1>1. ASSUME NEW f \in Conns, NEW x \in State
      PROVE  [f EXCEPT ![c].pc = x] \in Conns
  <2>1. ASSUME NEW s \in ConnState PROVE [s EXCEPT !.pc = x] \in ConnState
    BY DEF ConnState, State
  <2> QED
    BY <2>1 DEF Conns
<1>2. ASSUME NEW f \in Conns, NEW x \in BOOLEAN
      PROVE  [f EXCEPT ![c].idle = x] \in Conns
  <2>1. ASSUME NEW s \in ConnState PROVE [s EXCEPT !.idle = x] \in ConnState
    BY DEF ConnState
  <2> QED
    BY <2>1 DEF Conns
<1>3. ASSUME NEW f \in Conns, NEW x \in BOOLEAN
      PROVE  [f EXCEPT ![c].shuttingDown = x] \in Conns
  <2>1. ASSUME NEW s \in ConnState PROVE [s EXCEPT !.shuttingDown = x] \in ConnState
    BY DEF ConnState
  <2> QED
    BY <2>1 DEF Conns
<1>4. ASSUME NEW f \in Conns, NEW x \in {"future", "past"}
      PROVE  [f EXCEPT ![c].deadline = x] \in Conns
  <2>1. ASSUME NEW s \in ConnState PROVE [s EXCEPT !.deadline = x] \in ConnState
    BY DEF ConnState
  <2> QED
    BY <2>1 DEF Conns
<1>5. ASSUME NEW f \in Conns, NEW x \in {"open", "closed"}
      PROVE  [f EXCEPT ![c].socket = x] \in Conns
  <2>1. ASSUME NEW s \in ConnState PROVE [s EXCEPT !.socket = x] \in ConnState
    BY DEF ConnState
  <2> QED
    BY <2>1 DEF Conns
<1>6. ASSUME NEW f \in Conns, NEW x \in Line \cup {"none", "eof", "closed", "timeout"}
      PROVE  [f EXCEPT ![c].got = x] \in Conns
  <2>1. ASSUME NEW s \in ConnState PROVE [s EXCEPT !.got = x] \in ConnState
    BY DEF ConnState
  <2> QED
    BY <2>1 DEF Conns
<1>7. ASSUME NEW f \in Conns, NEW x \in BOOLEAN
      PROVE  [f EXCEPT ![c].owed = x] \in Conns
  <2>1. ASSUME NEW s \in ConnState PROVE [s EXCEPT !.owed = x] \in ConnState
    BY DEF ConnState
  <2> QED
    BY <2>1 DEF Conns
<1>8. ASSUME NEW f \in Conns, NEW x \in {"none", "shutdown", "other"}
      PROVE  [f EXCEPT ![c].bye = x] \in Conns
  <2>1. ASSUME NEW s \in ConnState PROVE [s EXCEPT !.bye = x] \in ConnState
    BY DEF ConnState
  <2> QED
    BY <2>1 DEF Conns
<1>9. ASSUME NEW f \in Conns, NEW x \in {"none", "run", "nil", "bye", "err"}
      PROVE  [f EXCEPT ![c].backend = x] \in Conns
  <2>1. ASSUME NEW s \in ConnState PROVE [s EXCEPT !.backend = x] \in ConnState
    BY DEF ConnState
  <2> QED
    BY <2>1 DEF Conns
<1>10. ASSUME NEW f \in Conns, NEW x \in BOOLEAN
      PROVE  [f EXCEPT ![c].stopped = x] \in Conns
  <2>1. ASSUME NEW s \in ConnState PROVE [s EXCEPT !.stopped = x] \in ConnState
    BY DEF ConnState
  <2> QED
    BY <2>1 DEF Conns
<1>11. ASSUME NEW f \in Conns, NEW x \in {"none", "wait", "fire", "fired", "done"}
      PROVE  [f EXCEPT ![c].watcher = x] \in Conns
  <2>1. ASSUME NEW s \in ConnState PROVE [s EXCEPT !.watcher = x] \in ConnState
    BY DEF ConnState
  <2> QED
    BY <2>1 DEF Conns
<1>12. ASSUME NEW f \in Conns, NEW x \in {"none", "shutdown", "backend", "bye", "answer"}
      PROVE  [f EXCEPT ![c].ret = x] \in Conns
  <2>1. ASSUME NEW s \in ConnState PROVE [s EXCEPT !.ret = x] \in ConnState
    BY DEF ConnState
  <2> QED
    BY <2>1 DEF Conns
<1>13. ASSUME NEW f \in Conns, NEW x \in BOOLEAN
      PROVE  [f EXCEPT ![c].orphan = x] \in Conns
  <2>1. ASSUME NEW s \in ConnState PROVE [s EXCEPT !.orphan = x] \in ConnState
    BY DEF ConnState
  <2> QED
    BY <2>1 DEF Conns
<1>14. ASSUME NEW f \in Conns, NEW x \in BOOLEAN
      PROVE  [f EXCEPT ![c].abandoned = x] \in Conns
  <2>1. ASSUME NEW s \in ConnState PROVE [s EXCEPT !.abandoned = x] \in ConnState
    BY DEF ConnState
  <2> QED
    BY <2>1 DEF Conns
<1>15. ASSUME NEW f \in Conns, NEW x \in Seq(Line)
      PROVE  [f EXCEPT ![c].inbox = x] \in Conns
  <2>1. ASSUME NEW s \in ConnState PROVE [s EXCEPT !.inbox = x] \in ConnState
    BY DEF ConnState
  <2> QED
    BY <2>1 DEF Conns
<1>16. ASSUME NEW f \in Conns, NEW x \in {"up", "gone"}
      PROVE  [f EXCEPT ![c].peer = x] \in Conns
  <2>1. ASSUME NEW s \in ConnState PROVE [s EXCEPT !.peer = x] \in ConnState
    BY DEF ConnState
  <2> QED
    BY <2>1 DEF Conns
<1> QED
  BY <1>1, <1>2, <1>3, <1>4, <1>5, <1>6, <1>7, <1>8, <1>9, <1>10, <1>11, <1>12, <1>13, <1>14, <1>15, <1>16, Zenon

(* Every step of serve, handleIdle, the backend, the watcher and the client *)
(* is such a step.                                                          *)
LEMMA LocalSteps ==
    ASSUME TypeOK, NEW c \in Conn, ConnInv(conn[c]), Local(c)
    PROVE  LocalStep(c)
<1>0. conn \in Conns /\ conn \in [Conn -> ConnState] /\ conn[c] \in ConnState
  BY DEF TypeOK, Conns
<1>1. CASE Greet(c)
  <2>0. conn[c].pc = "session"
    BY <1>1 DEF Greet
  <2>1. ASSUME conn' = [conn EXCEPT ![c].pc = "loop"]
       PROVE  LocalStep(c)
    <3>1. conn' \in Conns
      BY <1>0, <2>1, FieldUpdates, Zenon DEF State, Running, Holding, InServe, Served, Idling, Parking
    <3>2. \A d \in Conn \ {c} : conn'[d] = conn[d]
      BY <1>0, <2>1
    <3>3. Kept(conn[c], conn'[c])
      BY <1>0, <2>1, <2>0 DEF Kept, ConnState, Served, Idling, Parking
    <3>4. ConnInv(conn'[c])
      BY <1>0, <2>1, <2>0 DEF ConnInv, ConnState, Idling, Parking
    <3> QED
      BY <3>1, <3>2, <3>3, <3>4 DEF LocalStep, Conns
  <2>2. ASSUME NEW b \in {"none", "other"}, conn' = [conn EXCEPT ![c].pc = "teardown", ![c].bye = b]
       PROVE  LocalStep(c)
    <3>1. conn' \in Conns
      BY <1>0, <2>2, FieldUpdates, Zenon DEF State, Running, Holding, InServe, Served, Idling, Parking
    <3>2. \A d \in Conn \ {c} : conn'[d] = conn[d]
      BY <1>0, <2>2
    <3>3. Kept(conn[c], conn'[c])
      BY <1>0, <2>2, <2>0 DEF Kept, ConnState, Served, Idling, Parking
    <3>4. ConnInv(conn'[c])
      BY <1>0, <2>2, <2>0 DEF ConnInv, ConnState, Idling, Parking
    <3> QED
      BY <3>1, <3>2, <3>3, <3>4 DEF LocalStep, Conns
  <2> QED
    BY <1>1, <2>1, <2>2, Zenon DEF Greet
<1>2. CASE ArmRead(c)
  <2>1. conn' \in Conns
    BY <1>0, <1>2, FieldUpdates, Zenon DEF ArmRead, State, Running, Holding, InServe, Served, Idling, Parking
  <2>2. \A d \in Conn \ {c} : conn'[d] = conn[d]
    BY <1>0, <1>2 DEF ArmRead
  <2>3. Kept(conn[c], conn'[c])
    BY <1>0, <1>2 DEF ArmRead, Kept, ConnState, Served, Idling, Parking
  <2>4. ConnInv(conn'[c])
    BY <1>0, <1>2 DEF ArmRead, ConnInv, ConnState, Idling, Parking
  <2> QED
    BY <2>1, <2>2, <2>3, <2>4 DEF LocalStep, Conns
<1>3. CASE SetIdle(c)
  <2>1. conn' \in Conns
    BY <1>0, <1>3, FieldUpdates, Zenon DEF SetIdle, MayPark, State, Running, Holding, InServe, Served, Idling, Parking
  <2>2. \A d \in Conn \ {c} : conn'[d] = conn[d]
    BY <1>0, <1>3 DEF SetIdle, MayPark
  <2>3. Kept(conn[c], conn'[c])
    BY <1>0, <1>3, Zenon DEF SetIdle, MayPark, Kept, ConnState, Served, Idling, Parking
  <2>4. ConnInv(conn'[c])
    BY <1>0, <1>3, ZenonT(30) DEF SetIdle, MayPark, ConnInv, ConnState, Idling, Parking
  <2> QED
    BY <2>1, <2>2, <2>3, <2>4 DEF LocalStep, Conns
<1>4. CASE ReadReturns(c)
  <2> DEFINE woken == IF conn[c].pc = "read" THEN "wake" ELSE "i_wake"
  <2>0. conn[c].pc \in {"read", "i_read"}
    BY <1>4 DEF ReadReturns
  <2>1. ASSUME conn[c].inbox # <<>>, conn' = [conn EXCEPT ![c].pc = woken, ![c].got = Head(conn[c].inbox),
                                  ![c].inbox = Tail(@)]
       PROVE  LocalStep(c)
    <3>0. Head(conn[c].inbox) \in Line /\ Tail(conn[c].inbox) \in Seq(Line)
      BY <1>0, <2>1 DEF ConnState
    <3>1. conn' \in Conns
      BY <1>0, <2>1, FieldUpdates, <3>0, <2>0, Zenon DEF State, Running, Holding, InServe, Served, Idling, Parking
    <3>2. \A d \in Conn \ {c} : conn'[d] = conn[d]
      BY <1>0, <2>1, Zenon
    <3>3. Kept(conn[c], conn'[c])
      BY <1>0, <2>1, <2>0 DEF Kept, ConnState, Served, Idling, Parking
    <3>4. ConnInv(conn'[c])
      BY <1>0, <2>1, <2>0 DEF ConnInv, ConnState, Idling, Parking
    <3> QED
      BY <3>1, <3>2, <3>3, <3>4 DEF LocalStep, Conns
  <2>2. ASSUME conn' = [conn EXCEPT ![c].pc = woken, ![c].got = "closed"]
       PROVE  LocalStep(c)
    <3>1. conn' \in Conns
      BY <1>0, <2>2, FieldUpdates, <2>0, Zenon DEF State, Running, Holding, InServe, Served, Idling, Parking
    <3>2. \A d \in Conn \ {c} : conn'[d] = conn[d]
      BY <1>0, <2>2
    <3>3. Kept(conn[c], conn'[c])
      BY <1>0, <2>2, <2>0 DEF Kept, ConnState, Served, Idling, Parking
    <3>4. ConnInv(conn'[c])
      BY <1>0, <2>2, <2>0 DEF ConnInv, ConnState, Idling, Parking
    <3> QED
      BY <3>1, <3>2, <3>3, <3>4 DEF LocalStep, Conns
  <2>3. ASSUME conn' = [conn EXCEPT ![c].pc = woken, ![c].got = "eof"]
       PROVE  LocalStep(c)
    <3>1. conn' \in Conns
      BY <1>0, <2>3, FieldUpdates, <2>0, Zenon DEF State, Running, Holding, InServe, Served, Idling, Parking
    <3>2. \A d \in Conn \ {c} : conn'[d] = conn[d]
      BY <1>0, <2>3
    <3>3. Kept(conn[c], conn'[c])
      BY <1>0, <2>3, <2>0 DEF Kept, ConnState, Served, Idling, Parking
    <3>4. ConnInv(conn'[c])
      BY <1>0, <2>3, <2>0 DEF ConnInv, ConnState, Idling, Parking
    <3> QED
      BY <3>1, <3>2, <3>3, <3>4 DEF LocalStep, Conns
  <2>4. ASSUME conn' = [conn EXCEPT ![c].pc = woken, ![c].got = "timeout"]
       PROVE  LocalStep(c)
    <3>1. conn' \in Conns
      BY <1>0, <2>4, FieldUpdates, <2>0, Zenon DEF State, Running, Holding, InServe, Served, Idling, Parking
    <3>2. \A d \in Conn \ {c} : conn'[d] = conn[d]
      BY <1>0, <2>4
    <3>3. Kept(conn[c], conn'[c])
      BY <1>0, <2>4, <2>0 DEF Kept, ConnState, Served, Idling, Parking
    <3>4. ConnInv(conn'[c])
      BY <1>0, <2>4, <2>0 DEF ConnInv, ConnState, Idling, Parking
    <3> QED
      BY <3>1, <3>2, <3>3, <3>4 DEF LocalStep, Conns
  <2> QED
    BY <1>4, <2>1, <2>2, <2>3, <2>4 DEF ReadReturns
<1>5. CASE SetActive(c)
  <2>1. conn' \in Conns
    BY <1>0, <1>5, FieldUpdates, Zenon DEF SetActive, State, Running, Holding, InServe, Served, Idling, Parking
  <2>2. \A d \in Conn \ {c} : conn'[d] = conn[d]
    BY <1>0, <1>5, Zenon DEF SetActive
  <2>3. Kept(conn[c], conn'[c])
    BY <1>0, <1>5 DEF SetActive, Kept, ConnState, Served, Idling, Parking
  <2>4. ConnInv(conn'[c])
    BY <1>0, <1>5 DEF SetActive, ConnInv, ConnState, Idling, Parking
  <2> QED
    BY <2>1, <2>2, <2>3, <2>4 DEF LocalStep, Conns
<1>6. CASE Handle(c)
  <2>0. conn[c].pc = "command"
    BY <1>6 DEF Handle
  <2>1. ASSUME NEW x \in {"other", conn[c].bye}, conn' = [conn EXCEPT ![c].pc = "respond", ![c].bye = x]
       PROVE  LocalStep(c)
    <3>0. x \in {"none", "shutdown", "other"} /\ x # "shutdown"
      BY <1>0, <2>0, <2>1 DEF ConnState, ConnInv
    <3>1. conn' \in Conns
      BY <1>0, <2>1, FieldUpdates, <3>0, Zenon DEF State, Running, Holding, InServe, Served, Idling, Parking
    <3>2. \A d \in Conn \ {c} : conn'[d] = conn[d]
      BY <1>0, <2>1
    <3>3. Kept(conn[c], conn'[c])
      BY <1>0, <2>1, <2>0, <3>0 DEF Kept, ConnState, Served, Idling, Parking
    <3>4. ConnInv(conn'[c])
      BY <1>0, <2>1, <2>0, <3>0 DEF ConnInv, ConnState, Idling, Parking
    <3> QED
      BY <3>1, <3>2, <3>3, <3>4 DEF LocalStep, Conns
  <2>2. ASSUME NEW b \in {"none", "other"}, conn' = [conn EXCEPT ![c].pc = "teardown", ![c].bye = b]
       PROVE  LocalStep(c)
    <3>1. conn' \in Conns
      BY <1>0, <2>2, FieldUpdates, Zenon DEF State, Running, Holding, InServe, Served, Idling, Parking
    <3>2. \A d \in Conn \ {c} : conn'[d] = conn[d]
      BY <1>0, <2>2
    <3>3. Kept(conn[c], conn'[c])
      BY <1>0, <2>2, <2>0 DEF Kept, ConnState, Served, Idling, Parking
    <3>4. ConnInv(conn'[c])
      BY <1>0, <2>2, <2>0 DEF ConnInv, ConnState, Idling, Parking
    <3> QED
      BY <3>1, <3>2, <3>3, <3>4 DEF LocalStep, Conns
  <2> QED
    BY <1>6, <2>1, <2>2, Zenon DEF Handle
<1>7. CASE Respond(c)
  <2>0. conn[c].pc = "respond"
    BY <1>7 DEF Respond
  <2>1. ASSUME conn' = [conn EXCEPT ![c].pc = "loop", ![c].owed = FALSE]
       PROVE  LocalStep(c)
    <3>1. conn' \in Conns
      BY <1>0, <2>1, FieldUpdates, Zenon DEF State, Running, Holding, InServe, Served, Idling, Parking
    <3>2. \A d \in Conn \ {c} : conn'[d] = conn[d]
      BY <1>0, <2>1
    <3>3. Kept(conn[c], conn'[c])
      BY <1>0, <2>1, <2>0 DEF Kept, ConnState, Served, Idling, Parking
    <3>4. ConnInv(conn'[c])
      BY <1>0, <2>1, <2>0 DEF ConnInv, ConnState, Idling, Parking
    <3> QED
      BY <3>1, <3>2, <3>3, <3>4 DEF LocalStep, Conns
  <2>2. ASSUME conn' = [conn EXCEPT ![c].pc = "linger", ![c].owed = FALSE, ![c].bye = "other"]
       PROVE  LocalStep(c)
    <3>1. conn' \in Conns
      BY <1>0, <2>2, FieldUpdates, Zenon DEF State, Running, Holding, InServe, Served, Idling, Parking
    <3>2. \A d \in Conn \ {c} : conn'[d] = conn[d]
      BY <1>0, <2>2
    <3>3. Kept(conn[c], conn'[c])
      BY <1>0, <2>2, <2>0 DEF Kept, ConnState, Served, Idling, Parking
    <3>4. ConnInv(conn'[c])
      BY <1>0, <2>2, <2>0 DEF ConnInv, ConnState, Idling, Parking
    <3> QED
      BY <3>1, <3>2, <3>3, <3>4 DEF LocalStep, Conns
  <2>3. ASSUME conn' = [conn EXCEPT ![c].pc = "teardown"]
       PROVE  LocalStep(c)
    <3>1. conn' \in Conns
      BY <1>0, <2>3, FieldUpdates, Zenon DEF State, Running, Holding, InServe, Served, Idling, Parking
    <3>2. \A d \in Conn \ {c} : conn'[d] = conn[d]
      BY <1>0, <2>3
    <3>3. Kept(conn[c], conn'[c])
      BY <1>0, <2>3, <2>0 DEF Kept, ConnState, Served, Idling, Parking
    <3>4. ConnInv(conn'[c])
      BY <1>0, <2>3, <2>0 DEF ConnInv, ConnState, Idling, Parking
    <3> QED
      BY <3>1, <3>2, <3>3, <3>4 DEF LocalStep, Conns
  <2> QED
    BY <1>7, <2>1, <2>2, <2>3, Zenon DEF Respond
<1>8. CASE ShutdownBye(c)
  <2>0. conn[c].pc = "bye"
    BY <1>8 DEF ShutdownBye
  <2>1. ASSUME conn' = [conn EXCEPT ![c].pc = "linger", ![c].bye = "shutdown"]
       PROVE  LocalStep(c)
    <3>1. conn' \in Conns
      BY <1>0, <2>1, FieldUpdates, Zenon DEF State, Running, Holding, InServe, Served, Idling, Parking
    <3>2. \A d \in Conn \ {c} : conn'[d] = conn[d]
      BY <1>0, <2>1
    <3>3. Kept(conn[c], conn'[c])
      BY <1>0, <2>1, <2>0 DEF Kept, ConnState, Served, Idling, Parking
    <3>4. ConnInv(conn'[c])
      BY <1>0, <2>1, <2>0 DEF ConnInv, ConnState, Idling, Parking
    <3> QED
      BY <3>1, <3>2, <3>3, <3>4 DEF LocalStep, Conns
  <2>2. ASSUME conn' = [conn EXCEPT ![c].pc = "teardown"]
       PROVE  LocalStep(c)
    <3>1. conn' \in Conns
      BY <1>0, <2>2, FieldUpdates, Zenon DEF State, Running, Holding, InServe, Served, Idling, Parking
    <3>2. \A d \in Conn \ {c} : conn'[d] = conn[d]
      BY <1>0, <2>2
    <3>3. Kept(conn[c], conn'[c])
      BY <1>0, <2>2, <2>0 DEF Kept, ConnState, Served, Idling, Parking
    <3>4. ConnInv(conn'[c])
      BY <1>0, <2>2, <2>0 DEF ConnInv, ConnState, Idling, Parking
    <3> QED
      BY <3>1, <3>2, <3>3, <3>4 DEF LocalStep, Conns
  <2> QED
    BY <1>8, <2>1, <2>2 DEF ShutdownBye
<1>9. CASE LingerClose(c)
  <2>0. <<>> \in Seq(Line)
    OBVIOUS
  <2>1. conn' \in Conns
    BY <1>0, <1>9, FieldUpdates, <2>0, Zenon DEF LingerClose, State, Running, Holding, InServe, Served, Idling, Parking
  <2>2. \A d \in Conn \ {c} : conn'[d] = conn[d]
    BY <1>0, <1>9 DEF LingerClose
  <2>3. Kept(conn[c], conn'[c])
    BY <1>0, <1>9 DEF LingerClose, Kept, ConnState, Served, Idling, Parking
  <2>4. ConnInv(conn'[c])
    BY <1>0, <1>9 DEF LingerClose, ConnInv, ConnState, Idling, Parking
  <2> QED
    BY <2>1, <2>2, <2>3, <2>4 DEF LocalStep, Conns
<1>10. CASE IdleBegin(c)
  <2>0. conn[c].pc = "command"
    BY <1>10 DEF IdleBegin
  <2>1. ASSUME conn' = [conn EXCEPT ![c].pc = "i_arm", ![c].stopped = FALSE,
                                  ![c].orphan = @ \/ conn[c].backend = "run",
                                  ![c].backend = "run", ![c].watcher = "none"]
       PROVE  LocalStep(c)
    <3>1. conn' \in Conns
      BY <1>0, <2>1, FieldUpdates, Zenon DEF State, Running, Holding, InServe, Served, Idling, Parking
    <3>2. \A d \in Conn \ {c} : conn'[d] = conn[d]
      BY <1>0, <2>1, Zenon
    <3>3. Kept(conn[c], conn'[c])
      BY <1>0, <2>1, <2>0 DEF Kept, ConnState, Served, Idling, Parking
    <3>4. ConnInv(conn'[c])
      BY <1>0, <2>1, <2>0 DEF ConnInv, ConnState, Idling, Parking
    <3> QED
      BY <3>1, <3>2, <3>3, <3>4 DEF LocalStep, Conns
  <2>2. ASSUME conn' = [conn EXCEPT ![c].pc = "respond"]
       PROVE  LocalStep(c)
    <3>1. conn' \in Conns
      BY <1>0, <2>2, FieldUpdates, Zenon DEF State, Running, Holding, InServe, Served, Idling, Parking
    <3>2. \A d \in Conn \ {c} : conn'[d] = conn[d]
      BY <1>0, <2>2
    <3>3. Kept(conn[c], conn'[c])
      BY <1>0, <2>2, <2>0 DEF Kept, ConnState, Served, Idling, Parking
    <3>4. ConnInv(conn'[c])
      BY <1>0, <2>2, <2>0 DEF ConnInv, ConnState, Idling, Parking
    <3> QED
      BY <3>1, <3>2, <3>3, <3>4 DEF LocalStep, Conns
  <2> QED
    BY <1>10, <2>1, <2>2, Zenon DEF IdleBegin
<1>11. CASE IdleArm(c)
  <2>1. conn' \in Conns
    BY <1>0, <1>11, FieldUpdates, Zenon DEF IdleArm, State, Running, Holding, InServe, Served, Idling, Parking
  <2>2. \A d \in Conn \ {c} : conn'[d] = conn[d]
    BY <1>0, <1>11 DEF IdleArm
  <2>3. Kept(conn[c], conn'[c])
    BY <1>0, <1>11 DEF IdleArm, Kept, ConnState, Served, Idling, Parking
  <2>4. ConnInv(conn'[c])
    BY <1>0, <1>11 DEF IdleArm, ConnInv, ConnState, Idling, Parking
  <2> QED
    BY <2>1, <2>2, <2>3, <2>4 DEF LocalStep, Conns
<1>12. CASE IdleWatch(c)
  <2>1. conn' \in Conns
    BY <1>0, <1>12, FieldUpdates, Zenon DEF IdleWatch, State, Running, Holding, InServe, Served, Idling, Parking
  <2>2. \A d \in Conn \ {c} : conn'[d] = conn[d]
    BY <1>0, <1>12 DEF IdleWatch
  <2>3. Kept(conn[c], conn'[c])
    BY <1>0, <1>12 DEF IdleWatch, Kept, ConnState, Served, Idling, Parking
  <2>4. ConnInv(conn'[c])
    BY <1>0, <1>12 DEF IdleWatch, ConnInv, ConnState, Idling, Parking
  <2> QED
    BY <2>1, <2>2, <2>3, <2>4 DEF LocalStep, Conns
<1>13. CASE IdleSetIdle(c)
  <2>1. conn' \in Conns
    BY <1>0, <1>13, FieldUpdates, Zenon DEF IdleSetIdle, MayPark, State, Running, Holding, InServe, Served, Idling, Parking
  <2>2. \A d \in Conn \ {c} : conn'[d] = conn[d]
    BY <1>0, <1>13 DEF IdleSetIdle, MayPark
  <2>3. Kept(conn[c], conn'[c])
    BY <1>0, <1>13 DEF IdleSetIdle, MayPark, Kept, ConnState, Served, Idling, Parking
  <2>4. ConnInv(conn'[c])
    BY <1>0, <1>13 DEF IdleSetIdle, MayPark, ConnInv, ConnState, Idling, Parking
  <2> QED
    BY <2>1, <2>2, <2>3, <2>4 DEF LocalStep, Conns
<1>14. CASE IdleSetActive(c)
  <2>1. conn' \in Conns
    BY <1>0, <1>14, FieldUpdates, ZenonT(30) DEF IdleSetActive, IdleOutcome, State, Running, Holding, InServe, Served, Idling, Parking
  <2>2. \A d \in Conn \ {c} : conn'[d] = conn[d]
    BY <1>0, <1>14, Zenon DEF IdleSetActive, IdleOutcome
  <2>3. Kept(conn[c], conn'[c])
    BY <1>0, <1>14 DEF IdleSetActive, IdleOutcome, Kept, ConnState, Served, Idling, Parking
  <2>4. ConnInv(conn'[c])
    BY <1>0, <1>14 DEF IdleSetActive, IdleOutcome, ConnInv, ConnState, Idling, Parking
  <2> QED
    BY <2>1, <2>2, <2>3, <2>4 DEF LocalStep, Conns
<1>15. CASE IdleAwait(c)
  <2>1. conn' \in Conns
    BY <1>0, <1>15, FieldUpdates, Zenon DEF IdleAwait, State, Running, Holding, InServe, Served, Idling, Parking
  <2>2. \A d \in Conn \ {c} : conn'[d] = conn[d]
    BY <1>0, <1>15 DEF IdleAwait
  <2>3. Kept(conn[c], conn'[c])
    BY <1>0, <1>15 DEF IdleAwait, Kept, ConnState, Served, Idling, Parking
  <2>4. ConnInv(conn'[c])
    BY <1>0, <1>15 DEF IdleAwait, ConnInv, ConnState, Idling, Parking
  <2> QED
    BY <2>1, <2>2, <2>3, <2>4 DEF LocalStep, Conns
<1>16. CASE IdleReturn(c)
  <2>1. conn' \in Conns
    BY <1>0, <1>16, FieldUpdates, Zenon DEF IdleReturn, WatcherJoined, State, Running, Holding, InServe, Served, Idling, Parking
  <2>2. \A d \in Conn \ {c} : conn'[d] = conn[d]
    BY <1>0, <1>16 DEF IdleReturn, WatcherJoined
  <2>3. Kept(conn[c], conn'[c])
    BY <1>0, <1>16 DEF IdleReturn, WatcherJoined, Kept, ConnState, Served, Idling, Parking
  <2>4. ConnInv(conn'[c])
    BY <1>0, <1>16 DEF IdleReturn, WatcherJoined, ConnInv, ConnState, Idling, Parking
  <2> QED
    BY <2>1, <2>2, <2>3, <2>4 DEF LocalStep, Conns
<1>17. CASE ReadExpires(c)
  <2>1. conn' \in Conns
    BY <1>0, <1>17, FieldUpdates, Zenon DEF ReadExpires, State, Running, Holding, InServe, Served, Idling, Parking
  <2>2. \A d \in Conn \ {c} : conn'[d] = conn[d]
    BY <1>0, <1>17 DEF ReadExpires
  <2>3. Kept(conn[c], conn'[c])
    BY <1>0, <1>17 DEF ReadExpires, Kept, ConnState, Served, Idling, Parking
  <2>4. ConnInv(conn'[c])
    BY <1>0, <1>17 DEF ReadExpires, ConnInv, ConnState, Idling, Parking
  <2> QED
    BY <2>1, <2>2, <2>3, <2>4 DEF LocalStep, Conns
<1>18. CASE IdleAwaitExpires(c)
  <2>1. conn' \in Conns
    BY <1>0, <1>18, FieldUpdates, Zenon DEF IdleAwaitExpires, State, Running, Holding, InServe, Served, Idling, Parking
  <2>2. \A d \in Conn \ {c} : conn'[d] = conn[d]
    BY <1>0, <1>18 DEF IdleAwaitExpires
  <2>3. Kept(conn[c], conn'[c])
    BY <1>0, <1>18 DEF IdleAwaitExpires, Kept, ConnState, Served, Idling, Parking
  <2>4. ConnInv(conn'[c])
    BY <1>0, <1>18 DEF IdleAwaitExpires, ConnInv, ConnState, Idling, Parking
  <2> QED
    BY <2>1, <2>2, <2>3, <2>4 DEF LocalStep, Conns
<1>19. CASE BackendReturns(c)
  <2>0. conn[c].backend = "run"
    BY <1>19 DEF BackendReturns
  <2>1. ASSUME NEW how \in {"nil", "bye", "err"}, conn' = [conn EXCEPT ![c].backend = how]
       PROVE  LocalStep(c)
    <3>1. conn' \in Conns
      BY <1>0, <2>1, FieldUpdates, Zenon DEF State, Running, Holding, InServe, Served, Idling, Parking
    <3>2. \A d \in Conn \ {c} : conn'[d] = conn[d]
      BY <1>0, <2>1
    <3>3. Kept(conn[c], conn'[c])
      BY <1>0, <2>1, <2>0 DEF Kept, ConnState, Served, Idling, Parking
    <3>4. ConnInv(conn'[c])
      BY <1>0, <2>1, <2>0 DEF ConnInv, ConnState, Idling, Parking
    <3> QED
      BY <3>1, <3>2, <3>3, <3>4 DEF LocalStep, Conns
  <2> QED
    BY <1>19, <2>1, Zenon DEF BackendReturns
<1>20. CASE OrphanReturns(c)
  <2>1. conn' \in Conns
    BY <1>0, <1>20, FieldUpdates, Zenon DEF OrphanReturns, State, Running, Holding, InServe, Served, Idling, Parking
  <2>2. \A d \in Conn \ {c} : conn'[d] = conn[d]
    BY <1>0, <1>20 DEF OrphanReturns
  <2>3. Kept(conn[c], conn'[c])
    BY <1>0, <1>20 DEF OrphanReturns, Kept, ConnState, Served, Idling, Parking
  <2>4. ConnInv(conn'[c])
    BY <1>0, <1>20 DEF OrphanReturns, ConnInv, ConnState, Idling, Parking
  <2> QED
    BY <2>1, <2>2, <2>3, <2>4 DEF LocalStep, Conns
<1>21. CASE WatcherStep(c)
  <2>1. ASSUME NEW w \in {"fire", "done"}, conn' = [conn EXCEPT ![c].watcher = w]
       PROVE  LocalStep(c)
    <3>1. conn' \in Conns
      BY <1>0, <2>1, FieldUpdates, Zenon DEF State, Running, Holding, InServe, Served, Idling, Parking
    <3>2. \A d \in Conn \ {c} : conn'[d] = conn[d]
      BY <1>0, <2>1
    <3>3. Kept(conn[c], conn'[c])
      BY <1>0, <2>1 DEF Kept, ConnState, Served, Idling, Parking
    <3>4. ConnInv(conn'[c])
      BY <1>0, <2>1 DEF ConnInv, ConnState, Idling, Parking
    <3> QED
      BY <3>1, <3>2, <3>3, <3>4 DEF LocalStep, Conns
  <2>2. ASSUME conn' = [conn EXCEPT ![c].watcher = "fired", ![c].deadline = "past"]
       PROVE  LocalStep(c)
    <3>1. conn' \in Conns
      BY <1>0, <2>2, FieldUpdates, Zenon DEF State, Running, Holding, InServe, Served, Idling, Parking
    <3>2. \A d \in Conn \ {c} : conn'[d] = conn[d]
      BY <1>0, <2>2
    <3>3. Kept(conn[c], conn'[c])
      BY <1>0, <2>2 DEF Kept, ConnState, Served, Idling, Parking
    <3>4. ConnInv(conn'[c])
      BY <1>0, <2>2 DEF ConnInv, ConnState, Idling, Parking
    <3> QED
      BY <3>1, <3>2, <3>3, <3>4 DEF LocalStep, Conns
  <2> QED
    BY <1>21, <2>1, <2>2 DEF WatcherStep, WatcherWakes, WatcherInterrupts
<1>22. CASE HangUp(c)
  <2>1. conn' \in Conns
    BY <1>0, <1>22, FieldUpdates, Zenon DEF HangUp, State, Running, Holding, InServe, Served, Idling, Parking
  <2>2. \A d \in Conn \ {c} : conn'[d] = conn[d]
    BY <1>0, <1>22 DEF HangUp
  <2>3. Kept(conn[c], conn'[c])
    BY <1>0, <1>22 DEF HangUp, Kept, ConnState, Served, Idling, Parking
  <2>4. ConnInv(conn'[c])
    BY <1>0, <1>22 DEF HangUp, ConnInv, ConnState, Idling, Parking
  <2> QED
    BY <2>1, <2>2, <2>3, <2>4 DEF LocalStep, Conns
<1>23. ASSUME NEW l \in Lines, Send(c, l)
      PROVE  LocalStep(c)
  <2>0. Append(conn[c].inbox, l) \in Seq(Line)
    BY <1>0, LifecycleAssumption DEF ConnState
  <2>1. conn' \in Conns
    BY <1>0, <1>23, FieldUpdates, <2>0, Zenon DEF Send, State, Running, Holding, InServe, Served, Idling, Parking
  <2>2. \A d \in Conn \ {c} : conn'[d] = conn[d]
    BY <1>0, <1>23 DEF Send
  <2>3. Kept(conn[c], conn'[c])
    BY <1>0, <1>23 DEF Send, Kept, ConnState, Served, Idling, Parking
  <2>4. ConnInv(conn'[c])
    BY <1>0, <1>23 DEF Send, ConnInv, ConnState, Idling, Parking
  <2> QED
    BY <2>1, <2>2, <2>3, <2>4 DEF LocalStep, Conns
<1> QED
  BY <1>1, <1>2, <1>3, <1>4, <1>5, <1>6, <1>7, <1>8, <1>9, <1>10, <1>11, <1>12, <1>13, <1>14, <1>15, <1>16, <1>17, <1>18, <1>19, <1>20, <1>21, <1>22, <1>23, Zenon DEF Local

-----------------------------------------------------------------------------
INSTANCE FiniteSetTheorems

(* Connections are finite in number, so that the holders can be counted. *)
LEMMA HoldersFinite ==
    IsFiniteSet(Holders) /\ Cardinality(Holders) \in Nat
<1>1. IsFiniteSet(Holders)
  BY FS_Subset, LifecycleAssumption DEF Holders
<1> QED
  BY <1>1, FS_CardinalityType

(* What the connections' states being alike leaves as it was. *)
LEMMA AlikeKeeps ==
    ASSUME LifecycleInv, \A d \in Conn : Alike(conn[d], conn'[d]), TypeOK',
           UNCHANGED <<closed, slots, conns, stop, toVisit>>
    PROVE  SlotsHeld' /\ Forced' /\ NoSurvivor'
<1>1. Holders' = Holders
  BY DEF Holders, Alike
<1>2. SlotsHeld'
  BY <1>1, Zenon DEF SlotsHeld, LifecycleInv
<1>3. Forced'
  BY DEF Forced, TypeOK, Alike, LifecycleInv
<1>4. NoSurvivor'
  BY DEF NoSurvivor, Alike, LifecycleInv
<1> QED
  BY <1>2, <1>3, <1>4

(* A local step of a connection preserves the invariant. *)
LEMMA LocalInv ==
    ASSUME LifecycleInv, NEW c \in Conn, LocalStep(c), UNCHANGED serverVars
    PROVE  LifecycleInv'
<1>1. TypeOK'
  BY DEF TypeOK, LocalStep, serverVars, LifecycleInv
<1>2. \A d \in Conn : Kept(conn[d], conn'[d])
  BY DEF LocalStep, Kept
<1>3. \A d \in Conn : Alike(conn[d], conn'[d]) /\ (conn'[d].pc = "accepted" <=> conn[d].pc = "accepted")
  BY <1>2, KeptAlike
<1>4. SlotsHeld' /\ Forced' /\ NoSurvivor'
  BY <1>1, <1>3, AlikeKeeps DEF serverVars
<1>5. Settled'
  BY <1>3 DEF Settled, Alike, serverVars, LifecycleInv
<1>6. \A d \in Conn : ConnInv(conn'[d])
  BY DEF LocalStep, LifecycleInv
<1> QED
  BY <1>1, <1>4, <1>5, <1>6 DEF LifecycleInv

(* So does a step of Serve, Close or Shutdown that touches no connection. *)
LEMMA ServerInv ==
    ASSUME LifecycleInv, UNCHANGED conn,
           Serve \/ ServeReturns \/ Close \/ CloseForces \/ Shutdown \/ ShutdownWaits
           \/ ShutdownDone \/ ContextExpires \/ ForceReturns
    PROVE  LifecycleInv'
<1> USE DEF LifecycleInv
<1>1. TypeOK' /\ slots' = slots /\ conns' = conns
  BY Zenon DEF TypeOK, Serve, ServeReturns, Close, CloseForces, Shutdown, ShutdownWaits,
         ShutdownDone, ContextExpires, ForceReturns
<1>2. SlotsHeld'
  BY <1>1 DEF SlotsHeld, Holders
<1>3. Forced'
  BY <1>1, Zenon DEF Forced, TypeOK, Serve, ServeReturns, Close, CloseForces, Shutdown, ShutdownWaits,
         ShutdownDone, ContextExpires, ForceReturns
<1>4. NoSurvivor'
  <2>1. CASE ForceReturns
    BY <2>1 DEF ForceReturns, NoSurvivor, Forced
  <2>2. CASE ~ForceReturns
    BY <2>2, Zenon DEF NoSurvivor, Serve, ServeReturns, Close, CloseForces, Shutdown, ShutdownWaits,
         ShutdownDone, ContextExpires
  <2> QED
    BY <2>1, <2>2
<1>5. Settled'
  <2>1. CASE ShutdownDone
    BY <2>1 DEF ShutdownDone, Settled
  <2>2. CASE ~ShutdownDone
    BY <2>2 DEF Settled, Forced, Serve, ServeReturns, Close, CloseForces, Shutdown, ShutdownWaits,
         ContextExpires, ForceReturns
  <2> QED
    BY <2>1, <2>2
<1> QED
  BY <1>1, <1>2, <1>3, <1>4, <1>5, Zenon

(* The accept loop takes a slot for a connection before it is Running.      *)
LEMMA AcceptInv ==
    ASSUME LifecycleInv, NEW c \in Conn, Accept(c) \/ Spawn(c)
    PROVE  LifecycleInv'
<1>0. conn \in Conns /\ conn \in [Conn -> ConnState] /\ conn[c] \in ConnState /\ ConnInv(conn[c])
  BY DEF LifecycleInv, TypeOK, Conns
<1>1. CASE Accept(c)
  <2>1. conn' \in Conns
    BY <1>0, <1>1, FieldUpdates, Zenon DEF Accept, State
  <2>2. /\ \A d \in Conn \ {c} : conn'[d] = conn[d]
        /\ conn'[c].pc = "accepted" /\ conn[c].pc = "none" /\ conn'[c].socket = conn[c].socket
    BY <1>0, <1>1 DEF Accept, ConnState
  <2>3. ConnInv(conn'[c])
    BY <1>0, <1>1 DEF Accept, ConnInv, ConnState, Idling, Parking
  <2>4. \A d \in Conn : Alike(conn[d], conn'[d]) /\ ConnInv(conn'[d])
    BY <2>2, <2>3 DEF Alike, LifecycleInv, Running, Holding, InServe, Served, Idling, Parking
  <2>5. TypeOK'
    BY <1>1, <2>1 DEF Accept, TypeOK, Conns, LifecycleInv
  <2>6. SlotsHeld' /\ Forced' /\ NoSurvivor'
    BY <1>1, <2>4, <2>5, AlikeKeeps, Zenon DEF Accept
  <2>7. Settled'
    <3>1. serveLoop = "accept" /\ serveLoop' = "got" /\ stop' = stop /\ ~closed
      BY <1>1 DEF Accept
    <3>2. \A d \in Conn : conn[d].pc # "accepted"
      BY <3>1 DEF Settled, LifecycleInv
    <3>3. stop # "shut_done"
      BY <3>1 DEF Forced, LifecycleInv
    <3> QED
      BY <2>2, <3>1, <3>2, <3>3, Zenon DEF Settled
  <2> QED
    BY <2>4, <2>5, <2>6, <2>7, Zenon DEF LifecycleInv
<1>2. CASE Spawn(c) /\ slots < MaxConnections
  <2>0. conn[c].pc = "accepted" /\ conn' = [conn EXCEPT ![c].pc = "start"]
        /\ serveLoop = "got" /\ slots' = slots + 1 /\ serveLoop' = "accept"
        /\ UNCHANGED <<closed, conns, stop, toVisit>>
    BY <1>2 DEF Spawn
  <2>1. conn' \in Conns
    BY <1>0, <2>0, FieldUpdates, Zenon DEF State, Running, Holding, InServe
  <2>2. /\ \A d \in Conn \ {c} : conn'[d] = conn[d]
        /\ conn'[c].pc = "start" /\ conn'[c].socket = conn[c].socket
    BY <1>0, <2>0, Zenon DEF ConnState
  <2>3. ConnInv(conn'[c])
    BY <1>0, <2>0 DEF ConnInv, ConnState, Idling, Parking
  <2>4. TypeOK'
    BY <1>2, <2>0, <2>1, LifecycleAssumption DEF TypeOK, Conns, LifecycleInv
  <2>5. SlotsHeld'
    <3>1. c \notin Holders
      BY <2>0 DEF Holders, Holding, InServe, Served, Idling, Parking
    <3>2. Holders' = Holders \cup {c}
      BY <2>2, Zenon DEF Holders, Holding, InServe
    <3>3. Cardinality(Holders \cup {c}) = Cardinality(Holders) + 1
      BY <3>1, HoldersFinite, FS_AddElement, Zenon
    <3> QED
      BY <2>0, <3>2, <3>3, Zenon DEF SlotsHeld, LifecycleInv
  <2>6. Forced' /\ NoSurvivor'
    <3>1. \A d \in Conn : conn'[d].pc \in Served <=> conn[d].pc \in Served
      BY <2>0, <2>2, Zenon DEF Served, Idling, Parking
    <3>2. \A d \in Conn : conn'[d].socket = conn[d].socket
      BY <2>2, Zenon
    <3> QED
      BY <2>0, <3>1, <3>2 DEF Forced, NoSurvivor, TypeOK, LifecycleInv
  <2>7. Settled'
    BY <2>0, <2>2 DEF Settled, LifecycleInv
  <2> QED
    BY <2>2, <2>3, <2>4, <2>5, <2>6, <2>7, Zenon DEF LifecycleInv
<1>3. CASE Spawn(c) /\ ~(slots < MaxConnections)
  <2>0. conn[c].pc = "accepted" /\ serveLoop = "got" /\ slots' = slots /\ serveLoop' = "accept"
        /\ UNCHANGED <<closed, conns, stop, toVisit>>
        /\ conn' = [conn EXCEPT ![c].pc = "rejected"]
    BY <1>3 DEF Spawn
  <2>1. conn' \in Conns
    BY <1>0, <2>0, FieldUpdates, Zenon DEF State
  <2>2. /\ \A d \in Conn \ {c} : conn'[d] = conn[d]
        /\ conn'[c].pc = "rejected" /\ conn'[c].socket = conn[c].socket
    BY <1>0, <2>0, Zenon DEF ConnState
  <2>3. ConnInv(conn'[c])
    BY <1>0, <2>0 DEF ConnInv, ConnState, Idling, Parking
  <2>4. \A d \in Conn : Alike(conn[d], conn'[d]) /\ ConnInv(conn'[d])
    BY <2>0, <2>2, <2>3 DEF Alike, LifecycleInv, Running, Holding, InServe, Served, Idling, Parking
  <2>5. TypeOK'
    BY <2>0, <2>1, Zenon DEF TypeOK, Conns, LifecycleInv
  <2>6. SlotsHeld' /\ Forced' /\ NoSurvivor'
    BY <2>0, <2>4, <2>5, AlikeKeeps, Zenon
  <2>7. Settled'
    BY <2>0, <2>2 DEF Settled, LifecycleInv
  <2> QED
    BY <2>4, <2>5, <2>6, <2>7, Zenon DEF LifecycleInv
<1> QED
  BY <1>1, <1>2, <1>3

(* Shutdown and forceCloseConns visit a connection: its registration does   *)
(* not change, and a forced one has lost its socket.                        *)
LEMMA VisitInv ==
    ASSUME LifecycleInv, NEW c \in Conn, RequestShutdown(c) \/ ForceClose(c)
    PROVE  LifecycleInv'
<1>0. conn \in Conns /\ conn \in [Conn -> ConnState] /\ conn[c] \in ConnState /\ ConnInv(conn[c])
  BY DEF LifecycleInv, TypeOK, Conns
<1>1. UNCHANGED <<closed, serveLoop, slots, conns, stop>> /\ toVisit' = toVisit \ {c}
  BY Zenon DEF RequestShutdown, ForceClose
<1>2. /\ conn' \in Conns
      /\ \A d \in Conn \ {c} : conn'[d] = conn[d]
      /\ Kept(conn[c], conn'[c]) /\ ConnInv(conn'[c])
      /\ stop \in {"shut_force", "close_force"} => conn'[c].socket = "closed"
  <2>1. CASE RequestShutdown(c)
    <3>1. WakeDeadline(conn[c]) \in {"future", "past"}
      BY <1>0, Zenon DEF WakeDeadline, ConnState
    <3>2. conn' \in Conns
      BY <1>0, <2>1, <3>1, FieldUpdates, Zenon DEF RequestShutdown
    <3>3. /\ \A d \in Conn \ {c} : conn'[d] = conn[d]
          /\ Kept(conn[c], conn'[c]) /\ stop \notin {"shut_force", "close_force"}
      BY <1>0, <2>1 DEF RequestShutdown, Kept, ConnState
    <3>4. ConnInv(conn'[c])
      BY <1>0, <2>1 DEF RequestShutdown, ConnInv, ConnState
    <3> QED
      BY <3>2, <3>3, <3>4
  <2>2. CASE ForceClose(c)
    <3>2. conn' \in Conns
      BY <1>0, <2>2, FieldUpdates, Zenon DEF ForceClose
    <3>3. /\ \A d \in Conn \ {c} : conn'[d] = conn[d]
          /\ Kept(conn[c], conn'[c]) /\ conn'[c].socket = "closed"
      BY <1>0, <2>2, Zenon DEF ForceClose, Kept, ConnState
    <3>4. ConnInv(conn'[c])
      BY <1>0, <2>2 DEF ForceClose, ConnInv, ConnState
    <3> QED
      BY <3>2, <3>3, <3>4, Zenon
  <2> QED
    BY <2>1, <2>2, Zenon
<1>3. \A d \in Conn : Kept(conn[d], conn'[d]) /\ ConnInv(conn'[d])
  BY <1>2 DEF Kept, LifecycleInv
<1>4. TypeOK'
  BY <1>1, <1>2, Zenon DEF TypeOK, Conns, LifecycleInv
<1>5. \A d \in Conn : Alike(conn[d], conn'[d]) /\ (conn'[d].pc = "accepted" <=> conn[d].pc = "accepted")
  BY <1>3, KeptAlike
<1>6. SlotsHeld' /\ NoSurvivor'
  <2>1. Holders' = Holders
    BY <1>5 DEF Holders, Alike
  <2> QED
    BY <1>1, <1>5, <2>1 DEF SlotsHeld, NoSurvivor, Alike, LifecycleInv
<1>7. Forced'
  BY <1>1, <1>2, <1>5 DEF Forced, TypeOK, Alike, LifecycleInv
<1>8. Settled'
  BY <1>1, <1>5 DEF Settled, Alike, LifecycleInv
<1> QED
  BY <1>3, <1>4, <1>6, <1>7, <1>8 DEF LifecycleInv

(* serve registers the connection unless the server was closed, and deletes *)
(* it from conns again; neither happens while Shutdown or forceCloseConns   *)
(* holds the mutex.                                                         *)
LEMMA RegisterInv ==
    ASSUME LifecycleInv, NEW c \in Conn, Register(c) \/ Teardown(c)
    PROVE  LifecycleInv'
<1>0. conn \in Conns /\ conn \in [Conn -> ConnState] /\ conn[c] \in ConnState /\ ConnInv(conn[c])
  BY DEF LifecycleInv, TypeOK, Conns
<1>1. /\ UNCHANGED <<closed, serveLoop, slots, stop, toVisit>>
      /\ stop \notin {"shut_force", "close_force"}
  BY Zenon DEF Register, Teardown, Locked
<1>2. /\ conn' \in Conns
      /\ \A d \in Conn \ {c} : conn'[d] = conn[d]
      /\ conn[c].pc \in InServe /\ conn'[c].pc \in InServe
      /\ ConnInv(conn'[c])
      /\ \/ ~closed /\ conn'[c].pc \in Served /\ conns' = conns \cup {c}
         \/ conn'[c].pc \notin Served /\ conns' = conns \ {c}
  <2>1. CASE Register(c) /\ MayRegister
    <3>1. conn[c].pc = "start" /\ conn' = [conn EXCEPT ![c].pc = "session"]
          /\ ~closed /\ conns' = conns \cup {c}
      BY <2>1, Zenon DEF Register, MayRegister
    <3>2. conn' \in Conns
      BY <1>0, <3>1, FieldUpdates, Zenon DEF State, Running, Holding, InServe, Served
    <3>3. /\ \A d \in Conn \ {c} : conn'[d] = conn[d]
          /\ conn'[c].pc = "session"
      BY <1>0, <3>1, Zenon DEF ConnState
    <3>4. ConnInv(conn'[c])
      BY <1>0, <3>1 DEF ConnInv, ConnState, Idling, Parking
    <3> QED
      BY <3>1, <3>2, <3>3, <3>4, Zenon DEF InServe, Served
  <2>2. CASE Register(c) /\ ~MayRegister
    <3>1. conn[c].pc = "start" /\ conns' = conns
          /\ conn' = [conn EXCEPT ![c].pc = "close", ![c].bye = "other"]
      BY <2>2, Zenon DEF Register
    <3>2. conn' \in Conns
      BY <1>0, <3>1, FieldUpdates, Zenon DEF State, Running, Holding, InServe
    <3>3. /\ \A d \in Conn \ {c} : conn'[d] = conn[d]
          /\ conn'[c].pc = "close"
      BY <1>0, <3>1 DEF ConnState
    <3>4. ConnInv(conn'[c])
      BY <1>0, <3>1 DEF ConnInv, ConnState, Idling, Parking
    <3>5. conn[c].pc \notin Served /\ conn'[c].pc \notin Served
      BY <3>1, <3>3, Zenon DEF Served, Idling, Parking
    <3>6. conns \ {c} = conns
      BY <3>5 DEF LifecycleInv, Forced
    <3> QED
      BY <3>1, <3>2, <3>3, <3>4, <3>5, <3>6, Zenon DEF InServe
  <2>3. CASE Teardown(c)
    <3>1. conn[c].pc = "teardown" /\ conns' = conns \ {c}
          /\ conn' = [conn EXCEPT ![c].pc = "close"]
      BY <2>3, Zenon DEF Teardown
    <3>2. conn' \in Conns
      BY <1>0, <3>1, FieldUpdates, Zenon DEF State, Running, Holding, InServe
    <3>3. /\ \A d \in Conn \ {c} : conn'[d] = conn[d]
          /\ conn'[c].pc = "close"
      BY <1>0, <3>1, Zenon DEF ConnState
    <3>4. ConnInv(conn'[c])
      BY <1>0, <3>1 DEF ConnInv, ConnState, Idling, Parking
    <3>5. conn'[c].pc \notin Served
      BY <3>3 DEF Served, Idling, Parking
    <3> QED
      BY <3>1, <3>2, <3>3, <3>4, <3>5, Zenon DEF InServe, Served
  <2> QED
    BY <2>1, <2>2, <2>3
<1>3. TypeOK'
  BY <1>1, <1>2, Zenon DEF TypeOK, Conns, LifecycleInv
<1>4. SlotsHeld'
  <2>1. Holders' = Holders
    BY <1>2 DEF Holders, Holding
  <2> QED
    BY <1>1, <2>1, Zenon DEF SlotsHeld, LifecycleInv
<1>5. Forced'
  <2>1. conns' = {d \in Conn : conn'[d].pc \in Served}
    BY <1>2 DEF Forced, LifecycleInv
  <2> QED
    BY <1>1, <2>1, Zenon DEF Forced, LifecycleInv
<1>6. NoSurvivor'
  <2>1. ASSUME stop \in {"close_done", "shut_expired"}, NEW d \in Conn, conn'[d].pc \in Served
        PROVE  d # c
    BY <1>2, <2>1 DEF LifecycleInv, Forced
  <2> QED
    BY <1>1, <1>2, <2>1, Zenon DEF NoSurvivor, LifecycleInv
<1>7. \A d \in Conn : ConnInv(conn'[d])
  BY <1>2, Zenon DEF LifecycleInv
<1>8. Settled'
  <2>1. conn'[c].pc # "accepted" /\ conn[c].pc \in Running
    BY <1>2 DEF Running, Holding, InServe, Served, Idling, Parking
  <2> QED
    BY <1>1, <1>2, <2>1 DEF Settled, LifecycleInv
<1> QED
  BY <1>3, <1>4, <1>5, <1>6, <1>7, <1>8, Zenon DEF LifecycleInv

(* The end of serve and rejectConn close the socket, and the goroutine of   *)
(* Serve tells the wait group: no slot changes hands.                       *)
LEMMA LeaveInv ==
    ASSUME LifecycleInv, NEW c \in Conn, CloseConn(c) \/ Leave(c) \/ RejectConn(c)
    PROVE  LifecycleInv'
<1>0. conn \in Conns /\ conn \in [Conn -> ConnState] /\ conn[c] \in ConnState /\ ConnInv(conn[c])
  BY DEF LifecycleInv, TypeOK, Conns
<1>1. UNCHANGED <<closed, serveLoop, slots, conns, stop, toVisit>>
  BY Zenon DEF CloseConn, Leave, RejectConn, serverVars
<1>2. /\ conn' \in Conns
      /\ \A d \in Conn \ {c} : conn'[d] = conn[d]
      /\ ConnInv(conn'[c]) /\ conn'[c].socket = "closed"
      /\ \/ conn[c].pc = "close" /\ conn'[c].pc = "release"
         \/ conn[c].pc \in {"leave", "rejected"} /\ conn'[c].pc = "done"
  <2>1. CASE CloseConn(c)
    <3>1. conn[c].pc = "close" /\ <<>> \in Seq(Line)
          /\ conn' = [conn EXCEPT ![c].pc = "release", ![c].socket = "closed", ![c].inbox = <<>>]
      BY <2>1 DEF CloseConn
    <3>2. conn' \in Conns
      BY <1>0, <3>1, FieldUpdates, Zenon DEF State, Running, Holding
    <3>3. /\ \A d \in Conn \ {c} : conn'[d] = conn[d]
          /\ conn'[c].pc = "release" /\ conn'[c].socket = "closed"
      BY <1>0, <3>1, Zenon DEF ConnState
    <3>4. ConnInv(conn'[c])
      BY <1>0, <3>1 DEF ConnInv, ConnState, Idling, Parking
    <3> QED
      BY <3>1, <3>2, <3>3, <3>4, Zenon
  <2>2. CASE Leave(c)
    <3>1. conn[c].pc = "leave" /\ conn' = [conn EXCEPT ![c].pc = "done"]
      BY <2>2, Zenon DEF Leave
    <3>2. conn' \in Conns
      BY <1>0, <3>1, FieldUpdates, Zenon DEF State
    <3>3. /\ \A d \in Conn \ {c} : conn'[d] = conn[d]
          /\ conn'[c].pc = "done" /\ conn'[c].socket = conn[c].socket
      BY <1>0, <3>1, Zenon DEF ConnState
    <3>4. ConnInv(conn'[c])
      BY <1>0, <3>1 DEF ConnInv, ConnState, Idling, Parking
    <3>5. conn[c].socket = "closed"
      BY <1>0, <3>1 DEF ConnInv
    <3> QED
      BY <3>1, <3>2, <3>3, <3>4, <3>5, Zenon
  <2>3. CASE RejectConn(c)
    <3>1. /\ conn[c].pc = "rejected"
          /\ conn' = [conn EXCEPT ![c].pc = "done", ![c].bye = "other", ![c].socket = "closed"]
      BY <2>3, Zenon DEF RejectConn
    <3>2. conn' \in Conns
      BY <1>0, <3>1, FieldUpdates, Zenon DEF State
    <3>3. /\ \A d \in Conn \ {c} : conn'[d] = conn[d]
          /\ conn'[c].pc = "done" /\ conn'[c].socket = "closed"
      BY <1>0, <3>1, Zenon DEF ConnState
    <3>4. ConnInv(conn'[c])
      BY <1>0, <3>1 DEF ConnInv, ConnState, Idling, Parking
    <3> QED
      BY <3>1, <3>2, <3>3, <3>4, Zenon
  <2> QED
    BY <2>1, <2>2, <2>3, Zenon
<1>3. TypeOK'
  BY <1>1, <1>2, Zenon DEF TypeOK, Conns, LifecycleInv
<1>4. /\ \A d \in Conn : conn'[d].pc \in Served <=> conn[d].pc \in Served
      /\ \A d \in Conn : conn'[d].pc \in Holding <=> conn[d].pc \in Holding
      /\ \A d \in Conn : conn[d].socket = "closed" => conn'[d].socket = "closed"
  <2>1. /\ conn'[c].pc \in Served <=> conn[c].pc \in Served
        /\ conn'[c].pc \in Holding <=> conn[c].pc \in Holding
    BY <1>2 DEF Holding, InServe, Served, Idling, Parking
  <2> QED
    BY <1>2, <2>1, Zenon
<1>5. SlotsHeld'
  <2>1. Holders' = Holders
    BY <1>4 DEF Holders
  <2> QED
    BY <1>1, <2>1, Zenon DEF SlotsHeld, LifecycleInv
<1>6. Forced' /\ NoSurvivor'
  BY <1>1, <1>4 DEF Forced, NoSurvivor, TypeOK, LifecycleInv
<1>7. Settled'
  <2>1. conn'[c].pc # "accepted" /\ (conn'[c].pc \in Running => conn[c].pc \in Running)
    BY <1>2 DEF Running, Holding, InServe, Served, Idling, Parking
  <2> QED
    BY <1>1, <1>2, <2>1 DEF Settled, LifecycleInv
<1>8. \A d \in Conn : ConnInv(conn'[d])
  BY <1>2, Zenon DEF LifecycleInv
<1> QED
  BY <1>3, <1>5, <1>6, <1>7, <1>8, Zenon DEF LifecycleInv

(* The goroutine of Serve gives the slot back, once. *)
LEMMA ReleaseInv ==
    ASSUME LifecycleInv, NEW c \in Conn, Release(c)
    PROVE  LifecycleInv'
<1>0. conn \in Conns /\ conn \in [Conn -> ConnState] /\ conn[c] \in ConnState /\ ConnInv(conn[c])
  BY DEF LifecycleInv, TypeOK, Conns
<1>1. /\ conn[c].pc = "release" /\ slots' = slots - 1
      /\ conn' = [conn EXCEPT ![c].pc = "leave"]
      /\ UNCHANGED <<closed, serveLoop, conns, stop, toVisit>>
  BY Zenon DEF Release
<1>2. conn' \in Conns
  BY <1>0, <1>1, FieldUpdates, Zenon DEF State, Running
<1>3. /\ \A d \in Conn \ {c} : conn'[d] = conn[d]
      /\ conn'[c].pc = "leave" /\ conn'[c].socket = conn[c].socket
  BY <1>0, <1>1, Zenon DEF ConnState
<1>4. ConnInv(conn'[c])
  BY <1>0, <1>1 DEF ConnInv, ConnState, Idling, Parking
<1>5. Cardinality(Holders') = Cardinality(Holders) - 1 /\ Cardinality(Holders) > 0
  <2>1. c \in Holders
    BY <1>1, Zenon DEF Holders, Holding
  <2>2. Holders' = Holders \ {c}
    BY <1>3, Zenon DEF Holders, Holding, InServe, Served, Idling, Parking
  <2>3. Cardinality(Holders \ {c}) = Cardinality(Holders) - 1
    BY <2>1, HoldersFinite, FS_RemoveElement, Zenon
  <2>4. Cardinality(Holders) # 0
    BY <2>1, HoldersFinite, FS_EmptySet, Zenon
  <2> QED
    BY <2>2, <2>3, <2>4, HoldersFinite
<1>6. SlotsHeld' /\ TypeOK'
  <2>1. slots = Cardinality(Holders)
    BY DEF LifecycleInv, SlotsHeld
  <2>2. slots' = Cardinality(Holders')
    BY <1>1, <1>5, <2>1, Zenon
  <2>3. slots' \in 0 .. MaxConnections
    BY <1>1, <1>5, <2>1, LifecycleAssumption DEF LifecycleInv, TypeOK
  <2> QED
    BY <1>1, <1>2, <2>2, <2>3, Zenon DEF SlotsHeld, TypeOK, Conns, LifecycleInv
<1>7. Forced' /\ NoSurvivor'
  <2>1. \A d \in Conn : conn'[d].pc \in Served <=> conn[d].pc \in Served
    BY <1>1, <1>3, Zenon DEF Served, Idling, Parking
  <2>2. \A d \in Conn : conn[d].socket = "closed" => conn'[d].socket = "closed"
    BY <1>3, Zenon
  <2> QED
    BY <1>1, <2>1, <2>2 DEF Forced, NoSurvivor, TypeOK, LifecycleInv
<1>8. Settled'
  <2>1. conn'[c].pc # "accepted" /\ conn[c].pc \in Running
    BY <1>1, <1>3 DEF Running, Holding
  <2> QED
    BY <1>1, <1>3, <2>1 DEF Settled, LifecycleInv
<1>9. \A d \in Conn : ConnInv(conn'[d])
  BY <1>3, <1>4, Zenon DEF LifecycleInv
<1> QED
  BY <1>6, <1>7, <1>8, <1>9, Zenon DEF LifecycleInv

-----------------------------------------------------------------------------
(* The inductive invariant of the server and its connections. *)
THEOREM LifecycleInvariant == Spec => []LifecycleInv
<1>1. Init => LifecycleInv
  <2> SUFFICES ASSUME Init
               PROVE  LifecycleInv
    OBVIOUS
  <2>1. NewConn \in ConnState
    BY DEF NewConn, ConnState
  <2>2. conn \in [Conn -> ConnState] /\ \A c \in Conn : conn[c] = NewConn
    BY <2>1 DEF Init
  <2>3. Holders = {}
    BY <2>2 DEF Holders, NewConn, Holding, InServe, Served, Idling, Parking
  <2>4. TypeOK
    <3>1. 0 \in 0 .. MaxConnections
      BY LifecycleAssumption
    <3> QED
      BY <2>2, <3>1, Zenon DEF Init, TypeOK
  <2>5. SlotsHeld
    BY <2>3, FS_EmptySet DEF Init, SlotsHeld
  <2>6. Forced /\ NoSurvivor
    BY <2>2, Zenon DEF Init, Forced, NoSurvivor, NewConn, Served, Idling, Parking
  <2>7. \A c \in Conn : ConnInv(conn[c])
    BY <2>2 DEF NewConn, ConnInv
  <2>8. Settled
    BY <2>2 DEF Init, Settled, NewConn
  <2> QED
    BY <2>4, <2>5, <2>6, <2>7, <2>8, Zenon DEF LifecycleInv
<1>2. LifecycleInv /\ [Next]_vars => LifecycleInv'
  <2> SUFFICES ASSUME LifecycleInv, [Next]_vars
               PROVE  LifecycleInv'
    BY Zenon
  <2>1. CASE Serve \/ ServeReturns \/ Close \/ CloseForces \/ Shutdown \/ ShutdownWaits
             \/ ShutdownDone \/ ContextExpires \/ ForceReturns
    <3>1. UNCHANGED conn
      BY <2>1 DEF Serve, ServeReturns, Close, CloseForces, Shutdown, ShutdownWaits,
                  ShutdownDone, ContextExpires, ForceReturns
    <3> QED
      BY <2>1, <3>1, ServerInv, Zenon
  <2>2. ASSUME NEW c \in Conn, Accept(c) \/ Spawn(c)
        PROVE  LifecycleInv'
    BY <2>2, AcceptInv, Zenon
  <2>3. ASSUME NEW c \in Conn, RequestShutdown(c) \/ ForceClose(c)
        PROVE  LifecycleInv'
    BY <2>3, VisitInv
  <2>4. ASSUME NEW c \in Conn, Register(c) \/ Teardown(c)
        PROVE  LifecycleInv'
    BY <2>4, RegisterInv
  <2>5. ASSUME NEW c \in Conn, CloseConn(c) \/ Release(c) \/ Leave(c) \/ RejectConn(c)
        PROVE  LifecycleInv'
    BY <2>5, ReleaseInv, LeaveInv, Zenon
  <2>6. ASSUME NEW c \in Conn, Local(c)
        PROVE  LifecycleInv'
    <3>1. LocalStep(c)
      BY <2>6, LocalSteps DEF LifecycleInv
    <3>2. UNCHANGED serverVars
      BY <2>6, Zenon DEF Local, Greet, ArmRead, SetIdle, ReadReturns, SetActive, Handle, Respond,
                  ShutdownBye, LingerClose, IdleBegin, IdleArm, IdleWatch, IdleSetIdle,
                  IdleSetActive, IdleAwait, IdleReturn, ReadExpires, IdleAwaitExpires,
                  BackendReturns, OrphanReturns, WatcherStep, WatcherWakes,
                  WatcherInterrupts, HangUp, Send
    <3> QED
      BY <3>1, <3>2, LocalInv
  <2>7. CASE UNCHANGED vars
    BY <2>7 DEF vars, serverVars, LifecycleInv, TypeOK, SlotsHeld, Holders, Forced, NoSurvivor, Settled
  <2>8. Next => \/ Serve \/ ServeReturns \/ Close \/ CloseForces \/ Shutdown \/ ShutdownWaits
                   \/ ShutdownDone \/ ContextExpires \/ ForceReturns
                \/ \E c \in Conn :
                    \/ Accept(c) \/ Spawn(c) \/ RequestShutdown(c) \/ ForceClose(c)
                    \/ Register(c) \/ Teardown(c) \/ CloseConn(c) \/ Release(c) \/ Leave(c)
                    \/ RejectConn(c) \/ Local(c)
    BY DEF Next, AcceptLoop, Stopper, ServeStep, Local
  <2> QED
    BY <2>1, <2>2, <2>3, <2>4, <2>5, <2>6, <2>7, <2>8
<1> QED
  BY <1>1, <1>2, PTL DEF Spec

(* Type correctness; with it, at most MaxConnections tokens are taken. *)
THEOREM LifecycleTypes == Spec => []TypeOK
BY LifecycleInvariant, PTL DEF LifecycleInv

(* When Shutdown has returned without its context expiring, no connection   *)
(* is left in conns, no slot is taken and no socket is open, but for that   *)
(* of a client that is being refused.                                       *)
THEOREM ShutdownLeavesNothing == Spec => []NothingLeft
<1>1. LifecycleInv => NothingLeft
  <2> SUFFICES ASSUME LifecycleInv, stop = "shut_done"
               PROVE  /\ conns = {} /\ slots = 0
                      /\ \A c \in Conn : conn[c].pc \notin {"none", "rejected"} => conn[c].socket = "closed"
    BY DEF NothingLeft
  <2>1. \A c \in Conn : conn[c].pc \notin Running /\ conn[c].pc # "accepted"
    BY DEF LifecycleInv, Settled
  <2>2. conns = {}
    BY <2>1 DEF LifecycleInv, Forced, Running, Holding, InServe
  <2>3. slots = 0
    <3>1. Holders = {}
      BY <2>1 DEF Holders, Running
    <3> QED
      BY <3>1, FS_EmptySet DEF LifecycleInv, SlotsHeld
  <2>4. ASSUME NEW c \in Conn, conn[c].pc \notin {"none", "rejected"} PROVE conn[c].socket = "closed"
    <3>1. conn[c].pc \in {"none", "accepted", "rejected", "done"} \cup Running
      BY DEF LifecycleInv, TypeOK, ConnState
    <3>2. conn[c].pc = "done"
      BY <2>1, <2>4, <3>1
    <3> QED
      BY <3>2 DEF LifecycleInv, ConnInv
  <2> QED
    BY <2>2, <2>3, <2>4
<1> QED
  BY <1>1, LifecycleInvariant, PTL

(* Once Close has returned, or Shutdown after its context expired, no       *)
(* connection that is served has its socket.                                *)
THEOREM CloseReachesAll == Spec => []NoSurvivor
BY LifecycleInvariant, PTL DEF LifecycleInv

(* The BYE of a shutdown is written with no command unanswered and no       *)
(* Session.Idle running that handleIdle had not given up.                   *)
THEOREM ByeComesLast == Spec => []ShutdownByeIsLast
<1>1. LifecycleInv => ShutdownByeIsLast
  BY DEF LifecycleInv, ConnInv, ShutdownByeIsLast, Idling, Parking
<1> QED
  BY <1>1, LifecycleInvariant, PTL
=============================================================================
