--------------------------- MODULE ConnectionProofs ---------------------------
(***************************************************************************)
(* The inductive invariant of Connection, and that every step keeps it, for *)
(* any mailboxes, any number of pump goroutines, and any bounds on queues   *)
(* and channels; then the theorems that follow from it.                     *)
(***************************************************************************)
EXTENDS Connection, TLAPS

(* A pump that is about to poll has a mailbox to poll, and only one that    *)
(* writes has something to write.                                           *)
PumpInv(r) ==
    /\ r.pc \in {"event", "take", "write"} => r.box \in Box
    /\ r.batch # <<>> => r.pc = "write"

(* The types, with those that TypeOK leaves out. *)
Types ==
    /\ TypeOK
    /\ queue \in [Box -> Seq(Kind)]
    /\ \A p \in Pump : PumpInv(pump[p])

(* The fence of stopNotifyPump: on a working connection no pump runs but    *)
(* the one the connection knows and the one it waits for, and between the   *)
(* wait and the restart there is none.                                      *)
Fence ==
    /\ conn.pc \in {"wait", "swap", "restart"} => conn.pump = NoPump
    /\ conn.wait # NoPump => conn.pc = "wait"
    /\ conn.pc \in {"linger", "done"} => ~Open
    /\ Open => \A p \in Pump : Live(p) => p = conn.pump \/ p = conn.wait
    /\ conn.pump # NoPump => ~pump[conn.pump].stop

(* What the state of the connection says of its session and of its client. *)
Protocol ==
    /\ conn.state = "notauth" =>
        /\ conn.pump = NoPump /\ conn.pc \notin {"wait", "restart"}
        /\ conn.pc \in {"stop", "swap"} => conn.cmd \in {"shutdown", "teardown"}
        /\ ~told.told /\ told.box = NoBox /\ sess.mailbox = NoBox
    /\ conn.state = "selected" /\ conn.pc # "done" =>
        sess.mailbox # NoBox /\ conn.access = told.access
    /\ conn.pc \in {"stop", "wait", "swap"} /\ conn.cmd \in {"CLOSE", "UNSELECT"} =>
        conn.state = "selected"

(* The views of the server, the client and the pump are of one mailbox. *)
View ==
    Open =>
        /\ sess.mailbox = told.box
        /\ \A p \in Pump :
            /\ pump[p].pc \in {"event", "take", "write"} => pump[p].box = sess.mailbox
            /\ pump[p].pc \in {"event", "take"} => sess.watch \in {"selected", "delayed"}

(* A client that was promised notifications is being notified, or the pump  *)
(* comes back before its next command.                                      *)
Watching ==
    told.told =>
        /\ conn.used /\ (conn.events <=> told.watch \in {"selected", "delayed"})
        /\ Open =>
            /\ sess.listens /\ sess.watch = told.watch /\ sess.off
            /\ \A p \in Pump : pump[p].pc # "drop"
            /\ conn.pc \in {"wait", "swap", "restart"} => conn.had
            /\ conn.pc \in {"ready", "stop", "poll", "idle"} =>
                conn.pump # NoPump /\ (Live(conn.pump) \/ Aborts(conn.pump))

(* After the BYE only the deferred calls are left, and no pump. *)
Parting ==
    told.bye =>
        /\ ~Open /\ conn.pump = NoPump /\ \A p \in Pump : ~Live(p)
        /\ \/ conn.pc \in {"linger", "done"}
           \/ conn.pc \in {"stop", "swap"} /\ conn.cmd = "teardown"

Linked == Fence /\ Protocol /\ View /\ Watching /\ Parting

ConnectionInv == Types /\ Linked

(* SessionTracker.poll takes a prefix of the queue: one always exists that  *)
(* ends where the poll has to stop.                                         *)
PollTakesPrefix ==
    \A q \in Seq(Kind), allow \in BOOLEAN : BatchEnd(q, allow) \in 0 .. Len(q)

(* Changing a field of the connection's record within its type keeps the    *)
(* type of the record.                                                      *)
LEMMA ConnUpdates ==
  ASSUME NEW c \in ConnType
  PROVE  /\ \A x \in {"ready", "stop", "wait", "swap", "restart", "poll", "idle", "linger", "done"} :
              [c EXCEPT !.pc = x] \in ConnType
         /\ \A x \in Commands \cup {"", "shutdown", "teardown"} : [c EXCEPT !.cmd = x] \in ConnType
         /\ \A x \in {"notauth", "auth", "selected", "logout"} : [c EXCEPT !.state = x] \in ConnType
         /\ \A x \in Access : [c EXCEPT !.access = x] \in ConnType
         /\ \A x \in BOOLEAN :
              /\ [c EXCEPT !.used = x] \in ConnType /\ [c EXCEPT !.events = x] \in ConnType
              /\ [c EXCEPT !.had = x] \in ConnType
         /\ \A x \in Pump \cup {NoPump} :
              [c EXCEPT !.pump = x] \in ConnType /\ [c EXCEPT !.wait = x] \in ConnType
         /\ \A x \in {"open", "half", "closed"} : [c EXCEPT !.socket = x] \in ConnType
<1>1. ASSUME NEW x \in {"ready", "stop", "wait", "swap", "restart", "poll", "idle", "linger", "done"}
      PROVE  [c EXCEPT !.pc = x] \in ConnType
  BY Zenon DEF ConnType
<1>2. ASSUME NEW x \in Commands \cup {"", "shutdown", "teardown"} PROVE [c EXCEPT !.cmd = x] \in ConnType
  BY Zenon DEF ConnType
<1>3. ASSUME NEW x \in {"notauth", "auth", "selected", "logout"} PROVE [c EXCEPT !.state = x] \in ConnType
  BY Zenon DEF ConnType
<1>4. ASSUME NEW x \in Access PROVE [c EXCEPT !.access = x] \in ConnType
  BY Zenon DEF ConnType
<1>5. ASSUME NEW x \in BOOLEAN
      PROVE  /\ [c EXCEPT !.used = x] \in ConnType /\ [c EXCEPT !.events = x] \in ConnType
             /\ [c EXCEPT !.had = x] \in ConnType
  BY Zenon DEF ConnType
<1>6. ASSUME NEW x \in Pump \cup {NoPump}
      PROVE  [c EXCEPT !.pump = x] \in ConnType /\ [c EXCEPT !.wait = x] \in ConnType
  BY Zenon DEF ConnType
<1>7. ASSUME NEW x \in {"open", "half", "closed"} PROVE [c EXCEPT !.socket = x] \in ConnType
  BY Zenon DEF ConnType
<1> QED BY <1>1, <1>2, <1>3, <1>4, <1>5, <1>6, <1>7, Zenon

(* The same of the session's record. *)
LEMMA SessUpdates ==
  ASSUME NEW s \in SessType
  PROVE  /\ \A x \in Box \cup {NoBox} : [s EXCEPT !.mailbox = x] \in SessType
         /\ \A x \in Watch : [s EXCEPT !.watch = x] \in SessType
         /\ \A x \in BOOLEAN : [s EXCEPT !.listens = x] \in SessType /\ [s EXCEPT !.off = x] \in SessType
         /\ \A x \in Seq(Box) : [s EXCEPT !.chan = x] \in SessType
  BY DEF SessType

(* The same of what the client was told. *)
LEMMA ToldUpdates ==
  ASSUME NEW t \in ToldType
  PROVE  /\ \A x \in Box \cup {NoBox} : [t EXCEPT !.box = x] \in ToldType
         /\ \A x \in Access : [t EXCEPT !.access = x] \in ToldType
         /\ \A x \in Watch : [t EXCEPT !.watch = x] \in ToldType
         /\ \A x \in BOOLEAN :
              /\ [t EXCEPT !.told = x] \in ToldType /\ [t EXCEPT !.bye = x] \in ToldType
              /\ [t EXCEPT !.harm = x] \in ToldType
  BY DEF ToldType

(* The same of the record of a pump goroutine. *)
LEMMA PumpUpdates ==
  ASSUME NEW s \in PumpType
  PROVE  /\ \A x \in {"off", "start", "select", "event", "take", "write", "check", "drop", "sent"} :
              [s EXCEPT !.pc = x] \in PumpType
         /\ \A x \in BOOLEAN :
              /\ [s EXCEPT !.stop = x] \in PumpType /\ [s EXCEPT !.allow = x] \in PumpType
              /\ [s EXCEPT !.err = x] \in PumpType
         /\ \A x \in Box \cup {NoBox} : [s EXCEPT !.box = x] \in PumpType
         /\ \A x \in Watch : [s EXCEPT !.mode = x] \in PumpType
         /\ \A x \in Seq(Kind) : [s EXCEPT !.batch = x] \in PumpType
  BY Zenon DEF PumpType

(* What the backend grants a SELECT is one of the accesses there are. *)
LEMMA Granted == \A x \in Grants : x \in Access
  BY ConnectionAssumption DEF ConnectionAssumption

(* Every step keeps the type of the connection's record. *)
LEMMA ConnTyped ==
  ASSUME ConnectionInv, Next
  PROVE  conn' \in ConnType
<1>0. /\ conn \in ConnType /\ NoPump \in Pump \cup {NoPump}
      /\ conn.socket \in {"open", "half", "closed"} /\ conn.cmd \in Commands \cup {"", "shutdown", "teardown"}
  BY Zenon DEF ConnectionInv, Types, TypeOK, ConnType
<1>1. ASSUME NEW cmd \in Command, Begin(cmd) PROVE conn' \in ConnType
  BY <1>0, <1>1, ConnUpdates, ConnectionAssumption, Zenon DEF Begin, ConnectionAssumption
<1>2. ASSUME Login PROVE conn' \in ConnType
  BY <1>0, <1>2, ConnUpdates, Zenon DEF Login
<1>3. ASSUME Logout PROVE conn' \in ConnType
  BY <1>0, <1>3, ConnUpdates, Zenon DEF Logout
<1>4. ASSUME NEW cmd \in Command, Remove(cmd) PROVE conn' \in ConnType
  BY <1>0, <1>4, ConnUpdates, ConnectionAssumption, Zenon DEF Remove, ConnectionAssumption
<1>5. ASSUME IdleEnd PROVE conn' \in ConnType
  BY <1>0, <1>5, ConnUpdates, Zenon DEF IdleEnd
<1>6. ASSUME HangUp PROVE conn' \in ConnType
  BY <1>0, <1>6, ConnUpdates, Zenon DEF HangUp
<1>7. ASSUME Shutdown PROVE conn' \in ConnType
  BY <1>0, <1>7, ConnUpdates, Zenon DEF Shutdown
<1>8. ASSUME PumpGone PROVE conn' \in ConnType
  BY <1>0, <1>8, ConnUpdates, Zenon DEF PumpGone
<1>9. ASSUME StopExpires PROVE conn' \in ConnType
  BY <1>0, <1>9, ConnUpdates, Zenon DEF StopExpires
<1>10. ASSUME SwapFails PROVE conn' \in ConnType
  BY <1>0, <1>10, ConnUpdates, Zenon DEF SwapFails
<1>11. ASSUME Teardown PROVE conn' \in ConnType
  BY <1>0, <1>11, ConnUpdates, Zenon DEF Teardown
<1>12. ASSUME CloseSession PROVE conn' \in ConnType
  BY <1>0, <1>12, ConnUpdates, Zenon DEF CloseSession
<1>13. ASSUME Unauthenticate PROVE conn' \in ConnType
  BY <1>0, <1>13, ConnUpdates, Zenon DEF Unauthenticate
<1>14. ASSUME StopPump PROVE conn' \in ConnType
  <2>1. CASE conn.pump = NoPump
    BY <1>0, <1>14, <2>1, ConnUpdates, Zenon DEF StopPump
  <2>2. CASE conn.pump # NoPump
    <3>1. conn' = [conn EXCEPT !.pc = "wait", !.had = TRUE, !.wait = conn.pump, !.pump = NoPump]
      BY <1>14, <2>2 DEF StopPump
    <3>2. conn.pump \in Pump \cup {NoPump}
      BY <1>0, Zenon DEF ConnType
    <3> QED BY <1>0, <3>1, <3>2, ConnUpdates, Zenon
  <2> QED BY <2>1, <2>2
<1>15. ASSUME SelectFails PROVE conn' \in ConnType
  BY <1>0, <1>15, ConnUpdates, Zenon DEF SelectFails, Unselected, Access
<1>16. ASSUME Unselect PROVE conn' \in ConnType
  BY <1>0, <1>16, ConnUpdates, Zenon DEF Unselect, Unselected, Access
<1>17. ASSUME NEW b \in Box, NEW access \in Access, SelectOpens(b, access) PROVE conn' \in ConnType
  BY <1>0, <1>17, ConnUpdates, Zenon DEF SelectOpens, Access
<1>18. ASSUME NEW w \in Watch, SetNotify(w) PROVE conn' \in ConnType
  <2>1. PICK p \in Pump : conn' = [conn EXCEPT !.pc = "poll", !.pump = p, !.had = FALSE, !.used = TRUE,
                                               !.events = w \in {"selected", "delayed"}]
    BY <1>18, Zenon DEF SetNotify
  <2>2. (w \in {"selected", "delayed"}) \in BOOLEAN
    OBVIOUS
  <2> QED BY <1>0, <2>1, <2>2, ConnUpdates, Zenon
<1>19. ASSUME SetNotifyFails PROVE conn' \in ConnType
  <2>1. PICK p \in Pump : conn' = [conn EXCEPT !.pc = "ready", !.cmd = "",
                                     !.pump = IF conn.had THEN p ELSE NoPump, !.had = FALSE]
    BY <1>19, Zenon DEF SetNotifyFails
  <2> QED BY <1>0, <2>1, ConnUpdates, Zenon
<1>20. ASSUME ShutdownBye PROVE conn' \in ConnType
  <2>1. CASE Open
    BY <1>0, <1>20, <2>1, ConnUpdates, Zenon DEF ShutdownBye
  <2>2. CASE ~Open
    <3>1. conn' = [conn EXCEPT !.pc = "linger", !.socket = conn.socket]
      BY <1>20, <2>2 DEF ShutdownBye
    <3> QED BY <1>0, <3>1, ConnUpdates, Zenon
  <2> QED BY <2>1, <2>2
<1>21. ASSUME Restart PROVE conn' \in ConnType
  <2>1. PICK p \in Pump :
          conn' = [conn EXCEPT !.pump = IF conn.had THEN p ELSE NoPump, !.had = FALSE,
                !.pc = IF conn.cmd \in {"CLOSE", "UNSELECT"} THEN "poll" ELSE "ready",
                !.cmd = IF conn.cmd \in {"CLOSE", "UNSELECT"} THEN conn.cmd ELSE ""]
    BY <1>21, <1>0, Zenon DEF Restart, ConnType
  <2> QED BY <1>0, <2>1, ConnUpdates, Zenon
<1>22. ASSUME CommandPoll PROVE conn' \in ConnType
  BY <1>0, <1>22, ConnUpdates, Zenon DEF CommandPoll, Finished
<1>23. ASSUME NoPoll PROVE conn' \in ConnType
  BY <1>0, <1>23, ConnUpdates, Zenon DEF NoPoll, Finished
<1>24. ASSUME PollBye PROVE conn' \in ConnType
  BY <1>0, <1>24, ConnUpdates, Zenon DEF PollBye
<1>25. ASSUME IdleDeliver PROVE conn' \in ConnType
  BY <1>0, <1>25, Zenon DEF IdleDeliver
<1>26. ASSUME NEW b \in Box, NEW k \in Kind, Change(b, k) PROVE conn' \in ConnType
  BY <1>0, <1>26, Zenon DEF Change
<1>27. ASSUME NEW p \in Pump, PumpOverflow(p) PROVE conn' \in ConnType
  BY <1>0, <1>27, ConnUpdates, Zenon DEF PumpOverflow
<1>28. ASSUME NEW p \in Pump, PumpExit(p) PROVE conn' \in ConnType
  BY <1>0, <1>28, ConnUpdates, Zenon DEF PumpExit
<1>29. ASSUME NEW p \in Pump, PumpStep(p), UNCHANGED conn PROVE conn' \in ConnType
  BY <1>0, <1>29, Zenon
<1>30. ASSUME NEW p \in Pump, PumpStep(p) PROVE conn' \in ConnType
  BY <1>27, <1>28, <1>29, <1>30, Zenon DEF PumpStep, PumpStart, PumpStops, PumpEvent, PumpDecide, PumpTake, PumpWrite, PumpWritten, PumpNoOverflow, PumpDrop, PumpFails
<1> QED BY <1>1, <1>2, <1>3, <1>4, <1>5, <1>6, <1>7, <1>8, <1>9, <1>10, <1>11, <1>12, <1>13, <1>14, <1>15, <1>16, <1>17, <1>18, <1>19, <1>20, <1>21, <1>22, <1>23, <1>24, <1>25, <1>26, <1>30, Granted DEF Next, Client, Swap, Poll

(* notifyRegistry.broadcast keeps the session's type and its channel's      *)
(* capacity, and changes nothing else of the session.                       *)
LEMMA NotifiedTyped ==
  ASSUME NEW s \in SessType, Len(s.chan) <= ChanCap, NEW b \in Box
  PROVE  /\ Notified(s, b) \in SessType /\ Len(Notified(s, b).chan) <= ChanCap
         /\ Notified(s, b).mailbox = s.mailbox
<1>1. ChanCap \in Nat
  BY ConnectionAssumption DEF ConnectionAssumption
<1>2. s.chan \in Seq(Box) /\ Append(s.chan, b) \in Seq(Box) /\ Len(Append(s.chan, b)) = Len(s.chan) + 1
  BY DEF SessType
<1>3. CASE s.listens /\ Len(s.chan) < ChanCap
  <2>1. Notified(s, b) = [s EXCEPT !.chan = Append(s.chan, b)]
    BY <1>3 DEF Notified, SessType
  <2>2. Notified(s, b) \in SessType
    BY <1>2, <2>1, SessUpdates, Zenon
  <2>3. Notified(s, b).chan = Append(s.chan, b) /\ Notified(s, b).mailbox = s.mailbox
    BY <2>1 DEF SessType
  <2>4. Len(s.chan) + 1 <= ChanCap
    BY <1>1, <1>2, <1>3
  <2> QED BY <1>2, <2>2, <2>3, <2>4
<1>4. CASE ~(s.listens /\ Len(s.chan) < ChanCap)
  BY <1>4 DEF Notified
<1> QED BY <1>3, <1>4

(* Every step keeps the type of the session, and its channel within its     *)
(* capacity.                                                                *)
LEMMA SessTyped ==
  ASSUME ConnectionInv, Next
  PROVE  sess' \in SessType /\ Len(sess'.chan) <= ChanCap
<1> DEFINE Goal == sess' \in SessType /\ Len(sess'.chan) <= ChanCap
<1>0. /\ sess \in SessType /\ Len(sess.chan) <= ChanCap /\ sess.chan \in Seq(Box)
      /\ conn \in ConnType /\ Protocol
  BY DEF ConnectionInv, Linked, Types, TypeOK, SessType
<1>1. ChanCap \in Nat /\ NoBox \notin Box
  BY ConnectionAssumption DEF ConnectionAssumption
<1>2. <<>> \in Seq(Box) /\ Len(<<>>) = 0
  OBVIOUS
<1>3. NewSession \in SessType /\ Len(NewSession.chan) = 0
  BY <1>2 DEF NewSession, SessType, Watch
<1>4. ASSUME conn.state = "selected", conn.pc # "done" PROVE sess.mailbox \in Box
  BY <1>0, <1>4 DEF Protocol, SessType
<1>5. ASSUME NEW cmd \in Command, Begin(cmd) PROVE Goal
  <2>1. CASE cmd \in {"STORE", "FETCH"} /\ sess' = Notified(sess, sess.mailbox)
    <3>1. sess.mailbox \in Box
      BY <1>4, <1>5, <2>1 DEF Begin, StateAllows
    <3> QED BY <1>0, <2>1, <3>1, NotifiedTyped
  <2>2. CASE UNCHANGED sess
    BY <1>0, <2>2
  <2> QED BY <1>5, <2>1, <2>2, Zenon DEF Begin
<1>6. ASSUME NEW cmd \in Command \cap {"EXPUNGE", "MOVE"}, Remove(cmd) PROVE Goal
  <2>1. sess.mailbox \in Box
    BY <1>4, <1>6 DEF Remove, StateAllows
  <2> QED BY <1>0, <1>6, <2>1, NotifiedTyped DEF Remove
<1>7. ASSUME Login \/ Unauthenticate \/ CloseSession PROVE Goal
  BY <1>1, <1>3, <1>7 DEF Login, Unauthenticate, CloseSession
<1>8. ASSUME SelectFails PROVE Goal
  BY <1>0, <1>8, SessUpdates DEF SelectFails, SessType
<1>9. ASSUME NEW b \in Box, NEW access \in Access, SelectOpens(b, access) PROVE Goal
  BY <1>0, <1>9, SessUpdates DEF SelectOpens, SessType
<1>10. ASSUME Unselect PROVE Goal
  <2>1. PICK s \in SessType : Len(s.chan) <= ChanCap /\ sess' = [s EXCEPT !.mailbox = NoBox]
    <3>1. CASE ImplicitExpunge(conn)
      <4>1. sess.mailbox \in Box
        BY <1>0, <1>4, <1>10, <3>1 DEF Unselect, ImplicitExpunge, Protocol
      <4>2. Notified(sess, sess.mailbox) \in SessType /\ Len(Notified(sess, sess.mailbox).chan) <= ChanCap
        BY <1>0, <4>1, NotifiedTyped
      <4> QED BY <1>10, <3>1, <4>2 DEF Unselect
    <3>2. CASE ~ImplicitExpunge(conn)
      BY <1>0, <1>10, <3>2, Zenon DEF Unselect
    <3> QED BY <3>1, <3>2
  <2>2. sess' \in SessType
    BY <2>1, SessUpdates
  <2>3. sess'.chan = s.chan
    BY <2>1 DEF SessType
  <2> QED BY <2>1, <2>2, <2>3
<1>11. ASSUME NEW w \in Watch, SetNotify(w) PROVE Goal
  <2>1. sess' = [sess EXCEPT !.watch = w, !.listens = TRUE, !.off = TRUE]
    BY <1>11 DEF SetNotify
  <2>2. sess'.chan = sess.chan
    BY <1>0, <2>1 DEF SessType
  <2> QED BY <1>0, <2>1, <2>2, SessUpdates, Zenon
<1>12. ASSUME NEW p \in Pump, PumpEvent(p) PROVE Goal
  <2>1. sess' = [sess EXCEPT !.chan = Tail(sess.chan)] /\ sess.chan # <<>>
    BY <1>0, <1>12 DEF PumpEvent, SessType
  <2>2. Tail(sess.chan) \in Seq(Box) /\ Len(Tail(sess.chan)) <= Len(sess.chan)
    BY <1>0, <2>1
  <2>3. sess'.chan = Tail(sess.chan)
    BY <1>0, <2>1 DEF SessType
  <2>4. sess' \in SessType
    BY <1>0, <2>1, <2>2, SessUpdates, Zenon
  <2>5. Len(sess.chan) \in Nat /\ Len(Tail(sess.chan)) \in Nat
    BY <1>0, <2>2
  <2> QED BY <1>0, <1>1, <2>2, <2>3, <2>4, <2>5
<1>13. ASSUME NEW p \in Pump, PumpDrop(p) PROVE Goal
  <2>1. sess' = [sess EXCEPT !.watch = "none", !.listens = FALSE, !.chan = <<>>, !.off = FALSE]
    BY <1>13 DEF PumpDrop
  <2>2. sess'.chan = <<>>
    BY <1>0, <2>1 DEF SessType
  <2>3. sess' \in SessType
    BY <1>0, <1>2, <2>1, SessUpdates, Zenon DEF Watch
  <2> QED BY <1>1, <1>2, <2>2, <2>3
<1>14. ASSUME NEW b \in Box, NEW k \in Kind, Change(b, k) PROVE Goal
  BY <1>0, <1>14, NotifiedTyped DEF Change
<1>15. ASSUME UNCHANGED sess PROVE Goal
  BY <1>0, <1>15
<1>16. ASSUME NEW p \in Pump, PumpStep(p) PROVE Goal
  BY <1>12, <1>13, <1>15, <1>16, Zenon
  DEF PumpStep, PumpStart, PumpStops, PumpDecide, PumpTake, PumpWrite, PumpWritten,
      PumpNoOverflow, PumpOverflow, PumpFails, PumpExit
<1>17. ASSUME Swap PROVE Goal
  BY <1>7, <1>8, <1>9, <1>10, <1>11, <1>15, <1>17, Granted, Zenon DEF Swap, SwapFails, SetNotifyFails, ShutdownBye
<1>18. ASSUME Client PROVE Goal
  BY <1>5, <1>6, <1>7, <1>15, <1>18 DEF Client, Logout, IdleEnd, HangUp
<1> HIDE DEF Goal
<1>19. Goal
  BY <1>14, <1>15, <1>16, <1>17, <1>18, Zenon
  DEF Next, Shutdown, StopPump, PumpGone, StopExpires, Restart, Poll, CommandPoll, NoPoll, PollBye,
      IdleDeliver, Teardown
<1> QED BY <1>19 DEF Goal

(* What a command's effect on the mailbox leaves of the client's record. *)
LEMMA HarmedTyped ==
  ASSUME told \in ToldType, NEW cmd
  PROVE  Harmed(cmd) \in ToldType
<1>1. Harmed(cmd) = [told EXCEPT !.harm = told.harm \/ told.access = "ro"
                                          \/ (told.access = "private" /\ cmd \notin {"STORE", "FETCH"})]
  BY DEF Harmed, ToldType
<1>2. (told.harm \/ told.access = "ro" \/ (told.access = "private" /\ cmd \notin {"STORE", "FETCH"})) \in BOOLEAN
  BY DEF ToldType
<1> QED BY <1>1, <1>2, ToldUpdates, Zenon

(* Every step keeps the type of what the client was told. *)
LEMMA ToldTyped ==
  ASSUME ConnectionInv, Next
  PROVE  told' \in ToldType
<1>0. told \in ToldType
  BY DEF ConnectionInv, Types, TypeOK
<1>1. ASSUME NEW cmd, told' = Harmed(cmd) PROVE told' \in ToldType
  BY <1>0, <1>1, HarmedTyped
<1>2. ASSUME UNCHANGED told PROVE told' \in ToldType
  BY <1>0, <1>2
<1>3. ASSUME Client PROVE told' \in ToldType
  BY <1>1, <1>2, <1>3, Zenon DEF Client, Begin, Remove, Login, Logout, IdleEnd, HangUp
<1>4. ASSUME SelectFails PROVE told' \in ToldType
  BY <1>0, <1>4, ToldUpdates DEF SelectFails
<1>5. ASSUME NEW b \in Box, NEW access \in Access, SelectOpens(b, access) PROVE told' \in ToldType
  BY <1>0, <1>5, ToldUpdates, Zenon DEF SelectOpens, Access
<1>6. ASSUME Unselect PROVE told' \in ToldType
  <2>1. PICK t \in ToldType : told' = [t EXCEPT !.box = NoBox]
    BY <1>0, <1>6, HarmedTyped, Zenon DEF Unselect
  <2> QED BY <2>1, ToldUpdates
<1>7. ASSUME Unauthenticate PROVE told' \in ToldType
  BY <1>0, <1>7, ToldUpdates, Zenon DEF Unauthenticate, Watch
<1>8. ASSUME NEW w \in Watch, SetNotify(w) PROVE told' \in ToldType
  BY <1>0, <1>8, ToldUpdates, Zenon DEF SetNotify
<1>9. ASSUME ShutdownBye PROVE told' \in ToldType
  BY <1>0, <1>9, ToldUpdates, Zenon DEF ShutdownBye, Open
<1>10. ASSUME NEW p \in Pump, PumpOverflow(p) PROVE told' \in ToldType
  BY <1>0, <1>10, ToldUpdates, Zenon DEF PumpOverflow, Watch
<1>11. ASSUME NEW p \in Pump, PumpStep(p) PROVE told' \in ToldType
  BY <1>2, <1>10, <1>11, Zenon
  DEF PumpStep, PumpStart, PumpStops, PumpEvent, PumpDecide, PumpTake, PumpWrite, PumpWritten,
      PumpNoOverflow, PumpDrop, PumpFails, PumpExit
<1>12. ASSUME Swap PROVE told' \in ToldType
  BY <1>2, <1>4, <1>5, <1>6, <1>7, <1>8, <1>9, <1>12, Granted, Zenon DEF Swap, SwapFails, SetNotifyFails, CloseSession
<1> QED
  BY <1>2, <1>3, <1>11, <1>12, Zenon
  DEF Next, Shutdown, StopPump, PumpGone, StopExpires, Restart, Poll, CommandPoll, NoPoll, PollBye,
      IdleDeliver, Teardown, Change

(* What is left of a queue after a poll is a queue, and no longer one. *)
LEMMA RestTyped ==
  ASSUME PollTakesPrefix, NEW q \in Seq(Kind), NEW allow \in BOOLEAN
  PROVE  /\ Rest(q, BatchEnd(q, allow)) \in Seq(Kind)
         /\ Len(Rest(q, BatchEnd(q, allow))) <= Len(q)
         /\ SubSeq(q, 1, BatchEnd(q, allow)) \in Seq(Kind)
<1> DEFINE k == BatchEnd(q, allow)
<1>1. k \in 0 .. Len(q) /\ Len(q) \in Nat
  BY DEF PollTakesPrefix
<1> HIDE DEF k
<1>2. SubSeq(q, 1, k) \in Seq(Kind)
  BY <1>1
<1>3. Rest(q, k) \in Seq(Kind) /\ Len(Rest(q, k)) <= Len(q)
  BY <1>1 DEF Rest
<1> QED BY <1>2, <1>3 DEF k

(* Every step keeps the queues, within the bound on their length. *)
LEMMA QueueTyped ==
  ASSUME PollTakesPrefix, ConnectionInv, Next
  PROVE  queue' \in [Box -> Seq(Kind)] /\ \A b \in Box : Len(queue'[b]) <= MaxUpdates
<1> DEFINE Goal == queue' \in [Box -> Seq(Kind)] /\ \A b \in Box : Len(queue'[b]) <= MaxUpdates
<1>0. /\ queue \in [Box -> Seq(Kind)] /\ \A b \in Box : Len(queue[b]) <= MaxUpdates
      /\ sess \in SessType /\ conn \in ConnType /\ Protocol
  BY DEF ConnectionInv, Linked, Types, TypeOK
<1>1. MaxUpdates \in Nat /\ NoBox \notin Box
  BY ConnectionAssumption DEF ConnectionAssumption
<1>2. ASSUME NEW b \in Box, NEW q \in Seq(Kind), Len(q) <= MaxUpdates,
             queue' = [queue EXCEPT ![b] = q]
      PROVE  Goal
  BY <1>0, <1>2
<1>3. ASSUME NEW b \in Box, NEW k \in Kind, Len(queue[b]) < MaxUpdates,
             queue' = [queue EXCEPT ![b] = Append(@, k)]
      PROVE  Goal
  <2>1. queue[b] \in Seq(Kind) /\ Len(queue[b]) \in Nat
    BY <1>0
  <2>2. Append(queue[b], k) \in Seq(Kind) /\ Len(Append(queue[b], k)) = Len(queue[b]) + 1
    BY <2>1
  <2>3. Len(queue[b]) + 1 <= MaxUpdates
    BY <1>1, <1>3, <2>1
  <2>4. queue' = [queue EXCEPT ![b] = Append(queue[b], k)]
    BY <1>3
  <2> QED BY <1>2, <2>2, <2>3, <2>4, Zenon
<1>4. ASSUME NEW b \in Box, NEW allow \in BOOLEAN,
             queue' = [queue EXCEPT ![b] = Rest(queue[b], BatchEnd(queue[b], allow))]
      PROVE  Goal
  <2>1. queue[b] \in Seq(Kind) /\ Len(queue[b]) \in Nat /\ Len(queue[b]) <= MaxUpdates
    BY <1>0
  <2> DEFINE r == Rest(queue[b], BatchEnd(queue[b], allow))
  <2>2. r \in Seq(Kind) /\ Len(r) <= Len(queue[b])
    BY <2>1, RestTyped
  <2>3. queue' = [queue EXCEPT ![b] = r]
    BY <1>4
  <2> HIDE DEF r
  <2>4. Len(r) <= MaxUpdates
    BY <1>1, <2>1, <2>2
  <2> QED BY <1>2, <2>2, <2>3, <2>4, Zenon
<1>5. ASSUME queue' = NoUpdates PROVE Goal
  <2>1. <<>> \in Seq(Kind) /\ Len(<<>>) = 0
    OBVIOUS
  <2> QED BY <1>1, <1>5, <2>1 DEF NoUpdates
<1>6. ASSUME UNCHANGED queue PROVE Goal
  BY <1>0, <1>6
<1>7. ASSUME NEW cmd \in Command \cap {"EXPUNGE", "MOVE"}, Remove(cmd) PROVE Goal
  <2>1. sess.mailbox \in Box
    BY <1>0, <1>1, <1>7 DEF Remove, StateAllows, Protocol, SessType
  <2> QED BY <1>3, <1>7, <2>1, Zenon DEF Remove, Kind
<1>8. ASSUME CommandPoll PROVE Goal
  <2>1. sess.mailbox \in Box /\ AllowExpunge \in BOOLEAN
    BY <1>0, <1>8 DEF CommandPoll, SessType, AllowExpunge
  <2>2. queue' = [queue EXCEPT ![sess.mailbox] =
                    Rest(queue[sess.mailbox], BatchEnd(queue[sess.mailbox], AllowExpunge))]
    BY <1>8 DEF CommandPoll
  <2> QED BY <1>4, <2>1, <2>2, Zenon
<1>9. ASSUME IdleDeliver PROVE Goal
  <2>1. sess.mailbox \in Box /\ <<>> \in Seq(Kind) /\ Len(<<>>) = 0
    BY <1>0, <1>9 DEF IdleDeliver, SessType
  <2>2. queue' = [queue EXCEPT ![sess.mailbox] = <<>>] /\ Len(<<>>) <= MaxUpdates
    BY <1>1, <1>9, <2>1 DEF IdleDeliver
  <2> QED BY <1>2, <2>1, <2>2, Zenon
<1>10. ASSUME NEW p \in Pump, PumpTake(p) PROVE Goal
  <2>1. pump[p].box \in Box /\ pump[p].allow \in BOOLEAN
    BY <1>10 DEF ConnectionInv, Types, TypeOK, PumpInv, PumpType, PumpTake
  <2>2. queue' = [queue EXCEPT ![pump[p].box] =
                    Rest(queue[pump[p].box], BatchEnd(queue[pump[p].box], pump[p].allow))]
    BY <1>10 DEF PumpTake
  <2> QED BY <1>4, <2>1, <2>2, Zenon
<1>11. ASSUME NEW b \in Box, NEW k \in Kind, Change(b, k) PROVE Goal
  BY <1>3, <1>6, <1>11 DEF Change
<1>12. ASSUME Client PROVE Goal
  BY <1>6, <1>7, <1>12, Zenon DEF Client, Begin, Login, Logout, IdleEnd, HangUp
<1>13. ASSUME Swap PROVE Goal
  BY <1>5, <1>6, <1>13, Zenon
  DEF Swap, SelectFails, SelectOpens, Unselect, SwapFails, Unauthenticate, SetNotify, SetNotifyFails,
      ShutdownBye, CloseSession
<1>14. ASSUME NEW p \in Pump, PumpStep(p) PROVE Goal
  BY <1>6, <1>10, <1>14, Zenon
  DEF PumpStep, PumpStart, PumpStops, PumpEvent, PumpDecide, PumpWrite, PumpWritten, PumpNoOverflow,
      PumpOverflow, PumpDrop, PumpFails, PumpExit
<1> HIDE DEF Goal
<1>15. Goal
  BY <1>6, <1>8, <1>9, <1>11, <1>12, <1>13, <1>14, Zenon
  DEF Next, Shutdown, StopPump, PumpGone, StopExpires, Restart, Poll, NoPoll, PollBye, Teardown
<1> QED BY <1>15 DEF Goal

(* Every step keeps the types of the pumps: a step changes one of them, and *)
(* its new record is well-formed.                                           *)
LEMMA PumpTyped ==
  ASSUME PollTakesPrefix, ConnectionInv, Next
  PROVE  pump' \in [Pump -> PumpType] /\ \A p \in Pump : PumpInv(pump'[p])
<1> DEFINE Goal == pump' \in [Pump -> PumpType] /\ \A p \in Pump : PumpInv(pump'[p])
<1>0. /\ pump \in [Pump -> PumpType] /\ \A p \in Pump : PumpInv(pump[p]) /\ pump[p] \in PumpType
      /\ conn \in ConnType /\ sess \in SessType
  BY DEF ConnectionInv, Types, TypeOK
<1>1. ASSUME NEW p \in Pump, NEW r \in PumpType, PumpInv(r), pump' = [pump EXCEPT ![p] = r]
      PROVE  Goal
  BY <1>0, <1>1
<1>2. ASSUME UNCHANGED pump PROVE Goal
  BY <1>0, <1>2
<1>3. <<>> \in Seq(Kind)
  OBVIOUS
<1>4. /\ NewPump \in PumpType /\ NewPump.pc = "off" /\ NewPump.batch = <<>>
  BY <1>3 DEF NewPump, PumpType, Watch
<1>5. ASSUME NEW p \in Pump, pump' = Started(p) PROVE Goal
  <2>1. [NewPump EXCEPT !.pc = "start"] \in PumpType
    BY <1>4, PumpUpdates, Zenon
  <2>2. PumpInv([NewPump EXCEPT !.pc = "start"])
    BY DEF NewPump, PumpInv
  <2> QED BY <1>1, <1>5, <2>1, <2>2, Zenon DEF Started
<1>6. ASSUME NEW p \in Pump, NEW err \in BOOLEAN, pump' = Returned(p, err) PROVE Goal
  <2> DEFINE r == [NewPump EXCEPT !.pc = "sent", !.stop = pump[p].stop, !.err = err]
  <2>1. pump[p].stop \in BOOLEAN
    BY <1>0 DEF PumpType
  <2>2. r \in PumpType
    BY <1>4, <2>1, PumpUpdates, Zenon
  <2>3. PumpInv(r)
    BY DEF NewPump, PumpInv
  <2> QED BY <1>1, <1>6, <2>2, <2>3, Zenon DEF Returned
<1>7. ASSUME StopPump PROVE Goal
  <2>1. CASE conn.pump = NoPump
    BY <1>2, <1>7, <2>1 DEF StopPump
  <2>2. CASE conn.pump # NoPump
    <3>1. PICK p \in Pump : p = conn.pump
      BY <1>0, <2>2, Zenon DEF ConnType
    <3> DEFINE r == [pump[p] EXCEPT !.stop = TRUE]
    <3>2. pump' = [pump EXCEPT ![p] = r]
      BY <1>7, <2>2, <3>1 DEF StopPump
    <3>3. r \in PumpType
      BY <1>0, PumpUpdates, Zenon
    <3>4. PumpInv(r)
      BY <1>0 DEF PumpInv, PumpType
    <3> QED BY <1>1, <3>2, <3>3, <3>4, Zenon
  <2> QED BY <2>1, <2>2
<1>8. ASSUME Restart PROVE Goal
  BY <1>2, <1>5, <1>8 DEF Restart
<1>9. ASSUME NEW w \in Watch, SetNotify(w) PROVE Goal
  BY <1>5, <1>9 DEF SetNotify
<1>10. ASSUME SetNotifyFails PROVE Goal
  BY <1>2, <1>5, <1>10 DEF SetNotifyFails
<1>11. ASSUME NEW p \in Pump, PumpStart(p) PROVE Goal
  <2>1. CASE sess.listens
    <3> DEFINE r == [pump[p] EXCEPT !.pc = "select"]
    <3>1. pump' = [pump EXCEPT ![p] = r]
      BY <1>11, <2>1 DEF PumpStart
    <3>2. r \in PumpType
      BY <1>0, PumpUpdates, Zenon
    <3>3. PumpInv(r)
      BY <1>0, <1>11 DEF PumpInv, PumpType, PumpStart
    <3> QED BY <1>1, <3>1, <3>2, <3>3, Zenon
  <2>2. CASE ~sess.listens
    BY <1>6, <1>11, <2>2, Zenon DEF PumpStart
  <2> QED BY <2>1, <2>2
<1>12. ASSUME NEW p \in Pump, PumpStops(p) PROVE Goal
  BY <1>6, <1>12, Zenon DEF PumpStops
<1>13. ASSUME NEW p \in Pump, PumpEvent(p) PROVE Goal
  <2> DEFINE b == Head(sess.chan)
             mine == b = sess.mailbox /\ sess.watch \in {"selected", "delayed"}
             r == [pump[p] EXCEPT !.pc = IF mine THEN "event" ELSE "check",
                                  !.box = IF mine THEN b ELSE NoBox,
                                  !.mode = IF mine THEN sess.watch ELSE "none"]
  <2>1. sess.chan \in Seq(Box) /\ sess.chan # <<>> /\ sess.watch \in Watch
    BY <1>0, <1>13 DEF SessType, PumpEvent
  <2>2. b \in Box
    BY <2>1
  <2>3. pump' = [pump EXCEPT ![p] = r]
    BY <1>0, <1>13, Zenon DEF PumpEvent, PumpType
  <2>4. r \in PumpType
    BY <1>0, <2>1, <2>2, PumpUpdates, Zenon DEF Watch
  <2>5. PumpInv(r)
    BY <1>0, <1>13, <2>2 DEF PumpInv, PumpType, PumpEvent
  <2> QED BY <1>1, <2>3, <2>4, <2>5, Zenon
<1>14. ASSUME NEW p \in Pump, PumpDecide(p) PROVE Goal
  <2> DEFINE r == [pump[p] EXCEPT !.pc = "take", !.mode = "none", !.allow = PumpAllows(pump[p].mode)]
  <2>1. PumpAllows(pump[p].mode) \in BOOLEAN
    <3>1. CASE pump[p].mode = "selected"
      BY <3>1 DEF PumpAllows
    <3>2. CASE pump[p].mode # "selected"
      BY <3>2 DEF PumpAllows
    <3> QED BY <3>1, <3>2
  <2>2. pump' = [pump EXCEPT ![p] = r]
    BY <1>0, <1>14, Zenon DEF PumpDecide, PumpType
  <2>3. r \in PumpType
    BY <1>0, <2>1, PumpUpdates, Zenon DEF Watch
  <2>4. PumpInv(r)
    BY <1>0, <1>14 DEF PumpInv, PumpType, PumpDecide
  <2> QED BY <1>1, <2>2, <2>3, <2>4, Zenon
<1>15. ASSUME NEW p \in Pump, PumpTake(p) PROVE Goal
  <2> DEFINE t == SubSeq(queue[pump[p].box], 1, BatchEnd(queue[pump[p].box], pump[p].allow))
             r == [pump[p] EXCEPT !.pc = "write", !.allow = FALSE, !.batch = t]
  <2>1. pump[p].box \in Box /\ pump[p].allow \in BOOLEAN
    BY <1>0, <1>15 DEF PumpInv, PumpType, PumpTake
  <2>2. queue[pump[p].box] \in Seq(Kind)
    BY <2>1 DEF ConnectionInv, Types
  <2>3. t \in Seq(Kind)
    BY <2>1, <2>2, RestTyped
  <2>4. pump' = [pump EXCEPT ![p].pc = "write", ![p].allow = FALSE, ![p].batch = t]
    BY <1>15 DEF PumpTake
  <2> HIDE DEF t
  <2>5. pump' = [pump EXCEPT ![p] = r]
    BY <1>0, <2>4, Zenon DEF PumpType
  <2>6. r \in PumpType
    BY <1>0, <2>3, PumpUpdates, Zenon
  <2>7. PumpInv(r)
    BY <1>0, <2>1 DEF PumpInv, PumpType
  <2> QED BY <1>1, <2>5, <2>6, <2>7, Zenon
<1>16. ASSUME NEW p \in Pump, PumpWrite(p) PROVE Goal
  <2> DEFINE r == [pump[p] EXCEPT !.batch = Tail(pump[p].batch)]
  <2>1. pump[p].batch \in Seq(Kind) /\ pump[p].batch # <<>>
    BY <1>0, <1>16 DEF PumpType, PumpWrite
  <2>2. Tail(pump[p].batch) \in Seq(Kind)
    BY <2>1
  <2>3. pump' = [pump EXCEPT ![p] = r]
    BY <1>0, <1>16 DEF PumpWrite, PumpType
  <2>4. r \in PumpType
    BY <1>0, <2>2, PumpUpdates, Zenon
  <2>5. PumpInv(r)
    BY <1>0, <1>16 DEF PumpInv, PumpType, PumpWrite
  <2> QED BY <1>1, <2>3, <2>4, <2>5, Zenon
<1>17. ASSUME NEW p \in Pump, PumpWritten(p) PROVE Goal
  <2> DEFINE r == [NewPump EXCEPT !.pc = "check", !.stop = pump[p].stop]
  <2>1. pump[p].stop \in BOOLEAN
    BY <1>0 DEF PumpType
  <2>2. r \in PumpType
    BY <1>4, <2>1, PumpUpdates, Zenon
  <2>3. PumpInv(r)
    BY DEF NewPump, PumpInv
  <2> QED BY <1>1, <1>17, <2>2, <2>3, Zenon DEF PumpWritten
<1>18. ASSUME NEW p \in Pump, NEW x \in {"select", "drop"}, pump[p].pc = "check",
              pump' = [pump EXCEPT ![p].pc = x]
       PROVE  Goal
  <2> DEFINE r == [pump[p] EXCEPT !.pc = x]
  <2>1. pump' = [pump EXCEPT ![p] = r]
    BY <1>18
  <2>2. r \in PumpType
    BY <1>0, PumpUpdates, Zenon
  <2>3. PumpInv(r)
    BY <1>0, <1>18 DEF PumpInv, PumpType
  <2> QED BY <1>1, <2>1, <2>2, <2>3, Zenon
<1>19. ASSUME NEW p \in Pump, PumpNoOverflow(p) PROVE Goal
  BY <1>18, <1>19, Zenon DEF PumpNoOverflow
<1>20. ASSUME NEW p \in Pump, PumpOverflow(p) PROVE Goal
  BY <1>18, <1>20, Zenon DEF PumpOverflow
<1>21. ASSUME NEW p \in Pump, PumpDrop(p) PROVE Goal
  BY <1>6, <1>21, Zenon DEF PumpDrop
<1>22. ASSUME NEW p \in Pump, PumpFails(p) PROVE Goal
  BY <1>6, <1>22, Zenon DEF PumpFails
<1>23. ASSUME NEW p \in Pump, PumpExit(p) PROVE Goal
  <2>1. PumpInv(NewPump)
    BY DEF NewPump, PumpInv
  <2> QED BY <1>1, <1>4, <1>23, <2>1, Zenon DEF PumpExit
<1> HIDE DEF Goal
<1>24. Goal
  BY <1>2, <1>7, <1>8, <1>9, <1>10, <1>11, <1>12, <1>13, <1>14, <1>15, <1>16, <1>17, <1>19, <1>20,
     <1>21, <1>22, <1>23, Zenon
  DEF Next, Client, Begin, Login, Logout, Remove, IdleEnd, HangUp, Shutdown, PumpGone, StopExpires, Swap,
      SelectFails, SelectOpens, Unselect, SwapFails, Unauthenticate, ShutdownBye, CloseSession, Poll,
      CommandPoll, NoPoll, PollBye, IdleDeliver, Teardown, PumpStep, Change
<1> QED BY <1>24 DEF Goal

(* On a working connection at most one pump is live: the connection's, or   *)
(* the one stopNotifyPump waits for.                                        *)
LEMMA LonePump ==
  ASSUME Fence, conn \in ConnType, Open, NEW p \in Pump, NEW q \in Pump, Live(p), Live(q)
  PROVE  p = q
<1>1. NoPump \notin Pump
  BY ConnectionAssumption DEF ConnectionAssumption
<1> QED BY <1>1, Zenon DEF Fence, ConnType

(* Past the fence of stopNotifyPump a working connection has no live pump. *)
LEMMA NoPumps ==
  ASSUME Fence, conn \in ConnType, Open, conn.pump = NoPump, conn.pc # "wait"
  PROVE  \A q \in Pump : ~Live(q)
<1>1. NoPump \notin Pump
  BY ConnectionAssumption DEF ConnectionAssumption
<1> QED BY <1>1, Zenon DEF Fence, ConnType

(* A command, a lost client or a shutdown keeps the connection, its session *)
(* and its pump together.                                                   *)
LEMMA ClientLinked ==
  ASSUME ConnectionInv, Client \/ Shutdown
  PROVE  Linked'
<1>0. Fence /\ Protocol /\ View /\ Watching /\ Parting
  BY DEF ConnectionInv, Linked
<1>1. conn \in ConnType /\ sess \in SessType /\ told \in ToldType /\ pump \in [Pump -> PumpType]
  BY DEF ConnectionInv, Types, TypeOK
<1>2. NoPump \notin Pump /\ NoBox \notin Box
  BY ConnectionAssumption DEF ConnectionAssumption
<1>3. conn.pump \in Pump \cup {NoPump}
  BY <1>1, Zenon DEF ConnType
<1>4. ASSUME NEW cmd \in Command, Begin(cmd) PROVE Linked'
  <2>1. /\ conn.pc = "ready" /\ conn'.cmd = cmd
        /\ conn'.pc \in {"stop", "poll", "idle"}
        /\ cmd \in {"CLOSE", "UNSELECT"} => conn.state = "selected"
        /\ conn.state = "notauth" => conn'.pc = "poll"
        /\ conn'.state = conn.state /\ conn'.access = conn.access /\ conn'.used = conn.used
        /\ conn'.events = conn.events
        /\ conn'.pump = conn.pump /\ conn'.wait = conn.wait /\ conn'.had = conn.had
        /\ conn'.socket = conn.socket
        /\ sess'.mailbox = sess.mailbox /\ sess'.watch = sess.watch
        /\ sess'.listens = sess.listens /\ sess'.off = sess.off
        /\ told'.box = told.box /\ told'.access = told.access /\ told'.watch = told.watch
        /\ told'.told = told.told /\ told'.bye = told.bye
        /\ UNCHANGED pump
    <3>1. /\ conn.pc = "ready" /\ conn'.cmd = cmd /\ conn'.pc \in {"stop", "poll", "idle"}
          /\ conn'.state = conn.state /\ conn'.access = conn.access /\ conn'.used = conn.used
          /\ conn'.events = conn.events /\ conn'.pump = conn.pump /\ conn'.wait = conn.wait
          /\ conn'.had = conn.had /\ conn'.socket = conn.socket
      BY <1>1, <1>4, Zenon DEF Begin, ConnType
    <3>2. /\ cmd \in {"CLOSE", "UNSELECT"} => conn.state = "selected"
          /\ conn.state = "notauth" => conn'.pc = "poll"
      BY <1>1, <1>4, Zenon DEF Begin, StateAllows, Fenced, ConnType
    <3>3. /\ sess'.mailbox = sess.mailbox /\ sess'.watch = sess.watch
          /\ sess'.listens = sess.listens /\ sess'.off = sess.off
      BY <1>1, <1>4, Zenon DEF Begin, Notified, SessType
    <3>4. /\ told'.box = told.box /\ told'.access = told.access /\ told'.watch = told.watch
          /\ told'.told = told.told /\ told'.bye = told.bye /\ UNCHANGED pump
      BY <1>1, <1>4, Zenon DEF Begin, Harmed, ToldType
    <3> QED BY <3>1, <3>2, <3>3, <3>4
  <2>2. Fence'
    BY <1>0, <1>1, <1>2, <1>3, <2>1 DEF Fence, Open, Live
  <2>3. Protocol'
    BY <1>0, <1>1, <1>2, <1>3, <2>1 DEF Protocol, Fence
  <2>4. View'
    BY <1>0, <1>1, <1>2, <1>3, <2>1 DEF View, Open
  <2>5. Watching'
    BY <1>0, <1>1, <1>2, <1>3, <2>1 DEF Watching, Open, Live, Aborts
  <2>6. Parting'
    BY <1>0, <1>1, <1>2, <1>3, <2>1 DEF Parting, Open, Live
  <2> QED BY <2>2, <2>3, <2>4, <2>5, <2>6 DEF Linked
<1>5. ASSUME Login PROVE Linked'
  <2>1. conn.state = "notauth"
    BY <1>5 DEF Login, StateAllows
  <2>2. Open => \A q \in Pump : ~Live(q)
    BY <1>0, <1>1, <1>5, <2>1, NoPumps DEF Login, Protocol
  <2>3. Fence'
    BY <1>0, <1>1, <1>2, <1>5, <2>2, Zenon DEF Login, NewSession, StateAllows, Fence, ConnType, Open, Live
  <2>4. Protocol'
    BY <1>0, <1>1, <1>2, <1>5, <2>2, Zenon DEF Login, NewSession, StateAllows, Protocol, Fence, ConnType,
        SessType, ToldType, Open
  <2>5. View'
    BY <1>0, <1>1, <1>2, <1>5, <2>2, Zenon DEF Login, NewSession, StateAllows, View, Fence, Protocol,
        ConnType, SessType, ToldType, Open, Live
  <2>6. Watching'
    BY <1>0, <1>1, <1>2, <1>5, <2>2, Zenon DEF Login, NewSession, StateAllows, Watching, Fence, Protocol,
        ConnType, SessType, ToldType, Open, Live, Aborts
  <2>7. Parting'
    BY <1>0, <1>1, <1>2, <1>5, <2>2, Zenon DEF Login, NewSession, StateAllows, Parting, Fence, Protocol,
        Watching, ConnType, ToldType, Open, Live
  <2> QED BY <2>3, <2>4, <2>5, <2>6, <2>7 DEF Linked
<1>6. ASSUME Logout PROVE Linked'
  <2>1. Fence'
    BY <1>0, <1>1, <1>2, <1>6, Zenon DEF Logout, Fence, ConnType, Open, Live
  <2>2. Protocol'
    BY <1>0, <1>1, <1>2, <1>6, Zenon DEF Logout, Protocol, Fence, ConnType, SessType, ToldType, Open
  <2>3. View'
    BY <1>0, <1>1, <1>2, <1>6, Zenon DEF Logout, View, Fence, Protocol, ConnType, SessType, ToldType, Open,
        Live
  <2>4. Watching'
    BY <1>0, <1>1, <1>2, <1>6, Zenon DEF Logout, Watching, Fence, Protocol, ConnType, SessType, ToldType,
        Open, Live, Aborts
  <2>5. Parting'
    BY <1>0, <1>1, <1>2, <1>6, Zenon DEF Logout, Parting, Fence, Protocol, Watching, ConnType, ToldType,
        Open, Live
  <2> QED BY <2>1, <2>2, <2>3, <2>4, <2>5 DEF Linked
<1>7. ASSUME NEW cmd \in Command \cap {"EXPUNGE", "MOVE"}, Remove(cmd) PROVE Linked'
  <2>1. Fence'
    BY <1>0, <1>1, <1>2, <1>7, Zenon DEF Remove, Harmed, Notified, StateAllows, Fence, ConnType, Open, Live
  <2>2. Protocol'
    BY <1>0, <1>1, <1>2, <1>7, Zenon DEF Remove, Harmed, Notified, StateAllows, Protocol, Fence, ConnType,
        SessType, ToldType, Open
  <2>3. View'
    BY <1>0, <1>1, <1>2, <1>7, Zenon DEF Remove, Harmed, Notified, StateAllows, View, Fence, Protocol,
        ConnType, SessType, ToldType, Open, Live
  <2>4. Watching'
    BY <1>0, <1>1, <1>2, <1>7, Zenon DEF Remove, Harmed, Notified, StateAllows, Watching, Fence, Protocol,
        ConnType, SessType, ToldType, Open, Live, Aborts
  <2>5. Parting'
    BY <1>0, <1>1, <1>2, <1>7, Zenon DEF Remove, Harmed, Notified, StateAllows, Parting, Fence, Protocol,
        Watching, ConnType, ToldType, Open, Live
  <2> QED BY <2>1, <2>2, <2>3, <2>4, <2>5 DEF Linked
<1>8. ASSUME IdleEnd PROVE Linked'
  <2>1. Fence'
    BY <1>0, <1>1, <1>2, <1>8, Zenon DEF IdleEnd, Fence, ConnType, Open, Live
  <2>2. Protocol'
    BY <1>0, <1>1, <1>2, <1>8, Zenon DEF IdleEnd, Protocol, Fence, ConnType, SessType, ToldType, Open
  <2>3. View'
    BY <1>0, <1>1, <1>2, <1>8, Zenon DEF IdleEnd, View, Fence, Protocol, ConnType, SessType, ToldType,
        Open, Live
  <2>4. Watching'
    BY <1>0, <1>1, <1>2, <1>8, Zenon DEF IdleEnd, Watching, Fence, Protocol, ConnType, SessType, ToldType,
        Open, Live, Aborts
  <2>5. Parting'
    BY <1>0, <1>1, <1>2, <1>8, Zenon DEF IdleEnd, Parting, Fence, Protocol, Watching, ConnType, ToldType,
        Open, Live
  <2> QED BY <2>1, <2>2, <2>3, <2>4, <2>5 DEF Linked
<1>9. ASSUME HangUp PROVE Linked'
  <2>1. Fence'
    BY <1>0, <1>1, <1>2, <1>9, Zenon DEF HangUp, Fence, ConnType, Open, Live
  <2>2. Protocol'
    BY <1>0, <1>1, <1>2, <1>9, Zenon DEF HangUp, Protocol, Fence, ConnType, SessType, ToldType, Open
  <2>3. View'
    BY <1>0, <1>1, <1>2, <1>9, Zenon DEF HangUp, View, Fence, Protocol, ConnType, SessType, ToldType, Open,
        Live
  <2>4. Watching'
    BY <1>0, <1>1, <1>2, <1>9, Zenon DEF HangUp, Watching, Fence, Protocol, ConnType, SessType, ToldType,
        Open, Live, Aborts
  <2>5. Parting'
    BY <1>0, <1>1, <1>2, <1>9, Zenon DEF HangUp, Parting, Fence, Protocol, Watching, ConnType, ToldType,
        Open, Live
  <2> QED BY <2>1, <2>2, <2>3, <2>4, <2>5 DEF Linked
<1>10. ASSUME Shutdown PROVE Linked'
  <2>1. Fence'
    BY <1>0, <1>1, <1>2, <1>10, Zenon DEF Shutdown, Fence, ConnType, Open, Live
  <2>2. Protocol'
    BY <1>0, <1>1, <1>2, <1>10, Zenon DEF Shutdown, Protocol, Fence, ConnType, SessType, ToldType, Open
  <2>3. View'
    BY <1>0, <1>1, <1>2, <1>10, Zenon DEF Shutdown, View, Fence, Protocol, ConnType, SessType, ToldType,
        Open, Live
  <2>4. Watching'
    BY <1>0, <1>1, <1>2, <1>10, Zenon DEF Shutdown, Watching, Fence, Protocol, ConnType, SessType,
        ToldType, Open, Live, Aborts
  <2>5. Parting'
    BY <1>0, <1>1, <1>2, <1>10, Zenon DEF Shutdown, Parting, Fence, Protocol, Watching, ConnType, ToldType,
        Open, Live
  <2> QED BY <2>1, <2>2, <2>3, <2>4, <2>5 DEF Linked
<1> QED
  BY <1>4, <1>5, <1>6, <1>7, <1>8, <1>9, <1>10 DEF Client

(* stopNotifyPump, its wait, and restartNotifyPump. *)
LEMMA FenceLinked ==
  ASSUME ConnectionInv, StopPump \/ PumpGone \/ StopExpires \/ Restart
  PROVE  Linked'
<1>0. Fence /\ Protocol /\ View /\ Watching /\ Parting
  BY DEF ConnectionInv, Linked
<1>1. conn \in ConnType /\ sess \in SessType /\ told \in ToldType /\ pump \in [Pump -> PumpType]
  BY DEF ConnectionInv, Types, TypeOK
<1>2. NoPump \notin Pump /\ NoBox \notin Box
  BY ConnectionAssumption DEF ConnectionAssumption
<1>3. conn.pump \in Pump \cup {NoPump}
  BY <1>1, Zenon DEF ConnType
<1>4. ASSUME StopPump, conn.pump = NoPump PROVE Linked'
  <2>1. /\ conn.pc = "stop" /\ conn.pump = NoPump
        /\ conn' = [conn EXCEPT !.pc = "swap", !.had = FALSE]
        /\ UNCHANGED <<sess, told, pump>>
    BY <1>4 DEF StopPump
  <2>2. Fence'
    BY <1>0, <1>1, <1>2, <1>3, <2>1, Zenon DEF Fence, ConnType, Open, Live
  <2>3. Protocol'
    BY <1>0, <1>1, <1>2, <1>3, <2>1, Zenon DEF Protocol, Fence, ConnType, SessType, ToldType, Open
  <2>4. View'
    BY <1>0, <1>1, <1>2, <1>3, <2>1, Zenon DEF View, Fence, Protocol, ConnType, SessType, ToldType, Open,
        Live
  <2>5. Watching'
    BY <1>0, <1>1, <1>2, <1>3, <2>1, Zenon DEF Watching, Fence, Protocol, ConnType, SessType, ToldType,
        Open, Live, Aborts
  <2>6. Parting'
    BY <1>0, <1>1, <1>2, <1>3, <2>1, Zenon DEF Parting, Fence, Protocol, Watching, ConnType, ToldType,
        Open, Live
  <2> QED BY <2>2, <2>3, <2>4, <2>5, <2>6 DEF Linked
<1>5. ASSUME StopPump, NEW p \in Pump, conn.pump = p PROVE Linked'
  <2>1. /\ conn.pc = "stop" /\ conn.pump = p
        /\ conn'.pc = "wait" /\ conn'.had /\ conn'.wait = p /\ conn'.pump = NoPump
        /\ conn'.cmd = conn.cmd /\ conn'.state = conn.state /\ conn'.access = conn.access
        /\ conn'.used = conn.used /\ conn'.events = conn.events /\ conn'.socket = conn.socket
        /\ pump'[p].stop /\ pump'[p].pc = pump[p].pc /\ pump'[p].box = pump[p].box
        /\ \A q \in Pump : q # p => pump'[q] = pump[q]
        /\ UNCHANGED <<sess, told>>
    <3>1. /\ conn.pc = "stop" /\ UNCHANGED <<sess, told>>
          /\ pump' = [pump EXCEPT ![p].stop = TRUE]
          /\ conn' = [conn EXCEPT !.pc = "wait", !.had = TRUE, !.wait = p, !.pump = NoPump]
      BY <1>2, <1>5 DEF StopPump
    <3>2. /\ pump'[p].stop /\ pump'[p].pc = pump[p].pc /\ pump'[p].box = pump[p].box
          /\ \A q \in Pump : q # p => pump'[q] = pump[q]
      BY <1>1, <3>1 DEF PumpType
    <3> QED BY <1>1, <1>5, <3>1, <3>2, Zenon DEF ConnType
  <2>2. Fence'
    BY <1>0, <1>1, <1>2, <1>3, <2>1 DEF Fence, Open, Live
  <2>3. Protocol'
    BY <1>0, <1>1, <1>2, <1>3, <2>1 DEF Protocol, Fence
  <2>4. View'
    BY <1>0, <1>1, <1>2, <1>3, <2>1 DEF View, Open
  <2>5. Watching'
    BY <1>0, <1>1, <1>2, <1>3, <2>1 DEF Watching, Open, Live, Aborts
  <2>6. Parting'
    BY <1>0, <1>1, <1>2, <1>3, <2>1 DEF Parting, Open, Live
  <2> QED BY <2>2, <2>3, <2>4, <2>5, <2>6 DEF Linked
<1>6. ASSUME PumpGone PROVE Linked'
  <2>1. Fence'
    BY <1>0, <1>1, <1>2, <1>6, Zenon DEF PumpGone, Fence, ConnType, Open, Live
  <2>2. Protocol'
    BY <1>0, <1>1, <1>2, <1>6, Zenon DEF PumpGone, Protocol, Fence, ConnType, SessType, ToldType, Open
  <2>3. View'
    BY <1>0, <1>1, <1>2, <1>6, Zenon DEF PumpGone, View, Fence, Protocol, ConnType, SessType, ToldType,
        Open, Live
  <2>4. Watching'
    BY <1>0, <1>1, <1>2, <1>6, Zenon DEF PumpGone, Watching, Fence, Protocol, ConnType, SessType, ToldType,
        Open, Live, Aborts
  <2>5. Parting'
    BY <1>0, <1>1, <1>2, <1>6, Zenon DEF PumpGone, Parting, Fence, Protocol, Watching, ConnType, ToldType,
        Open, Live
  <2> QED BY <2>1, <2>2, <2>3, <2>4, <2>5 DEF Linked
<1>7. ASSUME StopExpires PROVE Linked'
  <2>1. Fence'
    BY <1>0, <1>1, <1>2, <1>7, Zenon DEF StopExpires, Fence, ConnType, Open, Live
  <2>2. Protocol'
    BY <1>0, <1>1, <1>2, <1>7, Zenon DEF StopExpires, Protocol, Fence, ConnType, SessType, ToldType, Open
  <2>3. View'
    BY <1>0, <1>1, <1>2, <1>7, Zenon DEF StopExpires, View, Fence, Protocol, ConnType, SessType, ToldType,
        Open, Live
  <2>4. Watching'
    BY <1>0, <1>1, <1>2, <1>7, Zenon DEF StopExpires, Watching, Fence, Protocol, ConnType, SessType,
        ToldType, Open, Live, Aborts
  <2>5. Parting'
    BY <1>0, <1>1, <1>2, <1>7, Zenon DEF StopExpires, Parting, Fence, Protocol, Watching, ConnType,
        ToldType, Open, Live
  <2> QED BY <2>1, <2>2, <2>3, <2>4, <2>5 DEF Linked
<1>8. ASSUME Restart, conn.had PROVE Linked'
  <2>1. PICK p \in Pump :
          /\ pump[p].pc = "off" /\ pump' = Started(p)
          /\ conn' = [conn EXCEPT
                !.pump = p, !.had = FALSE,
                !.pc = IF conn.cmd \in {"CLOSE", "UNSELECT"} THEN "poll" ELSE "ready",
                !.cmd = IF conn.cmd \in {"CLOSE", "UNSELECT"} THEN @ ELSE ""]
    BY <1>8, Zenon DEF Restart
  <2>2. /\ conn.pc = "restart" /\ conn.had
        /\ conn'.pump = p /\ ~conn'.had /\ conn'.pc \in {"poll", "ready"}
        /\ conn'.state = conn.state /\ conn'.access = conn.access /\ conn'.used = conn.used
        /\ conn'.events = conn.events /\ conn'.wait = conn.wait /\ conn'.socket = conn.socket
        /\ pump'[p].pc = "start" /\ ~pump'[p].stop
        /\ pump[p].pc = "off"
        /\ \A q \in Pump : q # p => pump'[q] = pump[q]
        /\ UNCHANGED <<sess, told>>
    <3>1. pump'[p].pc = "start" /\ ~pump'[p].stop /\ \A q \in Pump : q # p => pump'[q] = pump[q]
      BY <1>1, <2>1 DEF Started, NewPump, PumpType
    <3> QED BY <1>1, <1>8, <2>1, <3>1, Zenon DEF Restart, ConnType
  <2>3. Open => \A q \in Pump : ~Live(q)
    BY <1>0, <1>1, <2>2, NoPumps DEF Fence
  <2>4. Fence'
    BY <1>0, <1>1, <1>2, <1>3, <2>2, <2>3 DEF Fence, Open, Live
  <2>5. Protocol'
    BY <1>0, <1>1, <1>2, <1>3, <2>2, <2>3 DEF Protocol, Fence
  <2>6. View'
    BY <1>0, <1>1, <1>2, <1>3, <2>2, <2>3 DEF View, Open, Live
  <2>7. Watching'
    BY <1>0, <1>1, <1>2, <1>3, <2>2, <2>3 DEF Watching, Open, Live, Aborts
  <2>8. Parting'
    BY <1>0, <1>1, <1>2, <1>3, <2>2, <2>3 DEF Parting, Open, Live
  <2> QED BY <2>4, <2>5, <2>6, <2>7, <2>8 DEF Linked
<1>9. ASSUME Restart, ~conn.had PROVE Linked'
  <2>1. conn' = [conn EXCEPT
                !.pump = NoPump, !.had = FALSE,
                !.pc = IF conn.cmd \in {"CLOSE", "UNSELECT"} THEN "poll" ELSE "ready",
                !.cmd = IF conn.cmd \in {"CLOSE", "UNSELECT"} THEN @ ELSE ""]
    BY <1>9 DEF Restart
  <2>2. /\ conn.pc = "restart" /\ ~conn.had
        /\ conn'.pump = NoPump /\ ~conn'.had /\ conn'.pc \in {"poll", "ready"}
        /\ conn'.state = conn.state /\ conn'.access = conn.access /\ conn'.used = conn.used
        /\ conn'.events = conn.events /\ conn'.wait = conn.wait /\ conn'.socket = conn.socket
        /\ UNCHANGED <<sess, told, pump>>
    BY <1>1, <1>9, <2>1, Zenon DEF Restart, ConnType
  <2>3. Open => \A q \in Pump : ~Live(q)
    BY <1>0, <1>1, <2>2, NoPumps DEF Fence
  <2>4. Fence'
    BY <1>0, <1>1, <1>2, <1>3, <2>2, <2>3 DEF Fence, Open, Live
  <2>5. Protocol'
    BY <1>0, <1>1, <1>2, <1>3, <2>2, <2>3 DEF Protocol, Fence
  <2>6. View'
    BY <1>0, <1>1, <1>2, <1>3, <2>2, <2>3 DEF View, Open, Live
  <2>7. Watching'
    BY <1>0, <1>1, <1>2, <1>3, <2>2, <2>3 DEF Watching, Open, Live, Aborts
  <2>8. Parting'
    BY <1>0, <1>1, <1>2, <1>3, <2>2, <2>3 DEF Parting, Open, Live
  <2> QED BY <2>4, <2>5, <2>6, <2>7, <2>8 DEF Linked
<1>10. StopPump => conn.pump = NoPump \/ \E p \in Pump : conn.pump = p
  BY <1>3
<1> QED
  BY <1>4, <1>5, <1>6, <1>7, <1>8, <1>9, <1>10

(* What a command does once the pump is gone. *)
LEMMA SwapLinked ==
  ASSUME ConnectionInv, Swap
  PROVE  Linked'
<1>0. Fence /\ Protocol /\ View /\ Watching /\ Parting
  BY DEF ConnectionInv, Linked
<1>1. conn \in ConnType /\ sess \in SessType /\ told \in ToldType /\ pump \in [Pump -> PumpType]
  BY DEF ConnectionInv, Types, TypeOK
<1>2. NoPump \notin Pump /\ NoBox \notin Box
  BY ConnectionAssumption DEF ConnectionAssumption
<1>3. conn.pump \in Pump \cup {NoPump}
  BY <1>1, Zenon DEF ConnType
<1>4. ASSUME SelectFails PROVE Linked'
  <2>1. Open => \A q \in Pump : ~Live(q)
    BY <1>0, <1>1, <1>4, NoPumps DEF SelectFails, Fence
  <2>2. Fence'
    BY <1>0, <1>1, <1>2, <1>4, <2>1, Zenon DEF SelectFails, Unselected, Fence, ConnType, Open, Live
  <2>3. Protocol'
    BY <1>0, <1>1, <1>2, <1>4, <2>1, Zenon DEF SelectFails, Unselected, Protocol, Fence, ConnType,
        SessType, ToldType, Open
  <2>4. View'
    BY <1>0, <1>1, <1>2, <1>4, <2>1, Zenon DEF SelectFails, Unselected, View, Fence, Protocol, ConnType,
        SessType, ToldType, Open, Live
  <2>5. Watching'
    BY <1>0, <1>1, <1>2, <1>4, <2>1, Zenon DEF SelectFails, Unselected, Watching, Fence, Protocol,
        ConnType, SessType, ToldType, Open, Live, Aborts
  <2>6. Parting'
    BY <1>0, <1>1, <1>2, <1>4, <2>1, Zenon DEF SelectFails, Unselected, Parting, Fence, Protocol, Watching,
        ConnType, ToldType, Open, Live
  <2> QED BY <2>2, <2>3, <2>4, <2>5, <2>6 DEF Linked
<1>5. ASSUME NEW b \in Box, NEW access \in Access, SelectOpens(b, access) PROVE Linked'
  <2>1. Open => \A q \in Pump : ~Live(q)
    BY <1>0, <1>1, <1>5, NoPumps DEF SelectOpens, Fence
  <2>2. Fence'
    BY <1>0, <1>1, <1>2, <1>5, <2>1, Zenon DEF SelectOpens, Fence, ConnType, Open, Live
  <2>3. Protocol'
    BY <1>0, <1>1, <1>2, <1>5, <2>1, Zenon DEF SelectOpens, Protocol, Fence, ConnType, SessType, ToldType,
        Open
  <2>4. View'
    BY <1>0, <1>1, <1>2, <1>5, <2>1, Zenon DEF SelectOpens, View, Fence, Protocol, ConnType, SessType,
        ToldType, Open, Live
  <2>5. Watching'
    BY <1>0, <1>1, <1>2, <1>5, <2>1, Zenon DEF SelectOpens, Watching, Fence, Protocol, ConnType, SessType,
        ToldType, Open, Live, Aborts
  <2>6. Parting'
    BY <1>0, <1>1, <1>2, <1>5, <2>1, Zenon DEF SelectOpens, Parting, Fence, Protocol, Watching, ConnType,
        ToldType, Open, Live
  <2> QED BY <2>2, <2>3, <2>4, <2>5, <2>6 DEF Linked
<1>6. ASSUME Unselect PROVE Linked'
  <2>1. Open => \A q \in Pump : ~Live(q)
    BY <1>0, <1>1, <1>6, NoPumps DEF Unselect, Fence
  <2>2. Fence'
    BY <1>0, <1>1, <1>2, <1>6, <2>1, Zenon DEF Unselect, Unselected, Harmed, Notified, ImplicitExpunge,
        Fence, ConnType, Open, Live
  <2>3. Protocol'
    BY <1>0, <1>1, <1>2, <1>6, <2>1, Zenon DEF Unselect, Unselected, Harmed, Notified, ImplicitExpunge,
        Protocol, Fence, ConnType, SessType, ToldType, Open
  <2>4. View'
    BY <1>0, <1>1, <1>2, <1>6, <2>1, Zenon DEF Unselect, Unselected, Harmed, Notified, ImplicitExpunge,
        View, Fence, Protocol, ConnType, SessType, ToldType, Open, Live
  <2>5. Watching'
    BY <1>0, <1>1, <1>2, <1>6, <2>1, Zenon DEF Unselect, Unselected, Harmed, Notified, ImplicitExpunge,
        Watching, Fence, Protocol, ConnType, SessType, ToldType, Open, Live, Aborts
  <2>6. Parting'
    BY <1>0, <1>1, <1>2, <1>6, <2>1, Zenon DEF Unselect, Unselected, Harmed, Notified, ImplicitExpunge,
        Parting, Fence, Protocol, Watching, ConnType, ToldType, Open, Live
  <2> QED BY <2>2, <2>3, <2>4, <2>5, <2>6 DEF Linked
<1>7. ASSUME SwapFails PROVE Linked'
  <2>1. Fence'
    BY <1>0, <1>1, <1>2, <1>7, Zenon DEF SwapFails, Fence, ConnType, Open, Live
  <2>2. Protocol'
    BY <1>0, <1>1, <1>2, <1>7, Zenon DEF SwapFails, Protocol, Fence, ConnType, SessType, ToldType, Open
  <2>3. View'
    BY <1>0, <1>1, <1>2, <1>7, Zenon DEF SwapFails, View, Fence, Protocol, ConnType, SessType, ToldType,
        Open, Live
  <2>4. Watching'
    BY <1>0, <1>1, <1>2, <1>7, Zenon DEF SwapFails, Watching, Fence, Protocol, ConnType, SessType,
        ToldType, Open, Live, Aborts
  <2>5. Parting'
    BY <1>0, <1>1, <1>2, <1>7, Zenon DEF SwapFails, Parting, Fence, Protocol, Watching, ConnType, ToldType,
        Open, Live
  <2> QED BY <2>1, <2>2, <2>3, <2>4, <2>5 DEF Linked
<1>8. ASSUME Unauthenticate PROVE Linked'
  <2>1. Open => \A q \in Pump : ~Live(q)
    BY <1>0, <1>1, <1>8, NoPumps DEF Unauthenticate, Fence
  <2>2. Fence'
    BY <1>0, <1>1, <1>2, <1>8, <2>1, Zenon DEF Unauthenticate, NewSession, Fence, ConnType, Open, Live
  <2>3. Protocol'
    BY <1>0, <1>1, <1>2, <1>8, <2>1, Zenon DEF Unauthenticate, NewSession, Protocol, Fence, ConnType,
        SessType, ToldType, Open
  <2>4. View'
    BY <1>0, <1>1, <1>2, <1>8, <2>1, Zenon DEF Unauthenticate, NewSession, View, Fence, Protocol, ConnType,
        SessType, ToldType, Open, Live
  <2>5. Watching'
    BY <1>0, <1>1, <1>2, <1>8, <2>1, Zenon DEF Unauthenticate, NewSession, Watching, Fence, Protocol,
        ConnType, SessType, ToldType, Open, Live, Aborts
  <2>6. Parting'
    BY <1>0, <1>1, <1>2, <1>8, <2>1, Zenon DEF Unauthenticate, NewSession, Parting, Fence, Protocol,
        Watching, ConnType, ToldType, Open, Live
  <2> QED BY <2>2, <2>3, <2>4, <2>5, <2>6 DEF Linked
<1>9. ASSUME ShutdownBye PROVE Linked'
  <2>1. Open => \A q \in Pump : ~Live(q)
    BY <1>0, <1>1, <1>9, NoPumps DEF ShutdownBye, Fence
  <2>2. Fence'
    BY <1>0, <1>1, <1>2, <1>9, <2>1, Zenon DEF ShutdownBye, Fence, ConnType, Open, Live
  <2>3. Protocol'
    BY <1>0, <1>1, <1>2, <1>9, <2>1, Zenon DEF ShutdownBye, Protocol, Fence, ConnType, SessType, ToldType,
        Open
  <2>4. View'
    BY <1>0, <1>1, <1>2, <1>9, <2>1, Zenon DEF ShutdownBye, View, Fence, Protocol, ConnType, SessType,
        ToldType, Open, Live
  <2>5. Watching'
    BY <1>0, <1>1, <1>2, <1>9, <2>1, Zenon DEF ShutdownBye, Watching, Fence, Protocol, ConnType, SessType,
        ToldType, Open, Live, Aborts
  <2>6. Parting'
    BY <1>0, <1>1, <1>2, <1>9, <2>1, Zenon DEF ShutdownBye, Parting, Fence, Protocol, Watching, ConnType,
        ToldType, Open, Live
  <2> QED BY <2>2, <2>3, <2>4, <2>5, <2>6 DEF Linked
<1>10. ASSUME CloseSession PROVE Linked'
  <2>1. Fence'
    BY <1>0, <1>1, <1>2, <1>10, Zenon DEF CloseSession, NewSession, Fence, ConnType, Open, Live
  <2>2. Protocol'
    BY <1>0, <1>1, <1>2, <1>10, Zenon DEF CloseSession, NewSession, Protocol, Fence, ConnType, SessType,
        ToldType, Open
  <2>3. View'
    BY <1>0, <1>1, <1>2, <1>10, Zenon DEF CloseSession, NewSession, View, Fence, Protocol, ConnType,
        SessType, ToldType, Open, Live
  <2>4. Watching'
    BY <1>0, <1>1, <1>2, <1>10, Zenon DEF CloseSession, NewSession, Watching, Fence, Protocol, ConnType,
        SessType, ToldType, Open, Live, Aborts
  <2>5. Parting'
    BY <1>0, <1>1, <1>2, <1>10, Zenon DEF CloseSession, NewSession, Parting, Fence, Protocol, Watching,
        ConnType, ToldType, Open, Live
  <2> QED BY <2>1, <2>2, <2>3, <2>4, <2>5 DEF Linked
<1>11. ASSUME NEW w \in Watch, SetNotify(w) PROVE Linked'
  <2>1. PICK p \in Pump :
          /\ pump[p].pc = "off" /\ pump' = Started(p)
          /\ conn' = [conn EXCEPT !.pc = "poll", !.pump = p, !.had = FALSE, !.used = TRUE,
                                     !.events = w \in {"selected", "delayed"}]
    BY <1>11, Zenon DEF SetNotify
  <2>2. /\ conn.pc = "swap" /\ conn.cmd = "NOTIFY"
        /\ conn'.pump = p /\ ~conn'.had /\ conn'.pc = "poll" /\ conn'.used
        /\ conn'.events <=> w \in {"selected", "delayed"}
        /\ conn'.state = conn.state /\ conn'.access = conn.access /\ conn'.wait = conn.wait
        /\ conn'.socket = conn.socket
        /\ pump'[p].pc = "start" /\ ~pump'[p].stop
        /\ pump[p].pc = "off"
        /\ \A q \in Pump : q # p => pump'[q] = pump[q]
        /\ sess'.watch = w /\ sess'.listens /\ sess'.off /\ sess'.mailbox = sess.mailbox
        /\ told'.watch = w /\ told'.told
        /\ told'.box = told.box /\ told'.access = told.access /\ told'.bye = told.bye
    <3>1. pump'[p].pc = "start" /\ ~pump'[p].stop /\ \A q \in Pump : q # p => pump'[q] = pump[q]
      BY <1>1, <2>1 DEF Started, NewPump, PumpType
    <3> QED BY <1>1, <1>11, <2>1, <3>1, Zenon DEF SetNotify, ConnType, SessType, ToldType
  <2>3. Open => \A q \in Pump : ~Live(q)
    BY <1>0, <1>1, <2>2, NoPumps DEF Fence
  <2>4. Fence'
    BY <1>0, <1>1, <1>2, <1>3, <2>2, <2>3 DEF Fence, Open, Live
  <2>5. Protocol'
    BY <1>0, <1>1, <1>2, <1>3, <2>2, <2>3 DEF Protocol, Fence
  <2>6. View'
    BY <1>0, <1>1, <1>2, <1>3, <2>2, <2>3 DEF View, Open, Live
  <2>7. Watching'
    BY <1>0, <1>1, <1>2, <1>3, <2>2, <2>3 DEF Watching, Open, Live, Aborts
  <2>8. Parting'
    BY <1>0, <1>1, <1>2, <1>3, <2>2, <2>3 DEF Parting, Open, Live
  <2> QED BY <2>4, <2>5, <2>6, <2>7, <2>8 DEF Linked
<1>12. ASSUME SetNotifyFails, conn.had PROVE Linked'
  <2>1. PICK p \in Pump :
          /\ pump[p].pc = "off" /\ pump' = Started(p)
          /\ conn' = [conn EXCEPT !.pc = "ready", !.cmd = "", !.pump = p, !.had = FALSE]
    BY <1>12, Zenon DEF SetNotifyFails
  <2>2. /\ conn.pc = "swap" /\ conn.had /\ conn.cmd = "NOTIFY"
        /\ conn'.pump = p /\ ~conn'.had /\ conn'.pc = "ready"
        /\ conn'.state = conn.state /\ conn'.access = conn.access /\ conn'.used = conn.used
        /\ conn'.events = conn.events /\ conn'.wait = conn.wait /\ conn'.socket = conn.socket
        /\ pump'[p].pc = "start" /\ ~pump'[p].stop
        /\ pump[p].pc = "off"
        /\ \A q \in Pump : q # p => pump'[q] = pump[q]
        /\ UNCHANGED <<sess, told>>
    <3>1. pump'[p].pc = "start" /\ ~pump'[p].stop /\ \A q \in Pump : q # p => pump'[q] = pump[q]
      BY <1>1, <2>1 DEF Started, NewPump, PumpType
    <3> QED BY <1>1, <1>12, <2>1, <3>1, Zenon DEF SetNotifyFails, ConnType
  <2>3. Open => \A q \in Pump : ~Live(q)
    BY <1>0, <1>1, <2>2, NoPumps DEF Fence
  <2>4. Fence'
    BY <1>0, <1>1, <1>2, <1>3, <2>2, <2>3 DEF Fence, Open, Live
  <2>5. Protocol'
    BY <1>0, <1>1, <1>2, <1>3, <2>2, <2>3 DEF Protocol, Fence
  <2>6. View'
    BY <1>0, <1>1, <1>2, <1>3, <2>2, <2>3 DEF View, Open, Live
  <2>7. Watching'
    BY <1>0, <1>1, <1>2, <1>3, <2>2, <2>3 DEF Watching, Open, Live, Aborts
  <2>8. Parting'
    BY <1>0, <1>1, <1>2, <1>3, <2>2, <2>3 DEF Parting, Open, Live
  <2> QED BY <2>4, <2>5, <2>6, <2>7, <2>8 DEF Linked
<1>13. ASSUME SetNotifyFails, ~conn.had PROVE Linked'
  <2>1. conn' = [conn EXCEPT !.pc = "ready", !.cmd = "", !.pump = NoPump, !.had = FALSE]
    BY <1>13 DEF SetNotifyFails
  <2>2. /\ conn.pc = "swap" /\ ~conn.had /\ conn.cmd = "NOTIFY"
        /\ conn'.pump = NoPump /\ ~conn'.had /\ conn'.pc = "ready"
        /\ conn'.state = conn.state /\ conn'.access = conn.access /\ conn'.used = conn.used
        /\ conn'.events = conn.events /\ conn'.wait = conn.wait /\ conn'.socket = conn.socket
        /\ UNCHANGED <<sess, told, pump>>
    BY <1>1, <1>13, <2>1, Zenon DEF SetNotifyFails, ConnType
  <2>3. Open => \A q \in Pump : ~Live(q)
    BY <1>0, <1>1, <2>2, NoPumps DEF Fence
  <2>4. Fence'
    BY <1>0, <1>1, <1>2, <1>3, <2>2, <2>3 DEF Fence, Open, Live
  <2>5. Protocol'
    BY <1>0, <1>1, <1>2, <1>3, <2>2, <2>3 DEF Protocol, Fence
  <2>6. View'
    BY <1>0, <1>1, <1>2, <1>3, <2>2, <2>3 DEF View, Open, Live
  <2>7. Watching'
    BY <1>0, <1>1, <1>2, <1>3, <2>2, <2>3 DEF Watching, Open, Live, Aborts
  <2>8. Parting'
    BY <1>0, <1>1, <1>2, <1>3, <2>2, <2>3 DEF Parting, Open, Live
  <2> QED BY <2>4, <2>5, <2>6, <2>7, <2>8 DEF Linked
<1> QED
  BY <1>4, <1>5, <1>6, <1>7, <1>8, <1>9, <1>10, <1>11, <1>12, <1>13, Granted DEF Swap

(* The polls, IDLE, the deferred calls and the changes of other sessions. *)
LEMMA PollLinked ==
  ASSUME ConnectionInv, \/ Poll \/ IdleDeliver \/ Teardown
                        \/ \E b \in Box, k \in Kind : Change(b, k)
  PROVE  Linked'
<1>0. Fence /\ Protocol /\ View /\ Watching /\ Parting
  BY DEF ConnectionInv, Linked
<1>1. conn \in ConnType /\ sess \in SessType /\ told \in ToldType /\ pump \in [Pump -> PumpType]
  BY DEF ConnectionInv, Types, TypeOK
<1>2. NoPump \notin Pump /\ NoBox \notin Box
  BY ConnectionAssumption DEF ConnectionAssumption
<1>3. conn.pump \in Pump \cup {NoPump}
  BY <1>1, Zenon DEF ConnType
<1>4. ASSUME CommandPoll PROVE Linked'
  <2>1. Fence'
    BY <1>0, <1>1, <1>2, <1>4, Zenon DEF CommandPoll, Finished, Fence, ConnType, Open, Live
  <2>2. Protocol'
    BY <1>0, <1>1, <1>2, <1>4, Zenon DEF CommandPoll, Finished, Protocol, Fence, ConnType, SessType,
        ToldType, Open
  <2>3. View'
    BY <1>0, <1>1, <1>2, <1>4, Zenon DEF CommandPoll, Finished, View, Fence, Protocol, ConnType, SessType,
        ToldType, Open, Live
  <2>4. Watching'
    BY <1>0, <1>1, <1>2, <1>4, Zenon DEF CommandPoll, Finished, Watching, Fence, Protocol, ConnType,
        SessType, ToldType, Open, Live, Aborts
  <2>5. Parting'
    BY <1>0, <1>1, <1>2, <1>4, Zenon DEF CommandPoll, Finished, Parting, Fence, Protocol, Watching,
        ConnType, ToldType, Open, Live
  <2> QED BY <2>1, <2>2, <2>3, <2>4, <2>5 DEF Linked
<1>5. ASSUME NoPoll PROVE Linked'
  <2>1. Fence'
    BY <1>0, <1>1, <1>2, <1>5, Zenon DEF NoPoll, Finished, Fence, ConnType, Open, Live
  <2>2. Protocol'
    BY <1>0, <1>1, <1>2, <1>5, Zenon DEF NoPoll, Finished, Protocol, Fence, ConnType, SessType, ToldType,
        Open
  <2>3. View'
    BY <1>0, <1>1, <1>2, <1>5, Zenon DEF NoPoll, Finished, View, Fence, Protocol, ConnType, SessType,
        ToldType, Open, Live
  <2>4. Watching'
    BY <1>0, <1>1, <1>2, <1>5, Zenon DEF NoPoll, Finished, Watching, Fence, Protocol, ConnType, SessType,
        ToldType, Open, Live, Aborts
  <2>5. Parting'
    BY <1>0, <1>1, <1>2, <1>5, Zenon DEF NoPoll, Finished, Parting, Fence, Protocol, Watching, ConnType,
        ToldType, Open, Live
  <2> QED BY <2>1, <2>2, <2>3, <2>4, <2>5 DEF Linked
<1>6. ASSUME PollBye PROVE Linked'
  <2>1. Fence'
    BY <1>0, <1>1, <1>2, <1>6, Zenon DEF PollBye, Fence, ConnType, Open, Live
  <2>2. Protocol'
    BY <1>0, <1>1, <1>2, <1>6, Zenon DEF PollBye, Protocol, Fence, ConnType, SessType, ToldType, Open
  <2>3. View'
    BY <1>0, <1>1, <1>2, <1>6, Zenon DEF PollBye, View, Fence, Protocol, ConnType, SessType, ToldType,
        Open, Live
  <2>4. Watching'
    BY <1>0, <1>1, <1>2, <1>6, Zenon DEF PollBye, Watching, Fence, Protocol, ConnType, SessType, ToldType,
        Open, Live, Aborts
  <2>5. Parting'
    BY <1>0, <1>1, <1>2, <1>6, Zenon DEF PollBye, Parting, Fence, Protocol, Watching, ConnType, ToldType,
        Open, Live
  <2> QED BY <2>1, <2>2, <2>3, <2>4, <2>5 DEF Linked
<1>7. ASSUME IdleDeliver PROVE Linked'
  <2>1. Fence'
    BY <1>0, <1>1, <1>2, <1>7, Zenon DEF IdleDeliver, Fence, ConnType, Open, Live
  <2>2. Protocol'
    BY <1>0, <1>1, <1>2, <1>7, Zenon DEF IdleDeliver, Protocol, Fence, ConnType, SessType, ToldType, Open
  <2>3. View'
    BY <1>0, <1>1, <1>2, <1>7, Zenon DEF IdleDeliver, View, Fence, Protocol, ConnType, SessType, ToldType,
        Open, Live
  <2>4. Watching'
    BY <1>0, <1>1, <1>2, <1>7, Zenon DEF IdleDeliver, Watching, Fence, Protocol, ConnType, SessType,
        ToldType, Open, Live, Aborts
  <2>5. Parting'
    BY <1>0, <1>1, <1>2, <1>7, Zenon DEF IdleDeliver, Parting, Fence, Protocol, Watching, ConnType,
        ToldType, Open, Live
  <2> QED BY <2>1, <2>2, <2>3, <2>4, <2>5 DEF Linked
<1>8. ASSUME Teardown PROVE Linked'
  <2>1. Fence'
    BY <1>0, <1>1, <1>2, <1>8, Zenon DEF Teardown, Fence, ConnType, Open, Live
  <2>2. Protocol'
    BY <1>0, <1>1, <1>2, <1>8, Zenon DEF Teardown, Protocol, Fence, ConnType, SessType, ToldType, Open
  <2>3. View'
    BY <1>0, <1>1, <1>2, <1>8, Zenon DEF Teardown, View, Fence, Protocol, ConnType, SessType, ToldType,
        Open, Live
  <2>4. Watching'
    BY <1>0, <1>1, <1>2, <1>8, Zenon DEF Teardown, Watching, Fence, Protocol, ConnType, SessType, ToldType,
        Open, Live, Aborts
  <2>5. Parting'
    BY <1>0, <1>1, <1>2, <1>8, Zenon DEF Teardown, Parting, Fence, Protocol, Watching, ConnType, ToldType,
        Open, Live
  <2> QED BY <2>1, <2>2, <2>3, <2>4, <2>5 DEF Linked
<1>9. ASSUME NEW b \in Box, NEW k \in Kind, Change(b, k) PROVE Linked'
  <2>1. Fence'
    BY <1>0, <1>1, <1>2, <1>9, Zenon DEF Change, Notified, Fence, ConnType, Open, Live
  <2>2. Protocol'
    BY <1>0, <1>1, <1>2, <1>9, Zenon DEF Change, Notified, Protocol, Fence, ConnType, SessType, ToldType,
        Open
  <2>3. View'
    BY <1>0, <1>1, <1>2, <1>9, Zenon DEF Change, Notified, View, Fence, Protocol, ConnType, SessType,
        ToldType, Open, Live
  <2>4. Watching'
    BY <1>0, <1>1, <1>2, <1>9, Zenon DEF Change, Notified, Watching, Fence, Protocol, ConnType, SessType,
        ToldType, Open, Live, Aborts
  <2>5. Parting'
    BY <1>0, <1>1, <1>2, <1>9, Zenon DEF Change, Notified, Parting, Fence, Protocol, Watching, ConnType,
        ToldType, Open, Live
  <2> QED BY <2>1, <2>2, <2>3, <2>4, <2>5 DEF Linked
<1> QED
  BY <1>4, <1>5, <1>6, <1>7, <1>8, <1>9 DEF Poll

(* The goroutine of startNotifyPump. *)
LEMMA PumpLinked ==
  ASSUME ConnectionInv, NEW p \in Pump, PumpStep(p)
  PROVE  Linked'
<1>0. Fence /\ Protocol /\ View /\ Watching /\ Parting
  BY DEF ConnectionInv, Linked
<1>1. conn \in ConnType /\ sess \in SessType /\ told \in ToldType /\ pump \in [Pump -> PumpType]
  BY DEF ConnectionInv, Types, TypeOK
<1>2. NoPump \notin Pump /\ NoBox \notin Box
  BY ConnectionAssumption DEF ConnectionAssumption
<1>3. conn.pump \in Pump \cup {NoPump}
  BY <1>1, Zenon DEF ConnType
<1>4. ASSUME PumpStart(p), sess.listens PROVE Linked'
  <2>1. /\ UNCHANGED <<conn, sess, told>>
        /\ \A q \in Pump : q # p => pump'[q] = pump[q]
        /\ pump[p].pc = "start" /\ pump'[p].pc = "select"
        /\ pump'[p].stop = pump[p].stop
    BY <1>1, <1>4 DEF PumpStart, PumpType
  <2>2. Fence'
    BY <1>0, <1>1, <1>2, <1>3, <2>1, Zenon DEF Fence, Open, Live, ConnType
  <2>3. Protocol'
    BY <1>0, <1>1, <1>2, <1>3, <2>1 DEF Protocol
  <2>4. View'
    BY <1>0, <1>1, <1>2, <1>3, <2>1 DEF View, Open
  <2>5. Watching'
    BY <1>0, <1>1, <1>2, <1>3, <2>1 DEF Watching, Fence, Open, Live, Aborts
  <2>6. Parting'
    BY <1>0, <1>1, <1>2, <1>3, <2>1 DEF Parting, Open, Live
  <2> QED BY <2>2, <2>3, <2>4, <2>5, <2>6 DEF Linked
<1>5. ASSUME PumpStart(p), ~sess.listens PROVE Linked'
  <2>1. /\ UNCHANGED <<conn, sess, told>>
        /\ \A q \in Pump : q # p => pump'[q] = pump[q]
        /\ ~sess.listens
        /\ pump[p].pc = "start" /\ pump'[p].pc = "sent"
        /\ pump'[p].stop = pump[p].stop
    BY <1>1, <1>5 DEF PumpStart, Returned, NewPump, PumpType
  <2>2. Fence'
    BY <1>0, <1>1, <1>2, <1>3, <2>1, Zenon DEF Fence, Open, Live, ConnType
  <2>3. Protocol'
    BY <1>0, <1>1, <1>2, <1>3, <2>1 DEF Protocol
  <2>4. View'
    BY <1>0, <1>1, <1>2, <1>3, <2>1 DEF View, Open
  <2>5. Watching'
    BY <1>0, <1>1, <1>2, <1>3, <2>1 DEF Watching, Fence, Open, Live, Aborts
  <2>6. Parting'
    BY <1>0, <1>1, <1>2, <1>3, <2>1 DEF Parting, Open, Live
  <2> QED BY <2>2, <2>3, <2>4, <2>5, <2>6 DEF Linked
<1>6. ASSUME PumpStops(p) PROVE Linked'
  <2>1. /\ UNCHANGED <<conn, sess, told>>
        /\ \A q \in Pump : q # p => pump'[q] = pump[q]
        /\ pump[p].pc = "select" /\ pump'[p].pc = "sent"
        /\ pump[p].stop \/ ~Open
        /\ pump'[p].stop = pump[p].stop
    BY <1>1, <1>6 DEF PumpStops, Returned, NewPump, PumpType
  <2>2. Fence'
    BY <1>0, <1>1, <1>2, <1>3, <2>1, Zenon DEF Fence, Open, Live, ConnType
  <2>3. Protocol'
    BY <1>0, <1>1, <1>2, <1>3, <2>1 DEF Protocol
  <2>4. View'
    BY <1>0, <1>1, <1>2, <1>3, <2>1 DEF View, Open
  <2>5. Watching'
    BY <1>0, <1>1, <1>2, <1>3, <2>1 DEF Watching, Fence, Open, Live, Aborts
  <2>6. Parting'
    BY <1>0, <1>1, <1>2, <1>3, <2>1 DEF Parting, Open, Live
  <2> QED BY <2>2, <2>3, <2>4, <2>5, <2>6 DEF Linked
<1>7. ASSUME PumpEvent(p) PROVE Linked'
  <2>1. /\ UNCHANGED <<conn, told>>
        /\ sess'.mailbox = sess.mailbox /\ sess'.watch = sess.watch
        /\ sess'.listens = sess.listens /\ sess'.off = sess.off
        /\ \A q \in Pump : q # p => pump'[q] = pump[q]
        /\ \/ pump'[p].pc = "event" /\ pump'[p].box = sess.mailbox /\ sess.watch \in {"selected", "delayed"}
         \/ pump'[p].pc = "check"
        /\ pump[p].pc = "select"
        /\ pump'[p].stop = pump[p].stop
    BY <1>1, <1>7 DEF PumpEvent, SessType, PumpType
  <2>2. Fence'
    BY <1>0, <1>1, <1>2, <1>3, <2>1, Zenon DEF Fence, Open, Live, ConnType
  <2>3. Protocol'
    BY <1>0, <1>1, <1>2, <1>3, <2>1 DEF Protocol
  <2>4. View'
    BY <1>0, <1>1, <1>2, <1>3, <2>1 DEF View, Open
  <2>5. Watching'
    BY <1>0, <1>1, <1>2, <1>3, <2>1 DEF Watching, Fence, Open, Live, Aborts
  <2>6. Parting'
    BY <1>0, <1>1, <1>2, <1>3, <2>1 DEF Parting, Open, Live
  <2> QED BY <2>2, <2>3, <2>4, <2>5, <2>6 DEF Linked
<1>8. ASSUME PumpDecide(p) PROVE Linked'
  <2>1. /\ UNCHANGED <<conn, sess, told>>
        /\ \A q \in Pump : q # p => pump'[q] = pump[q]
        /\ pump[p].pc = "event" /\ pump'[p].pc = "take"
        /\ pump'[p].stop = pump[p].stop /\ pump'[p].box = pump[p].box
    BY <1>1, <1>8 DEF PumpDecide, PumpType
  <2>2. Fence'
    BY <1>0, <1>1, <1>2, <1>3, <2>1, Zenon DEF Fence, Open, Live, ConnType
  <2>3. Protocol'
    BY <1>0, <1>1, <1>2, <1>3, <2>1 DEF Protocol
  <2>4. View'
    BY <1>0, <1>1, <1>2, <1>3, <2>1 DEF View, Open
  <2>5. Watching'
    BY <1>0, <1>1, <1>2, <1>3, <2>1 DEF Watching, Fence, Open, Live, Aborts
  <2>6. Parting'
    BY <1>0, <1>1, <1>2, <1>3, <2>1 DEF Parting, Open, Live
  <2> QED BY <2>2, <2>3, <2>4, <2>5, <2>6 DEF Linked
<1>9. ASSUME PumpTake(p) PROVE Linked'
  <2>1. /\ UNCHANGED <<conn, sess, told>>
        /\ \A q \in Pump : q # p => pump'[q] = pump[q]
        /\ pump[p].pc = "take" /\ pump'[p].pc = "write"
        /\ pump'[p].stop = pump[p].stop /\ pump'[p].box = pump[p].box
    BY <1>1, <1>9 DEF PumpTake, PumpType
  <2>2. Fence'
    BY <1>0, <1>1, <1>2, <1>3, <2>1, Zenon DEF Fence, Open, Live, ConnType
  <2>3. Protocol'
    BY <1>0, <1>1, <1>2, <1>3, <2>1 DEF Protocol
  <2>4. View'
    BY <1>0, <1>1, <1>2, <1>3, <2>1 DEF View, Open
  <2>5. Watching'
    BY <1>0, <1>1, <1>2, <1>3, <2>1 DEF Watching, Fence, Open, Live, Aborts
  <2>6. Parting'
    BY <1>0, <1>1, <1>2, <1>3, <2>1 DEF Parting, Open, Live
  <2> QED BY <2>2, <2>3, <2>4, <2>5, <2>6 DEF Linked
<1>10. ASSUME PumpWrite(p) PROVE Linked'
  <2>1. /\ UNCHANGED <<conn, sess, told>>
        /\ \A q \in Pump : q # p => pump'[q] = pump[q]
        /\ pump'[p].pc = pump[p].pc /\ pump'[p].stop = pump[p].stop
        /\ pump'[p].box = pump[p].box /\ pump'[p].err = pump[p].err
    BY <1>1, <1>10 DEF PumpWrite, PumpType
  <2>2. Fence'
    BY <1>0, <1>1, <1>2, <1>3, <2>1, Zenon DEF Fence, Open, Live, ConnType
  <2>3. Protocol'
    BY <1>0, <1>1, <1>2, <1>3, <2>1 DEF Protocol
  <2>4. View'
    BY <1>0, <1>1, <1>2, <1>3, <2>1 DEF View, Open
  <2>5. Watching'
    BY <1>0, <1>1, <1>2, <1>3, <2>1 DEF Watching, Fence, Open, Live, Aborts
  <2>6. Parting'
    BY <1>0, <1>1, <1>2, <1>3, <2>1 DEF Parting, Open, Live
  <2> QED BY <2>2, <2>3, <2>4, <2>5, <2>6 DEF Linked
<1>11. ASSUME PumpWritten(p) PROVE Linked'
  <2>1. /\ UNCHANGED <<conn, sess, told>>
        /\ \A q \in Pump : q # p => pump'[q] = pump[q]
        /\ pump[p].pc = "write" /\ pump'[p].pc = "check"
        /\ pump'[p].stop = pump[p].stop
    BY <1>1, <1>11 DEF PumpWritten, NewPump, PumpType
  <2>2. Fence'
    BY <1>0, <1>1, <1>2, <1>3, <2>1, Zenon DEF Fence, Open, Live, ConnType
  <2>3. Protocol'
    BY <1>0, <1>1, <1>2, <1>3, <2>1 DEF Protocol
  <2>4. View'
    BY <1>0, <1>1, <1>2, <1>3, <2>1 DEF View, Open
  <2>5. Watching'
    BY <1>0, <1>1, <1>2, <1>3, <2>1 DEF Watching, Fence, Open, Live, Aborts
  <2>6. Parting'
    BY <1>0, <1>1, <1>2, <1>3, <2>1 DEF Parting, Open, Live
  <2> QED BY <2>2, <2>3, <2>4, <2>5, <2>6 DEF Linked
<1>12. ASSUME PumpNoOverflow(p) PROVE Linked'
  <2>1. /\ UNCHANGED <<conn, sess, told>>
        /\ \A q \in Pump : q # p => pump'[q] = pump[q]
        /\ pump[p].pc = "check" /\ pump'[p].pc = "select"
        /\ pump'[p].stop = pump[p].stop
    BY <1>1, <1>12 DEF PumpNoOverflow, PumpType
  <2>2. Fence'
    BY <1>0, <1>1, <1>2, <1>3, <2>1, Zenon DEF Fence, Open, Live, ConnType
  <2>3. Protocol'
    BY <1>0, <1>1, <1>2, <1>3, <2>1 DEF Protocol
  <2>4. View'
    BY <1>0, <1>1, <1>2, <1>3, <2>1 DEF View, Open
  <2>5. Watching'
    BY <1>0, <1>1, <1>2, <1>3, <2>1 DEF Watching, Fence, Open, Live, Aborts
  <2>6. Parting'
    BY <1>0, <1>1, <1>2, <1>3, <2>1 DEF Parting, Open, Live
  <2> QED BY <2>2, <2>3, <2>4, <2>5, <2>6 DEF Linked
<1>13. ASSUME PumpOverflow(p) PROVE Linked'
  <2>1. /\ UNCHANGED sess
        /\ conn' = [conn EXCEPT !.used = FALSE, !.events = FALSE]
        /\ told' = [told EXCEPT !.told = FALSE, !.watch = "none"]
        /\ \A q \in Pump : q # p => pump'[q] = pump[q]
        /\ pump[p].pc = "check" /\ pump'[p].pc = "drop"
        /\ Open
        /\ pump'[p].stop = pump[p].stop
    BY <1>1, <1>13 DEF PumpOverflow, PumpType
  <2>2. Fence'
    BY <1>0, <1>1, <1>2, <1>3, <2>1, Zenon DEF Fence, Open, Live, ConnType
  <2>3. Protocol'
    BY <1>0, <1>1, <1>2, <1>3, <2>1, Zenon DEF Protocol, ConnType, ToldType
  <2>4. View'
    BY <1>0, <1>1, <1>2, <1>3, <2>1 DEF View, Open
  <2>5. Watching'
    BY <1>0, <1>1, <1>2, <1>3, <2>1 DEF Watching, Fence, Open, Live, Aborts
  <2>6. Parting'
    BY <1>0, <1>1, <1>2, <1>3, <2>1 DEF Parting, Open, Live
  <2> QED BY <2>2, <2>3, <2>4, <2>5, <2>6 DEF Linked
<1>14. ASSUME PumpDrop(p) PROVE Linked'
  <2>1. /\ UNCHANGED <<conn, told>>
        /\ sess'.mailbox = sess.mailbox
        /\ \A q \in Pump : q # p => pump'[q] = pump[q]
        /\ pump[p].pc = "drop" /\ pump'[p].pc = "sent"
        /\ pump'[p].stop = pump[p].stop
    BY <1>1, <1>14 DEF PumpDrop, Returned, NewPump, SessType, PumpType
  <2>2. Open => \A q \in Pump : pump[q].pc \notin {"event", "take", "write"}
    BY <1>0, <1>1, <2>1, LonePump DEF Live
  <2>3. Fence'
    BY <1>0, <1>1, <1>2, <1>3, <2>1, <2>2, Zenon DEF Fence, Open, Live, ConnType
  <2>4. Protocol'
    BY <1>0, <1>1, <1>2, <1>3, <2>1, <2>2 DEF Protocol
  <2>5. View'
    BY <1>0, <1>1, <1>2, <1>3, <2>1, <2>2 DEF View, Open
  <2>6. Watching'
    BY <1>0, <1>1, <1>2, <1>3, <2>1, <2>2 DEF Watching, Fence, Open, Live, Aborts
  <2>7. Parting'
    BY <1>0, <1>1, <1>2, <1>3, <2>1, <2>2 DEF Parting, Open, Live
  <2> QED BY <2>3, <2>4, <2>5, <2>6, <2>7 DEF Linked
<1>15. ASSUME PumpFails(p) PROVE Linked'
  <2>1. /\ UNCHANGED <<conn, sess, told>>
        /\ \A q \in Pump : q # p => pump'[q] = pump[q]
        /\ Live(p) /\ pump'[p].pc = "sent" /\ pump'[p].err
        /\ pump'[p].stop = pump[p].stop
    BY <1>1, <1>15 DEF PumpFails, Returned, NewPump, PumpType
  <2>2. Fence'
    BY <1>0, <1>1, <1>2, <1>3, <2>1, Zenon DEF Fence, Open, Live, ConnType
  <2>3. Protocol'
    BY <1>0, <1>1, <1>2, <1>3, <2>1 DEF Protocol
  <2>4. View'
    BY <1>0, <1>1, <1>2, <1>3, <2>1 DEF View, Open
  <2>5. Watching'
    BY <1>0, <1>1, <1>2, <1>3, <2>1 DEF Watching, Fence, Open, Live, Aborts
  <2>6. Parting'
    BY <1>0, <1>1, <1>2, <1>3, <2>1 DEF Parting, Open, Live
  <2> QED BY <2>2, <2>3, <2>4, <2>5, <2>6 DEF Linked
<1>16. ASSUME PumpExit(p), Aborts(p) PROVE Linked'
  <2>1. /\ conn' = [conn EXCEPT !.socket = "closed"]
        /\ UNCHANGED <<sess, told>>
        /\ \A q \in Pump : q # p => pump'[q] = pump[q]
        /\ pump[p].pc = "sent" /\ pump'[p].pc = "off" /\ ~pump'[p].stop
    BY <1>1, <1>16 DEF PumpExit, NewPump, PumpType
  <2>2. Fence'
    BY <1>0, <1>1, <1>2, <1>3, <2>1, Zenon DEF Fence, Open, Live, ConnType
  <2>3. Protocol'
    BY <1>0, <1>1, <1>2, <1>3, <2>1, Zenon DEF Protocol, ConnType, ToldType
  <2>4. View'
    BY <1>0, <1>1, <1>2, <1>3, <2>1 DEF View, Open
  <2>5. Watching'
    BY <1>0, <1>1, <1>2, <1>3, <2>1 DEF Watching, Fence, Open, Live, Aborts
  <2>6. Parting'
    BY <1>0, <1>1, <1>2, <1>3, <2>1 DEF Parting, Open, Live
  <2> QED BY <2>2, <2>3, <2>4, <2>5, <2>6 DEF Linked
<1>17. ASSUME PumpExit(p), ~Aborts(p) PROVE Linked'
  <2>1. /\ UNCHANGED <<conn, sess, told>>
        /\ ~Aborts(p)
        /\ \A q \in Pump : q # p => pump'[q] = pump[q]
        /\ pump[p].pc = "sent" /\ pump'[p].pc = "off" /\ ~pump'[p].stop
    BY <1>1, <1>17 DEF PumpExit, NewPump, PumpType
  <2>2. Fence'
    BY <1>0, <1>1, <1>2, <1>3, <2>1, Zenon DEF Fence, Open, Live, ConnType
  <2>3. Protocol'
    BY <1>0, <1>1, <1>2, <1>3, <2>1, Zenon DEF Protocol, ConnType, ToldType
  <2>4. View'
    BY <1>0, <1>1, <1>2, <1>3, <2>1 DEF View, Open
  <2>5. Watching'
    BY <1>0, <1>1, <1>2, <1>3, <2>1 DEF Watching, Fence, Open, Live, Aborts
  <2>6. Parting'
    BY <1>0, <1>1, <1>2, <1>3, <2>1 DEF Parting, Open, Live
  <2> QED BY <2>2, <2>3, <2>4, <2>5, <2>6 DEF Linked
<1> QED
  BY <1>4, <1>5, <1>6, <1>7, <1>8, <1>9, <1>10, <1>11, <1>12, <1>13, <1>14, <1>15, <1>16, <1>17 DEF
    PumpStep

(* The delivery mutex is free or held by a pump. *)
LEMMA DeliverTyped ==
  ASSUME ConnectionInv, Next
  PROVE  deliver' \in Pump \cup {NoPump}
<1>0. deliver \in Pump \cup {NoPump}
  BY DEF ConnectionInv, Types, TypeOK
<1>1. ASSUME UNCHANGED deliver PROVE deliver' \in Pump \cup {NoPump}
  BY <1>0, <1>1
<1>2. ASSUME NEW p \in Pump, PumpStep(p) PROVE deliver' \in Pump \cup {NoPump}
  BY <1>0, <1>2, Zenon
  DEF PumpStep, PumpStart, PumpStops, PumpEvent, PumpDecide, PumpTake, PumpWrite, PumpWritten,
      PumpNoOverflow, PumpOverflow, PumpDrop, PumpFails, PumpExit, Freed
<1>3. ASSUME Swap PROVE UNCHANGED deliver
  BY <1>3, Zenon
  DEF Swap, SelectFails, SelectOpens, Unselect, SwapFails, Unauthenticate, SetNotify, SetNotifyFails,
      ShutdownBye, CloseSession
<1>4. ASSUME Client PROVE UNCHANGED deliver
  BY <1>4, Zenon DEF Client, Begin, Login, Logout, Remove, IdleEnd, HangUp
<1> QED
  BY <1>1, <1>2, <1>3, <1>4, Zenon
  DEF Next, Shutdown, StopPump, PumpGone, StopExpires, Restart, Poll, CommandPoll, NoPoll, PollBye,
      IdleDeliver, Teardown, Change

(* The invariant holds when serve begins. *)
LEMMA InitInv ==
  ASSUME Init
  PROVE  ConnectionInv
<1>0. NoPump \notin Pump /\ NoBox \notin Box /\ ChanCap \in Nat /\ MaxUpdates \in Nat
  BY ConnectionAssumption DEF ConnectionAssumption
<1>1. <<>> \in Seq(Box) /\ <<>> \in Seq(Kind) /\ Len(<<>>) = 0
  OBVIOUS
<1>2. conn \in ConnType /\ told \in ToldType
  BY Zenon DEF Init, ConnType, ToldType, Access, Watch
<1>3. sess \in SessType /\ Len(sess.chan) = 0
  BY <1>1, Zenon DEF Init, NewSession, SessType, Watch
<1>4. queue \in [Box -> Seq(Kind)] /\ \A b \in Box : Len(queue[b]) = 0
  BY <1>1, Zenon DEF Init, NoUpdates
<1>5. NewPump \in PumpType /\ PumpInv(NewPump)
  BY <1>1 DEF NewPump, PumpType, Watch, PumpInv
<1>6. pump \in [Pump -> PumpType] /\ \A p \in Pump : PumpInv(pump[p])
  BY <1>5, Zenon DEF Init
<1>7. conn.pump = NoPump /\ deliver = NoPump
  BY Zenon DEF Init
<1>8. Types
  BY <1>0, <1>2, <1>3, <1>4, <1>6, <1>7 DEF Types, TypeOK
<1>9. \A p \in Pump : pump[p].pc = "off"
  BY Zenon DEF Init, NewPump
<1>10. Linked
  BY <1>0, <1>9, Zenon DEF Init, NewSession, Linked, Fence, Protocol, View, Watching, Parting, Open, Live
<1> QED BY <1>8, <1>10 DEF ConnectionInv

(* Every step keeps the invariant. *)
LEMMA NextInv ==
  ASSUME PollTakesPrefix, ConnectionInv, [Next]_vars
  PROVE  ConnectionInv'
<1>1. CASE Next
  <2>1. Linked'
    BY <1>1, ClientLinked, FenceLinked, SwapLinked, PollLinked, PumpLinked DEF Next
  <2>2. conn'.pump # NoPump => conn'.pump # conn'.wait
    BY <2>1 DEF Linked, Fence
  <2>3. conn' \in ConnType /\ told' \in ToldType /\ deliver' \in Pump \cup {NoPump}
    BY <1>1, ConnTyped, ToldTyped, DeliverTyped
  <2>4. sess' \in SessType /\ Len(sess'.chan) <= ChanCap
    BY <1>1, SessTyped
  <2>5. queue' \in [Box -> Seq(Kind)] /\ \A b \in Box : Len(queue'[b]) <= MaxUpdates
    BY <1>1, QueueTyped
  <2>6. pump' \in [Pump -> PumpType] /\ \A p \in Pump : PumpInv(pump'[p])
    BY <1>1, PumpTyped
  <2>7. Types'
    BY <2>2, <2>3, <2>4, <2>5, <2>6 DEF Types, TypeOK
  <2> QED BY <2>1, <2>7 DEF ConnectionInv
<1>2. CASE UNCHANGED vars
  BY <1>2, Zenon
  DEF vars, ConnectionInv, Types, TypeOK, Linked, Fence, Protocol, View, Watching, Parting, Open, Live,
      Aborts
<1> QED BY <1>1, <1>2

INSTANCE FiniteSetTheorems

(* A non-empty set of naturals has a least element. *)
LEMMA LeastNatural ==
  ASSUME NEW S \in SUBSET Nat, S # {}
  PROVE  \E k \in S : \A j \in S : k <= j
<1>1. PICK k \in S : \A j \in S : ~ (<<j, k>> \in OpToRel(<, Nat))
  BY WFMin, NatLessThanWellFounded, Zenon
<1>2. ASSUME NEW j \in S, j < k PROVE FALSE
  <2>1. <<j, k>> \in OpToRel(<, Nat)
    BY <1>2 DEF OpToRel
  <2> QED BY <1>1, <2>1, Zenon
<1> QED BY <1>2

(* SessionTracker.poll takes a prefix of the queue: the updates before the  *)
(* first expunge, when it may not report one, or all of them.               *)
LEMMA PollPrefix == PollTakesPrefix
<1> SUFFICES ASSUME NEW q \in Seq(Kind), NEW allow \in BOOLEAN
             PROVE  BatchEnd(q, allow) \in 0 .. Len(q)
  BY DEF PollTakesPrefix
<1> DEFINE Stop == {k \in 0 .. Len(q) : k = Len(q) \/ (~allow /\ q[k + 1] = "expunge")}
<1>0. Len(q) \in Nat
  OBVIOUS
<1>1. Len(q) \in Stop /\ Stop \in SUBSET Nat
  BY <1>0
<1>2. PICK k \in Stop : \A j \in Stop : k <= j
  BY <1>1, LeastNatural, Zenon
<1>3. k \in 0 .. Len(q)
  BY <1>2
<1>4. ASSUME NEW j \in 1 .. k PROVE allow \/ q[j] # "expunge"
  <2>1. j - 1 \in 0 .. Len(q) /\ j - 1 # Len(q) /\ (j - 1) + 1 = j /\ ~(k <= j - 1)
    BY <1>0, <1>3, <1>4
  <2>2. j - 1 \notin Stop
    BY <1>2, <2>1
  <2> QED BY <2>1, <2>2
<1>5. k < Len(q) => ~allow /\ q[k + 1] = "expunge"
  BY <1>0, <1>2, <1>3
<1> HIDE DEF Stop
<1> QED BY <1>3, <1>4, <1>5 DEF BatchEnd

(***************************************************************************)
(* The connection, its session, its pumps and what the client was told fit *)
(* together in every reachable state.                                      *)
(***************************************************************************)
THEOREM ConnectionInvariant == Spec => []ConnectionInv
<1>1. Init => ConnectionInv
  BY InitInv
<1>2. ConnectionInv /\ [Next]_vars => ConnectionInv'
  BY NextInv, PollPrefix
<1> QED BY <1>1, <1>2, PTL DEF Spec

(***************************************************************************)
(* The records, queues and channels of the connection keep their types and *)
(* their bounds.                                                           *)
(***************************************************************************)
THEOREM ConnectionTypes == Spec => []TypeOK
<1>1. ConnectionInv => TypeOK
  BY DEF ConnectionInv, Types
<1> QED BY <1>1, ConnectionInvariant, PTL

(***************************************************************************)
(* stopNotifyPump's fence: on a working connection at most one NotifyPoll  *)
(* runs, however the wait, the commands and the pumps interleave.          *)
(***************************************************************************)
THEOREM OnePumpRuns == Spec => []OnePump
<1>1. ASSUME ConnectionInv PROVE OnePump
  <2> SUFFICES ASSUME Open PROVE Cardinality({p \in Pump : Live(p)}) <= 1
    BY DEF OnePump
  <2> DEFINE S == {p \in Pump : Live(p)}
  <2>1. \A p, q \in S : p = q
    BY <1>1, LonePump DEF ConnectionInv, Linked, Types, TypeOK
  <2>2. CASE S = {}
    BY <2>2, FS_EmptySet
  <2>3. CASE S # {}
    <3>1. PICK p \in S : S = {p}
      BY <2>1, <2>3
    <3>2. Cardinality(S) = 1
      BY <3>1, FS_Singleton, Zenon
    <3> QED BY <3>2
  <2> QED BY <2>2, <2>3
<1> QED BY <1>1, ConnectionInvariant, PTL

(***************************************************************************)
(* No NotifyPoll delivery crosses a SELECT, CLOSE or UNSELECT: what a pump *)
(* is about to write is about the mailbox the client has selected.         *)
(***************************************************************************)
THEOREM DeliveryStaysInView == Spec => []NoCrossDelivery
<1>1. ConnectionInv => NoCrossDelivery
  BY DEF ConnectionInv, Linked, Types, PumpInv, View, NoCrossDelivery
<1> QED BY <1>1, ConnectionInvariant, PTL

(***************************************************************************)
(* A client whose NOTIFY was accepted is being notified between commands:  *)
(* the error paths of handleSelect, handleUnselect and handleNotify bring  *)
(* the pump back, or the connection ends.                                  *)
(***************************************************************************)
THEOREM NotifyStaysOn == Spec => []WatchAlive
<1>1. ConnectionInv => WatchAlive
  BY DEF ConnectionInv, Linked, Watching, WatchAlive
<1> QED BY <1>1, ConnectionInvariant, PTL

(***************************************************************************)
(* After the BYE of a shutdown no pump is left to write on the socket.     *)
(***************************************************************************)
THEOREM QuietAfterBye == Spec => []NoPumpAfterBye
<1>1. ConnectionInv => NoPumpAfterBye
  BY DEF ConnectionInv, Linked, Parting, NoPumpAfterBye
<1> QED BY <1>1, ConnectionInvariant, PTL

(***************************************************************************)
(* NOTIFY without the messages of the selected mailbox freezes the view of *)
(* it: no pump, poll or IDLE takes an update from its queue.               *)
(***************************************************************************)
THEOREM ViewStaysFrozen == Spec => FrozenView
<1> DEFINE Frozen ==
      /\ Open /\ told.told /\ told.watch = "none"
      /\ conn.cmd # "EXPUNGE" /\ told.box # NoBox /\ told'.box = told.box
      /\ conn.pc \notin {"swap", "done"}
      => Len(queue'[told.box]) >= Len(queue[told.box])
<1>1. ConnectionInv /\ [Next]_vars => [Frozen]_vars
  <2> SUFFICES ASSUME ConnectionInv, Next,
                      Open, told.told, told.watch = "none",
                      conn.cmd # "EXPUNGE", told.box # NoBox, conn.pc \notin {"swap", "done"}
               PROVE  Len(queue'[told.box]) >= Len(queue[told.box])
    OBVIOUS
  <2>0. /\ Types /\ View /\ Watching /\ told.box \in Box
        /\ queue \in [Box -> Seq(Kind)] /\ Len(queue[told.box]) \in Nat
    BY DEF ConnectionInv, Linked, Types, TypeOK, ToldType
  <2>1. ASSUME UNCHANGED queue PROVE Len(queue'[told.box]) >= Len(queue[told.box])
    BY <2>0, <2>1
  <2>2. ASSUME NEW b, NEW k \in Kind, queue' = [queue EXCEPT ![b] = Append(@, k)]
        PROVE  Len(queue'[told.box]) >= Len(queue[told.box])
    <3>1. CASE b = told.box
      <4>1. queue'[told.box] = Append(queue[told.box], k)
        BY <2>0, <2>2, <3>1
      <4>2. Len(queue'[told.box]) = Len(queue[told.box]) + 1
        BY <2>0, <4>1
      <4> QED BY <2>0, <4>2
    <3>2. CASE b # told.box
      <4>1. queue'[told.box] = queue[told.box]
        BY <2>0, <2>2, <3>2
      <4> QED BY <2>0, <4>1
    <3> QED BY <3>1, <3>2
  <2>3. ~CommandPoll
    BY <2>0 DEF CommandPoll, PollDelivers, Watching
  <2>4. ~IdleDeliver
    BY <2>0 DEF IdleDeliver, Watching
  <2>5. ASSUME NEW p \in Pump PROVE ~PumpTake(p)
    BY <2>0 DEF PumpTake, View, Watching
  <2>6. ~Swap
    BY Zenon
    DEF Swap, SelectFails, SelectOpens, Unselect, SwapFails, Unauthenticate, SetNotify, SetNotifyFails,
        ShutdownBye, CloseSession
  <2>7. ASSUME NEW cmd \in Command, Remove(cmd) PROVE Len(queue'[told.box]) >= Len(queue[told.box])
    BY <2>2, <2>7, Zenon DEF Remove, Kind
  <2>8. ASSUME NEW b \in Box, NEW k \in Kind, Change(b, k)
        PROVE  Len(queue'[told.box]) >= Len(queue[told.box])
    BY <2>1, <2>2, <2>8, Zenon DEF Change
  <2>9. ASSUME Client PROVE Len(queue'[told.box]) >= Len(queue[told.box])
    BY <2>1, <2>7, <2>9, Zenon DEF Client, Begin, Login, Logout, IdleEnd, HangUp
  <2>10. ASSUME NEW p \in Pump, PumpStep(p) PROVE Len(queue'[told.box]) >= Len(queue[told.box])
    BY <2>1, <2>5, <2>10, Zenon
    DEF PumpStep, PumpStart, PumpStops, PumpEvent, PumpDecide, PumpWrite, PumpWritten,
        PumpNoOverflow, PumpOverflow, PumpDrop, PumpFails, PumpExit
  <2> QED
    BY <2>1, <2>3, <2>4, <2>6, <2>8, <2>9, <2>10, Zenon
    DEF Next, Shutdown, StopPump, PumpGone, StopExpires, Restart, Poll, NoPoll, PollBye, Teardown
<1> QED BY <1>1, ConnectionInvariant, PTL DEF Spec, FrozenView
=============================================================================
