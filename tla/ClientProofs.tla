---------------------------- MODULE ClientProofs ----------------------------
(***************************************************************************)
(* The client's pipeline completes every command once and keeps the right  *)
(* deadline, for any set of goroutines.                                    *)
(***************************************************************************)
EXTENDS Client, TLAPS

(* No command is twice in q. *)
Distinct(q) == \A i, j \in 1..Len(q) : q[i] = q[j] => i = j

(* Pending, or taken by a closeWithError that has still to complete it. *)
Listed(x) == In(x, pending) \/ \E p \in Proc : In(x, doomed[p])

(* Where a caller and the read goroutine can be, and where encMutex is held. *)
CallerAt == {"out", "enc", "flush", "cont", "data", "sasl", "idling", "wait",
             "close", "swap", "doom"}
ReaderAt == {"read", "await", "decode", "close", "swap", "doom", "gone"}
Holding == {"flush", "cont", "data", "sasl", "idling", "close", "swap", "doom"}

(* Which places there are for a caller and for the read goroutine, and what *)
(* a connection that closeWithError has closed looks like.                  *)
Places ==
    /\ \A c \in Caller : pc[c] \in CallerAt /\ cur[c] \in {<<c, 0>>, <<c, 1>>}
    /\ pc[Reader] \in ReaderAt
    /\ pc[Reader] = "decode" => Len(down) > 0
    /\ pc[Reader] \in {"swap", "doom", "gone"} => down = <<>>
    /\ \A p \in Proc : pc[p] \in {"swap", "doom", "gone"} => ~open
    /\ ~open => server.at = "gone"
    /\ server.at = "gone" => up = <<>>
    /\ server.cmd \in Cmd <=> server.at \in {"literal", "idle", "auth"}

(* From beginCommand until its command has left, a caller holds encMutex. *)
Locked == \A c \in Caller : pc[c] \in Holding => encMutex = c

(* A command is on at most one list, once, and it is there for as long as   *)
(* its completion is owed.                                                  *)
Lists ==
    /\ Distinct(pending)
    /\ \A p \in Proc : Distinct(doomed[p])
    /\ \A p \in Proc : pc[p] # "doom" => doomed[p] = <<>>
    /\ \A x \in Cmd, p \in Proc : In(x, doomed[p]) => ~In(x, pending)
    /\ \A x \in Cmd, p, q \in Proc : In(x, doomed[p]) /\ In(x, doomed[q]) => p = q
    /\ \A x \in Cmd : Listed(x) => cmd[x].done = 0
    /\ \A c \in Caller : pc[c] = "enc" => cmd[cur[c]].done = 0 /\ ~Listed(cur[c])

(* A command under way or awaited is completed, or where a tagged response   *)
(* or the teardown will find it.                                             *)
NoCommandForgotten ==
    \A c \in Caller : pc[c] \in Holding \cup {"wait"} => cmd[cur[c]].done = 1 \/ Listed(cur[c])

(* A command's request is queued when its continuation is awaited. *)
CommandFits(x) ==
    /\ In(x, contReqs) <=> cmd[x].cont = "queued"
    /\ cmd[x].cont = "queued" => cmd[x].kind # "plain"
    /\ cmd[x].kind \in Sends[x[1]] \cup {"plain"}

(* Where a caller is, and its command's kind, request and completion. *)
CallerFits(at, kind, cont, done) ==
    /\ at = "enc" /\ kind = "literal" => cont = "none"
    /\ at = "cont" => kind # "plain"
    /\ at = "data" => cont = "done"
    /\ at = "sasl" => kind = "auth" /\ cont = "done"
    /\ at = "idling" => kind = "idle" /\ cont = "done"
    /\ at \in {"flush", "close", "swap", "doom", "wait"} /\ done = 1 => cont # "queued"

(* The commands, their requests and their callers fit together. *)
Requests ==
    /\ Distinct(contReqs)
    /\ \A x \in Cmd : CommandFits(x)
    /\ \A c \in Caller : CallerFits(pc[c], cmd[cur[c]].kind, cmd[cur[c]].cont, cmd[cur[c]].done)

(* The inductive invariant. *)
ClientInv ==
    /\ TypeOK /\ Places /\ Locked /\ CompletedOnce /\ Lists /\ NoCommandForgotten
    /\ DeadlineRight /\ Requests

-----------------------------------------------------------------------------

(* What registering a command adds to a list. *)
LEMMA InAppend ==
  ASSUME NEW q \in Seq(Cmd), NEW x \in Cmd
  PROVE  /\ Append(q, x) \in Seq(Cmd)
         /\ \A y \in Cmd : In(y, Append(q, x)) <=> In(y, q) \/ y = x
         /\ Distinct(q) /\ ~In(x, q) => Distinct(Append(q, x))
         /\ Len(q) > 0 => Head(Append(q, x)) = Head(q)
<1>1. Len(Append(q, x)) = Len(q) + 1 /\ Len(q) \in Nat
  OBVIOUS
<1>2. \A i \in 1..Len(q) : Append(q, x)[i] = q[i]
  OBVIOUS
<1>3. Append(q, x)[Len(q) + 1] = x
  OBVIOUS
<1>4. \A y \in Cmd : In(y, Append(q, x)) <=> In(y, q) \/ y = x
  BY <1>1, <1>2, <1>3 DEF In
<1>5. Distinct(q) /\ ~In(x, q) => Distinct(Append(q, x))
  BY <1>1, <1>2, <1>3 DEF In, Distinct
<1> QED BY <1>4, <1>5

(* What taking the first command off a list leaves. *)
LEMMA InTail ==
  ASSUME NEW q \in Seq(Cmd), Len(q) > 0
  PROVE  /\ Tail(q) \in Seq(Cmd) /\ Head(q) \in Cmd /\ In(Head(q), q)
         /\ \A y \in Cmd : In(y, q) <=> In(y, Tail(q)) \/ y = Head(q)
         /\ Distinct(q) => Distinct(Tail(q)) /\ ~In(Head(q), Tail(q))
<1>1. Len(Tail(q)) = Len(q) - 1 /\ Len(q) \in Nat /\ Tail(q) \in Seq(Cmd)
  OBVIOUS
<1>2. \A i \in 1..Len(q) - 1 : Tail(q)[i] = q[i + 1]
  OBVIOUS
<1>3. Head(q) = q[1] /\ Head(q) \in Cmd
  OBVIOUS
<1>4. In(Head(q), q)
  BY <1>1, <1>3 DEF In
<1>5. ASSUME NEW y \in Cmd
      PROVE  In(y, q) <=> In(y, Tail(q)) \/ y = Head(q)
  <2>1. ASSUME In(y, q), y # Head(q) PROVE In(y, Tail(q))
    <3>1. PICK i \in 1..Len(q) : q[i] = y
      BY <2>1 DEF In
    <3>2. i - 1 \in 1..Len(Tail(q)) /\ Tail(q)[i - 1] = y
      BY <1>1, <1>2, <1>3, <2>1, <3>1
    <3> QED BY <3>2, Zenon DEF In
  <2>2. ASSUME In(y, Tail(q)) PROVE In(y, q)
    BY <1>1, <1>2, <2>2 DEF In
  <2> QED BY <1>4, <2>1, <2>2
<1>6. Distinct(q) => Distinct(Tail(q)) /\ ~In(Head(q), Tail(q))
  BY <1>1, <1>2, <1>3 DEF In, Distinct
<1> QED BY <1>1, <1>3, <1>4, <1>5, <1>6

(* What deletePendingCmdByTag and completeCommand's filter leave of a list *)
(* in which a command has at most one entry.                                *)
LEMMA InWithout ==
  ASSUME NEW q \in Seq(Cmd), NEW x \in Cmd, Distinct(q)
  PROVE  /\ Without(q, x) \in Seq(Cmd)
         /\ \A y \in Cmd : In(y, Without(q, x)) <=> In(y, q) /\ y # x
         /\ Distinct(Without(q, x))
         /\ Len(Without(q, x)) <= Len(q)
         /\ \A y \in Cmd : Len(q) > 0 /\ Head(q) = y /\ y # x
                            => Len(Without(q, x)) > 0 /\ Head(Without(q, x)) = y
<1>1. CASE ~In(x, q)
  <2>1. Without(q, x) = q
    BY <1>1 DEF Without
  <2> QED BY <1>1, <2>1
<1>2. CASE In(x, q)
  <2> DEFINE k == CHOOSE i \in 1..Len(q) : q[i] = x
             r == Without(q, x)
  <2>1. k \in 1..Len(q) /\ q[k] = x
    BY <1>2 DEF In
  <2>2. r = [j \in 1..Len(q) - 1 |-> q[IF j < k THEN j ELSE j + 1]]
    BY <1>2 DEF Without
  <2> HIDE DEF k, r
  <2>3. Len(q) \in Nat /\ Len(q) > 0 /\ Len(q) - 1 \in Nat
    BY <2>1
  <2>4. \A j \in 1..Len(q) - 1 : r[j] = q[IF j < k THEN j ELSE j + 1] /\ r[j] \in Cmd
    BY <2>1, <2>2, <2>3
  <2>5. r \in Seq(Cmd) /\ Len(r) = Len(q) - 1
    BY <2>2, <2>3, <2>4
  <2>6. \A i \in 1..Len(q) : q[i] = x => i = k
    BY <2>1 DEF Distinct
  <2>7. \A j \in 1..Len(r) : r[j] # x
    BY <2>1, <2>3, <2>4, <2>5, <2>6
  <2>8. ASSUME NEW y \in Cmd, In(y, q), y # x PROVE In(y, r)
    <3>1. PICK i \in 1..Len(q) : q[i] = y
      BY <2>8 DEF In
    <3>2. CASE i < k
      <4>1. i \in 1..Len(r) /\ r[i] = y
        BY <2>1, <2>3, <2>4, <2>5, <3>1, <3>2
      <4> QED BY <4>1 DEF In
    <3>3. CASE i > k
      <4>1. i - 1 \in 1..Len(q) - 1 /\ ~(i - 1 < k) /\ (i - 1) + 1 = i
        BY <2>1, <2>3, <3>1, <3>3
      <4>2. i - 1 \in 1..Len(r) /\ r[i - 1] = y
        BY <2>4, <2>5, <3>1, <4>1
      <4> QED BY <4>2 DEF In
    <3> QED BY <2>1, <2>8, <3>1, <3>2, <3>3
  <2>9. ASSUME NEW y \in Cmd, In(y, r) PROVE In(y, q) /\ y # x
    <3>1. PICK i \in 1..Len(r) : r[i] = y
      BY <2>9 DEF In
    <3>2. (IF i < k THEN i ELSE i + 1) \in 1..Len(q)
      BY <2>1, <2>3, <2>5, <3>1
    <3> QED BY <2>4, <2>5, <2>7, <3>1, <3>2 DEF In
  <2>10. Distinct(r)
    <3> SUFFICES ASSUME NEW i \in 1..Len(r), NEW j \in 1..Len(r), r[i] = r[j] PROVE i = j
      BY DEF Distinct
    <3>1. /\ (IF i < k THEN i ELSE i + 1) \in 1..Len(q)
          /\ (IF j < k THEN j ELSE j + 1) \in 1..Len(q)
      BY <2>1, <2>3, <2>5
    <3>2. (IF i < k THEN i ELSE i + 1) = (IF j < k THEN j ELSE j + 1)
      BY <2>4, <2>5, <3>1 DEF Distinct
    <3> QED BY <2>1, <2>3, <2>5, <3>2
  <2>11. ASSUME NEW y \in Cmd, Head(q) = y, y # x PROVE Len(r) > 0 /\ Head(r) = y
    <3>1. k > 1
      BY <2>1, <2>3, <2>11
    <3>2. Len(r) > 0 /\ r[1] = q[1]
      BY <2>1, <2>3, <2>4, <2>5, <3>1
    <3> QED BY <2>3, <2>5, <2>11, <3>2
  <2> QED BY <2>3, <2>5, <2>8, <2>9, <2>10, <2>11 DEF r
<1> QED BY <1>1, <1>2

(* A list that is empty names nobody. *)
LEMMA InEmpty ==
  /\ <<>> \in Seq(Cmd) /\ Distinct(<<>>)
  /\ \A y \in Cmd : ~In(y, <<>>)
BY DEF In, Distinct

(* A command that is written reaches a server that has not hung up. *)
LEMMA Written ==
  ASSUME TypeOK, NEW t \in {"cmd", "literal", "done", "sasl"}, NEW x \in Cmd, Write(t, x)
  PROVE  up' \in Seq(Line) /\ (server.at = "gone" => up' = up)
<1>1. [t |-> t, cmd |-> x] \in Line
  BY DEF Line
<1>2. up \in Seq(Line)
  BY DEF TypeOK
<1>3. Append(up, [t |-> t, cmd |-> x]) \in Seq(Line)
  BY <1>1, <1>2
<1> QED BY <1>2, <1>3 DEF Write

(* The deadline that the pending commands call for depends on their kinds. *)
LEMMA TimeoutKept ==
  ASSUME pending' \in Seq(Cmd),
         \A y \in Cmd : In(y, pending') => cmd'[y].kind = cmd[y].kind
  PROVE  TimeoutFor(pending)' = TimeoutFor(pending')
<1>1. \A i \in 1..Len(pending') : cmd'[pending'[i]].kind = cmd[pending'[i]].kind
  BY DEF In
<1> QED BY <1>1 DEF TimeoutFor

(* A caller that holds encMutex moves on, and releases it or not. *)
LEMMA CallerMoves ==
  ASSUME ClientInv, NEW c \in Caller, NEW l \in CallerAt, pc[c] \in Holding,
         pc' = [pc EXCEPT ![c] = l],
         UNCHANGED <<cur, cmd, pending, contReqs, doomed, deadline, greeted, open, down, server>>,
         up' \in Seq(Line), server.at = "gone" => up' = up, left' \in BOOLEAN,
         encMutex' = encMutex \/ (encMutex' = Unlocked(c) /\ l \notin Holding),
         l \notin {"enc", "swap", "doom"}, pc[c] = "doom" => Len(doomed[c]) = 0,
         l = "cont" => cmd[cur[c]].kind # "plain",
         l = "data" => cmd[cur[c]].cont = "done",
         l = "sasl" => cmd[cur[c]].kind = "auth" /\ cmd[cur[c]].cont = "done",
         l = "idling" => cmd[cur[c]].kind = "idle" /\ cmd[cur[c]].cont = "done",
         l \in {"flush", "close", "wait"} /\ cmd[cur[c]].done = 1 => cmd[cur[c]].cont # "queued"
  PROVE  ClientInv'
<1>0. c # Reader /\ c \in Proc /\ Reader \in Proc /\ encMutex = c /\ NoCaller \notin Caller
  BY ClientAssumption DEF ClientInv, Locked, Proc
<1>1. /\ pc \in [Proc -> CallerAt \cup ReaderAt] /\ pc' \in [Proc -> CallerAt \cup ReaderAt]
      /\ pc'[c] = l /\ \A p \in Proc : p # c => pc'[p] = pc[p]
  BY <1>0 DEF ClientInv, TypeOK, CallerAt, ReaderAt
<1>2. TypeOK'
  BY <1>0, <1>1 DEF ClientInv, TypeOK, CallerAt, ReaderAt, Unlocked
<1>3. Places'
  BY <1>0, <1>1 DEF ClientInv, Places, Proc, CallerAt
<1>4. Locked'
  BY <1>0, <1>1 DEF ClientInv, Locked, Unlocked, Proc
<1>5. CompletedOnce'
  BY DEF ClientInv, CompletedOnce
<1>6. Lists'
  <2>1. \A p \in Proc : pc'[p] # "doom" => doomed[p] = <<>>
    <3>1. doomed[c] = <<>>
      BY <1>0 DEF ClientInv, Lists, TypeOK
    <3> QED BY <1>1, <3>1 DEF ClientInv, Lists
  <2> QED BY <1>0, <1>1, <2>1 DEF ClientInv, Lists, Listed, Proc
<1>7. NoCommandForgotten'
  BY <1>0, <1>1 DEF ClientInv, NoCommandForgotten, Listed, Proc, Holding
<1>8. DeadlineRight'
  BY <1>0, <1>1 DEF ClientInv, DeadlineRight, TimeoutFor
<1>9. Requests'
  BY <1>0, <1>1 DEF ClientInv, Requests, CommandFits, CallerFits, Proc, CallerAt
<1> QED BY <1>2, <1>3, <1>4, <1>5, <1>6, <1>7, <1>8, <1>9 DEF ClientInv

(* The read goroutine moves on. *)
LEMMA ReaderMoves ==
  ASSUME ClientInv, NEW l \in ReaderAt, l \notin {"doom"},
         pc' = [pc EXCEPT ![Reader] = l],
         UNCHANGED <<cur, cmd, encMutex, pending, contReqs, doomed, open, up, server, left>>,
         greeted' \in BOOLEAN, down' \in Seq(Line), deadline' \in {"response", "idle", "reader"},
         pc[Reader] = "doom" => Len(doomed[Reader]) = 0,
         l \in {"swap", "gone"} => ~open /\ down' = <<>>,
         l = "decode" => Len(down') > 0 /\ deadline' = "reader",
         l = "await" => deadline' = TimeoutFor(pending)
  PROVE  ClientInv'
<1>0. Reader \notin Caller /\ Reader \in Proc /\ \A c \in Caller : c \in Proc /\ c # Reader
  BY ClientAssumption DEF Proc
<1>1. /\ pc \in [Proc -> CallerAt \cup ReaderAt] /\ pc' \in [Proc -> CallerAt \cup ReaderAt]
      /\ pc'[Reader] = l /\ \A p \in Proc : p # Reader => pc'[p] = pc[p]
  BY <1>0 DEF ClientInv, TypeOK, CallerAt, ReaderAt
<1>2. TypeOK'
  BY <1>0, <1>1 DEF ClientInv, TypeOK, CallerAt, ReaderAt
<1>3. Places'
  BY <1>0, <1>1 DEF ClientInv, Places, ReaderAt
<1>4. Locked'
  BY <1>0, <1>1 DEF ClientInv, Locked
<1>5. CompletedOnce'
  BY DEF ClientInv, CompletedOnce
<1>6. Lists'
  <2>1. \A p \in Proc : pc'[p] # "doom" => doomed[p] = <<>>
    <3>1. doomed[Reader] = <<>>
      BY <1>0 DEF ClientInv, Lists, TypeOK
    <3> QED BY <1>1, <3>1 DEF ClientInv, Lists
  <2> QED BY <1>0, <1>1, <2>1 DEF ClientInv, Lists, Listed
<1>7. NoCommandForgotten'
  BY <1>0, <1>1 DEF ClientInv, NoCommandForgotten, Listed
<1>8. DeadlineRight'
  BY <1>0, <1>1 DEF ClientInv, DeadlineRight, TimeoutFor
<1>9. Requests'
  BY <1>0, <1>1 DEF ClientInv, Requests, CommandFits, CallerFits
<1> QED BY <1>2, <1>3, <1>4, <1>5, <1>6, <1>7, <1>8, <1>9 DEF ClientInv

(* The server moves on, or what is between it and the client changes. *)
LEMMA ServerMoves ==
  ASSUME ClientInv, UNCHANGED <<pc, cur, cmd, encMutex, pending, contReqs, doomed, deadline,
                                greeted, left>>,
         open' = open \/ open' = FALSE,
         up' \in Seq(Line), down' \in Seq(Line), server' \in ServerType,
         server'.cmd \in Cmd <=> server'.at \in {"literal", "idle", "auth"},
         ~open' => server'.at = "gone", server'.at = "gone" => up' = <<>>,
         down' = down \/ (server.at # "gone" /\ Len(down') > 0)
  PROVE  ClientInv'
<1>1. TypeOK'
  BY Zenon DEF ClientInv, TypeOK
<1>2. Places'
  <2>1. Reader \in Proc /\ Caller \subseteq Proc
    BY DEF Proc
  <2>2. pc[Reader] \in {"swap", "doom", "gone"} => down' = <<>>
    BY <2>1 DEF ClientInv, Places
  <2> QED BY <2>2 DEF ClientInv, Places, TypeOK
<1>3. Locked' /\ CompletedOnce' /\ Lists' /\ NoCommandForgotten' /\ Requests'
  BY DEF ClientInv, Locked, CompletedOnce, Lists, NoCommandForgotten, Listed, Requests, CommandFits, CallerFits
<1>4. DeadlineRight'
  BY DEF ClientInv, DeadlineRight, TimeoutFor
<1> QED BY <1>1, <1>2, <1>3, <1>4 DEF ClientInv

(* What a caller that has a command knows of it. *)
LEMMA CallerKnows ==
  ASSUME ClientInv, NEW c \in Caller
  PROVE  /\ cur[c] \in Cmd /\ cur[c][1] = c
         /\ cmd[cur[c]] \in CmdType /\ cmd[cur[c]].kind \in Kind
         /\ cmd[cur[c]].cont \in {"none", "queued", "done", "cancelled"}
         /\ cmd[cur[c]].done \in {0, 1}
<1>1. cur[c] \in Cmd /\ cur[c][1] = c
  BY DEF ClientInv, TypeOK, Places, Cmd
<1>2. cmd[cur[c]] \in CmdType
  BY <1>1 DEF ClientInv, TypeOK
<1>3. cmd[cur[c]].done <= 1
  BY <1>1 DEF ClientInv, CompletedOnce
<1> QED BY <1>1, <1>2, <1>3 DEF CmdType

(* The steps of a caller that sends its command and what follows it. *)
LEMMA SendSteps ==
  ASSUME ClientInv, NEW c \in Caller
  PROVE  \/ Flush(c) \/ FlushFails(c) \/ Continue(c) \/ Data(c) \/ AbandonSASL(c) \/ IdleStop(c)
         => ClientInv'
<1> DEFINE x == cur[c]
<1>0. /\ x \in Cmd /\ cmd[x].kind \in Kind
      /\ up \in Seq(Line) /\ left \in BOOLEAN
      /\ pc[c] \in {"flush", "close", "swap", "doom", "wait"} /\ cmd[x].done = 1
          => cmd[x].cont # "queued"
      /\ pc[c] = "cont" => cmd[x].kind # "plain"
      /\ pc[c] = "data" => cmd[x].cont = "done"
      /\ pc[c] \in {"sasl", "idling"} => cmd[x].cont = "done"
  BY CallerKnows DEF ClientInv, TypeOK, Requests, CommandFits, CallerFits
<1>t. ASSUME NEW t \in {"cmd", "literal", "done", "sasl"}, Write(t, x)
      PROVE  up' \in Seq(Line) /\ (server.at = "gone" => up' = up)
  BY <1>0, <1>t, Written DEF ClientInv
<1> HIDE DEF x
<1> USE DEF Holding, CallerAt
<1>1. ASSUME Flush(c) PROVE ClientInv'
  <2>1. Write("cmd", x) /\ pc[c] = "flush"
    BY <1>1 DEF Flush, x
  <2>2. up' \in Seq(Line) /\ (server.at = "gone" => up' = up)
    BY <1>t, <2>1
  <2>3. CASE cmd[x].kind = "plain"
    <3>1. pc' = [pc EXCEPT ![c] = "wait"] /\ encMutex' = Unlocked(c)
      BY <1>1, <2>3 DEF Flush, x
    <3> QED BY <1>0, <1>1, <2>1, <2>2, <3>1, CallerMoves, Zenon DEF Flush, x
  <2>4. CASE cmd[x].kind # "plain"
    <3>1. pc' = [pc EXCEPT ![c] = "cont"] /\ encMutex' = encMutex
      BY <1>1, <2>4 DEF Flush, x
    <3> QED BY <1>0, <1>1, <2>1, <2>2, <2>4, <3>1, CallerMoves, Zenon DEF Flush, x
  <2> QED BY <2>3, <2>4
<1>2. ASSUME FlushFails(c) PROVE ClientInv'
  BY <1>0, <1>2, CallerMoves, Zenon DEF FlushFails, x
<1>3. ASSUME Continue(c) PROVE ClientInv'
  <2>1. /\ pc[c] = "cont"
        /\ UNCHANGED <<cur, cmd, pending, contReqs, doomed, deadline, greeted, open, up, down, server, left>>
    BY <1>3 DEF Continue
  <2>2. cmd[x].kind \in {"literal", "idle", "auth"}
    BY <1>0, <2>1 DEF Kind
  <2>3. CASE cmd[x].cont = "done"
    <3>1. encMutex' = encMutex /\ pc' = [pc EXCEPT ![c] = CASE cmd[x].kind = "literal" -> "data"
                                 [] cmd[x].kind = "idle" -> "idling" [] cmd[x].kind = "auth" -> "sasl"]
      BY <1>3, <2>3, Zenon DEF Continue, x
    <3>2. CASE cmd[x].kind = "literal"
      <4>1. pc' = [pc EXCEPT ![c] = "data"]
        BY <3>1, <3>2
      <4> QED BY <1>0, <2>1, <2>3, <3>1, <4>1, CallerMoves, Zenon DEF x
    <3>3. CASE cmd[x].kind = "idle"
      <4>1. pc' = [pc EXCEPT ![c] = "idling"]
        BY <3>1, <3>3
      <4> QED BY <1>0, <2>1, <2>3, <3>1, <3>3, <4>1, CallerMoves, Zenon DEF x
    <3>4. CASE cmd[x].kind = "auth"
      <4>1. pc' = [pc EXCEPT ![c] = "sasl"]
        BY <3>1, <3>4
      <4> QED BY <1>0, <2>1, <2>3, <3>1, <3>4, <4>1, CallerMoves, Zenon DEF x
    <3> QED BY <2>2, <3>2, <3>3, <3>4
  <2>4. CASE cmd[x].cont = "cancelled"
    <3>1. /\ encMutex' = IF cmd[x].kind = "idle" THEN Unlocked(c) ELSE encMutex
          /\ pc' = [pc EXCEPT ![c] = CASE cmd[x].kind = "literal" -> "close"
                      [] cmd[x].kind = "idle" -> "out" [] cmd[x].kind = "auth" -> "wait"]
      BY <1>3, <2>4, Zenon DEF Continue, x
    <3>2. CASE cmd[x].kind = "literal"
      <4>1. pc' = [pc EXCEPT ![c] = "close"] /\ encMutex' = encMutex
        BY <3>1, <3>2
      <4> QED BY <1>0, <2>1, <2>4, <4>1, CallerMoves, Zenon DEF x
    <3>3. CASE cmd[x].kind = "idle"
      <4>1. pc' = [pc EXCEPT ![c] = "out"] /\ encMutex' = Unlocked(c)
        BY <3>1, <3>3
      <4> QED BY <1>0, <2>1, <4>1, CallerMoves, Zenon DEF x
    <3>4. CASE cmd[x].kind = "auth"
      <4>1. pc' = [pc EXCEPT ![c] = "wait"] /\ encMutex' = encMutex
        BY <3>1, <3>4
      <4> QED BY <1>0, <2>1, <2>4, <4>1, CallerMoves, Zenon DEF x
    <3> QED BY <2>2, <3>2, <3>3, <3>4
  <2> QED BY <1>3, <2>3, <2>4 DEF Continue, x
<1>4. ASSUME Data(c) PROVE ClientInv'
  <2>1. Write("literal", x)
    BY <1>4 DEF Data, x
  <2>2. up' \in Seq(Line) /\ (server.at = "gone" => up' = up)
    BY <1>t, <2>1
  <2> QED BY <1>0, <1>4, <2>2, CallerMoves, Zenon DEF Data, x
<1>5. ASSUME AbandonSASL(c) PROVE ClientInv'
  BY <1>0, <1>5, CallerMoves, Zenon DEF AbandonSASL, x
<1>6. ASSUME IdleStop(c) PROVE ClientInv'
  <2>1. up' \in Seq(Line) /\ (server.at = "gone" => up' = up)
    BY <1>0, <1>6, <1>t DEF IdleStop, x
  <2> QED BY <1>0, <1>6, <2>1, CallerMoves DEF IdleStop, x
<1> QED BY <1>1, <1>2, <1>3, <1>4, <1>5, <1>6

(* The steps of the read goroutine that complete nothing. *)
LEMMA ReadSteps ==
  ASSUME ClientInv
  PROVE  Read \/ Receive \/ Greeting \/ ReadFails \/ ReadTimesOut => ClientInv'
<1>0. /\ down \in Seq(Line) /\ greeted \in BOOLEAN /\ deadline \in {"response", "idle", "reader"}
      /\ pc[Reader] = "decode" => Len(down) > 0
      /\ TimeoutFor(pending) \in {"response", "idle"}
  BY DEF ClientInv, TypeOK, Places, TimeoutFor
<1> USE DEF ReaderAt
<1>1. ASSUME Receive PROVE ClientInv'
  BY <1>0, <1>1, ReaderMoves DEF Receive
<1>2. ASSUME Greeting PROVE ClientInv'
  <2>1. /\ pc[Reader] = "decode" /\ down' = Tail(down) /\ greeted' = TRUE
        /\ UNCHANGED <<cur, cmd, encMutex, pending, contReqs, doomed, open, up, server, left>>
    BY <1>2 DEF Greeting, Decoded
  <2>2. down' \in Seq(Line)
    BY <1>0, <2>1
  <2>3. CASE Park(pending)
    BY <1>0, <2>1, <2>2, <2>3, ReaderMoves DEF Park
  <2>4. CASE Abort
    BY <1>0, <2>1, <2>2, <2>4, ReaderMoves DEF Abort
  <2> QED BY <1>2, <2>3, <2>4 DEF Greeting
<1>3. ASSUME ReadFails PROVE ClientInv'
  BY <1>0, <1>3, ReaderMoves DEF ReadFails
<1>4. ASSUME ReadTimesOut PROVE ClientInv'
  BY <1>0, <1>4, ReaderMoves DEF ReadTimesOut
<1>5. ASSUME Read PROVE ClientInv'
  BY <1>0, <1>5, ReaderMoves DEF Read, Park
<1> QED BY <1>1, <1>2, <1>3, <1>4, <1>5

(* The steps of the server, and Client.Close. *)
LEMMA ServerSteps ==
  ASSUME ClientInv
  PROVE  Greet \/ Serve \/ ServeRest \/ HangUp \/ Close => ClientInv'
<1>0. /\ down \in Seq(Line) /\ up \in Seq(Line) /\ server \in ServerType /\ cmd \in [Cmd -> CmdType]
      /\ server.cmd \in Cmd <=> server.at \in {"literal", "idle", "auth"}
      /\ ~open => server.at = "gone"
      /\ NoCaller \notin Cmd
  BY ClientAssumption DEF ClientInv, TypeOK, Places, Cmd
<1> USE DEF Kind
<1>c. UNCHANGED clientVars => UNCHANGED <<pc, cur, cmd, encMutex, pending, contReqs, doomed,
                                          deadline, greeted, open, left>>
  BY DEF clientVars
<1>s. ASSUME NEW t \in {"cont", "tagged"}, NEW x \in Cmd, Says(t, x)
      PROVE  down' \in Seq(Line) /\ Len(down') > 0
  <2>1. [t |-> t, cmd |-> x] \in Line
    BY DEF Line
  <2> QED BY <1>0, <1>s, <2>1 DEF Says
<1>u. ASSUME Len(up) > 0
      PROVE  Tail(up) \in Seq(Line) /\ Head(up) \in Line
  BY <1>0, <1>u
<1>g. [at |-> "gone", cmd |-> NoCaller] \in ServerType
  BY DEF ServerType
<1>1. ASSUME Greet PROVE ClientInv'
  <2>1. [t |-> "greeting"] \in Line
    BY DEF Line
  <2>2. down' \in Seq(Line) /\ Len(down') > 0
    BY <1>0, <1>1, <2>1 DEF Greet
  <2>3. server'.at = "ready" /\ server'.cmd = server.cmd /\ server' \in ServerType
    BY <1>0, <1>1 DEF Greet, ServerType
  <2> QED BY <1>0, <1>1, <1>c, <2>2, <2>3, ServerMoves DEF Greet
<1>2. ASSUME Serve PROVE ClientInv'
  <2>1. server.at = "ready" /\ Len(up) > 0 /\ Head(up).t = "cmd" /\ up' = Tail(up)
    BY <1>2 DEF Serve
  <2>2. Head(up).cmd \in Cmd
    BY <1>u, <2>1 DEF Line
  <2>3. CASE Says("tagged", Head(up).cmd) /\ UNCHANGED server
    BY <1>0, <1>2, <1>c, <1>s, <1>u, <2>1, <2>2, <2>3, ServerMoves DEF Serve
  <2>4. CASE /\ cmd[Head(up).cmd].kind # "plain" /\ Says("cont", Head(up).cmd)
             /\ server' = [at |-> cmd[Head(up).cmd].kind, cmd |-> Head(up).cmd]
    <3>1. cmd[Head(up).cmd].kind \in {"literal", "idle", "auth"}
      BY <1>0, <2>2, <2>4 DEF CmdType
    <3>2. server' \in ServerType /\ server'.at \in {"literal", "idle", "auth"} /\ server'.cmd \in Cmd
      BY <2>2, <2>4, <3>1 DEF ServerType
    <3> QED BY <1>0, <1>2, <1>c, <1>s, <1>u, <2>1, <2>2, <2>4, <3>2, ServerMoves DEF Serve
  <2> QED BY <1>2, <2>3, <2>4 DEF Serve
<1>3. ASSUME ServeRest PROVE ClientInv'
  <2>1. /\ Len(up) > 0 /\ server.at \in {"literal", "idle", "auth"}
        /\ Says("tagged", server.cmd) /\ up' = Tail(up)
        /\ server' = [at |-> "ready", cmd |-> NoCaller]
    BY <1>3 DEF ServeRest
  <2>2. server' \in ServerType /\ server'.at = "ready" /\ server'.cmd \notin Cmd
    BY <1>0, <2>1 DEF ServerType
  <2> QED BY <1>0, <1>3, <1>c, <1>s, <1>u, <2>1, <2>2, ServerMoves DEF ServeRest
<1>4. ASSUME HangUp PROVE ClientInv'
  BY <1>0, <1>4, <1>c, <1>g, ServerMoves DEF HangUp
<1>5. ASSUME Close PROVE ClientInv'
  <2>1. /\ UNCHANGED <<pc, cur, cmd, encMutex, pending, contReqs, doomed, deadline, greeted, down, left>>
        /\ open' = FALSE /\ server' = [at |-> "gone", cmd |-> NoCaller] /\ up' = <<>>
    BY <1>5 DEF Close, Cut
  <2>2. up' \in Seq(Line) /\ server'.at = "gone" /\ server'.cmd \notin Cmd
    BY <1>0, <2>1
  <2> QED BY <1>0, <1>g, <2>1, <2>2, ServerMoves, Zenon
<1> QED BY <1>1, <1>2, <1>3, <1>4, <1>5

(* Two callers never have the same command. *)
LEMMA OwnCommands ==
  ASSUME ClientInv, NEW c \in Caller, NEW d \in Caller, d # c
  PROVE  cur[d] # cur[c] /\ cur[d] # <<c, 0>> /\ cur[d] # <<c, 1>>
BY DEF ClientInv, Places

(* A caller starts a command that no list knows. *)
LEMMA PrepareKept ==
  ASSUME ClientInv, NEW c \in Caller, NEW x \in {<<c, 0>>, <<c, 1>>}, NEW k \in Sends[c],
         pc[c] \in {"out", "idling"}, Prepare(c, x, k),
         encMutex' = encMutex \/ encMutex' = Unlocked(c),
         up' \in Seq(Line), server.at = "gone" => up' = up,
         UNCHANGED <<pending, doomed, deadline, greeted, open, down, server, left>>
  PROVE  ClientInv'
<1> DEFINE early == k \in {"idle", "auth"}
<1>1. /\ c # Reader /\ c \in Proc /\ Reader \in Proc /\ NoCaller \notin Caller
      /\ x \in Cmd /\ x[1] = c /\ k \in Kind
      /\ \A d \in Caller : d \in Proc
  BY ClientAssumption DEF Proc, Cmd
<1>2. /\ ~Listed(x) /\ ~In(x, contReqs)
  BY DEF Prepare, Unused, Listed
<1>3. /\ cur \in [Caller -> Cmd] /\ cmd \in [Cmd -> CmdType] /\ contReqs \in Seq(Cmd)
      /\ pc \in [Proc -> CallerAt \cup ReaderAt]
  BY DEF ClientInv, TypeOK, CallerAt, ReaderAt
<1>4. /\ cur' \in [Caller -> Cmd] /\ cur'[c] = x
      /\ \A d \in Caller : d # c => cur'[d] = cur[d] /\ cur'[d] # x
  BY <1>1, <1>3, OwnCommands, Zenon DEF Prepare
<1>5. /\ cmd' \in [Cmd -> CmdType] /\ cmd'[x].kind = k /\ cmd'[x].done = 0
      /\ cmd'[x].cont = IF early THEN "queued" ELSE "none"
      /\ \A y \in Cmd : y # x => cmd'[y] = cmd[y]
  <2> DEFINE new == [kind |-> k, done |-> 0, cont |-> IF early THEN "queued" ELSE "none"]
  <2>1. cmd' = [cmd EXCEPT ![x] = new]
    BY DEF Prepare
  <2>2. new \in CmdType
    BY <1>1 DEF CmdType
  <2>3. new.kind = k /\ new.done = 0 /\ new.cont = IF early THEN "queued" ELSE "none"
    OBVIOUS
  <2> HIDE DEF new
  <2> QED BY <1>1, <1>3, <2>1, <2>2, <2>3, Zenon
<1>6. /\ pc' \in [Proc -> CallerAt \cup ReaderAt] /\ pc'[c] = "enc"
      /\ \A p \in Proc : p # c => pc'[p] = pc[p]
  BY <1>1, <1>3 DEF Prepare, CallerAt
<1>7. /\ contReqs' \in Seq(Cmd) /\ Distinct(contReqs')
      /\ \A y \in Cmd : In(y, contReqs') <=> In(y, contReqs) \/ (early /\ y = x)
  <2>1. CASE early
    <3>1. contReqs' = Append(contReqs, x)
      BY <2>1 DEF Prepare
    <3> HIDE DEF early
    <3> QED BY <1>1, <1>2, <1>3, <2>1, <3>1, InAppend, Zenon DEF ClientInv, Requests, CommandFits, CallerFits
  <2>2. CASE ~early
    <3>1. contReqs' = contReqs
      BY <2>2 DEF Prepare
    <3> HIDE DEF early
    <3> QED BY <1>3, <2>2, <3>1, Zenon DEF ClientInv, Requests, CommandFits, CallerFits
  <2> QED BY <2>1, <2>2
<1>8. TypeOK'
  BY <1>1, <1>4, <1>5, <1>6, <1>7 DEF ClientInv, TypeOK, CallerAt, ReaderAt, Unlocked
<1>9. Places'
  BY <1>1, <1>4, <1>6 DEF ClientInv, Places, Proc, CallerAt
<1>10. Locked'
  BY <1>1, <1>6 DEF ClientInv, Locked, Holding, Unlocked
<1>11. CompletedOnce'
  BY <1>5 DEF ClientInv, CompletedOnce
<1>12. Lists'
  <2>1. \A y \in Cmd : Listed(y)' <=> Listed(y)
    BY DEF Listed
  <2>2. \A y \in Cmd : Listed(y) => cmd'[y].done = 0
    BY <1>2, <1>5 DEF ClientInv, Lists
  <2>3. \A d \in Caller : pc'[d] = "enc" => cmd'[cur'[d]].done = 0 /\ ~Listed(cur'[d])
    BY <1>1, <1>2, <1>3, <1>4, <1>5, <1>6 DEF ClientInv, Lists
  <2>4. \A p \in Proc : pc'[p] # "doom" => doomed[p] = <<>>
    BY <1>6 DEF ClientInv, Lists
  <2> QED BY <1>4, <2>1, <2>2, <2>3, <2>4, Zenon DEF ClientInv, Lists
<1>13. NoCommandForgotten'
  BY <1>1, <1>3, <1>4, <1>5, <1>6 DEF ClientInv, NoCommandForgotten, Listed, Holding
<1>14. DeadlineRight'
  <2>1. \A y \in Cmd : In(y, pending') => cmd'[y].kind = cmd[y].kind
    BY <1>2, <1>5 DEF Listed
  <2>2. TimeoutFor(pending)' = TimeoutFor(pending)
    BY <2>1, TimeoutKept DEF ClientInv, TypeOK
  <2> QED BY <1>1, <1>6, <2>2 DEF ClientInv, DeadlineRight
<1>15. Requests'
  <2>1. ASSUME NEW y \in Cmd PROVE CommandFits(y)'
    <3>1. CASE y = x
      BY <1>1, <1>2, <1>5, <1>7, <3>1 DEF CommandFits
    <3>2. CASE y # x
      <4>1. CommandFits(y)
        BY Zenon DEF ClientInv, Requests
      <4>2. (In(y, contReqs') <=> In(y, contReqs)) /\ cmd'[y] = cmd[y]
        BY <1>5, <1>7, <3>2
      <4> QED BY ONLY <4>1, <4>2 DEF CommandFits
    <3> QED BY <3>1, <3>2
  <2>2. ASSUME NEW d \in Caller
        PROVE  CallerFits(pc'[d], cmd'[cur'[d]].kind, cmd'[cur'[d]].cont, cmd'[cur'[d]].done)
    <3>1. CASE d = c
      BY <1>4, <1>5, <1>6, <3>1 DEF CallerFits
    <3>2. CASE d # c
      <4>1. pc'[d] = pc[d] /\ cur'[d] = cur[d] /\ cmd'[cur[d]] = cmd[cur[d]]
        <5>1. pc'[d] = pc[d] /\ cur'[d] = cur[d] /\ cur[d] # x
          BY <1>1, <1>4, <1>6, <3>2, Zenon
        <5>2. cur[d] \in Cmd
          BY <1>3, Zenon
        <5> QED BY <1>5, <5>1, <5>2, Zenon
      <4>2. CallerFits(pc[d], cmd[cur[d]].kind, cmd[cur[d]].cont, cmd[cur[d]].done)
        BY Zenon DEF ClientInv, Requests
      <4> QED BY ONLY <4>1, <4>2
    <3> QED BY <3>1, <3>2
  <2> QED BY <1>7, <2>1, <2>2, Zenon DEF Requests
<1> QED BY <1>8, <1>9, <1>10, <1>11, <1>12, <1>13, <1>14, <1>15 DEF ClientInv

(* A caller starts a command: nothing but an early request is registered. *)
LEMMA StartKept ==
  ASSUME ClientInv, NEW c \in Caller
  PROVE  Start(c) \/ IdleRestart(c) => ClientInv'
<1>1. Fresh(c) \in {<<c, 0>>, <<c, 1>>}
  BY DEF Fresh
<1>2. up \in Seq(Line) /\ encMutex \in Caller \cup {NoCaller}
  BY DEF ClientInv, TypeOK
<1>3. ASSUME Start(c) PROVE ClientInv'
  <2>1. PICK k \in Sends[c] : Prepare(c, Fresh(c), k)
    BY <1>3 DEF Start
  <2>2. /\ pc[c] = "out"
        /\ UNCHANGED <<encMutex, pending, doomed, deadline, greeted, open, up, down, server, left>>
    BY <1>3 DEF Start
  <2> QED BY <1>1, <1>2, <2>1, <2>2, PrepareKept, Zenon
<1>4. ASSUME IdleRestart(c) PROVE ClientInv'
  <2>1. /\ pc[c] = "idling" /\ Write("done", cur[c]) /\ encMutex' = Unlocked(c)
        /\ Prepare(c, Fresh(c), "idle")
        /\ UNCHANGED <<pending, doomed, deadline, greeted, open, down, server, left>>
    BY <1>4 DEF IdleRestart
  <2>2. cur[c] \in Cmd /\ cur[c][1] = c
    BY CallerKnows
  <2>3. "idle" \in Sends[c]
    BY <2>1, <2>2 DEF ClientInv, Requests, CommandFits, CallerFits
  <2>4. up' \in Seq(Line) /\ (server.at = "gone" => up' = up)
    BY <2>1, <2>2, Written DEF ClientInv
  <2> QED BY <1>1, <2>1, <2>3, <2>4, PrepareKept, Zenon
<1> QED BY <1>3, <1>4

(* A caller registers a continuation request for its command, which has     *)
(* none that is open.                                                       *)
LEMMA RequestAdded ==
  ASSUME ClientInv, NEW x \in Cmd, cmd[x].cont # "queued",
         contReqs' = Append(contReqs, x), cmd' = [cmd EXCEPT ![x].cont = "queued"]
  PROVE  /\ cmd' \in [Cmd -> CmdType]
         /\ \A y \in Cmd : cmd'[y].kind = cmd[y].kind /\ cmd'[y].done = cmd[y].done
         /\ \A y \in Cmd : cmd'[y].cont = IF y = x THEN "queued" ELSE cmd[y].cont
         /\ contReqs' \in Seq(Cmd) /\ Distinct(contReqs')
         /\ \A y \in Cmd : In(y, contReqs') <=> In(y, contReqs) \/ y = x
<1>1. cmd \in [Cmd -> CmdType] /\ contReqs \in Seq(Cmd)
  BY DEF ClientInv, TypeOK
<1>2. ~In(x, contReqs) /\ Distinct(contReqs)
  BY DEF ClientInv, Requests, CommandFits, CallerFits
<1>3. /\ contReqs' \in Seq(Cmd) /\ Distinct(contReqs')
      /\ \A y \in Cmd : In(y, contReqs') <=> In(y, contReqs) \/ y = x
  BY <1>1, <1>2, InAppend, Zenon
<1>4. /\ cmd' \in [Cmd -> CmdType]
      /\ \A y \in Cmd : cmd'[y].kind = cmd[y].kind /\ cmd'[y].done = cmd[y].done
      /\ \A y \in Cmd : cmd'[y].cont = IF y = x THEN "queued" ELSE cmd[y].cont
  BY <1>1 DEF CmdType
<1> QED BY <1>3, <1>4

(* beginCommand registers the command and takes encMutex. *)
LEMMA BeginKept ==
  ASSUME ClientInv, NEW c \in Caller, Begin(c)
  PROVE  ClientInv'
<1> DEFINE x == cur[c]
           lit == cmd[x].kind = "literal"
<1>1. /\ c # Reader /\ c \in Proc /\ Reader \in Proc /\ NoCaller \notin Caller
      /\ \A d \in Caller : d \in Proc
  BY ClientAssumption DEF Proc
<1>2. /\ x \in Cmd /\ \A d \in Caller : cur[d] \in Cmd /\ (d # c => cur[d] # x)
  BY CallerKnows, OwnCommands
<1>3. /\ pc[c] = "enc" /\ encMutex = NoCaller /\ encMutex' = c
      /\ pending' = Append(pending, x) /\ deadline' = Retuned(pending')
      /\ pc' = [pc EXCEPT ![c] = "flush"]
      /\ UNCHANGED <<cur, doomed, greeted, open, up, down, server, left>>
  BY DEF Begin
<1>4. cmd[x].done = 0 /\ ~In(x, pending) /\ (\A p \in Proc : ~In(x, doomed[p]))
  BY <1>3 DEF ClientInv, Lists, Listed
<1>5. lit => cmd[x].cont # "queued"
  BY <1>3 DEF ClientInv, Requests, CommandFits, CallerFits
<1>6. /\ cmd' \in [Cmd -> CmdType]
      /\ \A y \in Cmd : cmd'[y].kind = cmd[y].kind /\ cmd'[y].done = cmd[y].done
      /\ \A y \in Cmd : cmd'[y].cont = IF lit /\ y = x THEN "queued" ELSE cmd[y].cont
      /\ contReqs' \in Seq(Cmd) /\ Distinct(contReqs')
      /\ \A y \in Cmd : In(y, contReqs') <=> In(y, contReqs) \/ (lit /\ y = x)
  <2>1. CASE lit
    <3>1. contReqs' = Append(contReqs, x) /\ cmd' = [cmd EXCEPT ![x].cont = "queued"]
      BY <2>1 DEF Begin
    <3> HIDE DEF x, lit
    <3>2. cmd[x].cont # "queued"
      BY <1>5, <2>1
    <3>3. /\ cmd' \in [Cmd -> CmdType]
          /\ \A y \in Cmd : cmd'[y].kind = cmd[y].kind /\ cmd'[y].done = cmd[y].done
          /\ \A y \in Cmd : cmd'[y].cont = IF y = x THEN "queued" ELSE cmd[y].cont
          /\ contReqs' \in Seq(Cmd) /\ Distinct(contReqs')
          /\ \A y \in Cmd : In(y, contReqs') <=> In(y, contReqs) \/ y = x
      BY <1>2, <3>1, <3>2, RequestAdded, Zenon
    <3> QED BY <2>1, <3>3
  <2>2. CASE ~lit
    <3>1. contReqs' = contReqs /\ cmd' = cmd
      BY <2>2 DEF Begin
    <3> HIDE DEF lit
    <3> QED BY <2>2, <3>1, Zenon DEF ClientInv, TypeOK, Requests
  <2> QED BY <2>1, <2>2, Zenon
<1>7. /\ pc' \in [Proc -> CallerAt \cup ReaderAt] /\ pc'[c] = "flush"
      /\ \A p \in Proc : p # c => pc'[p] = pc[p]
  BY <1>1, <1>3 DEF ClientInv, TypeOK, CallerAt, ReaderAt
<1> HIDE DEF lit, x
<1>8. /\ pending' \in Seq(Cmd) /\ Distinct(pending')
      /\ \A y \in Cmd : In(y, pending') <=> In(y, pending) \/ y = x
  BY <1>2, <1>3, <1>4, InAppend, Zenon DEF ClientInv, TypeOK, Lists
<1>9. TypeOK'
  BY <1>1, <1>3, <1>6, <1>7, <1>8 DEF ClientInv, TypeOK, CallerAt, ReaderAt, Retuned, TimeoutFor
<1>10. Places'
  BY <1>1, <1>3, <1>7, Zenon DEF ClientInv, Places, Proc, CallerAt
<1>11. Locked'
  BY <1>1, <1>3, <1>7 DEF ClientInv, Locked
<1>12. CompletedOnce'
  BY <1>6 DEF ClientInv, CompletedOnce
<1>13. Lists'
  <2>1. \A y \in Cmd : Listed(y)' <=> Listed(y) \/ y = x
    BY <1>3, <1>8 DEF Listed
  <2>2. \A y \in Cmd : Listed(y)' => cmd'[y].done = 0
    BY <1>4, <1>6, <2>1 DEF ClientInv, Lists
  <2>3. \A d \in Caller : pc'[d] = "enc" => cmd'[cur[d]].done = 0 /\ ~Listed(cur[d])'
    BY <1>1, <1>2, <1>6, <1>7, <2>1, <1>3, Zenon DEF ClientInv, Lists, Listed
  <2>4. \A p \in Proc : pc'[p] # "doom" => doomed[p] = <<>>
    BY <1>3, <1>7 DEF ClientInv, Lists
  <2>5. \A y \in Cmd, p \in Proc : In(y, doomed[p]) => ~In(y, pending')
    BY <1>4, <1>8 DEF ClientInv, Lists
  <2> QED BY <1>3, <1>8, <2>2, <2>3, <2>4, <2>5, Zenon DEF ClientInv, Lists, Listed
<1>14. NoCommandForgotten'
  <2>1. \A y \in Cmd : Listed(y)' <=> Listed(y) \/ y = x
    BY <1>3, <1>8 DEF Listed
  <2> QED BY <1>1, <1>2, <1>3, <1>6, <1>7, <2>1 DEF ClientInv, NoCommandForgotten, Listed, x
<1>15. DeadlineRight'
  <2>1. TimeoutFor(pending)' = TimeoutFor(pending')
    BY <1>6, <1>8, TimeoutKept
  <2> QED BY <1>1, <1>3, <1>7, <2>1, Zenon DEF ClientInv, DeadlineRight, Retuned
<1>16. Requests'
  <2>1. \A y \in Cmd : CommandFits(y)'
    <3> SUFFICES ASSUME NEW y \in Cmd PROVE CommandFits(y)'
      OBVIOUS
    <3>1. CommandFits(y)
      BY DEF ClientInv, Requests
    <3>2. /\ In(y, contReqs') <=> In(y, contReqs) \/ (lit /\ y = x)
          /\ cmd'[y].kind = cmd[y].kind /\ (lit => cmd[x].kind # "plain")
          /\ cmd'[y].cont = IF lit /\ y = x THEN "queued" ELSE cmd[y].cont
      BY <1>6 DEF lit
    <3> QED BY ONLY <3>1, <3>2 DEF CommandFits
  <2>2. ASSUME NEW d \in Caller
        PROVE  CallerFits(pc'[d], cmd'[cur[d]].kind, cmd'[cur[d]].cont, cmd'[cur[d]].done)
    <3>1. CASE d = c
      <4>1. pc'[d] = "flush" /\ cmd'[cur[d]].done = 0
        BY <1>2, <1>4, <1>6, <1>7, <3>1 DEF x
      <4> QED BY <4>1 DEF CallerFits
    <3>2. CASE d # c
      <4>1. CallerFits(pc[d], cmd[cur[d]].kind, cmd[cur[d]].cont, cmd[cur[d]].done)
        BY DEF ClientInv, Requests
      <4>2. /\ pc'[d] = pc[d] /\ cmd'[cur[d]].kind = cmd[cur[d]].kind
            /\ cmd'[cur[d]].cont = cmd[cur[d]].cont /\ cmd'[cur[d]].done = cmd[cur[d]].done
        BY <1>1, <1>2, <1>6, <1>7, <3>2
      <4> QED BY ONLY <4>1, <4>2
    <3> QED BY <3>1, <3>2
  <2> QED BY <1>3, <1>6, <2>1, <2>2, Zenon DEF Requests
<1> QED BY <1>9, <1>10, <1>11, <1>12, <1>13, <1>14, <1>15, <1>16 DEF ClientInv

(* Authenticate queues its next request, whether its response is written or not. *)
LEMMA RespondKept ==
  ASSUME ClientInv, NEW c \in Caller, Respond(c)
  PROVE  ClientInv'
<1> DEFINE x == cur[c]
<1>1. /\ c # Reader /\ c \in Proc /\ Reader \in Proc /\ NoCaller \notin Caller
      /\ \A d \in Caller : d \in Proc
  BY ClientAssumption DEF Proc
<1>2. /\ x \in Cmd /\ \A d \in Caller : cur[d] \in Cmd /\ (d # c => cur[d] # x)
  BY CallerKnows, OwnCommands
<1>3. /\ pc[c] = "sasl" /\ contReqs' = Append(contReqs, x)
      /\ cmd' = [cmd EXCEPT ![x].cont = "queued"]
      /\ UNCHANGED <<cur, pending, doomed, deadline, greeted, open, down, server, left>>
  BY DEF Respond
<1>4. cmd[x].cont # "queued" /\ cmd[x].kind = "auth"
  BY <1>3 DEF ClientInv, Requests, CommandFits, CallerFits
<1>5. PICK l \in {"cont", "out"} :
         /\ pc' = [pc EXCEPT ![c] = l]
         /\ encMutex' = encMutex \/ (encMutex' = Unlocked(c) /\ l = "out")
         /\ Write("sasl", x) \/ up' = up
  BY DEF Respond
<1> HIDE DEF x
<1>6. /\ cmd' \in [Cmd -> CmdType]
      /\ \A y \in Cmd : cmd'[y].kind = cmd[y].kind /\ cmd'[y].done = cmd[y].done
      /\ \A y \in Cmd : cmd'[y].cont = IF y = x THEN "queued" ELSE cmd[y].cont
      /\ contReqs' \in Seq(Cmd) /\ Distinct(contReqs')
      /\ \A y \in Cmd : In(y, contReqs') <=> In(y, contReqs) \/ y = x
  BY <1>2, <1>3, <1>4, RequestAdded, Zenon
<1>7. /\ pc' \in [Proc -> CallerAt \cup ReaderAt] /\ pc'[c] = l
      /\ \A p \in Proc : p # c => pc'[p] = pc[p]
  BY <1>1, <1>5 DEF ClientInv, TypeOK, CallerAt, ReaderAt
<1>8. up' \in Seq(Line) /\ (server.at = "gone" => up' = up)
  BY <1>2, <1>5, Written DEF ClientInv, TypeOK
<1>9. TypeOK'
  BY <1>1, <1>3, <1>5, <1>6, <1>7, <1>8 DEF ClientInv, TypeOK, CallerAt, ReaderAt, Unlocked
<1>10. Places'
  BY <1>1, <1>3, <1>7, <1>8 DEF ClientInv, Places, Proc, CallerAt
<1>11. Locked'
  BY <1>1, <1>3, <1>5, <1>7 DEF ClientInv, Locked, Holding, Unlocked
<1>12. CompletedOnce'
  BY <1>6 DEF ClientInv, CompletedOnce
<1>13. Lists'
  <2>1. \A y \in Cmd : Listed(y)' <=> Listed(y)
    BY <1>3 DEF Listed
  <2>2. \A y \in Cmd : Listed(y) => cmd'[y].done = 0
    BY <1>6 DEF ClientInv, Lists
  <2>3. \A d \in Caller : pc'[d] = "enc" => cmd'[cur[d]].done = 0 /\ ~Listed(cur[d])
    BY <1>1, <1>2, <1>6, <1>7, Zenon DEF ClientInv, Lists
  <2>4. \A p \in Proc : pc'[p] # "doom" => doomed[p] = <<>>
    BY <1>3, <1>7 DEF ClientInv, Lists
  <2> QED BY <1>2, <1>3, <2>1, <2>2, <2>3, <2>4 DEF ClientInv, Lists
<1>14. NoCommandForgotten'
  BY <1>1, <1>2, <1>3, <1>6, <1>7 DEF ClientInv, NoCommandForgotten, Listed, Holding
<1>15. DeadlineRight'
  <2>1. TimeoutFor(pending)' = TimeoutFor(pending)
    BY <1>3, <1>6, TimeoutKept DEF ClientInv, TypeOK
  <2> QED BY <1>1, <1>3, <1>7, <2>1 DEF ClientInv, DeadlineRight
<1>16. Requests'
  <2>1. \A y \in Cmd : CommandFits(y)'
    <3> SUFFICES ASSUME NEW y \in Cmd PROVE CommandFits(y)'
      OBVIOUS
    <3>1. CommandFits(y)
      BY DEF ClientInv, Requests
    <3>2. /\ In(y, contReqs') <=> In(y, contReqs) \/ y = x
          /\ cmd'[y].kind = cmd[y].kind /\ cmd[x].kind = "auth"
          /\ cmd'[y].cont = IF y = x THEN "queued" ELSE cmd[y].cont
      BY <1>4, <1>6
    <3> QED BY ONLY <3>1, <3>2 DEF CommandFits
  <2>2. ASSUME NEW d \in Caller
        PROVE  CallerFits(pc'[d], cmd'[cur[d]].kind, cmd'[cur[d]].cont, cmd'[cur[d]].done)
    <3>1. CASE d = c
      <4>1. /\ pc'[d] \in {"cont", "out"} /\ cmd'[cur[d]].kind = "auth"
        BY <1>2, <1>4, <1>6, <1>7, <3>1 DEF x
      <4> QED BY ONLY <4>1 DEF CallerFits
    <3>2. CASE d # c
      <4>1. CallerFits(pc[d], cmd[cur[d]].kind, cmd[cur[d]].cont, cmd[cur[d]].done)
        BY DEF ClientInv, Requests
      <4>2. /\ pc'[d] = pc[d] /\ cmd'[cur[d]].kind = cmd[cur[d]].kind
            /\ cmd'[cur[d]].cont = cmd[cur[d]].cont /\ cmd'[cur[d]].done = cmd[cur[d]].done
        BY <1>1, <1>2, <1>6, <1>7, <3>2
      <4> QED BY ONLY <4>1, <4>2
    <3> QED BY <3>1, <3>2
  <2> QED BY <1>3, <1>6, <2>1, <2>2, Zenon DEF Requests
<1> QED BY <1>9, <1>10, <1>11, <1>12, <1>13, <1>14, <1>15, <1>16 DEF ClientInv

(* A call returns: its command was completed, and is on no list. *)
LEMMA WaitKept ==
  ASSUME ClientInv, NEW c \in Caller, Wait(c)
  PROVE  ClientInv'
<1> DEFINE x == cur[c]
<1>1. /\ c # Reader /\ c \in Proc /\ Reader \in Proc /\ NoCaller \notin Caller
      /\ \A d \in Caller : d \in Proc
  BY ClientAssumption DEF Proc
<1>2. /\ x \in Cmd /\ cmd[x].done \in {0, 1}
      /\ \A d \in Caller : cur[d] \in Cmd /\ (d # c => cur[d] # x)
  BY CallerKnows, OwnCommands
<1>3. /\ pc[c] = "wait" /\ cmd[x].done > 0
      /\ cmd' = [cmd EXCEPT ![x].kind = "plain", ![x].cont = "none"]
      /\ pc' = [pc EXCEPT ![c] = "out"] /\ encMutex' = Unlocked(c)
      /\ UNCHANGED <<cur, pending, contReqs, doomed, deadline, greeted, open, up, down, server, left>>
  BY DEF Wait
<1>4. /\ cmd[x].done = 1 /\ ~Listed(x) /\ ~In(x, contReqs)
  BY <1>2, <1>3 DEF ClientInv, Lists, Requests, CommandFits, CallerFits
<1> HIDE DEF x
<1>5. /\ cmd' \in [Cmd -> CmdType] /\ cmd'[x].kind = "plain" /\ cmd'[x].cont = "none"
      /\ cmd'[x].done = cmd[x].done
      /\ \A y \in Cmd : y # x => cmd'[y] = cmd[y]
  BY <1>2, <1>3, Zenon DEF ClientInv, TypeOK, CmdType, Kind
<1>7. /\ pc' \in [Proc -> CallerAt \cup ReaderAt] /\ pc'[c] = "out"
      /\ \A p \in Proc : p # c => pc'[p] = pc[p]
  BY <1>1, <1>3 DEF ClientInv, TypeOK, CallerAt, ReaderAt
<1>9. TypeOK'
  BY <1>1, <1>3, <1>5, <1>7 DEF ClientInv, TypeOK, CallerAt, ReaderAt, Unlocked
<1>10. Places'
  BY <1>1, <1>3, <1>7 DEF ClientInv, Places, Proc, CallerAt
<1>11. Locked'
  BY <1>1, <1>3, <1>7 DEF ClientInv, Locked, Holding, Unlocked
<1>12. CompletedOnce'
  BY <1>5 DEF ClientInv, CompletedOnce
<1>13. Lists'
  <2>1. \A y \in Cmd : Listed(y)' <=> Listed(y)
    BY <1>3 DEF Listed
  <2>2. \A y \in Cmd : Listed(y) => cmd'[y].done = 0
    BY <1>4, <1>5 DEF ClientInv, Lists
  <2>3. \A d \in Caller : pc'[d] = "enc" => cmd'[cur[d]].done = 0 /\ ~Listed(cur[d])
    BY <1>1, <1>2, <1>5, <1>7 DEF ClientInv, Lists
  <2>4. \A p \in Proc : pc'[p] # "doom" => doomed[p] = <<>>
    BY <1>3, <1>7 DEF ClientInv, Lists
  <2> QED BY <1>2, <1>3, <2>1, <2>2, <2>3, <2>4, Zenon DEF ClientInv, Lists
<1>14. NoCommandForgotten'
  BY <1>1, <1>2, <1>3, <1>5, <1>7 DEF ClientInv, NoCommandForgotten, Listed, Holding
<1>15. DeadlineRight'
  <2>1. \A y \in Cmd : In(y, pending') => cmd'[y].kind = cmd[y].kind
    BY <1>3, <1>4, <1>5 DEF Listed
  <2>2. TimeoutFor(pending)' = TimeoutFor(pending)
    BY <1>3, <2>1, TimeoutKept DEF ClientInv, TypeOK
  <2> QED BY <1>1, <1>3, <1>7, <2>2 DEF ClientInv, DeadlineRight
<1>16. Requests'
  <2>1. \A y \in Cmd : CommandFits(y)'
    <3> SUFFICES ASSUME NEW y \in Cmd PROVE CommandFits(y)'
      OBVIOUS
    <3>1. CommandFits(y)
      BY DEF ClientInv, Requests
    <3>2. /\ contReqs' = contReqs
          /\ y = x => ~In(y, contReqs) /\ cmd'[y].kind = "plain" /\ cmd'[y].cont = "none"
          /\ y # x => cmd'[y] = cmd[y]
      BY <1>3, <1>4, <1>5
    <3> QED BY ONLY <3>1, <3>2 DEF CommandFits
  <2>2. ASSUME NEW d \in Caller
        PROVE  CallerFits(pc'[d], cmd'[cur[d]].kind, cmd'[cur[d]].cont, cmd'[cur[d]].done)
    <3>1. CASE d = c
      BY <1>7, <3>1 DEF CallerFits
    <3>2. CASE d # c
      <4>1. CallerFits(pc[d], cmd[cur[d]].kind, cmd[cur[d]].cont, cmd[cur[d]].done)
        BY DEF ClientInv, Requests
      <4>2. /\ pc'[d] = pc[d] /\ cmd'[cur[d]].kind = cmd[cur[d]].kind
            /\ cmd'[cur[d]].cont = cmd[cur[d]].cont /\ cmd'[cur[d]].done = cmd[cur[d]].done
        BY <1>1, <1>2, <1>5, <1>7, <3>2
      <4> QED BY ONLY <4>1, <4>2
    <3> QED BY <3>1, <3>2
  <2>3. Distinct(contReqs)
    BY Zenon DEF ClientInv, Requests
  <2> QED BY <1>3, <2>1, <2>2, <2>3, Zenon DEF Requests
<1> QED BY <1>9, <1>10, <1>11, <1>12, <1>13, <1>14, <1>15, <1>16 DEF ClientInv

(* closeWithError closes the connection. *)
LEMMA CloseConnKept ==
  ASSUME ClientInv, NEW p \in Proc, CloseConn(p)
  PROVE  ClientInv'
<1>1. Reader \in Proc /\ Reader \notin Caller /\ NoCaller \notin Cmd /\ \A d \in Caller : d \in Proc
  BY ClientAssumption DEF Proc, Cmd
<1>2. /\ pc[p] = "close" /\ pc' = [pc EXCEPT ![p] = "swap"]
      /\ open' = FALSE /\ server' = [at |-> "gone", cmd |-> NoCaller] /\ up' = <<>>
      /\ IF p = Reader THEN down' = <<>> /\ deadline' = "reader" ELSE UNCHANGED <<down, deadline>>
      /\ UNCHANGED <<cur, cmd, encMutex, pending, contReqs, doomed, greeted, left>>
  BY DEF CloseConn, Cut
<1>3. /\ pc' \in [Proc -> CallerAt \cup ReaderAt] /\ pc'[p] = "swap"
      /\ \A q \in Proc : q # p => pc'[q] = pc[q]
  BY <1>1, <1>2 DEF ClientInv, TypeOK, CallerAt, ReaderAt
<1>4. server' \in ServerType /\ server'.at = "gone" /\ server'.cmd \notin Cmd
  BY <1>1, <1>2 DEF ServerType
<1>5. TypeOK'
  <2>1. <<>> \in Seq(Line) /\ down \in Seq(Line)
    BY DEF ClientInv, TypeOK
  <2>2. up' \in Seq(Line) /\ down' \in Seq(Line) /\ deadline' \in {"response", "idle", "reader"}
    BY <1>2, <2>1, Zenon DEF ClientInv, TypeOK
  <2> QED BY <1>2, <1>3, <1>4, <2>2, Zenon DEF ClientInv, TypeOK, CallerAt, ReaderAt
<1>6. Places'
  <2>1. \A c \in Caller : pc'[c] \in CallerAt /\ cur'[c] \in {<<c, 0>>, <<c, 1>>}
    BY <1>1, <1>2, <1>3 DEF ClientInv, Places, CallerAt
  <2>2. /\ pc'[Reader] \in ReaderAt
        /\ pc'[Reader] = "decode" => Len(down') > 0
        /\ pc'[Reader] \in {"swap", "doom", "gone"} => down' = <<>>
    BY <1>1, <1>2, <1>3 DEF ClientInv, Places, ReaderAt
  <2> QED BY <1>2, <1>4, <2>1, <2>2 DEF Places
<1>7. Locked'
  BY <1>1, <1>2, <1>3 DEF ClientInv, Locked, Holding
<1>8. CompletedOnce'
  BY <1>2 DEF ClientInv, CompletedOnce
<1>9. Lists'
  <2>1. \A q \in Proc : pc'[q] # "doom" => doomed[q] = <<>>
    BY <1>2, <1>3, Zenon DEF ClientInv, Lists
  <2>2. \A d \in Caller : pc'[d] = "enc" => pc[d] = "enc"
    BY <1>1, <1>2, <1>3
  <2> QED BY <1>2, <2>1, <2>2, Zenon DEF ClientInv, Lists, Listed
<1>10. NoCommandForgotten'
  BY <1>1, <1>2, <1>3, Zenon DEF ClientInv, NoCommandForgotten, Listed, Holding
<1>11. DeadlineRight'
  BY <1>1, <1>2, <1>3 DEF ClientInv, DeadlineRight
<1>12. Requests'
  BY <1>1, <1>2, <1>3, Zenon DEF ClientInv, Requests, CommandFits, CallerFits
<1> QED BY <1>5, <1>6, <1>7, <1>8, <1>9, <1>10, <1>11, <1>12 DEF ClientInv

(* closeWithError takes the pending commands. *)
LEMMA SwapKept ==
  ASSUME ClientInv, NEW p \in Proc, Swap(p)
  PROVE  ClientInv'
<1>1. Reader \in Proc /\ Reader \notin Caller /\ \A d \in Caller : d \in Proc
  BY ClientAssumption DEF Proc
<1>2. /\ pc[p] = "swap" /\ pc' = [pc EXCEPT ![p] = "doom"]
      /\ pending' = <<>> /\ doomed' = [doomed EXCEPT ![p] = pending]
      /\ UNCHANGED <<cur, cmd, encMutex, contReqs, deadline, greeted, open, up, down, server, left>>
  BY DEF Swap
<1>3. /\ pc' \in [Proc -> CallerAt \cup ReaderAt] /\ pc'[p] = "doom"
      /\ \A q \in Proc : q # p => pc'[q] = pc[q]
  BY <1>1, <1>2 DEF ClientInv, TypeOK, CallerAt, ReaderAt
<1>4. /\ doomed' \in [Proc -> Seq(Cmd)] /\ doomed'[p] = pending
      /\ \A q \in Proc : q # p => doomed'[q] = doomed[q]
      /\ doomed[p] = <<>> /\ pending' \in Seq(Cmd) /\ Distinct(pending')
      /\ \A y \in Cmd : ~In(y, pending') /\ ~In(y, doomed[p])
  BY <1>2, InEmpty DEF ClientInv, TypeOK, Lists
<1>5. TypeOK'
  BY <1>2, <1>3, <1>4 DEF ClientInv, TypeOK, CallerAt, ReaderAt
<1>6. Places'
  <2>1. \A c \in Caller : pc'[c] \in CallerAt /\ cur'[c] \in {<<c, 0>>, <<c, 1>>}
    BY <1>1, <1>2, <1>3 DEF ClientInv, Places, CallerAt
  <2>2. /\ pc'[Reader] \in ReaderAt
        /\ pc'[Reader] = "decode" => Len(down') > 0
        /\ pc'[Reader] \in {"swap", "doom", "gone"} => down' = <<>>
    BY <1>1, <1>2, <1>3 DEF ClientInv, Places, ReaderAt
  <2>3. \A q \in Proc : pc'[q] \in {"swap", "doom", "gone"} => ~open
    BY <1>2, <1>3 DEF ClientInv, Places
  <2> QED BY <1>2, <2>1, <2>2, <2>3 DEF ClientInv, Places
<1>7. Locked'
  BY <1>1, <1>2, <1>3 DEF ClientInv, Locked, Holding
<1>8. CompletedOnce'
  BY <1>2 DEF ClientInv, CompletedOnce
<1>9. \A y \in Cmd : Listed(y)' <=> Listed(y)
  BY <1>4, Zenon DEF Listed
<1>10. Lists'
  <2>1. \A q \in Proc : Distinct(doomed'[q]) /\ (pc'[q] # "doom" => doomed'[q] = <<>>)
    BY <1>3, <1>4, Zenon DEF ClientInv, Lists
  <2>2. \A y \in Cmd, q, r \in Proc : In(y, doomed'[q]) /\ In(y, doomed'[r]) => q = r
    BY <1>4, Zenon DEF ClientInv, Lists
  <2>3. \A d \in Caller : pc'[d] = "enc" => cmd'[cur'[d]].done = 0 /\ ~Listed(cur[d])'
    BY <1>1, <1>2, <1>3, <1>9, CallerKnows, Zenon DEF ClientInv, Lists
  <2>4. \A y \in Cmd : Listed(y)' => cmd'[y].done = 0
    BY <1>2, <1>9, Zenon DEF ClientInv, Lists
  <2> QED BY <1>2, <1>4, <2>1, <2>2, <2>3, <2>4 DEF Lists
<1>11. NoCommandForgotten'
  <2>1. \A d \in Caller : cur[d] \in Cmd /\ (Listed(cur[d])' <=> Listed(cur[d]))
    BY <1>2, <1>9, CallerKnows, Zenon
  <2>2. \A d \in Caller : pc'[d] \in Holding \cup {"wait"} => pc[d] \in Holding \cup {"wait"}
    BY <1>1, <1>2, <1>3 DEF Holding
  <2> QED BY <1>2, <2>1, <2>2, Zenon DEF ClientInv, NoCommandForgotten
<1>12. DeadlineRight'
  <2>1. ~open
    BY <1>2 DEF ClientInv, Places
  <2> QED BY <1>1, <1>2, <1>3, <2>1 DEF ClientInv, DeadlineRight
<1>13. Requests'
  BY <1>1, <1>2, <1>3, Zenon DEF ClientInv, Requests, CommandFits, CallerFits
<1> QED BY <1>5, <1>6, <1>7, <1>8, <1>10, <1>11, <1>12, <1>13 DEF ClientInv

(* completeCommand cancels the command's request and completes it. *)
LEMMA Completed ==
  ASSUME ClientInv, NEW x \in Cmd, cmd[x].done = 0, Complete(x)
  PROVE  /\ cmd' \in [Cmd -> CmdType] /\ contReqs' \in Seq(Cmd) /\ Distinct(contReqs')
         /\ \A y \in Cmd : y # x => cmd'[y] = cmd[y]
         /\ \A y \in Cmd : cmd'[y].kind = cmd[y].kind
         /\ cmd'[x].done = 1
         /\ cmd'[x].cont = IF cmd[x].cont = "queued" THEN "cancelled" ELSE cmd[x].cont
         /\ \A y \in Cmd : In(y, contReqs') <=> In(y, contReqs) /\ y # x
<1>1. cmd \in [Cmd -> CmdType] /\ contReqs \in Seq(Cmd) /\ Distinct(contReqs)
  BY Zenon DEF ClientInv, TypeOK, Requests
<1>2. /\ cmd' \in [Cmd -> CmdType] /\ cmd'[x].done = 1
      /\ \A y \in Cmd : y # x => cmd'[y] = cmd[y]
      /\ cmd'[x].kind = cmd[x].kind
      /\ cmd'[x].cont = IF cmd[x].cont = "queued" THEN "cancelled" ELSE cmd[x].cont
  BY <1>1 DEF Complete, CmdType
<1>3. contReqs' = Without(contReqs, x)
  BY DEF Complete
<1>4. /\ contReqs' \in Seq(Cmd) /\ Distinct(contReqs')
      /\ \A y \in Cmd : In(y, contReqs') <=> In(y, contReqs) /\ y # x
  BY <1>1, <1>3, InWithout, Zenon
<1> QED BY <1>2, <1>4, Zenon

(* What the completion of a command that leaves its list keeps. *)
LEMMA CompleteKept ==
  ASSUME ClientInv, NEW x \in Cmd, cmd[x].done = 0, Complete(x), cur' = cur,
         \A d \in Caller : pc'[d] = pc[d],
         \A y \in Cmd : Listed(y)' <=> Listed(y) /\ y # x
  PROVE  /\ CompletedOnce' /\ NoCommandForgotten' /\ Requests'
         /\ \A y \in Cmd : Listed(y)' => cmd'[y].done = 0
         /\ \A c \in Caller : pc'[c] = "enc" /\ cur[c] # x
                                => cmd'[cur[c]].done = 0 /\ ~Listed(cur[c])'
<1>1. /\ cmd' \in [Cmd -> CmdType] /\ contReqs' \in Seq(Cmd) /\ Distinct(contReqs')
      /\ \A y \in Cmd : y # x => cmd'[y] = cmd[y]
      /\ \A y \in Cmd : cmd'[y].kind = cmd[y].kind
      /\ cmd'[x].done = 1
      /\ cmd'[x].cont = IF cmd[x].cont = "queued" THEN "cancelled" ELSE cmd[x].cont
      /\ \A y \in Cmd : In(y, contReqs') <=> In(y, contReqs) /\ y # x
  BY Completed, Zenon
<1>2. \A d \in Caller : cur[d] \in Cmd
  BY CallerKnows
<1>3. CompletedOnce'
  BY <1>1 DEF ClientInv, CompletedOnce
<1>4. NoCommandForgotten'
  <2> SUFFICES ASSUME NEW d \in Caller, pc[d] \in Holding \cup {"wait"}
               PROVE  cmd'[cur[d]].done = 1 \/ Listed(cur[d])'
    BY DEF NoCommandForgotten
  <2>1. cmd[cur[d]].done = 1 \/ Listed(cur[d])
    BY DEF ClientInv, NoCommandForgotten
  <2>2. CASE cur[d] = x
    BY <1>1, <2>2
  <2>3. CASE cur[d] # x
    <3>1. cmd'[cur[d]] = cmd[cur[d]] /\ (Listed(cur[d])' <=> Listed(cur[d]))
      BY <1>1, <1>2, <2>3
    <3> QED BY <2>1, <3>1, Zenon
  <2> QED BY <2>2, <2>3
<1>5. Requests'
  <2>1. \A y \in Cmd : CommandFits(y)'
    <3> SUFFICES ASSUME NEW y \in Cmd PROVE CommandFits(y)'
      BY Zenon
    <3>1. CommandFits(y)
      BY DEF ClientInv, Requests
    <3>2. /\ In(y, contReqs') <=> In(y, contReqs) /\ y # x
          /\ cmd'[y].kind = cmd[y].kind
          /\ y # x => cmd'[y] = cmd[y]
          /\ y = x => cmd'[y].cont = IF cmd[y].cont = "queued" THEN "cancelled" ELSE cmd[y].cont
      BY <1>1
    <3> QED BY ONLY <3>1, <3>2 DEF CommandFits
  <2>2. ASSUME NEW d \in Caller
        PROVE  CallerFits(pc[d], cmd'[cur[d]].kind, cmd'[cur[d]].cont, cmd'[cur[d]].done)
    <3>1. CASE cur[d] = x
      <4>1. CallerFits(pc[d], cmd[cur[d]].kind, cmd[cur[d]].cont, cmd[cur[d]].done)
        BY Zenon DEF ClientInv, Requests
      <4>2. /\ cmd'[cur[d]].kind = cmd[cur[d]].kind
            /\ cmd'[cur[d]].cont = IF cmd[cur[d]].cont = "queued" THEN "cancelled"
                                  ELSE cmd[cur[d]].cont
        BY <1>1, <3>1, Zenon
      <4> QED BY ONLY <4>1, <4>2, Zenon DEF CallerFits
    <3>2. CASE cur[d] # x
      <4>1. CallerFits(pc[d], cmd[cur[d]].kind, cmd[cur[d]].cont, cmd[cur[d]].done)
        BY DEF ClientInv, Requests
      <4>2. cmd'[cur[d]] = cmd[cur[d]]
        BY <1>1, <1>2, <3>2
      <4> QED BY ONLY <4>1, <4>2
    <3> QED BY <3>1, <3>2, Zenon
  <2> QED BY <1>1, <2>1, <2>2, Zenon DEF Requests
<1>6. \A y \in Cmd : Listed(y)' => cmd'[y].done = 0
  <2> SUFFICES ASSUME NEW y \in Cmd, Listed(y)' PROVE cmd'[y].done = 0
    OBVIOUS
  <2>1. Listed(y) /\ y # x
    OBVIOUS
  <2>2. cmd'[y] = cmd[y] /\ cmd[y].done = 0
    BY <1>1, <2>1, Zenon DEF ClientInv, Lists
  <2> QED BY <2>2
<1>7. ASSUME NEW c \in Caller, pc'[c] = "enc", cur[c] # x
      PROVE  cmd'[cur[c]].done = 0 /\ ~Listed(cur[c])'
  <2>1. cur[c] \in Cmd /\ pc[c] = "enc"
    BY <1>2, <1>7
  <2>2. cmd[cur[c]].done = 0 /\ ~Listed(cur[c])
    BY <2>1, Zenon DEF ClientInv, Lists
  <2>3. cmd'[cur[c]] = cmd[cur[c]]
    BY <1>1, <1>7, <2>1, Zenon
  <2> QED BY <2>1, <2>2, <2>3, Zenon
<1> QED BY <1>3, <1>4, <1>5, <1>6, <1>7, Zenon

(* closeWithError completes a command it took. *)
LEMMA DoomKept ==
  ASSUME ClientInv, NEW p \in Proc, Doom(p)
  PROVE  ClientInv'
<1> DEFINE x == Head(doomed[p])
<1>1. /\ pc[p] = "doom" /\ Len(doomed[p]) > 0 /\ Complete(x)
      /\ doomed' = [doomed EXCEPT ![p] = Tail(doomed[p])]
      /\ UNCHANGED <<pc, cur, encMutex, pending, deadline, greeted, open, up, down, server, left>>
  BY DEF Doom
<1>2. /\ doomed \in [Proc -> Seq(Cmd)] /\ doomed[p] \in Seq(Cmd) /\ Distinct(doomed[p])
  BY DEF ClientInv, TypeOK, Lists
<1>3. /\ Tail(doomed[p]) \in Seq(Cmd) /\ x \in Cmd /\ In(x, doomed[p])
      /\ \A y \in Cmd : In(y, doomed[p]) <=> In(y, Tail(doomed[p])) \/ y = x
      /\ Distinct(Tail(doomed[p])) /\ ~In(x, Tail(doomed[p]))
  BY <1>1, <1>2, InTail, Zenon
<1> HIDE DEF x
<1>4. /\ doomed' \in [Proc -> Seq(Cmd)] /\ doomed'[p] = Tail(doomed[p])
      /\ \A q \in Proc : q # p => doomed'[q] = doomed[q]
  BY <1>1, <1>2, <1>3
<1>5. /\ cmd[x].done = 0 /\ ~In(x, pending) /\ \A q \in Proc : In(x, doomed[q]) => q = p
  BY <1>3 DEF ClientInv, Lists, Listed
<1>6. \A y \in Cmd, q \in Proc : In(y, doomed'[q]) <=> In(y, doomed[q]) /\ y # x
  BY <1>3, <1>4, <1>5, Zenon
<1>7. \A y \in Cmd : Listed(y)' <=> Listed(y) /\ y # x
  BY <1>1, <1>5, <1>6, Zenon DEF Listed
<1>8. /\ CompletedOnce' /\ NoCommandForgotten' /\ Requests'
      /\ \A y \in Cmd : Listed(y)' => cmd'[y].done = 0
      /\ \A c \in Caller : pc'[c] = "enc" /\ cur[c] # x
                             => cmd'[cur[c]].done = 0 /\ ~Listed(cur[c])'
  BY <1>1, <1>3, <1>5, <1>7, CompleteKept, Zenon
<1>9. cmd' \in [Cmd -> CmdType] /\ contReqs' \in Seq(Cmd)
  BY <1>1, <1>3, <1>5, Completed, Zenon
<1>10. TypeOK'
  BY <1>1, <1>4, <1>9 DEF ClientInv, TypeOK
<1>11. Places' /\ Locked'
  BY <1>1 DEF ClientInv, Places, Locked
<1>12. Lists'
  <2>1. \A q \in Proc : Distinct(doomed'[q]) /\ (pc'[q] # "doom" => doomed'[q] = <<>>)
    BY <1>1, <1>3, <1>4, Zenon DEF ClientInv, Lists
  <2>2. \A y \in Cmd, q \in Proc : In(y, doomed'[q]) => ~In(y, pending')
    BY <1>1, <1>6, Zenon DEF ClientInv, Lists
  <2>3. \A y \in Cmd, q, r \in Proc : In(y, doomed'[q]) /\ In(y, doomed'[r]) => q = r
    BY <1>6, Zenon DEF ClientInv, Lists
  <2>4. \A c \in Caller : pc'[c] = "enc" => cmd'[cur'[c]].done = 0 /\ ~Listed(cur[c])'
    <3>1. \A c \in Caller : pc'[c] = "enc" => cur[c] # x
      BY <1>1, <1>3, Zenon DEF ClientInv, Lists, Listed
    <3> QED BY <1>1, <1>8, <3>1, Zenon
  <2>5. Distinct(pending')
    BY <1>1, Zenon DEF ClientInv, Lists
  <2> QED BY <1>1, <1>8, <2>1, <2>2, <2>3, <2>4, <2>5, Zenon DEF Lists
<1>13. DeadlineRight'
  <2>1. \A y \in Cmd : In(y, pending') => cmd'[y].kind = cmd[y].kind
    BY <1>1, <1>3, <1>5, Completed, Zenon
  <2>2. TimeoutFor(pending)' = TimeoutFor(pending)
    BY <1>1, <2>1, TimeoutKept, Zenon DEF ClientInv, TypeOK
  <2> QED BY <1>1, <2>2 DEF ClientInv, DeadlineRight
<1> QED BY <1>8, <1>10, <1>11, <1>12, <1>13, Zenon DEF ClientInv

(* closeWithError returns. *)
LEMMA ClosedKept ==
  ASSUME ClientInv, NEW p \in Proc, Closed(p)
  PROVE  ClientInv'
<1>1. /\ pc[p] = "doom" /\ Len(doomed[p]) = 0
      /\ UNCHANGED <<cur, cmd, pending, contReqs, doomed, deadline, greeted, open, up, down, server, left>>
      /\ up \in Seq(Line) /\ down \in Seq(Line) /\ left \in BOOLEAN /\ greeted \in BOOLEAN
      /\ deadline \in {"response", "idle", "reader"}
  BY DEF Closed, ClientInv, TypeOK
<1>2. CASE p = Reader
  <2>1. pc' = [pc EXCEPT ![Reader] = "gone"] /\ encMutex' = encMutex
    BY <1>2, Zenon DEF Closed
  <2>2. ~open /\ down = <<>> /\ Reader \in Proc
    BY <1>1, <1>2 DEF ClientInv, Places
  <2>3. "gone" \in ReaderAt
    BY DEF ReaderAt
  <2> QED BY <1>1, <1>2, <2>1, <2>2, <2>3, ReaderMoves, Zenon
<1>3. CASE p # Reader
  <2>1. p \in Caller /\ pc[p] \in Holding /\ "cont" \in CallerAt /\ "wait" \in CallerAt
    BY <1>1, <1>3 DEF Proc, Holding, CallerAt
  <2>2. cmd[cur[p]].done = 1 => cmd[cur[p]].cont # "queued"
    BY <1>1, <2>1, Zenon DEF ClientInv, Requests, CommandFits, CallerFits
  <2>3. CASE cmd[cur[p]].kind \in {"idle", "auth"}
    <3>1. pc' = [pc EXCEPT ![p] = "cont"] /\ encMutex' = encMutex
      BY <1>3, <2>3, Zenon DEF Closed
    <3> QED BY <1>1, <2>1, <2>3, <3>1, CallerMoves, Zenon
  <2>4. CASE cmd[cur[p]].kind \notin {"idle", "auth"}
    <3>1. pc' = [pc EXCEPT ![p] = "wait"] /\ encMutex' = Unlocked(p)
      BY <1>3, <2>4 DEF Closed
    <3>2. "wait" \notin Holding
      BY DEF Holding
    <3> QED BY <1>1, <2>1, <2>2, <3>1, <3>2, CallerMoves, Zenon
  <2> QED BY <2>3, <2>4
<1> QED BY <1>2, <1>3

(* readContinueReq takes the oldest request and settles it. *)
LEMMA ContinueReqKept ==
  ASSUME ClientInv, ReadContinueReq
  PROVE  ClientInv'
<1> DEFINE x == Head(contReqs)
<1>1. Reader \in Proc /\ Reader \notin Caller /\ \A d \in Caller : d \in Proc /\ d # Reader
  BY ClientAssumption DEF Proc
<1>2. /\ pc[Reader] = "decode" /\ down' = Tail(down)
      /\ UNCHANGED <<cur, encMutex, doomed, open, up, server, left, pending, greeted>>
  BY DEF ReadContinueReq, Decoded
<1>3. /\ down' \in Seq(Line) /\ greeted \in BOOLEAN /\ deadline \in {"response", "idle", "reader"}
      /\ TimeoutFor(pending) \in {"response", "idle"}
  <2>1. down \in Seq(Line) /\ Len(down) > 0
    BY <1>2 DEF ClientInv, TypeOK, Places
  <2>2. down' \in Seq(Line)
    BY <1>2, <2>1
  <2> QED BY <2>2 DEF ClientInv, TypeOK, TimeoutFor
<1>4. CASE Len(contReqs) = 0
  <2>1. pc' = [pc EXCEPT ![Reader] = "close"] /\ UNCHANGED <<deadline, cmd, contReqs>>
    BY <1>4 DEF ReadContinueReq, Abort
  <2> QED BY <1>2, <1>3, <2>1, ReaderMoves DEF ReaderAt
<1>5. CASE Len(contReqs) # 0
  <2>1. /\ cmd' = [cmd EXCEPT ![x].cont = "done"] /\ contReqs' = Tail(contReqs)
        /\ pc' = [pc EXCEPT ![Reader] = "await"] /\ deadline' = TimeoutFor(pending)
    BY <1>5 DEF ReadContinueReq, Park
  <2>2. contReqs \in Seq(Cmd) /\ Len(contReqs) > 0 /\ Distinct(contReqs)
    <3>1. contReqs \in Seq(Cmd) /\ Distinct(contReqs)
      BY Zenon DEF ClientInv, TypeOK, Requests
    <3> QED BY ONLY <1>5, <3>1
  <2>3. /\ contReqs' \in Seq(Cmd) /\ x \in Cmd /\ In(x, contReqs) /\ Distinct(contReqs')
        /\ \A y \in Cmd : In(y, contReqs) <=> In(y, contReqs') \/ y = x
        /\ ~In(x, contReqs')
    BY <2>1, <2>2, InTail, Zenon
  <2> HIDE DEF x
  <2>4. /\ cmd' \in [Cmd -> CmdType]
        /\ \A y \in Cmd : cmd'[y].kind = cmd[y].kind /\ cmd'[y].done = cmd[y].done
        /\ \A y \in Cmd : cmd'[y].cont = IF y = x THEN "done" ELSE cmd[y].cont
    BY <2>1, <2>3, Zenon DEF ClientInv, TypeOK, CmdType
  <2>5. /\ pc' \in [Proc -> CallerAt \cup ReaderAt] /\ pc'[Reader] = "await"
        /\ \A p \in Proc : p # Reader => pc'[p] = pc[p]
    BY <1>1, <2>1 DEF ClientInv, TypeOK, CallerAt, ReaderAt
  <2>6. TypeOK'
    BY <1>2, <1>3, <2>1, <2>3, <2>4, <2>5 DEF ClientInv, TypeOK, CallerAt, ReaderAt
  <2>7. Places'
    BY <1>1, <1>2, <2>5 DEF ClientInv, Places, ReaderAt
  <2>8. Locked' /\ CompletedOnce'
    BY <1>1, <1>2, <2>4, <2>5 DEF ClientInv, Locked, CompletedOnce
  <2>9. \A c \in Caller : cur[c] \in Cmd
    BY CallerKnows, Zenon
  <2>10. Lists'
    <3>1. \A p \in Proc : pc'[p] # "doom" => doomed[p] = <<>>
      BY <1>1, <1>2, <2>5, Zenon DEF ClientInv, Lists
    <3>2. \A y \in Cmd : Listed(y)' <=> Listed(y)
      BY <1>2 DEF Listed
    <3>3. \A c \in Caller : pc'[c] = "enc" => cmd'[cur[c]].done = 0 /\ ~Listed(cur[c])
      BY <1>1, <2>4, <2>5, <2>9, Zenon DEF ClientInv, Lists
    <3> QED BY <1>2, <2>4, <2>9, <3>1, <3>2, <3>3, Zenon DEF ClientInv, Lists
  <2>11. NoCommandForgotten'
    BY <1>1, <1>2, <2>4, <2>5, <2>9 DEF ClientInv, NoCommandForgotten, Listed
  <2>12. DeadlineRight'
    <3>1. TimeoutFor(pending)' = TimeoutFor(pending)
      BY <1>2, <2>4, TimeoutKept DEF ClientInv, TypeOK
    <3> QED BY <2>1, <2>5, <3>1 DEF DeadlineRight
  <2>13. Requests'
    <3>1. \A y \in Cmd : CommandFits(y)'
      <4> SUFFICES ASSUME NEW y \in Cmd PROVE CommandFits(y)'
        OBVIOUS
      <4>1. CommandFits(y)
        BY Zenon DEF ClientInv, Requests
      <4>2. /\ In(y, contReqs) <=> In(y, contReqs') \/ y = x
            /\ ~In(x, contReqs')
            /\ cmd'[y].kind = cmd[y].kind
            /\ cmd'[y].cont = IF y = x THEN "done" ELSE cmd[y].cont
        BY <2>3, <2>4
      <4> QED BY ONLY <4>1, <4>2, Zenon DEF CommandFits
    <3>2. cmd[x].cont = "queued"
      BY <2>3, Zenon DEF ClientInv, Requests, CommandFits, CallerFits
    <3>3. ASSUME NEW d \in Caller
          PROVE  CallerFits(pc[d], cmd'[cur[d]].kind, cmd'[cur[d]].cont, cmd'[cur[d]].done)
      <4>1. CallerFits(pc[d], cmd[cur[d]].kind, cmd[cur[d]].cont, cmd[cur[d]].done)
        BY Zenon DEF ClientInv, Requests
      <4>2. /\ cmd'[cur[d]].kind = cmd[cur[d]].kind /\ cmd'[cur[d]].done = cmd[cur[d]].done
            /\ cmd'[cur[d]].cont = IF cur[d] = x THEN "done" ELSE cmd[cur[d]].cont
        BY <2>4, <2>9, Zenon
      <4>3. CASE cur[d] # x
        BY ONLY <4>1, <4>2, <4>3, Zenon
      <4>4. CASE cur[d] = x
        <5>1. cmd[cur[d]].cont = "queued" /\ cmd'[cur[d]].cont = "done"
          BY <3>2, <4>2, <4>4, Zenon
        <5> QED BY ONLY <4>1, <4>2, <5>1, Zenon DEF CallerFits
      <4> QED BY <4>3, <4>4
    <3> QED BY <1>1, <1>2, <2>3, <2>5, <3>1, <3>3, Zenon DEF Requests
  <2> QED BY <2>6, <2>7, <2>8, <2>10, <2>11, <2>12, <2>13 DEF ClientInv
<1> QED BY <1>4, <1>5

(* readResponseTagged takes a command off the pending list and completes it. *)
LEMMA TaggedKept ==
  ASSUME ClientInv, ReadResponseTagged
  PROVE  ClientInv'
<1> DEFINE x == Head(down).cmd
<1>1. Reader \in Proc /\ Reader \notin Caller /\ \A d \in Caller : d \in Proc /\ d # Reader
  BY ClientAssumption DEF Proc
<1>2. /\ pc[Reader] = "decode" /\ down' = Tail(down)
      /\ UNCHANGED <<cur, encMutex, doomed, open, up, server, left, greeted>>
  BY DEF ReadResponseTagged, Decoded
<1>3. /\ down' \in Seq(Line) /\ greeted \in BOOLEAN /\ deadline \in {"response", "idle", "reader"}
  <2>1. down \in Seq(Line) /\ Len(down) > 0
    BY <1>2 DEF ClientInv, TypeOK, Places
  <2>2. down' \in Seq(Line)
    BY <1>2, <2>1
  <2> QED BY <2>2 DEF ClientInv, TypeOK
<1>4. CASE ~In(x, pending)
  <2>1. pc' = [pc EXCEPT ![Reader] = "close"] /\ UNCHANGED <<deadline, cmd, pending, contReqs>>
    BY <1>4 DEF ReadResponseTagged, Abort
  <2> HIDE DEF x
  <2> QED BY <1>2, <1>3, <2>1, ReaderMoves DEF ReaderAt
<1>5. CASE In(x, pending)
  <2>1. /\ pending' = Without(pending, x) /\ Complete(x)
        /\ Park(pending') \/ Abort
    BY <1>5 DEF ReadResponseTagged
  <2> HIDE DEF x
  <2>2. /\ pending \in Seq(Cmd) /\ Distinct(pending) /\ x \in Cmd
    BY <1>5 DEF ClientInv, TypeOK, Lists, In
  <2>3. /\ pending' \in Seq(Cmd) /\ Distinct(pending')
        /\ \A y \in Cmd : In(y, pending') <=> In(y, pending) /\ y # x
    BY <2>1, <2>2, InWithout, Zenon
  <2>4. cmd[x].done = 0 /\ \A p \in Proc : ~In(x, doomed[p])
    BY <1>5, <2>2, Zenon DEF ClientInv, Lists, Listed
  <2>5. \A y \in Cmd : Listed(y)' <=> Listed(y) /\ y # x
    BY <1>2, <2>3, <2>4 DEF Listed
  <2>6. PICK l \in {"await", "close"} :
          /\ pc' = [pc EXCEPT ![Reader] = l]
          /\ deadline' = IF l = "await" THEN TimeoutFor(pending') ELSE deadline
    BY <2>1 DEF Park, Abort
  <2>7. /\ pc' \in [Proc -> CallerAt \cup ReaderAt] /\ pc'[Reader] = l
        /\ \A p \in Proc : p # Reader => pc'[p] = pc[p]
    BY <1>1, <2>6 DEF ClientInv, TypeOK, CallerAt, ReaderAt
  <2>8. /\ CompletedOnce' /\ NoCommandForgotten' /\ Requests'
        /\ \A y \in Cmd : Listed(y)' => cmd'[y].done = 0
        /\ \A c \in Caller : pc'[c] = "enc" /\ cur[c] # x
                               => cmd'[cur[c]].done = 0 /\ ~Listed(cur[c])'
    BY <1>1, <1>2, <2>1, <2>2, <2>4, <2>5, <2>7, CompleteKept, Zenon
  <2>9. /\ cmd' \in [Cmd -> CmdType] /\ contReqs' \in Seq(Cmd)
        /\ \A y \in Cmd : cmd'[y].kind = cmd[y].kind
    BY <2>1, <2>2, <2>4, Completed, Zenon
  <2>10. TypeOK'
    BY <1>2, <1>3, <2>3, <2>6, <2>7, <2>9 DEF ClientInv, TypeOK, CallerAt, ReaderAt, TimeoutFor
  <2>11. Places'
    BY <1>1, <1>2, <2>7 DEF ClientInv, Places, ReaderAt
  <2>12. Locked'
    BY <1>1, <1>2, <2>7 DEF ClientInv, Locked
  <2>13. Lists'
    <3>1. \A p \in Proc : pc'[p] # "doom" => doomed[p] = <<>>
      BY <1>2, <2>7, Zenon DEF ClientInv, Lists
    <3>2. \A y \in Cmd, p \in Proc : In(y, doomed[p]) => ~In(y, pending')
      BY <2>3 DEF ClientInv, Lists
    <3>3. \A c \in Caller : pc'[c] = "enc" => cmd'[cur[c]].done = 0 /\ ~Listed(cur[c])'
      <4>1. \A c \in Caller : pc'[c] = "enc" => cur[c] # x
        BY <1>1, <1>5, <2>7, Zenon DEF ClientInv, Lists, Listed
      <4> QED BY <2>8, <4>1
    <3> QED BY <1>2, <2>3, <2>8, <3>1, <3>2, <3>3, Zenon DEF ClientInv, Lists
  <2>14. DeadlineRight'
    <3>1. TimeoutFor(pending)' = TimeoutFor(pending')
      BY <2>3, <2>9, TimeoutKept
    <3> QED BY <2>6, <2>7, <3>1 DEF DeadlineRight
  <2> QED BY <2>8, <2>10, <2>11, <2>12, <2>13, <2>14 DEF ClientInv
<1> QED BY <1>4, <1>5

(* A client that has just been made. *)
LEMMA ClientStarts == Init => ClientInv
<1> SUFFICES ASSUME Init PROVE ClientInv
  OBVIOUS
<1>1. /\ Reader \in Proc /\ Reader \notin Caller /\ NoCaller \notin Cmd
      /\ \A c \in Caller : c \in Proc /\ c # Reader /\ <<c, 0>> \in Cmd
  BY ClientAssumption DEF Proc, Cmd
<1>2. /\ pc[Reader] = "read" /\ \A c \in Caller : pc[c] = "out" /\ cur[c] = <<c, 0>>
      /\ pc \in [Proc -> {"out", "read"}] /\ cur \in [Caller -> Cmd]
      /\ \A p \in Proc : doomed[p] = <<>>
      /\ \A x \in Cmd : cmd[x] = Unsent
      /\ server.at = "new" /\ server.cmd = NoCaller
  BY <1>1 DEF Init
<1>3. Unsent \in CmdType /\ Unsent.kind = "plain" /\ Unsent.cont = "none" /\ Unsent.done = 1
  BY DEF Unsent, CmdType, Kind
<1>4. <<>> \in Seq(Line)
  OBVIOUS
<1>5. TypeOK
  <2>1. server \in ServerType
    BY DEF Init, ServerType
  <2> QED BY <1>1, <1>2, <1>3, <1>4, <2>1, InEmpty, Zenon DEF Init, TypeOK
<1>6. Places
  BY <1>1, <1>2 DEF Init, Places, CallerAt, ReaderAt
<1>7. Locked /\ CompletedOnce /\ NoCommandForgotten
  <2>1. CompletedOnce
    <3>1. \A y \in Cmd : cmd[y].done = 1
      BY <1>2, <1>3, Zenon
    <3> QED BY ONLY <3>1 DEF CompletedOnce
  <2> QED BY <1>2, <2>1 DEF Locked, NoCommandForgotten, Holding
<1>8. Lists
  BY <1>2, InEmpty DEF Init, Lists, Listed
<1>9. DeadlineRight
  BY <1>2 DEF Init, DeadlineRight, TimeoutFor
<1>10. Requests
  BY <1>1, <1>2, <1>3, InEmpty, Zenon DEF Init, Requests, CommandFits, CallerFits
<1> QED BY <1>5, <1>6, <1>7, <1>8, <1>9, <1>10 DEF ClientInv

(* Every step of the client and of the server keeps the invariant. *)
LEMMA ClientSteps == ClientInv /\ [Next]_vars => ClientInv'
<1> SUFFICES ASSUME ClientInv, [Next]_vars PROVE ClientInv'
  OBVIOUS
<1>1. ASSUME NEW c \in Caller, CallerStep(c) PROVE ClientInv'
  BY <1>1, SendSteps, StartKept, BeginKept, RespondKept, WaitKept, Zenon DEF CallerStep
<1>2. ASSUME NEW p \in Proc, Failing(p) PROVE ClientInv'
  BY <1>2, CloseConnKept, SwapKept, DoomKept, ClosedKept, Zenon DEF Failing
<1>3. ASSUME ReaderStep PROVE ClientInv'
  BY <1>3, ReadSteps, ContinueReqKept, TaggedKept, Zenon DEF ReaderStep
<1>4. ASSUME Close \/ Greet \/ Serve \/ ServeRest \/ HangUp PROVE ClientInv'
  BY <1>4, ServerSteps, Zenon
<1>5. ASSUME UNCHANGED vars PROVE ClientInv'
  <2>1. TypeOK' /\ Places' /\ Locked' /\ CompletedOnce'
    BY <1>5, Zenon DEF vars, ClientInv, TypeOK, Places, Locked, CompletedOnce
  <2>2. Lists' /\ NoCommandForgotten' /\ DeadlineRight' /\ Requests'
    BY <1>5, Zenon DEF vars, ClientInv, Lists, NoCommandForgotten, DeadlineRight, Requests, CommandFits, CallerFits, Listed, TimeoutFor
  <2> QED BY <2>1, <2>2 DEF ClientInv
<1> QED BY <1>1, <1>2, <1>3, <1>4, <1>5, Zenon DEF Next

(* The invariant of the client's pipeline: who holds encMutex, on which     *)
(* list a command is, what its continuation request is at, and which read   *)
(* deadline stands.                                                         *)
THEOREM ClientInvariant == Spec => []ClientInv
BY ClientStarts, ClientSteps, PTL DEF Spec

(* The state of the pipeline keeps its types. *)
THEOREM ClientTypes == Spec => []TypeOK
<1>1. ClientInv => TypeOK
  BY DEF ClientInv
<1> QED BY <1>1, ClientInvariant, PTL

(* A command completes at most once, whichever of the read goroutine, its   *)
(* closeWithError and that of a caller whose write failed ends it: the done *)
(* channel is sent on and closed once.                                      *)
THEOREM CompletesOnce == Spec => []CompletedOnce
<1>1. ClientInv => CompletedOnce
  BY DEF ClientInv
<1> QED BY <1>1, ClientInvariant, PTL

(* beginAwaitResponse, endAwaitResponse and beginCommand together keep the  *)
(* read deadline what the pending commands call for, from the greeting on.  *)
THEOREM DeadlineFits == Spec => []DeadlineRight
<1>1. ClientInv => DeadlineRight
  BY DEF ClientInv
<1> QED BY <1>1, ClientInvariant, PTL

(* A caller that waits for a command that has not completed waits for one   *)
(* that is on a list: the pending commands or those a closeWithError is     *)
(* completing.  None is lost between the two.                               *)
THEOREM NothingForgotten == Spec => []NoCommandForgotten
<1>1. ClientInv => NoCommandForgotten
  BY DEF ClientInv
<1> QED BY <1>1, ClientInvariant, PTL

=============================================================================
