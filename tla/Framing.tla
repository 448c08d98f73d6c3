------------------------------ MODULE Framing ------------------------------
(***************************************************************************)
(* How commands are cut out of the stream of bytes from the client         *)
(* (internal/imapwire and readCommand of imapserver).  A command is a line *)
(* that literals interrupt: `{n}` at the end of a line announces octets    *)
(* that the client sends once it is asked to, `{n+}` octets it sends at    *)
(* once.  The handler of a command may fail at any point of it, and the    *)
(* rest has to be skipped before the next command is read.                 *)
(*                                                                         *)
(* The stream holds tokens: the text of a command's part k, the            *)
(* announcement of its literal k, an end of line, the octets of literal k. *)
(***************************************************************************)
EXTENDS Integers, Sequences

CONSTANTS
    Shapes,      \* commands the client sends
    MaxCommands, \* bound: commands
    LateErrors   \* whether a handler may fail on what a literal says

(* Sizes of literals: up to 4096, up to 64K, up to 1G octets, and above. *)
Sizes == {"small", "medium", "large", "huge"}

(* A command: its literals, if the last one is the message of an APPEND, and *)
(* if text follows it.                                                       *)
ShapeType == [literals : Seq([sync : BOOLEAN, size : Sizes]), append : BOOLEAN, tail : BOOLEAN]

ASSUME FramingAssumption ==
    /\ \A s \in Shapes : s \in ShapeType
    /\ MaxCommands \in Nat \ {0} /\ LateErrors \in BOOLEAN

VARIABLES
    shape,    \* what each command is
    cli,      \* the client: the command and part it writes next, if it waits
    wire,     \* what the server has not read
    srv,      \* the server: what it does, of which command
    dec,      \* the decoder of this command
    replies,  \* what the client has not read
    answered, \* commands with a tagged response
    closed    \* the connection is

framingVars == <<shape, cli, wire, srv, dec, replies, answered, closed>>

Token(typ, c, k) == [typ |-> typ, c |-> c, k |-> k]

NewDecoder == [literal |-> FALSE, pending |-> "", crlf |-> FALSE, desynced |-> FALSE]

InitFraming ==
    /\ shape \in [1..MaxCommands -> Shapes]
    /\ cli = [c |-> 1, k |-> 0, waiting |-> FALSE]
    /\ wire = <<>>
    /\ srv = [pc |-> "boundary", c |-> 0, k |-> 0, at |-> Token("text", 1, 0)]
    /\ dec = NewDecoder
    /\ replies = <<>> /\ answered = <<>> /\ closed = FALSE

-----------------------------------------------------------------------------
(* The client. *)

Literals(c) == shape[c].literals

(* The tokens of command c from its literal k on, up to where it must wait. *)
Chunk(c, k) ==
    LET n == Len(Literals(c))
        stops == {j \in (k + 1)..n : Literals(c)[j].sync}
        stop == IF stops = {} THEN n + 1 ELSE CHOOSE j \in stops : \A i \in stops : j <= i
        Part(j) ==
            (IF j = 0 THEN <<>> ELSE <<Token("octets", c, j)>>)
            \o (IF j = n /\ n > 0 /\ ~shape[c].tail THEN <<>> ELSE <<Token("text", c, j)>>)
            \o (IF j = n THEN <<>> ELSE <<Token("literal", c, j + 1)>>)
            \o <<Token("crlf", c, j)>>
        upTo[j \in k..stop] == IF j = k THEN <<>> ELSE upTo[j - 1] \o Part(j - 1)
    IN [tokens |-> upTo[stop], waits |-> stop <= n, k |-> IF stop <= n THEN stop ELSE 0]

WriteChunk(c, k) ==
    LET chunk == Chunk(c, k) IN
    /\ wire' = wire \o chunk.tokens
    /\ cli' = IF chunk.waits THEN [c |-> c, k |-> chunk.k, waiting |-> TRUE]
              ELSE [c |-> c + 1, k |-> 0, waiting |-> FALSE]

(* It writes a command, to its end or to where it has to wait. *)
Write ==
    /\ ~closed /\ ~cli.waiting /\ cli.c <= MaxCommands
    /\ WriteChunk(cli.c, 0)
    /\ UNCHANGED <<shape, srv, dec, replies, answered, closed>>

(* It reads a response.  Asked for octets it goes on; if it waits and the    *)
(* command is answered it gives up the command, as any client, or the        *)
(* connection, as imapclient.                                                *)
ReadReply ==
    /\ ~closed /\ replies # <<>>
    /\ replies' = Tail(replies)
    /\ IF Head(replies).typ = "continue"
       THEN cli.waiting /\ WriteChunk(cli.c, cli.k) /\ UNCHANGED closed
       ELSE /\ UNCHANGED wire
            /\ IF cli.waiting /\ cli.c = Head(replies).c
               THEN /\ cli' = [c |-> cli.c + 1, k |-> 0, waiting |-> FALSE]
                    /\ closed' \in BOOLEAN
               ELSE UNCHANGED <<cli, closed>>
    /\ UNCHANGED <<shape, srv, dec, answered>>

-----------------------------------------------------------------------------
(* The server. *)

NextIs(typ) == ~closed /\ wire # <<>> /\ Head(wire).typ = typ

(* readCommand skips empty lines. *)
SkipEmptyLine ==
    /\ srv.pc = "boundary" /\ NextIs("crlf")
    /\ wire' = Tail(wire)
    /\ UNCHANGED <<shape, cli, srv, dec, replies, answered, closed>>

(* serve, readCommand: what comes next is taken for a command. *)
ReadCommand ==
    /\ srv.pc = "boundary" /\ ~closed /\ wire # <<>> /\ Head(wire).typ # "crlf"
    /\ srv' = [pc |-> "arguments", c |-> Head(wire).c, k |-> 0, at |-> Head(wire)]
    /\ dec' = NewDecoder
    /\ UNCHANGED <<shape, cli, wire, replies, answered, closed>>

(* The handler reads arguments up to a literal or the end of the line. *)
ParseText ==
    /\ srv.pc = "arguments" /\ NextIs("text")
    /\ wire' = Tail(wire)
    /\ dec' = [dec EXCEPT !.crlf = FALSE]
    /\ UNCHANGED <<shape, cli, srv, replies, answered, closed>>

(* ExpectCRLF: the command is complete. *)
ParseEnd ==
    /\ srv.pc = "arguments" /\ NextIs("crlf")
    /\ wire' = Tail(wire)
    /\ dec' = [dec EXCEPT !.crlf = TRUE]
    /\ srv' = [srv EXCEPT !.pc = "discard"]
    /\ UNCHANGED <<shape, cli, replies, answered, closed>>

(* The handler fails, with or without having looked at what comes next. *)
ParseError ==
    /\ srv.pc = "arguments" /\ ~closed
    /\ \E looked \in BOOLEAN :
        /\ IF looked THEN wire # <<>> ELSE dec.crlf => LateErrors
        /\ dec' = [dec EXCEPT !.crlf = @ /\ ~looked]
    /\ srv' = [srv EXCEPT !.pc = "discard"]
    /\ UNCHANGED <<shape, cli, wire, replies, answered, closed>>

Announced == Literals(Head(wire).c)[Head(wire).k]

\* Mutant: what is left of a literal is not kept.
CancelForgetful(d, lit) == [d EXCEPT !.literal = FALSE]

(* LiteralReader.cancel, with nothing read: octets under way are kept in mind. *)
Cancel(d, lit) == [d EXCEPT !.literal = FALSE, !.pending = IF lit.sync THEN "" ELSE lit.size]

(* Decoder.LiteralReader, for a size that is refused on sight. *)
LiteralOutOfBounds ==
    /\ srv.pc = "arguments" /\ NextIs("literal") /\ Announced.size = "huge"
    /\ wire' = Tail(wire)
    /\ dec' = [dec EXCEPT !.crlf = FALSE, !.desynced = ~Announced.sync]
    /\ srv' = [srv EXCEPT !.pc = "discard"]
    /\ UNCHANGED <<shape, cli, replies, answered, closed>>

(* The announcement and its end of line are read. *)
Opened == [dec EXCEPT !.crlf = TRUE, !.literal = TRUE]

\* Mutant: the octets are not asked for.
AcceptedSilently(lit) ==
    /\ dec' = Opened
    /\ srv' = [srv EXCEPT !.pc = "octets", !.k = Head(wire).k]
    /\ UNCHANGED replies

(* acceptLiteral: the client is asked for the octets it holds back. *)
Accepted(lit) ==
    /\ dec' = Opened
    /\ srv' = [srv EXCEPT !.pc = "octets", !.k = Head(wire).k]
    /\ replies' = IF lit.sync THEN Append(replies, [typ |-> "continue", c |-> srv.c]) ELSE replies

(* Decoder.Literal with checkBufferedLiteral: a literal that is read into    *)
(* memory is refused above 4096 octets; acceptLiteral asks for it.           *)
ParseLiteral ==
    /\ srv.pc = "arguments" /\ NextIs("literal") /\ Announced.size # "huge"
    /\ ~(shape[srv.c].append /\ Head(wire).k = Len(Literals(srv.c)))
    /\ wire' = SubSeq(wire, 3, Len(wire))
    /\ IF Announced.size = "small" THEN Accepted(Announced)
       ELSE /\ dec' = Cancel(Opened, Announced)
            /\ srv' = [srv EXCEPT !.pc = "discard"]
            /\ UNCHANGED replies
    /\ UNCHANGED <<shape, cli, answered, closed>>

(* handleAppend, its message: refused for the state, the limit or its size,  *)
(* and then read away if it is under way; else asked for.                    *)
AppendLiteral ==
    /\ srv.pc = "arguments" /\ NextIs("literal") /\ Announced.size # "huge"
    /\ shape[srv.c].append /\ Head(wire).k = Len(Literals(srv.c))
    /\ wire' = SubSeq(wire, 3, Len(wire))
    /\ \/ Accepted(Announced)
       \/ /\ dec' = Opened
          /\ srv' = [srv EXCEPT !.pc = IF Announced.sync THEN "discard" ELSE "drain", !.k = Head(wire).k]
          /\ UNCHANGED replies
    /\ UNCHANGED <<shape, cli, answered, closed>>

(* LiteralReader.Read to its end. *)
ReadOctets ==
    /\ srv.pc = "octets" /\ NextIs("octets")
    /\ wire' = Tail(wire)
    /\ dec' = [dec EXCEPT !.literal = FALSE]
    /\ srv' = [srv EXCEPT !.pc = "arguments"]
    /\ UNCHANGED <<shape, cli, replies, answered, closed>>

(* drainLiteral: the octets, and the end of the line if it is next. *)
DrainLiteral ==
    /\ srv.pc = "drain" /\ NextIs("octets") /\ Len(wire) > 1
    /\ LET atEnd == wire[2].typ = "crlf" IN
       /\ wire' = SubSeq(wire, IF atEnd THEN 3 ELSE 2, Len(wire))
       /\ dec' = [dec EXCEPT !.literal = FALSE, !.crlf = atEnd]
    /\ srv' = [srv EXCEPT !.pc = "discard"]
    /\ UNCHANGED <<shape, cli, replies, answered, closed>>

(* endsWithNonSyncLiteral, of a line that ends at i. *)
EndsWithNonSyncLiteral(i) ==
    i > 1 /\ wire[i - 1].typ = "literal" /\ ~Literals(wire[i - 1].c)[wire[i - 1].k].sync

(* DiscardLine: the octets that are under way, if they are not too many. *)
DiscardOctets ==
    /\ srv.pc = "discard" /\ dec.pending # "" /\ ~closed
    /\ IF dec.pending = "large"
       THEN /\ dec' = [dec EXCEPT !.pending = "", !.desynced = TRUE]
            /\ srv' = [srv EXCEPT !.pc = "respond"]
            /\ UNCHANGED wire
       ELSE /\ NextIs("octets") /\ wire' = Tail(wire)
            /\ dec' = [dec EXCEPT !.pending = "", !.crlf = FALSE]
            /\ UNCHANGED srv
    /\ UNCHANGED <<shape, cli, replies, answered, closed>>

(* DiscardLine: the rest of the line, if its end has not been read. *)
DiscardRest ==
    /\ srv.pc = "discard" /\ dec.pending = "" /\ ~closed
    /\ IF dec.crlf THEN UNCHANGED <<wire, dec>>
       ELSE \E i \in 1..Len(wire) :
            /\ wire[i].typ = "crlf" /\ \A j \in 1..(i - 1) : wire[j].typ # "crlf"
            /\ wire' = SubSeq(wire, i + 1, Len(wire))
            /\ dec' = [dec EXCEPT !.crlf = TRUE, !.desynced = @ \/ EndsWithNonSyncLiteral(i)]
    /\ srv' = [srv EXCEPT !.pc = "respond"]
    /\ UNCHANGED <<shape, cli, replies, answered, closed>>

(* readCommand: the tagged response, or BYE. *)
Respond ==
    /\ srv.pc = "respond" /\ ~closed
    /\ IF dec.desynced
       THEN closed' = TRUE /\ UNCHANGED <<replies, answered>>
       ELSE /\ replies' = Append(replies, [typ |-> "tagged", c |-> srv.c])
            /\ answered' = Append(answered, srv.c)
            /\ UNCHANGED closed
    /\ srv' = [srv EXCEPT !.pc = "boundary"]
    /\ dec' = NewDecoder
    /\ UNCHANGED <<shape, cli, wire>>

(* A command that is too long, or that has no tag or name, ends it all. *)
CommandRefused ==
    /\ srv.pc = "arguments" /\ NextIs("text")
    /\ closed' = TRUE
    /\ UNCHANGED <<shape, cli, wire, srv, dec, replies, answered>>

Server ==
    \/ SkipEmptyLine \/ ReadCommand \/ ParseText \/ ParseEnd \/ ParseError
    \/ LiteralOutOfBounds \/ ParseLiteral \/ AppendLiteral \/ ReadOctets \/ DrainLiteral
    \/ DiscardOctets \/ DiscardRest \/ Respond \/ CommandRefused

NextFraming == Write \/ ReadReply \/ Server

-----------------------------------------------------------------------------

(* What the server takes for a command is the beginning of one, and it       *)
(* answers commands in turn, each once: wherever a handler gives up, and     *)
(* whatever literals are refused, under way, too large to skip or not asked  *)
(* for, nothing of one command is read as another (the comment on            *)
(* DiscardLine).  Octets are asked for of the command that waits for it.     *)
AtBoundary ==
    /\ srv.at.typ = "text" /\ srv.at.k = 0
    /\ answered = [i \in 1..Len(answered) |-> i]
    /\ \A i \in 1..Len(replies) :
        replies[i].typ = "continue" => cli.waiting /\ cli.c = replies[i].c

(* Client and server never wait for each other: until every command is       *)
(* answered or the connection ends, one of them can go on.  A command takes  *)
(* finitely many steps, so that each is answered in the end.                 *)
NoStandstill == closed \/ Len(answered) = MaxCommands \/ ENABLED NextFraming
=============================================================================
