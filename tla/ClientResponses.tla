-------------------------- MODULE ClientResponses --------------------------
(***************************************************************************)
(* What a client makes of the responses it reads (imapclient): untagged    *)
(* data is given to the first pending command that accepts it, and what    *)
(* they say of the connection and of the selected mailbox is mirrored.     *)
(*                                                                         *)
(* The server is the environment.  A response is sent and read in one      *)
(* step: that the client may send commands before it reads a response is   *)
(* in the order of the steps, for the server starts a command when it      *)
(* likes.  It answers commands side by side where RFC 9051 section 5.5     *)
(* finds no ambiguity, which the comment on Client refers to.              *)
(***************************************************************************)
EXTENDS Integers, Sequences, SequencesExt, FiniteSets

CONSTANTS
    Key,      \* mailboxes, and quota roots
    NoKey,
    Root,     \* [Key -> Key]: the quota root of a mailbox
    Plans,    \* sets of commands that are sent together
    Closes,   \* values of: the server sends CLOSED
    MaxMsgs,  \* bound: messages in a mailbox
    MaxEvents \* bound: what the server reports of its own accord

(* The request that setCaps sends in a goroutine of its own when c has made   *)
(* the capabilities unknown.                                                 *)
Refresh(c) == [tag |-> c.tag + 100, kind |-> "CAPABILITY", keys |-> {}, ret |-> ""]

Invalidating == {"LOGIN", "UNAUTHENTICATE"}

Cmd == LET sent == UNION Plans
       IN sent \cup {Refresh(c) : c \in {d \in sent : d.kind \in Invalidating}}

(* A command: what it is, the mailboxes or the root it is about, and whether *)
(* it asks for more: for a STATUS or METADATA with each LIST, for ESEARCH.   *)
CmdType == [tag : Nat, kind : STRING, keys : SUBSET Key, ret : STRING]

ASSUME ResponsesAssumption ==
    /\ NoKey \notin Key /\ Root \in [Key -> Key]
    /\ \A c \in Cmd : c \in CmdType
    /\ \A c, d \in Cmd : c.tag = d.tag => c = d
    /\ Closes \subseteq BOOLEAN /\ MaxMsgs \in Nat /\ MaxEvents \in Nat

VARIABLES
    offered,  \* commands not sent yet
    pending,  \* pendingCmds
    done,     \* commands that completed with OK
    data,     \* what each command was given, see DataType
    state,    \* Client.state
    mailbox,  \* Client.mailbox
    caps,     \* Client.caps: the server's state when it listed them, or none
    enabled,  \* Client.enabled
    forget,   \* the command that completed, with the capabilities still to forget
    srv,      \* the server: its state, its mailboxes and the selected one
    todo,     \* what it will send for each command it has started
    events,   \* what it may still report
    astray    \* history: the last report of a count did not reach the mailbox

conn == <<state, mailbox, caps, enabled>>

vars == <<offered, pending, done, data, conn, forget, srv, todo, events, astray>>

NoMailbox == [key |-> NoKey, n |-> 0, ro |-> FALSE, flags |-> 0]

Entry == [typ : STRING, key : Key \cup {NoKey}, extra : BOOLEAN]

NoEntry == [typ |-> "", key |-> NoKey, extra |-> FALSE]

DataType == [
    got  : SUBSET Entry,     \* results
    held : Entry,            \* ListCommand.pendingData
    root : Key \cup {NoKey}, \* GetQuotaRootCommand.roots
    n    : 0..MaxMsgs, ro : BOOLEAN, flags : 0..1]   \* SelectCommand.data

NoData == [got |-> {}, held |-> NoEntry, root |-> NoKey, n |-> 0, ro |-> FALSE, flags |-> 0]

Pending == {pending[i] : i \in 1..Len(pending)}

Started == DOMAIN todo

Init ==
    /\ offered \in Plans /\ pending = <<>> /\ done = {}
    /\ data = [c \in offered |-> NoData]
    /\ state \in {"not authenticated", "authenticated"} /\ mailbox = NoMailbox
    /\ caps = "" /\ enabled = FALSE /\ forget = {}
    /\ srv \in [state : {state}, sel : {NoKey}, n : {[k \in Key |-> 1]},
                ro : {FALSE}, flags : {0}, enabled : {FALSE}, closes : Closes]
    /\ todo = <<>>
    /\ events = MaxEvents /\ astray = FALSE

-----------------------------------------------------------------------------

(* The commands that callers send. *)
Command(tag, kind, keys, ret) == [tag |-> tag, kind |-> kind, keys |-> keys, ret |-> ret]

Select(tag, k) == Command(tag, "SELECT", {k}, "")

Unselect(tag) == Command(tag, "UNSELECT", {}, "")

Expunge(tag) == Command(tag, "EXPUNGE", {}, "")

Login(tag) == Command(tag, "LOGIN", {}, "")

Unauthenticate(tag) == Command(tag, "UNAUTHENTICATE", {}, "")

Logout(tag) == Command(tag, "LOGOUT", {}, "")

Enable(tag) == Command(tag, "ENABLED", {}, "")

Capability(tag) == Command(tag, "CAPABILITY", {}, "")

(* The mailboxes its pattern matches, and "STATUS" or "METADATA" with each. *)
List(tag, keys, ret) == Command(tag, "LIST", keys, ret)

Lsub(tag, keys) == Command(tag, "LSUB", keys, "")

Status(tag, k) == Command(tag, "STATUS", {k}, "")

GetMetadata(tag, k) == Command(tag, "METADATA", {k}, "")

(* Answered by ESEARCH when there are return options, SORT by ESORT too. *)
Search(tag, ret) == Command(tag, "SEARCH", {}, ret)

Sort(tag, ret) == Command(tag, "SORT", {}, ret)

MultiSearch(tag) == Command(tag, "MULTISEARCH", Key, "ESEARCH")

Thread(tag) == Command(tag, "THREAD", {}, "")

GetQuota(tag, k) == Command(tag, "QUOTA", {k}, "")

GetQuotaRoot(tag, k) == Command(tag, "QUOTAROOT", {k}, "")

MyRights(tag, k) == Command(tag, "MYRIGHTS", {k}, "")

GetACL(tag, k) == Command(tag, "ACL", {k}, "")

ListRights(tag, k) == Command(tag, "LISTRIGHTS", {k}, "")

ID(tag) == Command(tag, "ID", {}, "")

Namespace(tag) == Command(tag, "NAMESPACE", {}, "")

Move(tag, k) == Command(tag, "COPYUID", {k}, "")

-----------------------------------------------------------------------------

(* findPendingCmdFunc: the first of C, if there is one. *)
Found(C) == {c \in C : \A i \in 1..Len(pending) :
                pending[i] = c => \A j \in 1..(i - 1) : pending[j] \notin C}

(* findPendingCmdByType. *)
OfKind(K) == {c \in Pending : c.kind \in K}

(* The command found is given a response; without one it is unsolicited.     *)
(* `given` is what each of those that qualify would have then.               *)
Give(given) ==
    data' = [c \in DOMAIN data |-> IF c \in Found(DOMAIN given) THEN given[c] ELSE data[c]]

Result(typ, key, extra) == [typ |-> typ, key |-> key, extra |-> extra]

GiveResult(C, typ, key) ==
    Give([c \in C |-> [data[c] EXCEPT !.got = @ \cup {Result(typ, key, FALSE)}]])

Flushed(d) == IF d.held = NoEntry THEN d.got ELSE d.got \cup {d.held}

(* ListCommand.matches. *)
Matches(c, key) == key \in c.keys

(* A LIST that waits for STATUS or METADATA keeps the entry back. *)
HandleList(key) ==
    LET C == {c \in OfKind({"LIST"}) : Matches(c, key)}
                \cup {c \in OfKind({"SELECT"}) : key \in c.keys /\ data[c].got = {}}
        entry == Result("LIST", key, FALSE)
    IN Give([c \in C |-> IF c.ret = "" THEN [data[c] EXCEPT !.got = @ \cup {entry}]
                         ELSE [data[c] EXCEPT !.got = Flushed(data[c]), !.held = entry]])

HandleLsub(key) ==
    LET matching == {c \in OfKind({"LSUB"}) : Matches(c, key)} IN
    GiveResult(IF matching = {} THEN OfKind({"LSUB"}) ELSE matching, "LSUB", key)

Holds(c, typ, key) == c.kind = "LIST" /\ c.ret = typ /\ data[c].held.key = key

(* A STATUS command merges what it gets, a LIST lets the entry go. *)
GivenStatus(c, key, all) ==
    IF c.kind = "STATUS" THEN [data[c] EXCEPT !.got = @ \cup {Result("STATUS", key, all)}]
    ELSE [data[c] EXCEPT !.got = @ \cup {[data[c].held EXCEPT !.extra = all]}, !.held = NoEntry]

\* Mutant: it goes to the first command that waits for a STATUS.
HandleStatusFirst(key, all) ==
    LET C == {c \in Pending : c.kind = "STATUS" \/ (c.kind = "LIST" /\ c.ret = "STATUS"
                /\ data[c].held # NoEntry)}
    IN Give([c \in C |-> GivenStatus(c, key, all)])

(* STATUS of all the items asked for, or of some. *)
HandleStatus(key, all) ==
    LET C == {c \in Pending : (c.kind = "STATUS" /\ key \in c.keys) \/ Holds(c, "STATUS", key)}
    IN Give([c \in C |-> GivenStatus(c, key, all)])

HandleMetadata(key) ==
    LET C == {c \in Pending : (c.kind = "METADATA" /\ key \in c.keys) \/ Holds(c, "METADATA", key)}
    IN Give([c \in C |->
            IF c.kind = "METADATA"
            THEN [data[c] EXCEPT !.got = @ \cup {Result("METADATA", key, FALSE)}]
            ELSE [data[c] EXCEPT !.held.extra = TRUE]])

HandleSearch == GiveResult(OfKind({"SEARCH"}), "SEARCH", NoKey)

(* By its tag, to a SEARCH, a SORT or a search of several mailboxes. *)
HandleESearch(key, tag) ==
    GiveResult({c \in OfKind({"SEARCH", "SORT", "MULTISEARCH"}) : c.tag = tag}, "ESEARCH", key)

HandleSort == GiveResult(OfKind({"SORT"}), "SORT", NoKey)

HandleESort == GiveResult(OfKind({"SORT"}), "ESORT", NoKey)

HandleThread == GiveResult(OfKind({"THREAD"}), "THREAD", NoKey)

HandleQuota(key) ==
    GiveResult({c \in OfKind({"QUOTA", "QUOTAROOT"}) :
                    IF c.kind = "QUOTA" THEN key \in c.keys ELSE key = data[c].root},
               "QUOTA", key)

HandleQuotaRoot(key) ==
    LET C == {c \in OfKind({"QUOTAROOT"}) : key \in c.keys}
    IN Give([c \in C |-> [data[c] EXCEPT !.root = Root[key]]])

HandleMyRights(key) == GiveResult(OfKind({"MYRIGHTS"}), "MYRIGHTS", key)

HandleGetACL(key) == GiveResult(OfKind({"ACL"}), "ACL", key)

HandleListRights(key) == GiveResult(OfKind({"LISTRIGHTS"}), "LISTRIGHTS", key)

HandleID == GiveResult(OfKind({"ID"}), "ID", NoKey)

HandleNamespace == GiveResult(OfKind({"NAMESPACE"}), "NAMESPACE", NoKey)

(* The code COPYUID in an untagged OK. *)
HandleCopyUID(key) == GiveResult(OfKind({"COPYUID"}), "COPYUID", key)

HandleEnabled ==
    /\ enabled' = TRUE
    /\ GiveResult(OfKind({"ENABLED"}), "ENABLED", NoKey)

HandleCapability ==
    /\ caps' = srv.state
    /\ GiveResult(OfKind({"CAPABILITY"}), "CAPABILITY", NoKey)

(* Client.mailbox is only updated with a mailbox selected. *)
Mirrored(m) == mailbox' = IF state = "selected" THEN m ELSE mailbox

Selecting == OfKind({"SELECT"})

HandleExists(n) ==
    /\ Give([c \in Selecting |-> [data[c] EXCEPT !.n = n]])
    /\ IF Selecting = {} THEN Mirrored([mailbox EXCEPT !.n = n]) ELSE UNCHANGED mailbox
    /\ UNCHANGED <<state, caps, enabled>>

Less(n, k) == IF n < k THEN 0 ELSE n - k

HandleExpunge ==
    /\ Mirrored([mailbox EXCEPT !.n = Less(@, 1)])
    /\ GiveResult(OfKind({"EXPUNGE"}), "EXPUNGE", NoKey)
    /\ UNCHANGED <<state, caps, enabled>>

\* Mutant: only the mailbox that is selected is adjusted.
HandleVanishedSelectedOnly(k) ==
    /\ Mirrored([mailbox EXCEPT !.n = Less(@, k)])
    /\ UNCHANGED <<data, state, caps, enabled>>

(* VANISHED without EARLIER, of k messages. *)
HandleVanished(k) ==
    /\ Give([c \in Selecting |-> [data[c] EXCEPT !.n = Less(@, k)]])
    /\ Mirrored([mailbox EXCEPT !.n = Less(@, k)])
    /\ UNCHANGED <<state, caps, enabled>>

HandleFlags(f) ==
    /\ Give([c \in Selecting |-> [data[c] EXCEPT !.flags = f]])
    /\ Mirrored([mailbox EXCEPT !.flags = f])
    /\ UNCHANGED <<state, caps, enabled>>

(* The code READ-ONLY or READ-WRITE in an untagged OK. *)
SetMailboxReadOnly(ro) ==
    /\ Give([c \in Selecting |-> [data[c] EXCEPT !.ro = ro]])
    /\ Mirrored([mailbox EXCEPT !.ro = ro])
    /\ UNCHANGED <<state, caps, enabled>>

SetState(s) == state' = s /\ mailbox' = IF s = "selected" THEN mailbox ELSE NoMailbox

(* The code CLOSED. *)
HandleClosed == SetState("authenticated") /\ UNCHANGED <<data, caps, enabled>>

(* readResponseData for the results of commands. *)
HandleResult(typ, key, tag) ==
    /\ CASE typ = "LIST" -> HandleList(key)
         [] typ = "LSUB" -> HandleLsub(key)
         [] typ = "STATUS" -> HandleStatus(key, TRUE)
         [] typ = "METADATA" -> HandleMetadata(key)
         [] typ = "SEARCH" -> HandleSearch
         [] typ = "ESEARCH" -> HandleESearch(key, tag)
         [] typ = "SORT" -> HandleSort
         [] typ = "ESORT" -> HandleESort
         [] typ = "THREAD" -> HandleThread
         [] typ = "QUOTA" -> HandleQuota(key)
         [] typ = "QUOTAROOT" -> HandleQuotaRoot(key)
         [] typ = "MYRIGHTS" -> HandleMyRights(key)
         [] typ = "ACL" -> HandleGetACL(key)
         [] typ = "LISTRIGHTS" -> HandleListRights(key)
         [] typ = "ID" -> HandleID
         [] typ = "NAMESPACE" -> HandleNamespace
         [] typ = "COPYUID" -> HandleCopyUID(key)
         [] typ = "ENABLED" -> HandleEnabled
         [] typ = "CAPABILITY" -> HandleCapability
    /\ UNCHANGED <<state, mailbox>>
    /\ IF typ = "ENABLED" THEN TRUE ELSE UNCHANGED enabled
    /\ IF typ = "CAPABILITY" THEN TRUE ELSE UNCHANGED caps

(* The codes of a tagged response: the access to the mailbox, and the        *)
(* capabilities, by the state they are those of.                             *)
Access == {"READ-ONLY", "READ-WRITE"}

Listing == {"not authenticated", "authenticated"}

(* completeCommand: what a command's completion says of the connection, and  *)
(* the entry that LIST still keeps back.                                     *)
CompleteCommand(c, status, ro) ==
    /\ data' = [data EXCEPT ![c].got = Flushed(data[c]), ![c].held = NoEntry, ![c].ro = ro]
    /\ CASE c.kind = "LOGIN" /\ status = "OK" -> SetState("authenticated")
         [] c.kind = "UNAUTHENTICATE" /\ status = "OK" -> SetState("not authenticated")
         [] c.kind = "SELECT" /\ status = "OK" ->
                /\ state' = "selected"
                /\ mailbox' = [key |-> CHOOSE k \in c.keys : TRUE, n |-> data[c].n,
                               ro |-> ro, flags |-> data[c].flags]
         [] c.kind = "SELECT" /\ status = "NO" /\ state = "selected" -> SetState("authenticated")
         [] c.kind = "UNSELECT" /\ status = "OK" -> SetState("authenticated")
         [] c.kind = "LOGOUT" /\ status = "OK" -> SetState("logout")
         [] OTHER -> UNCHANGED <<state, mailbox>>
    /\ enabled' = (enabled /\ ~(c.kind = "UNAUTHENTICATE" /\ status = "OK"))

(* readResponseTagged, up to completeCommand: the caller is released there. *)
ReadResponseTagged(c, status, code) ==
    /\ pending' = SelectSeq(pending, LAMBDA d : d # c)
    /\ CompleteCommand(c, status, IF code \in Access THEN code = "READ-ONLY" ELSE data[c].ro)
    /\ caps' = IF code \in Listing THEN code ELSE caps
    /\ forget' = IF c.kind \in Invalidating /\ status = "OK" /\ code \notin Listing
                 THEN {c} ELSE {}

(* The rest of it, before the next response is read: the capabilities that   *)
(* the command has made unknown are forgotten, and asked for.                *)
SetCaps(c) ==
    /\ c \in forget
    /\ forget' = {}
    /\ caps' = ""
    /\ offered' = offered \cup {Refresh(c)}
    /\ data' = [d \in DOMAIN data \cup {Refresh(c)} |-> IF d = Refresh(c) THEN NoData ELSE data[d]]
    /\ UNCHANGED <<pending, done, state, mailbox, enabled, srv, todo, events, astray>>

-----------------------------------------------------------------------------

(* A caller sends a command. *)
Send(c) ==
    /\ c \in offered
    /\ offered' = offered \ {c}
    /\ pending' = Append(pending, c)
    /\ UNCHANGED <<done, data, conn, forget, srv, todo, events, astray>>

(* Commands that change what the others mean. *)
Exclusive(c) == c.kind \in {"SELECT", "UNSELECT", "LOGIN", "UNAUTHENTICATE", "LOGOUT", "ENABLED", "EXPUNGE"}

(* The answers that name what they are about. *)
Keyed(typ) == typ \in {"LIST", "STATUS", "METADATA", "QUOTA", "MYRIGHTS", "ACL", "LISTRIGHTS"}

Answers(c) ==
    (IF c.ret = "" THEN {} ELSE {c.ret})
        \cup CASE c.kind = "QUOTAROOT" -> {"QUOTA"}
               [] c.kind \in {"SEARCH", "SORT", "MULTISEARCH"} /\ c.ret # "" -> {}
               [] OTHER -> {c.kind}

About(c) == IF c.kind = "QUOTAROOT" THEN {Root[k] : k \in c.keys} ELSE c.keys

(* RFC 9051 section 5.5: the answers of one cannot be told from the other's. *)
(* ESEARCH has the tag, but only when both are answered so.                  *)
Ambiguous(c, d) ==
    \/ Exclusive(c) \/ Exclusive(d)
    \/ \E typ \in (Answers(c) \cap Answers(d)) \ {"ESEARCH"} :
            ~Keyed(typ) \/ About(c) \cap About(d) # {}
    \/ c.kind = d.kind /\ c.kind \in {"SEARCH", "SORT"} /\ c.ret # d.ret

Says(typ, key, tag) == [typ |-> typ, key |-> key, tag |-> tag]

(* What the server sends for a command, in order. *)
Script(c) ==
    LET key == IF c.keys = {} THEN NoKey ELSE CHOOSE k \in c.keys : TRUE
        EachKey(f(_)) == FlattenSeq([i \in 1..Cardinality(c.keys) |-> f(SetToSeq(c.keys)[i])])
    IN
    CASE c.kind = "LIST" -> EachKey(LAMBDA k : <<Says("LIST", k, 0)>>
                                \o IF c.ret = "" THEN <<>> ELSE <<Says(c.ret, k, 0)>>)
      [] c.kind = "LSUB" -> EachKey(LAMBDA k : <<Says("LSUB", k, 0)>>)
      [] c.kind = "MULTISEARCH" -> EachKey(LAMBDA k : <<Says("ESEARCH", k, c.tag)>>)
      [] c.kind = "QUOTAROOT" -> <<Says("QUOTAROOT", key, 0), Says("QUOTA", Root[key], 0)>>
      [] c.kind \in {"SEARCH", "SORT"} /\ c.ret # "" -> <<Says(c.ret, key, c.tag)>>
      [] c.kind = "SELECT" -> <<Says("EXISTS", key, 0), Says("FLAGS", key, 0), Says("LIST", key, 0)>>
      [] c.kind \in {"UNSELECT", "LOGIN", "UNAUTHENTICATE", "LOGOUT", "EXPUNGE"} -> <<>>
      [] OTHER -> <<Says(c.kind, key, 0)>>

Allowed(c) ==
    CASE c.kind = "LOGIN" -> srv.state = "not authenticated"
      [] c.kind \in {"UNSELECT", "EXPUNGE", "COPYUID"} -> srv.sel # NoKey
      [] c.kind \in {"LOGOUT", "CAPABILITY", "ID"} -> srv.state # "logout"
      [] OTHER -> srv.state = "authenticated"

(* It starts on a command, or refuses it.  SELECT first closes the mailbox   *)
(* that is selected, unless it is malformed: BAD.  The client makes no       *)
(* difference between NO and BAD for the others.                             *)
Start(c) ==
    /\ c \in Pending \ Started
    /\ \A i, j \in 1..Len(pending) : j < i /\ pending[i] = c => ~Ambiguous(c, pending[j])
    /\ \E status \in {"OK", "NO", "BAD"} :
        LET closing == c.kind = "SELECT" /\ srv.sel # NoKey /\ status # "BAD"
            script == (IF closing /\ srv.closes THEN <<Says("CLOSED", NoKey, 0)>> ELSE <<>>)
                      \o IF status = "OK" THEN Script(c) ELSE <<Says(status, NoKey, 0)>>
        IN
        /\ status = "OK" => Allowed(c)
        /\ status = "BAD" => c.kind = "SELECT"
        /\ c.kind = "LOGOUT" => status = "OK"
        /\ todo' = [d \in Started \cup {c} |-> IF d = c THEN script ELSE todo[d]]
        /\ srv' = IF closing THEN [srv EXCEPT !.sel = NoKey] ELSE srv
    /\ UNCHANGED <<offered, pending, done, data, conn, forget, events, astray>>

Refusal(r) == r.typ \in {"NO", "BAD"}

(* The client reads on once it is through with a tagged response. *)
Reads == forget = {} /\ UNCHANGED forget

(* It sends the next response for a command, and the client reads it. *)
Respond(c) ==
    /\ Reads
    /\ c \in Started /\ Len(todo[c]) > 0 /\ ~Refusal(Head(todo[c]))
    /\ todo' = [todo EXCEPT ![c] = Tail(@)]
    /\ LET r == Head(todo[c]) IN
       /\ CASE r.typ = "CLOSED" -> HandleClosed /\ UNCHANGED srv
            [] r.typ = "EXISTS" -> /\ HandleExists(srv.n[r.key])
                                   /\ srv' = [srv EXCEPT !.sel = r.key, !.ro = FALSE, !.flags = 0]
            [] r.typ = "FLAGS" -> HandleFlags(srv.flags) /\ UNCHANGED srv
            [] r.typ = "ENABLED" -> HandleResult(r.typ, r.key, r.tag) /\ srv' = [srv EXCEPT !.enabled = TRUE]
            [] OTHER -> HandleResult(r.typ, r.key, r.tag) /\ UNCHANGED srv
       /\ astray' = (astray /\ r.typ # "EXISTS")
    /\ UNCHANGED <<offered, pending, done, events>>

ServerState(c) ==
    CASE c.kind = "LOGIN" -> [srv EXCEPT !.state = "authenticated"]
      [] c.kind = "UNAUTHENTICATE" ->
            [srv EXCEPT !.state = "not authenticated", !.sel = NoKey, !.enabled = FALSE]
      [] c.kind = "UNSELECT" -> [srv EXCEPT !.sel = NoKey]
      [] c.kind = "LOGOUT" -> [srv EXCEPT !.state = "logout", !.sel = NoKey]
      [] OTHER -> srv

(* It sends the tagged response: with the access when it has opened a        *)
(* mailbox, as the server of this repository does, and with the capabilities *)
(* or without when they have changed.                                        *)
Tagged(c) ==
    /\ forget = {}
    /\ c \in Started
    /\ \/ todo[c] = <<>>
       \/ Len(todo[c]) = 1 /\ Refusal(Head(todo[c]))
    /\ LET status == IF todo[c] = <<>> THEN "OK" ELSE Head(todo[c]).typ
           after == IF status = "OK" THEN ServerState(c) ELSE srv
       IN
       /\ todo' = [d \in Started \ {c} |-> todo[d]]
       /\ done' = IF status = "OK" THEN done \cup {c} ELSE done
       /\ srv' = after
       /\ \E code \in IF status # "OK" THEN {""}
                       ELSE IF c.kind = "SELECT" THEN {IF srv.ro THEN "READ-ONLY" ELSE "READ-WRITE"}
                       ELSE IF c.kind \in Invalidating THEN {"", after.state}
                       ELSE {""} :
              ReadResponseTagged(c, status, code)
    /\ UNCHANGED <<offered, events, astray>>

(* A SELECT has been answered up to EXISTS. *)
Opening ==
    \E c \in Started : c.kind = "SELECT" /\ srv.sel # NoKey /\ ~\E i \in 1..Len(todo[c]) : Refusal(todo[c][i])

(* What happens in the selected mailbox is reported.  The count goes astray  *)
(* when the EXISTS of the mailbox is taken for that of a SELECT the server   *)
(* has not come to, or refuses as malformed; and when EXPUNGE comes between  *)
(* the EXISTS of a SELECT and its end, where only VANISHED is counted.  The  *)
(* next EXISTS puts it right.                                                *)
Arrive ==
    /\ Reads
    /\ srv.sel # NoKey /\ srv.n[srv.sel] < MaxMsgs /\ events > 0
    /\ events' = events - 1
    /\ srv' = [srv EXCEPT !.n[srv.sel] = @ + 1]
    /\ HandleExists(srv.n[srv.sel] + 1)
    /\ astray' = (Selecting # {} /\ ~Opening)
    /\ UNCHANGED <<offered, pending, done, todo>>

Vanish ==
    /\ Reads
    /\ srv.sel # NoKey /\ srv.n[srv.sel] > 0 /\ events > 0
    /\ events' = events - 1
    /\ srv' = [srv EXCEPT !.n[srv.sel] = @ - 1]
    /\ \/ HandleVanished(1) /\ UNCHANGED astray
       \/ HandleExpunge /\ astray' = (astray \/ Opening)
    /\ UNCHANGED <<offered, pending, done, todo>>

AccessChanges ==
    /\ Reads
    /\ srv.sel # NoKey /\ events > 0
    /\ events' = events - 1
    /\ srv' = [srv EXCEPT !.ro = ~@]
    /\ SetMailboxReadOnly(~srv.ro)
    /\ UNCHANGED <<offered, pending, done, todo, astray>>

FlagsChange ==
    /\ Reads
    /\ srv.sel # NoKey /\ events > 0
    /\ events' = events - 1
    /\ srv' = [srv EXCEPT !.flags = 1 - @]
    /\ HandleFlags(1 - srv.flags)
    /\ UNCHANGED <<offered, pending, done, todo, astray>>

(* NOTIFY reports on a mailbox: some items of its STATUS, not of the one a   *)
(* LIST waits for, or its LIST, which no command in progress asks for.       *)
Notify(k) ==
    /\ Reads
    /\ srv.state = "authenticated" /\ events > 0
    /\ events' = events - 1
    /\ \/ /\ \A c \in Pending : ~Holds(c, "STATUS", k)
          /\ HandleStatus(k, FALSE)
       \/ /\ \A c \in OfKind({"LIST", "SELECT"}) : k \notin c.keys
          /\ HandleList(k)
    /\ UNCHANGED <<offered, pending, done, conn, srv, todo, astray>>

Next ==
    \/ \E c \in Cmd : Send(c) \/ Start(c) \/ Respond(c) \/ Tagged(c) \/ SetCaps(c)
    \/ Arrive \/ Vanish \/ AccessChanges \/ FlagsChange
    \/ \E k \in Key : Notify(k)

Spec == Init /\ [][Next]_vars

-----------------------------------------------------------------------------

(* Type correctness of the client's state. *)
TypeOK ==
    /\ offered \subseteq Cmd /\ pending \in Seq(Cmd) /\ done \subseteq Cmd
    /\ \A c \in DOMAIN data : data[c] \in DataType
    /\ state \in {"not authenticated", "authenticated", "selected", "logout"}
    /\ mailbox \in [key : Key \cup {NoKey}, n : 0..MaxMsgs, ro : BOOLEAN, flags : 0..1]
    /\ caps \in {"", "not authenticated", "authenticated"} /\ enabled \in BOOLEAN
    /\ events \in 0..MaxEvents /\ forget \subseteq Cmd /\ astray \in BOOLEAN

(* The results a command is owed. *)
Owed(c) ==
    {Result(Script(c)[i].typ, Script(c)[i].key, c.kind = "STATUS" \/ (c.kind = "LIST" /\ c.ret # "")) :
        i \in {j \in 1..Len(Script(c)) :
            IF c.kind = "LIST" THEN Script(c)[j].typ = "LIST"
            ELSE Script(c)[j].typ \notin {"EXISTS", "FLAGS", "QUOTAROOT"}}}

(* The client does not look at the mailbox in these answers, so that of two  *)
(* such commands in progress one gets the answer of the other.               *)
Confused(c) ==
    /\ c.kind \in {"MYRIGHTS", "ACL", "LISTRIGHTS"}
    /\ \E d \in DOMAIN data \ {c} : d.kind = c.kind

(* With these commands in progress, and notifications among the answers, a   *)
(* command gets what the server sends for it, whole and nothing else: each   *)
(* mailbox of a LIST with its own STATUS or METADATA, a search its numbers.  *)
(* A STATUS command may get more items than it asked for, and EXPUNGE        *)
(* messages that others removed.  Not so two MYRIGHTS, ACL or LISTRIGHTS.    *)
RepliesGoHome ==
    \A c \in {d \in done : ~Confused(d)} :
        /\ Owed(c) \subseteq data[c].got
        /\ c.kind \in {"STATUS", "EXPUNGE"} \/ data[c].got \subseteq Owed(c)

(* When no command in progress is about to change it, the client's state is  *)
(* the server's, its mailbox has the server's access and flags and, unless a *)
(* report of it went astray (see Arrive), its count, and the capabilities,   *)
(* but between the completion of a command and their being forgotten, and    *)
(* the extensions are those of the server's state: through pipelined SELECTs *)
(* and refused ones, NO or BAD, with CLOSED and without, and what happens in *)
(* the old mailbox and in the new one meanwhile.                             *)
MirrorExact ==
    (\A c \in Pending : ~Exclusive(c)) =>
        /\ state = IF srv.sel # NoKey THEN "selected" ELSE srv.state
        /\ mailbox = IF srv.sel = NoKey THEN NoMailbox
                     ELSE [key |-> srv.sel, n |-> IF astray THEN mailbox.n ELSE srv.n[srv.sel],
                           ro |-> srv.ro, flags |-> srv.flags]
        /\ enabled = srv.enabled
        /\ caps \in {"", srv.state} \/ forget # {} \/ srv.state = "logout"
=============================================================================
