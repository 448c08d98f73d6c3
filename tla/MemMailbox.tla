----------------------------- MODULE MemMailbox -----------------------------
(***************************************************************************)
(* The in-memory backend (imapserver/imapmemserver): the mailboxes of one  *)
(* user and the commands of the sessions on them.                          *)
(*                                                                         *)
(* A mailbox object is named by its UIDVALIDITY, which the user's counter  *)
(* makes unique; dir is User.mailboxes.  A mailbox's list of messages is   *)
(* in UID order, so it is a function on the set of its UIDs.  A step is a  *)
(* critical section of Mailbox.mutex: a command takes several where the    *)
(* code releases the mutex in between (EXPUNGE, SELECT), and holds the     *)
(* mutex of the source over the critical sections of the destination in    *)
(* COPY and MOVE.  What the handlers give to the mailbox tracker is the    *)
(* subject of MailboxTracker, the NOTIFY events they raise of Connection.  *)
(*                                                                         *)
(* Each session's client keeps a cache of what it was told of one mailbox, *)
(* which outlives the connection: it is what QRESYNC brings up to date.    *)
(***************************************************************************)
EXTENDS Integers, FiniteSets, Functions

CONSTANTS
    Name,       \* mailbox names
    Session,    \* sessions of the user
    NoSession,  \* the holder of a free mutex
    Keyword,    \* flags other than \Deleted and \Seen
    Does,       \* what each session's client does: STORE, FETCH, EXPUNGE, COPY
    Visits,     \* the names each session selects
    Volatile,   \* names that are deleted and renamed
    NumSet,     \* UID sets the commands name
    StoreFlags, \* flag lists of the STOREs
    AppendFlags,\* flag lists of the APPENDs
    MaxBox,     \* bound: mailboxes created
    MaxUID,     \* bound: UIDs given by a mailbox
    MaxChanges  \* bound: changes of all mailboxes (mod-sequences taken)

Deleted == "deleted"
Seen    == "seen"
Flag    == {Deleted, Seen} \cup Keyword

NoBox == 0
Box   == 1 .. MaxBox
UID   == 1 .. MaxUID

ASSUME MemAssumption ==
    /\ NoSession \notin Session
    /\ IsFiniteSet(Keyword) /\ Seen \notin Keyword
    /\ Does \in [Session -> SUBSET {"store", "fetch", "expunge", "copy"}]
    /\ Visits \in [Session -> SUBSET Name]
    /\ Volatile \subseteq Name
    /\ NumSet \subseteq SUBSET UID
    /\ StoreFlags \subseteq SUBSET Flag /\ AppendFlags \subseteq SUBSET Flag
    /\ MaxBox \in Nat /\ MaxUID \in Nat /\ MaxChanges \in Nat

VARIABLES
    dir,              \* User.mailboxes: Name -> the mailbox, or NoBox
    prevUidValidity,  \* User.prevUidValidity
    box,              \* the mailboxes, by UIDVALIDITY
    mutex,            \* holder of each Mailbox.mutex
    sess              \* UserSession, and the command it is in

vars == <<dir, prevUidValidity, box, mutex, sess>>

(***************************************************************************)
(* msg is Mailbox.l and expunged the log of removed UIDs with their        *)
(* mod-sequence.  origin is history: for each UID given, the message it    *)
(* stands for, as the mailbox and UID of its first append.                 *)
(***************************************************************************)
NoMessages == [u \in {} |-> u]

NewMailbox ==
    [msg |-> NoMessages, uidNext |-> 1, highestModSeq |-> 1,
     expunged |-> NoMessages, origin |-> NoMessages]

(***************************************************************************)
(* mailbox is UserSession.mailbox.  pc is "ready" or the command that is   *)
(* between two critical sections, with its arguments and locals in set     *)
(* (UIDs still to handle), moved, dest, from (UIDNEXT when the view was    *)
(* made) and resync.  cache is the client's: flags of the messages it      *)
(* knows in the mailbox of that UIDVALIDITY, as of that mod-sequence.      *)
(***************************************************************************)
NoCache == [box |-> NoBox, modSeq |-> 0, flags |-> NoMessages]

NewSession ==
    [mailbox |-> NoBox, pc |-> "ready", set |-> {}, moved |-> {},
     dest |-> NoBox, from |-> 0, resync |-> FALSE, cache |-> NoCache]

Init ==
    /\ dir = [n \in Name |-> NoBox]
    /\ prevUidValidity = 0
    /\ box = [b \in Box |-> NewMailbox]
    /\ mutex = [b \in Box |-> NoSession]
    /\ sess = [s \in Session |-> NewSession]

FS == INSTANCE FiniteSetsExt

MayChange(k) ==
    FS!MapThenSumSet(LAMBDA b : box[b].highestModSeq - 1, Box) + k <= MaxChanges

Free(b) == mutex[b] = NoSession
Ready(s) == sess[s].pc = "ready"
Caches(s) == "fetch" \in Does[s]
Selected(s) == Ready(s) /\ sess[s].mailbox # NoBox
Extend(f, u, x) == [w \in DOMAIN f \cup {u} |-> IF w = u THEN x ELSE f[w]]

-----------------------------------------------------------------------------
(***************************************************************************)
(* User.create, delete and rename, under User.mutex.                       *)
(***************************************************************************)
(* Mutant: a re-created mailbox gets the UIDVALIDITY of the last one. *)
NextUidValidityReused == IF prevUidValidity = 0 THEN 1 ELSE prevUidValidity

NextUidValidity == prevUidValidity + 1

Create(n) ==
    /\ dir[n] = NoBox
    /\ NextUidValidity \in Box
    /\ prevUidValidity' = NextUidValidity
    /\ box' = [box EXCEPT ![NextUidValidity] = NewMailbox]
    /\ dir' = [dir EXCEPT ![n] = NextUidValidity]
    /\ UNCHANGED <<mutex, sess>>

Delete(n) ==
    /\ dir[n] # NoBox
    /\ dir' = [dir EXCEPT ![n] = NoBox]
    /\ UNCHANGED <<prevUidValidity, box, mutex, sess>>

Rename(n, m) ==
    /\ dir[n] # NoBox
    /\ dir[m] = NoBox
    /\ Free(dir[n])
    /\ dir' = [dir EXCEPT ![m] = dir[n], ![n] = NoBox]
    /\ UNCHANGED <<prevUidValidity, box, mutex, sess>>

(***************************************************************************)
(* Mailbox.appendBytes: the next UID, a new mod-sequence.                  *)
(***************************************************************************)
CanAppend(b) ==
    /\ Free(b)
    /\ box[b].uidNext \in UID
    /\ MayChange(1)

Appended(b, flags, origin) ==
    [box EXCEPT
        ![b].msg = Extend(@, box[b].uidNext,
                          [flags |-> flags, modSeq |-> box[b].highestModSeq + 1]),
        ![b].origin = Extend(@, box[b].uidNext, origin),
        ![b].uidNext = @ + 1,
        ![b].highestModSeq = @ + 1]

Append(n, flags) ==
    /\ dir[n] # NoBox
    /\ CanAppend(dir[n])
    /\ box' = Appended(dir[n], flags, <<dir[n], box[dir[n]].uidNext>>)
    /\ UNCHANGED <<dir, prevUidValidity, mutex, sess>>

(* Mutant: the removal is logged with the mod-sequence before it. *)
ExpungedEarlier(b, U) ==
    LET gone == U \cap DOMAIN box[b].msg
        modSeq == box[b].highestModSeq
    IN  [box EXCEPT
            ![b].msg = Restrict(@, DOMAIN @ \ gone),
            ![b].expunged = [u \in DOMAIN @ \cup gone |->
                                IF u \in gone THEN modSeq ELSE @[u]],
            ![b].highestModSeq = @ + 1]

(***************************************************************************)
(* Mailbox.expungeLocked: one mod-sequence for all, even if none is left.  *)
(***************************************************************************)
Expunged(b, U) ==
    LET gone == U \cap DOMAIN box[b].msg
        modSeq == box[b].highestModSeq + 1
    IN  [box EXCEPT
            ![b].msg = Restrict(@, DOMAIN @ \ gone),
            ![b].expunged = [u \in DOMAIN @ \cup gone |->
                                IF u \in gone THEN modSeq ELSE @[u]],
            ![b].highestModSeq = modSeq]

(* Mailbox.Expunge: collect under the mutex, release it, remove. *)
ExpungeCollect(s, U) ==
    LET b == sess[s].mailbox
        found == {u \in U \cap DOMAIN box[b].msg : Deleted \in box[b].msg[u].flags}
    IN  /\ Selected(s)
        /\ Free(b)
        /\ found # {}
        /\ sess' = [sess EXCEPT ![s].pc = "expunge", ![s].set = found]
        /\ UNCHANGED <<dir, prevUidValidity, box, mutex>>

ExpungeRemove(s) ==
    LET b == sess[s].mailbox IN
    /\ sess[s].pc = "expunge"
    /\ Free(b)
    /\ MayChange(1)
    /\ box' = Expunged(b, sess[s].set)
    /\ sess' = [sess EXCEPT ![s].pc = "ready", ![s].set = {}]
    /\ UNCHANGED <<dir, prevUidValidity, mutex>>

(***************************************************************************)
(* message.store and MailboxView.Store: under the mutex, message after     *)
(* message in UID order, each changed one taking the next mod-sequence.    *)
(* since is UNCHANGEDSINCE, or NoSince when the STORE is unconditional.    *)
(***************************************************************************)
NoSince == -1
StoreOp == {"set", "add", "del"}

StoredFlags(old, op, flags) ==
    CASE op = "set" -> flags
      [] op = "add" -> old \cup flags
      [] op = "del" -> old \ flags

(* Mutant: UNCHANGEDSINCE is not checked. *)
MayStoreAlways(m, since) == TRUE

MayStore(m, since) == since = NoSince \/ m.modSeq <= since

Changed(b, U, op, flags, since) ==
    {u \in U \cap DOMAIN box[b].msg :
        /\ MayStore(box[b].msg[u], since)
        /\ StoredFlags(box[b].msg[u].flags, op, flags) # box[b].msg[u].flags}

Rank(S, u) == Cardinality({w \in S : w <= u})

Store(s, U, op, flags, since) ==
    LET b == sess[s].mailbox
        changed == Changed(b, U, op, flags, since)
    IN  /\ Selected(s)
        /\ Free(b)
        /\ changed # {}
        /\ MayChange(Cardinality(changed))
        /\ box' = [box EXCEPT
                ![b].msg = [u \in DOMAIN @ |->
                    IF u \in changed
                    THEN [flags |-> StoredFlags(@[u].flags, op, flags),
                          modSeq |-> box[b].highestModSeq + Rank(changed, u)]
                    ELSE @[u]],
                ![b].highestModSeq = @ + Cardinality(changed)]
        /\ UNCHANGED <<dir, prevUidValidity, mutex, sess>>

(***************************************************************************)
(* MailboxView.Fetch of FLAGS, with CHANGEDSINCE (0 when absent) and, when *)
(* a body section is not PEEKed, \Seen set without a new mod-sequence.     *)
(* The client remembers the flags it is sent for the mailbox it caches.    *)
(***************************************************************************)
Fetched(b, U, changedSince) ==
    {u \in U \cap DOMAIN box[b].msg :
        changedSince > 0 => box[b].msg[u].modSeq > changedSince}

Fetch(s, U, changedSince, markSeen) ==
    LET b == sess[s].mailbox
        fetched == Fetched(b, U, changedSince)
        seen == IF markSeen THEN {Seen} ELSE {}
        sent(u) == box[b].msg[u].flags \cup seen
    IN  /\ Selected(s)
        /\ Free(b)
        /\ box' = [box EXCEPT ![b].msg =
                [u \in DOMAIN @ |->
                    IF u \in fetched THEN [@[u] EXCEPT !.flags = sent(u)] ELSE @[u]]]
        /\ sess' = [sess EXCEPT ![s].cache.flags =
                [u \in DOMAIN @ \cup fetched |-> IF u \in fetched THEN sent(u) ELSE @[u]]]
        /\ UNCHANGED <<dir, prevUidValidity, mutex>>

(***************************************************************************)
(* UserSession.Select: the view is registered with the tracker (NewView,   *)
(* which does not take the mailbox's mutex), then the data is read under   *)
(* the mutex (selectData).  A message appended in between has no sequence  *)
(* number in the view yet, and is left out of the Modified list, though    *)
(* the mod-sequence of the response covers it.  A client with a cache of   *)
(* this UIDVALIDITY may resynchronise; any other starts afresh.            *)
(***************************************************************************)
SelectView(s, n, resync) ==
    /\ Ready(s)
    /\ dir[n] # NoBox
    /\ sess' = [sess EXCEPT ![s].pc = "select", ![s].mailbox = dir[n],
                            ![s].from = box[dir[n]].uidNext, ![s].resync = resync]
    /\ UNCHANGED <<dir, prevUidValidity, box, mutex>>

(* Mutant: an expunge right after the client's mod-sequence is left out. *)
VanishedLater(b, modSeq) ==
    {u \in DOMAIN box[b].expunged : box[b].expunged[u] > modSeq + 1}

Vanished(b, modSeq) ==
    {u \in DOMAIN box[b].expunged : box[b].expunged[u] > modSeq}

Modified(b, modSeq, from) ==
    {u \in DOMAIN box[b].msg : box[b].msg[u].modSeq > modSeq /\ u < from}

Resynced(c, b, from) ==
    LET modified == Modified(b, c.modSeq, from)
        known == (DOMAIN c.flags \ Vanished(b, c.modSeq)) \cup modified
    IN  [box |-> b, modSeq |-> box[b].highestModSeq,
         flags |-> [u \in known |->
                     IF u \in modified THEN box[b].msg[u].flags ELSE c.flags[u]]]

SelectData(s) ==
    LET b == sess[s].mailbox
        c == sess[s].cache
    IN  /\ sess[s].pc = "select"
        /\ Free(b)
        /\ sess' = [sess EXCEPT
                ![s].pc = "ready", ![s].from = 0, ![s].resync = FALSE,
                ![s].cache =
                    CASE ~Caches(s) -> NoCache
                      [] sess[s].resync /\ c.box = b -> Resynced(c, b, sess[s].from)
                      [] OTHER -> [box |-> b, modSeq |-> box[b].highestModSeq,
                                   flags |-> NoMessages]]
        /\ UNCHANGED <<dir, prevUidValidity, box, mutex>>

(* UserSession.Unselect, and Close when the connection ends. *)
Unselect(s) ==
    /\ Selected(s)
    /\ sess' = [sess EXCEPT ![s].mailbox = NoBox]
    /\ UNCHANGED <<dir, prevUidValidity, box, mutex>>

(***************************************************************************)
(* UserSession.Copy and Move: the destination is looked up first; then the *)
(* mutex of the selected mailbox is held while copyMsg takes that of the   *)
(* destination for each message; MOVE ends with expungeLocked.             *)
(***************************************************************************)
CopyBegin(s, U, n, move) ==
    LET b == sess[s].mailbox IN
    /\ Selected(s)
    /\ dir[n] \notin {NoBox, b}
    /\ Free(b)
    /\ mutex' = [mutex EXCEPT ![b] = s]
    /\ sess' = [sess EXCEPT ![s].pc = IF move THEN "move" ELSE "copy",
                            ![s].dest = dir[n],
                            ![s].set = U \cap DOMAIN box[b].msg]
    /\ UNCHANGED <<dir, prevUidValidity, box>>

CopyMsg(s, u) ==
    LET b == sess[s].mailbox IN
    /\ sess[s].pc \in {"copy", "move"}
    /\ u \in sess[s].set
    /\ \A w \in sess[s].set : u <= w
    /\ CanAppend(sess[s].dest)
    /\ box' = Appended(sess[s].dest, box[b].msg[u].flags, box[b].origin[u])
    /\ sess' = [sess EXCEPT ![s].set = @ \ {u}, ![s].moved = @ \cup {u}]
    /\ UNCHANGED <<dir, prevUidValidity, mutex>>

(* Mutant: MOVE removes what it has not copied yet. *)
CopyEndEarly(s) ==
    LET b == sess[s].mailbox IN
    /\ sess[s].pc = "move"
    /\ MayChange(1)
    /\ box' = Expunged(b, sess[s].moved \cup sess[s].set)
    /\ mutex' = [mutex EXCEPT ![b] = NoSession]
    /\ sess' = [sess EXCEPT ![s].pc = "ready", ![s].moved = {}, ![s].set = {},
                            ![s].dest = NoBox]
    /\ UNCHANGED <<dir, prevUidValidity>>

CopyEnd(s) ==
    LET b == sess[s].mailbox IN
    /\ sess[s].pc \in {"copy", "move"}
    /\ sess[s].set = {}
    /\ IF sess[s].pc = "move"
       THEN /\ MayChange(1)
            /\ box' = Expunged(b, sess[s].moved)
       ELSE box' = box
    /\ mutex' = [mutex EXCEPT ![b] = NoSession]
    /\ sess' = [sess EXCEPT ![s].pc = "ready", ![s].moved = {}, ![s].dest = NoBox]
    /\ UNCHANGED <<dir, prevUidValidity>>

-----------------------------------------------------------------------------
Directory ==
    \/ \E n \in Name : Create(n)
    \/ \E n \in Volatile : Delete(n)
    \/ \E n \in Volatile, m \in Name : Rename(n, m)
    \/ \E n \in Name, flags \in AppendFlags : Append(n, flags)

Command(s) ==
    \/ "expunge" \in Does[s] /\ \E U \in NumSet : ExpungeCollect(s, U)
    \/ ExpungeRemove(s)
    \/ /\ "store" \in Does[s]
       /\ \E U \in NumSet, op \in StoreOp, flags \in StoreFlags,
             since \in {NoSince, sess[s].cache.modSeq} : Store(s, U, op, flags, since)
    \/ /\ "fetch" \in Does[s]
       /\ \E U \in NumSet, since \in {0, sess[s].cache.modSeq}, markSeen \in BOOLEAN :
             Fetch(s, U, since, markSeen)
    \/ \E n \in Visits[s], resync \in {FALSE, Caches(s)} : SelectView(s, n, resync)
    \/ SelectData(s)
    \/ Unselect(s)
    \/ /\ "copy" \in Does[s]
       /\ \E U \in NumSet, n \in Name, move \in BOOLEAN : CopyBegin(s, U, n, move)
    \/ \E u \in UID : CopyMsg(s, u)
    \/ CopyEnd(s)

Next == Directory \/ \E s \in Session : Command(s)

Spec == Init /\ [][Next]_vars

-----------------------------------------------------------------------------
Message == [flags : SUBSET Flag, modSeq : Nat]

(* The types of the backend's state; a command leaves no work behind. *)
TypeOK ==
    /\ dir \in [Name -> {NoBox} \cup Box]
    /\ prevUidValidity \in {NoBox} \cup Box
    /\ mutex \in [Box -> Session \cup {NoSession}]
    /\ \A b \in Box :
        /\ box[b].uidNext \in 1 .. MaxUID + 1
        /\ box[b].highestModSeq \in Nat
        /\ box[b].msg \in [DOMAIN box[b].msg -> Message]
        /\ box[b].expunged \in [DOMAIN box[b].expunged -> Nat]
    /\ \A s \in Session :
        /\ sess[s].mailbox \in {NoBox} \cup Box
        /\ sess[s].dest \in {NoBox} \cup Box
        /\ sess[s].pc \in {"ready", "expunge", "select", "copy", "move"}
        /\ sess[s].set \subseteq UID /\ sess[s].moved \subseteq UID
        /\ sess[s].from \in Nat /\ sess[s].resync \in BOOLEAN
        /\ Ready(s) => sess[s].set = {} /\ sess[s].moved = {}

(***************************************************************************)
(* A client's cache can be brought up to date from its mod-sequence alone: *)
(* every message it knows is still there or was logged as expunged later,  *)
(* and one not changed later has the flags it knows.  \Seen is apart: an   *)
(* implicit \Seen of FETCH takes no mod-sequence.                          *)
(***************************************************************************)
SameFlags(f, g) == f \ {Seen} = g \ {Seen}

CacheSound ==
    \A s \in Session :
        LET c == sess[s].cache
            m == box[c.box]
        IN  c.box # NoBox => \A u \in DOMAIN c.flags :
                \/ /\ u \in DOMAIN m.msg
                   /\ \/ m.msg[u].modSeq > c.modSeq
                      \/ SameFlags(m.msg[u].flags, c.flags[u])
                \/ u \in DOMAIN m.expunged /\ m.expunged[u] > c.modSeq

Resyncs(s) == sess[s].pc = "select" /\ sess'[s].pc = "ready" /\ sess[s].resync

(* What the client has after the step, and what the mailbox has.  Messages  *)
(* from sess[s].from on were appended after the view was registered.        *)
UpToDate(s) ==
    LET b == sess[s].mailbox
        old == sess[s].cache
        new == sess'[s].cache
        late == {u \in DOMAIN box[b].msg : u >= sess[s].from}
    IN  /\ DOMAIN new.flags =
            IF old.box # b THEN {}
            ELSE {u \in DOMAIN box[b].msg \ late :
                    u \in DOMAIN old.flags \/ box[b].msg[u].modSeq > old.modSeq}
        /\ \A u \in DOMAIN new.flags : SameFlags(new.flags[u], box[b].msg[u].flags)

(***************************************************************************)
(* SELECT with QRESYNC leaves the client with exactly the messages it knew *)
(* that survive and the ones changed or appended since its mod-sequence,   *)
(* all with their present flags, also when others change the mailbox       *)
(* between the two halves of Select.  The one exception is a message that  *)
(* is appended between them: it is not reported here, but by the EXISTS    *)
(* the tracker holds for the new view.                                     *)
(***************************************************************************)
ResyncExact == [][\A s \in Session : Resyncs(s) => UpToDate(s)]_vars

(***************************************************************************)
(* No lost update: a STORE with the client's mod-sequence as               *)
(* UNCHANGEDSINCE changes a message only if its flags are those the client *)
(* last saw, \Seen apart.                                                  *)
(***************************************************************************)
ConditionalStore ==
    [][\A s \in Session, U \in NumSet, op \in StoreOp, flags \in StoreFlags :
        Store(s, U, op, flags, sess[s].cache.modSeq) =>
            LET b == sess[s].mailbox
                seen == sess[s].cache.flags
            IN  \A u \in DOMAIN seen \cap DOMAIN box[b].msg :
                    box'[b].msg[u] # box[b].msg[u] =>
                        SameFlags(box[b].msg[u].flags, seen[u])]_vars

(***************************************************************************)
(* A message disappears from a mailbox only because an EXPUNGE had found   *)
(* it \Deleted, or because a MOVE has stored it elsewhere first.           *)
(***************************************************************************)
Elsewhere(b, o) ==
    \E c \in Box \ {b} : \E u \in DOMAIN box[c].origin : box[c].origin[u] = o

NothingLost ==
    [][\A b \in Box : \A u \in DOMAIN box[b].msg \ DOMAIN box'[b].msg :
        \/ \E s \in Session :
            sess[s].pc = "expunge" /\ sess[s].mailbox = b /\ u \in sess[s].set
        \/ Elsewhere(b, box[b].origin[u])]_vars

(***************************************************************************)
(* UIDVALIDITY and UID name one message for ever, over deletion,           *)
(* re-creation and renaming of mailboxes.                                  *)
(***************************************************************************)
UIDIdentity ==
    [][\A b \in Box : \A u \in DOMAIN box[b].origin :
        /\ u \in DOMAIN box'[b].origin
        /\ box'[b].origin[u] = box[b].origin[u]]_vars

(***************************************************************************)
(* Mailboxes can be shared between connections: no two sessions wait for   *)
(* each other's mailbox.                                                   *)
(***************************************************************************)
WaitsFor(s, t) ==
    /\ sess[s].pc \in {"copy", "move"}
    /\ sess[s].set # {}
    /\ mutex[sess[s].dest] = t

NoLockCycle == \A s, t \in Session : ~(WaitsFor(s, t) /\ WaitsFor(t, s))
=============================================================================
