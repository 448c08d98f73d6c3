-------------------------- MODULE MemMailboxProofs --------------------------
(***************************************************************************)
(* Theorems about MemMailbox, for any number of sessions, mailbox names,   *)
(* mailboxes, UIDs and changes.                                            *)
(*                                                                         *)
(* Every step of the backend moves each mailbox forward (Advances): UIDs   *)
(* keep their message, and whatever changes afterwards carries a higher    *)
(* mod-sequence.  The invariant (MemInv) is what that needs, what the      *)
(* mutex gives a COPY or MOVE that holds it, and what each cache owes to   *)
(* the mailbox it was filled from.                                         *)
(***************************************************************************)
EXTENDS MemMailbox, TLAPS

(* Functions from a set of UIDs. *)
PerUID(S) == UNION {[D -> S] : D \in SUBSET UID}

Origin == Box \X UID

MailboxType ==
    [msg : PerUID(Message), uidNext : 1 .. MaxUID + 1, highestModSeq : Nat,
     expunged : PerUID(Nat), origin : PerUID(Origin)]

CacheType == [box : {NoBox} \cup Box, modSeq : Nat, flags : PerUID(SUBSET Flag)]

SessType ==
    [mailbox : {NoBox} \cup Box, pc : {"ready", "expunge", "select", "copy", "move"},
     set : SUBSET UID, moved : SUBSET UID, dest : {NoBox} \cup Box, from : Nat,
     resync : BOOLEAN, cache : CacheType]

Types ==
    /\ dir \in [Name -> {NoBox} \cup Box]
    /\ prevUidValidity \in {NoBox} \cup Box
    /\ box \in [Box -> MailboxType]
    /\ mutex \in [Box -> Session \cup {NoSession}]
    /\ sess \in [Session -> SessType]

(***************************************************************************)
(* A mailbox: UIDs were given below uidNext, a UID is of a message in the  *)
(* list or of an expunged one, never both, and no mod-sequence is above    *)
(* highestModSeq.                                                          *)
(***************************************************************************)
Consistent(m) ==
    /\ \A u \in DOMAIN m.origin : u < m.uidNext
    /\ DOMAIN m.msg \subseteq DOMAIN m.origin
    /\ DOMAIN m.expunged \subseteq DOMAIN m.origin
    /\ \A u \in DOMAIN m.msg : u \notin DOMAIN m.expunged
    /\ \A u \in DOMAIN m.msg : m.msg[u].modSeq <= m.highestModSeq
    /\ \A u \in DOMAIN m.expunged : m.expunged[u] <= m.highestModSeq

(* No name, session or cache refers to a mailbox that is still to be made. *)
Made ==
    /\ \A n \in Name : dir[n] <= prevUidValidity
    /\ \A s \in Session :
        /\ sess[s].mailbox <= prevUidValidity
        /\ sess[s].cache.box <= prevUidValidity
        /\ sess[s].dest <= prevUidValidity
    /\ \A b \in Box : b > prevUidValidity => box[b] = NewMailbox

(***************************************************************************)
(* What a session is in the middle of: the locals of a command are empty   *)
(* outside it; COPY and MOVE hold the mutex of the selected mailbox, so    *)
(* that what is left to copy is still there, and what was copied is in     *)
(* another mailbox.                                                        *)
(***************************************************************************)
InCommand(s) ==
    LET b == sess[s].mailbox IN
    /\ sess[s].pc # "ready" => b \in Box
    /\ sess[s].pc \in {"ready", "select"} => sess[s].set = {}
    /\ sess[s].pc \notin {"copy", "move"} => sess[s].moved = {}
    /\ sess[s].pc \in {"copy", "move"} =>
        /\ mutex[b] = s
        /\ sess[s].dest \in Box \ {b}
        /\ sess[s].set \subseteq DOMAIN box[b].msg
        /\ \A u \in sess[s].moved :
            u \in DOMAIN box[b].origin /\ Elsewhere(b, box[b].origin[u])

(* A cache c can be brought up to date from mailbox m, as CacheSound says. *)
Sound(m, c) ==
    \A u \in DOMAIN c.flags :
        \/ /\ u \in DOMAIN m.msg
           /\ \/ m.msg[u].modSeq > c.modSeq
              \/ SameFlags(m.msg[u].flags, c.flags[u])
        \/ u \in DOMAIN m.expunged /\ m.expunged[u] > c.modSeq

(***************************************************************************)
(* What a cache is: that of the selected mailbox, but for a SELECT in      *)
(* progress; sound and no newer than its mailbox, and during SELECT of     *)
(* messages that were there when the view was made.                        *)
(***************************************************************************)
CacheOf(s) ==
    LET c == sess[s].cache
        b == sess[s].mailbox
    IN  /\ ~Caches(s) => DOMAIN c.flags = {}
        /\ sess[s].resync => sess[s].pc = "select" /\ Caches(s)
        /\ sess[s].pc # "select" /\ b # NoBox /\ Caches(s) => c.box = b
        /\ c.box = NoBox => DOMAIN c.flags = {}
        /\ c.box # NoBox => c.modSeq <= box[c.box].highestModSeq /\ Sound(box[c.box], c)
        /\ sess[s].pc = "select" /\ c.box = b => \A u \in DOMAIN c.flags : u < sess[s].from

MemInv ==
    /\ Types
    /\ \A b \in Box : Consistent(box[b])
    /\ Made
    /\ \A s \in Session : InCommand(s) /\ CacheOf(s)

(***************************************************************************)
(* How a mailbox may go from m to k: UIDs keep their message, and a        *)
(* message that was there is unchanged but for \Seen, or carries a later   *)
(* mod-sequence, or was expunged at one.                                   *)
(***************************************************************************)
Kept(m, k, u) ==
    \/ /\ u \in DOMAIN k.msg
       /\ \/ k.msg[u].modSeq > m.highestModSeq
          \/ /\ k.msg[u].modSeq = m.msg[u].modSeq
             /\ SameFlags(k.msg[u].flags, m.msg[u].flags)
    \/ u \in DOMAIN k.expunged /\ k.expunged[u] > m.highestModSeq

Advances(m, k) ==
    /\ k.uidNext >= m.uidNext
    /\ k.highestModSeq >= m.highestModSeq
    /\ \A u \in DOMAIN m.origin : u \in DOMAIN k.origin /\ k.origin[u] = m.origin[u]
    /\ \A u \in DOMAIN m.msg : Kept(m, k, u)
    /\ \A u \in DOMAIN m.expunged : u \in DOMAIN k.expunged /\ k.expunged[u] = m.expunged[u]

-----------------------------------------------------------------------------
(* A function of UIDs: its domain and its values. *)
LEMMA PerUIDIs ==
  ASSUME NEW S, NEW f \in PerUID(S)
  PROVE  DOMAIN f \in SUBSET UID /\ f \in [DOMAIN f -> S]
  BY Zenon DEF PerUID

(* A function on a set of UIDs is one. *)
LEMMA PerUIDMade ==
  ASSUME NEW S, NEW D \in SUBSET UID, NEW f \in [D -> S]
  PROVE  f \in PerUID(S)
  BY Zenon DEF PerUID

(* The fields of a mailbox. *)
LEMMA MailboxFields ==
  ASSUME NEW m \in MailboxType
  PROVE  /\ m.uidNext \in 1 .. MaxUID + 1 /\ m.highestModSeq \in Nat
         /\ DOMAIN m.msg \in SUBSET UID /\ m.msg \in [DOMAIN m.msg -> Message]
         /\ DOMAIN m.expunged \in SUBSET UID /\ m.expunged \in [DOMAIN m.expunged -> Nat]
         /\ DOMAIN m.origin \in SUBSET UID /\ m.origin \in [DOMAIN m.origin -> Origin]
<1>1. /\ m.uidNext \in 1 .. MaxUID + 1 /\ m.highestModSeq \in Nat
      /\ m.msg \in PerUID(Message) /\ m.expunged \in PerUID(Nat) /\ m.origin \in PerUID(Origin)
  BY Zenon DEF MailboxType
<1> QED BY <1>1, PerUIDIs, Zenon

(* A mailbox made from well-typed parts is well-typed. *)
LEMMA MailboxMade ==
  ASSUME NEW D \in SUBSET UID, NEW f \in [D -> Message], NEW E \in SUBSET UID, NEW g \in [E -> Nat],
         NEW F \in SUBSET UID, NEW h \in [F -> Origin], NEW n \in 1 .. MaxUID + 1, NEW q \in Nat
  PROVE  [msg |-> f, uidNext |-> n, highestModSeq |-> q, expunged |-> g, origin |-> h] \in MailboxType
<1>1. f \in PerUID(Message) /\ g \in PerUID(Nat) /\ h \in PerUID(Origin)
  BY PerUIDMade, Zenon
<1> QED BY <1>1 DEF MailboxType

(* The mailbox changes from box[b] to k, and no other does. *)
Moves(b, k) ==
    /\ box' = [box EXCEPT ![b] = k]
    /\ k \in MailboxType
    /\ Consistent(k)
    /\ Advances(box[b], k)

(* Mailbox.appendBytes adds one message, at uidNext, with the next          *)
(* mod-sequence.                                                            *)
LEMMA AppendMoves ==
  ASSUME Types, NEW b \in Box, Consistent(box[b]), NEW flags \in SUBSET Flag, NEW o \in Origin,
         box[b].uidNext \in UID, box' = Appended(b, flags, o)
  PROVE  \E k : /\ Moves(b, k)
                /\ k.origin = Extend(box[b].origin, box[b].uidNext, o)
                /\ DOMAIN box[b].msg \subseteq DOMAIN k.msg
<1> DEFINE m == box[b]
           x == [flags |-> flags, modSeq |-> m.highestModSeq + 1]
           k == [msg |-> Extend(m.msg, m.uidNext, x), uidNext |-> m.uidNext + 1,
                 highestModSeq |-> m.highestModSeq + 1, expunged |-> m.expunged,
                 origin |-> Extend(m.origin, m.uidNext, o)]
<1>1. box \in [Box -> MailboxType] /\ m \in MailboxType
  BY DEF Types
<1>2. box' = [box EXCEPT ![b] = k]
  <2>1. box' = [box EXCEPT ![b] = [m EXCEPT
          !.msg = Extend(@, m.uidNext, x), !.origin = Extend(@, m.uidNext, o),
          !.uidNext = @ + 1, !.highestModSeq = @ + 1]]
    BY <1>1, Zenon DEF Appended
  <2>2. ASSUME NEW r, r = [m EXCEPT !.msg = Extend(@, m.uidNext, x),
                                    !.origin = Extend(@, m.uidNext, o),
                                    !.uidNext = @ + 1, !.highestModSeq = @ + 1]
        PROVE  r = k
    BY <1>1, <2>2, Zenon DEF MailboxType
  <2> QED BY <2>1, <2>2, Zenon
<1>3. /\ m.uidNext \in UID /\ m.uidNext + 1 \in 1 .. MaxUID + 1
      /\ m.highestModSeq \in Nat /\ m.highestModSeq + 1 \in Nat
  BY <1>1, MailboxFields, MemAssumption DEF UID, MemAssumption
<1>4. /\ DOMAIN m.msg \in SUBSET UID /\ m.msg \in [DOMAIN m.msg -> Message]
      /\ DOMAIN m.expunged \in SUBSET UID /\ m.expunged \in [DOMAIN m.expunged -> Nat]
      /\ DOMAIN m.origin \in SUBSET UID /\ m.origin \in [DOMAIN m.origin -> Origin]
  BY <1>1, MailboxFields, Zenon
<1>5. /\ Extend(m.msg, m.uidNext, x) \in [DOMAIN m.msg \cup {m.uidNext} -> Message]
      /\ Extend(m.origin, m.uidNext, o) \in [DOMAIN m.origin \cup {m.uidNext} -> Origin]
  <2>1. x \in Message
    BY <1>3 DEF Message
  <2> QED BY <1>3, <1>4, <2>1 DEF Extend
<1>6. k \in MailboxType
  <2>1. DOMAIN m.msg \cup {m.uidNext} \in SUBSET UID /\ DOMAIN m.origin \cup {m.uidNext} \in SUBSET UID
    BY <1>3, <1>4
  <2> HIDE DEF x
  <2> QED BY <1>3, <1>4, <1>5, <2>1, MailboxMade, Zenon
<1>7. /\ k.uidNext = m.uidNext + 1 /\ k.highestModSeq = m.highestModSeq + 1 /\ k.expunged = m.expunged
      /\ DOMAIN k.msg = DOMAIN m.msg \cup {m.uidNext}
      /\ DOMAIN k.origin = DOMAIN m.origin \cup {m.uidNext}
      /\ \A u \in DOMAIN m.msg : u # m.uidNext => k.msg[u] = m.msg[u]
      /\ \A u \in DOMAIN m.origin : u # m.uidNext => k.origin[u] = m.origin[u]
      /\ k.msg[m.uidNext].modSeq = m.highestModSeq + 1
      /\ k.origin = Extend(m.origin, m.uidNext, o)
  <2>1. /\ k.uidNext = m.uidNext + 1 /\ k.highestModSeq = m.highestModSeq + 1 /\ k.expunged = m.expunged
        /\ k.msg = Extend(m.msg, m.uidNext, x) /\ k.origin = Extend(m.origin, m.uidNext, o)
    BY Zenon
  <2>2. x.modSeq = m.highestModSeq + 1
    BY Zenon
  <2> HIDE DEF k, m, x
  <2> QED BY <2>1, <2>2 DEF Extend
<1>8. m.uidNext \notin DOMAIN m.origin /\ m.uidNext \notin DOMAIN m.msg /\ m.uidNext \notin DOMAIN m.expunged
  BY <1>3 DEF Consistent, UID
<1>9. \A u \in DOMAIN m.msg : m.msg[u].modSeq \in Nat
  BY <1>4 DEF Message
<1> HIDE DEF m, k
<1>10. Consistent(k)
  BY <1>3, <1>4, <1>7, <1>8, <1>9 DEF Consistent, UID, m
<1>11. Advances(m, k)
  BY <1>3, <1>4, <1>7, <1>8, <1>9 DEF Advances, Kept, SameFlags, UID
<1> QED BY <1>2, <1>6, <1>7, <1>10, <1>11, Zenon DEF Moves, m

(* Mailbox.expungeLocked removes messages and logs them with the next       *)
(* mod-sequence.                                                            *)
LEMMA ExpungeMoves ==
  ASSUME Types, NEW b \in Box, Consistent(box[b]), NEW U, box' = Expunged(b, U)
  PROVE  \E k : /\ Moves(b, k)
                /\ DOMAIN box[b].msg \ DOMAIN k.msg \subseteq U
<1> DEFINE m == box[b]
           gone == U \cap DOMAIN m.msg
           left == Restrict(m.msg, DOMAIN m.msg \ gone)
           log == [u \in DOMAIN m.expunged \cup gone |->
                     IF u \in gone THEN m.highestModSeq + 1 ELSE m.expunged[u]]
           k == [msg |-> left, uidNext |-> m.uidNext, highestModSeq |-> m.highestModSeq + 1,
                 expunged |-> log, origin |-> m.origin]
<1>1. box \in [Box -> MailboxType] /\ m \in MailboxType
  BY DEF Types
<1>2. box' = [box EXCEPT ![b] = k]
  <2>1. box' = [box EXCEPT ![b] = [m EXCEPT
          !.msg = left, !.expunged = log, !.highestModSeq = m.highestModSeq + 1]]
    BY <1>1, Zenon DEF Expunged
  <2>2. ASSUME NEW r, r = [m EXCEPT !.msg = left, !.expunged = log,
                                    !.highestModSeq = m.highestModSeq + 1]
        PROVE  r = k
    BY <1>1, <2>2, Zenon DEF MailboxType
  <2> QED BY <2>1, <2>2, Zenon
<1>3. m.uidNext \in 1 .. MaxUID + 1 /\ m.highestModSeq \in Nat /\ m.highestModSeq + 1 \in Nat
  BY <1>1, MailboxFields
<1>4. /\ DOMAIN m.msg \in SUBSET UID /\ m.msg \in [DOMAIN m.msg -> Message]
      /\ DOMAIN m.expunged \in SUBSET UID /\ m.expunged \in [DOMAIN m.expunged -> Nat]
      /\ DOMAIN m.origin \in SUBSET UID /\ m.origin \in [DOMAIN m.origin -> Origin]
  BY <1>1, MailboxFields, Zenon
<1>5. /\ left \in [DOMAIN m.msg \ gone -> Message]
      /\ log \in [DOMAIN m.expunged \cup gone -> Nat]
  BY <1>3, <1>4 DEF Restrict
<1>6. k \in MailboxType
  <2>1. DOMAIN m.msg \ gone \in SUBSET UID /\ DOMAIN m.expunged \cup gone \in SUBSET UID
    BY <1>4
  <2> HIDE DEF left, log, gone
  <2> QED BY <1>3, <1>4, <1>5, <2>1, MailboxMade, Zenon
<1>7. /\ k.uidNext = m.uidNext /\ k.highestModSeq = m.highestModSeq + 1 /\ k.origin = m.origin
      /\ DOMAIN k.msg = DOMAIN m.msg \ gone
      /\ DOMAIN k.expunged = DOMAIN m.expunged \cup gone
      /\ \A u \in DOMAIN m.msg : u \notin gone => k.msg[u] = m.msg[u]
      /\ \A u \in gone : k.expunged[u] = m.highestModSeq + 1
      /\ \A u \in DOMAIN m.expunged : u \notin gone => k.expunged[u] = m.expunged[u]
  <2>1. /\ k.uidNext = m.uidNext /\ k.highestModSeq = m.highestModSeq + 1 /\ k.origin = m.origin
        /\ k.msg = left /\ k.expunged = log
    BY Zenon
  <2> HIDE DEF k
  <2> QED BY <2>1 DEF Restrict
<1>8. gone \subseteq DOMAIN m.msg /\ gone \subseteq U /\ DOMAIN m.msg \ DOMAIN k.msg \subseteq U
  BY <1>7
<1>9. \A u \in DOMAIN m.msg : m.msg[u].modSeq \in Nat
  BY <1>4 DEF Message
<1> HIDE DEF m, k, gone
<1>10. Consistent(k)
  BY <1>3, <1>4, <1>7, <1>8, <1>9 DEF Consistent, m
<1>11. Advances(m, k)
  <2>1. \A u \in DOMAIN m.expunged : u \notin gone
    BY <1>8 DEF Consistent, m
  <2> QED BY <1>3, <1>4, <1>7, <1>8, <1>9, <2>1 DEF Advances, Kept, SameFlags
<1> QED BY <1>2, <1>6, <1>8, <1>10, <1>11, Zenon DEF Moves, m

(* MailboxView.Fetch changes no flag but \Seen, and no mod-sequence. *)
LEMMA FetchMoves ==
  ASSUME Types, NEW s \in Session, sess[s].mailbox \in Box, Consistent(box[sess[s].mailbox]),
         NEW U, NEW since, NEW markSeen \in BOOLEAN, Fetch(s, U, since, markSeen)
  PROVE  \E k : /\ Moves(sess[s].mailbox, k)
                /\ DOMAIN k.msg = DOMAIN box[sess[s].mailbox].msg
                /\ k.highestModSeq = box[sess[s].mailbox].highestModSeq
                /\ \A u \in DOMAIN k.msg :
                    /\ k.msg[u].modSeq = box[sess[s].mailbox].msg[u].modSeq
                    /\ SameFlags(k.msg[u].flags, box[sess[s].mailbox].msg[u].flags)
<1> DEFINE b == sess[s].mailbox
           m == box[b]
           fetched == Fetched(b, U, since)
           seen == IF markSeen THEN {Seen} ELSE {}
           marked == [u \in DOMAIN m.msg |->
                        IF u \in fetched THEN [m.msg[u] EXCEPT !.flags = m.msg[u].flags \cup seen]
                        ELSE m.msg[u]]
           k == [msg |-> marked, uidNext |-> m.uidNext, highestModSeq |-> m.highestModSeq,
                 expunged |-> m.expunged, origin |-> m.origin]
<1>1. box \in [Box -> MailboxType] /\ m \in MailboxType
  BY DEF Types
<1>2. box' = [box EXCEPT ![b] = k]
  <2>1. box' = [box EXCEPT ![b] = [m EXCEPT !.msg = marked]]
    BY <1>1, Zenon DEF Fetch
  <2>2. ASSUME NEW r, r = [m EXCEPT !.msg = marked]
        PROVE  r = k
    BY <1>1, <2>2, Zenon DEF MailboxType
  <2> QED BY <2>1, <2>2, Zenon
<1>3. m.uidNext \in 1 .. MaxUID + 1 /\ m.highestModSeq \in Nat
  BY <1>1, MailboxFields
<1>4. /\ DOMAIN m.msg \in SUBSET UID /\ m.msg \in [DOMAIN m.msg -> Message]
      /\ DOMAIN m.expunged \in SUBSET UID /\ m.expunged \in [DOMAIN m.expunged -> Nat]
      /\ DOMAIN m.origin \in SUBSET UID /\ m.origin \in [DOMAIN m.origin -> Origin]
  BY <1>1, MailboxFields, Zenon
<1>5. seen \in SUBSET Flag /\ seen \subseteq {Seen}
  BY DEF Flag
<1> HIDE DEF seen
<1>6. ASSUME NEW u \in DOMAIN m.msg
      PROVE  /\ m.msg[u].modSeq \in Nat /\ marked[u] \in Message
             /\ marked[u].modSeq = m.msg[u].modSeq
             /\ SameFlags(marked[u].flags, m.msg[u].flags)
  <2>1. m.msg[u] \in Message /\ m.msg[u].flags \cup seen \in SUBSET Flag /\ m.msg[u].modSeq \in Nat
    BY <1>4, <1>5 DEF Message
  <2>2. CASE u \in fetched
    <3>1. marked[u] = [m.msg[u] EXCEPT !.flags = m.msg[u].flags \cup seen]
      BY <2>2, Zenon
    <3>2. marked[u].flags = m.msg[u].flags \cup seen /\ marked[u].modSeq = m.msg[u].modSeq
      BY <2>1, <3>1, Zenon DEF Message
    <3>3. marked[u] \in Message
      BY <2>1, <3>1, Zenon DEF Message
    <3> HIDE DEF marked
    <3> QED BY <1>5, <2>1, <3>2, <3>3, Zenon DEF SameFlags
  <2>3. CASE u \notin fetched
    <3>1. marked[u] = m.msg[u]
      BY <2>3, Zenon
    <3> HIDE DEF marked
    <3> QED BY <2>1, <3>1 DEF SameFlags
  <2> QED BY <2>2, <2>3, Zenon
<1>7. marked \in [DOMAIN m.msg -> Message]
  BY <1>6, Zenon
<1>8. k \in MailboxType
  <2> HIDE DEF marked
  <2> QED BY <1>3, <1>4, <1>7, MailboxMade, Zenon
<1>9. /\ k.uidNext = m.uidNext /\ k.highestModSeq = m.highestModSeq
      /\ k.expunged = m.expunged /\ k.origin = m.origin
      /\ k.msg = marked /\ DOMAIN k.msg = DOMAIN m.msg
  BY Zenon
<1> HIDE DEF m, k, marked
<1>10. Consistent(k)
  BY <1>3, <1>4, <1>6, <1>9, Zenon DEF Consistent, m
<1>11. Advances(m, k)
  BY <1>3, <1>4, <1>6, <1>9 DEF Advances, Kept
<1> QED BY <1>2, <1>6, <1>8, <1>9, <1>10, <1>11, Zenon DEF Moves, m

-----------------------------------------------------------------------------
(* The mailboxes after a step: each is well-formed and has moved forward. *)
AllMove ==
    /\ box' \in [Box -> MailboxType]
    /\ \A b \in Box : Consistent(box'[b]) /\ Advances(box[b], box'[b])

(* A step that leaves the mailboxes alone moves none of them back. *)
LEMMA StayMoves ==
  ASSUME MemInv, box' = box
  PROVE  AllMove
<1>1. box \in [Box -> MailboxType] /\ \A b \in Box : Consistent(box[b])
  BY DEF MemInv, Types
<1>2. ASSUME NEW b \in Box PROVE Advances(box[b], box[b])
  <2>1. box[b].uidNext \in 1 .. MaxUID + 1 /\ box[b].highestModSeq \in Nat
    BY <1>1, MailboxFields, Zenon
  <2>2. box[b].uidNext >= box[b].uidNext /\ box[b].highestModSeq >= box[b].highestModSeq
    BY <2>1
  <2> QED BY <2>2, Zenon DEF Advances, Kept, SameFlags
<1> QED BY <1>1, <1>2, Zenon DEF AllMove

(* Nor does a step that moves one mailbox forward. *)
LEMMA OneMoves ==
  ASSUME MemInv, NEW b \in Box, NEW k, Moves(b, k)
  PROVE  AllMove /\ box'[b] = k /\ \A c \in Box \ {b} : box'[c] = box[c]
<1>1. box \in [Box -> MailboxType] /\ \A c \in Box : Consistent(box[c])
  BY DEF MemInv, Types
<1>2. box' \in [Box -> MailboxType] /\ box'[b] = k /\ \A c \in Box \ {b} : box'[c] = box[c]
  BY <1>1, Zenon DEF Moves
<1>3. ASSUME NEW c \in Box PROVE Advances(box[c], box[c])
  <2>1. box[c].uidNext \in 1 .. MaxUID + 1 /\ box[c].highestModSeq \in Nat
    BY <1>1, MailboxFields, Zenon
  <2>2. box[c].uidNext >= box[c].uidNext /\ box[c].highestModSeq >= box[c].highestModSeq
    BY <2>1
  <2> QED BY <2>2, Zenon DEF Advances, Kept, SameFlags
<1>4. ASSUME NEW c \in Box PROVE Consistent(box'[c]) /\ Advances(box[c], box'[c])
  <2>1. CASE c = b
    BY <1>2, <2>1, Zenon DEF Moves
  <2>2. CASE c # b
    BY <1>1, <1>2, <1>3, <2>2, Zenon
  <2> QED BY <2>1, <2>2, Zenon
<1> QED BY <1>2, <1>4, Zenon DEF AllMove

(* A mailbox that moved forward owes a cache what it owed it before. *)
LEMMA SoundKept ==
  ASSUME NEW m \in MailboxType, NEW k \in MailboxType, Consistent(m), Advances(m, k),
         NEW c \in CacheType, c.modSeq <= m.highestModSeq, Sound(m, c)
  PROVE  c.modSeq <= k.highestModSeq /\ Sound(k, c)
<1>1. m.highestModSeq \in Nat /\ k.highestModSeq \in Nat /\ c.modSeq \in Nat
  BY MailboxFields DEF CacheType
<1>2. c.modSeq <= k.highestModSeq
  BY <1>1 DEF Advances
<1>3. ASSUME NEW u \in DOMAIN c.flags
      PROVE  \/ /\ u \in DOMAIN k.msg
                /\ \/ k.msg[u].modSeq > c.modSeq
                   \/ SameFlags(k.msg[u].flags, c.flags[u])
             \/ u \in DOMAIN k.expunged /\ k.expunged[u] > c.modSeq
  <2>1. CASE u \in DOMAIN m.expunged /\ m.expunged[u] > c.modSeq
    BY <2>1, Zenon DEF Advances
  <2>2. CASE /\ u \in DOMAIN m.msg
             /\ \/ m.msg[u].modSeq > c.modSeq
                \/ SameFlags(m.msg[u].flags, c.flags[u])
    <3>1. Kept(m, k, u)
      BY <2>2, Zenon DEF Advances
    <3>2. CASE u \in DOMAIN k.expunged /\ k.expunged[u] > m.highestModSeq
      <4>1. k.expunged[u] \in Nat
        BY <3>2, MailboxFields
      <4> QED BY <1>1, <3>2, <4>1
    <3>3. CASE u \in DOMAIN k.msg /\ k.msg[u].modSeq > m.highestModSeq
      <4>1. k.msg[u].modSeq \in Nat
        BY <3>3, MailboxFields DEF Message
      <4> QED BY <1>1, <3>3, <4>1
    <3>4. CASE /\ u \in DOMAIN k.msg /\ k.msg[u].modSeq = m.msg[u].modSeq
               /\ SameFlags(k.msg[u].flags, m.msg[u].flags)
      BY <2>2, <3>4, Zenon DEF SameFlags
    <3> QED BY <3>1, <3>2, <3>3, <3>4, Zenon DEF Kept
  <2> QED BY <2>1, <2>2, Zenon DEF Sound
<1> QED BY <1>2, <1>3, Zenon DEF Sound

(* So does every step, of a cache that is not changed. *)
LEMMA CacheKept ==
  ASSUME MemInv, AllMove, NEW s \in Session, sess[s].cache.box # NoBox
  PROVE  LET c == sess[s].cache
         IN  c.modSeq <= box'[c.box].highestModSeq /\ Sound(box'[c.box], c)
<1> DEFINE c == sess[s].cache
<1>1. c \in CacheType /\ c.box \in Box
  BY Zenon DEF MemInv, Types, SessType, CacheType
<1>2. /\ box[c.box] \in MailboxType /\ box'[c.box] \in MailboxType
      /\ Consistent(box[c.box]) /\ Advances(box[c.box], box'[c.box])
  BY <1>1, Zenon DEF MemInv, Types, AllMove
<1>3. c.modSeq <= box[c.box].highestModSeq /\ Sound(box[c.box], c)
  BY DEF MemInv, CacheOf
<1> QED BY <1>1, <1>2, <1>3, SoundKept, Zenon

(* A step keeps what holds of a session that it leaves alone, if it leaves  *)
(* alone the mailboxes whose mutex the session holds.                       *)
LEMMA OtherKept ==
  ASSUME MemInv, AllMove, NEW t \in Session, sess'[t] = sess[t],
         \A b \in Box : mutex[b] = t =>
            mutex'[b] = t /\ DOMAIN box'[b].msg = DOMAIN box[b].msg
  PROVE  InCommand(t)' /\ CacheOf(t)'
<1> DEFINE b == sess[t].mailbox
           c == sess[t].cache
<1>1. InCommand(t) /\ CacheOf(t)
  BY DEF MemInv
<1>2. ASSUME sess[t].pc \in {"copy", "move"}
      PROVE  /\ mutex'[b] = t /\ sess[t].set \subseteq DOMAIN box'[b].msg
             /\ \A u \in sess[t].moved :
                   u \in DOMAIN box'[b].origin /\ Elsewhere(b, box[b].origin[u])'
  <2>1. b \in Box /\ mutex[b] = t /\ sess[t].set \subseteq DOMAIN box[b].msg
    BY <1>1, <1>2 DEF InCommand
  <2>2. ASSUME NEW u \in sess[t].moved
        PROVE  u \in DOMAIN box'[b].origin /\ Elsewhere(b, box[b].origin[u])'
    <3>1. u \in DOMAIN box[b].origin
      BY <1>1, <1>2, Zenon DEF InCommand
    <3>2. PICK d \in Box \ {b} : \E w \in DOMAIN box[d].origin : box[d].origin[w] = box[b].origin[u]
      BY <1>1, <1>2, Zenon DEF InCommand, Elsewhere
    <3>3. PICK w \in DOMAIN box[d].origin : box[d].origin[w] = box[b].origin[u]
      BY <3>2
    <3>4. u \in DOMAIN box'[b].origin /\ box'[b].origin[u] = box[b].origin[u]
      BY <2>1, <3>1, Zenon DEF AllMove, Advances
    <3>5. w \in DOMAIN box'[d].origin /\ box'[d].origin[w] = box[d].origin[w]
      BY <3>2, <3>3, Zenon DEF AllMove, Advances
    <3> QED BY <3>2, <3>3, <3>4, <3>5, Zenon DEF Elsewhere
  <2> QED BY <2>1, <2>2, Zenon
<1>3. InCommand(t)'
  BY <1>1, <1>2, Zenon DEF InCommand
<1>4. c.box # NoBox => c.modSeq <= box'[c.box].highestModSeq /\ Sound(box'[c.box], c)
  BY CacheKept, Zenon
<1>5. CacheOf(t)'
  BY <1>1, <1>4, Zenon DEF CacheOf, Caches
<1> QED BY <1>3, <1>5

(* A session's step keeps the invariant if it keeps what is said of the     *)
(* session, and stays clear of the mailboxes that others have locked.       *)
LEMMA SessionKept ==
  ASSUME MemInv, AllMove, NEW s \in Session, NEW r \in SessType, sess' = [sess EXCEPT ![s] = r],
         UNCHANGED <<dir, prevUidValidity>>, mutex' \in [Box -> Session \cup {NoSession}],
         r.mailbox <= prevUidValidity, r.cache.box <= prevUidValidity, r.dest <= prevUidValidity,
         \A b \in Box : b > prevUidValidity => box'[b] = box[b],
         \A b \in Box : mutex[b] \notin {NoSession, s} =>
            mutex'[b] = mutex[b] /\ DOMAIN box'[b].msg = DOMAIN box[b].msg,
         InCommand(s)', CacheOf(s)'
  PROVE  MemInv'
<1>1. /\ sess' \in [Session -> SessType] /\ sess'[s] = r
      /\ \A t \in Session : t # s => sess'[t] = sess[t]
  BY DEF MemInv, Types
<1>2. Types'
  BY <1>1 DEF MemInv, Types, AllMove
<1>3. Made'
  <2>1. \A t \in Session : /\ sess'[t].mailbox <= prevUidValidity
                           /\ sess'[t].cache.box <= prevUidValidity
                           /\ sess'[t].dest <= prevUidValidity
    BY <1>1, Zenon DEF MemInv, Made
  <2> QED BY <2>1, Zenon DEF MemInv, Made
<1>4. ASSUME NEW t \in Session PROVE InCommand(t)' /\ CacheOf(t)'
  <2>1. CASE t = s
    BY <2>1
  <2>2. CASE t # s
    <3>1. t # NoSession
      BY MemAssumption DEF MemAssumption
    <3> QED BY <1>1, <2>2, <3>1, OtherKept, Zenon
  <2> QED BY <2>1, <2>2
<1> QED BY <1>2, <1>3, <1>4, Zenon DEF MemInv, AllMove

(* A name is of a mailbox that exists. *)
LEMMA NamedBox ==
  ASSUME MemInv, NEW n \in Name, dir[n] # NoBox
  PROVE  dir[n] \in Box /\ dir[n] <= prevUidValidity /\ Consistent(box[dir[n]])
  BY DEF MemInv, Types, Made

(* The step keeps the session and the mutexes: all but the mailboxes stay. *)
LEMMA UserKept ==
  ASSUME MemInv, AllMove, UNCHANGED <<mutex, sess>>,
         dir' \in [Name -> {NoBox} \cup Box], prevUidValidity' \in {NoBox} \cup Box,
         prevUidValidity' >= prevUidValidity,
         \A n \in Name : dir'[n] <= prevUidValidity',
         \A b \in Box : b > prevUidValidity => box'[b] = box[b],
         \A b \in Box : mutex[b] # NoSession => DOMAIN box'[b].msg = DOMAIN box[b].msg
  PROVE  MemInv'
<1>1. Types'
  BY DEF MemInv, Types, AllMove
<1>2. Made'
  <2>0. prevUidValidity \in Nat /\ prevUidValidity' \in Nat
    BY MemAssumption DEF MemInv, Types, NoBox, Box, MemAssumption
  <2>1. ASSUME NEW t \in Session
        PROVE  /\ sess[t].mailbox <= prevUidValidity'
               /\ sess[t].cache.box <= prevUidValidity'
               /\ sess[t].dest <= prevUidValidity'
    <3>1. sess[t].mailbox \in Nat /\ sess[t].cache.box \in Nat /\ sess[t].dest \in Nat
      BY DEF MemInv, Types, SessType, CacheType, NoBox, Box
    <3>2. /\ sess[t].mailbox <= prevUidValidity
          /\ sess[t].cache.box <= prevUidValidity
          /\ sess[t].dest <= prevUidValidity
      BY Zenon DEF MemInv, Made
    <3> QED BY <2>0, <3>1, <3>2
  <2>2. ASSUME NEW b \in Box, b > prevUidValidity' PROVE box'[b] = NewMailbox
    <3>1. b > prevUidValidity
      BY <2>0, <2>2 DEF Box
    <3> QED BY <3>1, Zenon DEF MemInv, Made
  <2> QED BY <2>1, <2>2, Zenon DEF Made
<1>3. ASSUME NEW t \in Session PROVE InCommand(t)' /\ CacheOf(t)'
  <2>1. t # NoSession
    BY MemAssumption DEF MemAssumption
  <2> QED BY <2>1, OtherKept, Zenon
<1> QED BY <1>1, <1>2, <1>3, Zenon DEF MemInv, AllMove

(* CREATE, DELETE, RENAME and APPEND keep the invariant, and move every     *)
(* mailbox forward.                                                         *)
LEMMA DirectoryKept ==
  ASSUME MemInv, Directory
  PROVE  AllMove /\ MemInv'
<1> DEFINE Goal == AllMove /\ MemInv'
<1>0. /\ dir \in [Name -> {NoBox} \cup Box] /\ prevUidValidity \in {NoBox} \cup Box
      /\ prevUidValidity \in Nat /\ \A n \in Name : dir[n] <= prevUidValidity /\ dir[n] \in Nat
  BY DEF MemInv, Types, Made, NoBox, Box
<1>1. ASSUME NEW n \in Name, Create(n) PROVE Goal
  <2> DEFINE v == prevUidValidity + 1
  <2>1. v \in Box /\ v > prevUidValidity /\ prevUidValidity' = v
    BY <1>0, <1>1 DEF Create, NextUidValidity
  <2>2. box' = box
    <3>1. box[v] = NewMailbox /\ box \in [Box -> MailboxType]
      BY <2>1, Zenon DEF MemInv, Made, Types
    <3>2. box' = [box EXCEPT ![v] = NewMailbox]
      BY <1>1, Zenon DEF Create, NextUidValidity
    <3> HIDE DEF v
    <3> QED BY <2>1, <3>1, <3>2
  <2>3. dir' = [dir EXCEPT ![n] = v]
    BY <1>1, Zenon DEF Create, NextUidValidity
  <2>4. dir' \in [Name -> {NoBox} \cup Box]
    BY <1>0, <2>1, <2>3
  <2>5. \A m \in Name : dir'[m] <= prevUidValidity'
    BY <1>0, <2>1, <2>3
  <2>6. AllMove
    BY <2>2, StayMoves
  <2>7. prevUidValidity' \in {NoBox} \cup Box /\ prevUidValidity' >= prevUidValidity
    BY <1>0, <2>1
  <2>8. UNCHANGED <<mutex, sess>>
    BY <1>1 DEF Create
  <2> QED BY <2>2, <2>4, <2>5, <2>6, <2>7, <2>8, UserKept, Zenon
<1>2. ASSUME dir' \in [Name -> {NoBox} \cup Box], \A n \in Name : dir'[n] <= prevUidValidity,
             UNCHANGED <<prevUidValidity, box, mutex, sess>>
      PROVE  Goal
  <2>1. AllMove
    BY <1>2, StayMoves
  <2>2. prevUidValidity' \in {NoBox} \cup Box /\ prevUidValidity' >= prevUidValidity
    BY <1>0, <1>2
  <2> QED BY <1>2, <2>1, <2>2, UserKept, Zenon
<1>3. ASSUME NEW n \in Name, Delete(n) PROVE Goal
  <2>1. dir' = [dir EXCEPT ![n] = NoBox] /\ UNCHANGED <<prevUidValidity, box, mutex, sess>>
    BY <1>3 DEF Delete
  <2>2. dir' \in [Name -> {NoBox} \cup Box] /\ \A m \in Name : dir'[m] <= prevUidValidity
    BY <1>0, <2>1 DEF NoBox
  <2> QED BY <1>2, <2>1, <2>2
<1>4. ASSUME NEW n \in Name, NEW m \in Name, Rename(n, m) PROVE Goal
  <2>1. /\ dir' = [dir EXCEPT ![m] = dir[n], ![n] = NoBox]
        /\ UNCHANGED <<prevUidValidity, box, mutex, sess>>
    BY <1>4 DEF Rename
  <2>2. dir' \in [Name -> {NoBox} \cup Box] /\ \A x \in Name : dir'[x] <= prevUidValidity
    BY <1>0, <2>1 DEF NoBox
  <2> QED BY <1>2, <2>1, <2>2
<1>5. ASSUME NEW n \in Name, NEW flags \in AppendFlags, Append(n, flags) PROVE Goal
  <2> DEFINE b == dir[n]
  <2>1. b \in Box /\ b <= prevUidValidity /\ Consistent(box[b])
    BY <1>5, NamedBox DEF Append
  <2>2. /\ box' = Appended(b, flags, <<b, box[b].uidNext>>) /\ mutex[b] = NoSession
        /\ box[b].uidNext \in UID /\ UNCHANGED <<dir, prevUidValidity, mutex, sess>>
    BY <1>5, Zenon DEF Append, CanAppend, Free
  <2>3. flags \in SUBSET Flag
    BY MemAssumption DEF MemAssumption
  <2>4. <<b, box[b].uidNext>> \in Origin
    BY <2>1, <2>2 DEF Origin
  <2>5. Types
    BY DEF MemInv
  <2>6. PICK k : Moves(b, k)
    BY <2>1, <2>2, <2>3, <2>4, <2>5, AppendMoves, Zenon
  <2>7. AllMove /\ \A c \in Box \ {b} : box'[c] = box[c]
    BY <2>1, <2>6, OneMoves, Zenon
  <2>8. \A c \in Box : c > prevUidValidity => c # b
    BY <1>0, <2>1 DEF Box
  <2>9. /\ dir' \in [Name -> {NoBox} \cup Box] /\ prevUidValidity' \in {NoBox} \cup Box
        /\ prevUidValidity' >= prevUidValidity /\ \A m \in Name : dir'[m] <= prevUidValidity'
    BY <1>0, <2>2
  <2> QED BY <2>2, <2>7, <2>8, <2>9, UserKept, Zenon
<1> HIDE DEF Goal
<1>6. Volatile \subseteq Name
  BY MemAssumption DEF MemAssumption
<1>7. Goal
  BY <1>1, <1>3, <1>4, <1>5, <1>6, Zenon DEF Directory
<1> QED BY <1>7 DEF Goal

-----------------------------------------------------------------------------
(* The state of a session as the invariant has it. *)
LEMMA SessionFields ==
  ASSUME MemInv, NEW s \in Session
  PROVE  /\ sess \in [Session -> SessType] /\ sess[s] \in SessType
         /\ sess[s].mailbox \in {NoBox} \cup Box /\ sess[s].mailbox <= prevUidValidity
         /\ sess[s].dest \in {NoBox} \cup Box /\ sess[s].dest <= prevUidValidity
         /\ sess[s].pc \in {"ready", "expunge", "select", "copy", "move"}
         /\ sess[s].set \in SUBSET UID /\ sess[s].moved \in SUBSET UID
         /\ sess[s].from \in Nat /\ sess[s].resync \in BOOLEAN
         /\ sess[s].cache \in CacheType /\ sess[s].cache.box <= prevUidValidity
         /\ InCommand(s) /\ CacheOf(s)
<1>1. sess \in [Session -> SessType] /\ sess[s] \in SessType
  BY DEF MemInv, Types
<1>2. /\ sess[s].mailbox \in {NoBox} \cup Box /\ sess[s].dest \in {NoBox} \cup Box
      /\ sess[s].pc \in {"ready", "expunge", "select", "copy", "move"}
      /\ sess[s].set \in SUBSET UID /\ sess[s].moved \in SUBSET UID
      /\ sess[s].from \in Nat /\ sess[s].resync \in BOOLEAN /\ sess[s].cache \in CacheType
  BY <1>1, Zenon DEF SessType
<1>3. /\ sess[s].mailbox <= prevUidValidity /\ sess[s].dest <= prevUidValidity
      /\ sess[s].cache.box <= prevUidValidity /\ InCommand(s) /\ CacheOf(s)
  BY Zenon DEF MemInv, Made
<1> QED BY <1>1, <1>2, <1>3, Zenon

(* EXPUNGE collects the messages it is to remove. *)
LEMMA ExpungeCollectKept ==
  ASSUME MemInv, NEW s \in Session, NEW U, ExpungeCollect(s, U)
  PROVE  AllMove /\ MemInv'
<1> DEFINE b == sess[s].mailbox
           found == {u \in U \cap DOMAIN box[b].msg : Deleted \in box[b].msg[u].flags}
           r == [mailbox |-> sess[s].mailbox, pc |-> "expunge", set |-> found, moved |-> sess[s].moved,
                 dest |-> sess[s].dest, from |-> sess[s].from, resync |-> sess[s].resync, cache |-> sess[s].cache]
<1>0. /\ sess \in [Session -> SessType] /\ sess[s] \in SessType
      /\ InCommand(s) /\ CacheOf(s) /\ Types
  BY SessionFields, Zenon DEF MemInv
<1>1. sess' = [sess EXCEPT ![s] = r]
  <2>1. sess' = [sess EXCEPT ![s] = [sess[s] EXCEPT !.pc = "expunge", !.set = found]]
    BY <1>0, ExpungeCollect(s, U), Zenon DEF ExpungeCollect
  <2>2. ASSUME NEW q, q = [sess[s] EXCEPT !.pc = "expunge", !.set = found]
        PROVE  q = r
    BY <1>0, <2>2, Zenon DEF SessType
  <2> QED BY <2>1, <2>2, Zenon
<1>2. /\ b \in Box /\ sess[s].pc = "ready" /\ UNCHANGED <<dir, prevUidValidity, box, mutex>>
  BY SessionFields, Zenon DEF ExpungeCollect, Selected, Ready
<1>3. found \in SUBSET UID
  <2>1. DOMAIN box[b].msg \in SUBSET UID
    BY <1>0, <1>2, MailboxFields, Zenon DEF Types
  <2> QED BY <2>1
<1> HIDE DEF found
<1>4. r \in SessType
  <2>1. /\ sess[s].mailbox \in {NoBox} \cup Box /\ sess[s].dest \in {NoBox} \cup Box
        /\ "expunge" \in {"ready", "expunge", "select", "copy", "move"}
        /\ found \in SUBSET UID /\ sess[s].moved \in SUBSET UID
        /\ sess[s].from \in Nat /\ sess[s].resync \in BOOLEAN /\ sess[s].cache \in CacheType
    BY <1>3, SessionFields, Zenon
  <2> QED BY <2>1, Zenon DEF SessType
<1>5. /\ sess'[s] = r /\ r.mailbox = b /\ r.pc = "expunge" /\ r.moved = sess[s].moved
      /\ r.dest = sess[s].dest /\ r.resync = sess[s].resync /\ r.cache = sess[s].cache
  BY <1>0, <1>1, Zenon
<1> HIDE DEF r, b
<1>6. AllMove
  BY <1>2, StayMoves, Zenon
<1>7. InCommand(s)'
  BY <1>0, <1>2, <1>5 DEF InCommand, b
<1>8. CacheOf(s)'
  BY <1>0, <1>2, <1>5, Zenon DEF CacheOf, Caches, b
<1>9. /\ r.mailbox <= prevUidValidity /\ r.cache.box <= prevUidValidity /\ r.dest <= prevUidValidity
      /\ mutex' \in [Box -> Session \cup {NoSession}]
  BY <1>0, <1>2, <1>5, SessionFields, Zenon DEF Types, b
<1> QED BY <1>1, <1>2, <1>4, <1>6, <1>7, <1>8, <1>9, SessionKept, Zenon

(* EXPUNGE removes what it collected. *)
LEMMA ExpungeRemoveKept ==
  ASSUME MemInv, NEW s \in Session, ExpungeRemove(s)
  PROVE  AllMove /\ MemInv'
<1> DEFINE b == sess[s].mailbox
           r == [mailbox |-> sess[s].mailbox, pc |-> "ready", set |-> {}, moved |-> sess[s].moved,
                 dest |-> sess[s].dest, from |-> sess[s].from, resync |-> sess[s].resync, cache |-> sess[s].cache]
<1>0. /\ sess \in [Session -> SessType] /\ sess[s] \in SessType
      /\ InCommand(s) /\ CacheOf(s) /\ Types
  BY SessionFields, Zenon DEF MemInv
<1>1. sess' = [sess EXCEPT ![s] = r]
  <2>1. sess' = [sess EXCEPT ![s] = [sess[s] EXCEPT !.pc = "ready", !.set = {}]]
    BY <1>0, ExpungeRemove(s), Zenon DEF ExpungeRemove
  <2>2. ASSUME NEW q, q = [sess[s] EXCEPT !.pc = "ready", !.set = {}]
        PROVE  q = r
    BY <1>0, <2>2, Zenon DEF SessType
  <2> QED BY <2>1, <2>2, Zenon
<1>2. /\ b \in Box /\ b <= prevUidValidity /\ sess[s].pc = "expunge" /\ mutex[b] = NoSession
      /\ box' = Expunged(b, sess[s].set) /\ UNCHANGED <<dir, prevUidValidity, mutex>>
  BY <1>0, SessionFields, Zenon DEF ExpungeRemove, InCommand, Free
<1>3. r \in SessType
  <2>1. {} \in SUBSET UID
    OBVIOUS
  <2>2. /\ sess[s].mailbox \in {NoBox} \cup Box /\ sess[s].dest \in {NoBox} \cup Box
        /\ "ready" \in {"ready", "expunge", "select", "copy", "move"}
        /\ {} \in SUBSET UID /\ sess[s].moved \in SUBSET UID
        /\ sess[s].from \in Nat /\ sess[s].resync \in BOOLEAN /\ sess[s].cache \in CacheType
    BY <2>1, SessionFields, Zenon
  <2> QED BY <2>2, Zenon DEF SessType
<1>4. /\ sess'[s] = r /\ r.mailbox = b /\ r.pc = "ready" /\ r.set = {} /\ r.moved = sess[s].moved
      /\ r.dest = sess[s].dest /\ r.resync = sess[s].resync /\ r.cache = sess[s].cache
  BY <1>0, <1>1, Zenon
<1> HIDE DEF r, b
<1>5. PICK k : Moves(b, k)
  BY <1>0, <1>2, ExpungeMoves, Zenon DEF MemInv
<1>6. AllMove /\ \A c \in Box \ {b} : box'[c] = box[c]
  BY <1>2, <1>5, OneMoves, Zenon
<1>7. InCommand(s)'
  BY <1>0, <1>2, <1>4 DEF InCommand, b
<1>8. CacheOf(s)'
  BY <1>0, <1>2, <1>4, <1>6, CacheKept, Zenon DEF CacheOf, Caches, b
<1>9. /\ r.mailbox <= prevUidValidity /\ r.cache.box <= prevUidValidity /\ r.dest <= prevUidValidity
      /\ mutex' \in [Box -> Session \cup {NoSession}]
  BY <1>0, <1>2, <1>4, SessionFields, Zenon DEF Types
<1>10. \A c \in Box : c > prevUidValidity => c # b
  BY <1>0, <1>2 DEF Types, NoBox, Box
<1> QED BY <1>1, <1>2, <1>3, <1>6, <1>7, <1>8, <1>9, <1>10, SessionKept, Zenon

(* SELECT registers its view. *)
LEMMA SelectViewKept ==
  ASSUME MemInv, NEW s \in Session, NEW n \in Name, NEW resync \in BOOLEAN, resync => Caches(s),
         SelectView(s, n, resync)
  PROVE  AllMove /\ MemInv'
<1> DEFINE r == [mailbox |-> dir[n], pc |-> "select", set |-> sess[s].set, moved |-> sess[s].moved,
                 dest |-> sess[s].dest, from |-> box[dir[n]].uidNext, resync |-> resync, cache |-> sess[s].cache]
<1>0. /\ sess \in [Session -> SessType] /\ sess[s] \in SessType
      /\ InCommand(s) /\ CacheOf(s) /\ Types
  BY SessionFields, Zenon DEF MemInv
<1>1. sess' = [sess EXCEPT ![s] = r]
  <2>1. sess' = [sess EXCEPT ![s] = [sess[s] EXCEPT !.pc = "select", !.mailbox = dir[n],
                                 !.from = box[dir[n]].uidNext, !.resync = resync]]
    BY <1>0, SelectView(s, n, resync), Zenon DEF SelectView
  <2>2. ASSUME NEW q, q = [sess[s] EXCEPT !.pc = "select", !.mailbox = dir[n],
                                 !.from = box[dir[n]].uidNext, !.resync = resync]
        PROVE  q = r
    BY <1>0, <2>2, Zenon DEF SessType
  <2> QED BY <2>1, <2>2, Zenon
<1>2. /\ dir[n] \in Box /\ dir[n] <= prevUidValidity /\ Consistent(box[dir[n]])
      /\ sess[s].pc = "ready" /\ UNCHANGED <<dir, prevUidValidity, box, mutex>>
  BY NamedBox, Zenon DEF SelectView, Ready
<1>3. r \in SessType
  <2>1. box[dir[n]].uidNext \in Nat
    BY <1>0, <1>2, MailboxFields DEF Types
  <2>2. /\ dir[n] \in {NoBox} \cup Box /\ sess[s].dest \in {NoBox} \cup Box
        /\ "select" \in {"ready", "expunge", "select", "copy", "move"}
        /\ sess[s].set \in SUBSET UID /\ sess[s].moved \in SUBSET UID
        /\ box[dir[n]].uidNext \in Nat /\ resync \in BOOLEAN /\ sess[s].cache \in CacheType
    BY <1>2, <2>1, SessionFields, Zenon
  <2> QED BY <2>2, Zenon DEF SessType
<1>4. /\ sess'[s] = r /\ r.mailbox = dir[n] /\ r.pc = "select" /\ r.set = sess[s].set
      /\ r.moved = sess[s].moved /\ r.from = box[dir[n]].uidNext
      /\ r.dest = sess[s].dest /\ r.resync = resync /\ r.cache = sess[s].cache
  BY <1>0, <1>1, Zenon
<1> HIDE DEF r
<1>5. AllMove
  BY <1>2, StayMoves, Zenon
<1>6. InCommand(s)'
  BY <1>0, <1>2, <1>4 DEF InCommand
<1>7. CacheOf(s)'
  <2>1. ASSUME sess[s].cache.box = dir[n], NEW u \in DOMAIN sess[s].cache.flags
        PROVE  u < box[dir[n]].uidNext
    <3>1. Sound(box[dir[n]], sess[s].cache)
      BY <1>0, <1>2, <2>1 DEF CacheOf, NoBox, Box
    <3>2. u \in DOMAIN box[dir[n]].origin
      BY <1>2, <3>1, Zenon DEF Sound, Consistent
    <3> QED BY <1>2, <3>2, Zenon DEF Consistent
  <2> QED BY <1>0, <1>2, <1>4, <2>1, Zenon DEF CacheOf, Caches
<1>8. /\ r.mailbox <= prevUidValidity /\ r.cache.box <= prevUidValidity /\ r.dest <= prevUidValidity
      /\ mutex' \in [Box -> Session \cup {NoSession}]
  BY <1>0, <1>2, <1>4, SessionFields, Zenon DEF Types
<1> QED BY <1>1, <1>2, <1>3, <1>5, <1>6, <1>7, <1>8, SessionKept, Zenon

(* UNSELECT. *)
LEMMA UnselectKept ==
  ASSUME MemInv, NEW s \in Session, Unselect(s)
  PROVE  AllMove /\ MemInv'
<1> DEFINE r == [mailbox |-> NoBox, pc |-> sess[s].pc, set |-> sess[s].set, moved |-> sess[s].moved,
                 dest |-> sess[s].dest, from |-> sess[s].from, resync |-> sess[s].resync, cache |-> sess[s].cache]
<1>0. /\ sess \in [Session -> SessType] /\ sess[s] \in SessType
      /\ InCommand(s) /\ CacheOf(s) /\ Types
  BY SessionFields, Zenon DEF MemInv
<1>1. sess' = [sess EXCEPT ![s] = r]
  <2>1. sess' = [sess EXCEPT ![s] = [sess[s] EXCEPT !.mailbox = NoBox]]
    BY <1>0, Unselect(s), Zenon DEF Unselect
  <2>2. ASSUME NEW q, q = [sess[s] EXCEPT !.mailbox = NoBox]
        PROVE  q = r
    BY <1>0, <2>2, Zenon DEF SessType
  <2> QED BY <2>1, <2>2, Zenon
<1>2. sess[s].pc = "ready" /\ UNCHANGED <<dir, prevUidValidity, box, mutex>>
  BY Zenon DEF Unselect, Selected, Ready
<1>3. r \in SessType
  <2>1. /\ NoBox \in {NoBox} \cup Box /\ sess[s].dest \in {NoBox} \cup Box
        /\ sess[s].pc \in {"ready", "expunge", "select", "copy", "move"}
        /\ sess[s].set \in SUBSET UID /\ sess[s].moved \in SUBSET UID
        /\ sess[s].from \in Nat /\ sess[s].resync \in BOOLEAN /\ sess[s].cache \in CacheType
    BY SessionFields, Zenon
  <2> QED BY <2>1, Zenon DEF SessType
<1>4. /\ sess'[s] = r /\ r.mailbox = NoBox /\ r.pc = sess[s].pc /\ r.set = sess[s].set
      /\ r.moved = sess[s].moved /\ r.from = sess[s].from
      /\ r.dest = sess[s].dest /\ r.resync = sess[s].resync /\ r.cache = sess[s].cache
  BY <1>0, <1>1, Zenon
<1> HIDE DEF r
<1>5. AllMove
  BY <1>2, StayMoves, Zenon
<1>6. InCommand(s)'
  BY <1>0, <1>2, <1>4 DEF InCommand
<1>7. CacheOf(s)'
  BY <1>0, <1>2, <1>4 DEF CacheOf, Caches
<1>8. /\ r.mailbox <= prevUidValidity /\ r.cache.box <= prevUidValidity /\ r.dest <= prevUidValidity
      /\ mutex' \in [Box -> Session \cup {NoSession}]
  <2>1. NoBox <= prevUidValidity
    BY <1>0 DEF Types, NoBox, Box
  <2> QED BY <1>0, <1>2, <1>4, <2>1, SessionFields, Zenon DEF Types
<1> QED BY <1>1, <1>2, <1>3, <1>5, <1>6, <1>7, <1>8, SessionKept, Zenon

(* COPY or MOVE looks up the destination and takes the mutex of the source. *)
LEMMA CopyBeginKept ==
  ASSUME MemInv, NEW s \in Session, NEW U, NEW n \in Name, NEW move \in BOOLEAN, CopyBegin(s, U, n, move)
  PROVE  AllMove /\ MemInv'
<1> DEFINE b == sess[s].mailbox
           cmd == IF move THEN "move" ELSE "copy"
           found == U \cap DOMAIN box[b].msg
           r == [mailbox |-> sess[s].mailbox, pc |-> cmd, set |-> found, moved |-> sess[s].moved,
                 dest |-> dir[n], from |-> sess[s].from, resync |-> sess[s].resync, cache |-> sess[s].cache]
<1>0. /\ sess \in [Session -> SessType] /\ sess[s] \in SessType
      /\ InCommand(s) /\ CacheOf(s) /\ Types
  BY SessionFields, Zenon DEF MemInv
<1>1. sess' = [sess EXCEPT ![s] = r]
  <2>1. sess' = [sess EXCEPT ![s] = [sess[s] EXCEPT !.pc = cmd, !.dest = dir[n], !.set = found]]
    BY <1>0, CopyBegin(s, U, n, move), Zenon DEF CopyBegin
  <2>2. ASSUME NEW q, q = [sess[s] EXCEPT !.pc = cmd, !.dest = dir[n], !.set = found]
        PROVE  q = r
    BY <1>0, <2>2, Zenon DEF SessType
  <2> QED BY <2>1, <2>2, Zenon
<1>2. /\ dir[n] \in Box \ {b} /\ dir[n] <= prevUidValidity /\ b \in Box /\ sess[s].pc = "ready"
      /\ mutex[b] = NoSession /\ mutex' = [mutex EXCEPT ![b] = s]
      /\ UNCHANGED <<dir, prevUidValidity, box>>
  <2>1. /\ dir[n] # NoBox /\ dir[n] # b /\ b # NoBox /\ sess[s].pc = "ready" /\ mutex[b] = NoSession
        /\ mutex' = [mutex EXCEPT ![b] = s] /\ UNCHANGED <<dir, prevUidValidity, box>>
    BY Zenon DEF CopyBegin, Selected, Ready, Free
  <2>2. b \in Box
    BY <2>1, SessionFields, Zenon
  <2>3. dir[n] \in Box /\ dir[n] <= prevUidValidity
    BY <2>1, NamedBox, Zenon
  <2> QED BY <2>1, <2>2, <2>3, Zenon
<1>3. found \in SUBSET UID /\ found \subseteq DOMAIN box[b].msg
  <2>1. DOMAIN box[b].msg \in SUBSET UID
    BY <1>0, <1>2, MailboxFields, Zenon DEF Types
  <2> QED BY <2>1
<1>4. cmd \in {"copy", "move"}
  BY Zenon
<1> HIDE DEF found, cmd
<1>5. r \in SessType
  <2>1. /\ sess[s].mailbox \in {NoBox} \cup Box /\ dir[n] \in {NoBox} \cup Box
        /\ cmd \in {"ready", "expunge", "select", "copy", "move"}
        /\ found \in SUBSET UID /\ sess[s].moved \in SUBSET UID
        /\ sess[s].from \in Nat /\ sess[s].resync \in BOOLEAN /\ sess[s].cache \in CacheType
    BY <1>2, <1>4, <1>3, SessionFields, Zenon
  <2> QED BY <2>1, Zenon DEF SessType
<1>6. /\ sess'[s] = r /\ r.mailbox = b /\ r.pc = cmd /\ r.set = found
      /\ r.moved = sess[s].moved /\ r.from = sess[s].from
      /\ r.dest = dir[n] /\ r.resync = sess[s].resync /\ r.cache = sess[s].cache
  BY <1>0, <1>1, Zenon
<1> HIDE DEF r, b
<1>7. AllMove
  BY <1>2, StayMoves, Zenon
<1>8. mutex' \in [Box -> Session \cup {NoSession}] /\ mutex'[b] = s
  BY <1>0, <1>2 DEF Types
<1>9. InCommand(s)'
  <2>1. r.moved = {}
    BY <1>0, <1>2, <1>6 DEF InCommand
  <2> QED BY <1>2, <1>3, <1>4, <1>6, <1>8, <2>1 DEF InCommand
<1>10. CacheOf(s)'
  BY <1>0, <1>2, <1>4, <1>6 DEF CacheOf, Caches, b
<1>11. r.mailbox <= prevUidValidity /\ r.cache.box <= prevUidValidity /\ r.dest <= prevUidValidity
  BY <1>2, <1>6, SessionFields, Zenon DEF b
<1>12. \A c \in Box : mutex[c] # NoSession => mutex'[c] = mutex[c]
  BY <1>0, <1>2 DEF Types
<1> QED BY <1>1, <1>2, <1>5, <1>7, <1>8, <1>9, <1>10, <1>11, <1>12, SessionKept, Zenon

(* A cache made from well-typed parts is well-typed. *)
LEMMA CacheMade ==
  ASSUME NEW b \in {NoBox} \cup Box, NEW q \in Nat, NEW D \in SUBSET UID, NEW f \in [D -> SUBSET Flag]
  PROVE  [box |-> b, modSeq |-> q, flags |-> f] \in CacheType
<1>1. f \in PerUID(SUBSET Flag)
  BY PerUIDMade, Zenon
<1> QED BY <1>1, Zenon DEF CacheType

(* The fields of a cache. *)
LEMMA CacheFields ==
  ASSUME NEW c \in CacheType
  PROVE  /\ c.box \in {NoBox} \cup Box /\ c.modSeq \in Nat
         /\ DOMAIN c.flags \in SUBSET UID /\ c.flags \in [DOMAIN c.flags -> SUBSET Flag]
<1>1. c.box \in {NoBox} \cup Box /\ c.modSeq \in Nat /\ c.flags \in PerUID(SUBSET Flag)
  BY Zenon DEF CacheType
<1> QED BY <1>1, PerUIDIs, Zenon

(* selectData brings a sound cache to exactly the surviving messages it     *)
(* knew and those changed since that the view has, with their flags.        *)
LEMMA ResyncedExact ==
  ASSUME Types, NEW b \in Box, Consistent(box[b]), NEW c \in CacheType, Sound(box[b], c),
         NEW from, \A u \in DOMAIN c.flags : u < from
  PROVE  LET new == Resynced(c, b, from)
         IN  /\ new \in CacheType /\ new.box = b /\ new.modSeq = box[b].highestModSeq
             /\ DOMAIN new.flags =
                  {u \in DOMAIN box[b].msg :
                     u < from /\ (u \in DOMAIN c.flags \/ box[b].msg[u].modSeq > c.modSeq)}
             /\ \A u \in DOMAIN new.flags : SameFlags(new.flags[u], box[b].msg[u].flags)
<1> DEFINE m == box[b]
           told == {u \in DOMAIN m.msg :
                      u < from /\ (u \in DOMAIN c.flags \/ m.msg[u].modSeq > c.modSeq)}
           modified == Modified(b, c.modSeq, from)
           known == (DOMAIN c.flags \ Vanished(b, c.modSeq)) \cup modified
           flags == [u \in known |-> IF u \in modified THEN m.msg[u].flags ELSE c.flags[u]]
           new == [box |-> b, modSeq |-> m.highestModSeq, flags |-> flags]
<1>1. Resynced(c, b, from) = new
  BY Zenon DEF Resynced
<1>2. /\ m.highestModSeq \in Nat /\ DOMAIN m.msg \in SUBSET UID
      /\ \A u \in DOMAIN m.msg : m.msg[u].flags \in SUBSET Flag
  BY MailboxFields DEF Types, Message
<1>3. DOMAIN c.flags \in SUBSET UID /\ \A u \in DOMAIN c.flags : c.flags[u] \in SUBSET Flag
  BY CacheFields, Zenon
<1>4. /\ modified \subseteq DOMAIN m.msg
      /\ \A u \in modified : u < from /\ m.msg[u].modSeq > c.modSeq
      /\ \A u \in DOMAIN m.msg : u < from /\ m.msg[u].modSeq > c.modSeq => u \in modified
  BY DEF Modified
<1>5. /\ \A u \in DOMAIN m.expunged : m.expunged[u] > c.modSeq => u \in Vanished(b, c.modSeq)
      /\ Vanished(b, c.modSeq) \subseteq DOMAIN m.expunged
  BY DEF Vanished
<1> HIDE DEF modified
<1>6. ASSUME NEW u \in DOMAIN c.flags, u \notin Vanished(b, c.modSeq), u \notin modified
      PROVE  u \in DOMAIN m.msg /\ SameFlags(m.msg[u].flags, c.flags[u])
  BY <1>4, <1>5, <1>6, Zenon DEF Sound
<1>7. known \subseteq DOMAIN m.msg /\ known \in SUBSET UID /\ known = told
  <2>1. known \subseteq DOMAIN m.msg
    BY <1>4, <1>6
  <2>2. DOMAIN c.flags \cap DOMAIN m.msg \subseteq known
    BY <1>5, Zenon DEF Consistent
  <2>3. ASSUME NEW u \in known PROVE u \in told
    BY <1>4, <2>1, <2>3, Zenon
  <2>4. ASSUME NEW u \in told PROVE u \in known
    BY <1>4, <2>2, <2>4, Zenon
  <2> QED BY <1>2, <2>1, <2>3, <2>4, Zenon
<1>8. ASSUME NEW u \in known
      PROVE  flags[u] \in SUBSET Flag /\ SameFlags(flags[u], m.msg[u].flags)
  <2>1. CASE u \in modified
    BY <1>2, <1>4, <2>1, Zenon DEF SameFlags
  <2>2. CASE u \notin modified
    BY <1>3, <1>6, <2>2, Zenon DEF SameFlags
  <2> QED BY <2>1, <2>2
<1>9. flags \in [known -> SUBSET Flag]
  BY <1>8, Zenon
<1> HIDE DEF flags, known, told, m
<1>10. new \in CacheType
  BY <1>2, <1>7, <1>9, CacheMade, Zenon
<1>11. new.box = b /\ new.modSeq = m.highestModSeq /\ new.flags = flags /\ DOMAIN new.flags = known
  BY <1>9, Zenon
<1> HIDE DEF new
<1> QED BY <1>1, <1>7, <1>8, <1>10, <1>11, Zenon DEF m, told

(* SELECT reads its data, and the client takes it over. *)
LEMMA SelectDataKept ==
  ASSUME MemInv, NEW s \in Session, SelectData(s)
  PROVE  AllMove /\ MemInv'
<1> DEFINE b == sess[s].mailbox
           c == sess[s].cache
           fresh == [box |-> b, modSeq |-> box[b].highestModSeq, flags |-> NoMessages]
           new == CASE ~Caches(s) -> NoCache
                    [] sess[s].resync /\ c.box = b -> Resynced(c, b, sess[s].from)
                    [] OTHER -> fresh
           r == [mailbox |-> sess[s].mailbox, pc |-> "ready", set |-> sess[s].set, moved |-> sess[s].moved,
                 dest |-> sess[s].dest, from |-> 0, resync |-> FALSE, cache |-> new]
<1>0. /\ sess \in [Session -> SessType] /\ sess[s] \in SessType
      /\ InCommand(s) /\ CacheOf(s) /\ Types
  BY SessionFields, Zenon DEF MemInv
<1>1. sess' = [sess EXCEPT ![s] = r]
  <2>1. sess' = [sess EXCEPT ![s] = [sess[s] EXCEPT !.pc = "ready", !.from = 0, !.resync = FALSE,
                                 !.cache = new]]
    BY <1>0, SelectData(s), Zenon DEF SelectData
  <2>2. ASSUME NEW q, q = [sess[s] EXCEPT !.pc = "ready", !.from = 0, !.resync = FALSE,
                                 !.cache = new]
        PROVE  q = r
    BY <1>0, <2>2, Zenon DEF SessType
  <2> QED BY <2>1, <2>2, Zenon
<1>2. /\ b \in Box /\ b <= prevUidValidity /\ sess[s].pc = "select"
      /\ UNCHANGED <<dir, prevUidValidity, box, mutex>>
      /\ box[b] \in MailboxType /\ Consistent(box[b])
  BY <1>0, SessionFields, Zenon DEF SelectData, InCommand, MemInv, Types
<1>3. {} \in SUBSET UID /\ NoMessages \in [{} -> SUBSET Flag] /\ DOMAIN NoMessages = {}
  BY DEF NoMessages
<1>4. box[b].highestModSeq \in Nat
  BY <1>2, MailboxFields, Zenon
<1>5. /\ new \in CacheType /\ new.box \in {NoBox, b}
      /\ ~Caches(s) => DOMAIN new.flags = {} /\ new.box = NoBox
      /\ Caches(s) => new.box = b /\ new.modSeq = box[b].highestModSeq /\ Sound(box[b], new)
  <2>1. CASE ~Caches(s)
    <3>1. new = NoCache
      BY <1>0, <2>1, Zenon DEF CacheOf
    <3>2. NoCache \in CacheType /\ NoCache.box = NoBox /\ NoCache.flags = NoMessages
      <4>1. 0 \in Nat
        OBVIOUS
      <4>2. NoCache \in CacheType
        BY <1>3, <4>1, CacheMade, Zenon DEF NoCache
      <4> QED BY <4>2, Zenon DEF NoCache
    <3> HIDE DEF new
    <3> QED BY <1>3, <2>1, <3>1, <3>2, Zenon
  <2>2. CASE Caches(s) /\ sess[s].resync /\ c.box = b
    <3>1. new = Resynced(c, b, sess[s].from)
      BY <2>2, Zenon
    <3>2. c \in CacheType /\ Sound(box[b], c) /\ \A u \in DOMAIN c.flags : u < sess[s].from
      <4>1. b # NoBox
        BY <1>2 DEF Box, NoBox
      <4> QED BY <1>0, <1>2, <2>2, <4>1, SessionFields, Zenon DEF CacheOf
    <3>3. /\ new \in CacheType /\ new.box = b /\ new.modSeq = box[b].highestModSeq
          /\ DOMAIN new.flags \subseteq DOMAIN box[b].msg
          /\ \A u \in DOMAIN new.flags : SameFlags(new.flags[u], box[b].msg[u].flags)
      <4> DEFINE from == sess[s].from
                 x == Resynced(c, b, from)
      <4> HIDE DEF new, b, c, from
      <4>1. Types /\ b \in Box /\ Consistent(box[b])
        BY <1>0, <1>2, Zenon
      <4>2. c \in CacheType /\ Sound(box[b], c) /\ \A u \in DOMAIN c.flags : u < from
        BY <3>2 DEF from
      <4>3. /\ x \in CacheType /\ x.box = b /\ x.modSeq = box[b].highestModSeq
            /\ DOMAIN x.flags \subseteq DOMAIN box[b].msg
            /\ \A u \in DOMAIN x.flags : SameFlags(x.flags[u], box[b].msg[u].flags)
        BY <4>1, <4>2, ResyncedExact
      <4>4. new = x
        BY <3>1 DEF from
      <4> HIDE DEF x
      <4> QED BY <4>3, <4>4, Zenon
    <3> HIDE DEF new
    <3>4. Sound(box[b], new)
      BY <3>3, Zenon DEF Sound, SameFlags
    <3> QED BY <2>2, <3>3, <3>4, Zenon
  <2>3. CASE Caches(s) /\ ~(sess[s].resync /\ c.box = b)
    <3>1. new = fresh
      BY <2>3, Zenon
    <3>2. fresh \in CacheType
      <4> HIDE DEF b
      <4> QED BY <1>2, <1>3, <1>4, CacheMade, Zenon
    <3>3. fresh.box = b /\ fresh.modSeq = box[b].highestModSeq /\ fresh.flags = NoMessages
      BY Zenon
    <3> HIDE DEF new, fresh
    <3> QED BY <1>3, <2>3, <3>1, <3>2, <3>3, Zenon DEF Sound
  <2> QED BY <2>1, <2>2, <2>3, Zenon
<1> HIDE DEF new
<1>6. r \in SessType
  <2>1. 0 \in Nat /\ FALSE \in BOOLEAN
    OBVIOUS
  <2>2. /\ sess[s].mailbox \in {NoBox} \cup Box /\ sess[s].dest \in {NoBox} \cup Box
        /\ "ready" \in {"ready", "expunge", "select", "copy", "move"}
        /\ sess[s].set \in SUBSET UID /\ sess[s].moved \in SUBSET UID
        /\ 0 \in Nat /\ FALSE \in BOOLEAN /\ new \in CacheType
    BY <1>5, <2>1, SessionFields, Zenon
  <2> QED BY <2>2, Zenon DEF SessType
<1>7. /\ sess'[s] = r /\ r.mailbox = b /\ r.pc = "ready" /\ r.set = sess[s].set /\ r.moved = sess[s].moved
      /\ r.dest = sess[s].dest /\ r.resync = FALSE /\ r.cache = new
  BY <1>0, <1>1, Zenon
<1> HIDE DEF r, b
<1>8. AllMove
  BY <1>2, StayMoves, Zenon
<1>9. InCommand(s)'
  BY <1>0, <1>2, <1>7 DEF InCommand, b
<1>10. CacheOf(s)'
  <2>1. b # NoBox /\ box[b].highestModSeq <= box[b].highestModSeq
    BY <1>2, <1>4 DEF Box, NoBox
  <2>2. new.box = NoBox => DOMAIN new.flags = {}
    BY <1>5, <2>1, Zenon
  <2>3. new.box # NoBox => new.modSeq <= box'[new.box].highestModSeq /\ Sound(box'[new.box], new)
    BY <1>2, <1>5, <2>1, Zenon
  <2> QED BY <1>5, <1>7, <2>2, <2>3 DEF CacheOf, Caches
<1>11. /\ r.mailbox <= prevUidValidity /\ r.cache.box <= prevUidValidity /\ r.dest <= prevUidValidity
       /\ mutex' \in [Box -> Session \cup {NoSession}]
  <2>1. NoBox <= prevUidValidity
    BY <1>0 DEF Types, NoBox, Box
  <2> QED BY <1>0, <1>2, <1>5, <1>7, <2>1, SessionFields, Zenon DEF Types
<1> QED BY <1>1, <1>2, <1>6, <1>8, <1>9, <1>10, <1>11, SessionKept, Zenon

(* FETCH, and what the client remembers of it. *)
LEMMA FetchKept ==
  ASSUME MemInv, NEW s \in Session, Caches(s), NEW U, NEW since, NEW markSeen \in BOOLEAN,
         Fetch(s, U, since, markSeen)
  PROVE  AllMove /\ MemInv'
<1> DEFINE b == sess[s].mailbox
           c == sess[s].cache
           m == box[b]
           fetched == Fetched(b, U, since)
           seen == IF markSeen THEN {Seen} ELSE {}
           flags == [u \in DOMAIN c.flags \cup fetched |->
                        IF u \in fetched THEN m.msg[u].flags \cup seen ELSE c.flags[u]]
           new == [box |-> c.box, modSeq |-> c.modSeq, flags |-> flags]
           r == [mailbox |-> sess[s].mailbox, pc |-> sess[s].pc, set |-> sess[s].set, moved |-> sess[s].moved,
                 dest |-> sess[s].dest, from |-> sess[s].from, resync |-> sess[s].resync, cache |-> new]
<1>0. /\ sess \in [Session -> SessType] /\ sess[s] \in SessType /\ c \in CacheType
      /\ InCommand(s) /\ CacheOf(s) /\ Types
  BY SessionFields, Zenon DEF MemInv
<1>1. sess' = [sess EXCEPT ![s] = r]
  <2>1. sess' = [sess EXCEPT ![s] = [sess[s] EXCEPT !.cache = [c EXCEPT !.flags = flags]]]
    BY <1>0, Fetch(s, U, since, markSeen), Zenon DEF Fetch
  <2>2. ASSUME NEW q, q = [c EXCEPT !.flags = flags] PROVE q = new
    BY <1>0, <2>2, Zenon DEF CacheType
  <2>3. sess' = [sess EXCEPT ![s] = [sess[s] EXCEPT !.cache = new]]
    BY <2>1, <2>2, Zenon
  <2> HIDE DEF new
  <2>4. ASSUME NEW q, q = [sess[s] EXCEPT !.cache = new] PROVE q = r
    BY <1>0, <2>4, Zenon DEF SessType
  <2> QED BY <2>3, <2>4, Zenon
<1>2. /\ b # NoBox /\ b \in Box /\ b <= prevUidValidity /\ sess[s].pc = "ready" /\ mutex[b] = NoSession
      /\ UNCHANGED <<dir, prevUidValidity, mutex>> /\ c.box = b
      /\ m \in MailboxType /\ Consistent(m)
  <2>1. /\ b # NoBox /\ sess[s].pc = "ready" /\ mutex[b] = NoSession
        /\ UNCHANGED <<dir, prevUidValidity, mutex>>
    BY Zenon DEF Fetch, Selected, Ready, Free
  <2>2. b \in Box /\ b <= prevUidValidity
    BY <2>1, SessionFields, Zenon
  <2>3. c.box = b
    BY <1>0, <2>1 DEF CacheOf
  <2> QED BY <2>1, <2>2, <2>3, Zenon DEF MemInv, Types
<1>3. PICK k : /\ Moves(b, k) /\ DOMAIN k.msg = DOMAIN m.msg
               /\ k.highestModSeq = m.highestModSeq
               /\ \A u \in DOMAIN k.msg : /\ k.msg[u].modSeq = m.msg[u].modSeq
                                          /\ SameFlags(k.msg[u].flags, m.msg[u].flags)
  BY <1>0, <1>2, FetchMoves, Zenon
<1>4. AllMove /\ box'[b] = k /\ \A d \in Box \ {b} : box'[d] = box[d]
  BY <1>2, <1>3, OneMoves, Zenon
<1>5. fetched \subseteq DOMAIN m.msg /\ seen \in SUBSET Flag /\ seen \subseteq {Seen}
  BY DEF Fetched, Flag
<1>6. /\ DOMAIN m.msg \in SUBSET UID /\ \A u \in DOMAIN m.msg : m.msg[u].flags \in SUBSET Flag
      /\ DOMAIN c.flags \in SUBSET UID /\ \A u \in DOMAIN c.flags : c.flags[u] \in SUBSET Flag
      /\ c.modSeq \in Nat
  <2>1. DOMAIN m.msg \in SUBSET UID /\ m.msg \in [DOMAIN m.msg -> Message]
    BY <1>2, MailboxFields, Zenon
  <2>2. \A u \in DOMAIN m.msg : m.msg[u].flags \in SUBSET Flag
    BY <2>1, Zenon DEF Message
  <2> QED BY <1>0, <2>1, <2>2, CacheFields, Zenon
<1> HIDE DEF seen, fetched, m
<1>7. ASSUME NEW u \in DOMAIN c.flags \cup fetched
      PROVE  /\ flags[u] \in SUBSET Flag
             /\ u \in fetched => SameFlags(m.msg[u].flags, flags[u])
             /\ u \notin fetched => flags[u] = c.flags[u]
  <2>1. CASE u \in fetched
    <3>1. flags[u] = m.msg[u].flags \cup seen
      BY <2>1, Zenon
    <3> HIDE DEF flags
    <3> QED BY <1>5, <1>6, <2>1, <3>1 DEF SameFlags
  <2>2. CASE u \notin fetched
    <3>1. flags[u] = c.flags[u]
      BY <2>2, Zenon
    <3> HIDE DEF flags
    <3> QED BY <1>6, <2>2, <3>1
  <2> QED BY <2>1, <2>2, Zenon
<1>8. /\ flags \in [DOMAIN c.flags \cup fetched -> SUBSET Flag]
      /\ DOMAIN c.flags \cup fetched \in SUBSET UID
  <2>1. DOMAIN c.flags \cup fetched \in SUBSET UID
    BY <1>5, <1>6
  <2> QED BY <1>7, <2>1, Zenon
<1>9. new \in CacheType
  <2> HIDE DEF flags, c
  <2>1. c.box \in {NoBox} \cup Box
    BY <1>2
  <2> QED BY <1>6, <1>8, <2>1, CacheMade, Zenon
<1>10. new.box = b /\ new.modSeq = c.modSeq /\ new.flags = flags
  BY <1>2, Zenon
<1> HIDE DEF new
<1>11. r \in SessType
  <2>1. /\ sess[s].mailbox \in {NoBox} \cup Box /\ sess[s].dest \in {NoBox} \cup Box
        /\ sess[s].pc \in {"ready", "expunge", "select", "copy", "move"}
        /\ sess[s].set \in SUBSET UID /\ sess[s].moved \in SUBSET UID
        /\ sess[s].from \in Nat /\ sess[s].resync \in BOOLEAN /\ new \in CacheType
    BY <1>9, SessionFields, Zenon
  <2> QED BY <2>1, Zenon DEF SessType
<1>12. /\ sess'[s] = r /\ r.mailbox = b /\ r.pc = sess[s].pc /\ r.set = sess[s].set
       /\ r.moved = sess[s].moved /\ r.from = sess[s].from
       /\ r.dest = sess[s].dest /\ r.resync = sess[s].resync /\ r.cache = new
  BY <1>0, <1>1, Zenon
<1> HIDE DEF r, b, flags
<1>13. InCommand(s)'
  BY <1>0, <1>2, <1>12 DEF InCommand, b
<1>14. c.modSeq <= k.highestModSeq /\ Sound(k, c)
  BY <1>2, <1>4, CacheKept, Zenon
<1>15. Sound(k, new)
  <2> SUFFICES ASSUME NEW u \in DOMAIN new.flags
               PROVE  \/ /\ u \in DOMAIN k.msg
                         /\ \/ k.msg[u].modSeq > new.modSeq
                            \/ SameFlags(k.msg[u].flags, new.flags[u])
                      \/ u \in DOMAIN k.expunged /\ k.expunged[u] > new.modSeq
    BY DEF Sound
  <2>1. u \in DOMAIN c.flags \cup fetched
    BY <1>8, <1>10
  <2>2. CASE u \in fetched
    BY <1>3, <1>5, <1>7, <1>10, <2>1, <2>2, Zenon DEF SameFlags
  <2>3. CASE u \notin fetched
    BY <1>7, <1>10, <1>14, <2>1, <2>3, Zenon DEF Sound
  <2> QED BY <2>2, <2>3
<1>16. CacheOf(s)'
  <2>1. new.box # NoBox /\ new.modSeq <= box'[new.box].highestModSeq /\ Sound(box'[new.box], new)
    BY <1>2, <1>4, <1>10, <1>14, <1>15, Zenon
  <2>2. ~sess[s].resync
    BY <1>0, <1>2 DEF CacheOf
  <2> QED BY <1>2, <1>10, <1>12, <2>1, <2>2 DEF CacheOf, Caches
<1>17. /\ r.mailbox <= prevUidValidity /\ r.cache.box <= prevUidValidity /\ r.dest <= prevUidValidity
       /\ mutex' \in [Box -> Session \cup {NoSession}]
  BY <1>0, <1>2, <1>10, <1>12, SessionFields, Zenon DEF Types
<1>18. \A d \in Box : d > prevUidValidity => d # b
  BY <1>0, <1>2 DEF Types, NoBox, Box
<1> QED BY <1>1, <1>2, <1>4, <1>11, <1>13, <1>16, <1>17, <1>18, SessionKept, Zenon

(* COPY or MOVE stores the next message in the destination. *)
LEMMA CopyMsgKept ==
  ASSUME MemInv, NEW s \in Session, NEW u, CopyMsg(s, u)
  PROVE  AllMove /\ MemInv'
<1> DEFINE b == sess[s].mailbox
           d == sess[s].dest
           o == box[b].origin[u]
           r == [mailbox |-> sess[s].mailbox, pc |-> sess[s].pc, set |-> sess[s].set \ {u}, moved |-> sess[s].moved \cup {u},
                 dest |-> sess[s].dest, from |-> sess[s].from, resync |-> sess[s].resync, cache |-> sess[s].cache]
<1>0. /\ sess \in [Session -> SessType] /\ sess[s] \in SessType
      /\ InCommand(s) /\ CacheOf(s) /\ Types
  BY SessionFields, Zenon DEF MemInv
<1>1. sess' = [sess EXCEPT ![s] = r]
  <2>1. sess' = [sess EXCEPT ![s] = [sess[s] EXCEPT !.set = sess[s].set \ {u}, !.moved = sess[s].moved \cup {u}]]
    BY <1>0, CopyMsg(s, u), Zenon DEF CopyMsg
  <2>2. ASSUME NEW q, q = [sess[s] EXCEPT !.set = sess[s].set \ {u}, !.moved = sess[s].moved \cup {u}]
        PROVE  q = r
    BY <1>0, <2>2, Zenon DEF SessType
  <2> QED BY <2>1, <2>2, Zenon
<1>2. /\ sess[s].pc \in {"copy", "move"} /\ u \in sess[s].set /\ mutex[d] = NoSession
      /\ box[d].uidNext \in UID /\ box' = Appended(d, box[b].msg[u].flags, o)
      /\ UNCHANGED <<dir, prevUidValidity, mutex>>
  BY Zenon DEF CopyMsg, CanAppend, Free
<1>3. /\ b \in Box /\ d \in Box \ {b} /\ mutex[b] = s /\ sess[s].set \subseteq DOMAIN box[b].msg
  BY <1>0, <1>2 DEF InCommand
<1>4. /\ box[b] \in MailboxType /\ Consistent(box[b]) /\ Consistent(box[d]) /\ d <= prevUidValidity
  BY <1>0, <1>3, SessionFields, Zenon DEF MemInv, Types
<1>5. /\ u \in DOMAIN box[b].msg /\ u \in DOMAIN box[b].origin /\ u \in UID
      /\ box[b].msg[u].flags \in SUBSET Flag /\ o \in Origin
  <2> HIDE DEF b
  <2>1. /\ DOMAIN box[b].msg \in SUBSET UID /\ box[b].msg \in [DOMAIN box[b].msg -> Message]
        /\ box[b].origin \in [DOMAIN box[b].origin -> Origin]
    BY <1>4, MailboxFields, Zenon
  <2>2. u \in DOMAIN box[b].msg /\ u \in DOMAIN box[b].origin /\ u \in UID
    BY <1>2, <1>3, <1>4, <2>1, Zenon DEF Consistent
  <2>3. box[b].msg[u] \in Message /\ o \in Origin
    BY <2>1, <2>2
  <2> QED BY <2>2, <2>3, Zenon DEF Message
<1>6. r \in SessType
  <2>1. sess[s].set \ {u} \in SUBSET UID /\ sess[s].moved \cup {u} \in SUBSET UID
    BY <1>5, SessionFields
  <2>2. /\ sess[s].mailbox \in {NoBox} \cup Box /\ sess[s].dest \in {NoBox} \cup Box
        /\ sess[s].pc \in {"ready", "expunge", "select", "copy", "move"}
        /\ sess[s].set \ {u} \in SUBSET UID /\ sess[s].moved \cup {u} \in SUBSET UID
        /\ sess[s].from \in Nat /\ sess[s].resync \in BOOLEAN /\ sess[s].cache \in CacheType
    BY <2>1, SessionFields, Zenon
  <2> QED BY <2>2, Zenon DEF SessType
<1>7. /\ sess'[s] = r /\ r.mailbox = b /\ r.pc = sess[s].pc /\ r.set = sess[s].set \ {u}
      /\ r.moved = sess[s].moved \cup {u} /\ r.from = sess[s].from
      /\ r.dest = d /\ r.resync = sess[s].resync /\ r.cache = sess[s].cache
  BY <1>0, <1>1, Zenon
<1> HIDE DEF r, b, d, o
<1>8. PICK k : Moves(d, k) /\ k.origin = Extend(box[d].origin, box[d].uidNext, o)
  BY <1>0, <1>2, <1>3, <1>4, <1>5, AppendMoves, Zenon
<1>9. AllMove /\ box'[d] = k /\ \A c \in Box \ {d} : box'[c] = box[c]
  BY <1>3, <1>8, OneMoves, Zenon
<1>10. box'[b] = box[b]
  BY <1>3, <1>9
<1>11. box[d].uidNext \in DOMAIN box'[d].origin /\ box'[d].origin[box[d].uidNext] = o
  BY <1>8, <1>9 DEF Extend
<1>12. ASSUME NEW w \in r.moved
       PROVE  /\ w \in DOMAIN box'[b].origin
              /\ \E c \in Box \ {b} : \E x \in DOMAIN box'[c].origin : box'[c].origin[x] = box'[b].origin[w]
  <2>1. CASE w = u
    BY <1>3, <1>5, <1>10, <1>11, <2>1, Zenon DEF o
  <2>2. CASE w # u
    <3>1. w \in DOMAIN box[b].origin /\ Elsewhere(b, box[b].origin[w])
      BY <1>0, <1>2, <1>7, <1>12, <2>2 DEF InCommand, b
    <3>2. PICK c \in Box \ {b} : \E x \in DOMAIN box[c].origin : box[c].origin[x] = box[b].origin[w]
      BY <3>1, Zenon DEF Elsewhere
    <3>3. PICK x \in DOMAIN box[c].origin : box[c].origin[x] = box[b].origin[w]
      BY <3>2
    <3>4. x \in DOMAIN box'[c].origin /\ box'[c].origin[x] = box[c].origin[x]
      BY <1>9, <3>2, <3>3, Zenon DEF AllMove, Advances
    <3> QED BY <1>10, <3>1, <3>2, <3>3, <3>4, Zenon
  <2> QED BY <2>1, <2>2
<1>13. InCommand(s)'
  <2>1. sess'[s].pc \in {"copy", "move"}
    BY <1>2, <1>7
  <2>2. sess'[s].pc # "ready" /\ sess'[s].pc \notin {"ready", "select"}
    BY <2>1
  <2>3. /\ sess'[s].mailbox \in Box /\ mutex'[sess'[s].mailbox] = s
        /\ sess'[s].dest \in Box \ {sess'[s].mailbox}
        /\ sess'[s].set \subseteq DOMAIN box'[sess'[s].mailbox].msg
    BY <1>2, <1>3, <1>7, <1>10
  <2>4. \A w \in sess'[s].moved :
          /\ w \in DOMAIN box'[sess'[s].mailbox].origin
          /\ Elsewhere(sess[s].mailbox, box[sess[s].mailbox].origin[w])'
    <3> SUFFICES ASSUME NEW w \in sess'[s].moved
                 PROVE  /\ w \in DOMAIN box'[sess'[s].mailbox].origin
                        /\ Elsewhere(sess[s].mailbox, box[sess[s].mailbox].origin[w])'
      OBVIOUS
    <3>1. w \in r.moved /\ sess'[s].mailbox = b
      BY <1>7, Zenon
    <3>2. w \in DOMAIN box'[b].origin
      BY <1>12, <3>1
    <3>3. PICK c \in Box \ {b} : \E x \in DOMAIN box'[c].origin : box'[c].origin[x] = box'[b].origin[w]
      BY <1>12, <3>1
    <3>4. Elsewhere(sess[s].mailbox, box[sess[s].mailbox].origin[w])'
      BY <3>1, <3>3 DEF Elsewhere
    <3> QED BY <3>1, <3>2, <3>4
  <2> QED BY <2>1, <2>2, <2>3, <2>4, Zenon DEF InCommand
<1>14. CacheOf(s)'
  BY <1>0, <1>7, <1>9, CacheKept, Zenon DEF CacheOf, Caches, b
<1>15. /\ r.mailbox <= prevUidValidity /\ r.cache.box <= prevUidValidity /\ r.dest <= prevUidValidity
       /\ mutex' \in [Box -> Session \cup {NoSession}]
  BY <1>0, <1>2, <1>4, <1>7, SessionFields, Zenon DEF Types, b
<1>16. \A c \in Box : c > prevUidValidity => c # d
  BY <1>0, <1>3, <1>4 DEF Types, NoBox, Box
<1> QED BY <1>1, <1>2, <1>6, <1>9, <1>13, <1>14, <1>15, <1>16, SessionKept, Zenon

(* MOVE removes what it has copied; COPY and MOVE release the mutex. *)
LEMMA CopyEndKept ==
  ASSUME MemInv, NEW s \in Session, CopyEnd(s)
  PROVE  AllMove /\ MemInv'
<1> DEFINE b == sess[s].mailbox
           r == [mailbox |-> sess[s].mailbox, pc |-> "ready", set |-> sess[s].set, moved |-> {},
                 dest |-> NoBox, from |-> sess[s].from, resync |-> sess[s].resync, cache |-> sess[s].cache]
<1>0. /\ sess \in [Session -> SessType] /\ sess[s] \in SessType
      /\ InCommand(s) /\ CacheOf(s) /\ Types
  BY SessionFields, Zenon DEF MemInv
<1>1. sess' = [sess EXCEPT ![s] = r]
  <2>1. sess' = [sess EXCEPT ![s] = [sess[s] EXCEPT !.pc = "ready", !.moved = {}, !.dest = NoBox]]
    BY <1>0, CopyEnd(s), Zenon DEF CopyEnd
  <2>2. ASSUME NEW q, q = [sess[s] EXCEPT !.pc = "ready", !.moved = {}, !.dest = NoBox]
        PROVE  q = r
    BY <1>0, <2>2, Zenon DEF SessType
  <2> QED BY <2>1, <2>2, Zenon
<1>2. /\ sess[s].pc \in {"copy", "move"} /\ sess[s].set = {}
      /\ mutex' = [mutex EXCEPT ![b] = NoSession] /\ UNCHANGED <<dir, prevUidValidity>>
      /\ box' = box \/ box' = Expunged(b, sess[s].moved)
  BY DEF CopyEnd
<1>3. b \in Box /\ mutex[b] = s /\ b <= prevUidValidity /\ Consistent(box[b])
  <2>1. b \in Box /\ mutex[b] = s
    BY <1>0, <1>2 DEF InCommand
  <2> QED BY <2>1, SessionFields, Zenon DEF MemInv
<1>4. r \in SessType
  <2>1. {} \in SUBSET UID
    OBVIOUS
  <2>2. /\ sess[s].mailbox \in {NoBox} \cup Box /\ NoBox \in {NoBox} \cup Box
        /\ "ready" \in {"ready", "expunge", "select", "copy", "move"}
        /\ sess[s].set \in SUBSET UID /\ {} \in SUBSET UID
        /\ sess[s].from \in Nat /\ sess[s].resync \in BOOLEAN /\ sess[s].cache \in CacheType
    BY <2>1, SessionFields, Zenon
  <2> QED BY <2>2, Zenon DEF SessType
<1>5. /\ sess'[s] = r /\ r.mailbox = b /\ r.pc = "ready" /\ r.set = {} /\ r.moved = {}
      /\ r.dest = NoBox /\ r.resync = sess[s].resync /\ r.cache = sess[s].cache
  BY <1>0, <1>1, <1>2, Zenon
<1> HIDE DEF r, b
<1>6. AllMove /\ \A c \in Box \ {b} : box'[c] = box[c]
  <2>1. CASE box' = box
    BY <2>1, StayMoves
  <2>2. CASE box' = Expunged(b, sess[s].moved)
    <3>1. PICK k : Moves(b, k)
      BY <1>0, <1>3, <2>2, ExpungeMoves, Zenon
    <3> QED BY <1>3, <3>1, OneMoves, Zenon
  <2> QED BY <1>2, <2>1, <2>2
<1>7. /\ mutex' \in [Box -> Session \cup {NoSession}]
      /\ \A c \in Box : c # b => mutex'[c] = mutex[c]
  BY <1>0, <1>2, Zenon DEF Types
<1>8. InCommand(s)'
  BY <1>5 DEF InCommand
<1>9. CacheOf(s)'
  <2>1. ~sess[s].resync /\ sess[s].pc # "select"
    BY <1>0, <1>2 DEF CacheOf
  <2> QED BY <1>0, <1>5, <1>6, <2>1, CacheKept, Zenon DEF CacheOf, Caches, b
<1>10. r.mailbox <= prevUidValidity /\ r.cache.box <= prevUidValidity /\ r.dest <= prevUidValidity
  <2>1. NoBox <= prevUidValidity
    BY <1>0 DEF Types, NoBox, Box
  <2> QED BY <1>3, <1>5, <2>1, SessionFields, Zenon
<1>11. \A c \in Box : c > prevUidValidity => c # b
  BY <1>0, <1>3 DEF Types, NoBox, Box
<1>12. \A c \in Box : mutex[c] \notin {NoSession, s} =>
          mutex'[c] = mutex[c] /\ DOMAIN box'[c].msg = DOMAIN box[c].msg
  BY <1>3, <1>6, <1>7
<1> QED BY <1>1, <1>2, <1>4, <1>6, <1>7, <1>8, <1>9, <1>10, <1>11, <1>12, SessionKept, Zenon

-----------------------------------------------------------------------------
(* The invariant holds before any mailbox is created. *)
LEMMA InitInv ==
  ASSUME Init
  PROVE  MemInv
<1>1. NewMailbox \in MailboxType /\ Consistent(NewMailbox)
  <2>1. {} \in SUBSET UID /\ 1 \in 1 .. MaxUID + 1 /\ 1 \in Nat
    BY MemAssumption DEF MemAssumption
  <2>2. /\ NoMessages \in [{} -> Message] /\ NoMessages \in [{} -> Nat] /\ NoMessages \in [{} -> Origin]
        /\ DOMAIN NoMessages = {}
    BY DEF NoMessages
  <2>3. NewMailbox \in MailboxType
    BY <2>1, <2>2, MailboxMade, Zenon DEF NewMailbox
  <2>4. /\ NewMailbox.msg = NoMessages /\ NewMailbox.expunged = NoMessages
        /\ NewMailbox.origin = NoMessages
    BY Zenon DEF NewMailbox
  <2> QED BY <2>2, <2>3, <2>4, Zenon DEF Consistent
<1>2. NoCache \in CacheType /\ NoCache.box = NoBox /\ DOMAIN NoCache.flags = {}
  <2>1. {} \in SUBSET UID /\ 0 \in Nat /\ NoMessages \in [{} -> SUBSET Flag] /\ DOMAIN NoMessages = {}
    BY DEF NoMessages
  <2>2. NoCache \in CacheType
    BY <2>1, CacheMade, Zenon DEF NoCache
  <2>3. NoCache.box = NoBox /\ NoCache.flags = NoMessages
    BY Zenon DEF NoCache
  <2> QED BY <2>1, <2>2, <2>3, Zenon
<1>3. NewSession \in SessType
  <2>1. {} \in SUBSET UID /\ 0 \in Nat /\ FALSE \in BOOLEAN /\ NoBox \in {NoBox} \cup Box
    OBVIOUS
  <2> QED BY <1>2, <2>1, Zenon DEF NewSession, SessType
<1>4. /\ NewSession.mailbox = NoBox /\ NewSession.pc = "ready" /\ NewSession.set = {}
      /\ NewSession.moved = {} /\ NewSession.dest = NoBox /\ NewSession.resync = FALSE
      /\ NewSession.cache = NoCache
  BY Zenon DEF NewSession
<1>5. /\ dir = [n \in Name |-> NoBox] /\ prevUidValidity = NoBox
      /\ \A b \in Box : box[b] = NewMailbox
      /\ \A s \in Session : sess[s] = NewSession
      /\ box \in [Box -> MailboxType] /\ sess \in [Session -> SessType]
      /\ mutex \in [Box -> Session \cup {NoSession}]
  BY <1>1, <1>3, Zenon DEF Init, NoBox
<1>6. Types
  BY <1>5, Zenon DEF Types
<1>7. Made
  <2>1. NoBox <= NoBox
    BY DEF NoBox
  <2> QED BY <1>2, <1>4, <1>5, <2>1, Zenon DEF Made
<1>8. ASSUME NEW s \in Session PROVE InCommand(s) /\ CacheOf(s)
  <2>1. InCommand(s)
    BY <1>4, <1>5 DEF InCommand
  <2>2. CacheOf(s)
    BY <1>2, <1>4, <1>5 DEF CacheOf
  <2> QED BY <2>1, <2>2
<1> QED BY <1>1, <1>5, <1>6, <1>7, <1>8, Zenon DEF MemInv

(* Store comes last: the mod-sequences it hands out are counted, and only    *)
(* its lemmas need the facts about cardinality.                             *)
INSTANCE FiniteSetTheorems

(* The messages a STORE changes are numbered from 1 in UID order. *)
LEMMA RankBounds ==
  ASSUME NEW S \in SUBSET UID
  PROVE  /\ Cardinality(S) \in Nat
         /\ \A u \in S : Rank(S, u) \in Nat /\ 1 <= Rank(S, u) /\ Rank(S, u) <= Cardinality(S)
<1>1. IsFiniteSet(S)
  <2>1. IsFiniteSet(UID)
    BY FS_Interval, MemAssumption DEF UID, MemAssumption
  <2> QED BY <2>1, FS_Subset
<1>2. Cardinality(S) \in Nat
  BY <1>1, FS_CardinalityType
<1>3. ASSUME NEW u \in S
      PROVE  Rank(S, u) \in Nat /\ 1 <= Rank(S, u) /\ Rank(S, u) <= Cardinality(S)
  <2> DEFINE R == {w \in S : w <= u}
  <2>1. R \subseteq S /\ u \in R
    BY DEF UID
  <2>2. IsFiniteSet(R) /\ Cardinality(R) <= Cardinality(S)
    BY <1>1, <2>1, FS_Subset, Zenon
  <2>3. Cardinality(R) \in Nat
    BY <2>2, FS_CardinalityType
  <2>4. Cardinality(R) # 0
    BY <2>1, <2>2, FS_EmptySet
  <2> QED BY <2>2, <2>3, <2>4 DEF Rank
<1> QED BY <1>2, <1>3

(* MailboxView.Store gives every message it changes a mod-sequence above    *)
(* all earlier ones.                                                        *)
LEMMA StoreMoves ==
  ASSUME Types, NEW s \in Session, sess[s].mailbox \in Box, Consistent(box[sess[s].mailbox]),
         NEW U, NEW op \in StoreOp, NEW flags \in SUBSET Flag, NEW since,
         Store(s, U, op, flags, since)
  PROVE  \E k : /\ Moves(sess[s].mailbox, k)
                /\ DOMAIN k.msg = DOMAIN box[sess[s].mailbox].msg
<1> DEFINE b == sess[s].mailbox
           m == box[b]
           changed == Changed(b, U, op, flags, since)
           stored == [u \in DOMAIN m.msg |->
                        IF u \in changed
                        THEN [flags |-> StoredFlags(m.msg[u].flags, op, flags),
                              modSeq |-> m.highestModSeq + Rank(changed, u)]
                        ELSE m.msg[u]]
           k == [msg |-> stored, uidNext |-> m.uidNext,
                 highestModSeq |-> m.highestModSeq + Cardinality(changed),
                 expunged |-> m.expunged, origin |-> m.origin]
<1>1. box \in [Box -> MailboxType] /\ m \in MailboxType
  BY DEF Types
<1>2. box' = [box EXCEPT ![b] = k]
  <2>1. box' = [box EXCEPT ![b] = [m EXCEPT
          !.msg = stored, !.highestModSeq = m.highestModSeq + Cardinality(changed)]]
    BY <1>1, Zenon DEF Store
  <2>2. ASSUME NEW r, r = [m EXCEPT !.msg = stored,
                                    !.highestModSeq = m.highestModSeq + Cardinality(changed)]
        PROVE  r = k
    BY <1>1, <2>2, Zenon DEF MailboxType
  <2> QED BY <2>1, <2>2, Zenon
<1>3. m.uidNext \in 1 .. MaxUID + 1 /\ m.highestModSeq \in Nat
  BY <1>1, MailboxFields
<1>4. /\ DOMAIN m.msg \in SUBSET UID /\ m.msg \in [DOMAIN m.msg -> Message]
      /\ DOMAIN m.expunged \in SUBSET UID /\ m.expunged \in [DOMAIN m.expunged -> Nat]
      /\ DOMAIN m.origin \in SUBSET UID /\ m.origin \in [DOMAIN m.origin -> Origin]
  BY <1>1, MailboxFields, Zenon
<1>5. changed \in SUBSET UID /\ changed \subseteq DOMAIN m.msg
  BY <1>4 DEF Changed
<1>6. /\ Cardinality(changed) \in Nat
      /\ \A u \in changed : /\ Rank(changed, u) \in Nat /\ 1 <= Rank(changed, u)
                            /\ Rank(changed, u) <= Cardinality(changed)
  BY <1>5, RankBounds, Zenon
<1>7. \A u \in DOMAIN m.msg : m.msg[u].modSeq \in Nat /\ m.msg[u].flags \in SUBSET Flag
  BY <1>4 DEF Message
<1>8. \A u \in DOMAIN m.msg : StoredFlags(m.msg[u].flags, op, flags) \in SUBSET Flag
  BY <1>7 DEF StoredFlags, StoreOp
<1> HIDE DEF changed
<1>9. stored \in [DOMAIN m.msg -> Message]
  <2>1. ASSUME NEW u \in changed
        PROVE  [flags |-> StoredFlags(m.msg[u].flags, op, flags),
                modSeq |-> m.highestModSeq + Rank(changed, u)] \in Message
    <3>1. m.highestModSeq + Rank(changed, u) \in Nat
      BY <1>3, <1>6
    <3>2. StoredFlags(m.msg[u].flags, op, flags) \in SUBSET Flag
      BY <1>5, <1>8
    <3> QED BY <3>1, <3>2 DEF Message
  <2> QED BY <1>4, <2>1, Zenon
<1>10. k \in MailboxType
  <2>1. m.highestModSeq + Cardinality(changed) \in Nat
    BY <1>3, <1>6
  <2> HIDE DEF stored
  <2> QED BY <1>3, <1>4, <1>9, <2>1, MailboxMade, Zenon
<1>11. /\ k.uidNext = m.uidNext /\ k.highestModSeq = m.highestModSeq + Cardinality(changed)
       /\ k.expunged = m.expunged /\ k.origin = m.origin /\ DOMAIN k.msg = DOMAIN m.msg
       /\ \A u \in DOMAIN m.msg : u \notin changed => k.msg[u] = m.msg[u]
       /\ \A u \in changed : k.msg[u].modSeq = m.highestModSeq + Rank(changed, u)
  <2>1. /\ k.uidNext = m.uidNext /\ k.highestModSeq = m.highestModSeq + Cardinality(changed)
        /\ k.expunged = m.expunged /\ k.origin = m.origin /\ k.msg = stored
    BY Zenon
  <2> HIDE DEF k, m
  <2>2. \A u \in DOMAIN m.msg : u \notin changed => stored[u] = m.msg[u]
    BY Zenon
  <2>3. ASSUME NEW u \in changed PROVE stored[u].modSeq = m.highestModSeq + Rank(changed, u)
    <3>1. stored[u] = [flags |-> StoredFlags(m.msg[u].flags, op, flags),
                       modSeq |-> m.highestModSeq + Rank(changed, u)]
      BY <1>5, Zenon
    <3> HIDE DEF stored
    <3> QED BY <3>1
  <2>4. DOMAIN stored = DOMAIN m.msg
    BY Zenon
  <2> HIDE DEF stored
  <2> QED BY <2>1, <2>2, <2>3, <2>4, Zenon
<1> HIDE DEF m, k
<1>12. k.highestModSeq \in Nat /\ m.highestModSeq <= k.highestModSeq
  <2>1. k.highestModSeq = m.highestModSeq + Cardinality(changed) /\ Cardinality(changed) \in Nat
    BY <1>6, <1>11, Zenon
  <2> QED BY <1>3, <2>1
<1>13. ASSUME NEW u \in changed
       PROVE  k.msg[u].modSeq > m.highestModSeq /\ k.msg[u].modSeq <= k.highestModSeq
  BY <1>3, <1>6, <1>11
<1>14. \A u \in DOMAIN m.msg : m.msg[u].modSeq <= m.highestModSeq
  BY DEF Consistent, m
<1>15. \A u \in DOMAIN k.msg : k.msg[u].modSeq <= k.highestModSeq
  <2> SUFFICES ASSUME NEW u \in DOMAIN m.msg PROVE k.msg[u].modSeq <= k.highestModSeq
    BY <1>11, Zenon
  <2>1. CASE u \in changed
    BY <1>13, <2>1
  <2>2. CASE u \notin changed
    <3>1. k.msg[u].modSeq = m.msg[u].modSeq /\ m.msg[u].modSeq \in Nat /\ m.msg[u].modSeq <= m.highestModSeq
      BY <1>7, <1>11, <1>14, <2>2, Zenon
    <3> QED BY <1>3, <1>12, <3>1
  <2> QED BY <2>1, <2>2
<1>16. Consistent(k)
  <2>1. \A u \in DOMAIN k.expunged : k.expunged[u] <= k.highestModSeq
    <3> SUFFICES ASSUME NEW u \in DOMAIN m.expunged PROVE m.expunged[u] <= k.highestModSeq
      BY <1>11, Zenon
    <3>1. m.expunged[u] \in Nat /\ m.expunged[u] <= m.highestModSeq
      BY <1>4, Zenon DEF Consistent, m
    <3> QED BY <1>3, <1>12, <3>1
  <2> QED BY <1>11, <1>15, <2>1, Zenon DEF Consistent, m
<1>17. Advances(m, k)
  <2>1. \A u \in DOMAIN m.msg : Kept(m, k, u)
    BY <1>11, <1>13, Zenon DEF Kept, SameFlags
  <2> QED BY <1>3, <1>11, <1>12, <2>1 DEF Advances
<1> QED BY <1>2, <1>10, <1>11, <1>16, <1>17, Zenon DEF Moves, m

(* STORE. *)
LEMMA StoreKept ==
  ASSUME MemInv, NEW s \in Session, NEW U, NEW op \in StoreOp, NEW flags \in StoreFlags, NEW since,
         Store(s, U, op, flags, since)
  PROVE  AllMove /\ MemInv'
<1> DEFINE b == sess[s].mailbox
<1>1. /\ Types /\ InCommand(s) /\ CacheOf(s) /\ b \in Box /\ b <= prevUidValidity
      /\ mutex[b] = NoSession /\ sess[s] \in SessType
      /\ UNCHANGED <<dir, prevUidValidity, mutex, sess>>
  BY SessionFields, Zenon DEF MemInv, Store, Selected, Free
<1>2. flags \in SUBSET Flag
  BY MemAssumption DEF MemAssumption
<1>3. PICK k : Moves(b, k)
  BY <1>1, <1>2, StoreMoves, Zenon DEF MemInv
<1>4. AllMove /\ \A c \in Box \ {b} : box'[c] = box[c]
  BY <1>1, <1>3, OneMoves, Zenon
<1>5. \A c \in Box : c > prevUidValidity => c # b
  BY <1>1 DEF Types, NoBox, Box
<1>6. /\ dir' \in [Name -> {NoBox} \cup Box] /\ prevUidValidity' \in {NoBox} \cup Box
      /\ prevUidValidity' >= prevUidValidity /\ \A n \in Name : dir'[n] <= prevUidValidity'
  BY <1>1 DEF MemInv, Types, Made, NoBox, Box
<1> QED BY <1>1, <1>4, <1>5, <1>6, UserKept, Zenon

(* Every command step keeps the invariant and moves every mailbox forward. *)
LEMMA CommandKept ==
  ASSUME MemInv, NEW s \in Session, Command(s)
  PROVE  AllMove /\ MemInv'
<1> DEFINE Goal == AllMove /\ MemInv'
<1>1. ASSUME NEW U, ExpungeCollect(s, U) PROVE Goal
  BY <1>1, ExpungeCollectKept, Zenon
<1>2. ASSUME ExpungeRemove(s) PROVE Goal
  BY <1>2, ExpungeRemoveKept, Zenon
<1>3. ASSUME NEW U, NEW op \in StoreOp, NEW flags \in StoreFlags, NEW since,
             Store(s, U, op, flags, since)
      PROVE  Goal
  BY <1>3, StoreKept, Zenon
<1>4. ASSUME "fetch" \in Does[s], NEW U, NEW since, NEW markSeen \in BOOLEAN,
             Fetch(s, U, since, markSeen)
      PROVE  Goal
  BY <1>4, FetchKept, Zenon DEF Caches
<1>5. ASSUME NEW n \in Visits[s], NEW resync \in {FALSE, Caches(s)}, SelectView(s, n, resync) PROVE Goal
  <2>1. n \in Name
    BY MemAssumption DEF MemAssumption
  <2>2. resync \in BOOLEAN /\ (resync => Caches(s))
    <3>1. CASE resync = FALSE
      BY <3>1, Zenon
    <3>2. CASE resync = Caches(s)
      <4>1. Caches(s) \in BOOLEAN
        BY DEF Caches
      <4>2. resync \in BOOLEAN
        BY <3>2, <4>1, Zenon
      <4>3. resync => Caches(s)
        BY <3>2, Zenon
      <4> QED BY <4>2, <4>3
    <3> QED BY <3>1, <3>2, Zenon
  <2> QED BY <1>5, <2>1, <2>2, SelectViewKept, Zenon
<1>6. ASSUME SelectData(s) PROVE Goal
  BY <1>6, SelectDataKept, Zenon
<1>7. ASSUME Unselect(s) PROVE Goal
  BY <1>7, UnselectKept, Zenon
<1>8. ASSUME NEW U, NEW n \in Name, NEW move \in BOOLEAN, CopyBegin(s, U, n, move) PROVE Goal
  BY <1>8, CopyBeginKept, Zenon
<1>9. ASSUME NEW u, CopyMsg(s, u) PROVE Goal
  BY <1>9, CopyMsgKept, Zenon
<1>10. ASSUME CopyEnd(s) PROVE Goal
  BY <1>10, CopyEndKept, Zenon
<1> HIDE DEF Goal
<1>11. Goal
  BY <1>1, <1>2, <1>3, <1>4, <1>5, <1>6, <1>7, <1>8, <1>9, <1>10, Zenon DEF Command
<1> QED BY <1>11 DEF Goal

(* Every step does. *)
LEMMA NextInv ==
  ASSUME MemInv, [Next]_vars
  PROVE  AllMove /\ MemInv'
<1>1. CASE Directory
  BY <1>1, DirectoryKept, Zenon
<1>2. ASSUME NEW s \in Session, Command(s) PROVE AllMove /\ MemInv'
  BY <1>2, CommandKept, Zenon
<1>3. CASE UNCHANGED vars
  <2>1. UNCHANGED <<dir, prevUidValidity, box, mutex, sess>>
    BY <1>3 DEF vars
  <2>2. AllMove
    BY <2>1, StayMoves, Zenon
  <2>3. /\ dir' \in [Name -> {NoBox} \cup Box] /\ prevUidValidity' \in {NoBox} \cup Box
        /\ prevUidValidity' >= prevUidValidity /\ \A n \in Name : dir'[n] <= prevUidValidity'
    BY <2>1 DEF MemInv, Types, Made, NoBox, Box
  <2> QED BY <2>1, <2>2, <2>3, UserKept, Zenon
<1> QED BY <1>1, <1>2, <1>3, Zenon DEF Next

-----------------------------------------------------------------------------
(***************************************************************************)
(* The mailboxes, the commands in progress and the clients' caches fit     *)
(* together in every reachable state.                                      *)
(***************************************************************************)
THEOREM MemInvariant == Spec => []MemInv
<1>1. Init => MemInv
  BY InitInv
<1>2. MemInv /\ [Next]_vars => MemInv'
  BY NextInv
<1> QED BY <1>1, <1>2, PTL DEF Spec

(***************************************************************************)
(* The state of the backend keeps its types, and a command leaves no work  *)
(* behind.                                                                 *)
(***************************************************************************)
THEOREM MemTypes == Spec => []TypeOK
<1>1. ASSUME MemInv PROVE TypeOK
  <2>1. ASSUME NEW b \in Box
        PROVE  /\ box[b].uidNext \in 1 .. MaxUID + 1
               /\ box[b].highestModSeq \in Nat
               /\ box[b].msg \in [DOMAIN box[b].msg -> Message]
               /\ box[b].expunged \in [DOMAIN box[b].expunged -> Nat]
    <3>1. box[b] \in MailboxType
      BY <1>1 DEF MemInv, Types
    <3> QED BY <3>1, MailboxFields, Zenon
  <2>2. ASSUME NEW s \in Session
        PROVE  /\ sess[s].mailbox \in {NoBox} \cup Box
               /\ sess[s].dest \in {NoBox} \cup Box
               /\ sess[s].pc \in {"ready", "expunge", "select", "copy", "move"}
               /\ sess[s].set \subseteq UID /\ sess[s].moved \subseteq UID
               /\ sess[s].from \in Nat /\ sess[s].resync \in BOOLEAN
               /\ Ready(s) => sess[s].set = {} /\ sess[s].moved = {}
    <3>1. Ready(s) => sess[s].set = {} /\ sess[s].moved = {}
      BY <1>1 DEF MemInv, InCommand, Ready
    <3>2. sess[s].set \subseteq UID /\ sess[s].moved \subseteq UID
      BY <1>1, SessionFields
    <3> QED BY <1>1, <3>1, <3>2, SessionFields, Zenon
  <2> QED BY <1>1, <2>1, <2>2, Zenon DEF TypeOK, MemInv, Types
<1> QED BY <1>1, MemInvariant, PTL

(***************************************************************************)
(* The contract of UIDs and mod-sequences: each step moves each mailbox    *)
(* forward.                                                                *)
(***************************************************************************)
THEOREM MailboxesAdvance == Spec => [][\A b \in Box : Advances(box[b], box'[b])]_vars
<1>1. MemInv /\ [Next]_vars => [\A b \in Box : Advances(box[b], box'[b])]_vars
  <2> SUFFICES ASSUME MemInv, [Next]_vars PROVE \A b \in Box : Advances(box[b], box'[b])
    OBVIOUS
  <2>1. AllMove
    BY NextInv, Zenon
  <2> QED BY <2>1, Zenon DEF AllMove
<1> QED BY <1>1, MemInvariant, PTL DEF Spec

(***************************************************************************)
(* What a client remembers of a mailbox can be brought up to date from its *)
(* mod-sequence alone, whatever the other sessions did in the meantime.    *)
(***************************************************************************)
THEOREM CachesStaySound == Spec => []CacheSound
<1>1. ASSUME MemInv PROVE CacheSound
  <2>1. \A s \in Session : CacheOf(s)
    BY <1>1, Zenon DEF MemInv
  <2> QED BY <2>1, Zenon DEF CacheSound, CacheOf, Sound
<1> QED BY <1>1, MemInvariant, PTL

(***************************************************************************)
(* UIDVALIDITY and UID name one message for ever (User.create, rename,     *)
(* appendBytes).                                                           *)
(***************************************************************************)
THEOREM UIDsKeepMessages == Spec => UIDIdentity
<1> DEFINE Identity == \A b \in Box : \A u \in DOMAIN box[b].origin :
                         /\ u \in DOMAIN box'[b].origin
                         /\ box'[b].origin[u] = box[b].origin[u]
<1>1. MemInv /\ [Next]_vars => [Identity]_vars
  <2> SUFFICES ASSUME MemInv, [Next]_vars PROVE Identity
    OBVIOUS
  <2>1. AllMove
    BY NextInv, Zenon
  <2> QED BY <2>1, Zenon DEF AllMove, Advances
<1> QED BY <1>1, MemInvariant, PTL DEF Spec, UIDIdentity

(***************************************************************************)
(* No lost update: MailboxView.Store with UNCHANGEDSINCE at the client's   *)
(* mod-sequence changes only messages whose flags the client has seen.     *)
(***************************************************************************)
THEOREM StoresSeeChanges == Spec => ConditionalStore
<1> DEFINE NoLostUpdate ==
      \A s \in Session, U \in NumSet, op \in StoreOp, flags \in StoreFlags :
        Store(s, U, op, flags, sess[s].cache.modSeq) =>
            LET b == sess[s].mailbox
                seen == sess[s].cache.flags
            IN  \A u \in DOMAIN seen \cap DOMAIN box[b].msg :
                    box'[b].msg[u] # box[b].msg[u] =>
                        SameFlags(box[b].msg[u].flags, seen[u])
<1>1. ASSUME MemInv, NEW s \in Session, NEW U, NEW op, NEW flags,
             Store(s, U, op, flags, sess[s].cache.modSeq),
             NEW u \in DOMAIN sess[s].cache.flags \cap DOMAIN box[sess[s].mailbox].msg,
             box'[sess[s].mailbox].msg[u] # box[sess[s].mailbox].msg[u]
      PROVE  SameFlags(box[sess[s].mailbox].msg[u].flags, sess[s].cache.flags[u])
  <2> DEFINE b == sess[s].mailbox
             c == sess[s].cache
             m == box[b]
             changed == Changed(b, U, op, flags, c.modSeq)
  <2>1. /\ b # NoBox /\ b \in Box /\ sess[s].pc = "ready" /\ c \in CacheType /\ CacheOf(s)
        /\ m \in MailboxType /\ Consistent(m) /\ box \in [Box -> MailboxType]
    <3>1. b # NoBox /\ sess[s].pc = "ready"
      BY <1>1, Zenon DEF Store, Selected, Ready
    <3>2. b \in Box /\ c \in CacheType /\ CacheOf(s)
      BY <1>1, <3>1, SessionFields, Zenon
    <3> QED BY <1>1, <3>1, <3>2, Zenon DEF MemInv, Types
  <2>2. c.box = b
    <3>1. Caches(s)
      BY <1>1, <2>1, Zenon DEF CacheOf
    <3> QED BY <2>1, <3>1 DEF CacheOf
  <2>3. Sound(m, c)
    BY <2>1, <2>2 DEF CacheOf
  <2>4. u \in changed
    <3> DEFINE stored == [w \in DOMAIN m.msg |->
                            IF w \in changed
                            THEN [flags |-> StoredFlags(m.msg[w].flags, op, flags),
                                  modSeq |-> m.highestModSeq + Rank(changed, w)]
                            ELSE m.msg[w]]
    <3>1. box' = [box EXCEPT ![b] = [m EXCEPT
            !.msg = stored, !.highestModSeq = m.highestModSeq + Cardinality(changed)]]
      BY <1>1, <2>1, Zenon DEF Store
    <3>2. box'[b].msg = stored
      <4> HIDE DEF stored, m
      <4>1. box'[b] = [m EXCEPT !.msg = stored, !.highestModSeq = m.highestModSeq + Cardinality(changed)]
        BY <2>1, <3>1, Zenon
      <4> QED BY <2>1, <4>1, Zenon DEF MailboxType
    <3>3. CASE u \notin changed
      <4>1. stored[u] = m.msg[u]
        BY <1>1, <3>3, Zenon
      <4> QED BY <1>1, <3>2, <4>1, Zenon
    <3> QED BY <3>3
  <2>5. m.msg[u].modSeq <= c.modSeq
    <3>1. c.modSeq # NoSince
      BY <2>1, CacheFields DEF NoSince
    <3>2. MayStore(m.msg[u], c.modSeq)
      BY <2>4, Zenon DEF Changed
    <3> QED BY <3>1, <3>2, Zenon DEF MayStore
  <2>6. m.msg[u].modSeq \in Nat /\ c.modSeq \in Nat
    <3>1. m.msg \in [DOMAIN m.msg -> Message] /\ c.modSeq \in Nat
      BY <2>1, MailboxFields, CacheFields, Zenon
    <3> HIDE DEF m, c
    <3>2. u \in DOMAIN m.msg
      BY <1>1 DEF m, b
    <3> QED BY <3>1, <3>2 DEF Message
  <2>7. u \notin DOMAIN m.expunged
    BY <1>1, <2>1, Zenon DEF Consistent
  <2> HIDE DEF m, c
  <2>8. ~(m.msg[u].modSeq > c.modSeq)
    BY <2>5, <2>6
  <2>9. u \in DOMAIN c.flags
    BY <1>1 DEF c
  <2>10. SameFlags(m.msg[u].flags, c.flags[u])
    BY <2>3, <2>7, <2>8, <2>9, Zenon DEF Sound
  <2> QED BY <2>10 DEF m, c
<1>2. MemInv /\ [Next]_vars => [NoLostUpdate]_vars
  BY <1>1, Zenon
<1> HIDE DEF NoLostUpdate
<1>3. Spec => [][NoLostUpdate]_vars
  BY <1>2, MemInvariant, PTL DEF Spec
<1> QED BY <1>3 DEF NoLostUpdate, ConditionalStore

(* The cache after SELECT: refreshed, or begun afresh. *)
LEMMA SelectedCache ==
  ASSUME sess \in [Session -> SessType], NEW s \in Session, SelectData(s)
  PROVE  LET b == sess[s].mailbox
             c == sess[s].cache
         IN  sess'[s].cache =
                CASE ~Caches(s) -> NoCache
                  [] sess[s].resync /\ c.box = b -> Resynced(c, b, sess[s].from)
                  [] OTHER -> [box |-> b, modSeq |-> box[b].highestModSeq, flags |-> NoMessages]
<1> DEFINE b == sess[s].mailbox
           c == sess[s].cache
           new == CASE ~Caches(s) -> NoCache
                    [] sess[s].resync /\ c.box = b -> Resynced(c, b, sess[s].from)
                    [] OTHER -> [box |-> b, modSeq |-> box[b].highestModSeq, flags |-> NoMessages]
<1>1. sess' = [sess EXCEPT ![s] = [sess[s] EXCEPT !.pc = "ready", !.from = 0, !.resync = FALSE,
                                                 !.cache = new]]
  BY SelectData(s), Zenon DEF SelectData
<1> HIDE DEF new
<1>2. sess'[s] = [sess[s] EXCEPT !.pc = "ready", !.from = 0, !.resync = FALSE, !.cache = new]
  BY <1>1, Zenon
<1>3. sess[s] \in SessType
  OBVIOUS
<1>4. sess'[s].cache = new
  BY <1>2, <1>3, Zenon DEF SessType
<1> QED BY <1>4 DEF new

(***************************************************************************)
(* SELECT with QRESYNC (selectData) leaves the client with exactly the     *)
(* messages it knew that survive and those changed or appended since its   *)
(* mod-sequence, with their flags, but for messages appended between the   *)
(* two halves of Select.                                                   *)
(***************************************************************************)
THEOREM ResyncsAreExact == Spec => ResyncExact
<1>1. ASSUME MemInv, [Next]_vars, NEW s \in Session, Resyncs(s) PROVE SelectData(s)
  <2>0. sess[s].pc = "select" /\ sess'[s].pc = "ready" /\ sess'[s] # sess[s]
    BY <1>1 DEF Resyncs
  <2>1. sess \in [Session -> SessType]
    BY <1>1 DEF MemInv, Types
  <2>2. ~Directory
    BY <2>0, Zenon DEF Directory, Create, Delete, Rename, Append
  <2>3. ASSUME NEW t \in Session, Command(t), t # s PROVE FALSE
    <3> DEFINE Same == sess'[s] = sess[s]
    <3>1. ASSUME NEW U, ExpungeCollect(t, U) PROVE Same
      BY <2>1, <2>3, <3>1, Zenon DEF ExpungeCollect
    <3>2. ASSUME ExpungeRemove(t) PROVE Same
      BY <2>1, <2>3, <3>2, Zenon DEF ExpungeRemove
    <3>3. ASSUME NEW U, NEW since, NEW markSeen, Fetch(t, U, since, markSeen) PROVE Same
      BY <2>1, <2>3, <3>3, Zenon DEF Fetch
    <3>4. ASSUME NEW n, NEW resync, SelectView(t, n, resync) PROVE Same
      BY <2>1, <2>3, <3>4, Zenon DEF SelectView
    <3>5. ASSUME SelectData(t) PROVE Same
      BY <2>1, <2>3, <3>5, Zenon DEF SelectData
    <3>6. ASSUME Unselect(t) PROVE Same
      BY <2>1, <2>3, <3>6, Zenon DEF Unselect
    <3>7. ASSUME NEW U, NEW n, NEW move, CopyBegin(t, U, n, move) PROVE Same
      BY <2>1, <2>3, <3>7, Zenon DEF CopyBegin
    <3>8. ASSUME NEW u, CopyMsg(t, u) PROVE Same
      BY <2>1, <2>3, <3>8, Zenon DEF CopyMsg
    <3>9. ASSUME CopyEnd(t) PROVE Same
      BY <2>1, <2>3, <3>9, Zenon DEF CopyEnd
    <3>10. ASSUME NEW U, NEW op, NEW flags, NEW since, Store(t, U, op, flags, since) PROVE Same
      BY <3>10, Zenon DEF Store
    <3> HIDE DEF Same
    <3>11. Same
      BY <2>3, <3>1, <3>2, <3>3, <3>4, <3>5, <3>6, <3>7, <3>8, <3>9, <3>10, Zenon DEF Command
    <3> QED BY <2>0, <3>11 DEF Same
  <2>4. ASSUME Command(s) PROVE SelectData(s)
    BY <2>0, <2>4
    DEF Command, ExpungeCollect, ExpungeRemove, Store, Fetch, SelectView, Unselect, CopyBegin,
        CopyMsg, CopyEnd, Selected, Ready
  <2>5. ~UNCHANGED vars
    BY <2>0 DEF vars
  <2> QED BY <1>1, <2>2, <2>3, <2>4, <2>5, Zenon DEF Next
<1>2. ASSUME MemInv, [Next]_vars, NEW s \in Session, Resyncs(s)
      PROVE  UpToDate(s)
  <2> DEFINE b == sess[s].mailbox
             c == sess[s].cache
             from == sess[s].from
             fresh == [box |-> b, modSeq |-> box[b].highestModSeq, flags |-> NoMessages]
             new == CASE ~Caches(s) -> NoCache
                      [] sess[s].resync /\ c.box = b -> Resynced(c, b, from)
                      [] OTHER -> fresh
  <2>1. SelectData(s) /\ sess[s].pc = "select" /\ sess[s].resync
    BY <1>1, <1>2 DEF Resyncs
  <2>2. sess \in [Session -> SessType] /\ sess[s] \in SessType /\ InCommand(s) /\ CacheOf(s) /\ Types
    BY <1>2, SessionFields, Zenon DEF MemInv
  <2>3. sess'[s].cache = new
    <3>1. sess \in [Session -> SessType] /\ SelectData(s)
      BY <2>1, <2>2, Zenon
    <3> QED BY <3>1, SelectedCache
  <2>4. b \in Box /\ b # NoBox /\ Consistent(box[b]) /\ Caches(s) /\ c \in CacheType
    <3>1. b \in Box /\ Caches(s)
      BY <2>1, <2>2, Zenon DEF InCommand, CacheOf
    <3>2. b # NoBox
      BY <3>1 DEF Box, NoBox
    <3> QED BY <1>2, <3>1, <3>2, SessionFields, Zenon DEF MemInv
  <2>5. CASE c.box = b
    <3>1. new = Resynced(c, b, from)
      BY <2>1, <2>4, <2>5, Zenon
    <3>2. Sound(box[b], c) /\ \A u \in DOMAIN c.flags : u < from
      BY <2>1, <2>2, <2>4, <2>5, Zenon DEF CacheOf
    <3> HIDE DEF b, c, from, new
    <3>3. LET x == Resynced(c, b, from)
          IN  /\ DOMAIN x.flags =
                  {u \in DOMAIN box[b].msg :
                     u < from /\ (u \in DOMAIN c.flags \/ box[b].msg[u].modSeq > c.modSeq)}
              /\ \A u \in DOMAIN x.flags : SameFlags(x.flags[u], box[b].msg[u].flags)
      BY <2>2, <2>4, <3>2, ResyncedExact
    <3>4. DOMAIN box[b].msg \in SUBSET UID
      BY <2>2, <2>4, MailboxFields, Zenon DEF Types
    <3>5. from \in Nat
      BY <2>2 DEF from, SessType
    <3>6. \A u \in DOMAIN box[b].msg : u < from <=> ~(u >= from)
      BY <3>4, <3>5 DEF UID
    <3>7. {u \in DOMAIN box[b].msg :
              u < from /\ (u \in DOMAIN c.flags \/ box[b].msg[u].modSeq > c.modSeq)}
          = {u \in DOMAIN box[b].msg \ {v \in DOMAIN box[b].msg : v >= from} :
              u \in DOMAIN c.flags \/ box[b].msg[u].modSeq > c.modSeq}
      BY <3>6, Zenon
    <3>8. c.box = b
      BY <2>5 DEF b, c
    <3> QED BY <2>3, <3>1, <3>3, <3>7, <3>8, Zenon DEF b, c, from, UpToDate
  <2>6. CASE c.box # b
    <3>1. new = fresh
      BY <2>4, <2>6, Zenon
    <3>2. fresh.flags = NoMessages /\ DOMAIN NoMessages = {}
      BY Zenon DEF NoMessages
    <3>3. DOMAIN new.flags = {}
      <4> HIDE DEF new, fresh
      <4> QED BY <3>1, <3>2, Zenon
    <3> HIDE DEF new, c
    <3>4. c.box # b
      BY <2>6 DEF c
    <3> QED BY <2>3, <3>3, <3>4, Zenon DEF c, UpToDate
  <2> QED BY <2>5, <2>6
<1>3. MemInv /\ [Next]_vars => [\A s \in Session : Resyncs(s) => UpToDate(s)]_vars
  BY <1>2, Zenon
<1> QED BY <1>3, MemInvariant, PTL DEF Spec, ResyncExact

(***************************************************************************)
(* A message leaves a mailbox only because an EXPUNGE had collected it     *)
(* (Mailbox.Expunge), or because MOVE had stored it elsewhere before       *)
(* (UserSession.Move).                                                     *)
(***************************************************************************)
THEOREM NoMessageLost == Spec => NothingLost
<1> DEFINE Gone(b, u) ==
             \/ \E s \in Session :
                 sess[s].pc = "expunge" /\ sess[s].mailbox = b /\ u \in sess[s].set
             \/ Elsewhere(b, box[b].origin[u])
           Accounted == \A b \in Box : \A u \in DOMAIN box[b].msg \ DOMAIN box'[b].msg : Gone(b, u)
<1>1. ASSUME MemInv, [Next]_vars PROVE Accounted
  <2> USE <1>1
  <2>0. Types /\ box \in [Box -> MailboxType]
    BY DEF MemInv, Types
  <2>1. ASSUME box' = box PROVE Accounted
    BY <2>1
  <2>2. ASSUME NEW b \in Box, NEW k, Moves(b, k), DOMAIN box[b].msg \subseteq DOMAIN k.msg PROVE Accounted
    <3>1. box'[b] = k /\ \A c \in Box \ {b} : box'[c] = box[c]
      BY <2>2, OneMoves, Zenon
    <3> QED BY <2>2, <3>1
  <2>3. ASSUME NEW b \in Box, NEW k, Moves(b, k), \A u \in DOMAIN box[b].msg \ DOMAIN k.msg : Gone(b, u)
        PROVE  Accounted
    <3>1. box'[b] = k /\ \A c \in Box \ {b} : box'[c] = box[c]
      BY <2>3, OneMoves, Zenon
    <3> HIDE DEF Gone
    <3> QED BY <2>3, <3>1
  <2>4. ASSUME NEW n \in Name, Create(n) PROVE Accounted
    <3> DEFINE v == prevUidValidity + 1
    <3>1. v \in Box /\ v > prevUidValidity
      BY <2>0, <2>4 DEF Create, NextUidValidity, Types, NoBox, Box
    <3>2. box[v] = NewMailbox
      BY <3>1, Zenon DEF MemInv, Made
    <3>3. box' = [box EXCEPT ![v] = NewMailbox]
      BY <2>4, Zenon DEF Create, NextUidValidity
    <3> HIDE DEF v
    <3>4. box' = box
      BY <2>0, <3>1, <3>2, <3>3
    <3> QED BY <2>1, <3>4
  <2>5. ASSUME NEW n \in Name, NEW flags \in AppendFlags, Append(n, flags) PROVE Accounted
    <3> DEFINE b == dir[n]
    <3>1. b \in Box /\ Consistent(box[b])
      BY <2>5, NamedBox DEF Append
    <3>2. box' = Appended(b, flags, <<b, box[b].uidNext>>) /\ box[b].uidNext \in UID
      BY <2>5, Zenon DEF Append, CanAppend
    <3>3. flags \in SUBSET Flag
      BY MemAssumption DEF MemAssumption
    <3>4. <<b, box[b].uidNext>> \in Origin
      BY <3>1, <3>2 DEF Origin
    <3>5. PICK k : Moves(b, k) /\ DOMAIN box[b].msg \subseteq DOMAIN k.msg
      BY <2>0, <3>1, <3>2, <3>3, <3>4, AppendMoves, Zenon
    <3> QED BY <2>2, <3>1, <3>5, Zenon
  <2>6. ASSUME NEW s \in Session, ExpungeRemove(s) PROVE Accounted
    <3> DEFINE b == sess[s].mailbox
    <3>1. sess[s].pc = "expunge" /\ box' = Expunged(b, sess[s].set)
      BY <2>6, Zenon DEF ExpungeRemove
    <3>2. b \in Box /\ Consistent(box[b])
      BY <3>1 DEF MemInv, InCommand
    <3>3. PICK k : Moves(b, k) /\ DOMAIN box[b].msg \ DOMAIN k.msg \subseteq sess[s].set
      BY <2>0, <3>1, <3>2, ExpungeMoves, Zenon
    <3>4. \A u \in DOMAIN box[b].msg \ DOMAIN k.msg : Gone(b, u)
      BY <3>1, <3>3
    <3> QED BY <2>3, <3>2, <3>3, <3>4
  <2>7. ASSUME NEW s \in Session, NEW U, NEW op \in StoreOp, NEW flags \in StoreFlags, NEW since,
               Store(s, U, op, flags, since)
        PROVE  Accounted
    <3>1. sess[s].mailbox \in Box /\ Consistent(box[sess[s].mailbox])
      BY <2>7, SessionFields, Zenon DEF Store, Selected, MemInv
    <3>2. flags \in SUBSET Flag
      BY MemAssumption DEF MemAssumption
    <3>3. PICK k : Moves(sess[s].mailbox, k) /\ DOMAIN k.msg = DOMAIN box[sess[s].mailbox].msg
      BY <2>0, <2>7, <3>1, <3>2, StoreMoves, Zenon
    <3> QED BY <2>2, <3>1, <3>3
  <2>8. ASSUME NEW s \in Session, NEW U, NEW since, NEW markSeen \in BOOLEAN,
               Fetch(s, U, since, markSeen)
        PROVE  Accounted
    <3>1. sess[s].mailbox \in Box /\ Consistent(box[sess[s].mailbox])
      BY <2>8, SessionFields, Zenon DEF Fetch, Selected, MemInv
    <3>2. PICK k : Moves(sess[s].mailbox, k) /\ DOMAIN k.msg = DOMAIN box[sess[s].mailbox].msg
      BY <2>0, <2>8, <3>1, FetchMoves, Zenon
    <3> QED BY <2>2, <3>1, <3>2
  <2>9. ASSUME NEW s \in Session, NEW u, CopyMsg(s, u) PROVE Accounted
    <3> DEFINE b == sess[s].mailbox
               d == sess[s].dest
    <3>1. /\ sess[s].pc \in {"copy", "move"} /\ u \in sess[s].set
          /\ box[d].uidNext \in UID /\ box' = Appended(d, box[b].msg[u].flags, box[b].origin[u])
      BY <2>9, Zenon DEF CopyMsg, CanAppend
    <3>2. b \in Box /\ d \in Box /\ u \in DOMAIN box[b].msg
      BY <3>1, Zenon DEF MemInv, InCommand
    <3>3. box[b] \in MailboxType /\ Consistent(box[b]) /\ Consistent(box[d])
      BY <2>0, <3>2, Zenon DEF MemInv
    <3>4. box[b].msg \in [DOMAIN box[b].msg -> Message] /\ box[b].origin \in [DOMAIN box[b].origin -> Origin]
      BY <3>3, MailboxFields, Zenon
    <3> HIDE DEF b, d
    <3>5. box[b].msg[u] \in Message /\ box[b].origin[u] \in Origin
      BY <3>2, <3>3, <3>4 DEF Consistent
    <3>6. box[b].msg[u].flags \in SUBSET Flag
      BY <3>5, Zenon DEF Message
    <3>7. PICK k : Moves(d, k) /\ DOMAIN box[d].msg \subseteq DOMAIN k.msg
      BY <2>0, <3>1, <3>2, <3>3, <3>5, <3>6, AppendMoves, Zenon
    <3> QED BY <2>2, <3>2, <3>7
  <2>10. ASSUME NEW s \in Session, CopyEnd(s) PROVE Accounted
    <3> DEFINE b == sess[s].mailbox
    <3>1. sess[s].pc \in {"copy", "move"} /\ (box' = box \/ box' = Expunged(b, sess[s].moved))
      BY <2>10 DEF CopyEnd
    <3>2. /\ b \in Box /\ Consistent(box[b])
          /\ \A u \in sess[s].moved : Elsewhere(b, box[b].origin[u])
      BY <3>1 DEF MemInv, InCommand
    <3>3. CASE box' = box
      BY <2>1, <3>3
    <3>4. CASE box' = Expunged(b, sess[s].moved)
      <4>1. PICK k : Moves(b, k) /\ DOMAIN box[b].msg \ DOMAIN k.msg \subseteq sess[s].moved
        BY <2>0, <3>2, <3>4, ExpungeMoves, Zenon
      <4>2. \A u \in DOMAIN box[b].msg \ DOMAIN k.msg : Gone(b, u)
        BY <3>2, <4>1, Zenon
      <4> QED BY <2>3, <3>2, <4>1, <4>2
    <3> QED BY <3>1, <3>3, <3>4
  <2> HIDE DEF Accounted
  <2>11. ASSUME Directory PROVE Accounted
    <3>1. Volatile \subseteq Name
      BY MemAssumption DEF MemAssumption
    <3> QED BY <2>1, <2>4, <2>5, <2>11, <3>1, Zenon DEF Directory, Delete, Rename
  <2>12. ASSUME NEW s \in Session, Command(s) PROVE Accounted
    BY <2>1, <2>6, <2>7, <2>8, <2>9, <2>10, <2>12, Zenon
    DEF Command, ExpungeCollect, SelectView, SelectData, Unselect, CopyBegin
  <2>13. ASSUME UNCHANGED vars PROVE Accounted
    BY <2>1, <2>13 DEF vars
  <2> QED BY <2>11, <2>12, <2>13, Zenon DEF Next
<1>2. MemInv /\ [Next]_vars => [Accounted]_vars
  BY <1>1, Zenon
<1> HIDE DEF Accounted
<1>3. Spec => [][Accounted]_vars
  BY <1>2, MemInvariant, PTL DEF Spec
<1> QED BY <1>3 DEF Accounted, Gone, NothingLost
=============================================================================
