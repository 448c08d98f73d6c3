# go-imap in TLA+

This directory keeps a TLA+ development beside go-imap: models of the server
library (`imapserver`), its in-memory backend (`imapserver/imapmemserver`), the
client library (`imapclient`) and the wire format they share
(`internal/imapwire`, `internal/imapnum`). TLC checks the models on small
instances, and TLAPS proves the central results for instances of every size.

`PROJECT.json` maps each definition to the source lines it translates, and
lists runs, mutants, hazards, findings and theorems. Comments in the modules
name the function an action stands for.

    tlc -workers 2 -config tracker.cfg MCMailboxTracker   # a run
    tlapm TrackerRefinementProofs.tla                      # the proofs of a module

## The system and the modules

A **server** accepts connections and gives each a goroutine. A **connection**
reads commands, calls its **session** (the backend) and writes responses;
between commands, in IDLE and from a NOTIFY pump it also writes what other
sessions did to the selected mailbox. Those changes come through a **mailbox
tracker**, which fans them out to one queue per session. A **client** sends
commands from any goroutine, and one read goroutine gives responses to the
commands that are pending.

| Part of the system | Code | Modules |
|---|---|---|
| Mailbox and session trackers | `imapserver/tracker.go` | `MailboxTracker`, `SessionReaders`; abstractly `SharedMailbox`, `TrackerRefinement`; `MailboxTrackerProofs`, `SessionReadersProofs`, `TrackerRefinementProofs` |
| Accept loop, Close, Shutdown, serve loop, IDLE | `imapserver/server.go`, `conn.go`, `idle.go` | `ServerLifecycle`; `ServerLifecycleProofs` |
| Commands, state of the connection, NOTIFY pump | `imapserver/conn.go`, `select.go`, `notify.go`, `imapmemserver/session.go`, `notify.go` | `Connection`; `ConnectionProofs` |
| In-memory mailboxes | `imapmemserver/mailbox.go`, `session.go`, `user.go`, `message.go` | `MemMailbox`; `MemMailboxProofs` |
| Client pipeline | `imapclient/client.go`, `idle.go`, `authenticate.go`, `append.go` | `Client`; `ClientProofs` |
| Client FETCH streaming | `imapclient/fetch.go` | `FetchStream`; `FetchProofs` |
| Client dispatch and mirror | `imapclient/*.go` | `ClientResponses` |
| Framing of commands | `internal/imapwire`, `imapserver/conn.go`, `append.go` | `Framing` |
| Number sets, UID mappings, LIST patterns | `internal/imapnum`, `uidmapping.go`, `internal/listmatch.go` | `NumSet` (theorems in `FetchProofs`), `UIDMapping`, `ListMatch` |

The `MC*` modules give TLC its constants. `MCWire` puts the three algorithms
and the framing into one run, one topic per behaviour.

### How state and actions correspond

**MailboxTracker.** Steps are as fine as the locks. `BeginFanOut`,
`EnqueueUpdate`, `SendSignal` and `EndFanOut` are `queueUpdate`, which holds
the mailbox mutex while it visits the sessions; `Dequeue`, `Coalesce`,
`WriteUpdate`, `WriteFails`, `FlushVanished` and `EndPoll` are one poll under
the delivery mutex; `IdleRegister`, `IdlePoll`, `IdleWake` and `IdleStop` are
`Idle` with its bounded channel; `CloseClear` and `CloseDelete` the two
critical sections of `Close`. The code has numbers only. The model adds, as
history, the messages behind them: a mailbox, or a client's picture of it, is a
set of UIDs, and a sequence number is a rank in it. The client applies what it
reads by number alone (`ClientView`, `ClientExists`), so that a wrong number
shows as a wrong picture. `SessionReaders` has `DecodeSeqNum`, `EncodeSeqNum`
and `EncodeNumMessages`.

**ServerLifecycle.** A connection is a record with its place in `serve` or
`handleIdle`, its read deadline (ahead, or in the past to interrupt a read),
the `idle` and `shuttingDown` flags, and the states of the backend's
`Session.Idle` and of the watcher goroutine. The end of a connection takes the
steps of the deferred calls: `Teardown` leaves `conns`, `CloseConn` closes the
socket, `Release` gives the slot back and `Leave` tells `connsWaitGroup`.
`RejectConn` is the goroutine that refuses a client over the limit. The server
has its listener state, slots, the set `conns`, and who is closing it how far.

**Connection.** One step per command where no pump can act in between;
stopping a pump, polling and IDLE take several. The pump is a process with its
own view of watch, mailbox and batch. Whoever delivers holds the delivery mutex
of the session tracker, and the poll of a command waits for it (`Poll`). `told`
is what the client has reason to believe, and the properties compare the code's
state with it.

**MemMailbox.** A step is a critical section of a mailbox's mutex. EXPUNGE and
SELECT release it halfway; COPY and MOVE hold the source's while they take the
destination's message by message. Each session's client keeps the cache that
QRESYNC is there for.

**Client.** Each caller is at a place in sending, flushing, waiting for a
continuation or for completion; the reader is parked, decoding or closing.
`pending`, `contReqs`, `encMutex`, the read deadline and `doomed` (the commands
`closeWithError` has taken) are the code's. `Read` is the read goroutine's start,
with the two deadlines it sets one after the other. The server answers in order
and may refuse, stall or hang up.

**FetchStream.** The reader's place in a FETCH response, the data it keeps
back until it knows whose the response is, the shared budget, the two bounded
channels and the bodies, and the consumers.

**ClientResponses.** Every untagged response's handler with the rule by which
it picks a pending command, what LIST keeps back, and the client's state,
selected mailbox, capabilities and extensions against the server's. Commands end
with OK, NO or BAD. `CompleteCommand` and `SetCaps` are the two steps of a
completion that invalidates the capabilities (`forget` is what is between them),
`Refresh` the goroutine that asks for them again. `astray` notes that a report
of the selected mailbox's count did not reach it.

**Framing.** The stream is a sequence of tokens: text, an announcement of a
literal, an end of line, octets. The decoder's fields (`literal`,
`pendingLiteral`, `crlf`, `desynced`) decide what is skipped when a handler
stops early.

**NumSet, UIDMapping, ListMatch.** The algorithms as functions, next to
reference definitions: a set of numbers, a list of pairs, a match by search.

## Runs

All runs but the last three pass. State counts are distinct states.

| Run | What is shown |
|---|---|
| `tracker` (258,685) | Each response denotes the message its update was about in the numbering the client has then (`ResponsesMeaningful`); the client's count is the size of its picture (`ClientCountRight`); sequence numbers and `*` are translated as the client sees them (`TranslationExact`); the inductive invariant (`TrackerInv`); a session the fan-out has passed is current (`RegisteredSessionsCurrent`); IDLE delivers all (`IdleDelivers`); the tracker implements `SharedMailbox` (`SharedMailboxImplemented`). |
| `lifecycle_server` (197,699) | Nothing slips past a forced close (`NoSurvivor`); a `Shutdown` that returns in time leaves no connection, slot or socket behind (`NothingLeft`); a client that is gone gives its slot back, whatever its connection was doing (`LostClientFreesSlot`). |
| `lifecycle_conn` (363,470) | One connection with IDLE: the shutdown's BYE is the last word and nothing is in flight (`ShutdownByeIsLast`); `Shutdown` ends by itself (`ShutdownCompletes`); a backend that ends an IDLE is heard (`BackendByeUnparks`). |
| `connection` (404,705) | No update crosses a SELECT (`NoCrossDelivery`); one pump (`OnePump`); an accepted watch is served, or the connection ends (`WatchAlive`); the pump is gone before the BYE of a shutdown (`NoPumpAfterBye`); NOTIFY's snapshot holds still (`FrozenView`); a lost connection is torn down even if the backend hangs (`TeardownCompletes`); an IDLE takes delivery over after an overflow (`OverflowThaws`). |
| `mem` (459,865) | A cache can always be brought up to date from its mod-sequence (`CacheSound`), and QRESYNC does so exactly, but for a message appended in the middle of SELECT (`ResyncExact`); a conditional STORE overwrites nothing unseen (`ConditionalStore`); no message is lost (`NothingLost`); (UIDVALIDITY, UID) never names two messages (`UIDIdentity`). |
| `client` (93,364) | Commands complete once (`CompletedOnce`); from the greeting on the read deadline fits what is pending (`DeadlineRight`); a continuation reaches its command, but for one thief (`ContinuationGoesHome`, see below); every call returns (`EveryCallReturns`). |
| `fetch` | Responses reach the command they answer (`AnswersGoHome`); the budget is exact (`BudgetExact`); the reader gets through each response (`ReaderProgresses`) and every consumer to the end (`ConsumersEnd`). |
| `mirror` (851,256) | Each command gets its results, whole and nothing else (`RepliesGoHome`); the client's picture of connection and mailbox is the server's (`MirrorExact`); each with the exceptions named below. |
| `wire` (945,500) | Number sets, UID mappings and patterns agree with their references (`SetExact`, `MappingExact`, `MatchExact`); the server reads commands from their beginning only (`AtBoundary`), and neither side waits for the other (`NoStandstill`). |
| `mem_locks` (violated) | COPY in opposite directions deadlocks (`NoLockCycle`). |
| `wire_late` (violated) | A command refused for what a literal says is resumed in its middle (`AtBoundary`). |
| `connection_ro` (violated) | A command changes a mailbox that was opened read-only (`ReadOnlyUnchanged`). |

Every property of a passing run has a mutant: a plausible bug in one definition
that makes TLC find the property violated under the same configuration.

Some properties have a narrower reach than their name:

- `ResponsesMeaningful` says nothing of a session whose write has failed;
  what is told to such a client is `SharedMailboxImplemented`'s.
- `ShutdownByeIsLast` leaves out a backend `handleIdle` has given up on.
- `NoPumpAfterBye` is about the BYE of a shutdown only.
- `CacheSound` and `ResyncExact` leave `\Seen` out.
- `RepliesGoHome` holds against a server that sends answers the client can tell
  apart, as RFC 9051 section 5.5 asks; which those are is `Ambiguous`.

### Bounds

- `tracker`: one session, two messages, queues of two updates, a channel of one
  place. Sessions meet only in the fan-out, which treats each alike, so one
  session against the backend has all the interleavings of queue, poll, IDLE
  and Close. The case that needs three messages (an update that overtakes an
  expunge of another message) is seen at two by `ResponsesMeaningful`, which
  looks at the number before it does harm. The theorems have no bound.
- `lifecycle_server`: two connections for one slot, so that one is refused
  while the other holds it, takes it over, or is between accept and
  registration during Close.
  `lifecycle_conn`: one connection with one line ahead of the server, enough
  for a line to race with shutdown, backend and watcher.
- `connection`: two mailboxes to switch between, two pumps (an old one that
  ignores stop and its successor), one update at a time, an event channel of one
  place that overflows. Of the commands that act on the selected mailbox it has
  FETCH and EXPUNGE, which differ in what they let through; STORE, MOVE and
  EXAMINE, which add only the question of access, are in `connection_ro`.
- `mem`: two sessions, two names, two UIDs, three changes: one to cache, one
  that changes it, one that removes it.
- `client`: one goroutine that sends plain commands, literals and AUTHENTICATE,
  one that sends literals and IDLE, at the same time: each kind of request for
  a continuation meets each other one.
- `fetch`: three commands, two responses, channels of one place, a budget of one
  body, so that each limit is reached.
- `mirror`: nine plans of four commands chosen so that each handler meets the
  commands it could confuse; two messages, two events.
- `wire`: numbers of three bits, so that both ends of the number space and the
  wrap are reached; two commands of up to two literals of each kind and size.

### Fairness

- Tracker: a goroutine that can go on does (fan-out, poll, Idle's wake-up);
  Idle's poll competes for the delivery mutex, hence strong fairness, which Go's
  `sync.Mutex` grants by its starvation mode. No command or client has to act.
- Lifecycle: the serve loop, the watcher and the accept loop of a closed
  listener go on; a backend returns once its stop channel is closed, as
  `Session.Idle` asks. No client sends, no armed deadline and no context has to
  expire.
- Connection: the command loop goes on, `stopNotifyPump`'s timer fires if the
  pump does not end, and the poll of a command gets the delivery mutex in the
  end (strong fairness, as above). `NotifyPoll` is the backend's and may hang for
  ever, but not while it delivers a batch under that mutex: each of its writes
  ends by the write deadline or with the socket.
- Client: callers go on, with strong fairness where they compete for `encMutex`;
  a caller that idles closes its IDLE in the end, as `IdleCommand` asks of it;
  the reader goes on or its deadline expires. Nothing is assumed of the server.
- Fetch: the reader and the consumers go on, callbacks return, a response that
  has begun arrives or times out.

## Proofs

TLAPS checks every theorem from the assumptions on the constants that each
module states (`TrackerAssumption`, `LifecycleAssumption`, ...): bounds are
natural numbers, channels have a place, as they have in the code, values that
stand for "none" are not members of the sets they complete, and the sets whose
members are counted are finite. Nothing is assumed of the number of sessions,
connections, mailboxes, messages, goroutines or commands. A safety property is
seldom inductive as it stands; what had to be added is the interesting part, and
is named here.

**MailboxTrackerProofs**: `TrackerInvariant`, and from it `TypeCorrect`,
`PollsAreMeaningful`, `ClientNeverMiscounts` and `FanOutComplete`. That a
response is meaningful depends on what is queued. The invariant says that from
the client's picture, through a VANISHED not yet written, the batch in flight
and the queue, there is an unbroken chain of updates, each starting from the
mailbox the one before it leads to, that ends in the mailbox the session was
last handed (`ChainInv`), and that this is the mailbox, but for sessions the
fan-out has still to visit (`FanOutInv`). Each action extends the chain at its
end, moves its cut points, or takes its first link. The proof has a lemma per
action and rests on facts about ranks (a sequence number names one message;
removing one shifts those behind it), chains and finite sets.

**TrackerRefinementProofs**: `TrackerImplementsSharedMailbox`, that the tracker
implements `SharedMailbox`. There, a client is told of messages that have left
and of messages that have joined, the latter behind what it has, and is spared
none that is still there; no queue, lock, batch or number is left. The mapping
takes the client's picture as it computes it. Beyond `TrackerInv` it needs
`RefinementInv` (`UpdatesStayTrue`): what was queued long ago is still true when
it is told, although the mailbox has moved on. A past mailbox differs from the
present one only in messages that have left since and in newer ones
(`Past`), and a message once expunged stays away.

**SessionReadersProofs**, with the theorem itself in `TrackerRefinementProofs`:
`NumbersTranslate`, that `EncodeSeqNum`,
`DecodeSeqNum` and `EncodeNumMessages` translate by message through a queue of
any length. Their loops are recursive functions over the queue; the proof shows
that at each link of the chain the number in hand is the rank, in the mailbox of
that link, of the message it started as, or 0. It needs `QueuesForward`: a
message expunged in a queue does not come back in it, for otherwise the walk
would find it again after having lost it.

**ServerLifecycleProofs**: `LifecycleInvariant`, and from it `LifecycleTypes`,
`ShutdownLeavesNothing`, `CloseReachesAll` and `ByeComesLast`. `Forced` ties
`conns` to the places of the goroutines: a connection is in it exactly while it
is served, and what `forceCloseConns` has passed has lost its socket, so nobody
can register behind it. `SlotsHeld` counts the slots by the places of the
goroutines, and `Settled` says that none runs once `connsWaitGroup` has let
`Shutdown` go on, although connections are accepted until the listener closes. `ConnInv` relates a connection's place to its flags,
its deadline, its watcher and its backend. Most steps are local to one
connection and share one lemma.

**ConnectionProofs**: `ConnectionInvariant`, and from it `ConnectionTypes`,
`OnePumpRuns`, `DeliveryStaysInView`, `NotifyStaysOn`, `QuietAfterBye` and
`ViewStaysFrozen`. The invariant has the fence of
`stopNotifyPump` (`Fence`: no pump runs but the one the connection knows and the
one it waits for), the agreement of server, client and pump on the mailbox
(`View`), the promise of NOTIFY (`Watching`) and what follows a BYE (`Parting`).
`ViewStaysFrozen` is an action property.

**MemMailboxProofs**: `MemInvariant` and `MailboxesAdvance`, and from them
`MemTypes`, `CachesStaySound`, `UIDsKeepMessages`, `StoresSeeChanges`,
`ResyncsAreExact` and `NoMessageLost`. Every step moves each mailbox forward
(`Advances`): UIDs keep their message, and what changes carries a mod-sequence
above the highest there was. A cache that is sound for a mailbox is then sound
for what it becomes. The invariant adds what the mutex gives COPY and MOVE, which
work through a set while they hold it (`InCommand`), and whose a cache is while a
SELECT is halfway (`CacheOf`).

**ClientProofs**: `ClientInvariant`, and from it `ClientTypes`, `CompletesOnce`,
`DeadlineFits` and `NothingForgotten`. A command is on at most one list, once,
as long as its completion is owed (`Lists`): the pending commands, or those that
one of several `closeWithError` has taken. `Requests` says where a continuation
request stands for each place of its caller; the deadline depends on it, because
an IDLE or a literal changes what is pending.

**FetchProofs**: `StreamInvariant`, and from it `StreamTypes`, `ResponsesGoHome`
and `BudgetAccounted`. A response names a message and not a command, so the
invariant says what is known of it before it is handled (`Addressed`): the
command it answers is the first one pending and has not received the message,
and its UID and MODSEQ, where they decide, have been read or are still to come.
What the consumers owe the budget is a sum over the responses (`Owed`); each step
changes one of its terms.

The same module ends with the ranges of number sets, in which a FETCH keeps what
it asked for and received: `MergeExact`, `LessExact`, `ContainsExact` and
`NormalExact`, for every greatest number, the code's 2^32 - 1 included. Merging
gives the union or finds the two disjoint and not adjacent, and the order the
binary search uses is the order of what ranges stand for.

Where a proof needs induction over a sequence or a sum (`SessionReadersProofs`,
`FetchProofs`), it takes the least position at which the claim fails
(`LeastNatural`, `Induction`): the induction theorems of the library take an
operator as a parameter, which the provers do not instantiate.

**Only model-checked**:

- Liveness (`IdleDelivers`, `ShutdownCompletes`, `BackendByeUnparks`,
  `LostClientFreesSlot`, `TeardownCompletes`, `OverflowThaws`, `EveryCallReturns`,
  `ReaderProgresses`,
  `ConsumersEnd`) and `NoStandstill`, which need fairness or ENABLED.
- What the algorithms on whole sets, lists and names compute (`SetExact`,
  `MappingExact`, `MatchExact`), by recursion over data; of number sets, the
  single ranges are proved.
- `ContinuationGoesHome`, `RepliesGoHome`, `MirrorExact` and `AtBoundary`: they
  relate the two ends of a stream of unbounded length, and an inductive invariant
  would have to describe every message on its way.

The `TypeOK` of the modules with proofs is proved; it documents the state and is
no property of a run.

## Where code and documentation disagree

Three cases have a run, and an entry under "findings":

- **Lock order in COPY and MOVE** (`mem_locks`). Both hold the selected
  mailbox's mutex and take the destination's (`imapmemserver/session.go:224`,
  `:258`); two sessions in opposite directions wait for each other.
- **The rest of a refused command** (`wire_late`). Reading a literal's octets
  leaves `dec.crlf` set by the line that announced it, so `DiscardLine`
  (`internal/imapwire/decoder.go:371`) takes the line to be finished when a
  handler refuses what the literal says.
- **Commands on a read-only mailbox** (`connection_ro`). The comment at
  `imapserver/conn.go:949` has a command rejected that would change a mailbox
  selected read-only. `handleMove` does not ask (`move.go:13`), and a FETCH that
  is no PEEK sets `\Seen` (`imapmemserver/mailbox.go:429`) after EXAMINE too.

Others were met while modelling. These the models have, and a property excepts
them, by name:

- **The greeting's timeout.** `read` sets the response timeout "for the
  greeting" (`imapclient/client.go:813`), and `beginAwaitResponse`, next in the
  loop (`:818`), replaces it by the idle timeout, since no command is pending:
  a server that never greets is given up only after that. The model does the
  same; `DeadlineRight` begins with the greeting.
- **A continuation taken early.** `Idle` (`idle.go:114`) and `Authenticate`
  (`authenticate.go:29`) register their continuation request before they have
  `encMutex`, a literal under it (`client.go:1499`). One that waits for the mutex
  is the oldest request, and takes the `+` of the literal that is being sent,
  although a client may be "safely used from multiple goroutines"
  (`client.go:216`). `ContinuationGoesHome` excepts a taker whose command is not
  sent.
- **Counts during SELECT.** An EXISTS goes to a SELECT that is pending and not
  begun or that is then refused with BAD; an EXPUNGE between a SELECT's EXISTS
  and its end does not change the SELECT's count. `MirrorExact` compares the
  count again from the next EXISTS on (`astray`).
- **Capabilities at a LOGIN.** The command completes before `setCaps(nil)`
  (`client.go:1045`, `:1055`), so a caller may still see the old ones
  (`forget`). The CAPABILITY that `setCaps` sends may come late, too.
- **Two of a kind.** MYRIGHTS, ACL and LISTRIGHTS are given to the first pending
  command of their kind, whatever mailbox they name (`Confused`).
- **A message appended in the middle of a SELECT.** The view is registered and
  the data read under two acquisitions of the mutex
  (`imapmemserver/session.go:198`); what comes in between is in EXISTS but not
  among the changes QRESYNC lists. `ResyncExact` excepts it; `CacheSound` has it
  that the client can still learn of it.
- **FETCH and mod-sequences.** A FETCH that sets `\Seen` takes no mod-sequence
  (`mailbox.go:430`); `CacheSound` and `ResyncExact` leave `\Seen` out.
- **A backend that was given up.** `handleIdle` returns without waiting for the
  backend when the line is not DONE, when the read fails or after 30 seconds
  (`idle.go:93`, `:204`). It may then write after the BYE, and a second
  `Session.Idle` of the connection can run beside it, which `tracker.go:386`
  forbids. `ServerLifecycle` has it as `orphan`.
- An `Authenticate` that gives up in the middle leaves the exchange open
  (`imapclient/authenticate.go:45`); `EveryCallReturns` says so (`left`).
- EXPUNGE collects the messages to remove and removes them later
  (`mailbox.go:311`); `\Deleted` taken back in between does not save one.
  `NothingLost` counts a message that was collected.
- LOGOUT and `finishBye` write BYE with the pump running (`conn.go:802`, `:539`),
  unlike a shutdown, which stops it first for the reason given at `conn.go:471`.

And these the models leave out:

- `expungeLocked` (`imapmemserver/mailbox.go:328`) gives the tracker positions
  from before the removals; from the second message on they are off, or out of
  range and refused, and the error is ignored. `MailboxTracker` assumes a
  backend that numbers each removal after the ones before it.
- `Client.Move` without MOVE sends COPY, STORE and EXPUNGE at once
  (`imapclient/move.go:28`), whatever becomes of COPY.
- LIST with both STATUS and METADATA loses one, and a NOTIFY STATUS can be taken
  for the one a LIST waits for; the server of `ClientResponses` sends neither.
- `Range.append` (`internal/imapnum/numset.go:87`) does not end for a range
  that stops at 2^32 - 1.

## Not modelled

- Handlers that only read (FETCH of message data, SEARCH, SORT, THREAD, LIST,
  STATUS, NAMESPACE, ID) and those that make one call of the backend (ACL,
  METADATA, QUOTA): their code is syntax and formatting around a call. What
  they do to delivery is in `Connection`.
- The syntax of single values, modified UTF-7, ENVELOPE and BODYSTRUCTURE:
  recursive descent over bytes, without state that lasts.
- STARTTLS: below the level of tokens. ENABLE and the SASL exchange in the
  server: the first is an input of `MailboxTracker` (QRESYNC or not, chosen at
  each poll), the second acts as LOGIN.
- Contents of messages, values of results, log output, configuration.
- Crashes: nothing is persistent. Lost and reordered bytes: the transport is
  TCP; broken connections and failing writes are modelled everywhere.
