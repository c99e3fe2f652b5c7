# The Discord Rich Presence client, in TLA+

`cocainediesel-libs` bundles the third-party libraries of a game with the scripts that
build them. Eight of its libraries are upstream releases and a ninth is a loader that a
generator wrote. `discord-rpc/` is different: it carries no version, it is built from the
tree with its own CMake file, and its IO thread is concurrent with the game in every
frame. This project is about `discord-rpc`.

## 1. The system

| part | source | state | operations | interacts with |
| --- | --- | --- | --- | --- |
| message queue | `msg_queue.h` | a ring of slots and three atomic counters | `GetNextAddMessage`, `CommitAdd`, `HavePendingSends`, `GetNextSendMessage`, `CommitSend` | two instances: `SendQueue` (game and IO thread to IO thread), `JoinAskQueue` (IO thread to game) |
| reconnect backoff | `backoff.h` | `current` | `nextDelay`, `reset` | sets `NextConnect`, which is compared with `system_clock` |
| RPC connection | `rpc_connection.*` | `state`, `lastErrorCode` | `Open`, `Close`, `Read`, `Write` | calls the platform pipe; calls back `onConnect`, `onDisconnect` |
| platform pipe | `connection_unix.cpp`, `connection_win.cpp` | descriptor, `isOpen` | `Open`, `Close`, `Read`, `Write` | the Discord client, at the other end |
| API and IO thread | `discord_rpc.cpp` | flags, mailboxes, `Handlers`, `QueuedPresence`, the queues | the `Discord_` functions, `Discord_UpdateConnection`, `IoThreadHolder` | everything above; the game's callbacks |
| serialization | `serialization.*` | fixed buffers | JSON writers and readers | the texts in queues and frames |
| registration | `discord_register_*` | none | writes a desktop file or registry keys | the operating system |

Two threads run. The game's thread calls the API and, in every frame,
`Discord_RunCallbacks`. The IO thread waits up to 500 ms, or until it is notified, and then
runs `Discord_UpdateConnection`: it tries to connect if that is due, or else reads all that
there is, writes the presence if one is pending, and drains `SendQueue`. With
`DISCORD_DISABLE_IO_THREAD` there is no thread and the game makes that call itself.

What is hard:

* the two threads share flags that are exchanged one at a time, texts that are copied
  without a lock, and a lock-free queue for one producer and one consumer;
* the connection is lost and found again at any point of either thread's work, and what is
  under way (a presence, a reply, subscriptions, callbacks not yet made) must still come out right;
* a frame is read in two calls, and a call may find half of what it wants;
* connecting is retried with a random delay against a clock that may be set;
* a queue may be full, a message malformed, a write may fail in the middle of a read.

What makes each part correct:

* queue: a bounded FIFO; no slot is shared between a writer and the reader; nothing stays unread;
* connection: a session is announced once, its messages come once and in order, its end is
  noticed, no socket is left behind;
* backoff: tries are neither too close nor too far apart, and go on for ever;
* API: the game hears a sane sequence of callbacks and the truth in the end; the client shows
  the presence that is queued; handlers have their subscriptions; replies are not stale;
* life cycle: nothing is used after it was destroyed, one thread serves, every call returns.

The vendored libraries (SDL, curl, FreeType, glad, Luau, mbed TLS, OpenAL Soft, Tracy, zstd,
RapidJSON) are other projects' code and are listed in `PROJECT.json` as not modelled, as are the
build scripts (straight-line shell) and the registration (one-time file and registry writes).

## 2. Modules

    Session          what a connection promises            (abstract)
      RpcConnection    rpc_connection + the platform pipe, implements Session
        PipeSearch       the search for the pipe among its names
    BoundedQueue     what a queue promises                  (abstract)
      QueueUse         the queue as discord_rpc.cpp drives it, implements BoundedQueue
        MsgQueue         the ring itself, as operators
    DiscordRpc       both threads, over Session and a bounded queue
    Lifecycle        Discord_Initialize and Discord_Shutdown against the IO threads
    Mailbox          the texts that pass between the threads without a lock
    Commands         the messages that are written, and the allocator
      Serialization    messages, their members and the helpers, as operators; under both
    Reconnect        the backoff, with time
    QueueUse_proofs, RpcConnection_proofs, RpcSession_proofs, DiscordRpc_proofs, RpcSingle_proofs,
    Lifecycle_proofs, Texts_proofs, Reconnect_proofs        theorems
    MCQueue, MCConnection, MCReconnect, MCTexts             values for TLC

`RpcSession_proofs` extends `RpcConnection_proofs` (the first has the stream and the refinement, the second what
needs no stream), `RpcSingle_proofs` extends `DiscordRpc_proofs` (the build without the IO thread), and
`Texts_proofs` is about `Mailbox` and `Commands`.

**MsgQueue** is the class as operators on a record `ring` (slots and the three counters;
a counter wraps at `CounterRange`, a multiple of `QueueSize`, as 2^32 is of 8).
**QueueUse** has the protocol around it. Each atomic access is a step: the room check and the
reservation (`CheckRoom`, `ReserveSlot`), the two ends of writing the message
(`BeginFill`, `EndFill`: in between the slot holds `Junk`), `Commit`; on the other side
`SeePending`, `TakeSlot`, `UseSlot`, `Release`. `DropRequest` is the join-request branch, which
reserves before it looks whether the request is complete. `Producers` is one thread for
`JoinAskQueue` and two for `SendQueue`. `MCQueue` runs two queues with one producer each: one whose reservations are all filled, and, as an
instance of the same module, one whose reservations may be dropped, for which `RequestsFit` is `NeverOverfull`.

**RpcConnection** has `state`, `lastError`, the pipe (its kind, whether it is open, the bytes in it, the end of the
stream), and where the IO thread is inside `Open` and `Read`. Bytes are half headers and half payloads,
the least that lets a read be short. The kind of a pipe has a `transport`, `recv` on a stream socket, which
consumes what there is, or `PeekNamedPipe`, which does not; and `whole` says whether the client writes a
frame in one piece. `Dispatch` is the switch over opcodes. After a failed pong (`AnswerPing`) the loop
goes on with a connection that is closed: the next call finds that the pipe is not open (`ReadsEnd`) and closes again
(`ReadPipeClosed`). `Close` looks at `state` to decide whether it announces the end, and `announced` has every callback of the
last session, so that a second announcement would be seen. Each opcode comes with a payload and without, but Frame, which
always has one; `Bad` stands for a handshake frame and for unknown opcodes; a header read out of step may be any frame.

**PipeSearch** is the loop of `BaseConnection::Open` over the names, on both platforms: the socket goes on after
any error; `CreateFileW` goes on when there is no file, waits when the pipe is busy and tries the same name again, and
gives up otherwise. `clients` is what there is at each name and changes during the search. `RpcConnection`
has the search as an instance and adds the socket (`StartSearch` creates it, only success creates the
handle of a Windows pipe) and the handshake after it.

**Session** is the same without frames, pings, sockets and codes: `Begin`, `Arrive`, `Ignore`,
`BecomeUp`, `Deliver`, `End`. Its `announced` is the sequence of callbacks of the session: at most a connect and then a
disconnect, each once. `RpcConnection` refines it with `InFlight` (the payload in hand, then
those whose header is still in the pipe) for its inbox.

**DiscordRpc** has the shared variables of `discord_rpc.cpp` and a program counter for each
thread. A critical section of `PresenceMutex` or `HandlerMutex` is one step, except for the game's
`Discord_UpdateHandlers` (`SetHandlers`, `QueueChange` for each event, `InstallHandlers`): `HandlerMutex` does not keep the IO thread
from sending what is already queued. Every other access to shared state is a step of its own, in the order of the source: `RunCallbacks` exchanges `WasJustDisconnected`,
`LookAtConnection` calls `IsOpen`, and so on to `CallDisconnectedLate`; on the IO thread `ReadSignal`
copies a text and `RaiseSignal` raises its flag; `TakePresence`, `CopyPresence`, `SendPresence`,
`RequeuePresence` are lines 218-230; `OnDisconnect` and `Closed` are the two halves of `Close`, and
the three `OnConnect` steps those of `onConnect`. The connection is an instance of `Session`; a queue
is a bounded sequence that drops what does not fit. `client` is the Discord client, which forgets
everything with a session. `shown` and `heard` remember what the game was told.
With `Threaded = FALSE` the IO steps happen only between the game's calls.

**Reconnect** keeps `NextConnect` as the time that remains until it. `Try` is one pass of lines
141-146 with each outcome of `Open`; `Lost` is `onDisconnect` for a connection that was up;
`ClockIsSet` moves the system clock.

**Lifecycle** has the pointers and the threads: `IoThread` and `Connection`, the holders that were made and deleted, the place of every
IO thread, whether the callbacks of the connection are set, and where the game is in `Discord_Initialize` or
`Discord_Shutdown`, line by line: `Shutdown`, `Disarm`, `ForgetPresence` and `LowerUpdate` are lines 355-359, which no lock protects.
`RpcConnection` checks each callback and then calls it, in two steps (`Connects` and `CallConnect`; `Close` and `Disconnected`); when
the pointer has been cleared in between, a null pointer is called (`CallNull`) and the process is gone (`Crashed`).
A close inside reading, inside the writing of the presence and inside the draining of `SendQueue` each goes on elsewhere, so `Close` has
the place that follows as a parameter. `keepRunning` is read (`Check`), the wait is entered (`Wait`), and only who waits is woken
(`Notified`). A callback of the game holds `HandlerMutex`, which `onConnect` takes too, and may call what `Nested`
allows. When a pass finds the connection up, lost or full is left open; what it then does to the callbacks, to the presence
(`TakePresence` to `RequeuePresence`, each thread with its own `copy`) and to the flag is not.

**Mailbox** is one group of texts (here the user of READY): `StringCopy` writes character by character
(`CopyChar`, `CopyNul`; `CopyNothing` for a member that is missing), `Raise` raises the flag, and the game reads up to the NUL
(`ReadChar`, `ReadNul`) while the next message may be on its way.

**Serialization** has a message as the value that a JSON reader would see: a function from names to tagged values. Quoting
and order are RapidJSON's. `LinearAllocator` is a record. **Commands** has a state for them: a call of the game writes a message
(`GameCalls`), and a document asks its allocator for blocks (`Allocate`) until the next document comes.
`MCTexts` runs it beside `Mailbox`, one of them at a time, since they share nothing.

## 3. Runs

| run | what it asks | answer |
| --- | --- | --- |
| `queues` | one producer that fills what it reserves: `IsQueue`, `NoOverwriteInUse`, `CommittedIsRead`; one that drops reservations: `RequestsFit` | holds |
| `queue_dropped_request` | one producer that drops reservations: `IsQueue` | violated |
| `queue_two_producers` | `IsQueue` for `SendQueue` as it is used | violated |
| `connection` | the search (`SearchMissesNobody`, `SearchEnds`), then whole frames on a socket or frames in pieces on a Windows pipe: `IsSession`, `Aligned`, `SocketMatchesState`, `EndIsNoticed`, `ReadyIsNoticed` | holds |
| `reconnect` | a clock that may be set: `KeepsTrying`, `BacksOff` (in part), and until it is set `NotTooFast`, `DueInTime` and the rest of `BacksOff` | holds |
| `rpc_single` | no IO thread: `BookEnded`, `ToldTheTruth`, `NoStaleReply` | holds |
| `rpc_presence` | IO thread: `PresenceInSync`, `PresenceIsShown` | holds |
| `rpc_events` | IO thread, one session: `NoDeafHandler`, `LatestIsHeard` | holds |
| `lifecycle` | three lives: `NoUseAfterDestroy`, `OneServes`, `NullCallOnlyAtShutdown`, `CallsReturn`, `SignalIsServed` | holds |
| `texts` | a user read while it is written: `ReaderStaysInside`, `HeardAsSent`, `LatestIsRead`; messages: `NonceReadsBack`, `PresenceReadsBack`, `SectionsHaveMembers`; `AllocatorServes` | holds |
| `rpc_bookends`, `rpc_stale_reply` | `BookEnded`, `NoStaleReply` with the IO thread | violated |

### What the violated ones show

* **Two producers** (`msg_queue.h:5-6` allows one). The game's calls that change handlers hold
  `HandlerMutex`, as `onConnect` does, but `Discord_Respond` takes no lock, and the state is `Connected`
  before `onConnect` runs. The later reservation commits first, and the consumer takes a slot that is not filled.
* **A dropped request** (`msg_queue.h:5-6`: the queue works with one producer and one consumer, and there are no more here). A join
  request without user id or name (`discord_rpc.cpp:197`) reserves a slot and gives it up. The next request is filled into the slot
  behind; when it is committed the consumer takes the slot that was given up, which nobody has filled, and from
  then on it stays one message behind what is committed.
* **Book-ends** (`discord_rpc.cpp:402-404`). `Discord_RunCallbacks` exchanges the flags one by one. In the shortest trace the
  first session comes up in the middle of a call: `WasJustConnected` was low when it was exchanged (421), then the IO thread reads READY and
  an ACTIVITY_JOIN, and the same call finds `WasJoinGame` raised (439) and calls `joinGame` before `ready` was ever called.
  The property holds when the calls cannot interleave (`rpc_single`), so it is the interleaving that breaks it and not the
  order in which the callbacks are made.
* **A stale reply** (`discord_rpc.cpp:387`): the check of `IsOpen` and the queueing are two steps.

### What other values of the constants show

More weaknesses of the code appear when a passing configuration is changed in one place. No text of the repository
denies them, so they are not stated as violations.

* `MCKinds` with frames in pieces on a socket: `Aligned` and `IsSession` are violated (hazard `connection_unix.cpp:114`). `recv` (`connection_unix.cpp:114`) keeps
  the half of a header that it returned, `Read` answers that nothing was read, and the rest is taken for a new header. The
  Windows version of the same interface peeks first.
* `EndIsNoticed` without its condition: on Windows a part of a header that a dead client has left is reported by
  `PeekNamedPipe` for ever, and reading never finds the end (`connection_win.cpp:112`).
* `MCRpc_single.cfg` with `Threaded = TRUE`: `ToldTheTruth` is violated (check it alone, since `BookEnded` is too). The game
  takes the old "disconnected" flag and finds the connection closed; the IO thread connects; the call goes on to `ready`
  and ends with `disconnected`. No flag is left, and the connection stays up unknown to the game.
* `MCRpc_single.cfg` with `HandlerChoices = {{"ready", "joinGame"}}`: `BookEnded` is violated. The game clears its handlers, a connect is announced
  to nobody (`discord_rpc.cpp:423`), and the handlers set after that hear of events of a connection that they were not told of.
* `MCRpc_events.cfg` with `QueueSize = 1` or with `MaxSessions = 2`: `NoDeafHandler` is violated. Nobody looks at the answer
  of `RegisterForEvent` (`discord_rpc.cpp:484`), and in a second session nothing is subscribed to again (line 313).
* `MCRpc_presence.cfg` with the invariant `io.pc = "requeue" => presence = io.copy`: violated. A failed write copies its presence back over
  one that was set meanwhile (`discord_rpc.cpp:227`).
* `MCLifecycle.cfg` with `Twice = TRUE`: `OneServes` and, checked alone, `NoUseAfterDestroy` and `NullCallOnlyAtShutdown` are violated. The second
  `Discord_Initialize` (`discord_rpc.cpp:278`) loses the holder of the thread that runs; `Discord_Shutdown` then joins nothing and destroys
  the connection under it.
* `MCLifecycle.cfg` with `"handlers"` or `"shutdown"` in `Nested`: deadlock. `HandlerMutex` is held during callbacks
  (`discord_rpc.cpp:415`): `Discord_UpdateHandlers` locks it again; `Discord_Shutdown` joins a thread that waits for it in `onConnect`.
* `HeardAsSent` for every field: violated. A user without a discriminator is given that of the one before (`discord_rpc.cpp:326`, `:202`).
* `DueInTime`, `NotTooFast` and `BacksOff` without `jumps = 0`: `NextConnect` is a time of `system_clock` (`discord_rpc.cpp:142`). Set back,
  it prolongs the wait beyond the minute of the comment at line 72; set forward, it makes the next try come at once, however
  far the backoff has grown.
* `MCLifecycle.cfg` with the invariant `~ Crashed`: violated. The IO thread reads READY and finds `onConnect` set
  (`rpc_connection.cpp:40`), `Discord_Shutdown` clears it (`discord_rpc.cpp:355`), and null is called (`rpc_connection.cpp:41`).

### Bounds

* Queue: 3 slots and counters modulo 6, so that the counters wrap after two turns and a full, an empty and a
  wrapped ring all occur; two messages tell order and duplication apart. The theorems are for every size.
* Connection: 8 half pieces hold two frames; one in the pipe behind one being read is what order
  needs. Two events and READY. Sessions are not bounded. `MCKinds` has a socket on which frames arrive whole and a Windows pipe on which they
  come in pieces; a socket on which they come in pieces is left out because `Aligned` fails there (above). Three names (`LastName = 2`; ten in the code): the first, one in
  between and the last.
* Reconnect: delays from 2 to 13 let the backoff grow several times before it is cut; up to two clock
  jumps (`MCJumps`), larger and smaller than the shortest delay. `MaxWaited` is longer than the longest delay plus the jumps.
* DiscordRpc: two sessions (a lost one and the one after it), one for `rpc_events`, whose
  properties are about one, and for `rpc_bookends`, where one is enough; two calls that set something, enough for one call to overtake another; one or two
  unread messages. In `rpc_events` the game has no handlers for `ready` and `disconnected`, which the two properties do
  not look at. `Presences`, `Sent` and `HandlerChoices` are empty in the runs that are about something else, which removes
  those actions and nothing in between. The queues have 8 places as in the code, 3 in `rpc_single`, so that a
  full queue occurs there. With `MaxSessions` sessions over, every further try to connect fails.

* Lifecycle: `MaxLives = 3`, so that a life is between two others.
* Texts: buffers of three characters and names of one, three (which is cut) and none; two messages in any order, which lets each text
  differ in length from the one before. `int` has 8 bits (`IntMax = 127`), and all its values but the least are nonces. Of a presence one section varies
  at a time, over every combination of its members; sections do not depend on each other (the theorems are for all at once). The allocator has 4 bytes and gets requests of
  0 to 5, so that it is filled in every way and refuses before and after it is full.

### Fairness

* `QueueUse!FairSpec`: the consumer's loops go on. They are called in every pass of the IO thread
  and in every frame.
* `RpcConnection!FairSpec`: a call of `Read` or `Open` goes on, and the IO thread comes back after 500 ms at the latest.
  Nothing is assumed of the client. That `WaitNamedPipeW` fails is not assumed either, hence the exception of `SearchEnds`.
* `Lifecycle!FairSpec`: the threads run, the wait of 500 ms among their steps; the game finishes a call that it has begun; a
  callback returns, and `onConnect` gets `HandlerMutex` if it is free again and again. Without that last assumption
  a game that is always in a callback would keep `Discord_Shutdown` from returning.
* `Mailbox!FairSpec`: a message that is being copied is copied, and the game reads what is flagged.
* `Reconnect!FairSpec`: time passes, and a try that is due is made (same 500 ms).
* `DiscordRpc!FairSpec`: both threads go on, strongly, since without the IO thread each is enabled only while the other
  rests; `TimePasses` makes `NextConnect` come. One assumption is about the client: the loop
  of reads (`discord_rpc.cpp:150`) ends again and again. The code does not bound it, so a client that never pauses does
  keep the presence from being written; that is listed as a hazard. Liveness of the presence and of what
  the game is told is conditional on a connection that stays up, `<>[](status = "up") => ...`: nothing makes it stay.

## 4. Proofs

**`QueueUse_proofs`** (for every `QueueSize`, every multiple of it as `CounterRange`, every set of items):

* `TypeCorrect`: `Spec => []TypeOK`, also for several producers.
* `CountBounded`: `NeverOverfull` with one producer. The count alone is not inductive: a producer that has
  seen room commits much later. The invariant adds that while the producer is past the check, the
  count is below `QueueSize`; a second producer would break just that.
* `NoOverwrite`: `NoOverwriteInUse` with one producer that drops nothing. The invariant ties the counters
  together: modulo `CounterRange`, `nextAdd - nextSend` is the number of pending messages, plus one while
  the producer holds a slot, less one while the consumer does. Hence the two slots differ by less than
  `QueueSize`, and, since `QueueSize` divides `CounterRange`, differ modulo `QueueSize` as well, across every wrap.
* `Refinement`: `Spec => IsQueue` under the same two assumptions: the initial state maps to the empty queue, `Commit`
  to an append, `UseSlot` to a removal, everything else to a stutter. It needs that the slot of a producer that is done
  filling holds its message, and that no step stores into a slot that `Contents` reads.

The assumptions are `Cardinality(Producers) = 1` in effect (two producers are all equal) and `Droppers = {}`; the
runs `queue_two_producers` and `queue_dropped_request` show that neither can be left out.

**`Reconnect_proofs`** (for every pair of delays):

* `TypeCorrect`: the backoff stays between its two delays, however the clock is set.
* `WaitsOutTheBackoff` (`BacksOff`): the backoff falls only with READY, also when the clock is set; and until it is set, a try comes only after
  the whole delay that the backoff had come to, so that tries become rarer until one succeeds.
* `InTime` and `Unhurried`: `DueInTime` and `NotTooFast`. The invariant behind both is that, until the clock is set,
  `remaining + waited`, the delay counted from its two ends, lies between `MinDelay` and `MaxDelay`; it
  holds in state `Connected` too, where nobody looks at `NextConnect`, and that is what makes the try
  after a loss wait although `reset` came before.

**`Lifecycle_proofs`** (for every number of lives and whatever callbacks call, if the game never initializes what is initialized):

* `TypeCorrect`, `NothingIsUsedAfterDestroy` (`NoUseAfterDestroy`), `OneThreadServes` (`OneServes`) and `NullIsCalledOnlyAtShutdown`
  (`NullCallOnlyAtShutdown`). None is inductive. A pass begins when
  `Connection` is not null, whoever runs it, and `Discord_Shutdown` joins whatever `IoThread` points at, so the invariant `Serves` says
  for each place in the two functions whether there is a holder and a connection, that nobody is alive but the thread of the holder, that
  this one goes on outside of them because its `keepRunning` is set, and that there both callbacks are set: hence only after line 355 can a pointer be null
  that a thread is about to call, and after the join no thread is there to call it. The assumption is needed where a new holder is
  installed: it must be when there is no connection, hence no thread.

**`RpcConnection_proofs`** (for all messages and error codes, all kinds of pipes, any number of names, pipes of any length):

* `TypeCorrect` and `NoSocketIsLeftBehind` (`SocketMatchesState`). The latter says nothing of the time inside `Open`; the invariant
  `Places` says which state, socket and frame in hand belong to each place of the IO thread, in `Open` and in `Read`.
* `NoClientIsMissed` (`SearchMissesNobody`), an action property: no step of the search leaves a name behind at which a client has
  listened since the search began. The invariant `Ahead` is that no such name lies behind the search already.

**`RpcSession_proofs`** (the same constants). A header that `recv` returns in part is lost, and nothing that the code does later brings the
stream back in step (`connection_unix.cpp:114`). `ShortHeader` is that event, a step in which a socket gives part of a header, and
the first and third theorem say what holds as long as it does not happen. It is a hypothesis about each read and not about the client: frames may come
in any pieces, and a payload that is short is part of the theorem (`ReadPartial`).

* `StreamStaysAligned`: `Spec /\ [][~ ShortHeader]_vars => []Aligned`. So the short header is the only thing that puts the stream out of step:
  short payloads, pings that fail, errors, closes and new connections do not. Inductive is `FrameInv`: what the pipe holds, together
  with what the client has not yet written of its last frame, is a sequence of whole frames, but that it starts with the payload while a header is in
  hand. It needs the places and types of `ConnInv`.
* `PipesNeverShortStayAligned`: `Aligned` without that hypothesis, for the two kinds of pipe on which no header can be short: a Windows pipe, in whatever
  pieces the client writes, and a socket on which only whole frames arrive. These are the kinds of the run `connection`.
* `ConnectionIsSession` (`IsSession`), under the hypothesis of the first: the initial states are those of `Session`, and every step is one of its steps or a stutter: the
  last piece of a message (`Dispatch`) delivers it, a ping and its pong, half headers, the search and failures inside `Open` are
  invisible, and the first close of a session is one `End`; a second one, after a failed pong, is a stutter, because `Close`
  has already left the states in which it announces. It needs `FrameInv` because `InFlight`, the inbox of the session, is read
  off the headers in the pipe.
* `InFlight` is a fold, which the community modules define by recursion. What the proof needs of it (an element at the end, one
  taken from the front) is shown by considering the shortest sequence for which it fails.

**`DiscordRpc_proofs`** (for all presences, handlers and messages, sizes of the queues, numbers of sessions and calls, with the IO thread or
without it):

* `TypeCorrect`. Besides the types, `RpcType` has the bounds of the queues, that the IO thread commits only what there is, and
  that the call that a thread is in the middle of finds what it has looked at.
* `PresenceStaysInSync` (`PresenceInSync`): while nothing is pending and the IO thread is at rest, a client whose session is up shows what `QueuedPresence`
  holds. That is not always what the game has set last: a write that fails puts its copy back over it (line 227). The property is about the IO thread at rest; `Sync` says at each of its places that
  the client shows the presence, or that the copy in flight is the presence, unless the flag is raised, and that the
  presence is not lost between a write that fails and the flag that is raised again.
* `NoHandlerIsDeaf`: `Spec /\ []Room => [](session <= 1 => NoDeafHandler)`. `Promised` says that for each handler the client sends its event
  already and no command in the queue will stop it, or that a `SUBSCRIBE` is queued and no `UNSUBSCRIBE` follows it; in the middle
  of `Discord_UpdateHandlers`, for the new handlers as far as they have been compared. `Delivered` covers the moment
  between a command that was written and its removal. `Room` says that what `onConnect` or the game is about
  to queue fits; it is an invariant of the run `rpc_events`, whose queue has 8 places as in the code. Neither it nor the restriction to the first session
  can go (section 3, other values).

**`RpcSingle_proofs`** (the same, with `Threaded = FALSE`):

* `NoReplyIsStale` (`NoStaleReply`). `Fresh`: every queued reply is of the present session, and none is queued when a
  session can begin, since the pass that noticed the end of the last one has drained the queue into nothing.
* `EventsAreBookEnded`: `Spec /\ [][KeepsReady]_vars => []BookEnded`, if `Discord_Initialize` is given a `ready` handler. `KeepsReady`
  says that the game does not give that handler up; what else `Discord_UpdateHandlers` changes, and when, does not matter. Without
  it the promise breaks (section 3, other values). `Book` relates, at each place of `Discord_RunCallbacks`, the flags that are raised, the connection,
  and what the game was told last: whatever is pending belongs to a connection that was announced, and a disconnect that is still to be
  told is followed by a connect.
* Without `Threaded = FALSE` both are violated, in the runs `rpc_stale_reply` and `rpc_bookends`.

**`Texts_proofs`**:

* `NoReaderLeaves` (`ReaderStaysInside`), for any number and length of buffers: the last character of every buffer is a NUL at
  every moment, because `StringCopy` writes only a NUL there, and the reader stops at the first it meets.
* `UntornIsHeard` (`HeardAsSent`): the property speaks of the end of a reading; `HeardInv` says how far the copy has come
  (`Progress`), what all other buffers hold (`Settled`) and what has been read so far (`ReadSoFar`), as long as nothing was torn.
* `AllocatorIsSound` (`AllocatorServes`), for every size of the buffer. `AllocatorSpec` and `WritingSpec` are the two
  halves of `Commands` by themselves; they share no variable, and `MCTexts` runs both.
* `WholeNonceReadsBack` (`NonceReadsBack`), for every `IntMax`. `Digits` and `Decimal` are recursive functions, of a number and of a
  text of digits, so first both are shown to exist (`RecursiveFunction`: a function whose recursion lowers a measure does) and to
  satisfy their equations; then `NumberReadsBack` goes by the least measure (`ByMeasure`, from the least element of a set
  of numbers) at which reading fails. The least `int` is excluded, as in the property: its negation does not fit.
* `WholePresenceReadsBack` (`PresenceReadsBack`: every member that is set, whether the presence is an instance, and nothing that is not set) and `NoSectionIsEmpty` (`SectionsHaveMembers`), whatever the members of the presence are. The
  invariant, that the message is the one of the call, is plain; the work is in the lemmas about objects: members that are written on a
  condition stay what they are when objects with other names are joined to them. The hypothesis `NullIsNoObject` says that the null pointer is not
  an object; it stands in the theorems and not among the assumptions because TLC cannot evaluate the domain of a model value.

Constants have only assumptions of their kind (`MailboxAssumption`: the names of the buffers are different strings, characters
are not NUL; `SerializationAssumption`: the null pointer is no text and no number; `CommandsAssumption`; `RpcAssumption`;
`ConnectionAssumption`), which TLC evaluates in every run.

Only checked by TLC: every liveness property, since the prover does not handle fairness and `ENABLED` (`EndIsNoticed`, `ReadyIsNoticed`, `SearchEnds`,
`ToldTheTruth`, `PresenceIsShown`, `LatestIsHeard`, `LatestIsRead`, `KeepsTrying`, `CommittedIsRead`, `CallsReturn`, `SignalIsServed`). No module declares a RECURSIVE operator.

## 5. Not modelled

* The vendored libraries: other projects' releases, two million lines next to the two thousand of `discord-rpc`. What the map
  covers is therefore a vanishing share of the whole tree; of `discord-rpc`, without RapidJSON and the registration, it is
  nearly everything that keeps state.
* Registration: one-time writes of a desktop file or of registry keys, before the IO thread starts.
* `DiscordRpc` uses bounded queues, not the ring: it says what holds if the queue is one. Where the ring is not
  (two producers, a dropped request), `QueueUse` says what happens. `Lifecycle` leaves the queues out: they are static and
  survive every life.
* `Nonce`, which two threads increment without a lock, so that two commands may carry the same one. Nobody reads it back.
* `Discord_Initialize` from inside a callback, and `new` that returns null.
* `socket` without a result, and the path of the temporary directory.
* A frame of type Frame or Close with length 0: its parse reads a buffer that was not written for it. A Close without payload is in the model
  with any outcome of that parse, since its code is abstracted; a Frame without one is not, since its message would be arbitrary.
* `DirectStringBuffer`, which cuts a message that is too long, and the sizes of RapidJSON's buffers.
* `AwaitingResponse`, a state that no code enters.

## 6. Plan

Done: queue, backoff, connection with the search, both threads, life cycle, texts and messages, each modelled and with its safety properties proved.

Next: the parts of `Discord_UpdateHandlers` in a later session, if
the code comes to subscribe again there; `DiscordRpc` over the ring of `QueueUse` in place of a bounded queue.
