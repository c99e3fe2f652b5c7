----------------------------- MODULE DiscordRpc -----------------------------
(***************************************************************************)
(* The library as the game sees it (discord_rpc.cpp): the IO thread, which *)
(* owns the connection, and the game's thread, which calls the Discord_    *)
(* functions, share flags, mailboxes, the handlers and two queues.         *)
(*                                                                         *)
(* Below it the connection is the session of module Session, which         *)
(* RpcConnection implements, and a queue holds its committed messages, as  *)
(* in BoundedQueue, which MsgQueue implements for a single producer.  A    *)
(* critical section of PresenceMutex or HandlerMutex is one step, but for  *)
(* the game's Discord_UpdateHandlers, whose messages the IO thread may     *)
(* send while it still goes on.  Every other access to shared state is a   *)
(* step of its own.                                                        *)
(*                                                                         *)
(* Threaded is FALSE for the build with DISCORD_DISABLE_IO_THREAD, in      *)
(* which the game calls Discord_UpdateConnection itself, between its other *)
(* calls.                                                                  *)
(***************************************************************************)
EXTENDS Integers, Sequences

CONSTANTS
    Ready,           \* the READY message
    Presences,       \* the presences that the game may set
    NoPresence,      \* QueuedPresence.length = 0
    Values,          \* secrets, users, error messages
    NoValue,
    Sent,            \* the kinds of messages that the Discord client sends
    InitialHandlers, \* the handlers given to Discord_Initialize
    HandlerChoices,  \* those that the game may install later
    Replies,         \* BOOLEAN: the game answers join requests
    Threaded,        \* BOOLEAN
    QueueSize, MaxInbox, MaxSessions, MaxCalls

\* The callbacks that carry an event, in the order of Discord_RunCallbacks.
SignalOrder == <<"errored", "joinGame", "spectateGame">>
Signals == {"errored", "joinGame", "spectateGame"}

\* The handlers that stand for a subscription, in the order of
\* Discord_UpdateHandlers.
EventOrder == <<"joinGame", "spectateGame", "joinRequest">>
EventNames == {"joinGame", "spectateGame", "joinRequest"}

HandlerNames == Signals \cup EventNames \cup {"ready", "disconnected"}

ASSUME RpcAssumption ==
    /\ NoPresence \notin Presences
    /\ NoValue \notin Values
    /\ Sent \subseteq Signals \cup EventNames
    /\ InitialHandlers \subseteq HandlerNames
    /\ HandlerChoices \subseteq SUBSET HandlerNames
    /\ Replies \in BOOLEAN /\ Threaded \in BOOLEAN
    /\ QueueSize \in Nat \ {0} /\ MaxInbox \in Nat \ {0}
    /\ MaxSessions \in Nat \ {0} /\ MaxCalls \in Nat

Messages == {Ready} \cup [kind : Sent, value : Values]

Commands == [cmd : {"SUBSCRIBE", "UNSUBSCRIBE"}, evt : EventNames]
                \cup [cmd : {"REPLY"}, asked : 0 .. MaxSessions]

VARIABLES
    status, inbox, got, announced,  \* the session
    session,    \* how many sessions have begun
    client,     \* the Discord client: the events it sends, the presence it shows
    due,        \* NextConnect has passed
    io,         \* the IO thread: where it is, where Close returns to, its copy
    flag,       \* WasJust..., WasJoinGame, ..., UpdatePresence
    value,      \* JoinGameSecret, SpectateGameSecret, LastErrorMessage
    presence,   \* QueuedPresence
    handlers,   \* the members of Handlers that are not null
    sendq,      \* SendQueue
    joinq,      \* JoinAskQueue
    game,       \* the game's thread: where it is, and its local variables
    shown,      \* which of ready and disconnected the game was told last
    heard,      \* for each signal, the value the game was given last
    calls       \* how often it set a presence or its handlers

connection == <<status, inbox, got, announced, session, client>>
mailboxes == <<value, presence>>
queues == <<sendq, joinq>>
outside == <<shown, heard, calls>>
vars == <<connection, due, io, flag, mailboxes, handlers, queues, game, outside>>

Session == INSTANCE Session

Flags == Signals \cup {"connected", "disconnected", "presence"}

TypeOK ==
    /\ status \in {"down", "handshaking", "up"}
    /\ inbox \in Seq(Messages) /\ Len(inbox) <= MaxInbox
    /\ got \in Messages \cup {NoValue}
    /\ announced \in Seq({"connect", "disconnect"})
    /\ session \in 0 .. MaxSessions
    /\ client \in [subs : SUBSET EventNames,
                   activity : Presences \cup {NoPresence},
                   stale : BOOLEAN]
    /\ due \in BOOLEAN
    /\ io \in [pc : {"wait", "update", "subscribe", "resend", "announce", "read",
                     "raise", "write", "copy", "send", "requeue", "drain", "commit",
                     "closing", "closed"},
               return : {"wait", "write", "requeue", "commit"},
               copy : Presences \cup {NoPresence}]
    /\ flag \in [Flags -> BOOLEAN]
    /\ value \in [Signals -> Values \cup {NoValue}]
    /\ presence \in Presences \cup {NoPresence}
    /\ handlers \subseteq HandlerNames
    /\ sendq \in Seq(Commands) /\ Len(sendq) <= QueueSize
    /\ joinq \in Seq(Values) /\ Len(joinq) <= QueueSize
    /\ game \in [pc : {"idle", "asked", "isConnected", "early", "ready", "callReady",
                       "signal", "callSignal", "requests", "callRequest", "late",
                       "handlers"},
                 wasDisconnected : BOOLEAN, isConnected : BOOLEAN,
                 next : 1 .. 4, asked : 0 .. MaxSessions, new : SUBSET HandlerNames]
    /\ shown \in {"nothing", "ready", "disconnected"}
    /\ heard \in [Signals -> Values \cup {NoValue}]
    /\ calls \in 0 .. MaxCalls

NewClient == [subs |-> {}, activity |-> NoPresence, stale |-> FALSE]

Init ==
    /\ Session!Init /\ got = NoValue
    /\ session = 0
    /\ client = NewClient
    /\ due = TRUE
    /\ io = [pc |-> "update", return |-> "wait", copy |-> NoPresence]
    /\ flag = [f \in Flags |-> FALSE]
    /\ value = [s \in Signals |-> NoValue]
    /\ presence = NoPresence
    /\ handlers = {}
    /\ sendq = << >> /\ joinq = << >>
    /\ game = [pc |-> "idle", wasDisconnected |-> FALSE, isConnected |-> FALSE,
               next |-> 1, asked |-> 0, new |-> {}]
    /\ shown = "nothing"
    /\ heard = [s \in Signals |-> NoValue]
    /\ calls = 0

-----------------------------------------------------------------------------
(* Threads. *)

IO(pc) == io.pc = pc /\ (Threaded \/ game.pc = "idle")
IOGoes(pc) == io' = [io EXCEPT !.pc = pc]
Game(pc) == game.pc = pc /\ (Threaded \/ io.pc = "wait")
GameGoes(pc) == game' = [game EXCEPT !.pc = pc]
Raise(f) == flag' = [flag EXCEPT ![f] = TRUE]
Lower(f) == flag' = [flag EXCEPT ![f] = FALSE]

\* Close: onDisconnect first, then the state.
CloseThen(pc) == io' = [io EXCEPT !.pc = "closing", !.return = pc]

\* GetNextAddMessage answers nullptr when the queue is full: what does not fit
\* is dropped, and nobody is told.
Fits(q) == QueueSize - Len(q)
Enqueue_NoBail(q, new) == q \o new
Enqueue(q, new) == q \o SubSeq(new, 1, IF Len(new) < Fits(q) THEN Len(new) ELSE Fits(q))

\* Discord_UpdateHandlers subscribes to what is new and unsubscribes from
\* what is gone.
Change(e, old, new) ==
    IF e \in new \ old THEN << [cmd |-> "SUBSCRIBE", evt |-> e] >>
    ELSE IF e \in old \ new THEN << [cmd |-> "UNSUBSCRIBE", evt |-> e] >>
    ELSE << >>
Changes(old, new) ==
    Change(EventOrder[1], old, new) \o Change(EventOrder[2], old, new)
                                    \o Change(EventOrder[3], old, new)
UpdateHandlers_AssignFirst(new) ==
    /\ handlers' = new
    /\ sendq' = Enqueue(sendq, Changes(new, new))
UpdateHandlers(new) ==
    /\ sendq' = Enqueue(sendq, Changes(handlers, new))
    /\ handlers' = new

-----------------------------------------------------------------------------
(* The IO thread: Discord_UpdateConnection. *)

\* wait_for returns, because of Notify or after 500 ms.
Wake ==
    /\ IO("wait")
    /\ IOGoes("update")
    /\ UNCHANGED <<connection, due, flag, mailboxes, handlers, queues, game, outside>>

TimePasses ==
    /\ ~ due
    /\ due' = TRUE
    /\ UNCHANGED <<connection, io, flag, mailboxes, handlers, queues, game, outside>>

NotYetDue ==
    /\ IO("update") /\ status # "up" /\ ~ due
    /\ IOGoes("wait")
    /\ UNCHANGED <<connection, due, flag, mailboxes, handlers, queues, game, outside>>

\* Open from Disconnected: no client is running, or the handshake is sent.
Connect ==
    /\ IO("update") /\ status = "down" /\ due
    /\ due' = FALSE
    /\ \/ UNCHANGED connection
       \/ /\ session < MaxSessions
          /\ Session!Begin
          /\ session' = session + 1
          /\ client' = NewClient
    /\ IOGoes("wait")
    /\ UNCHANGED <<flag, mailboxes, handlers, queues, game, outside>>

\* Open from SentHandshake reads one message, if there is one: of a message
\* in the inbox only the header may have arrived.
PollReady ==
    /\ IO("update") /\ status = "handshaking" /\ due
    /\ due' = FALSE
    /\ \/ /\ UNCHANGED connection
          /\ IOGoes("wait")
       \/ /\ Session!Ignore
          /\ UNCHANGED <<session, client>>
          /\ IOGoes("wait")
       \/ /\ Session!BecomeUp
          /\ UNCHANGED <<session, client>>
          /\ IOGoes("subscribe")
       \/ /\ UNCHANGED connection
          /\ CloseThen("wait")
    /\ UNCHANGED <<flag, mailboxes, handlers, queues, game, outside>>

\* onConnect; HandlerMutex keeps it out while the game changes its handlers.
OnConnectHandlers ==
    /\ IO("subscribe") /\ game.pc # "handlers"
    /\ UpdateHandlers(InitialHandlers)
    /\ IOGoes("resend")
    /\ UNCHANGED <<connection, due, flag, mailboxes, joinq, game, outside>>

OnConnectPresence_NoResend ==
    /\ IO("resend")
    /\ UNCHANGED flag
    /\ IOGoes("announce")
    /\ UNCHANGED <<connection, due, mailboxes, handlers, queues, game, outside>>
OnConnectPresence ==
    /\ IO("resend")
    /\ IF presence # NoPresence THEN Raise("presence") ELSE UNCHANGED flag
    /\ IOGoes("announce")
    /\ UNCHANGED <<connection, due, mailboxes, handlers, queues, game, outside>>

OnConnectAnnounce ==
    /\ IO("announce")
    /\ Raise("connected")
    /\ IOGoes("wait")
    /\ UNCHANGED <<connection, due, mailboxes, handlers, queues, game, outside>>

\* onDisconnect and the rest of Close; a connection that is already closed
\* announces nothing.
OnDisconnect ==
    /\ IO("closing")
    /\ Raise("disconnected")
    /\ due' = FALSE
    /\ IOGoes("closed")
    /\ UNCHANGED <<connection, mailboxes, handlers, queues, game, outside>>

Closed ==
    /\ IO("closed")
    /\ Session!End
    /\ IOGoes(io.return)
    /\ UNCHANGED <<session, client, due, flag, mailboxes, handlers, queues, game, outside>>

StartReading ==
    /\ IO("update") /\ status = "up"
    /\ IOGoes("read")
    /\ UNCHANGED <<connection, due, flag, mailboxes, handlers, queues, game, outside>>

\* Read has nothing for us, or not all of it yet; or it closes the connection.
ReadNothing ==
    /\ IO("read")
    /\ IOGoes("write")
    /\ UNCHANGED <<connection, due, flag, mailboxes, handlers, queues, game, outside>>

ReadFails ==
    /\ IO("read")
    /\ CloseThen("write")
    /\ UNCHANGED <<connection, due, flag, mailboxes, handlers, queues, game, outside>>

\* An error response, ACTIVITY_JOIN or ACTIVITY_SPECTATE: the text is copied,
\* and then the flag is raised.
ReadSignal_KeepsFirst ==
    /\ IO("read") /\ inbox # << >> /\ Head(inbox) # Ready
    /\ Head(inbox).kind \in Signals
    /\ Session!Deliver
    /\ value' = IF flag[Head(inbox).kind] THEN value
                ELSE [value EXCEPT ![Head(inbox).kind] = Head(inbox).value]
    /\ IOGoes("raise")
    /\ UNCHANGED <<session, client, due, flag, presence, handlers, queues, game, outside>>
ReadSignal ==
    /\ IO("read") /\ inbox # << >> /\ Head(inbox) # Ready
    /\ Head(inbox).kind \in Signals
    /\ Session!Deliver
    /\ value' = [value EXCEPT ![Head(inbox).kind] = Head(inbox).value]
    /\ IOGoes("raise")
    /\ UNCHANGED <<session, client, due, flag, presence, handlers, queues, game, outside>>

RaiseSignal ==
    /\ IO("raise")
    /\ Raise(got.kind)
    /\ IOGoes("read")
    /\ UNCHANGED <<connection, due, mailboxes, handlers, queues, game, outside>>

ReadJoinRequest ==
    /\ IO("read") /\ inbox # << >> /\ Head(inbox) # Ready
    /\ Head(inbox).kind = "joinRequest"
    /\ Session!Deliver
    /\ joinq' = Enqueue(joinq, << Head(inbox).value >>)
    /\ UNCHANGED <<session, client, due, io, flag, mailboxes, handlers, sendq, game, outside>>

\* UpdatePresence.exchange(false) && QueuedPresence.length.
TakePresence ==
    /\ IO("write")
    /\ Lower("presence")
    /\ IOGoes(IF flag["presence"] /\ presence # NoPresence THEN "copy" ELSE "drain")
    /\ UNCHANGED <<connection, due, mailboxes, handlers, queues, game, outside>>

CopyPresence ==
    /\ IO("copy")
    /\ io' = [io EXCEPT !.pc = "send", !.copy = presence]
    /\ UNCHANGED <<connection, due, flag, mailboxes, handlers, queues, game, outside>>

SendPresence_LowersAfter ==
    /\ IO("send")
    /\ \/ /\ status = "up"
          /\ client' = [client EXCEPT !.activity = io.copy]
          /\ Lower("presence")
          /\ IOGoes("drain")
       \/ /\ status = "up"
          /\ UNCHANGED <<client, flag>>
          /\ CloseThen("requeue")
       \/ /\ status # "up"
          /\ UNCHANGED <<client, flag>>
          /\ IOGoes("requeue")
    /\ UNCHANGED <<status, inbox, got, announced, session, due, mailboxes,
                   handlers, queues, game, outside>>
SendPresence ==
    /\ IO("send")
    /\ \/ /\ status = "up"
          /\ client' = [client EXCEPT !.activity = io.copy]
          /\ IOGoes("drain")
       \/ /\ status = "up"
          /\ UNCHANGED client
          /\ CloseThen("requeue")
       \/ /\ status # "up"
          /\ UNCHANGED client
          /\ IOGoes("requeue")
    /\ UNCHANGED <<status, inbox, got, announced, session, due, flag, mailboxes,
                   handlers, queues, game, outside>>

\* "if we fail to send, requeue".
RequeuePresence ==
    /\ IO("requeue")
    /\ presence' = io.copy
    /\ Raise("presence")
    /\ IOGoes("drain")
    /\ UNCHANGED <<connection, due, value, handlers, queues, game, outside>>

\* What the Discord client does with a command.
Receives(c) ==
    client' = CASE c.cmd = "SUBSCRIBE" -> [client EXCEPT !.subs = @ \cup {c.evt}]
                [] c.cmd = "UNSUBSCRIBE" -> [client EXCEPT !.subs = @ \ {c.evt}]
                [] c.cmd = "REPLY" -> [client EXCEPT !.stale = @ \/ c.asked # session]

\* The message is written, or lost with the connection; either way it leaves
\* the queue.
SendCommand ==
    /\ IO("drain") /\ sendq # << >>
    /\ \/ /\ status = "up"
          /\ Receives(Head(sendq))
          /\ IOGoes("commit")
       \/ /\ status = "up"
          /\ UNCHANGED client
          /\ CloseThen("commit")
       \/ /\ status # "up"
          /\ UNCHANGED client
          /\ IOGoes("commit")
    /\ UNCHANGED <<status, inbox, got, announced, session, due, flag, mailboxes,
                   handlers, queues, game, outside>>

CommitCommand ==
    /\ IO("commit")
    /\ sendq' = Tail(sendq)
    /\ IOGoes("drain")
    /\ UNCHANGED <<connection, due, flag, mailboxes, handlers, joinq, game, outside>>

UpdateDone ==
    /\ IO("drain") /\ sendq = << >>
    /\ IOGoes("wait")
    /\ UNCHANGED <<connection, due, flag, mailboxes, handlers, queues, game, outside>>

-----------------------------------------------------------------------------
(* The Discord client sends READY once, then whatever was subscribed to, and *)
(* errors.                                                                    *)

ClientSends(m) ==
    /\ Len(inbox) < MaxInbox
    /\ IF m = Ready
       THEN status = "handshaking" /\ inbox = << >>
       ELSE status = "up" /\ (m.kind # "errored" => m.kind \in client.subs)
    /\ Session!Arrive(m)
    /\ UNCHANGED <<session, client, due, io, flag, mailboxes, handlers, queues, game, outside>>

-----------------------------------------------------------------------------
(* The game's calls. *)

\* Discord_UpdatePresence, and Discord_ClearPresence, which sets one more
\* value.
SetPresence(p) ==
    /\ Game("idle") /\ calls < MaxCalls
    /\ presence' = p
    /\ Raise("presence")
    /\ calls' = calls + 1
    /\ UNCHANGED <<connection, due, io, value, handlers, queues, game, shown, heard>>

\* Discord_Respond looks at IsOpen and then at the queue.
Respond_Unchecked ==
    /\ Game("idle") /\ Replies
    /\ game' = [game EXCEPT !.pc = "asked", !.asked = session]
    /\ UNCHANGED <<connection, due, io, flag, mailboxes, handlers, queues, outside>>
Respond ==
    /\ Game("idle") /\ Replies
    /\ status = "up"
    /\ game' = [game EXCEPT !.pc = "asked", !.asked = session]
    /\ UNCHANGED <<connection, due, io, flag, mailboxes, handlers, queues, outside>>

QueueReply ==
    /\ Game("asked")
    /\ sendq' = Enqueue(sendq, << [cmd |-> "REPLY", asked |-> game.asked] >>)
    /\ game' = [game EXCEPT !.pc = "idle", !.asked = 0]
    /\ UNCHANGED <<connection, due, io, flag, mailboxes, handlers, joinq, outside>>

\* Discord_UpdateHandlers: one event after the other, then the handlers.
SetHandlers(new) ==
    /\ Game("idle") /\ calls < MaxCalls
    /\ game' = [game EXCEPT !.pc = "handlers", !.new = new]
    /\ calls' = calls + 1
    /\ UNCHANGED <<connection, due, io, flag, mailboxes, handlers, queues, shown, heard>>

QueueChange ==
    /\ Game("handlers") /\ game.next <= 3
    /\ sendq' = Enqueue(sendq, Change(EventOrder[game.next], handlers, game.new))
    /\ game' = [game EXCEPT !.next = @ + 1]
    /\ UNCHANGED <<connection, due, io, flag, mailboxes, handlers, joinq, outside>>

InstallHandlers ==
    /\ Game("handlers") /\ game.next = 4
    /\ handlers' = game.new
    /\ game' = [game EXCEPT !.pc = "idle", !.next = 1, !.new = {}]
    /\ UNCHANGED <<connection, due, io, flag, mailboxes, queues, outside>>

\* Discord_UpdateHandlers(nullptr) forgets the handlers and unsubscribes from
\* nothing.
ClearHandlers ==
    /\ Game("idle") /\ calls < MaxCalls /\ HandlerChoices # {}
    /\ handlers' = {}
    /\ calls' = calls + 1
    /\ UNCHANGED <<connection, due, io, flag, mailboxes, queues, game, shown, heard>>

-----------------------------------------------------------------------------
(* Discord_RunCallbacks. *)

RunCallbacks ==
    /\ Game("idle")
    /\ game' = [game EXCEPT !.pc = "isConnected", !.wasDisconnected = flag["disconnected"]]
    /\ Lower("disconnected")
    /\ UNCHANGED <<connection, due, io, mailboxes, handlers, queues, outside>>

LookAtConnection ==
    /\ Game("isConnected")
    /\ game' = [game EXCEPT !.pc = "early", !.isConnected = (status = "up")]
    /\ UNCHANGED <<connection, due, io, flag, mailboxes, handlers, queues, outside>>

TellDisconnected == IF game.wasDisconnected /\ "disconnected" \in handlers
                    THEN shown' = "disconnected"
                    ELSE UNCHANGED shown

\* "if we are connected, disconnect cb first".
CallDisconnectedEarly_Always ==
    /\ Game("early")
    /\ TellDisconnected
    /\ GameGoes("ready")
    /\ UNCHANGED <<connection, due, io, flag, mailboxes, handlers, queues, heard, calls>>
CallDisconnectedEarly ==
    /\ Game("early")
    /\ IF game.isConnected THEN TellDisconnected ELSE UNCHANGED shown
    /\ GameGoes("ready")
    /\ UNCHANGED <<connection, due, io, flag, mailboxes, handlers, queues, heard, calls>>

TakeConnected ==
    /\ Game("ready")
    /\ Lower("connected")
    /\ GameGoes(IF flag["connected"] THEN "callReady" ELSE "signal")
    /\ UNCHANGED <<connection, due, io, mailboxes, handlers, queues, outside>>

CallReady ==
    /\ Game("callReady")
    /\ shown' = IF "ready" \in handlers THEN "ready" ELSE shown
    /\ GameGoes("signal")
    /\ UNCHANGED <<connection, due, io, flag, mailboxes, handlers, queues, heard, calls>>

\* errored, joinGame, spectateGame.
AtSignal == SignalOrder[game.next]

TakeSignal ==
    /\ Game("signal") /\ game.next <= 3
    /\ Lower(AtSignal)
    /\ game' = IF flag[AtSignal]
               THEN [game EXCEPT !.pc = "callSignal"]
               ELSE [game EXCEPT !.next = @ + 1]
    /\ UNCHANGED <<connection, due, io, mailboxes, handlers, queues, outside>>

CallSignal ==
    /\ Game("callSignal")
    /\ heard' = IF AtSignal \in handlers
                THEN [heard EXCEPT ![AtSignal] = value[AtSignal]]
                ELSE heard
    /\ game' = [game EXCEPT !.pc = "signal", !.next = @ + 1]
    /\ UNCHANGED <<connection, due, io, flag, mailboxes, handlers, queues, shown, calls>>

SignalsDone ==
    /\ Game("signal") /\ game.next = 4
    /\ game' = [game EXCEPT !.pc = "requests", !.next = 1]
    /\ UNCHANGED <<connection, due, io, flag, mailboxes, handlers, queues, outside>>

TakeJoinRequest ==
    /\ Game("requests") /\ joinq # << >>
    /\ GameGoes("callRequest")
    /\ UNCHANGED <<connection, due, io, flag, mailboxes, handlers, queues, outside>>

CallJoinRequest ==
    /\ Game("callRequest")
    /\ joinq' = Tail(joinq)
    /\ GameGoes("requests")
    /\ UNCHANGED <<connection, due, io, flag, mailboxes, handlers, sendq, outside>>

RequestsDone ==
    /\ Game("requests") /\ joinq = << >>
    /\ GameGoes("late")
    /\ UNCHANGED <<connection, due, io, flag, mailboxes, handlers, queues, outside>>

\* "if we are not connected, disconnect message last".
CallDisconnectedLate_Always ==
    /\ Game("late")
    /\ TellDisconnected
    /\ game' = [game EXCEPT !.pc = "idle", !.wasDisconnected = FALSE, !.isConnected = FALSE]
    /\ UNCHANGED <<connection, due, io, flag, mailboxes, handlers, queues, heard, calls>>
CallDisconnectedLate ==
    /\ Game("late")
    /\ IF game.isConnected THEN UNCHANGED shown ELSE TellDisconnected
    /\ game' = [game EXCEPT !.pc = "idle", !.wasDisconnected = FALSE, !.isConnected = FALSE]
    /\ UNCHANGED <<connection, due, io, flag, mailboxes, handlers, queues, heard, calls>>

-----------------------------------------------------------------------------
UpdateConnection ==
    \/ Wake \/ NotYetDue \/ Connect \/ PollReady
    \/ OnConnectHandlers \/ OnConnectPresence \/ OnConnectAnnounce
    \/ OnDisconnect \/ Closed
    \/ StartReading \/ ReadNothing \/ ReadFails \/ ReadSignal \/ RaiseSignal \/ ReadJoinRequest
    \/ TakePresence \/ CopyPresence \/ SendPresence \/ RequeuePresence
    \/ SendCommand \/ CommitCommand \/ UpdateDone

Callbacks ==
    \/ RunCallbacks \/ LookAtConnection \/ CallDisconnectedEarly
    \/ TakeConnected \/ CallReady \/ TakeSignal \/ CallSignal \/ SignalsDone
    \/ TakeJoinRequest \/ CallJoinRequest \/ RequestsDone \/ CallDisconnectedLate

Calls ==
    \/ \E p \in Presences : SetPresence(p)
    \/ Respond \/ QueueReply
    \/ ClearHandlers \/ QueueChange \/ InstallHandlers
    \/ \E new \in HandlerChoices : SetHandlers(new)

Next ==
    \/ UpdateConnection \/ Callbacks \/ Calls \/ TimePasses
    \/ \E m \in Messages : ClientSends(m)

Spec == Init /\ [][Next]_vars

\* The IO thread wakes at the latest every 500 ms; time passes; the game
\* calls Discord_RunCallbacks in every frame and finishes its calls.  The
\* client does not send so fast that the loop of reads never ends: nothing in
\* the code bounds that loop.
FairSpec ==
    /\ Spec
    /\ SF_vars(UpdateConnection)
    /\ []<>(io.pc \notin {"read", "raise"})
    /\ WF_vars(TimePasses)
    /\ SF_vars(Callbacks)
    /\ WF_vars(QueueReply \/ QueueChange \/ InstallHandlers)

-----------------------------------------------------------------------------
(* Properties. *)

\* The next step of the game's thread is a callback that carries an event.
CallsEvent ==
    \/ game.pc = "callSignal" /\ AtSignal \in handlers
    \/ game.pc = "callRequest" /\ "joinRequest" \in handlers

\* "any other signals are book-ended by calls to ready and disconnect": the
\* game is told of an event only between ready and disconnected.
BookEnded == CallsEvent => shown = "ready"

\* What the game was told last is true in the end: of a connection that stays
\* up it knows that it is up, of one that stays down it does not think so.
ToldTheTruth ==
    /\ <>[](status = "up") => <>[](shown = "ready")
    /\ <>[](status = "down") => <>[](shown # "ready")

\* "if we are not connected, let's not batch up stale messages for later": a
\* reply reaches the client in the session in which it was given.
NoStaleReply == ~ client.stale

\* With nothing pending, the client shows the presence that is queued,
\* whatever sessions were lost meanwhile.
AtRest == io.pc = "wait" /\ status = "up"
PresenceInSync == AtRest /\ ~ flag["presence"] => client.activity = presence

\* A presence is shown in the end, through any number of failures, once the
\* connection stays up.
PresenceIsShown == <>[](status = "up") => <>[](client.activity = presence)

\* With nothing left to send, the client sends every event that the game has
\* a handler for: no order of the game's changes and onConnect's own leaves a
\* handler deaf.
NoDeafHandler ==
    AtRest /\ sendq = << >> /\ game.pc # "handlers" => handlers \cap EventNames \subseteq client.subs

\* The latest secret is handed to the game, however the writing of the text
\* and the reading of the flag interleave.
LatestIsHeard ==
    \A m \in Messages \ {Ready} : m.kind \in Signals =>
        (io.pc = "raise" /\ got = m)
            ~> (heard[m.kind] = m.value \/ got # m \/ m.kind \notin handlers)
=============================================================================
