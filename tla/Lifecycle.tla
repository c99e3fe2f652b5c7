----------------------------- MODULE Lifecycle -----------------------------
(***************************************************************************)
(* Discord_Initialize and Discord_Shutdown against the IO threads          *)
(* (discord_rpc.cpp, IoThreadHolder), with the wake-ups, the HandlerMutex  *)
(* and the memory through which the two sides meet.                        *)
(*                                                                         *)
(* A life is one IoThreadHolder together with the thread that it starts.   *)
(* A critical section that waits for nothing is one step; the callbacks of *)
(* the game are called with HandlerMutex held and may call the library.    *)
(* When a pass of Discord_UpdateConnection finds the connection up, lost or *)
(* full is left open here: RpcConnection and DiscordRpc say it.            *)
(***************************************************************************)
EXTENDS Integers

CONSTANTS
    MaxLives,
    Twice,   \* BOOLEAN: the game may initialize what is initialized
    Nested   \* what callbacks call: "presence", "handlers", "shutdown"

ASSUME LifeAssumption ==
    /\ MaxLives \in Nat \ {0}
    /\ Twice \in BOOLEAN
    /\ Nested \subseteq {"presence", "handlers", "shutdown"}

Lives == 1 .. MaxLives

VARIABLES
    begun,       \* how many holders have been made
    holder,      \* IoThread: the life it points at, 0 for null
    freed,       \* the holders that have been deleted
    keepRunning, \* a member of each holder
    thread,      \* where each IO thread is
    connection,  \* Connection is not null
    up,          \* its state is Connected
    callbacks,   \* which of its onConnect and onDisconnect are not null
    presence,    \* [queued: QueuedPresence.length > 0, update: UpdatePresence]
    copy,        \* the length of each thread's copy of it is not 0
    signalled,   \* no pass has begun since SignalIOActivity was called
    game         \* where the game is, and whether inside a callback

holders == <<begun, holder, freed, keepRunning>>
pipe == <<connection, up, callbacks>>
mail == <<presence, copy>>
vars == <<holders, thread, pipe, mail, signalled, game>>

\* Where a thread uses the connection, and where it exists at all.  At
\* "connect" it has found that onConnect is set and is about to call it, at
\* the places of Closing the same of onDisconnect.
Closing == {"lost", "unsent", "undrained"}
InPass ==
    Closing \cup {"pass", "connect", "onConnect", "look", "raise", "signal",
                 "write", "take", "copy", "send", "requeue", "drain"}
Alive == InPass \cup {"update", "check", "enter", "waiting"}
Callbacks == {"onConnect", "onDisconnect"}

TypeOK ==
    /\ begun \in 0 .. MaxLives /\ freed \subseteq 1 .. begun
    /\ holder \in (0 .. begun) \ freed
    /\ keepRunning \in [Lives -> BOOLEAN]
    /\ thread \in [Lives -> Alive \cup {"none", "ended", "crashed"}]
    /\ connection \in BOOLEAN /\ up \in BOOLEAN /\ callbacks \subseteq Callbacks
    /\ presence \in [queued : BOOLEAN, update : BOOLEAN]
    /\ copy \in [Lives -> BOOLEAN]
    /\ signalled \in BOOLEAN
    /\ game \in [pc : {"ready", "install", "create", "start", "signal", "handlers",
                       "disarm", "forget", "lower", "stop", "notify", "join", "destroy"},
                 inCallback : BOOLEAN]

Init ==
    /\ begun = 0 /\ holder = 0 /\ freed = {}
    /\ keepRunning = [l \in Lives |-> TRUE]
    /\ thread = [l \in Lives |-> "none"]
    /\ connection = FALSE /\ up = FALSE /\ callbacks = {}
    /\ presence = [queued |-> FALSE, update |-> FALSE]
    /\ copy = [l \in Lives |-> FALSE]
    /\ signalled = FALSE
    /\ game = [pc |-> "ready", inCallback |-> FALSE]

\* A null pointer has been called: the process is gone.
Crashed == \E l \in Lives : thread[l] = "crashed"

Game(from, to) == ~ Crashed /\ game.pc = from /\ game' = [game EXCEPT !.pc = to]
Thread(l, from, to) ==
    ~ Crashed /\ thread[l] = from /\ thread' = [thread EXCEPT ![l] = to]

\* Only a callback holds HandlerMutex for longer than a step.
HandlerMutexFree == ~ game.inCallback
MayCall(function) == game.inCallback => function \in Nested

\* SignalIOActivity: notify_all reaches those that wait, nobody else.
Notified == [l \in Lives |-> IF l = holder /\ thread[l] = "waiting" THEN "update"
                             ELSE thread[l]]

-----------------------------------------------------------------------------
(* Discord_Initialize. *)

Initialize ==
    /\ Game("ready", "install") /\ ~ game.inCallback
    /\ begun < MaxLives /\ (connection => Twice)
    /\ begun' = begun + 1 /\ holder' = begun + 1
    /\ UNCHANGED <<freed, keepRunning, thread, pipe, mail, signalled>>

\* The handlers are queued; with a connection there is nothing more to do.
InstallHandlers ==
    /\ HandlerMutexFree
    /\ Game("install", IF connection THEN "ready" ELSE "create")
    /\ UNCHANGED <<holders, thread, pipe, mail, signalled>>

Create ==
    /\ Game("create", "start")
    /\ connection' = TRUE /\ callbacks' = Callbacks
    /\ UNCHANGED <<holders, thread, up, mail, signalled>>

StartThread ==
    /\ Game("start", "ready")
    /\ keepRunning' = [keepRunning EXCEPT ![holder] = TRUE]
    /\ thread' = [thread EXCEPT ![holder] = "update"]
    /\ UNCHANGED <<begun, holder, freed, pipe, mail, signalled>>

-----------------------------------------------------------------------------
(* Discord_Shutdown. *)

Shutdown ==
    /\ connection /\ MayCall("shutdown")
    /\ Game("ready", "disarm")
    /\ callbacks' = callbacks \ {"onConnect"}
    /\ UNCHANGED <<holders, thread, connection, up, mail, signalled>>

Disarm ==
    /\ Game("disarm", "forget")
    /\ callbacks' = callbacks \ {"onDisconnect"}
    /\ UNCHANGED <<holders, thread, connection, up, mail, signalled>>

\* Without the lock, in two steps.
ForgetPresence ==
    /\ Game("forget", "lower")
    /\ presence' = [presence EXCEPT !.queued = FALSE]
    /\ UNCHANGED <<holders, thread, pipe, copy, signalled>>

LowerUpdate ==
    /\ Game("lower", IF holder = 0 THEN "destroy" ELSE "stop")
    /\ presence' = [presence EXCEPT !.update = FALSE]
    /\ UNCHANGED <<holders, thread, pipe, copy, signalled>>

Stop_KeepsRunning ==
    /\ Game("stop", "notify")
    /\ UNCHANGED <<holders, thread, pipe, mail, signalled>>
Stop ==
    /\ Game("stop", "notify")
    /\ keepRunning' = [keepRunning EXCEPT ![holder] = FALSE]
    /\ UNCHANGED <<begun, holder, freed, thread, pipe, mail, signalled>>

StopNotify ==
    /\ Game("notify", "join")
    /\ thread' = Notified
    /\ UNCHANGED <<holders, pipe, mail, signalled>>

\* join, if there is a thread, and delete.
Join_KeepsPointer ==
    /\ Game("join", "destroy")
    /\ thread[holder] \notin Alive
    /\ freed' = freed \cup {holder}
    /\ UNCHANGED <<begun, holder, keepRunning, thread, pipe, mail, signalled>>
Join_Detaches ==
    /\ Game("join", "destroy")
    /\ freed' = freed \cup {holder} /\ holder' = 0
    /\ UNCHANGED <<begun, keepRunning, thread, pipe, mail, signalled>>
Join ==
    /\ Game("join", "destroy")
    /\ thread[holder] \notin Alive
    /\ freed' = freed \cup {holder} /\ holder' = 0
    /\ UNCHANGED <<begun, keepRunning, thread, pipe, mail, signalled>>

Destroy ==
    /\ Game("destroy", "ready")
    /\ connection' = FALSE /\ up' = FALSE
    /\ UNCHANGED <<holders, thread, callbacks, mail, signalled>>

-----------------------------------------------------------------------------
(* The game's other calls. *)

UpdatePresence ==
    /\ Game("ready", "signal") /\ MayCall("presence")
    /\ presence' = [queued |-> TRUE, update |-> TRUE]
    /\ UNCHANGED <<holders, thread, pipe, copy, signalled>>

SignalIOActivity ==
    /\ Game("signal", "ready")
    /\ thread' = Notified
    /\ signalled' = (holder # 0)
    /\ UNCHANGED <<holders, pipe, mail>>

UpdateHandlers ==
    /\ Game("ready", "handlers") /\ MayCall("handlers")
    /\ UNCHANGED <<holders, thread, pipe, mail, signalled>>

HandlersUpdated ==
    /\ HandlerMutexFree
    /\ Game("handlers", "ready")
    /\ UNCHANGED <<holders, thread, pipe, mail, signalled>>

RunCallback ==
    /\ ~ Crashed /\ connection /\ HandlerMutexFree /\ game.pc = "ready"
    /\ game' = [game EXCEPT !.inCallback = TRUE]
    /\ UNCHANGED <<holders, thread, pipe, mail, signalled>>

CallbackReturns ==
    /\ ~ Crashed /\ game.inCallback /\ game.pc = "ready"
    /\ game' = [game EXCEPT !.inCallback = FALSE]
    /\ UNCHANGED <<holders, thread, pipe, mail, signalled>>

-----------------------------------------------------------------------------
(* An IO thread. *)

Update(l) ==
    /\ Thread(l, "update", IF connection THEN "pass" ELSE "check")
    /\ signalled' = FALSE
    /\ UNCHANGED <<holders, pipe, mail, game>>

\* READY arrives: onConnect is called if it is set.
Connects(l) ==
    /\ ~ up /\ up' = TRUE
    /\ Thread(l, "pass", IF "onConnect" \in callbacks THEN "connect" ELSE "check")
    /\ UNCHANGED <<holders, connection, callbacks, mail, signalled, game>>

CallConnect(l) ==
    /\ Thread(l, "connect", "onConnect")
    /\ UNCHANGED <<holders, pipe, mail, signalled, game>>

ConnectHandlers(l) ==
    /\ HandlerMutexFree
    /\ Thread(l, "onConnect", "look")
    /\ UNCHANGED <<holders, pipe, mail, signalled, game>>

ConnectPresence(l) ==
    /\ Thread(l, "look", IF presence.queued THEN "raise" ELSE "check")
    /\ UNCHANGED <<holders, pipe, mail, signalled, game>>

ConnectUpdate(l) ==
    /\ Thread(l, "raise", "signal")
    /\ presence' = [presence EXCEPT !.update = TRUE]
    /\ UNCHANGED <<holders, pipe, copy, signalled, game>>

ConnectSignal(l) ==
    /\ ~ Crashed /\ thread[l] = "signal"
    /\ thread' = [Notified EXCEPT ![l] = "check"]
    /\ signalled' = (holder # 0)
    /\ UNCHANGED <<holders, pipe, mail, game>>

\* Open comes to nothing; or everything has been read.
PassEnds(l) ==
    /\ Thread(l, "pass", IF up THEN "write" ELSE "check")
    /\ UNCHANGED <<holders, pipe, mail, signalled, game>>

\* RpcConnection::Close: onDisconnect is called if it is set, and only then is
\* the connection no longer up.
Close(l, from, calling, next) ==
    /\ IF "onDisconnect" \in callbacks
       THEN Thread(l, from, calling) /\ UNCHANGED up
       ELSE Thread(l, from, next) /\ up' = FALSE
    /\ UNCHANGED <<holders, connection, callbacks, mail, signalled, game>>

Disconnected(l) ==
    /\ \/ Thread(l, "lost", IF up THEN "write" ELSE "check")
       \/ Thread(l, "unsent", "requeue")
       \/ Thread(l, "undrained", "drain")
    /\ up' = FALSE
    /\ UNCHANGED <<holders, connection, callbacks, mail, signalled, game>>

\* Reading finds that the connection is lost, or what was only a handshake.
ConnectionLost(l) == Close(l, "pass", "lost", IF up THEN "write" ELSE "check")

\* The pointer that was not null is null when it is called.  (Nothing orders
\* the two: a build may also have kept the pointer that it has checked.)
CallNull(l) ==
    /\ \/ thread[l] = "connect" /\ "onConnect" \notin callbacks
       \/ thread[l] \in Closing /\ "onDisconnect" \notin callbacks
    /\ Thread(l, thread[l], "crashed")
    /\ UNCHANGED <<holders, pipe, mail, signalled, game>>

TakePresence(l) ==
    /\ Thread(l, "write", IF presence.update THEN "take" ELSE "drain")
    /\ presence' = [presence EXCEPT !.update = FALSE]
    /\ UNCHANGED <<holders, pipe, copy, signalled, game>>

HasPresence(l) ==
    /\ Thread(l, "take", IF presence.queued THEN "copy" ELSE "drain")
    /\ UNCHANGED <<holders, pipe, mail, signalled, game>>

CopyPresence(l) ==
    /\ Thread(l, "copy", "send")
    /\ copy' = [copy EXCEPT ![l] = presence.queued]
    /\ UNCHANGED <<holders, pipe, presence, signalled, game>>

SendPresence(l) ==
    /\ up /\ Thread(l, "send", "drain")
    /\ UNCHANGED <<holders, pipe, mail, signalled, game>>

SendFails(l) ==
    \/ up /\ Close(l, "send", "unsent", "requeue")
    \/ /\ ~ up /\ Thread(l, "send", "requeue")
       /\ UNCHANGED <<holders, pipe, mail, signalled, game>>

RequeuePresence(l) ==
    /\ Thread(l, "requeue", "drain")
    /\ presence' = [queued |-> copy[l], update |-> TRUE]
    /\ UNCHANGED <<holders, pipe, copy, signalled, game>>

\* SendQueue is written until it is empty, also after a write has failed.
DrainFails(l) == up /\ Close(l, "drain", "undrained", "drain")

DrainEnds(l) ==
    /\ Thread(l, "drain", "check")
    /\ UNCHANGED <<holders, pipe, mail, signalled, game>>

Check(l) ==
    /\ Thread(l, "check", IF keepRunning[l] THEN "enter" ELSE "ended")
    /\ UNCHANGED <<holders, pipe, mail, signalled, game>>

Wait(l) ==
    /\ Thread(l, "enter", "waiting")
    /\ UNCHANGED <<holders, pipe, mail, signalled, game>>

\* After 500 ms, or for no reason.
TimeOut_OnlyToStop(l) ==
    /\ ~ keepRunning[l]
    /\ Thread(l, "waiting", "update")
    /\ UNCHANGED <<holders, pipe, mail, signalled, game>>
TimeOut_Ends(l) ==
    /\ Thread(l, "waiting", "ended")
    /\ UNCHANGED <<holders, pipe, mail, signalled, game>>
TimeOut(l) ==
    /\ Thread(l, "waiting", "update")
    /\ UNCHANGED <<holders, pipe, mail, signalled, game>>

-----------------------------------------------------------------------------
Pass(l) ==
    \/ Update(l) \/ Connects(l) \/ CallConnect(l)
    \/ ConnectPresence(l) \/ ConnectUpdate(l) \/ ConnectSignal(l)
    \/ PassEnds(l) \/ ConnectionLost(l) \/ Disconnected(l) \/ CallNull(l)
    \/ TakePresence(l) \/ HasPresence(l) \/ CopyPresence(l) \/ SendPresence(l)
    \/ SendFails(l) \/ RequeuePresence(l) \/ DrainFails(l) \/ DrainEnds(l)
    \/ Check(l) \/ Wait(l) \/ TimeOut(l)

ProcessGone == Crashed /\ UNCHANGED vars

\* What the game has begun it goes on with.
GameGoesOn ==
    \/ InstallHandlers \/ Create \/ StartThread
    \/ Disarm \/ ForgetPresence \/ LowerUpdate \/ Stop \/ StopNotify \/ Join \/ Destroy
    \/ SignalIOActivity \/ HandlersUpdated

GameCalls == Initialize \/ Shutdown \/ UpdatePresence \/ UpdateHandlers \/ RunCallback

Next ==
    \/ GameCalls \/ GameGoesOn \/ CallbackReturns \/ ProcessGone
    \/ \E l \in Lives : Pass(l) \/ ConnectHandlers(l)

Spec == Init /\ [][Next]_vars

\* The threads run, and a callback of the game returns and does not hold
\* HandlerMutex whenever the IO thread happens to look.
FairSpec ==
    /\ Spec
    /\ WF_vars(GameGoesOn) /\ SF_vars(CallbackReturns)
    /\ \A l \in Lives : WF_vars(Pass(l)) /\ SF_vars(ConnectHandlers(l))

-----------------------------------------------------------------------------
(* Properties. *)

\* No thread uses a connection that Discord_Shutdown has destroyed or a
\* holder that it has deleted, and no session outlives the shutdown.
NoUseAfterDestroy ==
    /\ \A l \in Lives : /\ thread[l] \in InPass => connection
                        /\ thread[l] \in Alive => l \notin freed
    /\ up => connection

\* While the library is initialized exactly one thread serves it, the one
\* that IoThread stands for: Discord_Shutdown stops that one, SignalIOActivity
\* wakes it, and no second one uses the connection.
OneServes ==
    /\ \A l \in Lives : thread[l] \in Alive => l = holder
    /\ connection /\ game.pc = "ready" => thread[holder] \in Alive

\* The pointer that the connection checks is the one that it calls, unless
\* Discord_Shutdown is between clearing the two and the end of its join: at no
\* other time, in this life or the next, is a null pointer called.
NullCallOnlyAtShutdown ==
    Crashed => game.pc \in {"disarm", "forget", "lower", "stop", "notify", "join"}

\* Every call returns, above all Discord_Shutdown, which waits for a thread
\* that may have missed its wake-up or wait for HandlerMutex; unless the
\* process is gone.
CallsReturn == game.pc # "ready" ~> game.pc = "ready" \/ Crashed

\* After SignalIOActivity a pass begins, also when the thread was between its
\* last pass and the wait, unless the library is shut down before.
SignalIsServed == signalled ~> ~ signalled \/ callbacks # Callbacks
=============================================================================
