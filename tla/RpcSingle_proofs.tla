--------------------------- MODULE RpcSingle_proofs ---------------------------
(***************************************************************************)
(* The build without the IO thread, in which the game calls                *)
(* Discord_UpdateConnection itself: only one of the two is on its way at a *)
(* time, which makes NoStaleReply and BookEnded true.  With the thread     *)
(* both are false.  Fresh says of which session the queued replies are,    *)
(* Book what the game has been told, place by place, of what is pending.   *)
(***************************************************************************)
EXTENDS DiscordRpc_proofs

-----------------------------------------------------------------------------
(* Replies. *)

NoReplies(q) == \A k \in 1 .. Len(q) : q[k].cmd # "REPLY"
AllAsked(q, s) == \A k \in 1 .. Len(q) : q[k].cmd = "REPLY" => q[k].asked = s

\* Whenever the connection may begin a new session no reply is queued, and
\* every reply that is queued is of the session there is.
Fresh ==
    /\ ~ client.stale
    /\ AllAsked(sendq, session)
    /\ (status # "up" /\ io.pc \in {"wait", "update"}) \/ status = "handshaking"
           => NoReplies(sendq)
    /\ game.pc = "asked" => game.asked = session /\ status = "up"

LEMMA ThreadAlone ==
    ASSUME ~ Threaded
    PROVE  /\ UpdateConnection => game.pc = "idle" /\ game' = game
           /\ Callbacks \/ Calls => io.pc = "wait" /\ UNCHANGED <<connection, io>>
           /\ TimePasses \/ (\E m \in Messages : ClientSends(m))
                  => UNCHANGED <<session, client, io, flag, handlers, queues, game, shown, status>>
<1>1. ASSUME UpdateConnection PROVE game.pc = "idle" /\ game' = game
  <2>1. CASE Wake \/ NotYetDue \/ Connect \/ PollReady \/ OnConnectHandlers \/ OnConnectPresence
             \/ OnConnectAnnounce \/ OnDisconnect \/ Closed
    BY <2>1 DEF Wake, NotYetDue, Connect, PollReady, OnConnectHandlers, OnConnectPresence,
           OnConnectAnnounce, OnDisconnect, Closed, IO
  <2>2. CASE StartReading \/ ReadNothing \/ ReadFails \/ ReadSignal \/ RaiseSignal
             \/ ReadJoinRequest
    BY <2>2 DEF StartReading, ReadNothing, ReadFails, ReadSignal, RaiseSignal, ReadJoinRequest, IO
  <2>3. CASE TakePresence \/ CopyPresence \/ SendPresence \/ RequeuePresence
             \/ SendCommand \/ CommitCommand \/ UpdateDone
    BY <2>3 DEF TakePresence, CopyPresence, SendPresence, RequeuePresence, SendCommand,
           CommitCommand, UpdateDone, IO
  <2>. QED  BY <1>1, <2>1, <2>2, <2>3 DEF UpdateConnection
<1>2. ASSUME Callbacks PROVE io.pc = "wait" /\ UNCHANGED <<connection, io>>
  <2>1. CASE RunCallbacks \/ LookAtConnection \/ CallDisconnectedEarly \/ TakeConnected \/ CallReady
    BY <2>1 DEF RunCallbacks, LookAtConnection, CallDisconnectedEarly, TakeConnected, CallReady,
           Game
  <2>2. CASE TakeSignal \/ CallSignal \/ SignalsDone \/ TakeJoinRequest \/ CallJoinRequest
             \/ RequestsDone \/ CallDisconnectedLate
    BY <2>2 DEF TakeSignal, CallSignal, SignalsDone, TakeJoinRequest, CallJoinRequest,
           RequestsDone, CallDisconnectedLate, Game
  <2>. QED  BY <1>2, <2>1, <2>2 DEF Callbacks
<1>3. ASSUME Calls PROVE io.pc = "wait" /\ UNCHANGED <<connection, io>>
  BY <1>3 DEF Calls, SetPresence, Respond, QueueReply, ClearHandlers, QueueChange,
         InstallHandlers, SetHandlers, Game
<1>4. ASSUME TimePasses \/ (\E m \in Messages : ClientSends(m))
      PROVE  UNCHANGED <<session, client, io, flag, handlers, queues, game, shown, status>>
  BY <1>4 DEF TimePasses, ClientSends, Session!Arrive, connection, outside
<1>. QED  BY <1>1, <1>2, <1>3, <1>4

LEMMA EnqueuedReplies ==
    ASSUME NEW q \in Seq(Commands), Len(q) <= QueueSize, NEW new \in Seq(Commands)
    PROVE  /\ NoReplies(q) /\ NoReplies(new) => NoReplies(Enqueue(q, new))
           /\ \A s : AllAsked(q, s) /\ AllAsked(new, s) => AllAsked(Enqueue(q, new), s)
<1>1. PICK e : e = Enqueue(q, new)  OBVIOUS
<1>2. /\ \A i \in 1 .. Len(q) : e[i] = q[i]
      /\ \A i \in 1 .. Len(e) : i \in 1 .. Len(q) \/ \E j \in 1 .. Len(new) : e[i] = new[j]
  <2>1. /\ \A i \in 1 .. Len(q) : Enqueue(q, new)[i] = q[i]
        /\ \A i \in 1 .. Len(Enqueue(q, new)) :
               i \in 1 .. Len(q) \/ \E j \in 1 .. Len(new) : Enqueue(q, new)[i] = new[j]
    BY Enqueued
  <2>. QED  BY ONLY <1>1, <2>1
<1>3. \A i \in 1 .. Len(e) : (\E j \in 1 .. Len(q) : e[i] = q[j])
                                \/ \E j \in 1 .. Len(new) : e[i] = new[j]
  BY <1>2
<1>4. NoReplies(q) /\ NoReplies(new) => NoReplies(e)  BY <1>3 DEF NoReplies
<1>5. \A s : AllAsked(q, s) /\ AllAsked(new, s) => AllAsked(e, s)  BY <1>3 DEF AllAsked
<1>. QED  BY <1>1, <1>4, <1>5

LEMMA ChangeIsNoReply ==
    ASSUME NEW n \in 1 .. 3, NEW old, NEW new
    PROVE  NoReplies(Change(EventOrder[n], old, new))
<1>1. PICK e : e = EventOrder[n]  OBVIOUS
<1>2. PICK s, u : s = [cmd |-> "SUBSCRIBE", evt |-> e] /\ u = [cmd |-> "UNSUBSCRIBE", evt |-> e]
  OBVIOUS
<1>3. s.cmd # "REPLY" /\ u.cmd # "REPLY"  BY <1>2
<1>4. NoReplies(<< s >>) /\ NoReplies(<< u >>) /\ NoReplies(<< >>)  BY <1>3 DEF NoReplies
<1>. QED  BY <1>1, <1>2, <1>4 DEF Change

LEMMA JoinedNoReplies ==
    ASSUME NEW a \in Seq(Commands), NEW b \in Seq(Commands), NoReplies(a), NoReplies(b)
    PROVE  NoReplies(a \o b)
<1>1. PICK c : c = a \o b  OBVIOUS
<1>2. PICK n \in Nat, m \in Nat : n = Len(a) /\ m = Len(b)  BY LenProperties
<1>3. Len(c) = n + m /\ \A i \in 1 .. n + m : c[i] = IF i <= n THEN a[i] ELSE b[i - n]
  BY <1>1, <1>2, ConcatProperties
<1>4. ASSUME NEW i \in 1 .. Len(c) PROVE c[i].cmd # "REPLY"
  <2>1. CASE i <= n  BY <1>2, <1>3, <2>1 DEF NoReplies
  <2>2. CASE ~ i <= n
    <3>1. PICK j : j = i - n  OBVIOUS
    <3>2. j \in 1 .. m /\ c[i] = b[j]  BY <1>2, <1>3, <2>2, <3>1
    <3>. QED  BY <1>2, <3>2 DEF NoReplies
  <2>. QED  BY <2>1, <2>2
<1>. QED  BY <1>1, <1>4 DEF NoReplies

LEMMA ChangesAreNoReplies ==
    ASSUME NEW old, NEW new
    PROVE  NoReplies(Changes(old, new))
<1>1. 1 \in 1 .. 3 /\ 2 \in 1 .. 3 /\ 3 \in 1 .. 3  OBVIOUS
<1>2. PICK a, b, c :
          /\ a = Change(EventOrder[1], old, new) /\ b = Change(EventOrder[2], old, new)
          /\ c = Change(EventOrder[3], old, new)
  OBVIOUS
<1>3. a \in Seq(Commands) /\ b \in Seq(Commands) /\ c \in Seq(Commands)
  BY <1>1, <1>2, ChangeType
<1>4. NoReplies(a) /\ NoReplies(b) /\ NoReplies(c)  BY <1>1, <1>2, ChangeIsNoReply
<1>5. PICK ab : ab = a \o b  OBVIOUS
<1>6. ab \in Seq(Commands) /\ NoReplies(ab)  BY <1>3, <1>4, <1>5, ConcatProperties, JoinedNoReplies
<1>7. NoReplies(ab \o c)  BY <1>3, <1>4, <1>6, JoinedNoReplies
<1>8. Changes(old, new) = ab \o c  BY <1>2, <1>5 DEF Changes
<1>. QED  BY <1>7, <1>8

\* What is behind the first message is still queued.
LEMMA TailReplies ==
    ASSUME NEW q \in Seq(Commands), q # << >>
    PROVE  /\ NoReplies(q) => NoReplies(Tail(q))
           /\ \A s : AllAsked(q, s) => AllAsked(Tail(q), s)
<1>1. PICK t : t = Tail(q)  OBVIOUS
<1>2. PICK n \in Nat : n = Len(q)  BY LenProperties
<1>3. Len(t) = n - 1 /\ \A i \in 1 .. n - 1 : t[i] = q[i + 1]
  BY <1>1, <1>2, HeadTailProperties
<1>4. \A i \in 1 .. Len(t) : \E j \in 1 .. n : t[i] = q[j]
  <2>1. ASSUME NEW i \in 1 .. Len(t) PROVE \E j \in 1 .. n : t[i] = q[j]
    <3>1. PICK j : j = i + 1  OBVIOUS
    <3>2. j \in 1 .. n /\ t[i] = q[j]  BY <1>3, <2>1, <3>1
    <3>. QED  BY <3>2
  <2>. QED  BY <2>1
<1>5. NoReplies(q) => NoReplies(t)  BY <1>2, <1>4 DEF NoReplies
<1>6. \A s : AllAsked(q, s) => AllAsked(t, s)  BY <1>2, <1>4 DEF AllAsked
<1>. QED  BY <1>1, <1>5, <1>6

LEMMA FreshRests ==
    ASSUME Fresh, UNCHANGED <<client, session, sendq>>,
           status' # status => status' # "handshaking",
           (status' # "up" /\ io'.pc \in {"wait", "update"}) \/ status' = "handshaking"
               => (status # "up" /\ io.pc \in {"wait", "update"}) \/ status = "handshaking",
           game'.pc = "asked" => game' = game /\ status' = status
    PROVE  Fresh'
BY DEF Fresh, NoReplies, AllAsked

LEMMA UpdateConnectionFresh ==
    ASSUME ~ Threaded, RpcType, Standing, Fresh, UpdateConnection
    PROVE  Fresh'
<1>1. io \in IOs /\ QueueType /\ Found /\ client \in Clients /\ session \in 0 .. MaxSessions
  BY DEF RpcType, IOType, SessionType
<1>2. game.pc = "idle" /\ game' = game  BY ThreadAlone
<1>3. CASE Wake \/ NotYetDue \/ StartReading \/ ReadNothing \/ ReadSignal \/ RaiseSignal
           \/ ReadJoinRequest \/ ReadFails
  <2>1. /\ UNCHANGED <<client, session, sendq, status>>
        /\ (io.pc \in {"wait", "update"} \/ io'.pc \notin {"wait", "update"})
    BY <1>1, <1>3, IOMoves, IOCloses
       DEF Wake, NotYetDue, StartReading, ReadNothing, ReadSignal, RaiseSignal, ReadJoinRequest,
           ReadFails, IO, IOPlaces, Returns, connection, queues, Session!Deliver
  <2>. QED  BY <1>2, <2>1, FreshRests
<1>4. CASE Connect
  <2>1. io.pc = "update" /\ status = "down" /\ io'.pc = "wait" /\ sendq' = sendq
    BY <1>1, <1>4, IOMoves DEF Connect, IO, IOPlaces, queues
  <2>2. NoReplies(sendq)  BY <2>1 DEF Fresh
  <2>3. ~ client'.stale
    BY <1>4 DEF Connect, connection, NewClient, Fresh
  <2>. QED  BY <1>2, <2>1, <2>2, <2>3 DEF Fresh, NoReplies, AllAsked
<1>5. CASE PollReady
  <2>1. io.pc = "update" /\ status = "handshaking" /\ UNCHANGED <<client, session, sendq>>
        /\ status' \in {status, "up"}
    BY <1>5 DEF PollReady, IO, queues, connection, Session!Ignore, Session!BecomeUp
  <2>. QED  BY <1>2, <2>1, FreshRests
<1>6. CASE OnConnectHandlers
  <2>1. PICK new : new = Changes(handlers, InitialHandlers)  OBVIOUS
  <2>2. new \in Seq(Commands) /\ NoReplies(new)  BY <2>1, ChangesType, ChangesAreNoReplies
  <2>3. sendq' = Enqueue(sendq, new) /\ UNCHANGED <<client, session, status>> /\ status = "up"
    BY <1>6, <2>1 DEF OnConnectHandlers, UpdateHandlers, connection, IO, Standing
  <2>4. AllAsked(new, session)  BY <2>2 DEF NoReplies, AllAsked
  <2>5. AllAsked(sendq', session)
    BY <1>1, <2>2, <2>3, <2>4, EnqueuedReplies DEF QueueType, Fresh
  <2>. QED  BY <1>2, <2>3, <2>5 DEF Fresh
<1>7. CASE OnConnectPresence \/ OnConnectAnnounce \/ OnDisconnect
  <2>1. UNCHANGED <<client, session, status, sendq>> /\ io'.pc \in {"announce", "closed", "wait"}
        /\ (io'.pc = "wait" => status = "up")
    BY <1>1, <1>7, IOMoves
       DEF OnConnectPresence, OnConnectAnnounce, OnDisconnect, IO, IOPlaces, connection, queues,
           Standing
  <2>. QED  BY <1>2, <2>1, FreshRests
<1>8. CASE Closed
  <2>1. io.pc = "closed" /\ io.return \in IOPlaces /\ io.return \in Returns
    BY <1>1, <1>8 DEF Closed, IO, IOs, Returns, IOPlaces
  <2>2. io'.pc = io.return  BY <1>1, <1>8, <2>1, IOMoves DEF Closed
  <2>3. status' = "down" /\ UNCHANGED <<client, session, sendq>>
    BY <1>8 DEF Closed, Session!End, queues
  <2>4. io'.pc \in {"wait", "update"} => status = "handshaking"
    BY <2>1, <2>2 DEF Standing, Returns
  <2>. QED  BY <1>2, <2>3, <2>4, FreshRests
<1>9. CASE TakePresence \/ CopyPresence \/ RequeuePresence
  <2>1. UNCHANGED <<client, session, status, sendq>> /\ io'.pc \in {"copy", "drain", "send"}
    BY <1>1, <1>9, IOMoves
       DEF TakePresence, CopyPresence, RequeuePresence, IOPlaces, IOs, connection, queues
  <2>. QED  BY <1>2, <2>1, FreshRests
<1>10. CASE SendPresence
  <2>1. UNCHANGED <<session, status, sendq>> /\ io'.pc \in {"drain", "closing", "requeue"}
    BY <1>1, <1>10, IOMoves, IOCloses DEF SendPresence, IOPlaces, Returns, queues
  <2>2. client'.stale = client.stale  BY <1>1, <1>10 DEF SendPresence, Clients
  <2>. QED  BY <1>2, <2>1, <2>2 DEF Fresh
<1>11. CASE SendCommand
  <2>1. UNCHANGED <<session, status, sendq>> /\ io'.pc \in {"commit", "closing"} /\ sendq # << >>
    BY <1>1, <1>11, IOMoves, IOCloses DEF SendCommand, IOPlaces, Returns, queues
  <2>2. ~ client'.stale
    <3>1. CASE client' = client  BY <3>1 DEF Fresh
    <3>2. CASE Receives(Head(sendq))
      <4>1. PICK c : c = Head(sendq)  OBVIOUS
      <4>2. c \in Commands /\ c = sendq[1] /\ 1 \in 1 .. Len(sendq)
        BY <1>1, <2>1, <4>1, HeadTailProperties, LenProperties, EmptySeq DEF QueueType
      <4>3. c.cmd = "REPLY" => c.asked = session  BY <4>2 DEF Fresh, AllAsked
      <4>4. c.cmd \in {"SUBSCRIBE", "UNSUBSCRIBE", "REPLY"}  BY <4>2 DEF Commands
      <4>. QED  BY <1>1, <3>2, <4>1, <4>3, <4>4 DEF Receives, Clients, Fresh
    <3>. QED  BY <1>11, <3>1, <3>2 DEF SendCommand
  <2>. QED  BY <1>2, <2>1, <2>2 DEF Fresh
<1>12. CASE CommitCommand
  <2>1. sendq # << >> /\ sendq' = Tail(sendq) /\ UNCHANGED <<client, session, status>>
        /\ io'.pc = "drain"
    BY <1>1, <1>12, IOMoves DEF CommitCommand, Found, IO, IOPlaces, connection
  <2>2. (NoReplies(sendq) => NoReplies(sendq')) /\ (AllAsked(sendq, session) => AllAsked(sendq', session))
    BY <1>1, <2>1, TailReplies DEF QueueType
  <2>. QED  BY <1>2, <2>1, <2>2 DEF Fresh
<1>13. CASE UpdateDone
  <2>1. UNCHANGED <<client, session, status, sendq>> /\ sendq = << >>
    BY <1>13 DEF UpdateDone, connection, queues
  <2>2. NoReplies(sendq') /\ AllAsked(sendq', session')  BY <2>1 DEF NoReplies, AllAsked
  <2>. QED  BY <1>2, <2>1, <2>2 DEF Fresh
<1>. QED
  BY <1>3, <1>4, <1>5, <1>6, <1>7, <1>8, <1>9, <1>10, <1>11, <1>12, <1>13 DEF UpdateConnection

LEMMA CallsFresh ==
    ASSUME ~ Threaded, RpcType, Fresh, Calls
    PROVE  Fresh'
<1>1. io.pc = "wait" /\ UNCHANGED <<io, client, session, status>>
  BY ThreadAlone DEF connection
<1>2. game \in Games /\ QueueType /\ game.next \in 1 .. 4
  BY DEF RpcType, GameType, Games
<1>3. ASSUME UNCHANGED sendq, game'.pc # "asked" \/ game' = game PROVE Fresh'
  BY <1>1, <1>3, FreshRests
<1>4. CASE \/ \E p \in Presences : SetPresence(p)
           \/ \E new \in HandlerChoices : SetHandlers(new)
           \/ ClearHandlers
  BY <1>2, <1>3, <1>4 DEF SetPresence, SetHandlers, ClearHandlers, Games, queues
<1>5. CASE InstallHandlers
  BY <1>2, <1>3, <1>5 DEF InstallHandlers, Games, queues
<1>6. CASE Respond
  <2>1. game'.asked = session /\ status = "up" /\ sendq' = sendq
    BY <1>2, <1>6 DEF Respond, Games, queues
  <2>. QED  BY <1>1, <2>1 DEF Fresh
<1>7. CASE QueueReply
  <2>1. game.pc = "asked" /\ game'.pc = "idle"
    BY <1>2, <1>7, FirstValues DEF QueueReply, Game, Games
  <2>2. PICK c : c = [cmd |-> "REPLY", asked |-> game.asked]  OBVIOUS
  <2>3. c \in Commands /\ c.asked = session  BY <1>2, <2>1, <2>2 DEF Commands, Games, Fresh
  <2>4. PICK new : new = << c >>  OBVIOUS
  <2>5. new \in Seq(Commands) /\ AllAsked(new, session)  BY <2>3, <2>4 DEF AllAsked
  <2>6. sendq' = Enqueue(sendq, new)  BY <1>7, <2>2, <2>4 DEF QueueReply
  <2>7. AllAsked(sendq', session)
    BY <1>2, <2>5, <2>6, EnqueuedReplies DEF QueueType, Fresh
  <2>. QED  BY <1>1, <2>1, <2>7 DEF Fresh
<1>8. CASE QueueChange
  <2>1. game.pc = "handlers" /\ game'.pc = "handlers" /\ game.next \in 1 .. 3
    BY <1>2, <1>8 DEF QueueChange, Game, Games
  <2>2. PICK new : new = Change(EventOrder[game.next], handlers, game.new)  OBVIOUS
  <2>3. new \in Seq(Commands) /\ NoReplies(new)  BY <2>1, <2>2, ChangeType, ChangeIsNoReply
  <2>4. sendq' = Enqueue(sendq, new)  BY <1>8, <2>2 DEF QueueChange
  <2>5. AllAsked(new, session)  BY <2>3 DEF NoReplies, AllAsked
  <2>6. /\ AllAsked(sendq', session)
        /\ NoReplies(sendq) => NoReplies(sendq')
    BY <1>2, <2>3, <2>4, <2>5, EnqueuedReplies DEF QueueType, Fresh
  <2>. QED  BY <1>1, <2>1, <2>6 DEF Fresh
<1>. QED  BY <1>4, <1>5, <1>6, <1>7, <1>8 DEF Calls

LEMMA OthersFresh ==
    ASSUME ~ Threaded, RpcType, Fresh,
           Callbacks \/ TimePasses \/ \E m \in Messages : ClientSends(m)
    PROVE  Fresh'
<1>1. game \in Games  BY DEF RpcType, GameType
<1>2. CASE Callbacks
  <2>1. UNCHANGED <<io, client, session, status>>  BY <1>2, ThreadAlone DEF connection
  <2>2. sendq' = sendq
    BY <1>2 DEF Callbacks, RunCallbacks, LookAtConnection, CallDisconnectedEarly, TakeConnected,
       CallReady, TakeSignal, CallSignal, SignalsDone, TakeJoinRequest, CallJoinRequest,
       RequestsDone, CallDisconnectedLate, queues
  <2>3. game'.pc # "asked"
    <3>1. CASE RunCallbacks \/ LookAtConnection \/ CallSignal \/ CallDisconnectedLate
      BY <1>1, <3>1 DEF RunCallbacks, LookAtConnection, CallSignal, CallDisconnectedLate, Games
    <3>2. CASE TakeSignal \/ SignalsDone
      BY <1>1, <3>2 DEF TakeSignal, SignalsDone, Game, Games
    <3>3. CASE CallDisconnectedEarly \/ TakeConnected \/ CallReady \/ TakeJoinRequest
               \/ CallJoinRequest \/ RequestsDone
      BY <1>1, <3>3, GameMoves
         DEF CallDisconnectedEarly, TakeConnected, CallReady, TakeJoinRequest,
             CallJoinRequest, RequestsDone, GamePlaces
    <3>. QED  BY <1>2, <3>1, <3>2, <3>3 DEF Callbacks
  <2>. QED  BY <2>1, <2>2, <2>3, FreshRests
<1>3. CASE TimePasses \/ \E m \in Messages : ClientSends(m)
  <2>1. UNCHANGED <<session, client, io, queues, game, status>>  BY <1>3, ThreadAlone
  <2>. QED  BY <2>1, FreshRests DEF queues
<1>. QED  BY <1>2, <1>3

LEMMA FreshInitially == Init => Fresh
BY DEF Init, Session!Init, NewClient, Fresh, NoReplies, AllAsked

LEMMA FreshStep == ~ Threaded /\ RpcType /\ Standing /\ Fresh /\ [Next]_vars => Fresh'
<1>. SUFFICES ASSUME ~ Threaded, RpcType, Standing, Fresh, [Next]_vars PROVE Fresh'  OBVIOUS
<1>1. CASE UNCHANGED vars
  BY <1>1, FreshRests DEF vars, connection, queues
<1>. QED  BY <1>1, UpdateConnectionFresh, CallsFresh, OthersFresh DEF Next

\* Without the IO thread no reply reaches the client in a later session than
\* the one in which it was given: Discord_Respond finds the connection open,
\* and what it queues is sent, or dropped, before another session begins.
\* With the thread this is false.
THEOREM NoReplyIsStale == ~ Threaded => (Spec => []NoStaleReply)
<1>. SUFFICES ASSUME ~ Threaded PROVE Spec => []NoStaleReply  OBVIOUS
<1>1. RpcType /\ Standing /\ Fresh /\ [Next]_vars => Fresh'  BY FreshStep
<1>2. Fresh => NoStaleReply  BY DEF Fresh, NoStaleReply
<1>. QED  BY <1>1, <1>2, FreshInitially, RpcTypeInvariant, StandingInvariant, PTL DEF Spec

-----------------------------------------------------------------------------
(* Events between ready and disconnected. *)

Pending == joinq # << >> \/ \E s \in Signals : flag[s]
Told == shown = "ready"
ToldOrAnnounced == flag["connected"] \/ Told
Established == status = "up" /\ io.pc \notin {"subscribe", "resend", "announce"}

\* Whoever is about to be told of a connection has a handler for it.
ReadyIsHeard ==
    /\ flag["connected"] \/ io.pc \in {"resend", "announce"} => "ready" \in handlers
    /\ game.pc = "callReady" => "ready" \in handlers

\* The game never gives up its ready handler, once it has one.
KeepsReady == "ready" \in handlers => "ready" \in handlers'

\* Before Discord_RunCallbacks looks at the connection: what is pending, and
\* a connection that is up, was announced or has been told of, and whoever
\* still has to be told of a disconnect will then be told of a connect.
BeforeCallbacks ==
    /\ Pending \/ Established => ToldOrAnnounced
    /\ Established /\ io.pc # "closed" /\ (flag["disconnected"] \/ game.wasDisconnected)
           => flag["connected"]

CallbackPlaces ==
    {"ready", "callReady", "signal", "callSignal", "requests", "callRequest", "late"}

\* Within Discord_RunCallbacks: its view of the connection is the connection,
\* nothing is pending or up unless the game was told ready, and the signals
\* it has passed are lowered.
WithinCallbacks ==
    /\ game.pc \in {"isConnected", "early"} \cup CallbackPlaces => ~ flag["disconnected"]
    /\ game.pc \in {"early"} \cup CallbackPlaces => (game.isConnected <=> status = "up")
    /\ game.pc = "ready" => (Pending \/ game.isConnected => ToldOrAnnounced)
    /\ game.pc \in {"signal", "requests", "late"} => (Pending \/ game.isConnected => Told)
    /\ game.pc \in {"callSignal", "callRequest"} => Told
    /\ game.pc = "signal" => \A k \in 1 .. 3 : k < game.next => ~ flag[SignalOrder[k]]
    /\ game.pc = "callSignal" => \A k \in 1 .. 3 : k <= game.next => ~ flag[SignalOrder[k]]
    /\ game.pc \in {"requests", "callRequest", "late"} => \A s \in Signals : ~ flag[s]
    /\ game.pc = "late" => joinq = << >>

Book ==
    /\ ReadyIsHeard
    /\ game.pc \notin {"signal", "callSignal", "handlers"} => game.next = 1
    /\ game.pc \in {"idle", "asked", "handlers"} => ~ game.wasDisconnected
    /\ game.pc \in {"idle", "asked", "handlers", "isConnected", "early"} => BeforeCallbacks
    /\ WithinCallbacks

LEMMA BookInitially == Init => Book
BY DEF Init, Session!Init, Book, ReadyIsHeard, BeforeCallbacks, WithinCallbacks, Pending,
       Established, CallbackPlaces, Flags, Signals

\* While the IO thread is on its way the game is idle: all there is to see to
\* is what comes before the callbacks.
LEMMA BookWhenIdle ==
    ASSUME game.pc = "idle", game' = game
    PROVE  /\ Book => ReadyIsHeard /\ BeforeCallbacks /\ game.next = 1 /\ ~ game.wasDisconnected
           /\ Book /\ ReadyIsHeard' /\ BeforeCallbacks' => Book'
BY DEF Book, WithinCallbacks, CallbackPlaces

\* A step of the IO thread that changes none of the flags, the handlers and
\* the queue, and establishes nothing.
LEMMA BookRests ==
    ASSUME Book, game.pc = "idle", game' = game, UNCHANGED <<handlers, joinq, shown>>,
           \A f \in Flags : f # "presence" => flag'[f] = flag[f],
           Established' => Established,
           io.pc = "closed" => io'.pc = "closed" \/ ~ Established',
           io'.pc \in {"resend", "announce"} => io.pc \in {"resend", "announce"}
    PROVE  Book'
<1>1. /\ flag'["connected"] = flag["connected"] /\ flag'["disconnected"] = flag["disconnected"]
      /\ \A s \in Signals : flag'[s] = flag[s]
  BY DEF Flags, Signals
<1>2. ReadyIsHeard'  BY <1>1, BookWhenIdle DEF ReadyIsHeard
<1>3. Pending' = Pending /\ ToldOrAnnounced' = ToldOrAnnounced
  BY <1>1 DEF Pending, ToldOrAnnounced, Told
<1>4. BeforeCallbacks'  BY <1>1, <1>3, BookWhenIdle DEF BeforeCallbacks
<1>. QED  BY <1>2, <1>4, BookWhenIdle

LEMMA UpdateConnectionBook ==
    ASSUME ~ Threaded, "ready" \in InitialHandlers, RpcType, Standing, Book, UpdateConnection
    PROVE  Book'
<1>1. io \in IOs /\ FlagType /\ Found  BY DEF RpcType, IOType
<1>2. game.pc = "idle" /\ game' = game  BY ThreadAlone
<1>3. ReadyIsHeard /\ BeforeCallbacks /\ game.next = 1 /\ ~ game.wasDisconnected
  BY <1>2, BookWhenIdle
<1>4. CASE Wake \/ NotYetDue \/ StartReading \/ ReadNothing \/ ReadSignal \/ CopyPresence
           \/ CommitCommand \/ UpdateDone
  <2>1. /\ UNCHANGED <<handlers, joinq, shown, flag, status>>
        /\ io.pc \notin {"closed", "subscribe", "resend", "announce"}
        /\ io'.pc \notin {"resend", "announce"}
    BY <1>1, <1>4, IOMoves
       DEF Wake, NotYetDue, StartReading, ReadNothing, ReadSignal, CopyPresence, CommitCommand,
           UpdateDone, IO, IOs, IOPlaces, connection, queues, outside, Session!Deliver
  <2>. QED  BY <1>2, <2>1, BookRests DEF Established
<1>5. CASE ReadFails \/ SendPresence \/ SendCommand
  <2>1. /\ UNCHANGED <<handlers, joinq, shown, flag, status>>
        /\ io.pc \notin {"closed", "subscribe", "resend", "announce"}
        /\ io'.pc \notin {"resend", "announce"}
    BY <1>1, <1>5, IOMoves, IOCloses
       DEF ReadFails, SendPresence, SendCommand, IO, IOPlaces, Returns, connection, queues, outside
  <2>. QED  BY <1>2, <2>1, BookRests DEF Established
<1>6. CASE Connect
  <2>1. /\ UNCHANGED <<handlers, joinq, shown, flag>> /\ status' # "up"
        /\ io.pc = "update" /\ io'.pc = "wait"
    BY <1>1, <1>6, IOMoves
       DEF Connect, IO, IOPlaces, connection, queues, outside, Session!Begin
  <2>. QED  BY <1>2, <2>1, BookRests DEF Established
<1>7. CASE PollReady
  <2>1. UNCHANGED <<handlers, joinq, shown, flag>> /\ io.pc = "update" /\ status = "handshaking"
    BY <1>7 DEF PollReady, IO, queues, outside
  <2>2. io'.pc \in {"wait", "subscribe", "closing"} /\ (status' = "up" => io'.pc = "subscribe")
    BY <1>1, <1>7, IOMoves, IOCloses
       DEF PollReady, IOPlaces, Returns, connection, Session!Ignore, Session!BecomeUp
  <2>. QED  BY <1>2, <2>1, <2>2, BookRests DEF Established
<1>8. CASE OnConnectHandlers
  <2>1. /\ handlers' = InitialHandlers /\ io'.pc = "resend"
        /\ UNCHANGED <<joinq, flag, shown>>
    BY <1>1, <1>8, IOMoves DEF OnConnectHandlers, UpdateHandlers, IOPlaces, outside
  <2>2. ReadyIsHeard'  BY <1>2, <2>1 DEF ReadyIsHeard
  <2>3. BeforeCallbacks'
    BY <1>3, <2>1 DEF BeforeCallbacks, Established, Pending, ToldOrAnnounced, Told
  <2>. QED  BY <1>2, <2>2, <2>3, BookWhenIdle
<1>9. CASE OnConnectPresence
  <2>1. /\ UNCHANGED <<handlers, joinq, shown, status>> /\ io.pc = "resend" /\ io'.pc = "announce"
    BY <1>1, <1>9, IOMoves DEF OnConnectPresence, IO, IOPlaces, connection, queues, outside
  <2>2. \A f \in Flags : f # "presence" => flag'[f] = flag[f]
    BY <1>1, <1>9, FlagRaised, FlagsAre DEF OnConnectPresence
  <2>. QED  BY <1>2, <2>1, <2>2, BookRests DEF Established
<1>10. CASE OnConnectAnnounce
  <2>1. /\ UNCHANGED <<handlers, joinq, shown, status>> /\ io.pc = "announce" /\ io'.pc = "wait"
    BY <1>1, <1>10, IOMoves DEF OnConnectAnnounce, IO, IOPlaces, connection, queues, outside
  <2>2. flag'["connected"]  BY <1>1, <1>10, FlagRaised, FlagsAre DEF OnConnectAnnounce
  <2>3. ReadyIsHeard'  BY <1>2, <1>3, <2>1 DEF ReadyIsHeard
  <2>4. BeforeCallbacks'  BY <2>2 DEF BeforeCallbacks, ToldOrAnnounced
  <2>. QED  BY <1>2, <2>3, <2>4, BookWhenIdle
<1>11. CASE OnDisconnect
  <2>1. /\ UNCHANGED <<handlers, joinq, shown, status>> /\ io.pc = "closing" /\ io'.pc = "closed"
    BY <1>1, <1>11, IOMoves DEF OnDisconnect, IO, IOPlaces, connection, queues, outside
  <2>2. \A f \in Flags : f # "disconnected" => flag'[f] = flag[f]
    BY <1>1, <1>11, FlagRaised, FlagsAre DEF OnDisconnect
  <2>3. flag'["connected"] = flag["connected"] /\ \A s \in Signals : flag'[s] = flag[s]
    BY <2>2 DEF Flags, Signals
  <2>4. ReadyIsHeard'  BY <1>2, <1>3, <2>1, <2>3 DEF ReadyIsHeard
  <2>5. BeforeCallbacks'
    BY <1>3, <2>1, <2>3 DEF BeforeCallbacks, Pending, Established, ToldOrAnnounced, Told
  <2>. QED  BY <1>2, <2>4, <2>5, BookWhenIdle
<1>12. CASE Closed
  <2>1. io.return \in IOPlaces /\ io.return \in Returns  BY <1>1 DEF IOs, Returns, IOPlaces
  <2>2. io'.pc = io.return  BY <1>1, <1>12, <2>1, IOMoves DEF Closed
  <2>3. status' = "down" /\ UNCHANGED <<handlers, joinq, shown, flag>>
    BY <1>12 DEF Closed, Session!End, queues, outside
  <2>. QED  BY <1>2, <2>1, <2>2, <2>3, BookRests DEF Established, Returns
<1>13. CASE RaiseSignal \/ ReadJoinRequest
  <2>1. /\ UNCHANGED <<handlers, shown, status>> /\ status = "up" /\ io.pc \in {"raise", "read"}
        /\ io'.pc = "read"
    BY <1>1, <1>13, IOMoves
       DEF RaiseSignal, ReadJoinRequest, IO, IOPlaces, connection, queues, outside, Standing,
           Session!Deliver
  <2>2. flag'["connected"] = flag["connected"] /\ flag'["disconnected"] = flag["disconnected"]
    <3>1. CASE RaiseSignal
      <4>1. Raise(got.kind) /\ got.kind \in Signals /\ got.kind \in Flags
        BY <1>1, <3>1 DEF RaiseSignal, IO, Found, Flags
      <4>2. got.kind # "connected" /\ got.kind # "disconnected"  BY <4>1 DEF Signals
      <4>. QED  BY <1>1, <4>1, <4>2, FlagRaised, FlagsAre
    <3>2. CASE ReadJoinRequest  BY <3>2 DEF ReadJoinRequest
    <3>. QED  BY <1>13, <3>1, <3>2
  <2>3. ToldOrAnnounced  BY <1>3, <2>1 DEF BeforeCallbacks, Established
  <2>4. ToldOrAnnounced'  BY <2>1, <2>2, <2>3 DEF ToldOrAnnounced, Told
  <2>5. ReadyIsHeard'  BY <1>2, <1>3, <2>1, <2>2 DEF ReadyIsHeard
  <2>6. BeforeCallbacks'
    BY <1>2, <1>3, <2>1, <2>2, <2>4 DEF BeforeCallbacks, Established
  <2>. QED  BY <1>2, <2>5, <2>6, BookWhenIdle
<1>14. CASE TakePresence \/ RequeuePresence
  <2>1. /\ UNCHANGED <<handlers, joinq, shown, status>> /\ io.pc \in {"write", "requeue"}
        /\ io'.pc \in {"copy", "drain"}
    BY <1>1, <1>14, IOMoves
       DEF TakePresence, RequeuePresence, IO, IOPlaces, connection, queues, outside
  <2>2. \A f \in Flags : f # "presence" => flag'[f] = flag[f]
    BY <1>1, <1>14, FlagRaised, FlagLowered, FlagsAre DEF TakePresence, RequeuePresence
  <2>. QED  BY <1>2, <2>1, <2>2, BookRests DEF Established
<1>. QED
  BY <1>4, <1>5, <1>6, <1>7, <1>8, <1>9, <1>10, <1>11, <1>12, <1>13, <1>14 DEF UpdateConnection

\* The game's other calls: none of them touches what a callback goes by, but
\* the handlers.
LEMMA CallsBook ==
    ASSUME ~ Threaded, RpcType, Book, Calls, KeepsReady
    PROVE  Book'
<1>1. io.pc = "wait" /\ UNCHANGED <<io, status>>  BY ThreadAlone DEF connection
<1>2. game \in Games /\ FlagType  BY DEF RpcType, GameType
<1>3. DEFINE Between == {"idle", "asked", "handlers"}
<1>4. /\ game.pc \in Between /\ game'.pc \in Between
      /\ game'.pc # "handlers" => game'.next = game.next \/ game'.next = 1
      /\ game'.pc # "handlers" /\ game.pc = "handlers" => game'.next = 1
      /\ game'.wasDisconnected = game.wasDisconnected
      /\ UNCHANGED <<joinq, shown>>
      /\ \A f \in Flags : f # "presence" => flag'[f] = flag[f]
  <2>1. CASE \E p \in Presences : SetPresence(p)
    <3>1. game.pc = "idle" /\ game' = game /\ UNCHANGED <<joinq, shown>> /\ Raise("presence")
      BY <2>1 DEF SetPresence, Game, queues
    <3>. QED  BY <1>2, <3>1, FlagRaised, FlagsAre
  <2>2. CASE Respond \/ QueueReply
    BY <1>2, <2>2 DEF Respond, QueueReply, Game, Games, queues, outside
  <2>3. CASE \E new \in HandlerChoices : SetHandlers(new)
    BY <1>2, <2>3 DEF SetHandlers, Game, Games, queues
  <2>4. CASE ClearHandlers
    BY <1>2, <2>4 DEF ClearHandlers, Game, queues
  <2>5. CASE QueueChange
    BY <1>2, <2>5 DEF QueueChange, Game, Games, outside
  <2>6. CASE InstallHandlers
    BY <1>2, <2>6 DEF InstallHandlers, Game, Games, queues, outside
  <2>. QED  BY <2>1, <2>2, <2>3, <2>4, <2>5, <2>6 DEF Calls
<1>5. /\ flag'["connected"] = flag["connected"] /\ flag'["disconnected"] = flag["disconnected"]
      /\ \A s \in Signals : flag'[s] = flag[s]
  BY <1>4 DEF Flags, Signals
<1>6. ReadyIsHeard'  BY <1>1, <1>4, <1>5 DEF Book, ReadyIsHeard, KeepsReady
<1>7. BeforeCallbacks'
  <2>1. BeforeCallbacks  BY <1>4 DEF Book
  <2>2. Pending' = Pending /\ ToldOrAnnounced' = ToldOrAnnounced /\ Established' = Established
    BY <1>1, <1>4, <1>5 DEF Pending, ToldOrAnnounced, Told, Established
  <2>. QED  BY <1>1, <1>4, <1>5, <2>1, <2>2 DEF BeforeCallbacks
<1>8. WithinCallbacks'  BY <1>4 DEF WithinCallbacks, CallbackPlaces
<1>9. game'.pc # "handlers" => game'.next = 1  BY <1>4 DEF Book
<1>10. ~ game'.wasDisconnected  BY <1>4 DEF Book
<1>. QED  BY <1>4, <1>6, <1>7, <1>8, <1>9, <1>10 DEF Book

\* From the look at the connection to the callback of a connect.
LEMMA FirstCallbacksBook ==
    ASSUME ~ Threaded, RpcType, Book,
           RunCallbacks \/ LookAtConnection \/ CallDisconnectedEarly \/ TakeConnected \/ CallReady
    PROVE  Book'
<1>1. io.pc = "wait" /\ UNCHANGED <<io, status>>  BY ThreadAlone DEF connection, Callbacks
<1>2. game \in Games /\ FlagType  BY DEF RpcType, GameType
<1>3. UNCHANGED <<handlers, joinq>>
  BY DEF RunCallbacks, LookAtConnection, CallDisconnectedEarly, TakeConnected, CallReady, queues
<1>4. ReadyIsHeard  BY DEF Book
<1>5. CASE RunCallbacks
  <2>1. /\ game.pc = "idle" /\ game'.pc = "isConnected" /\ game'.next = game.next
        /\ game'.wasDisconnected = flag["disconnected"] /\ shown' = shown
    BY <1>2, <1>5 DEF RunCallbacks, Game, Games, outside
  <2>2. ~ flag'["disconnected"] /\ \A f \in Flags : f # "disconnected" => flag'[f] = flag[f]
    BY <1>2, <1>5, FlagLowered, FlagsAre DEF RunCallbacks
  <2>3. flag'["connected"] = flag["connected"] /\ \A s \in Signals : flag'[s] = flag[s]
    BY <2>2 DEF Flags, Signals
  <2>4. BeforeCallbacks /\ game.next = 1  BY <2>1 DEF Book
  <2>5. BeforeCallbacks'
    BY <1>1, <1>3, <2>1, <2>2, <2>3, <2>4
       DEF BeforeCallbacks, Established, Pending, ToldOrAnnounced, Told
  <2>6. WithinCallbacks'  BY <2>1, <2>2 DEF WithinCallbacks, CallbackPlaces
  <2>7. ReadyIsHeard'  BY <1>1, <1>3, <1>4, <2>1, <2>3 DEF ReadyIsHeard
  <2>. QED  BY <2>1, <2>4, <2>5, <2>6, <2>7 DEF Book
<1>6. CASE LookAtConnection
  <2>1. /\ game.pc = "isConnected" /\ game'.pc = "early" /\ game'.next = game.next
        /\ game'.wasDisconnected = game.wasDisconnected
        /\ game'.isConnected = (status = "up") /\ UNCHANGED <<flag, shown>>
    BY <1>2, <1>6 DEF LookAtConnection, Game, Games, outside
  <2>2. BeforeCallbacks /\ game.next = 1 /\ ~ flag["disconnected"]
    BY <2>1 DEF Book, WithinCallbacks
  <2>3. BeforeCallbacks'
    BY <1>1, <1>3, <2>1, <2>2 DEF BeforeCallbacks, Established, Pending, ToldOrAnnounced, Told
  <2>4. WithinCallbacks'  BY <1>1, <2>1, <2>2 DEF WithinCallbacks, CallbackPlaces
  <2>5. ReadyIsHeard'  BY <1>1, <1>3, <1>4, <2>1 DEF ReadyIsHeard
  <2>. QED  BY <2>1, <2>2, <2>3, <2>4, <2>5 DEF Book
<1>7. CASE CallDisconnectedEarly
  <2>1. /\ game.pc = "early" /\ game'.pc = "ready" /\ game'.next = game.next
        /\ game'.isConnected = game.isConnected /\ flag' = flag
    BY <1>2, <1>7, GameMoves DEF CallDisconnectedEarly, Game, GamePlaces
  <2>2. BeforeCallbacks /\ game.next = 1 /\ ~ flag["disconnected"]
        /\ (game.isConnected <=> status = "up")
    BY <2>1 DEF Book, WithinCallbacks
  <2>3. shown' = shown \/ (status = "up" /\ game.wasDisconnected)
    BY <1>7, <2>2 DEF CallDisconnectedEarly, TellDisconnected
  <2>4. Pending \/ status = "up" => ToldOrAnnounced'
    BY <1>1, <2>1, <2>2, <2>3 DEF BeforeCallbacks, Established, ToldOrAnnounced, Told
  <2>5. WithinCallbacks'
    BY <1>1, <1>3, <2>1, <2>2, <2>4 DEF WithinCallbacks, CallbackPlaces, Pending
  <2>6. ReadyIsHeard'  BY <1>1, <1>3, <1>4, <2>1 DEF ReadyIsHeard
  <2>. QED  BY <2>1, <2>2, <2>5, <2>6 DEF Book
<1>8. CASE TakeConnected
  <2>1. /\ game.pc = "ready" /\ game'.pc = (IF flag["connected"] THEN "callReady" ELSE "signal")
        /\ game'.next = game.next /\ game'.isConnected = game.isConnected /\ shown' = shown
    BY <1>2, <1>8, GameMoves DEF TakeConnected, Game, GamePlaces, outside
  <2>2. ~ flag'["connected"] /\ \A f \in Flags : f # "connected" => flag'[f] = flag[f]
    BY <1>2, <1>8, FlagLowered, FlagsAre DEF TakeConnected
  <2>3. flag'["disconnected"] = flag["disconnected"] /\ \A s \in Signals : flag'[s] = flag[s]
    BY <2>2 DEF Flags, Signals
  <2>4. /\ game.next = 1 /\ ~ flag["disconnected"] /\ (game.isConnected <=> status = "up")
        /\ (Pending \/ game.isConnected => ToldOrAnnounced)
    BY <2>1 DEF Book, WithinCallbacks, CallbackPlaces
  <2>5. WithinCallbacks'
    BY <1>1, <1>3, <2>1, <2>3, <2>4
       DEF WithinCallbacks, CallbackPlaces, Pending, ToldOrAnnounced, Told
  <2>6. ReadyIsHeard'  BY <1>1, <1>3, <1>4, <2>1, <2>2 DEF ReadyIsHeard
  <2>. QED  BY <2>1, <2>4, <2>5, <2>6 DEF Book
<1>9. CASE CallReady
  <2>1. /\ game.pc = "callReady" /\ game'.pc = "signal" /\ game'.next = game.next
        /\ game'.isConnected = game.isConnected /\ flag' = flag
    BY <1>2, <1>9, GameMoves DEF CallReady, Game, GamePlaces
  <2>2. /\ game.next = 1 /\ ~ flag["disconnected"] /\ (game.isConnected <=> status = "up")
        /\ "ready" \in handlers
    BY <2>1 DEF Book, WithinCallbacks, CallbackPlaces, ReadyIsHeard
  <2>3. Told'  BY <1>9, <2>2 DEF CallReady, Told
  <2>4. WithinCallbacks'
    BY <1>1, <1>3, <2>1, <2>2, <2>3 DEF WithinCallbacks, CallbackPlaces
  <2>5. ReadyIsHeard'  BY <1>1, <1>3, <1>4, <2>1 DEF ReadyIsHeard
  <2>. QED  BY <2>1, <2>2, <2>4, <2>5 DEF Book
<1>. QED  BY <1>5, <1>6, <1>7, <1>8, <1>9

\* The signals, one after the other.
LEMMA SignalsBook ==
    ASSUME ~ Threaded, RpcType, Book, TakeSignal \/ CallSignal \/ SignalsDone
    PROVE  Book'
<1>1. io.pc = "wait" /\ UNCHANGED <<io, status>>  BY ThreadAlone DEF connection, Callbacks
<1>2. game \in Games /\ FlagType /\ game.next \in 1 .. 4 /\ Found
  BY DEF RpcType, GameType, Games
<1>3. UNCHANGED <<handlers, joinq, shown>>  BY DEF TakeSignal, CallSignal, SignalsDone, queues, outside
<1>4. ReadyIsHeard  BY DEF Book
<1>5. game.pc \in {"signal", "callSignal"}  BY DEF TakeSignal, CallSignal, SignalsDone, Game
<1>6. ~ flag["disconnected"] /\ (game.isConnected <=> status = "up")
  BY <1>5 DEF Book, WithinCallbacks, CallbackPlaces
<1>7. CASE TakeSignal
  <2>1. game.pc = "signal" /\ game.next \in 1 .. 3 /\ Lower(AtSignal)
    BY <1>2, <1>7 DEF TakeSignal, Game
  <2>2. AtSignal \in Signals /\ AtSignal \in Flags  BY <2>1, SignalsInOrder
  <2>3. ~ flag'[AtSignal] /\ \A f \in Flags : f # AtSignal => flag'[f] = flag[f]
    BY <1>2, <2>1, <2>2, FlagLowered
  <2>4. flag'["disconnected"] = flag["disconnected"] /\ flag'["connected"] = flag["connected"]
    BY <2>2, <2>3, FlagsAre DEF Signals
  <2>5. \A s \in Signals : flag'[s] => flag[s]  BY <2>3, FlagsAre
  <2>6. \A k \in 1 .. 3 : SignalOrder[k] \in Signals  BY DEF SignalOrder, Signals
  <2>7. \A k \in 1 .. 3 : k < game.next => ~ flag[SignalOrder[k]]
    BY <2>1 DEF Book, WithinCallbacks
  <2>8. \A k \in 1 .. 3 : k <= game.next => ~ flag'[SignalOrder[k]]
    BY <2>1, <2>3, <2>5, <2>6, <2>7 DEF AtSignal
  <2>9. Pending \/ game.isConnected => Told  BY <2>1 DEF Book, WithinCallbacks
  <2>10. Pending' => Pending  BY <1>3, <2>5 DEF Pending
  <2>11. flag[AtSignal] => Told  BY <2>2, <2>9 DEF Pending
  <2>12. /\ game'.isConnected = game.isConnected /\ game'.pc \in {"signal", "callSignal"}
         /\ game'.pc = "callSignal" => game'.next = game.next /\ flag[AtSignal]
         /\ game'.pc = "signal" => game'.next = game.next + 1
    BY <1>2, <1>7, <2>1 DEF TakeSignal, Games
  <2>13. game'.pc = "signal" => \A k \in 1 .. 3 : k < game'.next => ~ flag'[SignalOrder[k]]
    BY <2>1, <2>8, <2>12
  <2>14. game'.pc = "callSignal" => \A k \in 1 .. 3 : k <= game'.next => ~ flag'[SignalOrder[k]]
    BY <2>8, <2>12
  <2>15. Told' = Told  BY <1>3 DEF Told
  <2>16. WithinCallbacks'
    BY <1>1, <1>6, <2>4, <2>9, <2>10, <2>11, <2>12, <2>13, <2>14, <2>15
       DEF WithinCallbacks, CallbackPlaces
  <2>17. ReadyIsHeard'  BY <1>1, <1>3, <1>4, <2>4, <2>12 DEF ReadyIsHeard
  <2>. QED  BY <2>12, <2>16, <2>17 DEF Book
<1>8. CASE CallSignal
  <2>1. game.pc = "callSignal" /\ game.next \in 1 .. 3 /\ flag' = flag
    BY <1>2, <1>8 DEF CallSignal, Game, Found
  <2>2. game'.pc = "signal" /\ game'.next = game.next + 1 /\ game'.isConnected = game.isConnected
    BY <1>2, <1>8 DEF CallSignal, Games
  <2>3. Told /\ \A k \in 1 .. 3 : k <= game.next => ~ flag[SignalOrder[k]]
    BY <2>1 DEF Book, WithinCallbacks
  <2>4. \A k \in 1 .. 3 : k < game'.next => ~ flag'[SignalOrder[k]]
    BY <2>1, <2>2, <2>3
  <2>5. WithinCallbacks'
    BY <1>1, <1>3, <1>6, <2>1, <2>2, <2>3, <2>4 DEF WithinCallbacks, CallbackPlaces, Told
  <2>6. ReadyIsHeard'  BY <1>1, <1>3, <1>4, <2>1, <2>2 DEF ReadyIsHeard
  <2>. QED  BY <2>2, <2>5, <2>6 DEF Book
<1>9. CASE SignalsDone
  <2>1. game.pc = "signal" /\ game.next = 4 /\ flag' = flag
    BY <1>9 DEF SignalsDone, Game
  <2>2. game'.pc = "requests" /\ game'.next = 1 /\ game'.isConnected = game.isConnected
    BY <1>2, <1>9, FirstValues DEF SignalsDone, Games
  <2>3. /\ Pending \/ game.isConnected => Told
        /\ \A k \in 1 .. 3 : k < 4 => ~ flag[SignalOrder[k]]
    BY <2>1 DEF Book, WithinCallbacks
  <2>4. \A s \in Signals : ~ flag[s]
    <3>1. ~ flag[SignalOrder[1]] /\ ~ flag[SignalOrder[2]] /\ ~ flag[SignalOrder[3]]  BY <2>3
    <3>. QED  BY <3>1 DEF SignalOrder, Signals
  <2>5. WithinCallbacks'
    BY <1>1, <1>3, <1>6, <2>1, <2>2, <2>3, <2>4 DEF WithinCallbacks, CallbackPlaces, Told, Pending
  <2>6. ReadyIsHeard'  BY <1>1, <1>3, <1>4, <2>1, <2>2 DEF ReadyIsHeard
  <2>. QED  BY <2>2, <2>5, <2>6 DEF Book
<1>. QED  BY <1>7, <1>8, <1>9

\* The join requests, and the callback of a disconnect.
LEMMA LastCallbacksBook ==
    ASSUME ~ Threaded, RpcType, Book,
           TakeJoinRequest \/ CallJoinRequest \/ RequestsDone \/ CallDisconnectedLate
    PROVE  Book'
<1>1. io.pc = "wait" /\ UNCHANGED <<io, status>>  BY ThreadAlone DEF connection, Callbacks
<1>2. game \in Games  BY DEF RpcType, GameType
<1>3. UNCHANGED <<handlers, flag>>
  BY DEF TakeJoinRequest, CallJoinRequest, RequestsDone, CallDisconnectedLate
<1>4. /\ ReadyIsHeard /\ game.pc \in {"requests", "callRequest", "late"} /\ game.next = 1
      /\ ~ flag["disconnected"] /\ (game.isConnected <=> status = "up")
      /\ \A s \in Signals : ~ flag[s]
  BY DEF Book, WithinCallbacks, CallbackPlaces, TakeJoinRequest, CallJoinRequest, RequestsDone,
     CallDisconnectedLate, Game
<1>5. CASE TakeJoinRequest \/ RequestsDone
  <2>1. /\ game.pc = "requests" /\ game'.next = game.next /\ game'.isConnected = game.isConnected
        /\ game'.pc \in {"callRequest", "late"} /\ UNCHANGED <<joinq, shown>>
        /\ (game'.pc = "callRequest" => joinq # << >>) /\ (game'.pc = "late" => joinq = << >>)
    BY <1>2, <1>5, GameMoves DEF TakeJoinRequest, RequestsDone, Game, GamePlaces, queues, outside
  <2>2. Pending \/ game.isConnected => Told  BY <2>1 DEF Book, WithinCallbacks
  <2>3. WithinCallbacks'
    BY <1>1, <1>3, <1>4, <2>1, <2>2 DEF WithinCallbacks, CallbackPlaces, Told, Pending
  <2>4. ReadyIsHeard'  BY <1>1, <1>3, <1>4, <2>1 DEF ReadyIsHeard
  <2>. QED  BY <1>4, <2>1, <2>3, <2>4 DEF Book
<1>6. CASE CallJoinRequest
  <2>1. /\ game.pc = "callRequest" /\ game'.next = game.next /\ game'.pc = "requests"
        /\ game'.isConnected = game.isConnected /\ shown' = shown
    BY <1>2, <1>6, GameMoves DEF CallJoinRequest, Game, GamePlaces, outside
  <2>2. Told  BY <2>1 DEF Book, WithinCallbacks
  <2>3. WithinCallbacks'
    BY <1>1, <1>3, <1>4, <2>1, <2>2 DEF WithinCallbacks, CallbackPlaces, Told
  <2>4. ReadyIsHeard'  BY <1>1, <1>3, <1>4, <2>1 DEF ReadyIsHeard
  <2>. QED  BY <1>4, <2>1, <2>3, <2>4 DEF Book
<1>7. CASE CallDisconnectedLate
  <2>1. /\ game.pc = "late" /\ game'.pc = "idle" /\ game'.next = game.next
        /\ ~ game'.wasDisconnected /\ joinq' = joinq
    BY <1>2, <1>7 DEF CallDisconnectedLate, Game, Games, queues
  <2>2. joinq = << >> /\ (game.isConnected => Told)  BY <2>1 DEF Book, WithinCallbacks
  <2>3. game.isConnected => Told'  BY <1>7, <2>2 DEF CallDisconnectedLate, Told
  <2>4. ~ Pending'  BY <1>3, <1>4, <2>1, <2>2 DEF Pending
  <2>5. BeforeCallbacks'
    BY <1>1, <1>3, <1>4, <2>1, <2>3, <2>4 DEF BeforeCallbacks, Established, ToldOrAnnounced
  <2>6. WithinCallbacks'  BY <2>1 DEF WithinCallbacks, CallbackPlaces
  <2>7. ReadyIsHeard'  BY <1>1, <1>3, <1>4, <2>1 DEF ReadyIsHeard
  <2>. QED  BY <1>4, <2>1, <2>5, <2>6, <2>7 DEF Book
<1>. QED  BY <1>5, <1>6, <1>7

LEMMA BookStep ==
    ~ Threaded /\ "ready" \in InitialHandlers /\ RpcType /\ Standing /\ Book
        /\ [Next]_vars /\ [KeepsReady]_vars => Book'
<1>. SUFFICES ASSUME ~ Threaded, "ready" \in InitialHandlers,
                     RpcType, Standing, Book, [Next]_vars, [KeepsReady]_vars
              PROVE  Book'
  OBVIOUS
<1>1. CASE UNCHANGED <<status, io, flag, handlers, joinq, game, shown>>
  BY <1>1 DEF Book, ReadyIsHeard, BeforeCallbacks, WithinCallbacks, Pending, Established,
         ToldOrAnnounced, Told, CallbackPlaces
<1>2. CASE UNCHANGED vars  BY <1>1, <1>2 DEF vars, connection, queues, outside
<1>3. CASE TimePasses \/ \E m \in Messages : ClientSends(m)
  BY <1>1, <1>3, ThreadAlone DEF queues
<1>4. CASE Callbacks
  BY <1>4, FirstCallbacksBook, SignalsBook, LastCallbacksBook DEF Callbacks
<1>5. CASE UNCHANGED handlers \/ KeepsReady
  <2>1. KeepsReady  BY <1>5 DEF KeepsReady
  <2>. QED  BY <1>2, <1>3, <1>4, <2>1, UpdateConnectionBook, CallsBook DEF Next
<1>. QED  BY <1>5 DEF vars

\* Without the IO thread, and with handlers of which the one for ready is
\* never given up, the game is told of an event only between a call to ready
\* and one to disconnected, whatever else Discord_UpdateHandlers changes.
\* With the thread, which changes the flags while Discord_RunCallbacks goes
\* from one to the next, this is false.
THEOREM EventsAreBookEnded ==
    ~ Threaded /\ "ready" \in InitialHandlers
        => (Spec /\ [][KeepsReady]_vars => []BookEnded)
<1>. SUFFICES ASSUME ~ Threaded, "ready" \in InitialHandlers
              PROVE  Spec /\ [][KeepsReady]_vars => []BookEnded
  OBVIOUS
<1>1. RpcType /\ Standing /\ Book /\ [Next]_vars /\ [KeepsReady]_vars => Book'  BY BookStep
<1>2. Book => BookEnded  BY DEF Book, WithinCallbacks, BookEnded, CallsEvent, Told
<1>. QED  BY <1>1, <1>2, BookInitially, RpcTypeInvariant, StandingInvariant, PTL DEF Spec

=============================================================================
