-------------------------- MODULE DiscordRpc_proofs --------------------------
(***************************************************************************)
(* The library as the game sees it, proved for all presences, values,      *)
(* handlers, sizes of the queues and numbers of sessions and calls, with   *)
(* the IO thread or without it: types, PresenceInSync and, for the first   *)
(* session, NoDeafHandler.  Neither of the two is inductive: Sync says     *)
(* where a presence is on its way at each place of the IO thread, Heeded   *)
(* what the client knows and the queue together promise of a handler.      *)
(***************************************************************************)
EXTENDS DiscordRpc, SequenceTheorems, TLAPS

-----------------------------------------------------------------------------
(* Types. *)

Statuses == {"down", "handshaking", "up"}
Announced == Seq({"connect", "disconnect"})
Clients == [subs : SUBSET EventNames, activity : Presences \cup {NoPresence}, stale : BOOLEAN]
IOPlaces == {"wait", "update", "subscribe", "resend", "announce", "read", "raise", "write",
             "copy", "send", "requeue", "drain", "commit", "closing", "closed"}
Returns == {"wait", "write", "requeue", "commit"}
IOs == [pc : IOPlaces, return : Returns, copy : Presences \cup {NoPresence}]
GamePlaces == {"idle", "asked", "isConnected", "early", "ready", "callReady", "signal",
               "callSignal", "requests", "callRequest", "late", "handlers"}
Games == [pc : GamePlaces, wasDisconnected : BOOLEAN, isConnected : BOOLEAN,
          next : 1 .. 4, asked : 0 .. MaxSessions, new : SUBSET HandlerNames]

SessionType ==
    /\ status \in Statuses /\ inbox \in Seq(Messages) /\ Len(inbox) <= MaxInbox
    /\ got \in Messages \cup {NoValue} /\ announced \in Announced
    /\ session \in 0 .. MaxSessions /\ client \in Clients
IOType == due \in BOOLEAN /\ io \in IOs
FlagType == flag \in [Flags -> BOOLEAN]
MailType == value \in [Signals -> Values \cup {NoValue}] /\ presence \in Presences \cup {NoPresence}
QueueType ==
    /\ sendq \in Seq(Commands) /\ Len(sendq) <= QueueSize
    /\ joinq \in Seq(Values) /\ Len(joinq) <= QueueSize
GameType == handlers \subseteq HandlerNames /\ game \in Games
OutsideType ==
    /\ shown \in {"nothing", "ready", "disconnected"}
    /\ heard \in [Signals -> Values \cup {NoValue}] /\ calls \in 0 .. MaxCalls

\* Where a thread stands tells what it has found: a message that is being
\* sent or handed out is still in its queue, and the text that has been copied
\* is that of a signal.
Found ==
    /\ io.pc = "commit" => sendq # << >>
    /\ io.pc \in {"closing", "closed"} /\ io.return = "commit" => sendq # << >>
    /\ io.pc = "raise" => got \in Messages /\ got # Ready /\ got.kind \in Signals
    /\ game.pc = "callRequest" => joinq # << >>
    /\ game.pc = "callSignal" => game.next <= 3

RpcType ==
    /\ SessionType /\ IOType /\ FlagType /\ MailType /\ QueueType /\ GameType /\ OutsideType
    /\ Found

LEMMA TypeOKIs == RpcType => TypeOK
BY DEF RpcType, TypeOK, SessionType, IOType, FlagType, MailType, QueueType, GameType,
       OutsideType, Statuses, Announced, Clients, IOPlaces, Returns, IOs, GamePlaces, Games

LEMMA IOMoves ==
    ASSUME io \in IOs, NEW pc \in IOPlaces, IOGoes(pc)
    PROVE  /\ io' \in IOs /\ io'.pc = pc /\ io'.return = io.return /\ io'.copy = io.copy
BY DEF IOGoes, IOs

LEMMA IOCloses ==
    ASSUME io \in IOs, NEW pc \in Returns, CloseThen(pc)
    PROVE  /\ io' \in IOs /\ io'.pc = "closing" /\ io'.return = pc /\ io'.copy = io.copy
BY DEF CloseThen, IOs, IOPlaces

LEMMA GameMoves ==
    ASSUME game \in Games, NEW pc \in GamePlaces, GameGoes(pc)
    PROVE  /\ game' \in Games /\ game'.pc = pc /\ game'.next = game.next
           /\ game'.asked = game.asked /\ game'.new = game.new
           /\ game'.wasDisconnected = game.wasDisconnected
           /\ game'.isConnected = game.isConnected
BY DEF GameGoes, Games

LEMMA FlagRaised ==
    ASSUME FlagType, NEW f \in Flags, Raise(f)
    PROVE  FlagType' /\ flag'[f] /\ \A g \in Flags : g # f => flag'[g] = flag[g]
BY DEF Raise, FlagType

LEMMA FlagLowered ==
    ASSUME FlagType, NEW f \in Flags, Lower(f)
    PROVE  FlagType' /\ ~ flag'[f] /\ \A g \in Flags : g # f => flag'[g] = flag[g]
BY DEF Lower, FlagType

LEMMA FlagsAre == {"connected", "disconnected", "presence"} \cup Signals \subseteq Flags
BY DEF Flags

\* What is queued is a prefix of what is new: the queue never holds more than
\* it has room for.
LEMMA Enqueued ==
    ASSUME NEW S, NEW q \in Seq(S), Len(q) <= QueueSize, NEW new \in Seq(S)
    PROVE  /\ Enqueue(q, new) \in Seq(S) /\ Len(Enqueue(q, new)) <= QueueSize
           /\ Len(Enqueue(q, new)) >= Len(q)
           /\ \A i \in 1 .. Len(q) : Enqueue(q, new)[i] = q[i]
           /\ \A i \in 1 .. Len(Enqueue(q, new)) :
                  i \in 1 .. Len(q)
                      \/ \E j \in 1 .. Len(new) : Enqueue(q, new)[i] = new[j]
<1>1. QueueSize \in Nat  BY RpcAssumption
<1>2. PICK n \in Nat : n = Len(q)  BY LenProperties
<1>3. PICK l \in Nat : l = Len(new)  BY LenProperties
<1>4. PICK m : m = IF Len(new) < Fits(q) THEN Len(new) ELSE Fits(q)  OBVIOUS
<1>5. m \in Nat /\ m <= l /\ n + m <= QueueSize  BY <1>1, <1>2, <1>3, <1>4 DEF Fits
<1>6. PICK s : s = SubSeq(new, 1, m)  OBVIOUS
<1>7. s \in Seq(S) /\ Len(s) = m /\ \A i \in 1 .. m : s[i] = new[i]
  <2>1. \A i \in 1 .. m : new[i] \in S  BY <1>3, <1>5, ElementOfSeq
  <2>2. /\ SubSeq(new, 1, m) \in Seq(S)
        /\ Len(SubSeq(new, 1, m)) = IF 1 <= m THEN m - 1 + 1 ELSE 0
        /\ \A i \in 1 .. m - 1 + 1 : SubSeq(new, 1, m)[i] = new[1 + i - 1]
    BY <1>5, <2>1, SubSeqProperties
  <2>3. s \in Seq(S) /\ Len(s) = m  BY <1>5, <1>6, <2>2
  <2>4. ASSUME NEW i \in 1 .. m PROVE s[i] = new[i]
    <3>1. i \in 1 .. m - 1 + 1  BY <1>5
    <3>2. SubSeq(new, 1, m)[i] = new[1 + i - 1]  BY <2>2, <3>1
    <3>3. PICK k : k = 1 + i - 1  OBVIOUS
    <3>4. k = i  BY <3>3
    <3>. QED  BY <1>6, <3>2, <3>3, <3>4
  <2>. QED  BY <2>3, <2>4
<1>8. PICK e : e = q \o s  OBVIOUS
<1>9. e = Enqueue(q, new)  BY <1>4, <1>6, <1>8 DEF Enqueue
<1>10. /\ e \in Seq(S) /\ Len(e) = n + m
       /\ \A i \in 1 .. n + m : e[i] = IF i <= n THEN q[i] ELSE s[i - n]
  BY <1>2, <1>7, <1>8, ConcatProperties
<1>11. Len(e) <= QueueSize /\ Len(e) >= n /\ \A i \in 1 .. n : e[i] = q[i]
  BY <1>1, <1>5, <1>10
<1>12. ASSUME NEW i \in 1 .. Len(e), i \notin 1 .. n
       PROVE  \E j \in 1 .. l : e[i] = new[j]
  <2>1. PICK j : j = i - n  OBVIOUS
  <2>2. i \in 1 .. n + m /\ ~ i <= n /\ j \in 1 .. m /\ j \in 1 .. l  BY <1>5, <1>10, <1>12, <2>1
  <2>3. e[i] = s[j]  BY <1>10, <2>1, <2>2
  <2>4. s[j] = new[j]  BY <1>7, <2>2
  <2>. QED  BY <2>2, <2>3, <2>4
<1>. QED  BY <1>2, <1>3, <1>9, <1>10, <1>11, <1>12

LEMMA ChangeType ==
    ASSUME NEW n \in 1 .. 3, NEW old, NEW new
    PROVE  Change(EventOrder[n], old, new) \in Seq(Commands)
<1>1. PICK e : e = EventOrder[n]  OBVIOUS
<1>2. e \in EventNames  BY <1>1 DEF EventOrder, EventNames
<1>3. PICK s, u : s = [cmd |-> "SUBSCRIBE", evt |-> e] /\ u = [cmd |-> "UNSUBSCRIBE", evt |-> e]
  OBVIOUS
<1>4. s \in Commands /\ u \in Commands  BY <1>2, <1>3 DEF Commands
<1>5. << s >> \in Seq(Commands) /\ << u >> \in Seq(Commands) /\ << >> \in Seq(Commands)
  BY <1>4
<1>. QED  BY <1>1, <1>3, <1>5 DEF Change

LEMMA ChangesType ==
    ASSUME NEW old, NEW new
    PROVE  Changes(old, new) \in Seq(Commands)
<1>1. 1 \in 1 .. 3 /\ 2 \in 1 .. 3 /\ 3 \in 1 .. 3  OBVIOUS
<1>2. PICK a, b, c :
          /\ a = Change(EventOrder[1], old, new) /\ b = Change(EventOrder[2], old, new)
          /\ c = Change(EventOrder[3], old, new)
  OBVIOUS
<1>3. a \in Seq(Commands) /\ b \in Seq(Commands) /\ c \in Seq(Commands)
  BY <1>1, <1>2, ChangeType
<1>4. Changes(old, new) = (a \o b) \o c  BY <1>2 DEF Changes
<1>. QED  BY <1>3, <1>4, ConcatProperties

\* A part of the state that a step leaves alone keeps its type.
LEMMA PartsRest ==
    ASSUME RpcType
    PROVE  /\ UNCHANGED connection => SessionType'
           /\ UNCHANGED mailboxes => MailType'
           /\ UNCHANGED queues => QueueType'
           /\ UNCHANGED <<handlers, game>> => GameType'
           /\ UNCHANGED <<due, io>> => IOType'
           /\ UNCHANGED flag => FlagType'
           /\ UNCHANGED outside => OutsideType'
BY DEF RpcType, SessionType, IOType, FlagType, MailType, QueueType, GameType, OutsideType,
       connection, mailboxes, queues, outside

\* A step of the IO thread that touches at most flags and the clock.
LEMMA IOStepType ==
    ASSUME RpcType, io' \in IOs, due' \in BOOLEAN, FlagType',
           io'.pc \notin {"commit", "raise"},
           io'.pc \in {"closing", "closed"} /\ io'.return = "commit" => sendq # << >>,
           UNCHANGED <<connection, mailboxes, handlers, queues, game, outside>>
    PROVE  RpcType'
<1>1. SessionType' /\ MailType' /\ QueueType' /\ GameType' /\ OutsideType'
  BY PartsRest
<1>2. Found'  BY DEF RpcType, Found, connection, queues
<1>. QED  BY <1>1, <1>2 DEF RpcType, IOType

\* The steps of the IO thread that only move it, look at the clock or change
\* a flag.
IOSteps ==
    \/ Wake \/ NotYetDue \/ OnConnectPresence \/ OnConnectAnnounce \/ OnDisconnect
    \/ StartReading \/ ReadNothing \/ ReadFails \/ TakePresence \/ CopyPresence
    \/ RaiseSignal \/ UpdateDone

LEMMA IOStepsType ==
    ASSUME RpcType, IOSteps
    PROVE  RpcType'
<1>1. /\ io \in IOs /\ due \in BOOLEAN /\ FlagType /\ Found
      /\ presence \in Presences \cup {NoPresence}
  BY DEF RpcType, IOType, MailType
<1>2. "presence" \in Flags /\ "connected" \in Flags /\ "disconnected" \in Flags
  BY DEF Flags
<1>3. CASE Wake \/ NotYetDue \/ StartReading \/ ReadNothing \/ UpdateDone
  <2>1. PICK pc \in IOPlaces \ {"commit", "raise", "closing", "closed"} : IOGoes(pc)
    BY <1>3 DEF Wake, NotYetDue, StartReading, ReadNothing, UpdateDone, IOPlaces
  <2>2. UNCHANGED <<connection, due, flag, mailboxes, handlers, queues, game, outside>>
    BY <1>3 DEF Wake, NotYetDue, StartReading, ReadNothing, UpdateDone
  <2>3. io' \in IOs /\ io'.pc = pc  BY <1>1, <2>1, IOMoves
  <2>4. FlagType'  BY <2>2, PartsRest
  <2>. QED  BY <1>1, <2>1, <2>2, <2>3, <2>4, IOStepType
<1>4. CASE ReadFails
  <2>1. io' \in IOs /\ io'.return = "write" /\ io'.pc = "closing"
    BY <1>1, <1>4, IOCloses DEF ReadFails, Returns
  <2>2. UNCHANGED <<connection, due, flag, mailboxes, handlers, queues, game, outside>>
    BY <1>4 DEF ReadFails
  <2>3. FlagType'  BY <2>2, PartsRest
  <2>. QED  BY <1>1, <2>1, <2>2, <2>3, IOStepType
<1>5. CASE OnConnectPresence
  <2>1. io' \in IOs /\ io'.pc = "announce"
    BY <1>1, <1>5, IOMoves DEF OnConnectPresence, IOPlaces
  <2>2. FlagType'
    <3>1. Raise("presence") \/ UNCHANGED flag  BY <1>5 DEF OnConnectPresence
    <3>. QED  BY <1>1, <1>2, <3>1, FlagRaised, PartsRest
  <2>. QED  BY <1>1, <1>5, <2>1, <2>2, IOStepType DEF OnConnectPresence
<1>6. CASE OnConnectAnnounce
  <2>1. io' \in IOs /\ io'.pc = "wait"
    BY <1>1, <1>6, IOMoves DEF OnConnectAnnounce, IOPlaces
  <2>2. FlagType'  BY <1>1, <1>2, <1>6, FlagRaised DEF OnConnectAnnounce
  <2>. QED  BY <1>1, <1>6, <2>1, <2>2, IOStepType DEF OnConnectAnnounce
<1>7. CASE OnDisconnect
  <2>1. io.pc = "closing" /\ io' \in IOs /\ io'.pc = "closed" /\ io'.return = io.return
    BY <1>1, <1>7, IOMoves DEF OnDisconnect, IOPlaces, IO
  <2>2. FlagType'  BY <1>1, <1>2, <1>7, FlagRaised DEF OnDisconnect
  <2>3. io'.return = "commit" => sendq # << >>  BY <1>1, <2>1 DEF Found
  <2>. QED  BY <1>1, <1>7, <2>1, <2>2, <2>3, IOStepType DEF OnDisconnect
<1>8. CASE TakePresence
  <2>1. io' \in IOs /\ io'.pc \in {"copy", "drain"}
    BY <1>1, <1>8, IOMoves DEF TakePresence, IOPlaces
  <2>2. FlagType'  BY <1>1, <1>2, <1>8, FlagLowered DEF TakePresence
  <2>. QED  BY <1>1, <1>8, <2>1, <2>2, IOStepType DEF TakePresence
<1>9. CASE CopyPresence
  <2>1. io' \in IOs /\ io'.pc = "send"
    BY <1>1, <1>9 DEF CopyPresence, IOs, IOPlaces
  <2>2. FlagType'  BY <1>9, PartsRest DEF CopyPresence
  <2>. QED  BY <1>1, <1>9, <2>1, <2>2, IOStepType DEF CopyPresence
<1>10. CASE RaiseSignal
  <2>1. io.pc = "raise" /\ Raise(got.kind)  BY <1>10 DEF RaiseSignal, IO
  <2>2. got.kind \in Flags  BY <1>1, <2>1 DEF Found, Flags
  <2>3. FlagType'  BY <1>1, <2>1, <2>2, FlagRaised
  <2>4. io' \in IOs /\ io'.pc = "read"
    BY <1>1, <1>10, IOMoves DEF RaiseSignal, IOPlaces
  <2>. QED  BY <1>1, <1>10, <2>3, <2>4, IOStepType DEF RaiseSignal
<1>. QED  BY <1>3, <1>4, <1>5, <1>6, <1>7, <1>8, <1>9, <1>10 DEF IOSteps

\* What the messages in the inbox are.
LEMMA InboxIs ==
    ASSUME SessionType, inbox # << >>
    PROVE  /\ Head(inbox) \in Messages /\ Tail(inbox) \in Seq(Messages)
           /\ Len(Tail(inbox)) <= MaxInbox
           /\ Head(inbox) # Ready => Head(inbox).kind \in Sent /\ Head(inbox).value \in Values
<1>1. inbox \in Seq(Messages) /\ Len(inbox) \in Nat /\ Len(inbox) <= MaxInbox
  BY LenProperties DEF SessionType
<1>2. Head(inbox) \in Messages /\ Tail(inbox) \in Seq(Messages) /\ Len(Tail(inbox)) = Len(inbox) - 1
  BY <1>1, HeadTailProperties
<1>. QED  BY <1>1, <1>2, RpcAssumption DEF Messages

\* Its callbacks.
LEMMA AnnouncedType ==
    ASSUME announced \in Announced
    PROVE  /\ << >> \in Announced
           /\ Append(announced, "connect") \in Announced
           /\ Append(announced, "disconnect") \in Announced
BY EmptySeq, AppendProperties DEF Announced

\* The steps of the session.
LEMMA BeginType ==
    ASSUME SessionType, Session!Begin, session < MaxSessions, session' = session + 1,
           client' = NewClient
    PROVE  SessionType'
<1>1. MaxInbox \in Nat /\ MaxSessions \in Nat  BY RpcAssumption
<1>2. client' \in Clients  BY DEF NewClient, Clients
<1>3. inbox' \in Seq(Messages) /\ Len(inbox') <= MaxInbox /\ announced' \in Announced
  BY <1>1, EmptySeq, AnnouncedType DEF Session!Begin, SessionType
<1>4. session' \in 0 .. MaxSessions  BY <1>1 DEF SessionType
<1>. QED  BY <1>2, <1>3, <1>4 DEF SessionType, Session!Begin, Statuses

LEMMA MessageTakenType ==
    ASSUME SessionType, Session!Ignore \/ Session!BecomeUp \/ Session!Deliver,
           UNCHANGED <<session, client>>
    PROVE  SessionType'
<1>1. inbox # << >> /\ inbox' = Tail(inbox) /\ status' \in Statuses
      /\ got' \in {got, Head(inbox)}
      /\ announced' \in {announced, Append(announced, "connect")}
  BY DEF Session!Ignore, Session!BecomeUp, Session!Deliver, SessionType, Statuses
<1>2. inbox' \in Seq(Messages) /\ Len(inbox') <= MaxInbox /\ Head(inbox) \in Messages
  BY <1>1, InboxIs
<1>3. announced' \in Announced  BY <1>1, AnnouncedType DEF SessionType
<1>. QED  BY <1>1, <1>2, <1>3 DEF SessionType

LEMMA EndType ==
    ASSUME SessionType, Session!End, UNCHANGED <<session, client>>
    PROVE  SessionType'
<1>1. inbox' \in Seq(Messages) /\ Len(inbox') <= MaxInbox
  BY RpcAssumption, EmptySeq DEF Session!End
<1>2. announced' \in Announced  BY AnnouncedType DEF SessionType, Session!End
<1>. QED  BY <1>1, <1>2 DEF SessionType, Session!End, Statuses

LEMMA ArriveType ==
    ASSUME SessionType, NEW m \in Messages, Session!Arrive(m), Len(inbox) < MaxInbox,
           UNCHANGED <<session, client>>
    PROVE  SessionType'
<1>1. inbox' = Append(inbox, m) /\ inbox \in Seq(Messages)  BY DEF Session!Arrive, SessionType
<1>2. inbox' \in Seq(Messages) /\ Len(inbox') = Len(inbox) + 1 /\ Len(inbox) \in Nat
  BY <1>1, AppendProperties, LenProperties
<1>3. Len(inbox') <= MaxInbox  BY RpcAssumption, <1>2
<1>. QED  BY <1>2, <1>3 DEF SessionType, Session!Arrive

-----------------------------------------------------------------------------
(* The steps of the IO thread that touch the session or a queue. *)

\* A queue that grows keeps its type, and does not become empty.
LEMMA QueueGrows ==
    ASSUME QueueType, NEW new \in Seq(Commands), sendq' = Enqueue(sendq, new), joinq' = joinq
    PROVE  QueueType' /\ (sendq # << >> => sendq' # << >>)
<1>1. sendq' \in Seq(Commands) /\ Len(sendq') <= QueueSize /\ Len(sendq') >= Len(sendq)
  BY Enqueued DEF QueueType
<1>2. sendq # << >> => Len(sendq) \in Nat \ {0}  BY EmptySeq DEF QueueType
<1>3. sendq # << >> => sendq' # << >>  BY <1>1, <1>2, EmptySeq
<1>. QED  BY <1>1, <1>3 DEF QueueType

LEMMA ConnectionStepsType ==
    ASSUME RpcType, Connect \/ PollReady \/ Closed \/ OnConnectHandlers
    PROVE  RpcType'
<1>1. io \in IOs /\ due \in BOOLEAN /\ Found /\ SessionType  BY DEF RpcType, IOType
<1>2. CASE Connect
  <2>1. io' \in IOs /\ io'.pc = "wait"  BY <1>1, <1>2, IOMoves DEF Connect, IOPlaces
  <2>2. SessionType'
    <3>1. CASE UNCHANGED connection  BY <3>1, PartsRest
    <3>2. CASE /\ session < MaxSessions /\ Session!Begin /\ session' = session + 1
               /\ client' = NewClient
      BY <1>1, <3>2, BeginType
    <3>. QED  BY <1>2, <3>1, <3>2 DEF Connect
  <2>3. /\ due' = FALSE
        /\ UNCHANGED <<flag, mailboxes, handlers, queues, game, outside>>
    BY <1>2 DEF Connect
  <2>4. Found'  BY <1>1, <2>1, <2>3 DEF Found, queues
  <2>. QED  BY <2>1, <2>2, <2>3, <2>4, PartsRest DEF RpcType, IOType
<1>3. CASE PollReady
  <2>1. io' \in IOs /\ io'.pc \in {"wait", "subscribe", "closing"}
        /\ (io'.pc = "closing" => io'.return = "wait")
    BY <1>1, <1>3, IOMoves, IOCloses DEF PollReady, IOPlaces, Returns
  <2>2. SessionType'
    <3>1. CASE UNCHANGED connection  BY <3>1, PartsRest
    <3>2. CASE (Session!Ignore \/ Session!BecomeUp) /\ UNCHANGED <<session, client>>
      BY <1>1, <3>2, MessageTakenType
    <3>. QED  BY <1>3, <3>1, <3>2 DEF PollReady
  <2>3. due' = FALSE /\ UNCHANGED <<flag, mailboxes, handlers, queues, game, outside>>
    BY <1>3 DEF PollReady
  <2>4. Found'  BY <1>1, <2>1, <2>3 DEF Found, queues
  <2>. QED  BY <2>1, <2>2, <2>3, <2>4, PartsRest DEF RpcType, IOType
<1>4. CASE Closed
  <2>1. io.pc = "closed" /\ io.return \in IOPlaces /\ io.return \in Returns
    BY <1>1, <1>4 DEF Closed, IO, IOs, Returns, IOPlaces
  <2>2. io' \in IOs /\ io'.pc = io.return  BY <1>1, <1>4, <2>1, IOMoves DEF Closed
  <2>3. SessionType'  BY <1>1, <1>4, EndType DEF Closed
  <2>4. UNCHANGED <<due, flag, mailboxes, handlers, queues, game, outside>>
    BY <1>4 DEF Closed
  <2>5. Found'  BY <1>1, <2>1, <2>2, <2>4 DEF Found, queues, Returns
  <2>. QED  BY <1>1, <2>2, <2>3, <2>4, <2>5, PartsRest DEF RpcType, IOType
<1>5. CASE OnConnectHandlers
  <2>1. io' \in IOs /\ io'.pc = "resend"
    BY <1>1, <1>5, IOMoves DEF OnConnectHandlers, IOPlaces
  <2>2. Changes(handlers, InitialHandlers) \in Seq(Commands)  BY ChangesType
  <2>3. QueueType' /\ (sendq # << >> => sendq' # << >>)
    BY <1>5, <2>2, QueueGrows DEF OnConnectHandlers, UpdateHandlers, RpcType
  <2>4. GameType'
    BY <1>5, RpcAssumption DEF OnConnectHandlers, UpdateHandlers, RpcType, GameType
  <2>5. UNCHANGED <<connection, due, flag, mailboxes, joinq, game, outside>>
    BY <1>5 DEF OnConnectHandlers
  <2>6. Found'  BY <1>1, <2>1, <2>3, <2>5 DEF Found
  <2>. QED  BY <1>1, <2>1, <2>3, <2>4, <2>5, <2>6, PartsRest DEF RpcType, IOType
<1>. QED  BY <1>2, <1>3, <1>4, <1>5

LEMMA ReadStepsType ==
    ASSUME RpcType, ReadSignal \/ ReadJoinRequest
    PROVE  RpcType'
<1>1. io \in IOs /\ due \in BOOLEAN /\ Found /\ SessionType /\ MailType /\ QueueType
  BY DEF RpcType, IOType
<1>2. /\ inbox # << >> /\ Head(inbox) # Ready /\ Session!Deliver /\ UNCHANGED <<session, client>>
      /\ UNCHANGED <<due, flag, handlers, game, outside>>
  BY DEF ReadSignal, ReadJoinRequest
<1>3. SessionType'  BY <1>1, <1>2, MessageTakenType
<1>4. PICK m : m = Head(inbox)  OBVIOUS
<1>5. m \in Messages /\ m # Ready /\ m.value \in Values /\ got' = m
  BY <1>1, <1>2, <1>4, InboxIs DEF Session!Deliver
<1>6. CASE ReadSignal
  <2>1. io' \in IOs /\ io'.pc = "raise"  BY <1>1, <1>6, IOMoves DEF ReadSignal, IOPlaces
  <2>2. m.kind \in Signals /\ value' = [value EXCEPT ![m.kind] = m.value]
        /\ UNCHANGED <<presence, queues>>
    BY <1>4, <1>6 DEF ReadSignal
  <2>3. MailType'  BY <1>1, <1>5, <2>2 DEF MailType
  <2>4. Found'  BY <1>1, <1>2, <1>5, <2>1, <2>2 DEF Found, queues
  <2>. QED  BY <1>1, <1>2, <1>3, <2>1, <2>2, <2>3, <2>4, PartsRest DEF RpcType, IOType
<1>7. CASE ReadJoinRequest
  <2>1. io.pc = "read" /\ UNCHANGED <<io, mailboxes, sendq>>
        /\ joinq' = Enqueue(joinq, << m.value >>)
    BY <1>4, <1>7 DEF ReadJoinRequest, IO
  <2>2. PICK new : new = << m.value >>  OBVIOUS
  <2>3. new \in Seq(Values)  BY <1>5, <2>2
  <2>4. /\ joinq' \in Seq(Values) /\ Len(joinq') <= QueueSize /\ Len(joinq') >= Len(joinq)
    BY <1>1, <2>1, <2>2, <2>3, Enqueued DEF QueueType
  <2>5. joinq # << >> => Len(joinq) \in Nat \ {0}  BY <1>1, EmptySeq DEF QueueType
  <2>6. joinq # << >> => joinq' # << >>  BY <2>4, <2>5, EmptySeq
  <2>7. QueueType'  BY <1>1, <2>1, <2>4 DEF QueueType
  <2>8. Found'  BY <1>1, <1>2, <2>1, <2>6 DEF Found
  <2>. QED  BY <1>1, <1>2, <1>3, <2>1, <2>7, <2>8, PartsRest DEF RpcType, IOType
<1>. QED  BY <1>6, <1>7

LEMMA WriteStepsType ==
    ASSUME RpcType, SendPresence \/ RequeuePresence \/ SendCommand \/ CommitCommand
    PROVE  RpcType'
<1>1. io \in IOs /\ due \in BOOLEAN /\ Found /\ SessionType /\ FlagType /\ MailType /\ QueueType
  BY DEF RpcType, IOType
<1>2. io.copy \in Presences \cup {NoPresence} /\ client \in Clients
  BY <1>1 DEF IOs, SessionType
<1>3. CASE SendPresence
  <2>1. io' \in IOs /\ io'.pc \in {"drain", "closing", "requeue"}
        /\ (io'.pc = "closing" => io'.return = "requeue")
    BY <1>1, <1>3, IOMoves, IOCloses DEF SendPresence, IOPlaces, Returns
  <2>2. client' \in Clients  BY <1>2, <1>3 DEF SendPresence, Clients
  <2>3. /\ UNCHANGED <<status, inbox, got, announced, session>>
        /\ UNCHANGED <<due, flag, mailboxes, handlers, queues, game, outside>>
    BY <1>3 DEF SendPresence
  <2>4. SessionType'  BY <1>1, <2>2, <2>3 DEF SessionType
  <2>5. Found'  BY <1>1, <2>1, <2>3 DEF Found, queues
  <2>. QED  BY <1>1, <2>1, <2>3, <2>4, <2>5, PartsRest DEF RpcType, IOType
<1>4. CASE RequeuePresence
  <2>1. io' \in IOs /\ io'.pc = "drain"  BY <1>1, <1>4, IOMoves DEF RequeuePresence, IOPlaces
  <2>2. FlagType'  BY <1>1, <1>4, FlagRaised, FlagsAre DEF RequeuePresence
  <2>3. MailType'  BY <1>1, <1>2, <1>4 DEF RequeuePresence, MailType
  <2>4. UNCHANGED <<connection, due, handlers, queues, game, outside>>
    BY <1>4 DEF RequeuePresence
  <2>5. Found'  BY <1>1, <2>1, <2>4 DEF Found, queues, connection
  <2>. QED  BY <1>1, <2>1, <2>2, <2>3, <2>4, <2>5, PartsRest DEF RpcType, IOType
<1>5. CASE SendCommand
  <2>1. io' \in IOs /\ io'.pc \in {"commit", "closing"}
        /\ (io'.pc = "closing" => io'.return = "commit") /\ sendq # << >>
    BY <1>1, <1>5, IOMoves, IOCloses DEF SendCommand, IOPlaces, Returns
  <2>2. Head(sendq) \in Commands  BY <1>1, <2>1, HeadTailProperties DEF QueueType
  <2>3. client' \in Clients
    <3>1. CASE client' = client  BY <1>2, <3>1
    <3>2. CASE Receives(Head(sendq))
      <4>1. PICK c \in Commands : c = Head(sendq)  BY <2>2
      <4>2. CASE c.cmd = "SUBSCRIBE"
        <5>1. c.evt \in EventNames  BY <4>2 DEF Commands
        <5>2. client' = [client EXCEPT !.subs = @ \cup {c.evt}]
          BY <3>2, <4>1, <4>2 DEF Receives
        <5>. QED  BY <1>2, <5>1, <5>2 DEF Clients
      <4>3. CASE c.cmd = "UNSUBSCRIBE"
        <5>1. client' = [client EXCEPT !.subs = @ \ {c.evt}]
          BY <3>2, <4>1, <4>3 DEF Receives
        <5>. QED  BY <1>2, <5>1 DEF Clients
      <4>4. CASE c.cmd = "REPLY"
        <5>1. client' = [client EXCEPT !.stale = @ \/ c.asked # session]
          BY <3>2, <4>1, <4>4 DEF Receives
        <5>. QED  BY <1>2, <5>1 DEF Clients
      <4>. QED  BY <4>2, <4>3, <4>4 DEF Commands
    <3>. QED  BY <1>5, <3>1, <3>2 DEF SendCommand
  <2>4. /\ UNCHANGED <<status, inbox, got, announced, session>>
        /\ UNCHANGED <<due, flag, mailboxes, handlers, queues, game, outside>>
    BY <1>5 DEF SendCommand
  <2>5. SessionType'  BY <1>1, <2>3, <2>4 DEF SessionType
  <2>6. Found'  BY <1>1, <2>1, <2>4 DEF Found, queues
  <2>. QED  BY <1>1, <2>1, <2>4, <2>5, <2>6, PartsRest DEF RpcType, IOType
<1>6. CASE CommitCommand
  <2>1. io' \in IOs /\ io'.pc = "drain" /\ io.pc = "commit"
    BY <1>1, <1>6, IOMoves DEF CommitCommand, IOPlaces, IO
  <2>2. sendq # << >> /\ sendq' = Tail(sendq)  BY <1>1, <1>6, <2>1 DEF CommitCommand, Found
  <2>3. UNCHANGED <<connection, due, flag, mailboxes, handlers, joinq, game, outside>>
    BY <1>6 DEF CommitCommand
  <2>4. sendq' \in Seq(Commands) /\ Len(sendq') = Len(sendq) - 1 /\ Len(sendq) \in Nat
    BY <1>1, <2>2, HeadTailProperties, LenProperties DEF QueueType
  <2>5. QueueType'  BY <1>1, <2>3, <2>4, RpcAssumption DEF QueueType
  <2>6. Found'  BY <1>1, <2>1, <2>3 DEF Found, connection
  <2>. QED  BY <1>1, <2>1, <2>3, <2>5, <2>6, PartsRest DEF RpcType, IOType
<1>. QED  BY <1>3, <1>4, <1>5, <1>6

LEMMA UpdateConnectionType ==
    ASSUME RpcType, UpdateConnection
    PROVE  RpcType'
<1>1. \/ IOSteps \/ Connect \/ PollReady \/ Closed \/ OnConnectHandlers
      \/ ReadSignal \/ ReadJoinRequest
      \/ SendPresence \/ RequeuePresence \/ SendCommand \/ CommitCommand
  BY DEF UpdateConnection, IOSteps
<1>. QED  BY <1>1, IOStepsType, ConnectionStepsType, ReadStepsType, WriteStepsType

-----------------------------------------------------------------------------
(* The steps of others. *)

LEMMA OutsideStepsType ==
    ASSUME RpcType, TimePasses \/ \E m \in Messages : ClientSends(m)
    PROVE  RpcType'
<1>1. io \in IOs /\ due \in BOOLEAN /\ Found /\ SessionType  BY DEF RpcType, IOType
<1>2. UNCHANGED <<io, flag, mailboxes, handlers, queues, game, outside>>
  BY DEF TimePasses, ClientSends
<1>3. due' \in BOOLEAN  BY <1>1 DEF TimePasses, ClientSends
<1>4. SessionType'
  <2>1. CASE TimePasses  BY <2>1, PartsRest DEF TimePasses
  <2>2. ASSUME NEW m \in Messages, ClientSends(m) PROVE SessionType'
    BY <1>1, <2>2, ArriveType DEF ClientSends
  <2>. QED  BY <2>1, <2>2
<1>5. got' = got  BY DEF TimePasses, ClientSends, Session!Arrive, connection
<1>6. Found'  BY <1>1, <1>2, <1>5 DEF Found, queues
<1>. QED  BY <1>1, <1>2, <1>3, <1>4, <1>6, PartsRest DEF RpcType, IOType

\* A step of the game that does not touch the presence.
LEMMA GameStepType ==
    ASSUME RpcType, game' \in Games, handlers' \subseteq HandlerNames,
           FlagType', OutsideType', QueueType',
           sendq # << >> => sendq' # << >>,
           game'.pc = "callRequest" => joinq' # << >>,
           game'.pc = "callSignal" => game'.next <= 3,
           UNCHANGED <<connection, due, io, mailboxes>>
    PROVE  RpcType'
<1>1. SessionType' /\ MailType' /\ IOType'  BY PartsRest
<1>2. Found'  BY DEF RpcType, Found, connection
<1>. QED  BY <1>1, <1>2 DEF RpcType, GameType

LEMMA FirstValues ==
    /\ 1 \in 1 .. 4 /\ 0 \in 0 .. MaxSessions /\ {} \in SUBSET HandlerNames
    /\ {"idle", "requests"} \subseteq GamePlaces
BY RpcAssumption DEF GamePlaces

LEMMA CallsType ==
    ASSUME RpcType, Calls
    PROVE  RpcType'
<1>1. /\ game \in Games /\ handlers \subseteq HandlerNames /\ Found /\ QueueType
      /\ FlagType /\ OutsideType /\ MailType
  BY DEF RpcType, GameType
<1>2. game.next \in 1 .. 4 /\ session \in 0 .. MaxSessions
  BY <1>1 DEF Games, RpcType, SessionType
<1>3. ASSUME NEW p \in Presences, SetPresence(p) PROVE RpcType'
  <2>1. FlagType'  BY <1>1, <1>3, FlagRaised, FlagsAre DEF SetPresence
  <2>2. MailType'  BY <1>1, <1>3 DEF SetPresence, MailType
  <2>3. OutsideType'  BY <1>1, <1>3, RpcAssumption DEF SetPresence, OutsideType
  <2>4. UNCHANGED <<connection, due, io, handlers, queues, game>>  BY <1>3 DEF SetPresence
  <2>5. Found'  BY <1>1, <2>4 DEF Found, connection, queues
  <2>. QED  BY <2>1, <2>2, <2>3, <2>4, <2>5, PartsRest DEF RpcType
<1>4. CASE Respond
  <2>1. game' \in Games /\ game'.pc = "asked"  BY <1>1, <1>2, <1>4 DEF Respond, Games, GamePlaces
  <2>2. FlagType' /\ OutsideType' /\ QueueType'  BY <1>4, PartsRest DEF Respond
  <2>. QED  BY <1>1, <1>4, <2>1, <2>2, GameStepType DEF Respond, queues
<1>5. CASE QueueReply
  <2>1. game' \in Games /\ game'.pc = "idle"
    BY <1>1, <1>5, FirstValues DEF QueueReply, Games
  <2>2. FlagType' /\ OutsideType'  BY <1>5, PartsRest DEF QueueReply
  <2>3. PICK c : c = [cmd |-> "REPLY", asked |-> game.asked]  OBVIOUS
  <2>4. c \in Commands  BY <1>1, <2>3 DEF Commands, Games
  <2>5. PICK new : new = << c >>  OBVIOUS
  <2>6. new \in Seq(Commands)  BY <2>4, <2>5
  <2>7. QueueType' /\ (sendq # << >> => sendq' # << >>)
    BY <1>1, <1>5, <2>3, <2>5, <2>6, QueueGrows DEF QueueReply
  <2>. QED  BY <1>1, <1>5, <2>1, <2>2, <2>7, GameStepType DEF QueueReply
<1>6. ASSUME NEW new \in HandlerChoices, SetHandlers(new) PROVE RpcType'
  <2>1. new \in SUBSET HandlerNames  BY RpcAssumption
  <2>2. game' \in Games /\ game'.pc = "handlers"
    BY <1>1, <1>6, <2>1 DEF SetHandlers, Games, GamePlaces
  <2>3. OutsideType'  BY <1>1, <1>6, RpcAssumption DEF SetHandlers, OutsideType
  <2>4. FlagType' /\ QueueType'  BY <1>6, PartsRest DEF SetHandlers
  <2>. QED  BY <1>1, <1>6, <2>2, <2>3, <2>4, GameStepType DEF SetHandlers, queues
<1>7. CASE QueueChange
  <2>1. game.next \in 1 .. 3 /\ game.pc = "handlers" /\ game' = [game EXCEPT !.next = @ + 1]
    BY <1>2, <1>7 DEF QueueChange, Game
  <2>2. game.next + 1 \in 1 .. 4  BY <2>1
  <2>3. game' \in Games /\ game'.pc = "handlers"  BY <1>1, <2>1, <2>2 DEF Games
  <2>4. Change(EventOrder[game.next], handlers, game.new) \in Seq(Commands)
    BY <2>1, ChangeType
  <2>5. QueueType' /\ (sendq # << >> => sendq' # << >>)
    BY <1>1, <1>7, <2>4, QueueGrows DEF QueueChange
  <2>6. FlagType' /\ OutsideType'  BY <1>7, PartsRest DEF QueueChange
  <2>. QED  BY <1>1, <1>7, <2>3, <2>5, <2>6, GameStepType DEF QueueChange
<1>8. CASE InstallHandlers
  <2>1. game' \in Games /\ game'.pc = "idle"
    BY <1>1, <1>8, FirstValues DEF InstallHandlers, Games
  <2>3. handlers' \subseteq HandlerNames  BY <1>1, <1>8 DEF InstallHandlers, Games
  <2>2. FlagType' /\ OutsideType' /\ QueueType'  BY <1>8, PartsRest DEF InstallHandlers
  <2>. QED  BY <1>1, <1>8, <2>1, <2>2, <2>3, GameStepType DEF InstallHandlers, queues
<1>9. CASE ClearHandlers
  <2>1. OutsideType'  BY <1>1, <1>9, RpcAssumption DEF ClearHandlers, OutsideType
  <2>2. FlagType' /\ QueueType'  BY <1>9, PartsRest DEF ClearHandlers
  <2>. QED  BY <1>1, <1>9, <2>1, <2>2, GameStepType DEF ClearHandlers, queues, Found
<1>. QED  BY <1>3, <1>4, <1>5, <1>6, <1>7, <1>8, <1>9 DEF Calls

LEMMA SignalsInOrder ==
    ASSUME game.next \in 1 .. 3
    PROVE  AtSignal \in Signals /\ AtSignal \in Flags
BY DEF AtSignal, SignalOrder, Signals, Flags

LEMMA CallbacksType ==
    ASSUME RpcType, Callbacks
    PROVE  RpcType'
<1>1. /\ game \in Games /\ handlers \subseteq HandlerNames /\ Found /\ QueueType
      /\ FlagType /\ OutsideType /\ MailType
  BY DEF RpcType, GameType
<1>2. game.next \in 1 .. 4 /\ game.pc \in GamePlaces  BY <1>1 DEF Games
<1>3. CASE RunCallbacks
  <2>1. game' \in Games /\ game'.pc = "isConnected"
    BY <1>1, <1>3, FlagsAre DEF RunCallbacks, Games, GamePlaces, FlagType
  <2>2. FlagType'  BY <1>1, <1>3, FlagLowered, FlagsAre DEF RunCallbacks
  <2>3. OutsideType' /\ QueueType'  BY <1>3, PartsRest DEF RunCallbacks
  <2>. QED  BY <1>1, <1>3, <2>1, <2>2, <2>3, GameStepType DEF RunCallbacks, queues
<1>4. CASE LookAtConnection
  <2>1. game' \in Games /\ game'.pc = "early"
    BY <1>1, <1>4 DEF LookAtConnection, Games, GamePlaces
  <2>2. FlagType' /\ OutsideType' /\ QueueType'  BY <1>4, PartsRest DEF LookAtConnection
  <2>. QED  BY <1>1, <1>4, <2>1, <2>2, GameStepType DEF LookAtConnection, queues
<1>5. CASE CallDisconnectedEarly
  <2>1. game' \in Games /\ game'.pc = "ready"
    BY <1>1, <1>5, GameMoves DEF CallDisconnectedEarly, GamePlaces
  <2>2. OutsideType'
    BY <1>1, <1>5 DEF CallDisconnectedEarly, TellDisconnected, OutsideType
  <2>3. FlagType' /\ QueueType'  BY <1>5, PartsRest DEF CallDisconnectedEarly
  <2>. QED  BY <1>1, <1>5, <2>1, <2>2, <2>3, GameStepType DEF CallDisconnectedEarly, queues
<1>6. CASE TakeConnected
  <2>1. game' \in Games /\ game'.pc \in {"callReady", "signal"}
    BY <1>1, <1>6, GameMoves DEF TakeConnected, GamePlaces
  <2>2. FlagType'  BY <1>1, <1>6, FlagLowered, FlagsAre DEF TakeConnected
  <2>3. OutsideType' /\ QueueType'  BY <1>6, PartsRest DEF TakeConnected
  <2>. QED  BY <1>1, <1>6, <2>1, <2>2, <2>3, GameStepType DEF TakeConnected, queues
<1>7. CASE CallReady
  <2>1. game' \in Games /\ game'.pc = "signal"
    BY <1>1, <1>7, GameMoves DEF CallReady, GamePlaces
  <2>2. OutsideType'  BY <1>1, <1>7 DEF CallReady, OutsideType
  <2>3. FlagType' /\ QueueType'  BY <1>7, PartsRest DEF CallReady
  <2>. QED  BY <1>1, <1>7, <2>1, <2>2, <2>3, GameStepType DEF CallReady, queues
<1>8. CASE TakeSignal
  <2>1. game.next \in 1 .. 3 /\ game.pc = "signal" /\ Lower(AtSignal)
    BY <1>2, <1>8 DEF TakeSignal, Game
  <2>2. FlagType'  BY <1>1, <2>1, FlagLowered, SignalsInOrder
  <2>3. CASE game' = [game EXCEPT !.pc = "callSignal"]
    <3>1. game' \in Games /\ game'.pc = "callSignal" /\ game'.next = game.next
      BY <1>1, <2>3 DEF Games, GamePlaces
    <3>2. OutsideType' /\ QueueType'  BY <1>8, PartsRest DEF TakeSignal
    <3>. QED  BY <1>1, <1>8, <2>1, <2>2, <3>1, <3>2, GameStepType DEF TakeSignal, queues
  <2>4. CASE game' = [game EXCEPT !.next = @ + 1]
    <3>1. game.next + 1 \in 1 .. 4  BY <2>1
    <3>2. game' \in Games /\ game'.pc = "signal"  BY <1>1, <2>1, <2>4, <3>1 DEF Games
    <3>3. OutsideType' /\ QueueType'  BY <1>8, PartsRest DEF TakeSignal
    <3>. QED  BY <1>1, <1>8, <2>2, <3>2, <3>3, GameStepType DEF TakeSignal, queues
  <2>. QED  BY <1>8, <2>3, <2>4 DEF TakeSignal
<1>9. CASE CallSignal
  <2>1. game.pc = "callSignal" /\ game.next \in 1 .. 3
    BY <1>1, <1>2, <1>9 DEF CallSignal, Game, Found
  <2>2. game.next + 1 \in 1 .. 4  BY <2>1
  <2>3. game' \in Games /\ game'.pc = "signal"
    BY <1>1, <1>9, <2>2 DEF CallSignal, Games, GamePlaces
  <2>4. AtSignal \in Signals  BY <2>1, SignalsInOrder
  <2>5. OutsideType'  BY <1>1, <1>9, <2>4 DEF CallSignal, OutsideType, MailType
  <2>6. FlagType' /\ QueueType'  BY <1>9, PartsRest DEF CallSignal
  <2>. QED  BY <1>1, <1>9, <2>3, <2>5, <2>6, GameStepType DEF CallSignal, queues
<1>10. CASE SignalsDone
  <2>1. game' \in Games /\ game'.pc = "requests"
    BY <1>1, <1>10, FirstValues DEF SignalsDone, Games
  <2>2. FlagType' /\ OutsideType' /\ QueueType'  BY <1>10, PartsRest DEF SignalsDone
  <2>. QED  BY <1>1, <1>10, <2>1, <2>2, GameStepType DEF SignalsDone, queues
<1>11. CASE TakeJoinRequest
  <2>1. game' \in Games /\ game'.pc = "callRequest" /\ joinq # << >>
    BY <1>1, <1>11, GameMoves DEF TakeJoinRequest, GamePlaces
  <2>2. FlagType' /\ OutsideType' /\ QueueType'  BY <1>11, PartsRest DEF TakeJoinRequest
  <2>. QED  BY <1>1, <1>11, <2>1, <2>2, GameStepType DEF TakeJoinRequest, queues
<1>12. CASE CallJoinRequest
  <2>1. game' \in Games /\ game'.pc = "requests" /\ game.pc = "callRequest"
    BY <1>1, <1>12, GameMoves DEF CallJoinRequest, GamePlaces, Game
  <2>2. joinq # << >> /\ joinq' = Tail(joinq) /\ sendq' = sendq
    BY <1>1, <1>12, <2>1 DEF CallJoinRequest, Found
  <2>3. joinq' \in Seq(Values) /\ Len(joinq') = Len(joinq) - 1 /\ Len(joinq) \in Nat
    BY <1>1, <2>2, HeadTailProperties, LenProperties DEF QueueType
  <2>4. QueueType'  BY <1>1, <2>2, <2>3, RpcAssumption DEF QueueType
  <2>5. FlagType' /\ OutsideType'  BY <1>12, PartsRest DEF CallJoinRequest
  <2>. QED  BY <1>1, <1>12, <2>1, <2>2, <2>4, <2>5, GameStepType DEF CallJoinRequest
<1>13. CASE RequestsDone
  <2>1. game' \in Games /\ game'.pc = "late"
    BY <1>1, <1>13, GameMoves DEF RequestsDone, GamePlaces
  <2>2. FlagType' /\ OutsideType' /\ QueueType'  BY <1>13, PartsRest DEF RequestsDone
  <2>. QED  BY <1>1, <1>13, <2>1, <2>2, GameStepType DEF RequestsDone, queues
<1>14. CASE CallDisconnectedLate
  <2>1. game' \in Games /\ game'.pc = "idle"
    BY <1>1, <1>14 DEF CallDisconnectedLate, Games, GamePlaces
  <2>2. OutsideType'
    BY <1>1, <1>14 DEF CallDisconnectedLate, TellDisconnected, OutsideType
  <2>3. FlagType' /\ QueueType'  BY <1>14, PartsRest DEF CallDisconnectedLate
  <2>. QED  BY <1>1, <1>14, <2>1, <2>2, <2>3, GameStepType DEF CallDisconnectedLate, queues
<1>. QED
  BY <1>3, <1>4, <1>5, <1>6, <1>7, <1>8, <1>9, <1>10, <1>11, <1>12, <1>13, <1>14 DEF Callbacks

LEMMA RpcTypeInitially == Init => RpcType
<1>. SUFFICES ASSUME Init PROVE RpcType  OBVIOUS
<1>1. MaxInbox \in Nat /\ MaxSessions \in Nat /\ QueueSize \in Nat /\ MaxCalls \in Nat
  BY RpcAssumption
<1>2. client \in Clients  BY DEF Init, NewClient, Clients
<1>3. /\ inbox \in Seq(Messages) /\ sendq \in Seq(Commands) /\ joinq \in Seq(Values)
      /\ announced \in Announced /\ Len(inbox) <= MaxInbox /\ Len(sendq) <= QueueSize /\ Len(joinq) <= QueueSize
  BY <1>1, EmptySeq DEF Init, Session!Init, Announced
<1>4. io \in IOs /\ game \in Games
  BY <1>1 DEF Init, IOs, IOPlaces, Returns, Games, GamePlaces
<1>5. SessionType /\ QueueType
  BY <1>1, <1>2, <1>3 DEF Init, Session!Init, SessionType, QueueType, Statuses
<1>6. IOType /\ FlagType /\ MailType /\ GameType /\ OutsideType
  BY <1>1, <1>4 DEF Init, IOType, FlagType, MailType, GameType, OutsideType
<1>7. Found  BY DEF Init, Found
<1>. QED  BY <1>5, <1>6, <1>7 DEF RpcType

LEMMA RpcTypeIsInductive == RpcType /\ [Next]_vars => RpcType'
<1>. SUFFICES ASSUME RpcType, [Next]_vars PROVE RpcType'  OBVIOUS
<1>1. CASE UNCHANGED vars
  <2>1. Found'  BY <1>1 DEF vars, connection, queues, RpcType, Found
  <2>. QED  BY <1>1, <2>1, PartsRest DEF vars, RpcType
<1>. QED
  BY <1>1, UpdateConnectionType, CallsType, CallbacksType, OutsideStepsType DEF Next

THEOREM RpcTypeInvariant == Spec => []RpcType
BY RpcTypeInitially, RpcTypeIsInductive, PTL DEF Spec

\* Every variable keeps its type, and no queue holds more than its size,
\* whatever the threads do.
THEOREM TypeCorrect == Spec => []TypeOK
BY RpcTypeInvariant, TypeOKIs, PTL

-----------------------------------------------------------------------------
(* The presence. *)

\* Where a presence that is not pending has reached the client: everywhere but
\* while it is being sent, and between READY and the end of onConnect's second
\* step.
InSyncPlaces ==
    {"wait", "update", "announce", "read", "raise", "write", "drain", "commit"}

\* The copy in flight is the presence that is queued, unless a newer one is
\* pending; and while none has been set, none is shown.
Sync ==
    /\ presence = NoPresence => client.activity = NoPresence
    /\ io.pc \in {"copy", "send"} => presence # NoPresence
    /\ io.pc \in {"send", "requeue"} => io.copy # NoPresence
    /\ io.pc \in {"closing", "closed"} /\ io.return = "requeue" => io.copy # NoPresence
    /\ status = "up" /\ io.pc \in InSyncPlaces /\ ~ flag["presence"]
           => client.activity = presence
    /\ io.pc = "send" /\ ~ flag["presence"] => io.copy = presence

LEMMA SyncRests ==
    ASSUME Sync, UNCHANGED <<presence, client, status, io>>, flag'["presence"] = flag["presence"]
    PROVE  Sync'
BY DEF Sync

LEMMA SyncMoves ==
    ASSUME Sync, UNCHANGED <<presence, client, status>>, flag'["presence"] = flag["presence"],
           io.pc \in InSyncPlaces,
           io'.pc \in InSyncPlaces \cup {"subscribe"}
               \/ (io'.pc = "closing" /\ io'.return # "requeue")
    PROVE  Sync'
BY DEF Sync, InSyncPlaces

LEMMA NotThePresence ==
    ASSUME FlagType, NEW f \in Flags, f # "presence", Raise(f) \/ Lower(f)
    PROVE  flag'["presence"] = flag["presence"]
BY DEF Raise, Lower, FlagType, Flags

LEMMA UpdateConnectionSyncs ==
    ASSUME RpcType, Sync, UpdateConnection
    PROVE  Sync'
<1>1. /\ io \in IOs /\ FlagType /\ Found /\ client \in Clients
      /\ presence \in Presences \cup {NoPresence}
  BY DEF RpcType, IOType, SessionType, MailType
<1>2. CASE Wake \/ NotYetDue \/ StartReading \/ ReadNothing \/ UpdateDone
  <2>1. io.pc \in InSyncPlaces /\ io'.pc \in InSyncPlaces
    BY <1>1, <1>2, IOMoves
       DEF Wake, NotYetDue, StartReading, ReadNothing, UpdateDone, IO, IOPlaces, InSyncPlaces
  <2>2. UNCHANGED <<presence, client, status, flag>>
    BY <1>2 DEF Wake, NotYetDue, StartReading, ReadNothing, UpdateDone, mailboxes, connection
  <2>. QED  BY <2>1, <2>2, SyncMoves
<1>3. CASE Connect
  <2>1. io.pc = "update" /\ io'.pc = "wait" /\ UNCHANGED <<presence, flag>> /\ status = "down"
    BY <1>1, <1>3, IOMoves DEF Connect, IO, IOPlaces, mailboxes
  <2>2. CASE UNCHANGED connection
    BY <2>1, <2>2, SyncMoves DEF connection, InSyncPlaces
  <2>3. CASE Session!Begin /\ client' = NewClient
    <3>1. status' = "handshaking" /\ client'.activity = NoPresence
      BY <2>3 DEF Session!Begin, NewClient
    <3>. QED  BY <2>1, <3>1 DEF Sync
  <2>. QED  BY <1>3, <2>2, <2>3 DEF Connect
<1>4. CASE PollReady
  <2>1. io.pc = "update" /\ status = "handshaking" /\ UNCHANGED <<presence, flag, client>>
    BY <1>4 DEF PollReady, IO, mailboxes, connection
  <2>2. CASE io'.pc = "subscribe"  BY <2>1, <2>2 DEF Sync, InSyncPlaces
  <2>3. CASE status' = status /\ (io'.pc = "wait" \/ (io'.pc = "closing" /\ io'.return = "wait"))
    BY <2>1, <2>3, SyncMoves DEF InSyncPlaces
  <2>. QED
    BY <1>1, <1>4, <2>2, <2>3, IOMoves, IOCloses
       DEF PollReady, IOPlaces, Returns, connection, Session!Ignore
<1>5. CASE OnConnectHandlers
  <2>1. io'.pc = "resend" /\ UNCHANGED <<presence, client, status, flag>>
    BY <1>1, <1>5, IOMoves DEF OnConnectHandlers, IOPlaces, mailboxes, connection
  <2>. QED  BY <2>1 DEF Sync, InSyncPlaces
<1>6. CASE OnConnectPresence
  <2>1. io'.pc = "announce" /\ UNCHANGED <<presence, client, status>>
    BY <1>1, <1>6, IOMoves DEF OnConnectPresence, IOPlaces, mailboxes, connection
  <2>2. presence # NoPresence => flag'["presence"]
    BY <1>1, <1>6, FlagRaised, FlagsAre DEF OnConnectPresence
  <2>. QED  BY <2>1, <2>2 DEF Sync
<1>7. CASE OnConnectAnnounce
  <2>1. io.pc = "announce" /\ io'.pc = "wait" /\ UNCHANGED <<presence, client, status>>
    BY <1>1, <1>7, IOMoves DEF OnConnectAnnounce, IO, IOPlaces, mailboxes, connection
  <2>2. flag'["presence"] = flag["presence"]
    BY <1>1, <1>7, NotThePresence, FlagsAre DEF OnConnectAnnounce
  <2>. QED  BY <2>1, <2>2, SyncMoves DEF InSyncPlaces
<1>8. CASE OnDisconnect
  <2>1. /\ io.pc = "closing" /\ io'.pc = "closed" /\ io'.return = io.return /\ io'.copy = io.copy
        /\ UNCHANGED <<presence, client, status>>
    BY <1>1, <1>8, IOMoves DEF OnDisconnect, IO, IOPlaces, mailboxes, connection
  <2>. QED  BY <2>1 DEF Sync, InSyncPlaces
<1>9. CASE Closed
  <2>1. io.pc = "closed" /\ io.return \in IOPlaces /\ io.return \in Returns
    BY <1>1, <1>9 DEF Closed, IO, IOs, Returns, IOPlaces
  <2>2. io'.pc = io.return /\ io'.copy = io.copy  BY <1>1, <1>9, <2>1, IOMoves DEF Closed
  <2>3. status' = "down" /\ UNCHANGED <<presence, client>>
    BY <1>9 DEF Closed, Session!End, mailboxes
  <2>. QED  BY <2>1, <2>2, <2>3 DEF Sync, Returns
<1>10. CASE ReadFails
  <2>1. /\ io.pc = "read" /\ io'.pc = "closing" /\ io'.return = "write"
        /\ UNCHANGED <<presence, client, status, flag>>
    BY <1>1, <1>10, IOCloses DEF ReadFails, IO, Returns, mailboxes, connection
  <2>. QED  BY <2>1, SyncMoves DEF InSyncPlaces
<1>11. CASE ReadSignal
  <2>1. /\ io.pc = "read" /\ io'.pc = "raise" /\ UNCHANGED <<presence, client, status, flag>>
    BY <1>1, <1>11, IOMoves DEF ReadSignal, IO, IOPlaces, Session!Deliver
  <2>. QED  BY <2>1, SyncMoves DEF InSyncPlaces
<1>12. CASE RaiseSignal
  <2>1. /\ io.pc = "raise" /\ io'.pc = "read" /\ UNCHANGED <<presence, client, status>>
    BY <1>1, <1>12, IOMoves DEF RaiseSignal, IO, IOPlaces, mailboxes, connection
  <2>2. got.kind \in Signals /\ Raise(got.kind)  BY <1>1, <1>12, <2>1 DEF RaiseSignal, Found
  <2>3. flag'["presence"] = flag["presence"]
    BY <1>1, <2>2, NotThePresence, FlagsAre DEF Signals
  <2>. QED  BY <2>1, <2>3, SyncMoves DEF InSyncPlaces
<1>13. CASE ReadJoinRequest
  BY <1>13, SyncRests DEF ReadJoinRequest, Session!Deliver, mailboxes
<1>14. CASE TakePresence
  <2>1. /\ io.pc = "write" /\ UNCHANGED <<presence, client, status>>
        /\ io'.pc = IF flag["presence"] /\ presence # NoPresence THEN "copy" ELSE "drain"
    BY <1>1, <1>14, IOMoves DEF TakePresence, IO, IOPlaces, mailboxes, connection
  <2>. QED  BY <2>1 DEF Sync, InSyncPlaces
<1>15. CASE CopyPresence
  <2>1. /\ io.pc = "copy" /\ io'.pc = "send" /\ io'.copy = presence
        /\ UNCHANGED <<presence, client, status, flag>>
    BY <1>1, <1>15 DEF CopyPresence, IO, IOs, mailboxes, connection
  <2>. QED  BY <2>1 DEF Sync, InSyncPlaces
<1>16. CASE SendPresence
  <2>1. io.pc = "send" /\ UNCHANGED <<presence, status, flag>>
    BY <1>16 DEF SendPresence, IO, mailboxes
  <2>2. CASE client' = [client EXCEPT !.activity = io.copy] /\ IOGoes("drain")
    <3>1. client'.activity = io.copy /\ io'.pc = "drain"
      BY <1>1, <2>2, IOMoves DEF Clients, IOPlaces
    <3>. QED  BY <2>1, <3>1 DEF Sync
  <2>3. CASE UNCHANGED client /\ (CloseThen("requeue") \/ IOGoes("requeue"))
    <3>1. io'.copy = io.copy /\ io'.pc \in {"closing", "requeue"}
      BY <1>1, <2>3, IOMoves, IOCloses DEF IOPlaces, Returns
    <3>. QED  BY <2>1, <2>3, <3>1 DEF Sync, InSyncPlaces
  <2>. QED  BY <1>16, <2>2, <2>3 DEF SendPresence
<1>17. CASE RequeuePresence
  <2>1. /\ io.pc = "requeue" /\ io'.pc = "drain" /\ presence' = io.copy
        /\ UNCHANGED <<client, status>>
    BY <1>1, <1>17, IOMoves DEF RequeuePresence, IO, IOPlaces, connection
  <2>2. flag'["presence"]  BY <1>1, <1>17, FlagRaised, FlagsAre DEF RequeuePresence
  <2>. QED  BY <2>1, <2>2 DEF Sync
<1>18. CASE SendCommand
  <2>1. /\ io.pc = "drain" /\ UNCHANGED <<presence, status, flag>>
        /\ \/ io'.pc = "commit"
           \/ io'.pc = "closing" /\ io'.return = "commit"
    BY <1>1, <1>18, IOMoves, IOCloses DEF SendCommand, IO, IOPlaces, Returns, mailboxes
  <2>2. client'.activity = client.activity
    <3>1. CASE client' = client  BY <3>1
    <3>2. CASE Receives(Head(sendq))
      <4>1. PICK c : c = Head(sendq)  OBVIOUS
      <4>2. c \in Commands
        BY <1>18, <4>1, HeadTailProperties DEF SendCommand, RpcType, QueueType
      <4>3. c.cmd \in {"SUBSCRIBE", "UNSUBSCRIBE", "REPLY"}  BY <4>2 DEF Commands
      <4>. QED  BY <1>1, <3>2, <4>1, <4>3 DEF Receives, Clients
    <3>. QED  BY <1>18, <3>1, <3>2 DEF SendCommand
  <2>. QED  BY <2>1, <2>2 DEF Sync, InSyncPlaces
<1>19. CASE CommitCommand
  <2>1. /\ io.pc = "commit" /\ io'.pc = "drain" /\ UNCHANGED <<presence, client, status, flag>>
    BY <1>1, <1>19, IOMoves DEF CommitCommand, IO, IOPlaces, mailboxes, connection
  <2>. QED  BY <2>1, SyncMoves DEF InSyncPlaces
<1>. QED
  BY <1>2, <1>3, <1>4, <1>5, <1>6, <1>7, <1>8, <1>9, <1>10, <1>11, <1>12, <1>13, <1>14,
     <1>15, <1>16, <1>17, <1>18, <1>19 DEF UpdateConnection

LEMMA OthersSync ==
    ASSUME RpcType, Sync, Callbacks \/ Calls \/ TimePasses \/ (\E m \in Messages : ClientSends(m))
    PROVE  Sync'
<1>1. FlagType /\ game.next \in 1 .. 4 /\ Found
  BY DEF RpcType, GameType, Games
<1>2. CASE \E p \in Presences : SetPresence(p)
  <2>1. PICK p \in Presences : SetPresence(p)  BY <1>2
  <2>2. presence' = p /\ p # NoPresence /\ UNCHANGED <<client, status, io>>
    BY <2>1, RpcAssumption DEF SetPresence, connection
  <2>3. flag'["presence"]  BY <1>1, <2>1, FlagRaised, FlagsAre DEF SetPresence
  <2>. QED  BY <2>2, <2>3 DEF Sync
<1>3. CASE RunCallbacks \/ TakeConnected \/ TakeSignal
  <2>1. UNCHANGED <<presence, client, status, io>>
    BY <1>3 DEF RunCallbacks, TakeConnected, TakeSignal, mailboxes, connection
  <2>2. PICK f \in Flags \ {"presence"} : Lower(f)
    <3>1. CASE RunCallbacks  BY <3>1, FlagsAre DEF RunCallbacks
    <3>2. CASE TakeConnected  BY <3>2, FlagsAre DEF TakeConnected
    <3>3. CASE TakeSignal
      <4>1. game.next \in 1 .. 3 /\ Lower(AtSignal)  BY <1>1, <3>3 DEF TakeSignal
      <4>2. AtSignal \in Signals /\ AtSignal \in Flags  BY <4>1, SignalsInOrder
      <4>. QED  BY <4>1, <4>2 DEF Signals
    <3>. QED  BY <1>3, <3>1, <3>2, <3>3
  <2>3. flag'["presence"] = flag["presence"]  BY <1>1, <2>2, NotThePresence
  <2>. QED  BY <2>1, <2>3, SyncRests
<1>4. ASSUME NEW m \in Messages, ClientSends(m) PROVE Sync'
  BY <1>4, SyncRests DEF ClientSends, Session!Arrive, mailboxes
<1>5. CASE \/ LookAtConnection \/ CallDisconnectedEarly \/ CallReady \/ CallSignal
           \/ SignalsDone \/ TakeJoinRequest \/ CallJoinRequest \/ RequestsDone
           \/ CallDisconnectedLate \/ TimePasses
  BY <1>5, SyncRests
     DEF LookAtConnection, CallDisconnectedEarly, CallReady, CallSignal, SignalsDone,
         TakeJoinRequest, CallJoinRequest, RequestsDone, CallDisconnectedLate, TimePasses,
         mailboxes, connection
<1>6. CASE \/ Respond \/ QueueReply \/ ClearHandlers \/ QueueChange \/ InstallHandlers
           \/ \E new \in HandlerChoices : SetHandlers(new)
  BY <1>6, SyncRests
     DEF Respond, QueueReply, ClearHandlers, QueueChange, InstallHandlers, SetHandlers,
         mailboxes, connection
<1>. QED  BY <1>2, <1>3, <1>4, <1>5, <1>6 DEF Callbacks, Calls

LEMMA SyncInitially == Init => Sync
BY DEF Init, NewClient, Sync, Session!Init

\* The presence that the client shows is the one that is queued, whenever
\* nothing is pending, whatever connections were lost and whatever the game
\* has set meanwhile.
THEOREM PresenceStaysInSync == Spec => []PresenceInSync
<1>1. RpcType /\ Sync /\ [Next]_vars => Sync'
  <2>. SUFFICES ASSUME RpcType, Sync, [Next]_vars PROVE Sync'  OBVIOUS
  <2>1. CASE UNCHANGED vars  BY <2>1, SyncRests DEF vars, connection, mailboxes
  <2>. QED  BY <2>1, UpdateConnectionSyncs, OthersSync DEF Next
<1>2. Sync => PresenceInSync  BY DEF Sync, PresenceInSync, AtRest, InSyncPlaces
<1>. QED  BY <1>1, <1>2, SyncInitially, RpcTypeInvariant, PTL DEF Spec

-----------------------------------------------------------------------------
(* The places of the IO thread. *)

\* What the place of the IO thread says of the connection.
Standing ==
    /\ io.pc \in {"subscribe", "resend", "announce", "read", "raise"} => status = "up"
    /\ io.pc \in {"closing", "closed"} => status # "down"
    /\ io.pc \in {"closing", "closed"} /\ io.return = "wait" => status = "handshaking"

LEMMA StandingStep == RpcType /\ Standing /\ [Next]_vars => Standing'
<1>. SUFFICES ASSUME RpcType, Standing, [Next]_vars PROVE Standing'  OBVIOUS
<1>1. io \in IOs  BY DEF RpcType, IOType
<1>2. CASE UNCHANGED <<io, status>>  BY <1>2 DEF Standing
<1>3. CASE Wake \/ NotYetDue \/ StartReading \/ ReadNothing \/ ReadSignal \/ RaiseSignal
           \/ ReadJoinRequest
  <2>1. status' = status /\ (UNCHANGED io \/ io'.pc \in {"update", "wait", "write"}
                               \/ (io'.pc \in {"raise", "read"} /\ status = "up"))
    BY <1>1, <1>3, IOMoves DEF Wake, NotYetDue, StartReading, ReadNothing, ReadSignal, RaiseSignal,
       ReadJoinRequest, IO, IOPlaces, connection, Session!Deliver, Standing
  <2>. QED  BY <2>1 DEF Standing
<1>4. CASE Connect
  <2>1. io'.pc = "wait"  BY <1>1, <1>4, IOMoves DEF Connect, IOPlaces
  <2>. QED  BY <2>1 DEF Standing
<1>5. CASE PollReady
  <2>1. CASE IOGoes("wait")
    <3>1. io'.pc = "wait"  BY <1>1, <2>1, IOMoves DEF IOPlaces
    <3>. QED  BY <3>1 DEF Standing
  <2>2. CASE IOGoes("subscribe") /\ Session!BecomeUp
    <3>1. io'.pc = "subscribe" /\ status' = "up"
      BY <1>1, <2>2, IOMoves DEF IOPlaces, Session!BecomeUp
    <3>. QED  BY <3>1 DEF Standing
  <2>3. CASE UNCHANGED connection /\ CloseThen("wait")
    <3>1. io'.pc = "closing" /\ status' = status  BY <1>1, <2>3, IOCloses DEF Returns, connection
    <3>. QED  BY <1>5, <3>1 DEF Standing, PollReady
  <2>. QED  BY <1>5, <2>1, <2>2, <2>3 DEF PollReady
<1>6. CASE OnConnectHandlers \/ OnConnectPresence \/ OnConnectAnnounce
  <2>1. status' = status /\ status = "up" /\ io'.pc \in {"resend", "announce", "wait"}
    BY <1>1, <1>6, IOMoves
       DEF OnConnectHandlers, OnConnectPresence, OnConnectAnnounce, IO, IOPlaces, connection, Standing
  <2>. QED  BY <2>1 DEF Standing
<1>7. CASE OnDisconnect
  <2>1. io.pc = "closing" /\ io'.pc = "closed" /\ io'.return = io.return /\ status' = status
    BY <1>1, <1>7, IOMoves DEF OnDisconnect, IO, IOPlaces, connection
  <2>. QED  BY <2>1 DEF Standing
<1>8. CASE Closed
  <2>1. io.return \in IOPlaces /\ io.return \in Returns  BY <1>1 DEF IOs, Returns, IOPlaces
  <2>2. io'.pc = io.return  BY <1>1, <1>8, <2>1, IOMoves DEF Closed
  <2>. QED  BY <2>1, <2>2 DEF Standing, Returns
<1>9. CASE ReadFails
  <2>1. io'.pc = "closing" /\ io'.return = "write" /\ io.pc = "read" /\ status' = status
    BY <1>1, <1>9, IOCloses DEF ReadFails, IO, Returns, connection
  <2>. QED  BY <2>1 DEF Standing
<1>10. CASE SendPresence \/ SendCommand
  <2>1. status' = status  BY <1>10 DEF SendPresence, SendCommand
  <2>2. \/ io'.pc \in {"drain", "requeue", "commit"}
        \/ io'.pc = "closing" /\ io'.return \in {"requeue", "commit"} /\ status = "up"
    BY <1>1, <1>10, IOMoves, IOCloses DEF SendPresence, SendCommand, IOPlaces, Returns
  <2>. QED  BY <2>1, <2>2 DEF Standing
<1>11. CASE TakePresence \/ CopyPresence \/ RequeuePresence \/ CommitCommand \/ UpdateDone
  <2>1. io'.pc \in {"copy", "send", "drain", "wait"}
    BY <1>1, <1>11, IOMoves
       DEF TakePresence, CopyPresence, RequeuePresence, CommitCommand, UpdateDone, IOPlaces, IOs
  <2>. QED  BY <2>1 DEF Standing
<1>12. CASE Callbacks \/ Calls
  <2>1. UNCHANGED <<io, status>>
    <3>1. CASE Callbacks
      BY <3>1 DEF Callbacks, RunCallbacks, LookAtConnection, CallDisconnectedEarly, TakeConnected,
             CallReady, TakeSignal, CallSignal, SignalsDone, TakeJoinRequest, CallJoinRequest,
             RequestsDone, CallDisconnectedLate, connection
    <3>2. CASE Calls
      BY <3>2 DEF Calls, SetPresence, Respond, QueueReply, ClearHandlers, QueueChange,
             InstallHandlers, SetHandlers, connection
    <3>. QED  BY <1>12, <3>1, <3>2
  <2>. QED  BY <1>2, <2>1
<1>13. CASE TimePasses \/ (\E m \in Messages : ClientSends(m))
  BY <1>2, <1>13 DEF TimePasses, ClientSends, Session!Arrive, connection
<1>14. CASE UNCHANGED vars  BY <1>2, <1>14 DEF vars, connection
<1>. QED
  BY <1>3, <1>4, <1>5, <1>6, <1>7, <1>8, <1>9, <1>10, <1>11, <1>12, <1>13, <1>14
     DEF Next, UpdateConnection

LEMMA StandingInvariant == Spec => []Standing
<1>1. Init => Standing  BY DEF Init, Standing
<1>. QED  BY <1>1, RpcTypeInvariant, StandingStep, PTL DEF Spec

-----------------------------------------------------------------------------
(* Subscriptions. *)

Subscribe(e) == [cmd |-> "SUBSCRIBE", evt |-> e]
Unsubscribe(e) == [cmd |-> "UNSUBSCRIBE", evt |-> e]

Asks(q, e) == \E k \in 1 .. Len(q) : q[k] = Subscribe(e)
Keeps(q, e) == \A k \in 1 .. Len(q) : q[k] # Unsubscribe(e)

\* Once the client has received the queue it sends the event.
WillSend(subs, q, e) ==
    \/ \E k \in 1 .. Len(q) :
           q[k] = Subscribe(e) /\ \A j \in 1 .. Len(q) : j > k => q[j] # Unsubscribe(e)
    \/ e \in subs /\ Keeps(q, e)

\* What onConnect, or the game, is about to queue fits: nothing is dropped.
Room ==
    /\ io.pc = "subscribe" => Len(sendq) + Len(Changes(handlers, InitialHandlers)) <= QueueSize
    /\ game.pc = "handlers" /\ game.next <= 3
           => Len(sendq) + Len(Change(EventOrder[game.next], handlers, game.new)) <= QueueSize

LEMMA CommandsDiffer ==
    \A d, e \in EventNames : /\ Subscribe(d) # Unsubscribe(e)
                             /\ Subscribe(d) = Subscribe(e) => d = e
                             /\ Unsubscribe(d) = Unsubscribe(e) => d = e
<1>1. ASSUME NEW d \in EventNames, NEW e \in EventNames
      PROVE  /\ Subscribe(d) # Unsubscribe(e)
             /\ Subscribe(d) = Subscribe(e) => d = e
             /\ Unsubscribe(d) = Unsubscribe(e) => d = e
  <2>1. PICK sd, se, ud, ue : /\ sd = Subscribe(d) /\ se = Subscribe(e)
                              /\ ud = Unsubscribe(d) /\ ue = Unsubscribe(e)
    OBVIOUS
  <2>2. /\ sd.cmd = "SUBSCRIBE" /\ ue.cmd = "UNSUBSCRIBE"
        /\ sd.evt = d /\ se.evt = e /\ ud.evt = d /\ ue.evt = e
    BY <2>1 DEF Subscribe, Unsubscribe
  <2>. QED  BY <2>1, <2>2
<1>. QED  BY <1>1

LEMMA EventsInOrder ==
    /\ \A n \in 1 .. 3 : EventOrder[n] \in EventNames
    /\ \A e \in EventNames : \E n \in 1 .. 3 : e = EventOrder[n]
    /\ \A m, n \in 1 .. 3 : EventOrder[m] = EventOrder[n] => m = n
BY DEF EventOrder, EventNames

\* What a queue promises of an event lasts, as long as nothing that is added
\* takes it back.
LEMMA StillSends ==
    ASSUME NEW q \in Seq(Commands), Len(q) <= QueueSize, NEW new \in Seq(Commands),
           NEW e \in EventNames, NEW subs, WillSend(subs, q, e), Keeps(new, e)
    PROVE  WillSend(subs, Enqueue(q, new), e)
<1>1. PICK p : p = Enqueue(q, new)  OBVIOUS
<1>2. PICK n \in Nat, m \in Nat : n = Len(q) /\ m = Len(p)
  <2>1. p \in Seq(Commands)  BY <1>1, Enqueued
  <2>. QED  BY <2>1, LenProperties
<1>3. /\ m >= n
      /\ \A i \in 1 .. n : p[i] = q[i]
      /\ \A i \in 1 .. m : i \in 1 .. n \/ \E j \in 1 .. Len(new) : p[i] = new[j]
  BY <1>1, <1>2, Enqueued
<1>4. \A i \in 1 .. m : i \in 1 .. n \/ p[i] # Unsubscribe(e)  BY <1>3 DEF Keeps
<1>5. CASE e \in subs /\ Keeps(q, e)
  <2>1. \A i \in 1 .. m : p[i] # Unsubscribe(e)  BY <1>2, <1>3, <1>4, <1>5 DEF Keeps
  <2>. QED  BY <1>1, <1>2, <1>5, <2>1 DEF WillSend, Keeps
<1>6. ASSUME NEW k \in 1 .. n, q[k] = Subscribe(e),
             \A j \in 1 .. n : j > k => q[j] # Unsubscribe(e)
      PROVE  WillSend(subs, p, e)
  <2>1. k \in 1 .. m /\ p[k] = Subscribe(e)  BY <1>3, <1>6
  <2>2. \A j \in 1 .. m : j > k => p[j] # Unsubscribe(e)  BY <1>3, <1>4, <1>6
  <2>. QED  BY <1>2, <2>1, <2>2 DEF WillSend
<1>. QED  BY <1>1, <1>2, <1>5, <1>6 DEF WillSend

LEMMA JoinedCommands ==
    ASSUME NEW a \in Seq(Commands), NEW b \in Seq(Commands), NEW e \in EventNames
    PROVE  /\ a \o b \in Seq(Commands) /\ Len(a \o b) = Len(a) + Len(b)
           /\ Keeps(a, e) /\ Keeps(b, e) => Keeps(a \o b, e)
           /\ Asks(a, e) \/ Asks(b, e) => Asks(a \o b, e)
           /\ Asks(b, e) /\ Keeps(b, e) => \A subs : WillSend(subs, a \o b, e)
<1>1. PICK c : c = a \o b  OBVIOUS
<1>2. PICK n \in Nat, m \in Nat : n = Len(a) /\ m = Len(b)  BY LenProperties
<1>3. /\ c \in Seq(Commands) /\ Len(c) = n + m
      /\ \A i \in 1 .. n + m : c[i] = IF i <= n THEN a[i] ELSE b[i - n]
  BY <1>1, <1>2, ConcatProperties
<1>4. \A i \in 1 .. n : i \in 1 .. n + m /\ c[i] = a[i]  BY <1>3
<1>5. ASSUME NEW i \in 1 .. m PROVE i + n \in 1 .. n + m /\ c[i + n] = b[i]
  <2>1. PICK j : j = i + n  OBVIOUS
  <2>2. j \in 1 .. n + m /\ ~ j <= n /\ j - n = i  BY <2>1
  <2>3. c[j] = b[i]  BY <1>3, <2>2
  <2>. QED  BY <2>1, <2>2, <2>3
<1>6. ASSUME NEW i \in 1 .. n + m, ~ i <= n PROVE \E j \in 1 .. m : j = i - n /\ c[i] = b[j]
  <2>1. PICK j : j = i - n  OBVIOUS
  <2>2. j \in 1 .. m /\ c[i] = b[j]  BY <1>3, <1>6, <2>1
  <2>. QED  BY <2>1, <2>2
<1>7. Keeps(a, e) /\ Keeps(b, e) => Keeps(c, e)
  BY <1>2, <1>3, <1>4, <1>6 DEF Keeps
<1>8. Asks(a, e) => Asks(c, e)  BY <1>2, <1>3, <1>4 DEF Asks
<1>9. ASSUME NEW k \in 1 .. m, b[k] = Subscribe(e)
      PROVE  Asks(c, e) /\ (Keeps(b, e) => \A subs : WillSend(subs, c, e))
  <2>1. PICK l : l = k + n  OBVIOUS
  <2>2. l \in 1 .. n + m /\ c[l] = Subscribe(e) /\ l > n  BY <1>5, <1>9, <2>1
  <2>3. ASSUME Keeps(b, e), NEW j \in 1 .. n + m, j > l PROVE c[j] # Unsubscribe(e)
    <3>1. ~ j <= n  BY <2>2, <2>3
    <3>. QED  BY <1>2, <1>6, <2>3, <3>1 DEF Keeps
  <2>. QED  BY <1>3, <2>2, <2>3 DEF Asks, WillSend
<1>. QED  BY <1>1, <1>2, <1>3, <1>7, <1>8, <1>9 DEF Asks

\* What fits is queued whole.
LEMMA NowSends ==
    ASSUME NEW q \in Seq(Commands), NEW new \in Seq(Commands), Len(q) + Len(new) <= QueueSize,
           NEW e \in EventNames, NEW subs, Asks(new, e), Keeps(new, e)
    PROVE  WillSend(subs, Enqueue(q, new), e)
<1>1. PICK n \in Nat, m \in Nat : n = Len(q) /\ m = Len(new)  BY LenProperties
<1>2. QueueSize \in Nat  BY RpcAssumption
<1>3. (IF Len(new) < Fits(q) THEN Len(new) ELSE Fits(q)) = m  BY <1>1, <1>2 DEF Fits
<1>4. Enqueue(q, new) = q \o SubSeq(new, 1, m)  BY <1>3 DEF Enqueue
<1>5. SubSeq(new, 1, Len(new)) = new
  <2>1. PICK l \in Nat : l = Len(new)  BY <1>1
  <2>2. \A i \in 1 .. l : new[i] \in Commands  BY <2>1, ElementOfSeq
  <2>3. PICK s : s = SubSeq(new, 1, l)  OBVIOUS
  <2>4. /\ SubSeq(new, 1, l) \in Seq(Commands)
        /\ Len(SubSeq(new, 1, l)) = IF 1 <= l THEN l - 1 + 1 ELSE 0
        /\ \A i \in 1 .. l - 1 + 1 : SubSeq(new, 1, l)[i] = new[1 + i - 1]
    BY <2>2, SubSeqProperties
  <2>5. s \in Seq(Commands) /\ Len(s) = l  BY <2>3, <2>4
  <2>6. ASSUME NEW i \in 1 .. l PROVE s[i] = new[i]
    <3>1. i \in 1 .. l - 1 + 1 /\ 1 + i - 1 = i  OBVIOUS
    <3>2. PICK k : k = 1 + i - 1  OBVIOUS
    <3>3. s[i] = new[k]  BY <2>3, <2>4, <3>1, <3>2
    <3>. QED  BY <3>1, <3>2, <3>3
  <2>. QED  BY <2>1, <2>3, <2>5, <2>6, SeqEqual
<1>6. Enqueue(q, new) = q \o new  BY <1>1, <1>4, <1>5
<1>. QED  BY <1>6, JoinedCommands


\* What Discord_UpdateHandlers queues for an event: nothing that takes back
\* what is wanted, and a subscription to what is new.
LEMMA ChangeIs ==
    ASSUME NEW n \in 1 .. 3, NEW old, NEW new, NEW e \in EventNames,
           NEW c, c = Change(EventOrder[n], old, new)
    PROVE  /\ c \in Seq(Commands)
           /\ e # EventOrder[n] \/ e \in new => Keeps(c, e)
           /\ e = EventOrder[n] /\ e \in new \ old => Asks(c, e)
<1>1. PICK d \in EventNames : d = EventOrder[n]  BY EventsInOrder
<1>2. PICK s, u : s = Subscribe(d) /\ u = Unsubscribe(d)  OBVIOUS
<1>3. c = IF d \in new \ old THEN << s >> ELSE IF d \in old \ new THEN << u >> ELSE << >>
  BY <1>1, <1>2 DEF Change, Subscribe, Unsubscribe
<1>4. c \in Seq(Commands)  BY ChangeType
<1>5. CASE d \in new \ old
  <2>1. c = << s >>  BY <1>3, <1>5
  <2>2. Len(c) = 1 /\ c[1] = s  BY <2>1
  <2>. QED  BY <1>1, <1>2, <1>4, <2>2, CommandsDiffer DEF Keeps, Asks
<1>6. CASE d \notin new \ old /\ d \in old \ new
  <2>1. c = << u >>  BY <1>3, <1>6
  <2>2. Len(c) = 1 /\ c[1] = u  BY <2>1
  <2>. QED  BY <1>1, <1>2, <1>4, <1>6, <2>2, CommandsDiffer DEF Keeps, Asks
<1>7. CASE d \notin new \ old /\ d \notin old \ new
  <2>1. c = << >>  BY <1>3, <1>7
  <2>2. Len(c) = 0  BY <2>1
  <2>. QED  BY <1>1, <1>4, <1>7, <2>2 DEF Keeps, Asks
<1>. QED  BY <1>5, <1>6, <1>7

LEMMA ChangesAre ==
    ASSUME NEW old, NEW new, NEW e \in EventNames, NEW c, c = Changes(old, new)
    PROVE  /\ c \in Seq(Commands)
           /\ e \in new => Keeps(c, e)
           /\ e \in new \ old => Asks(c, e)
<1>1. PICK i \in 1 .. 3, j \in 1 .. 3, k \in 1 .. 3 : i = 1 /\ j = 2 /\ k = 3  OBVIOUS
<1>2. PICK x, y, z :
          /\ x = Change(EventOrder[i], old, new) /\ y = Change(EventOrder[j], old, new)
          /\ z = Change(EventOrder[k], old, new)
  OBVIOUS
<1>3. x \in Seq(Commands) /\ y \in Seq(Commands) /\ z \in Seq(Commands)
  BY <1>2, ChangeType
<1>4. e \in new => Keeps(x, e) /\ Keeps(y, e) /\ Keeps(z, e)
  BY <1>2, ChangeIs
<1>5. e \in new \ old => Asks(x, e) \/ Asks(y, e) \/ Asks(z, e)
  <2>1. e = EventOrder[i] \/ e = EventOrder[j] \/ e = EventOrder[k]
    BY <1>1 DEF EventOrder, EventNames
  <2>. QED  BY <1>2, <2>1, ChangeIs
<1>6. PICK xy : xy = x \o y  OBVIOUS
<1>7. /\ xy \in Seq(Commands)
      /\ e \in new => Keeps(xy, e)
      /\ Asks(x, e) \/ Asks(y, e) => Asks(xy, e)
  BY <1>3, <1>4, <1>6, JoinedCommands
<1>8. c = xy \o z  BY <1>1, <1>2, <1>6 DEF Changes
<1>9. /\ c \in Seq(Commands)
      /\ e \in new => Keeps(c, e)
      /\ Asks(xy, e) \/ Asks(z, e) => Asks(c, e)
  BY <1>3, <1>4, <1>7, <1>8, JoinedCommands
<1>. QED  BY <1>5, <1>7, <1>9

\* The first message leaves the queue when the client has received it.
LEMMA TailSends ==
    ASSUME NEW q \in Seq(Commands), q # << >>, NEW e \in EventNames, NEW subs,
           WillSend(subs, q, e), q[1] = Subscribe(e) => e \in subs
    PROVE  WillSend(subs, Tail(q), e)
<1>1. PICK t : t = Tail(q)  OBVIOUS
<1>2. PICK n \in Nat : n = Len(q)  BY LenProperties
<1>3. Len(t) = n - 1 /\ \A i \in 1 .. n - 1 : t[i] = q[i + 1]
  BY <1>1, <1>2, HeadTailProperties
<1>4. ASSUME NEW i \in 1 .. n - 1 PROVE \E j \in 1 .. n : j = i + 1 /\ t[i] = q[j]
  <2>1. PICK j : j = i + 1  OBVIOUS
  <2>2. j \in 1 .. n /\ t[i] = q[j]  BY <1>3, <2>1
  <2>. QED  BY <2>1, <2>2
<1>5. CASE e \in subs /\ Keeps(q, e)
  <2>1. Keeps(t, e)  BY <1>2, <1>3, <1>4, <1>5 DEF Keeps
  <2>. QED  BY <1>1, <1>5, <2>1 DEF WillSend
<1>6. ASSUME NEW k \in 1 .. n, q[k] = Subscribe(e),
             \A j \in 1 .. n : j > k => q[j] # Unsubscribe(e)
      PROVE  WillSend(subs, t, e)
  <2>1. CASE k = 1
    <3>1. Keeps(t, e)  BY <1>3, <1>4, <1>6, <2>1 DEF Keeps
    <3>. QED  BY <1>6, <2>1, <3>1 DEF WillSend
  <2>2. CASE k # 1
    <3>1. PICK l : l = k - 1  OBVIOUS
    <3>2. l \in 1 .. n - 1 /\ l + 1 = k  BY <2>2, <3>1
    <3>3. t[l] = Subscribe(e)  BY <1>4, <1>6, <3>2
    <3>4. \A i \in 1 .. n - 1 : i > l => t[i] # Unsubscribe(e)  BY <1>4, <1>6, <3>2
    <3>. QED  BY <1>3, <3>2, <3>3, <3>4 DEF WillSend
  <2>. QED  BY <2>1, <2>2
<1>. QED  BY <1>1, <1>2, <1>5, <1>6 DEF WillSend


\* Between READY and the wait the thread reads and writes in a session, and
\* before the first session the client knows nothing.
Writes == {"write", "copy", "send", "requeue", "drain", "commit"}
Underway ==
    /\ status # "down" => session # 0
    /\ io.pc \in Writes => status # "handshaking" /\ session # 0
    /\ session = 0 => client.subs = {}

\* Where Discord_UpdateHandlers and Discord_RunCallbacks begin to count.
Counted == game.pc \notin {"handlers", "signal", "callSignal"} => game.next = 1

LEMMA UnderwayStep == RpcType /\ Standing /\ Underway /\ [Next]_vars => Underway'
<1>. SUFFICES ASSUME RpcType, Standing, Underway, [Next]_vars PROVE Underway'  OBVIOUS
<1>1. io \in IOs /\ session \in 0 .. MaxSessions /\ MaxSessions \in Nat
  BY RpcAssumption DEF RpcType, IOType, SessionType
<1>2. CASE UNCHANGED <<io, status, session, client>>  BY <1>2 DEF Underway
<1>3. CASE Wake \/ NotYetDue \/ StartReading \/ ReadSignal \/ RaiseSignal \/ ReadFails
           \/ OnConnectHandlers \/ OnConnectPresence \/ OnConnectAnnounce \/ OnDisconnect
           \/ UpdateDone
  <2>1. UNCHANGED <<status, session, client>>
    BY <1>3 DEF Wake, NotYetDue, StartReading, ReadSignal, RaiseSignal, ReadFails,
       OnConnectHandlers, OnConnectPresence, OnConnectAnnounce, OnDisconnect, UpdateDone,
       connection, Session!Deliver
  <2>2. io'.pc \in {"update", "wait", "read", "raise", "closing", "closed", "resend", "announce"}
    BY <1>1, <1>3, IOMoves, IOCloses
       DEF Wake, NotYetDue, StartReading, ReadSignal, RaiseSignal, ReadFails,
       OnConnectHandlers, OnConnectPresence, OnConnectAnnounce, OnDisconnect, UpdateDone,
       IOPlaces, Returns
  <2>. QED  BY <2>1, <2>2 DEF Underway, Writes
<1>4. CASE ReadNothing
  <2>1. io.pc = "read" /\ UNCHANGED <<status, session, client>>
    BY <1>4 DEF ReadNothing, IO, connection
  <2>. QED  BY <2>1 DEF Underway, Standing
<1>5. CASE Connect
  <2>1. io'.pc = "wait"  BY <1>1, <1>5, IOMoves DEF Connect, IOPlaces
  <2>2. UNCHANGED connection \/ session' = session + 1  BY <1>5 DEF Connect
  <2>3. session' = session + 1 => session' # 0  BY <1>1
  <2>. QED  BY <2>1, <2>2, <2>3 DEF Underway, Writes, connection
<1>6. CASE PollReady
  <2>1. status = "handshaking" /\ UNCHANGED <<session, client>>
    BY <1>6 DEF PollReady, connection
  <2>2. io'.pc \in {"wait", "subscribe", "closing"}
    BY <1>1, <1>6, IOMoves, IOCloses DEF PollReady, IOPlaces, Returns
  <2>. QED  BY <2>1, <2>2 DEF Underway, Writes
<1>7. CASE Closed
  <2>1. io.pc = "closed" /\ status' = "down" /\ UNCHANGED <<session, client>>
    BY <1>7 DEF Closed, IO, Session!End
  <2>2. session # 0  BY <2>1 DEF Underway, Standing
  <2>. QED  BY <2>1, <2>2 DEF Underway
<1>8. CASE TakePresence \/ CopyPresence \/ SendPresence \/ RequeuePresence \/ SendCommand
           \/ CommitCommand
  <2>1. io.pc \in Writes /\ UNCHANGED <<status, session>>
    BY <1>8 DEF TakePresence, CopyPresence, SendPresence, RequeuePresence, SendCommand,
       CommitCommand, IO, Writes, connection
  <2>. QED  BY <2>1 DEF Underway
<1>9. CASE ReadJoinRequest
  BY <1>2, <1>9 DEF ReadJoinRequest, Session!Deliver, Underway
<1>10. CASE Callbacks \/ Calls
  <2>1. CASE Callbacks
    BY <1>2, <2>1 DEF Callbacks, RunCallbacks, LookAtConnection, CallDisconnectedEarly,
       TakeConnected, CallReady, TakeSignal, CallSignal, SignalsDone, TakeJoinRequest,
       CallJoinRequest, RequestsDone, CallDisconnectedLate, connection
  <2>2. CASE Calls
    BY <1>2, <2>2 DEF Calls, SetPresence, Respond, QueueReply, ClearHandlers, QueueChange,
       InstallHandlers, SetHandlers, connection
  <2>. QED  BY <1>10, <2>1, <2>2
<1>11. CASE TimePasses \/ (\E m \in Messages : ClientSends(m))
  BY <1>2, <1>11 DEF TimePasses, ClientSends, connection, Session!Arrive
<1>12. CASE UNCHANGED vars  BY <1>2, <1>12 DEF vars, connection
<1>. QED
  BY <1>3, <1>4, <1>5, <1>6, <1>7, <1>8, <1>9, <1>10, <1>11, <1>12 DEF Next, UpdateConnection

LEMMA CountedStep == RpcType /\ Counted /\ [Next]_vars => Counted'
<1>. SUFFICES ASSUME RpcType, Counted, [Next]_vars PROVE Counted'  OBVIOUS
<1>1. game \in Games  BY DEF RpcType, GameType
<1>2. CASE UNCHANGED game  BY <1>2 DEF Counted
<1>3. CASE UpdateConnection \/ TimePasses \/ (\E m \in Messages : ClientSends(m))
  <2>1. CASE Wake \/ NotYetDue \/ Connect \/ PollReady \/ OnConnectHandlers \/ OnConnectPresence
             \/ OnConnectAnnounce \/ OnDisconnect \/ Closed
    BY <1>2, <2>1 DEF Wake, NotYetDue, Connect, PollReady, OnConnectHandlers, OnConnectPresence,
           OnConnectAnnounce, OnDisconnect, Closed
  <2>2. CASE StartReading \/ ReadNothing \/ ReadFails \/ ReadSignal \/ RaiseSignal
             \/ ReadJoinRequest
    BY <1>2, <2>2
       DEF StartReading, ReadNothing, ReadFails, ReadSignal, RaiseSignal, ReadJoinRequest
  <2>3. CASE TakePresence \/ CopyPresence \/ SendPresence \/ RequeuePresence
             \/ SendCommand \/ CommitCommand \/ UpdateDone
    BY <1>2, <2>3 DEF TakePresence, CopyPresence, SendPresence, RequeuePresence, SendCommand,
           CommitCommand, UpdateDone
  <2>4. CASE TimePasses \/ (\E m \in Messages : ClientSends(m))
    BY <1>2, <2>4 DEF TimePasses, ClientSends
  <2>. QED  BY <1>3, <2>1, <2>2, <2>3, <2>4 DEF UpdateConnection
<1>4. CASE RunCallbacks \/ LookAtConnection \/ CallDisconnectedLate
  BY <1>1, <1>4 DEF RunCallbacks, LookAtConnection, CallDisconnectedLate, Game, Games, Counted
<1>5. CASE CallDisconnectedEarly \/ TakeConnected \/ CallReady \/ TakeJoinRequest
           \/ CallJoinRequest \/ RequestsDone
  BY <1>1, <1>5, GameMoves
     DEF CallDisconnectedEarly, TakeConnected, CallReady, TakeJoinRequest, CallJoinRequest,
         RequestsDone, Game, GamePlaces, Counted
<1>6. CASE TakeSignal \/ CallSignal \/ QueueChange
  <2>1. game'.pc \in {"signal", "callSignal", "handlers"}
    BY <1>1, <1>6 DEF TakeSignal, CallSignal, QueueChange, Game, Games
  <2>. QED  BY <2>1 DEF Counted
<1>7. CASE SignalsDone \/ InstallHandlers
  BY <1>1, <1>7 DEF SignalsDone, InstallHandlers, Games, Counted
<1>8. CASE \/ Respond \/ QueueReply \/ ClearHandlers
           \/ (\E p \in Presences : SetPresence(p))
           \/ (\E new \in HandlerChoices : SetHandlers(new))
  BY <1>1, <1>8 DEF Respond, QueueReply, ClearHandlers, SetPresence, SetHandlers, Game, Games,
     Counted
<1>9. CASE UNCHANGED vars  BY <1>2, <1>9 DEF vars
<1>. QED  BY <1>3, <1>4, <1>5, <1>6, <1>7, <1>8, <1>9 DEF Next, Callbacks, Calls


\* Until the first session is over, whatever the game has, or is installing, a
\* handler for is promised by what the client knows and what is queued.  After
\* that the promises are those of a client that is gone.
FirstSession == session = 0 \/ (session = 1 /\ status # "down")
Wants(n) == EventOrder[n] \in (IF game.pc = "handlers" /\ n < game.next THEN game.new
                                                                       ELSE handlers)
Promised ==
    FirstSession => \A n \in 1 .. 3 : Wants(n) => WillSend(client.subs, sendq, EventOrder[n])

\* What is about to leave the queue has been received.
Delivered ==
    status = "up" /\ io.pc = "commit"
        => \A e \in EventNames : sendq[1] = Subscribe(e) => e \in client.subs

Heeded == Promised /\ Delivered

LEMMA HeededRests ==
    ASSUME Heeded, UNCHANGED <<sendq, handlers>>, client'.subs = client.subs,
           FirstSession' => FirstSession,
           game' = game \/ (game.pc # "handlers" /\ game'.pc # "handlers"),
           status' = "up" /\ io'.pc = "commit" => status = "up" /\ io.pc = "commit"
    PROVE  Heeded'
<1>1. \A n \in 1 .. 3 : Wants(n)' <=> Wants(n)  BY DEF Wants
<1>2. Promised'  BY <1>1 DEF Heeded, Promised
<1>3. Delivered'  BY DEF Heeded, Delivered
<1>. QED  BY <1>2, <1>3 DEF Heeded

\* The steps of the IO thread that touch neither a command nor the session.
LEMMA QuietStepsHeed ==
    ASSUME RpcType, Heeded,
           \/ Wake \/ NotYetDue \/ OnConnectPresence \/ OnConnectAnnounce \/ OnDisconnect
           \/ StartReading \/ ReadNothing \/ ReadFails \/ ReadSignal \/ RaiseSignal
           \/ ReadJoinRequest \/ TakePresence \/ CopyPresence \/ SendPresence
           \/ RequeuePresence \/ UpdateDone
    PROVE  Heeded'
<1>1. io \in IOs /\ client \in Clients  BY DEF RpcType, IOType, SessionType
<1>2. CASE Wake \/ NotYetDue \/ OnConnectPresence \/ OnConnectAnnounce \/ OnDisconnect
           \/ StartReading \/ ReadNothing \/ ReadFails
  <2>1. UNCHANGED <<status, session, client, sendq, handlers, game>>
    BY <1>2 DEF Wake, NotYetDue, OnConnectPresence, OnConnectAnnounce, OnDisconnect,
       StartReading, ReadNothing, ReadFails, connection, queues
  <2>2. io'.pc # "commit"
    BY <1>1, <1>2, IOMoves, IOCloses
       DEF Wake, NotYetDue, OnConnectPresence, OnConnectAnnounce, OnDisconnect,
       StartReading, ReadNothing, ReadFails, IOPlaces, Returns
  <2>. QED  BY <2>1, <2>2, HeededRests DEF FirstSession
<1>3. CASE ReadSignal \/ RaiseSignal \/ ReadJoinRequest
  <2>1. UNCHANGED <<status, session, client, sendq, handlers, game>>
    BY <1>3 DEF ReadSignal, RaiseSignal, ReadJoinRequest, Session!Deliver, connection, queues
  <2>2. io'.pc # "commit" \/ io' = io
    BY <1>1, <1>3, IOMoves DEF ReadSignal, RaiseSignal, ReadJoinRequest, IOPlaces
  <2>. QED  BY <2>1, <2>2, HeededRests DEF FirstSession
<1>4. CASE TakePresence \/ CopyPresence \/ SendPresence \/ RequeuePresence \/ UpdateDone
  <2>1. UNCHANGED <<status, session, sendq, handlers, game>>
    BY <1>4 DEF TakePresence, CopyPresence, SendPresence, RequeuePresence, UpdateDone,
       connection, queues
  <2>2. client'.subs = client.subs
    BY <1>1, <1>4 DEF TakePresence, CopyPresence, SendPresence, RequeuePresence, UpdateDone,
       connection, Clients
  <2>3. io'.pc # "commit"
    BY <1>1, <1>4, IOMoves, IOCloses
       DEF TakePresence, CopyPresence, SendPresence, RequeuePresence, UpdateDone, IOPlaces,
       Returns, IOs
  <2>. QED  BY <2>1, <2>2, <2>3, HeededRests DEF FirstSession
<1>. QED  BY <1>2, <1>3, <1>4

LEMMA SessionStepsHeed ==
    ASSUME RpcType, Standing, Underway, Heeded, Connect \/ PollReady \/ Closed
    PROVE  Heeded'
<1>1. /\ io \in IOs /\ client \in Clients /\ session \in 0 .. MaxSessions /\ MaxSessions \in Nat
      /\ UNCHANGED <<sendq, handlers, game>>
  BY RpcAssumption DEF RpcType, IOType, SessionType, Connect, PollReady, Closed, queues
<1>2. CASE Connect
  <2>1. status = "down" /\ io'.pc = "wait"  BY <1>1, <1>2, IOMoves DEF Connect, IOPlaces
  <2>2. CASE UNCHANGED connection
    BY <1>1, <2>1, <2>2, HeededRests DEF connection, FirstSession
  <2>3. CASE session' = session + 1 /\ client' = NewClient
    <3>1. FirstSession' => session = 0  BY <1>1, <2>3 DEF FirstSession
    <3>2. session = 0 => client'.subs = client.subs  BY <2>3 DEF Underway, NewClient
    <3>3. Delivered'  BY <2>1 DEF Delivered
    <3>4. \A n \in 1 .. 3 : Wants(n)' <=> Wants(n)  BY <1>1 DEF Wants
    <3>5. Promised'
      BY <1>1, <3>1, <3>2, <3>4 DEF Heeded, Promised, FirstSession
    <3>. QED  BY <3>3, <3>5 DEF Heeded
  <2>. QED  BY <1>2, <2>2, <2>3 DEF Connect
<1>3. CASE PollReady
  <2>1. status = "handshaking" /\ UNCHANGED <<session, client>>
    BY <1>3 DEF PollReady, connection
  <2>2. io'.pc # "commit"
    BY <1>1, <1>3, IOMoves, IOCloses DEF PollReady, IOPlaces, Returns
  <2>. QED  BY <1>1, <2>1, <2>2, HeededRests DEF FirstSession
<1>4. CASE Closed
  <2>1. io.pc = "closed" /\ status' = "down" /\ UNCHANGED <<session, client>>
    BY <1>4 DEF Closed, IO, Session!End
  <2>2. session # 0  BY <2>1 DEF Underway, Standing
  <2>. QED  BY <1>1, <2>1, <2>2, HeededRests DEF FirstSession
<1>. QED  BY <1>2, <1>3, <1>4

\* onConnect promises what it installs.
LEMMA OnConnectHeeds ==
    ASSUME RpcType, Room, Heeded, OnConnectHandlers
    PROVE  Heeded'
<1>1. /\ io \in IOs /\ sendq \in Seq(Commands) /\ Len(sendq) <= QueueSize
      /\ QueueSize \in Nat /\ Len(sendq) \in Nat
  BY RpcAssumption, LenProperties DEF RpcType, IOType, QueueType
<1>2. PICK new : new = Changes(handlers, InitialHandlers)  OBVIOUS
<1>3. /\ game.pc # "handlers" /\ game' = game /\ io'.pc = "resend"
      /\ UNCHANGED <<status, session, client>>
      /\ sendq' = Enqueue(sendq, new) /\ handlers' = InitialHandlers
  BY <1>1, <1>2, IOMoves DEF OnConnectHandlers, UpdateHandlers, IOPlaces, connection
<1>4. Delivered'  BY <1>3 DEF Delivered
<1>5. ASSUME FirstSession, NEW n \in 1 .. 3, EventOrder[n] \in InitialHandlers
      PROVE  WillSend(client.subs, sendq', EventOrder[n])
  <2>1. PICK e \in EventNames : e = EventOrder[n]  BY EventsInOrder
  <2>2. new \in Seq(Commands) /\ Keeps(new, e)
    BY <1>2, <1>5, <2>1, ChangesAre
  <2>3. CASE e \in handlers
    <3>1. Wants(n)  BY <1>3, <2>1, <2>3 DEF Wants
    <3>2. WillSend(client.subs, sendq, e)  BY <1>5, <2>1, <3>1 DEF Heeded, Promised
    <3>. QED  BY <1>1, <1>3, <2>1, <2>2, <3>2, StillSends
  <2>4. CASE e \notin handlers
    <3>1. Asks(new, e)  BY <1>2, <1>5, <2>1, <2>4, ChangesAre
    <3>2. io.pc = "subscribe"  BY DEF OnConnectHandlers, IO
    <3>3. Len(sendq) + Len(new) <= QueueSize  BY <1>2, <3>2 DEF Room
    <3>. QED  BY <1>1, <1>3, <2>1, <2>2, <3>1, <3>3, NowSends
  <2>. QED  BY <2>3, <2>4
<1>6. ASSUME FirstSession', NEW n \in 1 .. 3, Wants(n)'
      PROVE  WillSend(client.subs, sendq, EventOrder[n])'
  <2>1. FirstSession /\ EventOrder[n] \in InitialHandlers  BY <1>3, <1>6 DEF FirstSession, Wants
  <2>. QED  BY <1>3, <1>5, <2>1
<1>7. Promised'  BY <1>6 DEF Promised
<1>. QED  BY <1>4, <1>7 DEF Heeded

\* The client keeps what it is not told to forget.
LEMMA ReceivesIs ==
    ASSUME client \in Clients, NEW c \in Commands, Receives(c), NEW e \in EventNames
    PROVE  /\ c = Subscribe(e) => e \in client'.subs
           /\ e \in client.subs /\ c # Unsubscribe(e) => e \in client'.subs
<1>1. CASE c.cmd = "SUBSCRIBE"
  <2>1. client' = [client EXCEPT !.subs = @ \cup {c.evt}]  BY <1>1 DEF Receives
  <2>2. client'.subs = client.subs \cup {c.evt}  BY <2>1 DEF Clients
  <2>3. c = Subscribe(e) => c.evt = e  BY DEF Subscribe
  <2>. QED  BY <2>2, <2>3
<1>2. CASE c.cmd = "UNSUBSCRIBE"
  <2>1. client' = [client EXCEPT !.subs = @ \ {c.evt}]  BY <1>2 DEF Receives
  <2>2. client'.subs = client.subs \ {c.evt}  BY <2>1 DEF Clients
  <2>3. c # Subscribe(e)  BY <1>2 DEF Subscribe
  <2>4. c \in [cmd : {"SUBSCRIBE", "UNSUBSCRIBE"}, evt : EventNames]  BY <1>2 DEF Commands
  <2>5. c.evt = e => c = Unsubscribe(e)  BY <1>2, <2>4 DEF Unsubscribe
  <2>. QED  BY <2>2, <2>3, <2>5
<1>3. CASE c.cmd = "REPLY"
  <2>1. client' = [client EXCEPT !.stale = @ \/ c.asked # session]  BY <1>3 DEF Receives
  <2>2. client'.subs = client.subs  BY <2>1 DEF Clients
  <2>3. c # Subscribe(e)  BY <1>3 DEF Subscribe
  <2>. QED  BY <2>2, <2>3
<1>. QED  BY <1>1, <1>2, <1>3 DEF Commands

\* A command reaches the client before it leaves the queue, or the session is
\* over.
LEMMA CommandStepsHeed ==
    ASSUME RpcType, Underway, Heeded, SendCommand \/ CommitCommand
    PROVE  Heeded'
<1>1. /\ io \in IOs /\ client \in Clients /\ sendq \in Seq(Commands) /\ Found
  BY DEF RpcType, IOType, SessionType, QueueType
<1>2. UNCHANGED <<status, session, handlers, game>>
  BY DEF SendCommand, CommitCommand, connection
<1>3. \A n \in 1 .. 3 : Wants(n)' <=> Wants(n)  BY <1>2 DEF Wants
<1>4. FirstSession' <=> FirstSession  BY <1>2 DEF FirstSession
<1>5. CASE SendCommand
  <2>1. sendq' = sendq /\ sendq # << >>  BY <1>5 DEF SendCommand, queues
  <2>2. PICK c \in Commands : c = Head(sendq) /\ c = sendq[1]
    BY <1>1, <2>1, HeadTailProperties
  <2>3. CASE client' = client /\ (status = "up" => io'.pc # "commit")
    BY <1>2, <2>1, <2>3, <1>4, HeededRests
  <2>4. CASE Receives(c)
    <3>1. Delivered'  BY <1>1, <2>1, <2>2, <2>4, ReceivesIs DEF Delivered
    <3>2. ASSUME NEW e \in EventNames, WillSend(client.subs, sendq, e)
          PROVE  WillSend(client'.subs, sendq, e)
      <4>1. Len(sendq) \in Nat /\ 1 \in 1 .. Len(sendq)
        BY <1>1, <2>1, EmptySeq, LenProperties
      <4>2. Keeps(sendq, e) => c # Unsubscribe(e)  BY <2>2, <4>1 DEF Keeps
      <4>3. Keeps(sendq, e) /\ e \in client.subs => e \in client'.subs
        BY <1>1, <2>4, <4>2, ReceivesIs
      <4>. QED  BY <3>2, <4>3 DEF WillSend
    <3>3. Promised'
      BY <1>3, <1>4, <2>1, <3>2, EventsInOrder DEF Heeded, Promised
    <3>. QED  BY <3>1, <3>3 DEF Heeded
  <2>5. \/ Receives(c)
        \/ client' = client /\ (status = "up" => io'.pc # "commit")
    BY <1>1, <1>5, <2>2, IOCloses DEF SendCommand, Returns
  <2>. QED  BY <2>3, <2>4, <2>5
<1>6. CASE CommitCommand
  <2>1. /\ io.pc = "commit" /\ io'.pc = "drain" /\ sendq # << >> /\ sendq' = Tail(sendq)
        /\ client' = client
    BY <1>1, <1>6, IOMoves DEF CommitCommand, IO, IOPlaces, Found, connection
  <2>2. ASSUME FirstSession, NEW n \in 1 .. 3, Wants(n)
        PROVE  WillSend(client.subs, sendq', EventOrder[n])
    <3>1. PICK e \in EventNames : e = EventOrder[n]  BY EventsInOrder
    <3>2. WillSend(client.subs, sendq, e)  BY <2>2, <3>1 DEF Heeded, Promised
    <3>3. status = "up"
      BY <2>1, <2>2 DEF FirstSession, Underway, Writes, RpcType, SessionType, Statuses
    <3>4. sendq[1] = Subscribe(e) => e \in client.subs
      BY <2>1, <3>3 DEF Heeded, Delivered
    <3>. QED  BY <1>1, <2>1, <3>1, <3>2, <3>4, TailSends
  <2>3. Promised'  BY <1>3, <1>4, <2>1, <2>2 DEF Promised
  <2>4. Delivered'  BY <2>1 DEF Delivered
  <2>. QED  BY <2>3, <2>4 DEF Heeded
<1>. QED  BY <1>5, <1>6

\* What is added leaves the first message where it is.
LEMMA StillDelivered ==
    ASSUME RpcType, Delivered, NEW new \in Seq(Commands), sendq' = Enqueue(sendq, new),
           UNCHANGED <<status, io, client>>
    PROVE  Delivered'
<1>1. sendq \in Seq(Commands) /\ Len(sendq) <= QueueSize /\ (io.pc = "commit" => sendq # << >>)
  BY DEF RpcType, QueueType, Found
<1>2. PICK n \in Nat : n = Len(sendq)  BY <1>1, LenProperties
<1>3. sendq # << >> => 1 \in 1 .. n  BY <1>1, <1>2, EmptySeq
<1>4. \A i \in 1 .. n : sendq'[i] = sendq[i]  BY <1>1, <1>2, Enqueued
<1>5. io.pc = "commit" => sendq'[1] = sendq[1]  BY <1>1, <1>3, <1>4
<1>. QED  BY <1>5 DEF Delivered

\* The game takes nothing back that it is about to install.
LEMMA QueueChangeHeeds ==
    ASSUME RpcType, Room, Heeded, QueueChange
    PROVE  Heeded'
<1>1. /\ sendq \in Seq(Commands) /\ Len(sendq) <= QueueSize /\ game \in Games
      /\ QueueSize \in Nat /\ Len(sendq) \in Nat
  BY RpcAssumption, LenProperties DEF RpcType, QueueType, GameType
<1>2. /\ game.pc = "handlers" /\ game.next \in 1 .. 3 /\ game'.pc = "handlers"
      /\ game'.next = game.next + 1 /\ game'.new = game.new
      /\ UNCHANGED <<status, session, client, handlers, io>>
  BY <1>1 DEF QueueChange, Game, Games, connection
<1>3. PICK m \in 1 .. 3 : m = game.next  BY <1>2
<1>4. PICK new : new = Change(EventOrder[m], handlers, game.new)  OBVIOUS
<1>5. sendq' = Enqueue(sendq, new)  BY <1>3, <1>4 DEF QueueChange
<1>6. new \in Seq(Commands)  BY <1>4, ChangeType
<1>7. ASSUME FirstSession, NEW n \in 1 .. 3, Wants(n)'
      PROVE  WillSend(client.subs, sendq', EventOrder[n])
  <2>1. PICK e \in EventNames : e = EventOrder[n]  BY EventsInOrder
  <2>2. Keeps(new, e)
    <3>1. n = m => e \in game.new  BY <1>2, <1>3, <1>7, <2>1 DEF Wants
    <3>2. n # m => e # EventOrder[m]  BY <2>1, EventsInOrder
    <3>. QED  BY <1>4, <3>1, <3>2, ChangeIs
  <2>3. CASE Wants(n)
    <3>1. WillSend(client.subs, sendq, e)  BY <1>7, <2>1, <2>3 DEF Heeded, Promised
    <3>. QED  BY <1>1, <1>5, <1>6, <2>1, <2>2, <3>1, StillSends
  <2>4. CASE ~ Wants(n)
    <3>1. n = m /\ e \in game.new \ handlers  BY <1>2, <1>3, <1>7, <2>1, <2>4 DEF Wants
    <3>2. Asks(new, e)  BY <1>4, <2>1, <3>1, ChangeIs
    <3>3. Len(sendq) + Len(new) <= QueueSize  BY <1>2, <1>3, <1>4 DEF Room
    <3>. QED  BY <1>1, <1>5, <1>6, <2>1, <2>2, <3>2, <3>3, NowSends
  <2>. QED  BY <2>3, <2>4
<1>8. FirstSession' <=> FirstSession  BY <1>2 DEF FirstSession
<1>9. Promised'  BY <1>2, <1>7, <1>8 DEF Promised
<1>10. Delivered'  BY <1>2, <1>5, <1>6, StillDelivered DEF Heeded
<1>. QED  BY <1>9, <1>10 DEF Heeded

LEMMA QueueReplyHeeds ==
    ASSUME RpcType, Heeded, QueueReply
    PROVE  Heeded'
<1>1. /\ sendq \in Seq(Commands) /\ Len(sendq) <= QueueSize /\ game \in Games
  BY DEF RpcType, QueueType, GameType
<1>2. PICK c : c = [cmd |-> "REPLY", asked |-> game.asked]  OBVIOUS
<1>3. c \in Commands /\ c.cmd = "REPLY"  BY <1>1, <1>2 DEF Commands, Games
<1>4. PICK new : new = << c >>  OBVIOUS
<1>5. new \in Seq(Commands) /\ Len(new) = 1 /\ new[1] = c  BY <1>3, <1>4
<1>6. sendq' = Enqueue(sendq, new)  BY <1>2, <1>4 DEF QueueReply
<1>7. /\ UNCHANGED <<status, session, client, handlers, io>>
      /\ game.pc = "asked" /\ game'.pc = "idle"
  BY <1>1 DEF QueueReply, Game, Games, connection
<1>8. \A e \in EventNames : Keeps(new, e)  BY <1>3, <1>5 DEF Keeps, Unsubscribe
<1>9. ASSUME NEW e \in EventNames, WillSend(client.subs, sendq, e)
      PROVE  WillSend(client.subs, sendq', e)
  BY <1>1, <1>5, <1>6, <1>8, <1>9, StillSends
<1>10. \A n \in 1 .. 3 : Wants(n)' <=> Wants(n)  BY <1>7 DEF Wants
<1>11. FirstSession' <=> FirstSession  BY <1>7 DEF FirstSession
<1>12. Promised'  BY <1>7, <1>9, <1>10, <1>11, EventsInOrder DEF Heeded, Promised
<1>13. Delivered'  BY <1>5, <1>6, <1>7, StillDelivered DEF Heeded
<1>. QED  BY <1>12, <1>13 DEF Heeded

\* The other steps of the game, and of the client.
LEMMA OtherStepsHeed ==
    ASSUME RpcType, Counted, Heeded,
           \/ Callbacks \/ TimePasses \/ (\E m \in Messages : ClientSends(m))
           \/ Respond \/ ClearHandlers \/ InstallHandlers
           \/ (\E p \in Presences : SetPresence(p))
           \/ (\E new \in HandlerChoices : SetHandlers(new))
    PROVE  Heeded'
<1>1. game \in Games  BY DEF RpcType, GameType
<1>2. UNCHANGED <<status, session, client, sendq, io>>
  BY DEF Callbacks, RunCallbacks, LookAtConnection, CallDisconnectedEarly, TakeConnected,
     CallReady, TakeSignal, CallSignal, SignalsDone, TakeJoinRequest, CallJoinRequest,
     RequestsDone, CallDisconnectedLate, TimePasses, ClientSends, Session!Arrive, Respond,
     ClearHandlers, InstallHandlers, SetPresence, SetHandlers, connection, queues
<1>3. FirstSession' <=> FirstSession  BY <1>2 DEF FirstSession
<1>4. Delivered'  BY <1>2 DEF Heeded, Delivered
<1>5. \A n \in 1 .. 3 : Wants(n)' => Wants(n)
  <2>1. CASE RunCallbacks \/ LookAtConnection \/ CallSignal \/ CallDisconnectedLate
             \/ TakeSignal \/ SignalsDone
    BY <1>1, <2>1 DEF RunCallbacks, LookAtConnection, CallSignal, CallDisconnectedLate,
       TakeSignal, SignalsDone, Game, Games, Wants
  <2>2. CASE CallDisconnectedEarly \/ TakeConnected \/ CallReady \/ TakeJoinRequest
             \/ CallJoinRequest \/ RequestsDone
    BY <1>1, <2>2, GameMoves
       DEF CallDisconnectedEarly, TakeConnected, CallReady, TakeJoinRequest, CallJoinRequest,
           RequestsDone, Game, GamePlaces, Wants
  <2>3. CASE Respond
    BY <1>1, <2>3 DEF Respond, Game, Games, Wants
  <2>4. CASE ClearHandlers
    BY <2>4 DEF ClearHandlers, Game, Wants
  <2>5. CASE InstallHandlers
    <3>1. /\ game.pc = "handlers" /\ game.next = 4 /\ handlers' = game.new /\ game'.pc = "idle"
      BY <1>1, <2>5 DEF InstallHandlers, Game, Games
    <3>. QED  BY <3>1 DEF Wants
  <2>6. ASSUME NEW new \in HandlerChoices, SetHandlers(new)
        PROVE  \A n \in 1 .. 3 : Wants(n)' => Wants(n)
    <3>1. game.pc = "idle" /\ game'.next = game.next /\ handlers' = handlers
      BY <1>1, <2>6 DEF SetHandlers, Game, Games
    <3>2. game'.next = 1  BY <3>1 DEF Counted
    <3>. QED  BY <3>1, <3>2 DEF Wants
  <2>7. CASE (\E p \in Presences : SetPresence(p)) \/ TimePasses
             \/ (\E m \in Messages : ClientSends(m))
    BY <2>7 DEF SetPresence, TimePasses, ClientSends, Wants
  <2>. QED  BY <2>1, <2>2, <2>3, <2>4, <2>5, <2>6, <2>7 DEF Callbacks
<1>6. Promised'  BY <1>2, <1>3, <1>5 DEF Heeded, Promised
<1>. QED  BY <1>4, <1>6 DEF Heeded

LEMMA HeededStep ==
    ASSUME RpcType, Standing, Underway, Counted, Room, Heeded, [Next]_vars
    PROVE  Heeded'
<1>1. CASE UNCHANGED vars
  BY <1>1, HeededRests DEF vars, connection, queues, FirstSession
<1>. QED
  BY <1>1, QuietStepsHeed, SessionStepsHeed, OnConnectHeeds, CommandStepsHeed, QueueChangeHeeds,
     QueueReplyHeeds, OtherStepsHeed
     DEF Next, UpdateConnection, Calls

\* As long as what is queued fits, no handler is deaf in the first session, in
\* whatever order the game's changes and onConnect's own are queued and sent.
\* Neither hypothesis can go: what does not fit is dropped, and in a later
\* session onConnect finds nothing new in the handlers that the game has kept.
THEOREM NoHandlerIsDeaf ==
    Spec /\ []Room => [](session <= 1 => NoDeafHandler)
<1>1. Init => Underway /\ Counted /\ Heeded
  BY DEF Init, Session!Init, NewClient, Underway, Counted, Heeded, Promised, Delivered, Wants,
     Writes
<1>2. RpcType /\ Standing /\ Underway /\ [Next]_vars => Underway'  BY UnderwayStep
<1>3. RpcType /\ Counted /\ [Next]_vars => Counted'  BY CountedStep
<1>4. RpcType /\ Standing /\ Underway /\ Counted /\ Room /\ Heeded /\ [Next]_vars => Heeded'
  BY HeededStep
<1>5. RpcType /\ Underway /\ Heeded => (session <= 1 => NoDeafHandler)
  <2>. SUFFICES ASSUME RpcType, Underway, Heeded, session <= 1, AtRest, sendq = << >>,
                       game.pc # "handlers", NEW e \in handlers \cap EventNames
                PROVE  e \in client.subs
    BY DEF NoDeafHandler
  <2>1. session \in Nat /\ MaxSessions \in Nat  BY RpcAssumption DEF RpcType, SessionType
  <2>2. FirstSession  BY <2>1 DEF FirstSession, Underway, AtRest
  <2>3. PICK n \in 1 .. 3 : e = EventOrder[n]  BY EventsInOrder
  <2>4. WillSend(client.subs, sendq, e)  BY <2>2, <2>3 DEF Heeded, Promised, Wants
  <2>5. Len(sendq) = 0  OBVIOUS
  <2>. QED  BY <2>4, <2>5 DEF WillSend
<1>. QED
  BY <1>1, <1>2, <1>3, <1>4, <1>5, RpcTypeInvariant, StandingInvariant, PTL DEF Spec
=============================================================================
