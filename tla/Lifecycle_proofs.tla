------------------------- MODULE Lifecycle_proofs -------------------------
(***************************************************************************)
(* While the game never initializes what is initialized, Discord_Shutdown  *)
(* leaves nothing behind that is used: for every number of lives and       *)
(* whatever the callbacks call.                                            *)
(*                                                                         *)
(* NoUseAfterDestroy is not inductive: a pass may begin because Connection *)
(* is not null, which says nothing of the holder.  Serves ties thread,     *)
(* holder and connection to where the game is in the two functions.        *)
(***************************************************************************)
EXTENDS Lifecycle, TLAPS

\* Where the game is in neither of the two functions, where it is in
\* Discord_Shutdown but has not told the thread to stop, and where it has.
Open == {"ready", "signal", "handlers"}
Leaving == {"disarm", "forget", "lower"}
Stopping == {"stop", "notify", "join"}

Serves ==
    /\ \A l \in Lives : thread[l] \in Alive => l = holder /\ connection
    /\ up => connection
    /\ game.pc \in {"install", "create"} => holder # 0 /\ ~ connection
    /\ game.pc = "start" => holder # 0 /\ connection /\ callbacks = Callbacks
    /\ game.pc \in Open \cup Leaving =>
           /\ connection <=> holder # 0
           /\ connection => keepRunning[holder] /\ (thread[holder] \in Alive \/ Crashed)
    /\ game.pc \in Open /\ connection => callbacks = Callbacks
    /\ game.pc \in Stopping => holder # 0 /\ connection
    /\ game.pc = "destroy" => holder = 0
    /\ Crashed => game.pc \in Leaving \cup Stopping

LifeInv == TypeOK /\ Serves

\* The program counters of the game, and the types of some variables.
Places == {"ready", "install", "create", "start", "signal", "handlers",
           "disarm", "forget", "lower", "stop", "notify", "join", "destroy"}
GameType == [pc : Places, inCallback : BOOLEAN]
ThreadType == [Lives -> Alive \cup {"none", "ended", "crashed"}]
MailType ==
    /\ presence \in [queued : BOOLEAN, update : BOOLEAN]
    /\ copy \in [Lives -> BOOLEAN]
    /\ signalled \in BOOLEAN

\* A thread that is alive has not ended.
LEMMA AliveIsNot == Alive \cap {"none", "ended", "crashed"} = {}
BY DEF Alive, InPass, Closing

\* What Game(from, to) does to the record.
LEMMA GameMoves ==
    ASSUME NEW from, NEW to \in Places, TypeOK, Game(from, to)
    PROVE  /\ game.pc = from /\ game'.pc = to
           /\ game'.inCallback = game.inCallback
           /\ game' \in GameType /\ ~ Crashed
<1>1. game \in GameType  BY DEF TypeOK, Places, GameType
<1>2. game.pc = from /\ game' = [game EXCEPT !.pc = to] /\ ~ Crashed  BY DEF Game
<1>. QED  BY <1>1, <1>2 DEF GameType

\* What Thread(l, from, to) does to the places of the threads.
LEMMA ThreadMoves ==
    ASSUME NEW l \in Lives, NEW from \in Alive,
           NEW to \in Alive \cup {"ended", "crashed"}, TypeOK, Thread(l, from, to)
    PROVE  /\ thread' \in ThreadType
           /\ thread[l] = from /\ thread'[l] = to
           /\ \A k \in Lives \ {l} : thread'[k] = thread[k]
           /\ ~ Crashed /\ (to # "crashed" => ~ Crashed')
<1>1. thread \in ThreadType  BY DEF TypeOK, ThreadType
<1>2. thread[l] = from /\ thread' = [thread EXCEPT ![l] = to] /\ ~ Crashed  BY DEF Thread
<1>3. /\ thread' \in ThreadType /\ thread'[l] = to
      /\ \A k \in Lives \ {l} : thread'[k] = thread[k]
  BY <1>1, <1>2 DEF ThreadType
<1>. QED  BY <1>2, <1>3 DEF Crashed

\* A wake-up leaves every thread as alive as it was, and crashes none.
LEMMA NotifiedType ==
    ASSUME TypeOK
    PROVE  /\ Notified \in ThreadType
           /\ \A k \in Lives : /\ Notified[k] \in Alive <=> thread[k] \in Alive
                               /\ Notified[k] = "crashed" <=> thread[k] = "crashed"
<1>1. thread \in ThreadType  BY DEF TypeOK, ThreadType
<1>2. "update" \in Alive /\ "waiting" \in Alive  BY DEF Alive
<1>3. Notified = [k \in Lives |-> IF k = holder /\ thread[k] = "waiting" THEN "update"
                                  ELSE thread[k]]
  BY DEF Notified
<1>. QED  BY <1>1, <1>2, <1>3 DEF ThreadType

\* Nothing that Serves says is disturbed while the same threads are alive and
\* the game stays where it is, goes from one open place to another, or has
\* begun Discord_Shutdown.
LEMMA QuietStep ==
    ASSUME TypeOK, Serves, holder' = holder, connection' = connection,
           \A k \in Lives : keepRunning'[k] = keepRunning[k],
           up' => connection,
           \A k \in Lives : thread'[k] \in Alive <=> thread[k] \in Alive,
           ~ Crashed, ~ Crashed',
           \/ /\ callbacks' = callbacks
              /\ game'.pc = game.pc \/ (game.pc \in Open /\ game'.pc \in Open)
           \/ game.pc \in Open \cup Leaving /\ game'.pc \in Leaving
    PROVE  Serves'
<1>1. holder # 0 => holder \in Lives
  BY LifeAssumption DEF TypeOK, Lives
<1>. QED  BY <1>1 DEF Serves, Open, Leaving, Stopping

-----------------------------------------------------------------------------
(* The IO threads. *)

\* A step of a thread from one live place to another.
LEMMA ThreadStep ==
    ASSUME LifeInv, NEW l \in Lives, NEW from \in Alive, NEW to \in Alive,
           Thread(l, from, to), UNCHANGED <<holders, connection, callbacks, game>>,
           up' \in BOOLEAN, up' => connection, MailType'
    PROVE  LifeInv'
<1>1. TypeOK /\ Serves  BY DEF LifeInv
<1>2. to # "crashed" /\ to \in Alive \cup {"ended", "crashed"}  BY AliveIsNot
<1>3. /\ thread' \in ThreadType
      /\ thread[l] = from /\ thread'[l] = to
      /\ \A k \in Lives \ {l} : thread'[k] = thread[k]
      /\ ~ Crashed /\ ~ Crashed'
  BY <1>1, <1>2, ThreadMoves
<1>4. holder' = holder /\ keepRunning' = keepRunning /\ freed' = freed /\ begun' = begun
      /\ connection' = connection /\ game' = game /\ callbacks' = callbacks
  BY DEF holders
<1>5. TypeOK'  BY <1>1, <1>3, <1>4 DEF TypeOK, ThreadType, MailType
<1>6. \A k \in Lives : thread'[k] \in Alive <=> thread[k] \in Alive  BY <1>3
<1>7. Serves'  BY ONLY <1>1, <1>3, <1>4, <1>6, up' => connection, QuietStep
<1>. QED  BY <1>5, <1>7 DEF LifeInv

\* The same, where the thread touches nothing but the presence.
LEMMA InnerStep ==
    ASSUME LifeInv, NEW l \in Lives, NEW from \in Alive, NEW to \in Alive,
           Thread(l, from, to), UNCHANGED <<holders, pipe, game>>, MailType'
    PROVE  LifeInv'
<1>1. up' = up /\ connection' = connection /\ callbacks' = callbacks  BY DEF pipe
<1>2. up \in BOOLEAN /\ (up => connection)  BY DEF LifeInv, TypeOK, Serves
<1>. QED  BY <1>1, <1>2, ThreadStep

\* The same, where the connection is left, or is no longer up.
LEMMA DownStep ==
    ASSUME LifeInv, NEW l \in Lives, NEW from \in Alive, NEW to \in Alive,
           Thread(l, from, to), up' = FALSE,
           UNCHANGED <<holders, connection, callbacks, mail, signalled, game>>
    PROVE  LifeInv'
<1>1. MailType'  BY DEF LifeInv, TypeOK, MailType, mail
<1>. QED  BY <1>1, ThreadStep

\* Close leaves the thread alive, about to call onDisconnect or past it.
LEMMA ClosePreserves ==
    ASSUME LifeInv, NEW l \in Lives, NEW from \in Alive, NEW calling \in Alive,
           NEW next \in Alive, Close(l, from, calling, next)
    PROVE  LifeInv'
<1>1. MailType' /\ UNCHANGED <<holders, connection, callbacks, mail, signalled, game>>
  BY DEF Close, LifeInv, TypeOK, MailType, mail
<1>2. CASE "onDisconnect" \in callbacks
  <2>1. Thread(l, from, calling) /\ UNCHANGED up  BY <1>2 DEF Close
  <2>. QED  BY <1>1, <2>1, InnerStep DEF pipe
<1>3. CASE "onDisconnect" \notin callbacks
  <2>1. Thread(l, from, next) /\ up' = FALSE  BY <1>3 DEF Close
  <2>. QED  BY <1>1, <2>1, DownStep
<1>. QED  BY <1>2, <1>3

\* A thread calls a null pointer only after Discord_Shutdown has begun: in an
\* open place the two pointers are set.
LEMMA CallNullPreserves ==
    ASSUME LifeInv, NEW l \in Lives, CallNull(l)
    PROVE  LifeInv'
<1>1. TypeOK /\ Serves  BY DEF LifeInv
<1>2. Thread(l, thread[l], "crashed") /\ UNCHANGED <<holders, pipe, mail, signalled, game>>
  BY DEF CallNull
<1>3. thread[l] \in Alive /\ callbacks # Callbacks
  BY DEF CallNull, Alive, InPass, Callbacks
<1>4. /\ thread' \in ThreadType /\ thread'[l] = "crashed"
      /\ \A k \in Lives \ {l} : thread'[k] = thread[k]
      /\ ~ Crashed
  BY <1>1, <1>2, <1>3, ThreadMoves
<1>5. Crashed'  BY <1>4 DEF Crashed
<1>6. holder' = holder /\ keepRunning' = keepRunning /\ freed' = freed /\ begun' = begun
      /\ connection' = connection /\ up' = up /\ callbacks' = callbacks /\ game' = game
  BY <1>2 DEF holders, pipe
<1>7. TypeOK'  BY <1>1, <1>2, <1>4, <1>6 DEF TypeOK, ThreadType, mail
<1>8. l = holder /\ connection /\ l # 0  BY <1>1, <1>3 DEF Serves, Lives
<1>9. game.pc \in Leaving \cup Stopping
  <2>1. game.pc \in Places  BY <1>1 DEF TypeOK, Places
  <2>2. /\ game.pc \notin {"install", "create", "start", "destroy"}
        /\ game.pc \notin Open
    BY <1>1, <1>3, <1>8 DEF Serves
  <2>. QED  BY <2>1, <2>2 DEF Places, Open, Leaving, Stopping
<1>10. \A k \in Lives : thread'[k] \in Alive => thread[k] \in Alive
  BY <1>4, AliveIsNot
<1>11. Serves'
  BY <1>1, <1>5, <1>6, <1>9, <1>10 DEF Serves, Open, Leaving, Stopping
<1>. QED  BY <1>7, <1>11 DEF LifeInv

\* Only a thread that Discord_Shutdown has told to stop ends.
LEMMA CheckPreserves ==
    ASSUME LifeInv, NEW l \in Lives, Check(l)
    PROVE  LifeInv'
<1>1. TypeOK /\ Serves  BY DEF LifeInv
<1>2. "check" \in Alive /\ "enter" \in Alive  BY DEF Alive
<1>3. MailType' /\ UNCHANGED <<holders, pipe, mail, signalled, game>>
  BY <1>1 DEF Check, TypeOK, MailType, mail
<1>4. CASE keepRunning[l]
  <2>1. Thread(l, "check", "enter")  BY <1>4 DEF Check
  <2>. QED  BY <1>2, <1>3, <2>1, InnerStep
<1>5. CASE ~ keepRunning[l]
  <2>1. Thread(l, "check", "ended")  BY <1>5 DEF Check
  <2>2. /\ thread' \in ThreadType
        /\ thread[l] = "check" /\ thread'[l] = "ended"
        /\ \A k \in Lives \ {l} : thread'[k] = thread[k]
        /\ ~ Crashed /\ ~ Crashed'
    BY <1>1, <1>2, <2>1, ThreadMoves
  <2>3. TypeOK'  BY <1>1, <1>3, <2>2 DEF TypeOK, ThreadType, holders, pipe, mail
  <2>4. l = holder /\ connection  BY <1>1, <1>2, <2>2 DEF Serves
  <2>5. game.pc \notin Open \cup Leaving  BY <1>1, <1>5, <2>4 DEF Serves
  <2>6. \A k \in Lives : thread'[k] \in Alive => thread[k] \in Alive
    BY <2>2, AliveIsNot
  <2>7. holder' = holder /\ connection' = connection /\ up' = up /\ game' = game
        /\ callbacks' = callbacks
    BY <1>3 DEF holders, pipe
  <2>8. Serves'  BY <1>1, <2>2, <2>5, <2>6, <2>7 DEF Serves
  <2>. QED  BY <2>3, <2>8 DEF LifeInv
<1>. QED  BY <1>4, <1>5

\* onConnect calls SignalIOActivity.
LEMMA ConnectSignalPreserves ==
    ASSUME LifeInv, NEW l \in Lives, ConnectSignal(l)
    PROVE  LifeInv'
<1>1. TypeOK /\ Serves  BY DEF LifeInv
<1>2. "check" \in Alive /\ "signal" \in Alive /\ "check" # "crashed"
  BY DEF Alive, InPass
<1>3. /\ Notified \in ThreadType
      /\ \A k \in Lives : /\ Notified[k] \in Alive <=> thread[k] \in Alive
                          /\ Notified[k] = "crashed" <=> thread[k] = "crashed"
  BY <1>1, NotifiedType
<1>4. /\ thread[l] = "signal" /\ thread' = [Notified EXCEPT ![l] = "check"] /\ ~ Crashed
      /\ UNCHANGED <<holders, pipe, mail, game>> /\ signalled' = (holder # 0)
  BY DEF ConnectSignal
<1>5. /\ thread' \in ThreadType /\ thread'[l] = "check"
      /\ \A k \in Lives \ {l} : thread'[k] = Notified[k]
  BY <1>2, <1>3, <1>4 DEF ThreadType
<1>6. \A k \in Lives : thread'[k] \in Alive <=> thread[k] \in Alive
  BY <1>2, <1>3, <1>4, <1>5
<1>7. ~ Crashed'  BY <1>2, <1>3, <1>4, <1>5 DEF Crashed
<1>8. TypeOK'  BY <1>1, <1>4, <1>5 DEF TypeOK, ThreadType, holders, pipe, mail
<1>9. holder' = holder /\ connection' = connection /\ keepRunning' = keepRunning
      /\ up' = up /\ callbacks' = callbacks /\ game' = game
  BY <1>4 DEF holders, pipe
<1>10. up' => connection  BY <1>1, <1>9 DEF Serves
<1>11. Serves'  BY <1>1, <1>4, <1>6, <1>7, <1>9, <1>10, QuietStep
<1>. QED  BY <1>8, <1>11 DEF LifeInv

\* Every step of an IO thread, the callbacks that the connection calls included.
LEMMA PassPreserves ==
    ASSUME LifeInv, NEW l \in Lives, Pass(l) \/ ConnectHandlers(l)
    PROVE  LifeInv'
<1>1. TypeOK /\ Serves  BY DEF LifeInv
<1>2. InPass \subseteq Alive /\ {"update", "check", "enter", "waiting"} \subseteq Alive
  BY DEF Alive
<1>3. {"lost", "unsent", "undrained", "pass", "connect", "onConnect", "look", "raise",
       "signal", "write", "take", "copy", "send", "requeue", "drain"} \subseteq Alive
  BY <1>2 DEF InPass, Closing
<1>4. MailType  BY <1>1 DEF TypeOK, MailType
<1>5. CASE Update(l)
  <2>1. PICK to \in {"pass", "check"} : Thread(l, "update", to)
    <3>1. Thread(l, "update", IF connection THEN "pass" ELSE "check")
      BY <1>5 DEF Update
    <3>. QED  BY ONLY <3>1
  <2>2. MailType' /\ UNCHANGED <<holders, pipe, game>>
    BY <1>4, <1>5 DEF Update, MailType, mail
  <2>. QED  BY <1>2, <1>3, <2>1, <2>2, InnerStep
<1>6. CASE Connects(l)
  <2>1. PICK to \in {"connect", "check"} : Thread(l, "pass", to)
    <3>1. Thread(l, "pass", IF "onConnect" \in callbacks THEN "connect" ELSE "check")
      BY <1>6 DEF Connects
    <3>. QED  BY ONLY <3>1
  <2>2. thread[l] = "pass"  BY <2>1 DEF Thread
  <2>3. connection  BY <1>1, <1>3, <2>2 DEF Serves
  <2>4. /\ MailType' /\ up' = TRUE
        /\ UNCHANGED <<holders, connection, callbacks, game>>
    BY <1>4, <1>6 DEF Connects, MailType, mail
  <2>. QED  BY <1>2, <1>3, <2>1, <2>3, <2>4, ThreadStep
<1>7. CASE CallConnect(l)
  <2>1. MailType'  BY <1>4, <1>7 DEF CallConnect, MailType, mail
  <2>. QED  BY <1>3, <1>7, <2>1, InnerStep DEF CallConnect
<1>8. CASE ConnectHandlers(l)
  <2>1. MailType'  BY <1>4, <1>8 DEF ConnectHandlers, MailType, mail
  <2>. QED  BY <1>3, <1>8, <2>1, InnerStep DEF ConnectHandlers
<1>9. CASE ConnectPresence(l)
  <2>1. PICK to \in {"raise", "check"} : Thread(l, "look", to)
    <3>1. Thread(l, "look", IF presence.queued THEN "raise" ELSE "check")
      BY <1>9 DEF ConnectPresence
    <3>. QED  BY ONLY <3>1
  <2>2. MailType'  BY <1>4, <1>9 DEF ConnectPresence, MailType, mail
  <2>. QED  BY <1>2, <1>3, <1>9, <2>1, <2>2, InnerStep DEF ConnectPresence
<1>10. CASE ConnectUpdate(l)
  <2>1. MailType'  BY <1>4, <1>10 DEF ConnectUpdate, MailType
  <2>. QED  BY <1>3, <1>10, <2>1, InnerStep DEF ConnectUpdate
<1>11. CASE PassEnds(l)
  <2>1. PICK to \in {"write", "check"} : Thread(l, "pass", to)
    <3>1. Thread(l, "pass", IF up THEN "write" ELSE "check")  BY <1>11 DEF PassEnds
    <3>. QED  BY ONLY <3>1
  <2>2. MailType'  BY <1>4, <1>11 DEF PassEnds, MailType, mail
  <2>. QED  BY <1>2, <1>3, <1>11, <2>1, <2>2, InnerStep DEF PassEnds
<1>12. CASE ConnectionLost(l)
  <2>1. PICK to \in {"write", "check"} : Close(l, "pass", "lost", to)
    <3>1. Close(l, "pass", "lost", IF up THEN "write" ELSE "check")
      BY <1>12 DEF ConnectionLost
    <3>. QED  BY ONLY <3>1
  <2>. QED  BY <1>2, <1>3, <2>1, ClosePreserves
<1>13. CASE Disconnected(l)
  <2>1. /\ up' = FALSE
        /\ UNCHANGED <<holders, connection, callbacks, mail, signalled, game>>
    BY <1>13 DEF Disconnected
  <2>2. CASE Thread(l, "lost", IF up THEN "write" ELSE "check")
    <3>1. PICK to \in {"write", "check"} : Thread(l, "lost", to)  BY ONLY <2>2
    <3>. QED  BY <1>2, <1>3, <2>1, <3>1, DownStep
  <2>3. CASE Thread(l, "unsent", "requeue")  BY <1>3, <2>1, <2>3, DownStep
  <2>4. CASE Thread(l, "undrained", "drain")  BY <1>3, <2>1, <2>4, DownStep
  <2>. QED  BY <1>13, <2>2, <2>3, <2>4 DEF Disconnected
<1>14. CASE TakePresence(l)
  <2>1. PICK to \in {"take", "drain"} : Thread(l, "write", to)
    <3>1. Thread(l, "write", IF presence.update THEN "take" ELSE "drain")
      BY <1>14 DEF TakePresence
    <3>. QED  BY ONLY <3>1
  <2>2. MailType'  BY <1>4, <1>14 DEF TakePresence, MailType
  <2>. QED  BY <1>3, <1>14, <2>1, <2>2, InnerStep DEF TakePresence
<1>15. CASE HasPresence(l)
  <2>1. PICK to \in {"copy", "drain"} : Thread(l, "take", to)
    <3>1. Thread(l, "take", IF presence.queued THEN "copy" ELSE "drain")
      BY <1>15 DEF HasPresence
    <3>. QED  BY ONLY <3>1
  <2>2. MailType'  BY <1>4, <1>15 DEF HasPresence, MailType, mail
  <2>. QED  BY <1>3, <1>15, <2>1, <2>2, InnerStep DEF HasPresence
<1>16. CASE CopyPresence(l)
  <2>1. presence.queued \in BOOLEAN  BY <1>4 DEF MailType
  <2>2. MailType'  BY <1>4, <1>16, <2>1 DEF CopyPresence, MailType
  <2>. QED  BY <1>3, <1>16, <2>2, InnerStep DEF CopyPresence
<1>17. CASE SendPresence(l)
  <2>1. MailType'  BY <1>4, <1>17 DEF SendPresence, MailType, mail
  <2>. QED  BY <1>3, <1>17, <2>1, InnerStep DEF SendPresence
<1>18. CASE SendFails(l)
  <2>1. CASE Close(l, "send", "unsent", "requeue")  BY <1>3, <2>1, ClosePreserves
  <2>2. CASE /\ Thread(l, "send", "requeue")
             /\ UNCHANGED <<holders, pipe, mail, signalled, game>>
    <3>1. MailType'  BY <1>4, <2>2 DEF MailType, mail
    <3>. QED  BY <1>3, <2>2, <3>1, InnerStep
  <2>. QED  BY <1>18, <2>1, <2>2 DEF SendFails
<1>19. CASE RequeuePresence(l)
  <2>1. MailType'  BY <1>4, <1>19 DEF RequeuePresence, MailType
  <2>. QED  BY <1>3, <1>19, <2>1, InnerStep DEF RequeuePresence
<1>20. CASE DrainFails(l)
  BY <1>3, <1>20, ClosePreserves DEF DrainFails
<1>21. CASE DrainEnds(l)
  <2>1. MailType'  BY <1>4, <1>21 DEF DrainEnds, MailType, mail
  <2>. QED  BY <1>2, <1>3, <1>21, <2>1, InnerStep DEF DrainEnds
<1>22. CASE Wait(l)
  <2>1. MailType'  BY <1>4, <1>22 DEF Wait, MailType, mail
  <2>. QED  BY <1>2, <1>22, <2>1, InnerStep DEF Wait
<1>23. CASE TimeOut(l)
  <2>1. MailType'  BY <1>4, <1>23 DEF TimeOut, MailType, mail
  <2>. QED  BY <1>2, <1>23, <2>1, InnerStep DEF TimeOut
<1>. QED  BY <1>5, <1>6, <1>7, <1>8, <1>9, <1>10, <1>11, <1>12, <1>13, <1>14, <1>15,
             <1>16, <1>17, <1>18, <1>19, <1>20, <1>21, <1>22, <1>23, ConnectSignalPreserves,
             CheckPreserves, CallNullPreserves DEF Pass

-----------------------------------------------------------------------------
(* The game. *)

\* What the game does in an open place, and once Discord_Shutdown has begun:
\* the threads are as alive as they were.
LEMMA OpenStep ==
    ASSUME LifeInv, NEW to \in Open \cup Leaving,
           game.pc \in Open \cup Leaving, game'.pc = to, game' \in GameType,
           ~ Crashed, thread' = thread \/ thread' = Notified,
           UNCHANGED <<holders, connection, up>>,
           callbacks' \subseteq Callbacks, MailType',
           \/ game.pc \in Open /\ to \in Open /\ callbacks' = callbacks
           \/ to \in Leaving
    PROVE  LifeInv'
<1>1. TypeOK /\ Serves  BY DEF LifeInv
<1>2. /\ thread' \in ThreadType
      /\ \A k \in Lives : /\ thread'[k] \in Alive <=> thread[k] \in Alive
                          /\ thread'[k] = "crashed" <=> thread[k] = "crashed"
  BY <1>1, NotifiedType DEF TypeOK, ThreadType
<1>3. ~ Crashed'  BY <1>2 DEF Crashed
<1>4. holder' = holder /\ keepRunning' = keepRunning /\ freed' = freed /\ begun' = begun
      /\ connection' = connection /\ up' = up
  BY DEF holders
<1>5. up' => connection  BY <1>1, <1>4 DEF Serves
<1>6. TypeOK'
  BY <1>1, <1>2, <1>4 DEF TypeOK, ThreadType, GameType, Places, MailType
<1>7. Serves'  BY <1>1, <1>2, <1>3, <1>4, <1>5, QuietStep
<1>. QED  BY <1>6, <1>7 DEF LifeInv

\* Every call of the game but Discord_Initialize, and Discord_Shutdown as far as
\* it has not yet come to the thread.
LEMMA CallsPreserve ==
    ASSUME LifeInv,
           \/ UpdatePresence \/ SignalIOActivity \/ UpdateHandlers \/ HandlersUpdated
           \/ RunCallback \/ CallbackReturns \/ Shutdown \/ Disarm \/ ForgetPresence
    PROVE  LifeInv'
<1>1. TypeOK /\ MailType /\ callbacks \subseteq Callbacks /\ game \in GameType
  BY DEF LifeInv, TypeOK, MailType, GameType, Places
<1>2. Open \cup Leaving \subseteq Places  BY DEF Open, Leaving, Places
<1>3. {"ready", "signal", "handlers"} \subseteq Open
      /\ {"disarm", "forget", "lower"} \subseteq Leaving
  BY DEF Open, Leaving
<1>4. CASE UpdatePresence
  <2>1. MailType'  BY <1>1, <1>4 DEF UpdatePresence, MailType
  <2>2. game.pc = "ready" /\ game'.pc = "signal" /\ game' \in GameType /\ ~ Crashed
    BY <1>1, <1>2, <1>3, <1>4, GameMoves DEF UpdatePresence
  <2>. QED  BY <1>1, <1>3, <1>4, <2>1, <2>2, OpenStep DEF UpdatePresence, pipe
<1>5. CASE SignalIOActivity
  <2>1. MailType'  BY <1>1, <1>5 DEF SignalIOActivity, MailType, mail
  <2>2. game.pc = "signal" /\ game'.pc = "ready" /\ game' \in GameType /\ ~ Crashed
    BY <1>1, <1>2, <1>3, <1>5, GameMoves DEF SignalIOActivity
  <2>. QED  BY <1>1, <1>3, <1>5, <2>1, <2>2, OpenStep DEF SignalIOActivity, pipe
<1>6. CASE UpdateHandlers
  <2>1. MailType'  BY <1>1, <1>6 DEF UpdateHandlers, MailType, mail
  <2>2. game.pc = "ready" /\ game'.pc = "handlers" /\ game' \in GameType /\ ~ Crashed
    BY <1>1, <1>2, <1>3, <1>6, GameMoves DEF UpdateHandlers
  <2>. QED  BY <1>1, <1>3, <1>6, <2>1, <2>2, OpenStep DEF UpdateHandlers, pipe
<1>7. CASE HandlersUpdated
  <2>1. MailType'  BY <1>1, <1>7 DEF HandlersUpdated, MailType, mail
  <2>2. game.pc = "handlers" /\ game'.pc = "ready" /\ game' \in GameType /\ ~ Crashed
    BY <1>1, <1>2, <1>3, <1>7, GameMoves DEF HandlersUpdated
  <2>. QED  BY <1>1, <1>3, <1>7, <2>1, <2>2, OpenStep DEF HandlersUpdated, pipe
<1>8. CASE RunCallback
  <2>1. game.pc = "ready" /\ game' = [game EXCEPT !.inCallback = TRUE] /\ ~ Crashed
    BY <1>8 DEF RunCallback
  <2>2. game'.pc = "ready" /\ game' \in GameType  BY <1>1, <2>1 DEF GameType
  <2>3. MailType'  BY <1>1, <1>8 DEF RunCallback, MailType, mail
  <2>. QED  BY <1>1, <1>3, <1>8, <2>1, <2>2, <2>3, OpenStep DEF RunCallback, pipe
<1>9. CASE CallbackReturns
  <2>1. game.pc = "ready" /\ game' = [game EXCEPT !.inCallback = FALSE] /\ ~ Crashed
    BY <1>9 DEF CallbackReturns
  <2>2. game'.pc = "ready" /\ game' \in GameType  BY <1>1, <2>1 DEF GameType
  <2>3. MailType'  BY <1>1, <1>9 DEF CallbackReturns, MailType, mail
  <2>. QED  BY <1>1, <1>3, <1>9, <2>1, <2>2, <2>3, OpenStep DEF CallbackReturns, pipe
<1>10. CASE Shutdown
  <2>1. MailType' /\ callbacks' \subseteq Callbacks
    BY <1>1, <1>10 DEF Shutdown, MailType, mail
  <2>2. game.pc = "ready" /\ game'.pc = "disarm" /\ game' \in GameType /\ ~ Crashed
    BY <1>1, <1>2, <1>3, <1>10, GameMoves DEF Shutdown
  <2>. QED  BY <1>1, <1>3, <1>10, <2>1, <2>2, OpenStep DEF Shutdown
<1>11. CASE Disarm
  <2>1. MailType' /\ callbacks' \subseteq Callbacks
    BY <1>1, <1>11 DEF Disarm, MailType, mail
  <2>2. game.pc = "disarm" /\ game'.pc = "forget" /\ game' \in GameType /\ ~ Crashed
    BY <1>1, <1>2, <1>3, <1>11, GameMoves DEF Disarm
  <2>. QED  BY <1>1, <1>3, <1>11, <2>1, <2>2, OpenStep DEF Disarm
<1>12. CASE ForgetPresence
  <2>1. MailType'  BY <1>1, <1>12 DEF ForgetPresence, MailType
  <2>2. game.pc = "forget" /\ game'.pc = "lower" /\ game' \in GameType /\ ~ Crashed
    BY <1>1, <1>2, <1>3, <1>12, GameMoves DEF ForgetPresence
  <2>. QED  BY <1>1, <1>3, <1>12, <2>1, <2>2, OpenStep DEF ForgetPresence, pipe
<1>. QED  BY <1>4, <1>5, <1>6, <1>7, <1>8, <1>9, <1>10, <1>11, <1>12

-----------------------------------------------------------------------------
(* Discord_Initialize and Discord_Shutdown. *)

\* While the game sets the library up no thread is alive, since there is no
\* connection: the assumption that the game does not initialize twice.
LEMMA InitializePreserves ==
    ASSUME LifeInv, Twice = FALSE, Initialize \/ InstallHandlers \/ Create \/ StartThread
    PROVE  LifeInv'
<1>1. TypeOK /\ Serves  BY DEF LifeInv
<1>2. MaxLives \in Nat /\ begun \in Nat /\ freed \subseteq 1 .. begun /\ holder \in Nat
  BY <1>1, LifeAssumption DEF TypeOK
<1>3. "update" \in Alive  BY DEF Alive
<1>4. CASE Initialize
  <2>1. game.pc = "ready" /\ game'.pc = "install" /\ game' \in GameType /\ ~ Crashed
    BY <1>1, <1>4, GameMoves DEF Initialize, Places
  <2>2. /\ begun < MaxLives /\ begun' = begun + 1 /\ holder' = begun + 1 /\ ~ connection
        /\ UNCHANGED <<freed, keepRunning, thread, pipe, mail, signalled>>
    BY <1>4, Zenon DEF Initialize
  <2>3. begun' \in 0 .. MaxLives /\ freed' \subseteq 1 .. begun'
        /\ holder' \in (0 .. begun') \ freed' /\ holder' # 0
    BY <1>2, <2>2
  <2>4. TypeOK'  BY <1>1, <2>1, <2>2, <2>3 DEF TypeOK, pipe, mail, Places, GameType
  <2>5. \A l \in Lives : thread[l] \notin Alive  BY <1>1, <2>2 DEF Serves
  <2>6. connection' = connection /\ up' = up /\ thread' = thread  BY <2>2 DEF pipe
  <2>7. ~ Crashed'  BY <2>1, <2>6 DEF Crashed
  <2>8. Serves'
    BY <1>1, <2>1, <2>2, <2>3, <2>5, <2>6, <2>7 DEF Serves, Open, Leaving, Stopping
  <2>. QED  BY <2>4, <2>8 DEF LifeInv
<1>5. CASE InstallHandlers
  <2>1. game.pc = "install"  BY <1>5 DEF InstallHandlers, Game
  <2>2. ~ connection  BY <1>1, <2>1 DEF Serves
  <2>3. Game("install", "create")  BY <1>5, <2>2 DEF InstallHandlers
  <2>4. game'.pc = "create" /\ game' \in GameType /\ ~ Crashed
    BY <1>1, <2>3, GameMoves DEF Places
  <2>5. UNCHANGED <<holders, thread, pipe, mail, signalled>>
    BY <1>5 DEF InstallHandlers
  <2>6. TypeOK'  BY <1>1, <2>4, <2>5 DEF TypeOK, pipe, holders, mail, Places, GameType
  <2>7. ~ Crashed'  BY <2>4, <2>5 DEF Crashed
  <2>8. Serves'
    BY <1>1, <2>1, <2>4, <2>5, <2>7 DEF Serves, Open, Leaving, Stopping, holders, pipe
  <2>. QED  BY <2>6, <2>8 DEF LifeInv
<1>6. CASE Create
  <2>1. game.pc = "create" /\ game'.pc = "start" /\ game' \in GameType /\ ~ Crashed
    BY <1>1, <1>6, GameMoves DEF Create, Places
  <2>2. /\ connection' = TRUE /\ callbacks' = Callbacks
        /\ UNCHANGED <<holders, thread, up, mail, signalled>>
    BY <1>6 DEF Create
  <2>3. TypeOK'  BY <1>1, <2>1, <2>2 DEF TypeOK, holders, mail, Places, GameType
  <2>4. holder' = holder /\ keepRunning' = keepRunning  BY <2>2 DEF holders
  <2>5. ~ Crashed'  BY <2>1, <2>2 DEF Crashed
  <2>6. Serves'
    BY <1>1, <2>1, <2>2, <2>4, <2>5 DEF Serves, Open, Leaving, Stopping
  <2>. QED  BY <2>3, <2>6 DEF LifeInv
<1>7. CASE StartThread
  <2>1. game.pc = "start" /\ game'.pc = "ready" /\ game' \in GameType /\ ~ Crashed
    BY <1>1, <1>7, GameMoves DEF StartThread, Places
  <2>2. /\ keepRunning' = [keepRunning EXCEPT ![holder] = TRUE]
        /\ thread' = [thread EXCEPT ![holder] = "update"]
        /\ UNCHANGED <<begun, holder, freed, pipe, mail, signalled>>
    BY <1>7 DEF StartThread
  <2>3. holder \in Lives /\ holder # 0 /\ connection /\ callbacks = Callbacks
    BY <1>1, <1>2, <2>1 DEF Serves, TypeOK, Lives
  <2>4. /\ keepRunning' \in [Lives -> BOOLEAN]
        /\ thread' \in ThreadType
        /\ keepRunning'[holder] = TRUE /\ thread'[holder] = "update"
        /\ \A l \in Lives \ {holder} : thread'[l] = thread[l]
    BY <1>1, <1>3, <2>2, <2>3 DEF TypeOK, ThreadType
  <2>5. TypeOK'
    BY <1>1, <2>1, <2>2, <2>4 DEF TypeOK, pipe, mail, Places, GameType, ThreadType
  <2>6. connection' = connection /\ up' = up /\ holder' = holder /\ callbacks' = callbacks
    BY <2>2 DEF pipe
  <2>7. ~ Crashed'  BY <2>1, <2>4 DEF Crashed
  <2>8. Serves'
    BY <1>1, <1>3, <2>1, <2>3, <2>4, <2>6, <2>7 DEF Serves, Open, Leaving, Stopping
  <2>. QED  BY <2>5, <2>8 DEF LifeInv
<1>. QED  BY <1>4, <1>5, <1>6, <1>7

\* Discord_Shutdown joins the thread before it destroys the connection.
LEMMA ShutdownPreserves ==
    ASSUME LifeInv, LowerUpdate \/ Stop \/ StopNotify \/ Join \/ Destroy
    PROVE  LifeInv'
<1>1. TypeOK /\ Serves  BY DEF LifeInv
<1>2. MaxLives \in Nat /\ begun \in Nat /\ freed \subseteq 1 .. begun /\ holder \in Nat
  BY <1>1, LifeAssumption DEF TypeOK
<1>3. holder # 0 => holder \in Lives /\ holder \in 1 .. begun
  BY <1>1, <1>2 DEF TypeOK, Lives
<1>4. CASE LowerUpdate
  <2>1. game.pc = "lower"  BY <1>4 DEF LowerUpdate, Game
  <2>2. PICK to \in {"destroy", "stop"} :
            Game("lower", to) /\ (to = "destroy" <=> holder = 0)
    <3>1. Game("lower", IF holder = 0 THEN "destroy" ELSE "stop")
      BY <1>4 DEF LowerUpdate
    <3>. QED  BY ONLY <3>1
  <2>3. game'.pc = to /\ game' \in GameType /\ ~ Crashed
    BY <1>1, <2>2, GameMoves DEF Places
  <2>4. /\ presence' = [presence EXCEPT !.update = FALSE]
        /\ UNCHANGED <<holders, thread, pipe, copy, signalled>>
    BY <1>4 DEF LowerUpdate
  <2>5. TypeOK'  BY <1>1, <2>3, <2>4 DEF TypeOK, pipe, holders, Places, GameType
  <2>6. ~ Crashed'  BY <2>3, <2>4 DEF Crashed
  <2>7. Serves'
    BY <1>1, <2>1, <2>2, <2>3, <2>4, <2>6
    DEF Serves, Open, Leaving, Stopping, holders, pipe
  <2>. QED  BY <2>5, <2>7 DEF LifeInv
<1>5. CASE Stop
  <2>1. game.pc = "stop" /\ game'.pc = "notify" /\ game' \in GameType /\ ~ Crashed
    BY <1>1, <1>5, GameMoves DEF Stop, Places
  <2>2. /\ keepRunning' = [keepRunning EXCEPT ![holder] = FALSE]
        /\ UNCHANGED <<begun, holder, freed, thread, pipe, mail, signalled>>
    BY <1>5 DEF Stop
  <2>3. TypeOK'  BY <1>1, <2>1, <2>2 DEF TypeOK, pipe, mail, Places, GameType
  <2>4. ~ Crashed'  BY <2>1, <2>2 DEF Crashed
  <2>5. Serves'  BY <1>1, <2>1, <2>2, <2>4 DEF Serves, Open, Leaving, Stopping, pipe
  <2>. QED  BY <2>3, <2>5 DEF LifeInv
<1>6. CASE StopNotify
  <2>1. game.pc = "notify" /\ game'.pc = "join" /\ game' \in GameType /\ ~ Crashed
    BY <1>1, <1>6, GameMoves DEF StopNotify, Places
  <2>2. thread' = Notified /\ UNCHANGED <<holders, pipe, mail, signalled>>
    BY <1>6 DEF StopNotify
  <2>3. /\ thread' \in ThreadType
        /\ \A k \in Lives : /\ thread'[k] \in Alive <=> thread[k] \in Alive
                            /\ thread'[k] = "crashed" <=> thread[k] = "crashed"
    BY <1>1, <2>2, NotifiedType
  <2>4. TypeOK'
    BY <1>1, <2>1, <2>2, <2>3 DEF TypeOK, holders, pipe, mail, Places, GameType, ThreadType
  <2>5. ~ Crashed'  BY <2>1, <2>3 DEF Crashed
  <2>6. Serves'
    BY <1>1, <2>1, <2>2, <2>3, <2>5 DEF Serves, Open, Leaving, Stopping, holders, pipe
  <2>. QED  BY <2>4, <2>6 DEF LifeInv
<1>7. CASE Join
  <2>1. game.pc = "join" /\ game'.pc = "destroy" /\ game' \in GameType /\ ~ Crashed
    BY <1>1, <1>7, GameMoves DEF Join, Places
  <2>2. /\ thread[holder] \notin Alive /\ freed' = freed \cup {holder} /\ holder' = 0
        /\ UNCHANGED <<begun, keepRunning, thread, pipe, mail, signalled>>
    BY <1>7 DEF Join
  <2>3. holder \in 1 .. begun  BY <1>1, <1>3, <2>1 DEF Serves, Stopping
  <2>4. freed' \subseteq 1 .. begun /\ holder' \in (0 .. begun) \ freed'
    BY <1>2, <2>2, <2>3
  <2>5. TypeOK'  BY <1>1, <2>1, <2>2, <2>4 DEF TypeOK, pipe, mail, Places, GameType
  <2>6. \A l \in Lives : thread[l] \notin Alive  BY <1>1, <2>2 DEF Serves
  <2>7. ~ Crashed'  BY <2>1, <2>2 DEF Crashed
  <2>8. Serves'
    BY <1>1, <2>1, <2>2, <2>6, <2>7 DEF Serves, Open, Leaving, Stopping, pipe
  <2>. QED  BY <2>5, <2>8 DEF LifeInv
<1>8. CASE Destroy
  <2>1. game.pc = "destroy" /\ game'.pc = "ready" /\ game' \in GameType /\ ~ Crashed
    BY <1>1, <1>8, GameMoves DEF Destroy, Places
  <2>2. /\ connection' = FALSE /\ up' = FALSE
        /\ UNCHANGED <<holders, thread, callbacks, mail, signalled>>
    BY <1>8 DEF Destroy
  <2>3. holder = 0  BY <1>1, <2>1 DEF Serves
  <2>4. \A l \in Lives : thread[l] \notin Alive
    <3>1. ASSUME NEW l \in Lives, thread[l] \in Alive  PROVE FALSE
      <4>1. l = 0  BY <1>1, <2>3, <3>1 DEF Serves
      <4>. QED  BY <4>1 DEF Lives
    <3>. QED  BY <3>1
  <2>5. TypeOK'  BY <1>1, <2>1, <2>2 DEF TypeOK, holders, mail, Places, GameType
  <2>6. holder' = 0 /\ thread' = thread  BY <2>2, <2>3 DEF holders
  <2>7. ~ Crashed'  BY <2>1, <2>2 DEF Crashed
  <2>8. Serves'
    BY <2>1, <2>2, <2>4, <2>6, <2>7 DEF Serves, Open, Leaving, Stopping
  <2>. QED  BY <2>5, <2>8 DEF LifeInv
<1>. QED  BY <1>4, <1>5, <1>6, <1>7, <1>8

-----------------------------------------------------------------------------
(* The theorems. *)

\* The invariant of all that follows: what Serves says of thread, holder,
\* connection and callbacks at each place of Discord_Initialize and
\* Discord_Shutdown.
THEOREM LifeInvariant ==
    ASSUME Twice = FALSE
    PROVE  Spec => []LifeInv
<1>1. Init => LifeInv
  <2>1. SUFFICES ASSUME Init PROVE LifeInv  OBVIOUS
  <2>2. MaxLives \in Nat  BY LifeAssumption
  <2>3. "none" \notin Alive  BY AliveIsNot
  <2>4. TypeOK
    <3>1. begun = 0 /\ holder = 0 /\ freed = {}  BY <2>1 DEF Init
    <3>2. begun \in 0 .. MaxLives /\ freed \subseteq 1 .. begun /\ holder \in (0 .. begun) \ freed
      BY ONLY <2>2, <3>1, LifeAssumption
    <3>3. thread \in ThreadType  BY <2>1 DEF Init, ThreadType
    <3>4. keepRunning \in [Lives -> BOOLEAN] /\ copy \in [Lives -> BOOLEAN]  BY <2>1 DEF Init
    <3>. QED  BY <2>1, <3>2, <3>3, <3>4 DEF Init, TypeOK, ThreadType
  <2>5. ~ Crashed  BY <2>1 DEF Init, Crashed
  <2>6. Serves  BY <2>1, <2>3, <2>5 DEF Init, Serves, Open, Leaving, Stopping
  <2>. QED  BY <2>4, <2>6 DEF LifeInv
<1>2. LifeInv /\ [Next]_vars => LifeInv'
  <2>1. SUFFICES ASSUME LifeInv, [Next]_vars PROVE LifeInv'  OBVIOUS
  <2>2. CASE Initialize \/ InstallHandlers \/ Create \/ StartThread
    BY <2>1, <2>2, InitializePreserves
  <2>3. CASE LowerUpdate \/ Stop \/ StopNotify \/ Join \/ Destroy
    BY <2>1, <2>3, ShutdownPreserves
  <2>4. CASE \/ UpdatePresence \/ SignalIOActivity \/ UpdateHandlers \/ HandlersUpdated
             \/ RunCallback \/ CallbackReturns \/ Shutdown \/ Disarm \/ ForgetPresence
    BY <2>1, <2>4, CallsPreserve
  <2>5. CASE \E l \in Lives : Pass(l) \/ ConnectHandlers(l)
    BY <2>1, <2>5, PassPreserves
  <2>6. CASE UNCHANGED vars
    BY <2>1, <2>6 DEF LifeInv, TypeOK, Serves, Crashed, vars, holders, pipe, mail
  <2>7. CASE ProcessGone  BY <2>6, <2>7 DEF ProcessGone
  <2>. QED  BY <2>1, <2>2, <2>3, <2>4, <2>5, <2>6, <2>7 DEF Next, GameCalls, GameGoesOn
<1>. QED  BY <1>1, <1>2, PTL DEF Spec

\* IoThread is null or points at a holder that has not been deleted, and the
\* rest keeps its type.
THEOREM TypeCorrect ==
    ASSUME Twice = FALSE
    PROVE  Spec => []TypeOK
<1>1. LifeInv => TypeOK  BY DEF LifeInv
<1>. QED  BY <1>1, LifeInvariant, PTL

\* Discord_Shutdown destroys the connection and deletes the holder when no IO
\* thread can use them any more.
THEOREM NothingIsUsedAfterDestroy ==
    ASSUME Twice = FALSE
    PROVE  Spec => []NoUseAfterDestroy
<1>1. LifeInv => NoUseAfterDestroy
  <2>1. SUFFICES ASSUME LifeInv PROVE NoUseAfterDestroy  OBVIOUS
  <2>2. TypeOK /\ Serves  BY <2>1 DEF LifeInv
  <2>3. InPass \subseteq Alive  BY DEF Alive
  <2>4. holder \notin freed  BY <2>2 DEF TypeOK
  <2>. QED  BY <2>2, <2>3, <2>4 DEF Serves, NoUseAfterDestroy
<1>. QED  BY <1>1, LifeInvariant, PTL

\* There is never a second IO thread, and none is missing while the library is
\* initialized and the game is not in one of the two functions.
THEOREM OneThreadServes ==
    ASSUME Twice = FALSE
    PROVE  Spec => []OneServes
<1>1. LifeInv => OneServes
  BY DEF LifeInv, Serves, Open, Leaving, Stopping, OneServes
<1>. QED  BY <1>1, LifeInvariant, PTL

\* The pointers that Discord_Shutdown clears under a running pass are called as
\* null before its join has returned or not at all: a new life sets them before
\* it has a thread.
THEOREM NullIsCalledOnlyAtShutdown ==
    ASSUME Twice = FALSE
    PROVE  Spec => []NullCallOnlyAtShutdown
<1>1. LifeInv => NullCallOnlyAtShutdown
  BY DEF LifeInv, Serves, Leaving, Stopping, NullCallOnlyAtShutdown
<1>. QED  BY <1>1, LifeInvariant, PTL
=============================================================================
