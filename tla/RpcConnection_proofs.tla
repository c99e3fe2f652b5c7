------------------------ MODULE RpcConnection_proofs ------------------------
(***************************************************************************)
(* The connection, proved for all messages, all kinds of pipes, any number *)
(* of names and pipes of any length.                                       *)
(***************************************************************************)
EXTENDS RpcConnection, SequenceTheorems, TLAPS

Piece == [of : Frames, part : Parts]
Pipes == [kind : Kinds, open : BOOLEAN, bytes : Seq(Piece), eof : BOOLEAN]
Callbacks == Seq({"connect", "disconnect"})
States == {"Disconnected", "SentHandshake", "Connected"}
PCs == {"idle", "search", "handshake", "header", "payload"}

\* What TypeOK says of the connection, and of the search.
ConnectionType ==
    /\ state \in States /\ lastError \in ErrorCodes /\ pipe \in Pipes
    /\ unsent \in Seq(Piece) /\ pc \in PCs /\ hand \in Frames \cup {Nobody}
    /\ got \in Messages \cup {NoPayload} /\ announced \in Callbacks
SearchType == Search!TypeOK /\ (pc = "search" <=> name # Nowhere)

\* Where the IO thread is tells the state, and whether it holds a header; a
\* closed connection has nothing in its pipe.
Places ==
    /\ pc \in {"search", "handshake"} => state = "Disconnected"
    /\ pc = "handshake" => pipe.open
    /\ pc = "payload" => state # "Disconnected"
    /\ IF pc = "payload" THEN hand \in Frames /\ hand.payload # NoPayload ELSE hand = Nobody
    /\ state = "Disconnected" => pipe.bytes = << >> /\ unsent = << >>

\* The search has gone past none of the clients that have listened since it
\* began.
Ahead == \A n \in steady : name # Nowhere => name <= n

Session == ConnectionType /\ SocketMatchesState /\ Places
Searching == SearchType /\ Ahead
ConnInv == Session /\ Searching

LEMMA TypeOKIs == TypeOK <=> ConnectionType /\ SearchType
BY DEF TypeOK, ConnectionType, SearchType, Piece, Pipes, Callbacks, States, PCs

\* The values that the actions give to the variables.
LEMMA Values ==
    /\ {"Success", "PipeClosed", "ReadCorrupt", "FromPeer"} \subseteq ErrorCodes
    /\ Nobody \notin Frames /\ << >> \in Seq(Piece)
    /\ \A f \in Frames : f.payload # NoPayload /\ f.op = "Frame" => f.payload \in Messages
    /\ \A f \in Frames : f.op = "Frame" => f.payload # NoPayload
BY ConnectionAssumption DEF ErrorCodes, Nobody, Frames, Messages

\* A callback more.
LEMMA CallbacksGrow ==
    ASSUME announced \in Callbacks, NEW what \in {"connect", "disconnect"}
    PROVE  Append(announced, what) \in Callbacks
BY AppendProperties DEF Callbacks

\* Closing a pipe.
LEMMA ShutPipeIs ==
    ASSUME pipe \in Pipes
    PROVE  /\ ShutPipe \in Pipes /\ ShutPipe.kind = pipe.kind
           /\ ~ ShutPipe.open /\ ShutPipe.bytes = << >> /\ ~ ShutPipe.eof
BY DEF Pipes, ShutPipe

\* Pieces of frames.
LEMMA PiecesType ==
    ASSUME NEW f \in Frames
    PROVE  Pieces(f) \in Seq(Piece)
<1>1. \A p \in Parts : [of |-> f, part |-> p] \in Piece  BY DEF Piece
<1>2. HeaderOf(f) \in Seq(Piece)  BY <1>1 DEF HeaderOf, Parts
<1>3. PayloadOf(f) \in Seq(Piece)  BY <1>1 DEF PayloadOf, Parts
<1>. QED  BY <1>2, <1>3, ConcatProperties DEF Pieces

-----------------------------------------------------------------------------
(* The search. *)

\* Nobody touches the search outside of it.
LEMMA SearchRests ==
    ASSUME Searching, UNCHANGED search, pc # "search", pc' # "search"
    PROVE  Searching'
BY DEF Searching, SearchType, Ahead, search, Search!TypeOK, Search!Names, Search!Listening,
       Search!Answers

\* It begins at the first name.
LEMMA SearchBegins ==
    ASSUME Searching, Search!Begin, pc' = "search"
    PROVE  Searching'
<1>1. name' = 0 /\ clients' \in [Search!Names -> Search!Answers]
      /\ steady' = Search!Listening(clients')
  BY DEF Search!Begin
<1>2. 0 \in Search!Names /\ 0 # Nowhere /\ \A n \in Search!Names : n \in Nat
  BY ConnectionAssumption DEF Search!Names
<1>3. Search!Listening(clients') \subseteq Search!Names  BY DEF Search!Listening
<1>4. Ahead'  BY <1>1, <1>2, <1>3 DEF Ahead
<1>. QED  BY <1>1, <1>2, <1>3, <1>4 DEF Searching, SearchType, Search!TypeOK, Search!Listening

\* It ends, in whatever way.
LEMMA SearchIsOver ==
    ASSUME Search!Over, pc' # "search"
    PROVE  Searching'
<1>1. name' = Nowhere /\ steady' = {} /\ clients' = Search!Quiet  BY DEF Search!Over
<1>2. Search!Quiet \in [Search!Names -> Search!Answers]  BY DEF Search!Quiet, Search!Answers
<1>. QED  BY <1>1, <1>2 DEF Searching, SearchType, Ahead, Search!TypeOK, Search!Listening

\* At a name that is passed nobody listens, so nobody has listened there all
\* the time.
LEMMA PassedIsNotSteady ==
    ASSUME Searching, NEW transport, Search!Passes(transport)
    PROVE  name \in Search!Names /\ name \notin steady
<1>1. name # Nowhere /\ clients[name] # "listens"
  BY DEF Search!Passes, Search!Answers
<1>2. name \in Search!Names /\ steady \subseteq Search!Listening(clients)
  BY <1>1 DEF Searching, SearchType, Search!TypeOK
<1>. QED  BY <1>1, <1>2 DEF Search!Listening

LEMMA SearchSkips ==
    ASSUME Searching, NEW transport, Search!Skip(transport), UNCHANGED pc
    PROVE  Searching'
<1>1. /\ name < LastName /\ name' = name + 1 /\ clients' = clients /\ steady' = steady
      /\ name \in Search!Names /\ name \notin steady
  BY PassedIsNotSteady DEF Search!Skip
<1>2. LastName \in Nat /\ name \in 0 .. LastName /\ steady \subseteq 0 .. LastName
  BY <1>1, ConnectionAssumption
     DEF Searching, SearchType, Search!TypeOK, Search!Names, Search!Listening
<1>3. name # Nowhere /\ name + 1 \in 0 .. LastName /\ name + 1 # Nowhere
  BY <1>1, <1>2, ConnectionAssumption
<1>4. Ahead'
  <2>1. SUFFICES ASSUME NEW n \in steady PROVE name + 1 <= n  BY <1>1 DEF Ahead
  <2>2. name <= n /\ name # n  BY <1>1, <1>3 DEF Searching, Ahead
  <2>. QED  BY <1>2, <2>2
<1>5. Search!TypeOK'
  BY <1>1, <1>3 DEF Searching, SearchType, Search!TypeOK, Search!Names, Search!Listening,
     Search!Answers
<1>. QED  BY <1>1, <1>3, <1>4, <1>5 DEF Searching, SearchType

LEMMA SearchChanges ==
    ASSUME Searching, Search!ClientChanges, UNCHANGED pc
    PROVE  Searching'
<1>1. name' = name /\ steady' = steady \cap Search!Listening(clients')
  BY DEF Search!ClientChanges
<1>2. clients' \in [Search!Names -> Search!Answers]
  BY DEF Search!ClientChanges, Searching, SearchType, Search!TypeOK
<1>. QED  BY <1>1, <1>2 DEF Searching, SearchType, Ahead, Search!TypeOK, Search!Listening

-----------------------------------------------------------------------------
(* The session. *)

\* Wherever Close is called, the connection ends disconnected.
LEMMA CloseEnds ==
    ASSUME Session, NEW code \in ErrorCodes, Close(code), pc' \in {"idle", "header"},
           hand' = Nobody, got' = got
    PROVE  Session'
<1>1. /\ state' = "Disconnected" /\ lastError' = code /\ pipe' = ShutPipe /\ unsent' = << >>
  BY DEF Close
<1>2. announced' \in Callbacks
  BY CallbacksGrow DEF Close, Session, ConnectionType
<1>3. pipe' \in Pipes /\ ~ pipe'.open /\ pipe'.bytes = << >>
  BY <1>1, ShutPipeIs DEF Session, ConnectionType
<1>4. ConnectionType'
  BY <1>1, <1>2, <1>3, Values DEF Session, ConnectionType, States, PCs
<1>5. SocketMatchesState' /\ Places'  BY <1>1, <1>3 DEF SocketMatchesState, Places
<1>. QED  BY <1>4, <1>5 DEF Session

LEMMA OpeningKeepsSession ==
    ASSUME Session, Searching, Opening
    PROVE  Session'
<1>. USE DEF Session, ConnectionType, SocketMatchesState, Places, States, PCs
<1>1. CASE StartSearch
  <2>1. pipe' \in Pipes /\ pipe'.bytes = pipe.bytes
    BY <1>1 DEF StartSearch, Pipes
  <2>. QED  BY <1>1, <2>1 DEF StartSearch
<1>2. CASE SearchGoesOn  BY <1>2 DEF SearchGoesOn
<1>3. CASE SearchSucceeds
  <2>1. pipe' \in Pipes /\ pipe'.bytes = pipe.bytes /\ pipe'.open
    BY <1>3 DEF SearchSucceeds, Pipes
  <2>2. pc = "search"  BY <1>3 DEF SearchSucceeds, Search!Found, Searching, SearchType
  <2>. QED  BY <1>3, <2>1, <2>2 DEF SearchSucceeds
<1>4. CASE SearchFails \/ SearchTimesOut
  <2>1. /\ pc' = "idle" /\ pipe' = ShutPipe
        /\ UNCHANGED <<state, lastError, unsent, hand, got, announced>>
    BY <1>4 DEF SearchFails, SearchTimesOut, SearchEndsWith
  <2>2. name # Nowhere
    BY <1>4 DEF SearchFails, SearchTimesOut, SearchEndsWith, Search!GiveUp, Search!TimesOut,
                Search!Passes
  <2>3. pc = "search"  BY <2>2 DEF Searching, SearchType
  <2>4. pipe' \in Pipes /\ ~ pipe'.open /\ pipe'.bytes = << >>  BY <2>1, ShutPipeIs
  <2>. QED  BY <2>1, <2>3, <2>4
<1>5. CASE SendHandshake
  <2>1. pc = "handshake" /\ pc' = "idle" /\ hand' = hand /\ got' = got /\ hand = Nobody
    BY <1>5 DEF SendHandshake
  <2>2. CASE Close(lastError)  BY <2>1, <2>2, CloseEnds
  <2>3. CASE ~ Close(lastError)
    <3>1. state' = "SentHandshake" /\ announced' = << >> /\ UNCHANGED <<lastError, pipe, unsent>>
      BY <1>5, <2>3 DEF SendHandshake
    <3>2. announced' \in Callbacks  BY <3>1, EmptySeq DEF Callbacks
    <3>. QED  BY <2>1, <3>1, <3>2
  <2>. QED  BY <2>2, <2>3
<1>. QED  BY <1>1, <1>2, <1>3, <1>4, <1>5 DEF Opening

\* What is left in a pipe that has been read from.
LEMMA UnconsumedIs ==
    ASSUME Session
    PROVE  /\ Unconsumed \in Pipes /\ Unconsumed.kind = pipe.kind
           /\ Unconsumed.open = pipe.open /\ Unconsumed.eof = pipe.eof
           /\ Unconsumed.bytes = SubSeq(pipe.bytes, 3, Len(pipe.bytes))
<1>1. pipe \in Pipes /\ pipe.bytes \in Seq(Piece)
  BY DEF Session, ConnectionType, Pipes
<1>2. PICK rest : rest = SubSeq(pipe.bytes, 3, Len(pipe.bytes))  OBVIOUS
<1>3. rest \in Seq(Piece)
  <2>1. Len(pipe.bytes) \in Nat  BY <1>1
  <2>2. \A i \in 3 .. Len(pipe.bytes) : pipe.bytes[i] \in Piece  BY <1>1, <2>1, ElementOfSeq
  <2>. QED  BY <1>2, <2>1, <2>2, SubSeqProperties
<1>4. Unconsumed = [pipe EXCEPT !.bytes = rest]  BY <1>2 DEF Unconsumed
<1>. QED  BY <1>1, <1>2, <1>3, <1>4 DEF Pipes

\* Read goes on, or returns, and the connection stays open.
LEMMA ReadingOn ==
    ASSUME Session, pc \in {"header", "payload"}, pc' \in {"idle", "header"},
           state' \in States \ {"Disconnected"},
           pipe' \in Pipes, pipe'.open,
           hand' = Nobody, got' \in Messages \cup {NoPayload}, announced' \in Callbacks,
           UNCHANGED <<lastError, unsent>>
    PROVE  Session'
BY DEF Session, ConnectionType, SocketMatchesState, Places, States, PCs

\* Whatever the opcode of a complete frame is.
LEMMA DispatchKeepsSession ==
    ASSUME Session, pc \in {"header", "payload"}, ReadsAll, NEW f \in Frames,
           Dispatch(f, Unconsumed)
    PROVE  Session'
<1>1. hand' = Nobody  BY DEF Dispatch
<1>2. pipe.open /\ Unconsumed \in Pipes /\ Unconsumed.open  BY UnconsumedIs DEF ReadsAll
<1>3. /\ state \in States \ {"Disconnected"} /\ announced \in Callbacks
      /\ got \in Messages \cup {NoPayload} /\ lastError \in ErrorCodes
  BY <1>2 DEF Session, ConnectionType, SocketMatchesState
<1>4. CASE f.op = "Frame" /\ ReturnMessage(f, Unconsumed)
  <2>1. pipe' = Unconsumed /\ UNCHANGED <<lastError, unsent>>  BY <1>4 DEF ReturnMessage
  <2>2. CASE state = "Connected"
    <3>1. got' = f.payload /\ pc' = "header" /\ UNCHANGED <<state, announced>>
      BY <1>4, <2>2 DEF ReturnMessage
    <3>2. got' \in Messages  BY <1>4, <3>1, Values
    <3>. QED  BY <1>1, <1>2, <1>3, <2>1, <3>1, <3>2, ReadingOn
  <2>3. CASE state # "Connected"
    <3>1. /\ pc' = "idle" /\ got' = got
          /\ \/ state' = "Connected" /\ announced' = Append(announced, "connect")
             \/ UNCHANGED <<state, announced>>
      BY <1>4, <2>3 DEF ReturnMessage
    <3>2. announced' \in Callbacks  BY <1>3, <3>1, CallbacksGrow
    <3>3. state' \in States \ {"Disconnected"}  BY <1>3, <3>1 DEF States
    <3>. QED  BY <1>1, <1>2, <1>3, <2>1, <3>1, <3>2, <3>3, ReadingOn
  <2>. QED  BY <2>2, <2>3
<1>5. CASE f.op = "Ping" /\ AnswerPing(Unconsumed)
  <2>1. pc' = "header" /\ got' = got  BY <1>5 DEF AnswerPing
  <2>2. CASE pipe' = Unconsumed /\ UNCHANGED <<state, lastError, unsent, announced>>
    BY <1>1, <1>2, <1>3, <2>1, <2>2, ReadingOn
  <2>3. CASE Close(lastError)  BY <1>1, <1>3, <2>1, <2>3, CloseEnds
  <2>. QED  BY <1>5, <2>2, <2>3 DEF AnswerPing
<1>6. CASE /\ pc' = "header" /\ pipe' = Unconsumed
           /\ UNCHANGED <<state, lastError, unsent, got, announced>>
  BY <1>1, <1>2, <1>3, <1>6, ReadingOn
<1>7. CASE (Close("FromPeer") \/ Close("ReadCorrupt")) /\ pc' = "idle" /\ UNCHANGED got
  BY <1>1, <1>7, CloseEnds, Values
<1>. QED  BY <1>4, <1>5, <1>6, <1>7 DEF Dispatch

\* A header is read as the frame it belongs to, and garbage as any frame.
LEMMA HeaderIsOfAFrame ==
    ASSUME Session, ReadsAll, NEW f \in FramesReadAs(SubSeq(pipe.bytes, 1, 2))
    PROVE  f \in Frames
<1>1. pipe.bytes \in Seq(Piece) /\ Len(pipe.bytes) \in Nat /\ Len(pipe.bytes) >= 2
  BY DEF Session, ConnectionType, Pipes, ReadsAll, Available
<1>2. pipe.bytes[1] \in Piece  BY <1>1, ElementOfSeq
<1>3. SubSeq(pipe.bytes, 1, 2)[1] = pipe.bytes[1]
  <2>1. \A i \in 1 .. 2 : pipe.bytes[i] \in Piece  BY <1>1, ElementOfSeq
  <2>. QED  BY <1>1, <2>1, SubSeqProperties
<1>. QED  BY <1>2, <1>3 DEF FramesReadAs, Piece

LEMMA ReadingKeepsSession ==
    ASSUME Session, Reading
    PROVE  Session'
<1>. USE DEF States
<1>1. CASE CallRead
  BY <1>1 DEF CallRead, Session, ConnectionType, SocketMatchesState, Places, PCs
<1>2. CASE ReadHeader
  <2>1. pc = "header" /\ ReadsAll  BY <1>2 DEF ReadHeader
  <2>2. PICK f \in FramesReadAs(SubSeq(pipe.bytes, 1, 2)) :
            IF f.payload = NoPayload
            THEN Dispatch(f, Unconsumed)
            ELSE /\ hand' = f /\ pc' = "payload" /\ pipe' = Unconsumed
                 /\ UNCHANGED <<state, lastError, unsent, got, announced>>
    BY <1>2 DEF ReadHeader
  <2>3. f \in Frames  BY <2>1, HeaderIsOfAFrame
  <2>0. state # "Disconnected"  BY <2>1 DEF ReadsAll, Session, SocketMatchesState
  <2>4. CASE f.payload = NoPayload  BY <2>1, <2>2, <2>3, <2>4, DispatchKeepsSession
  <2>5. CASE f.payload # NoPayload
    <3>1. pipe' \in Pipes /\ pipe'.open = pipe.open  BY <2>2, <2>5, UnconsumedIs
    <3>. QED
      BY <2>0, <2>1, <2>2, <2>3, <2>5, <3>1
         DEF Session, ConnectionType, SocketMatchesState, Places, PCs
  <2>. QED  BY <2>4, <2>5
<1>3. CASE ReadNothing
  <2>1. pc = "header" /\ state # "Disconnected" /\ hand = Nobody
    BY <1>3 DEF ReadNothing, ReadsShort, Session, SocketMatchesState, Places
  <2>2. Leftover \in Seq(Piece)
    BY DEF Leftover, Session, ConnectionType, Pipes
  <2>3. pipe' \in Pipes /\ pipe'.open
    BY <1>3, <2>2 DEF ReadNothing, ReadsShort, Session, ConnectionType, Pipes
  <2>. QED
    BY <1>3, <2>1, <2>3, ReadingOn DEF ReadNothing, Session, ConnectionType
<1>4. CASE ReadPipeClosed
  <2>1. hand = Nobody  BY <1>4 DEF ReadPipeClosed, Session, Places
  <2>. QED  BY <1>4, <2>1, CloseEnds, Values DEF ReadPipeClosed
<1>5. CASE ReadPayload
  <2>1. pc = "payload" /\ ReadsAll /\ hand \in Frames /\ Dispatch(hand, Unconsumed)
    BY <1>5 DEF ReadPayload, Session, Places
  <2>. QED  BY <2>1, DispatchKeepsSession
<1>6. CASE ReadPartial
  BY <1>6, CloseEnds, Values DEF ReadPartial
<1>. QED  BY <1>1, <1>2, <1>3, <1>4, <1>5, <1>6 DEF Reading

LEMMA WriteKeepsSession ==
    ASSUME Session, WriteFails
    PROVE  Session'
<1>1. pc' = "idle" /\ hand' = Nobody /\ got' = got /\ Close(lastError)
  BY DEF WriteFails, Session, Places
<1>2. lastError \in ErrorCodes  BY DEF Session, ConnectionType
<1>. QED  BY <1>1, <1>2, CloseEnds

LEMMA PeerKeepsSession ==
    ASSUME Session, Searching, Peer
    PROVE  Session'
<1>. USE DEF Session, ConnectionType, SocketMatchesState, Places
<1>1. ASSUME NEW f \in Frames, PeerSends(f) PROVE Session'
  <2>1. Pieces(f) \in Seq(Piece)  BY PiecesType
  <2>2. state # "Disconnected"  BY <1>1 DEF PeerSends
  <2>3. pipe.bytes \o Pieces(f) \in Seq(Piece)  BY <2>1, ConcatProperties DEF Pipes
  <2>4. pipe' \in Pipes /\ pipe'.open = pipe.open  BY <1>1, <2>3 DEF PeerSends, Pipes
  <2>5. unsent' \in Seq(Piece)  BY <1>1, <2>1 DEF PeerSends
  <2>. QED  BY <1>1, <2>2, <2>4, <2>5 DEF PeerSends
<1>2. CASE PeerWritesPiece
  <2>1. unsent # << >> /\ state # "Disconnected"  BY <1>2 DEF PeerWritesPiece
  <2>2. Head(unsent) \in Piece /\ Tail(unsent) \in Seq(Piece)  BY <2>1, HeadTailProperties
  <2>3. Append(pipe.bytes, Head(unsent)) \in Seq(Piece)  BY <2>2, AppendProperties DEF Pipes
  <2>4. pipe' \in Pipes /\ pipe'.open = pipe.open /\ unsent' \in Seq(Piece)
    BY <1>2, <2>2, <2>3 DEF PeerWritesPiece, Pipes
  <2>. QED  BY <1>2, <2>1, <2>4 DEF PeerWritesPiece
<1>3. CASE PeerCloses
  <2>1. pipe' \in Pipes /\ pipe'.open = pipe.open /\ pipe'.bytes = pipe.bytes
    BY <1>3 DEF PeerCloses, Pipes
  <2>. QED  BY <1>3, <2>1 DEF PeerCloses
<1>4. CASE ClientChanges  BY <1>4 DEF ClientChanges
<1>. QED  BY <1>1, <1>2, <1>3, <1>4 DEF Peer

-----------------------------------------------------------------------------
(* The connection and the search together. *)

LEMMA NextKeepsSearching ==
    ASSUME Session, Searching, Next
    PROVE  Searching'
<1>1. CASE Reading \/ WriteFails \/ PeerWritesPiece \/ PeerCloses
           \/ \E f \in Frames : PeerSends(f)
  <2>1. UNCHANGED search
    BY <1>1 DEF Reading, CallRead, ReadHeader, ReadNothing, ReadPipeClosed, ReadPayload,
                ReadPartial, WriteFails, PeerWritesPiece, PeerCloses, PeerSends
  <2>2. pc' = pc \/ (pc # "search" /\ pc' # "search")
    <3>1. CASE Reading
      BY <3>1 DEF Reading, CallRead, ReadHeader, ReadNothing, ReadPipeClosed, ReadPayload,
                  ReadPartial, Dispatch, ReturnMessage, AnswerPing
    <3>. QED  BY <1>1, <3>1 DEF WriteFails, PeerWritesPiece, PeerCloses, PeerSends
  <2>. QED
    BY <2>1, <2>2, SearchRests
       DEF Searching, SearchType, Ahead, search, Search!TypeOK, Search!Names,
           Search!Listening, Search!Answers
<1>2. CASE StartSearch  BY <1>2, SearchBegins DEF StartSearch
<1>3. CASE SearchGoesOn  BY <1>3, SearchSkips DEF SearchGoesOn
<1>4. CASE SearchSucceeds  BY <1>4, SearchIsOver DEF SearchSucceeds, Search!Found
<1>5. CASE SearchFails \/ SearchTimesOut
  BY <1>5, SearchIsOver
     DEF SearchFails, SearchTimesOut, SearchEndsWith, Search!GiveUp, Search!TimesOut
<1>6. CASE SendHandshake  BY <1>6, SearchRests DEF SendHandshake
<1>7. CASE ClientChanges  BY <1>7, SearchChanges DEF ClientChanges
<1>. QED  BY <1>1, <1>2, <1>3, <1>4, <1>5, <1>6, <1>7 DEF Next, Opening, Peer

LEMMA StutterKeepsConnInv ==
    ASSUME ConnInv, UNCHANGED vars
    PROVE  ConnInv'
<1>1. UNCHANGED search  BY DEF vars
<1>2. Session'
  BY DEF vars, ConnInv, Session, ConnectionType, SocketMatchesState, Places
<1>3. Searching'
  BY <1>1 DEF vars, search, ConnInv, Searching, SearchType, Ahead, Search!TypeOK,
              Search!Names, Search!Listening, Search!Answers
<1>. QED  BY <1>2, <1>3 DEF ConnInv

LEMMA ConnInvInitially == Init => ConnInv
<1>. SUFFICES ASSUME Init PROVE ConnInv  OBVIOUS
<1>1. pipe \in Pipes /\ ~ pipe.open /\ pipe.bytes = << >>  BY Values DEF Init, Pipes
<1>2. announced \in Callbacks  BY EmptySeq DEF Init, Callbacks
<1>3. Session
  BY <1>1, <1>2, Values
     DEF Init, Session, ConnectionType, SocketMatchesState, Places, States, PCs
<1>4. Search!Quiet \in [Search!Names -> Search!Answers]  BY DEF Search!Quiet, Search!Answers
<1>5. Searching
  BY <1>4 DEF Init, Search!Init, Searching, SearchType, Ahead, Search!TypeOK, Search!Listening
<1>. QED  BY <1>3, <1>5 DEF ConnInv

LEMMA ConnInvIsInductive == ConnInv /\ [Next]_vars => ConnInv'
<1>. SUFFICES ASSUME ConnInv, [Next]_vars PROVE ConnInv'  OBVIOUS
<1>1. CASE Next
  BY <1>1, OpeningKeepsSession, ReadingKeepsSession, WriteKeepsSession, PeerKeepsSession,
     NextKeepsSearching DEF Next, ConnInv
<1>2. CASE UNCHANGED vars  BY <1>2, StutterKeepsConnInv
<1>. QED  BY <1>1, <1>2

\* The strengthened invariant: types, the socket and the place of the IO
\* thread agree with the state, and a search is ahead of no steady client.
THEOREM ConnectionInvariant == Spec => []ConnInv
BY ConnInvInitially, ConnInvIsInductive, PTL DEF Spec

\* Every variable of the connection keeps its type.
THEOREM TypeCorrect == Spec => []TypeOK
<1>1. ConnInv => TypeOK  BY TypeOKIs DEF ConnInv, Session, Searching
<1>. QED  BY <1>1, ConnectionInvariant, PTL

\* Outside of Open a socket is open exactly while there is a session,
\* whichever call of the platform has failed, and wherever.
THEOREM NoSocketIsLeftBehind == Spec => []SocketMatchesState
<1>1. ConnInv => SocketMatchesState  BY DEF ConnInv, Session
<1>. QED  BY <1>1, ConnectionInvariant, PTL

\* The step of a search that goes on or is over.
LEMMA NobodyIsMissed ==
    ASSUME ConnInv, Next, name # Nowhere, name' # name
    PROVE  \/ clients[name] = "listens" /\ pc' = "handshake"
           \/ /\ clients[name] \in {"refuses", "busy"} /\ pipe.kind.transport = "windows"
              /\ pc' = "idle"
           \/ \A n \in steady : name <= n /\ name' \in 0 .. n
<1>1. /\ LastName \in Nat /\ steady \subseteq 0 .. LastName
      /\ \A n \in steady : name <= n
  BY ConnectionAssumption
     DEF ConnInv, Searching, SearchType, Ahead, Search!TypeOK, Search!Names, Search!Listening
<1>2. pc = "search"  BY DEF ConnInv, Searching, SearchType
<1>3. SearchGoesOn \/ SearchSucceeds \/ SearchFails \/ SearchTimesOut
  BY <1>2 DEF Next, Opening, Reading, Peer, StartSearch, SendHandshake, CallRead, ReadHeader,
              ReadNothing, ReadPipeClosed, ReadPayload, ReadPartial, WriteFails, PeerSends,
              PeerWritesPiece, PeerCloses, ClientChanges, Search!ClientChanges, search
<1>4. CASE SearchGoesOn
  <2>1. name' = name + 1 /\ name \in 0 .. LastName /\ name \notin steady
    BY <1>4, PassedIsNotSteady DEF SearchGoesOn, Search!Skip, ConnInv, Search!Names
  <2>2. ASSUME NEW n \in steady PROVE name' \in 0 .. n
    <3>1. n \in 0 .. LastName /\ name <= n /\ name # n  BY <1>1, <2>1
    <3>. QED  BY <1>1, <2>1, <3>1
  <2>. QED  BY <1>1, <2>2
<1>5. CASE SearchSucceeds  BY <1>5 DEF SearchSucceeds, Search!Found
<1>6. CASE SearchTimesOut
  BY <1>6 DEF SearchTimesOut, SearchEndsWith, Search!TimesOut
<1>7. CASE SearchFails
  <2>1. pc' = "idle" /\ Search!GiveUp(pipe.kind.transport)
    BY <1>7 DEF SearchFails, SearchEndsWith
  <2>2. CASE Search!Passes(pipe.kind.transport) /\ name = LastName
    <3>1. name \notin steady  BY <2>2, PassedIsNotSteady DEF ConnInv
    <3>2. steady = {}  BY <1>1, <2>2, <3>1
    <3>. QED  BY <3>2
  <2>3. CASE pipe.kind.transport = "windows" /\ clients[name] = "refuses"  BY <2>1, <2>3
  <2>. QED  BY <2>1, <2>2, <2>3 DEF Search!GiveUp
<1>. QED  BY <1>3, <1>4, <1>5, <1>6, <1>7

\* A search goes past no client that has listened since it began, and gives
\* up only where there is none, or at a pipe that refuses or stays busy.
THEOREM NoClientIsMissed == Spec => SearchMissesNobody
<1>1. ConnInv /\ [Next]_vars =>
          [name # Nowhere /\ name' # name =>
             \/ clients[name] = "listens" /\ pc' = "handshake"
             \/ /\ clients[name] \in {"refuses", "busy"} /\ pipe.kind.transport = "windows"
                /\ pc' = "idle"
             \/ \A n \in steady : name <= n /\ name' \in 0 .. n]_vars
  BY NobodyIsMissed
<1>. QED  BY <1>1, ConnectionInvariant, PTL DEF Spec, SearchMissesNobody
=============================================================================
