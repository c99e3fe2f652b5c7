--------------------------- MODULE RpcConnection ---------------------------
(***************************************************************************)
(* The connection to the Discord client: RpcConnection (rpc_connection.cpp *)
(* and .h) over the platform's BaseConnection (connection_unix.cpp,        *)
(* connection_win.cpp), called by the IO thread, with the Discord client   *)
(* at the other end of the pipe.                                           *)
(*                                                                         *)
(* A frame is a header (opcode and length) and, if the length is not 0, a  *)
(* payload.  Each is read by one call of BaseConnection::Read, and the     *)
(* peer may write between the two calls, so each call is a step.  Bytes    *)
(* are abstracted to half headers and half payloads, the least that lets   *)
(* a read be short.                                                        *)
(*                                                                         *)
(* A pipe is of a kind: its transport is "unix" (recv on a non-blocking    *)
(* stream socket: a short read consumes what there is) or "windows"        *)
(* (PeekNamedPipe first: a read gets all that it asks for or nothing), and *)
(* the peer writes each frame whole or in pieces.                          *)
(*                                                                         *)
(* Open first searches for the pipe, which is module PipeSearch.           *)
(***************************************************************************)
EXTENDS Integers, Sequences, SequencesExt

CONSTANTS Events, Ready, Blank, NoPayload, Kinds, LastName, Nowhere, MaxPieces

ASSUME ConnectionAssumption ==
    /\ Kinds \subseteq [transport : {"unix", "windows"}, whole : BOOLEAN]
    /\ Ready \notin Events
    /\ {Blank, NoPayload} \cap (Events \cup {Ready}) = {}
    /\ Blank # NoPayload
    /\ LastName \in Nat /\ Nowhere \notin 0 .. LastName

Messages == Events \cup {Ready}

\* Frames of the peer.  Only Frame carries a message (and is never empty: the
\* code would parse a buffer that it has not filled); any other has some
\* payload or none.  "Bad" stands for Handshake and for every unknown opcode.
Frames ==
    [op : {"Frame"}, payload : Messages]
        \cup [op : {"Close", "Ping", "Pong", "Bad"}, payload : {Blank, NoPayload}]

HeaderOf(f) == << [of |-> f, part |-> "header1"], [of |-> f, part |-> "header2"] >>
PayloadOf(f) ==
    IF f.payload = NoPayload THEN << >>
    ELSE << [of |-> f, part |-> "payload1"], [of |-> f, part |-> "payload2"] >>
Pieces(f) == HeaderOf(f) \o PayloadOf(f)

Parts == {"header1", "header2", "payload1", "payload2"}

VARIABLES
    state,      \* RpcConnection::state
    lastError,  \* lastErrorCode
    pipe,       \* [kind, open, bytes, eof]: our end of the socket, what it holds
    unsent,     \* what the peer has still to write of its current frame
    pc,         \* where the IO thread is
    name, clients, steady,  \* the search for the pipe
    hand,       \* the frame whose header has been read
    got,        \* the message that Read returned last
    announced   \* the callbacks of the last session

search == <<name, clients, steady>>
vars == <<state, lastError, pipe, unsent, pc, search, hand, got, announced>>

Search == INSTANCE PipeSearch

Nobody == [op |-> "none", payload |-> NoPayload]
ErrorCodes == {"Success", "PipeClosed", "ReadCorrupt", "FromPeer"}

TypeOK ==
    /\ state \in {"Disconnected", "SentHandshake", "Connected"}
    /\ lastError \in ErrorCodes
    /\ pipe \in [kind : Kinds, open : BOOLEAN,
                 bytes : Seq([of : Frames, part : Parts]), eof : BOOLEAN]
    /\ unsent \in Seq([of : Frames, part : Parts])
    /\ pc \in {"idle", "search", "handshake", "header", "payload"}
    /\ Search!TypeOK
    /\ pc = "search" <=> name # Nowhere
    /\ hand \in Frames \cup {Nobody}
    /\ got \in Messages \cup {NoPayload}
    /\ announced \in Seq({"connect", "disconnect"})

ShutPipe == [kind |-> pipe.kind, open |-> FALSE, bytes |-> << >>, eof |-> FALSE]

Init ==
    /\ state = "Disconnected"
    /\ lastError = "Success"
    /\ \E k \in Kinds : pipe = [kind |-> k, open |-> FALSE, bytes |-> << >>, eof |-> FALSE]
    /\ unsent = << >>
    /\ pc = "idle"
    /\ Search!Init
    /\ hand = Nobody
    /\ got = NoPayload
    /\ announced = << >>

-----------------------------------------------------------------------------
(* RpcConnection::Close, called with lastError holding code. *)

Close_Again(code) ==
    /\ lastError' = code
    /\ announced' = Append(announced, "disconnect")
    /\ pipe' = ShutPipe
    /\ unsent' = << >>
    /\ state' = "Disconnected"
Close(code) ==
    /\ lastError' = code
    /\ announced' = IF state \in {"Connected", "SentHandshake"}
                    THEN Append(announced, "disconnect")
                    ELSE announced
    /\ pipe' = ShutPipe
    /\ unsent' = << >>
    /\ state' = "Disconnected"

-----------------------------------------------------------------------------
(* RpcConnection::Open. *)

\* The socket is created before the search, the handle of a Windows pipe only
\* by its success.  (When there is no socket to be had, nothing changes.)
StartSearch ==
    /\ pc = "idle" /\ state = "Disconnected"
    /\ Search!Begin
    /\ pc' = "search"
    /\ pipe' = [pipe EXCEPT !.open = pipe.kind.transport = "unix"]
    /\ UNCHANGED <<state, lastError, unsent, hand, got, announced>>

SearchGoesOn ==
    /\ Search!Skip(pipe.kind.transport)
    /\ UNCHANGED <<state, lastError, pipe, unsent, pc, hand, got, announced>>

SearchSucceeds ==
    /\ Search!Found
    /\ pc' = "handshake"
    /\ pipe' = [pipe EXCEPT !.open = TRUE]
    /\ UNCHANGED <<state, lastError, unsent, hand, got, announced>>

SearchEndsWith_LeaksSocket(failure) ==
    /\ failure
    /\ pc' = "idle"
    /\ UNCHANGED <<state, lastError, pipe, unsent, hand, got, announced>>
SearchEndsWith(failure) ==
    /\ failure
    /\ pc' = "idle"
    /\ pipe' = ShutPipe
    /\ UNCHANGED <<state, lastError, unsent, hand, got, announced>>

SearchFails == SearchEndsWith(Search!GiveUp(pipe.kind.transport))
SearchTimesOut == SearchEndsWith(Search!TimesOut(pipe.kind.transport))

SendHandshake ==
    /\ pc = "handshake"
    /\ \/ /\ state' = "SentHandshake"
          /\ announced' = << >>
          /\ UNCHANGED <<lastError, pipe, unsent>>
       \/ Close(lastError)
    /\ pc' = "idle"
    /\ UNCHANGED <<search, hand, got>>

\* Open in SentHandshake looks for READY; the loop of Discord_UpdateConnection
\* reads while Connected.  Both are a call of Read.
CallRead_OnlyConnected ==
    /\ pc = "idle"
    /\ state = "Connected"
    /\ pc' = "header"
    /\ UNCHANGED <<search, state, lastError, pipe, unsent, hand, got, announced>>
CallRead ==
    /\ pc = "idle"
    /\ state \in {"SentHandshake", "Connected"}
    /\ pc' = "header"
    /\ UNCHANGED <<search, state, lastError, pipe, unsent, hand, got, announced>>

-----------------------------------------------------------------------------
(* BaseConnection::Read of two pieces: all of them, some of them, none     *)
(* yet, or the end of the stream.                                          *)

Available == Len(pipe.bytes)

ReadsAll == pipe.open /\ Available >= 2

\* Not enough bytes.  What a short recv returns is gone; what PeekNamedPipe
\* has seen stays, even if the peer will never write the rest.
ReadsShort == pipe.open /\ (Available = 1 \/ (Available = 0 /\ ~ pipe.eof))

Leftover_Dropped == << >>
Leftover == IF pipe.kind.transport = "unix" THEN << >> ELSE pipe.bytes

\* The stream has ended, or the call reports an error, or the pipe was shut
\* before.
ReadsEnd == pipe.eof \/ ~ pipe.open

Unconsumed == [pipe EXCEPT !.bytes = SubSeq(@, 3, Len(@))]

\* A header that is not a frame's two halves is garbage: any opcode.
FramesReadAs(pieces) ==
    IF pieces = HeaderOf(pieces[1].of) THEN {pieces[1].of} ELSE Frames

\* Read has a complete frame f, in a pipe that holds what is left.
ReturnMessage(f, left) ==
    /\ IF state = "Connected"
       THEN /\ got' = f.payload
            /\ pc' = "header"   \* the loop reads again
            /\ UNCHANGED <<state, announced>>
       ELSE /\ pc' = "idle"
            /\ UNCHANGED got
            /\ IF f.payload = Ready
               THEN state' = "Connected" /\ announced' = Append(announced, "connect")
               ELSE UNCHANGED <<state, announced>>
    /\ pipe' = left
    /\ UNCHANGED <<lastError, unsent>>

\* The pong is written; or the write fails, and Close.  Either way reading
\* goes on: after a Close the next Read finds the pipe shut and closes again.
AnswerPing(left) ==
    /\ pc' = "header"
    /\ \/ /\ pipe' = left
          /\ UNCHANGED <<state, lastError, unsent, announced>>
       \/ Close(lastError)
    /\ UNCHANGED got

Dispatch(f, left) ==
    /\ hand' = Nobody
    /\ \/ /\ f.op = "Frame"
          /\ ReturnMessage(f, left)
       \/ /\ f.op = "Ping"
          /\ AnswerPing(left)
       \/ /\ f.op = "Pong"
          /\ pc' = "header" /\ pipe' = left
          /\ UNCHANGED <<state, lastError, unsent, got, announced>>
       \/ /\ f.op = "Close"
          /\ Close("FromPeer")
          /\ pc' = "idle" /\ UNCHANGED got
       \/ /\ f.op = "Bad"
          /\ Close("ReadCorrupt")
          /\ pc' = "idle" /\ UNCHANGED got

ReadHeader ==
    /\ pc = "header" /\ ReadsAll
    /\ \E f \in FramesReadAs(SubSeq(pipe.bytes, 1, 2)) :
           IF f.payload = NoPayload
           THEN Dispatch(f, Unconsumed)
           ELSE /\ hand' = f
                /\ pc' = "payload"
                /\ pipe' = Unconsumed
                /\ UNCHANGED <<state, lastError, unsent, got, announced>>
    /\ UNCHANGED search

\* Read returns false and the connection stays open.
ReadNothing ==
    /\ pc = "header" /\ ReadsShort
    /\ pipe' = [pipe EXCEPT !.bytes = Leftover]
    /\ pc' = "idle"
    /\ UNCHANGED <<search, state, lastError, unsent, hand, got, announced>>

ReadPipeClosed_Ignored ==
    /\ pc = "header" /\ ReadsEnd
    /\ pc' = "idle"
    /\ UNCHANGED <<search, state, lastError, pipe, unsent, hand, got, announced>>
ReadPipeClosed ==
    /\ pc = "header" /\ ReadsEnd
    /\ Close("PipeClosed")
    /\ pc' = "idle"
    /\ UNCHANGED <<search, hand, got>>

ReadPayload_Unchecked ==
    /\ pc = "payload" /\ (ReadsAll \/ ReadsShort)
    /\ Dispatch(hand, Unconsumed)
    /\ UNCHANGED search
ReadPayload_NoSwitch ==
    /\ pc = "payload" /\ ReadsAll
    /\ hand' = Nobody
    /\ ReturnMessage(hand, Unconsumed)
    /\ UNCHANGED search
ReadPayload ==
    /\ pc = "payload" /\ ReadsAll
    /\ Dispatch(hand, Unconsumed)
    /\ UNCHANGED search

\* "Partial data in frame".
ReadPartial ==
    /\ pc = "payload" /\ (ReadsShort \/ ReadsEnd)
    /\ Close("ReadCorrupt")
    /\ pc' = "idle" /\ hand' = Nobody
    /\ UNCHANGED <<search, got>>

-----------------------------------------------------------------------------
(* RpcConnection::Write fails: the peer is gone, its buffer is full, or    *)
(* the connection was already closed earlier in the same pass.  (A write   *)
(* that succeeds changes nothing here.)                                    *)

WriteFails ==
    /\ pc = "idle"
    /\ Close(lastError)
    /\ UNCHANGED <<search, pc, hand, got>>

-----------------------------------------------------------------------------
(* Discord clients. *)

ClientChanges ==
    /\ Search!ClientChanges
    /\ UNCHANGED <<state, lastError, pipe, unsent, pc, hand, got, announced>>

PeerSends(f) ==
    /\ state # "Disconnected" /\ ~ pipe.eof
    /\ unsent = << >>
    /\ Len(pipe.bytes) + 4 <= MaxPieces
    /\ IF pipe.kind.whole
       THEN pipe' = [pipe EXCEPT !.bytes = @ \o Pieces(f)] /\ UNCHANGED unsent
       ELSE unsent' = Pieces(f) /\ UNCHANGED pipe
    /\ UNCHANGED <<search, state, lastError, pc, hand, got, announced>>

PeerWritesPiece ==
    /\ unsent # << >> /\ ~ pipe.eof
    /\ pipe' = [pipe EXCEPT !.bytes = Append(@, Head(unsent))]
    /\ unsent' = Tail(unsent)
    /\ UNCHANGED <<search, state, lastError, pc, hand, got, announced>>

PeerCloses ==
    /\ pc # "search" /\ pipe.open /\ ~ pipe.eof
    /\ pipe' = [pipe EXCEPT !.eof = TRUE]
    /\ UNCHANGED <<search, state, lastError, unsent, pc, hand, got, announced>>

-----------------------------------------------------------------------------
Opening ==
    \/ StartSearch \/ SearchGoesOn \/ SearchSucceeds \/ SearchFails \/ SearchTimesOut
    \/ SendHandshake

Reading ==
    CallRead \/ ReadHeader \/ ReadNothing \/ ReadPipeClosed \/ ReadPayload \/ ReadPartial

Peer ==
    \/ (\E f \in Frames : PeerSends(f)) \/ PeerWritesPiece \/ PeerCloses
    \/ ClientChanges

Next == Opening \/ Reading \/ WriteFails \/ Peer

Spec == Init /\ [][Next]_vars

\* The IO thread comes back at the latest when its wait of 500 ms is over,
\* and a call of Read or Open goes on.
FairSpec ==
    /\ Spec
    /\ WF_vars(Reading \/ SendHandshake)
    /\ WF_vars(SearchGoesOn \/ SearchSucceeds \/ SearchFails)

-----------------------------------------------------------------------------
(* Properties. *)

\* Outside of Open the socket exists exactly while the state says so: there
\* is no session without a socket and no socket left behind, wherever a call
\* failed.
SocketMatchesState ==
    pc \notin {"search", "handshake"} => (pipe.open <=> state # "Disconnected")

\* A search misses nobody: it goes past no name at which a client has listened
\* all the time, and gives up only where nobody has, or where a Windows pipe
\* refuses or stays busy.
SearchMissesNobody ==
    [][name # Nowhere /\ name' # name =>
           \/ clients[name] = "listens" /\ pc' = "handshake"
           \/ /\ clients[name] \in {"refuses", "busy"} /\ pipe.kind.transport = "windows"
              /\ pc' = "idle"
           \/ \A n \in steady : name <= n /\ name' \in 0 .. n
      ]_vars

\* A search ends, unless it stands at a busy pipe: WaitNamedPipeW may succeed
\* again and again for a pipe that others take.
SearchEnds ==
    pc = "search" ~> pc # "search" \/ clients[name] = "busy"

\* Between two calls of Read the stream stands at the start of a frame, or of
\* one that the peer has not finished: no byte of a frame was consumed and
\* forgotten.
Aligned ==
    pc # "payload" /\ pipe.bytes # << >> => pipe.bytes[1].part = "header1"

\* The messages on their way to the program: the one in hand, and those whose
\* header the pipe still holds.
Carried(piece) ==
    IF piece.part = "header1" /\ piece.of.op = "Frame" THEN << piece.of.payload >> ELSE << >>
Carries(pieces) == FlattenSeq([k \in 1 .. Len(pieces) |-> Carried(pieces[k])])
InFlight ==
    (IF hand.op = "Frame" THEN << hand.payload >> ELSE << >>) \o Carries(pipe.bytes)

Status == CASE state = "Disconnected" -> "down"
            [] state = "SentHandshake" -> "handshaking"
            [] state = "Connected" -> "up"

Abstract == INSTANCE Session
    WITH status <- Status, inbox <- InFlight

\* The connection is a session: messages are read once and in order, frames
\* that carry none are invisible, and the end of a session is announced once,
\* however often it is closed.
IsSession == Abstract!Spec

\* A peer that hangs up is noticed, whatever it left in the pipe, but for a
\* part of a frame in a Windows pipe.
EndIsNoticed ==
    pipe.eof /\ (pipe.kind.transport = "unix" \/ unsent = << >>) ~> ~ pipe.eof

\* A handshake that has been answered does not stay a handshake.
ReadyIsNoticed ==
    (/\ state = "SentHandshake" /\ unsent = << >>
     /\ \E k \in 1 .. Len(InFlight) : InFlight[k] = Ready) ~> state # "SentHandshake"
=============================================================================
