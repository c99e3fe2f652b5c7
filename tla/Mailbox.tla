------------------------------ MODULE Mailbox ------------------------------
(***************************************************************************)
(* The texts that the IO thread leaves for Discord_RunCallbacks: the two   *)
(* secrets, the user, the error messages (discord_rpc.cpp).  StringCopy    *)
(* writes them character by character into fixed buffers, without a lock,  *)
(* and then the flag is raised; the callback of the game reads them until  *)
(* the NUL, perhaps while the next message is being copied.                *)
(***************************************************************************)
EXTENDS Serialization

CONSTANTS
    Fields,       \* the buffers of the mailbox, in the order of the code
    Required,     \* without them nothing of a message is copied
    Cleared,      \* emptied if the message lacks them; the others are left alone
    AlwaysRaised, \* the flag is raised for such a message too, as for READY
    Length,       \* of every buffer
    Messages      \* each gives every field a text, or Null if it lacks it

\* The buffers are different ones; the texts are C strings, so none has a NUL
\* within.
ASSUME MailboxAssumption ==
    /\ Fields \in Seq(STRING) /\ Fields # << >> /\ IsInjective(Fields)
    /\ Required \cup Cleared \subseteq ToSet(Fields)
    /\ Length \in Nat \ {0} /\ AlwaysRaised \in BOOLEAN
    /\ Messages \subseteq [ToSet(Fields) -> {Null} \cup Seq(Nat \ {0})]

VARIABLES
    buffer,  \* the characters; 0 is the NUL
    flag,    \* WasJoinGame and the like
    io,      \* the IO thread: the message, the field and the position it is at
    game,    \* the game: what it has read of which field
    latest,  \* the message that was copied last
    torn     \* the IO thread has written while the game was reading

vars == <<buffer, flag, io, game, latest, torn>>

Positions == 1 .. Length
NoMessage == [f \in ToSet(Fields) |-> << >>]
Accepted == {m \in Messages : \A f \in Required : m[f] # Null}

TypeOK ==
    /\ \A f \in ToSet(Fields) : DOMAIN buffer[f] = Positions
    /\ flag \in BOOLEAN /\ torn \in BOOLEAN
    /\ io.message \in Messages \cup {NoMessage} /\ io.at \in Positions
    /\ io.field \in 1 .. Len(Fields) + 1
    /\ game.field \in 1 .. Len(Fields)
    /\ latest \in Accepted \cup {NoMessage}

Init ==
    /\ buffer = [f \in ToSet(Fields) |-> [n \in Positions |-> 0]]
    /\ flag = FALSE
    /\ io = [busy |-> FALSE, message |-> NoMessage, field |-> 1, at |-> 1]
    /\ game = [reading |-> FALSE, field |-> 1, text |-> << >>, heard |-> NoMessage]
    /\ latest = NoMessage
    /\ torn = FALSE

-----------------------------------------------------------------------------
(* The IO thread. *)

Receive_Unchecked(m) ==
    /\ ~ io.busy
    /\ io' = [busy |-> TRUE, message |-> m, field |-> 1, at |-> 1]
    /\ UNCHANGED <<buffer, flag, game, latest, torn>>
Receive(m) ==
    /\ ~ io.busy /\ (m \in Accepted \/ AlwaysRaised)
    /\ io' = [busy |-> TRUE, message |-> m, at |-> 1,
              field |-> IF m \in Accepted THEN 1 ELSE Len(Fields) + 1]
    /\ UNCHANGED <<buffer, flag, game, latest, torn>>

Copying == io.busy /\ io.field <= Len(Fields)
Field == Fields[io.field]
Source == io.message[Field]

Store(char) ==
    /\ buffer' = [buffer EXCEPT ![Field][io.at] = char]
    /\ torn' = (torn \/ game.reading)
NextField ==
    /\ io' = [io EXCEPT !.field = @ + 1, !.at = 1]
    /\ latest' = IF io.field = Len(Fields) THEN io.message ELSE latest

\* The loop of StringCopy, and the NUL.
MoreToCopy_OffByOne == io.at <= Len(Source) /\ io.at <= Length
MoreToCopy == io.at <= Len(Source) /\ io.at < Length

CopyChar ==
    /\ Copying /\ Source # Null /\ MoreToCopy
    /\ Store(Source[io.at])
    /\ io' = [io EXCEPT !.at = @ + 1]
    /\ UNCHANGED <<flag, game, latest>>

CopyNul ==
    /\ Copying /\ Source # Null /\ ~ MoreToCopy
    /\ Store(0) /\ NextField
    /\ UNCHANGED <<flag, game>>

CopyNothing_Ever ==
    /\ Copying /\ Source = Null
    /\ UNCHANGED <<buffer, torn>>
    /\ NextField
    /\ UNCHANGED <<flag, game>>
CopyNothing ==
    /\ Copying /\ Source = Null
    /\ IF Field \in Cleared THEN Store(0) ELSE UNCHANGED <<buffer, torn>>
    /\ NextField
    /\ UNCHANGED <<flag, game>>

Raise ==
    /\ io.busy /\ ~ Copying
    /\ flag' = TRUE
    /\ io' = [io EXCEPT !.busy = FALSE]
    /\ UNCHANGED <<buffer, game, latest, torn>>

-----------------------------------------------------------------------------
(* The game. *)

RunCallbacks ==
    /\ ~ game.reading /\ flag
    /\ flag' = FALSE
    /\ game' = [reading |-> TRUE, field |-> 1, text |-> << >>, heard |-> NoMessage]
    /\ torn' = Copying
    /\ UNCHANGED <<buffer, io, latest>>

AtChar == buffer[Fields[game.field]][Len(game.text) + 1]

ReadChar ==
    /\ game.reading /\ AtChar # 0
    /\ game' = [game EXCEPT !.text = Append(@, AtChar)]
    /\ UNCHANGED <<buffer, flag, io, latest, torn>>

ReadNul_LowersFlag ==
    /\ game.reading /\ AtChar = 0
    /\ game' = [reading |-> game.field < Len(Fields),
                field |-> IF game.field < Len(Fields) THEN game.field + 1 ELSE 1,
                text |-> << >>,
                heard |-> [game.heard EXCEPT ![Fields[game.field]] = game.text]]
    /\ flag' = FALSE
    /\ UNCHANGED <<buffer, io, latest, torn>>
ReadNul ==
    /\ game.reading /\ AtChar = 0
    /\ game' = [reading |-> game.field < Len(Fields),
                field |-> IF game.field < Len(Fields) THEN game.field + 1 ELSE 1,
                text |-> << >>,
                heard |-> [game.heard EXCEPT ![Fields[game.field]] = game.text]]
    /\ UNCHANGED <<buffer, flag, io, latest, torn>>

-----------------------------------------------------------------------------
Copies == CopyChar \/ CopyNul \/ CopyNothing \/ Raise
Reading == RunCallbacks \/ ReadChar \/ ReadNul

Next == (\E m \in Messages : Receive(m)) \/ Copies \/ Reading

Spec == Init /\ [][Next]_vars

\* Both threads go on; nothing is assumed of the messages.
FairSpec == Spec /\ WF_vars(Copies) /\ WF_vars(Reading)

-----------------------------------------------------------------------------
(* Properties. *)

\* A reader never leaves the buffer, whatever is being copied meanwhile: the
\* last character is a NUL at every moment.
ReaderStaysInside ==
    /\ \A f \in ToSet(Fields) : buffer[f][Length] = 0
    /\ Len(game.text) < Length

\* The game heard what the message says, cut to the buffer.  Of a field that
\* the message lacks and the code does not empty it may hear anything.
Heard(text, m) ==
    \A f \in ToSet(Fields) :
        IF m[f] # Null THEN text[f] = StringCopy(Length, m[f])
        ELSE f \in Cleared => text[f] = << >>

\* A text that nobody touched while it was read is that of the message copied
\* last, with nothing left of an earlier one but an uncleared field.
HeardAsSent ==
    [][game.reading /\ ~ game'.reading /\ ~ torn /\ latest # NoMessage
           => Heard(game'.heard, latest)]_vars

\* A text that was torn is heard once more: when no other message comes, the
\* game has heard the latest one in the end.
LatestIsRead ==
    \A m \in Accepted : <>[](latest = m) => []<>Heard(game.heard, m)
=============================================================================
