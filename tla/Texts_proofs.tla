----------------------------- MODULE Texts_proofs -----------------------------
(***************************************************************************)
(* The mailbox, proved for any messages, any number of buffers and any     *)
(* length of them; the allocator, for any size of its buffer; the presence *)
(* as the client reads it, whatever is set in it; and the nonce of a       *)
(* command, whatever number it is written from.                            *)
(***************************************************************************)
EXTENDS Mailbox, Commands, SequenceTheorems, FiniteSetTheorems, WellFoundedInduction, TLAPS

-----------------------------------------------------------------------------
(* The mailbox: types. *)

FieldNames == ToSet(Fields)
Count == Len(Fields)
Chars == Nat \ {0}

LEMMA FieldsAre ==
    /\ Count \in Nat \ {0} /\ 1 \in 1 .. Count
    /\ \A i \in 1 .. Count : Fields[i] \in FieldNames
    /\ \A f \in FieldNames : \E i \in 1 .. Count : f = Fields[i]
    /\ \A i, j \in 1 .. Count : Fields[i] = Fields[j] => i = j
<1>1. Fields \in Seq(STRING) /\ Fields # << >> /\ IsInjective(Fields)  BY MailboxAssumption
<1>2. Count \in Nat \ {0} /\ DOMAIN Fields = 1 .. Count
  BY <1>1, EmptySeq, LenProperties DEF Count
<1>. QED  BY <1>1, <1>2 DEF FieldNames, ToSet, IsInjective

LEMMA MessagesAre ==
    \A m \in Messages \cup {NoMessage} :
        \A f \in FieldNames : m[f] = Null \/ m[f] \in Seq(Chars)
<1>1. Messages \subseteq [FieldNames -> {Null} \cup Seq(Chars)]
  BY MailboxAssumption DEF FieldNames, Chars
<1>2. << >> \in Seq(Chars)  OBVIOUS
<1>3. \A f \in FieldNames : NoMessage[f] \in Seq(Chars)  BY <1>2 DEF NoMessage, FieldNames
<1>. QED  BY <1>1, <1>3

BufferType == buffer \in [FieldNames -> [Positions -> Nat]]
IOType ==
    /\ io \in [busy : BOOLEAN, message : Messages \cup {NoMessage}, field : 1 .. Count + 1,
               at : Positions]
    /\ io.busy => io.message \in Messages
    /\ Copying => io.message \in Accepted
GameType ==
    game \in [reading : BOOLEAN, field : 1 .. Count, text : Seq(Chars),
              heard : [FieldNames -> Seq(Chars)]]
FlagType == flag \in BOOLEAN /\ torn \in BOOLEAN /\ latest \in Accepted \cup {NoMessage}

\* The last character of every buffer is a NUL, and whoever reads stops there.
Inside ==
    /\ \A f \in FieldNames : buffer[f][Length] = 0
    /\ Len(game.text) < Length

MailboxInv == BufferType /\ IOType /\ GameType /\ FlagType /\ Inside

LEMMA PositionsAre == Length \in Nat \ {0} /\ Length \in Positions /\ 1 \in Positions
BY MailboxAssumption DEF Positions

LEMMA StoreType ==
    ASSUME BufferType, Inside, Copying, io.field \in 1 .. Count + 1, io.at \in Positions,
           NEW char \in Nat, io.at # Length \/ char = 0, Store(char), flag \in BOOLEAN
    PROVE  /\ BufferType' /\ torn' \in BOOLEAN
           /\ \A f \in FieldNames : buffer'[f][Length] = 0
<1>1. io.field \in 1 .. Count  BY FieldsAre DEF Copying, Count
<1>2. Field \in FieldNames  BY <1>1, FieldsAre DEF Field
<1>3. buffer' = [buffer EXCEPT ![Field][io.at] = char]  BY DEF Store
<1>4. BufferType'  BY <1>2, <1>3 DEF BufferType
<1>5. torn' \in BOOLEAN  BY DEF Store
<1>6. \A f \in FieldNames : buffer'[f][Length] = 0
  BY <1>2, <1>3, PositionsAre DEF BufferType, Inside
<1>. QED  BY <1>4, <1>5, <1>6

LEMMA NextFieldType ==
    ASSUME IOType, FlagType, Copying, NextField, torn' \in BOOLEAN, flag' \in BOOLEAN
    PROVE  IOType' /\ FlagType'
<1>1. io.field \in 1 .. Count + 1 /\ io.message \in Accepted /\ io.message \in Messages
      /\ io.busy /\ io.field <= Count
  BY DEF IOType, Copying, Count
<1>2. io.field + 1 \in 1 .. Count + 1  BY <1>1, FieldsAre
<1>3. io' = [io EXCEPT !.field = io.field + 1, !.at = 1]  BY DEF NextField
<1>4. io' \in [busy : BOOLEAN, message : Messages \cup {NoMessage}, field : 1 .. Count + 1,
               at : Positions]
  BY <1>2, <1>3, PositionsAre DEF IOType
<1>5. io'.message = io.message  BY <1>3 DEF IOType
<1>6. latest' \in Accepted \cup {NoMessage}  BY <1>1 DEF NextField, FlagType
<1>. QED  BY <1>1, <1>4, <1>5, <1>6 DEF IOType, FlagType

LEMMA IOStepsMailbox ==
    ASSUME MailboxInv, Copies \/ \E m \in Messages : Receive(m)
    PROVE  MailboxInv'
<1>1. BufferType /\ IOType /\ GameType /\ FlagType /\ Inside  BY DEF MailboxInv
<1>2. game' = game  BY DEF Copies, CopyChar, CopyNul, CopyNothing, Raise, Receive
<1>3. GameType' /\ Len(game'.text) < Length  BY <1>1, <1>2 DEF GameType, Inside
<1>4. io.field \in 1 .. Count + 1 /\ io.at \in Positions /\ flag \in BOOLEAN
  BY <1>1 DEF IOType, FlagType
<1>5. ASSUME NEW m \in Messages, Receive(m) PROVE MailboxInv'
  <2>1. UNCHANGED <<buffer, flag, latest, torn>>  BY <1>5 DEF Receive
  <2>2. io' = [busy |-> TRUE, message |-> m, at |-> 1,
               field |-> IF m \in Accepted THEN 1 ELSE Count + 1]
    BY <1>5 DEF Receive, Count
  <2>3. 1 \in 1 .. Count + 1 /\ Count + 1 \in 1 .. Count + 1  BY FieldsAre
  <2>4. io' \in [busy : BOOLEAN, message : Messages \cup {NoMessage}, field : 1 .. Count + 1,
                 at : Positions]
    BY <2>2, <2>3, PositionsAre
  <2>5. io'.message = m /\ (io'.field <= Count => m \in Accepted)  BY <2>2, FieldsAre
  <2>6. IOType'  BY <2>4, <2>5 DEF IOType, Copying, Count
  <2>7. BufferType' /\ FlagType' /\ Inside'
    BY <1>1, <1>2, <2>1 DEF BufferType, FlagType, Inside
  <2>. QED  BY <1>3, <2>6, <2>7 DEF MailboxInv
<1>6. CASE CopyChar
  <2>1. Copying /\ Source # Null /\ MoreToCopy /\ Store(Source[io.at]) /\ UNCHANGED <<flag, latest>>
        /\ io' = [io EXCEPT !.at = @ + 1]
    BY <1>6 DEF CopyChar
  <2>2. io.field \in 1 .. Count  BY <1>4, <2>1, FieldsAre DEF Copying, Count
  <2>3. PICK s : s = Source  OBVIOUS
  <2>4. s \in Seq(Chars)
    BY <1>1, <2>1, <2>2, <2>3, FieldsAre, MessagesAre DEF IOType, Source, Field
  <2>5. io.at \in 1 .. Len(s) /\ io.at < Length /\ io.at \in Nat
    BY <1>4, <2>1, <2>3, <2>4, LenProperties DEF MoreToCopy, Positions
  <2>6. s[io.at] \in Nat  BY <2>4, <2>5, ElementOfSeq DEF Chars
  <2>7. /\ BufferType' /\ torn' \in BOOLEAN /\ \A f \in FieldNames : buffer'[f][Length] = 0
    BY <1>1, <1>4, <2>1, <2>3, <2>5, <2>6, StoreType
  <2>8. io.at + 1 \in Positions  BY <2>5, PositionsAre DEF Positions
  <2>9. IOType'  BY <1>1, <2>1, <2>8 DEF IOType, Copying
  <2>. QED  BY <1>1, <1>3, <2>1, <2>7, <2>9 DEF MailboxInv, FlagType, Inside
<1>7. CASE CopyNul
  <2>1. Copying /\ Store(0) /\ NextField /\ flag' = flag  BY <1>7 DEF CopyNul
  <2>2. /\ BufferType' /\ torn' \in BOOLEAN /\ \A f \in FieldNames : buffer'[f][Length] = 0
    BY <1>1, <1>4, <2>1, StoreType
  <2>3. IOType' /\ FlagType'  BY <1>1, <1>4, <2>1, <2>2, NextFieldType
  <2>. QED  BY <1>3, <2>2, <2>3 DEF MailboxInv, Inside
<1>8. CASE CopyNothing
  <2>1. Copying /\ NextField /\ flag' = flag /\ (Store(0) \/ UNCHANGED <<buffer, torn>>)
    BY <1>8 DEF CopyNothing
  <2>2. /\ BufferType' /\ torn' \in BOOLEAN /\ \A f \in FieldNames : buffer'[f][Length] = 0
    <3>1. CASE Store(0)  BY <1>1, <1>4, <2>1, <3>1, StoreType
    <3>2. CASE UNCHANGED <<buffer, torn>>  BY <1>1, <3>2 DEF BufferType, FlagType, Inside
    <3>. QED  BY <2>1, <3>1, <3>2
  <2>3. IOType' /\ FlagType'  BY <1>1, <1>4, <2>1, <2>2, NextFieldType
  <2>. QED  BY <1>3, <2>2, <2>3 DEF MailboxInv, Inside
<1>9. CASE Raise
  <2>1. flag' = TRUE /\ io' = [io EXCEPT !.busy = FALSE] /\ UNCHANGED <<buffer, latest, torn>>
    BY <1>9 DEF Raise
  <2>2. IOType'  BY <1>1, <2>1 DEF IOType, Copying
  <2>. QED  BY <1>1, <1>3, <2>1, <2>2 DEF MailboxInv, BufferType, FlagType, Inside
<1>. QED  BY <1>5, <1>6, <1>7, <1>8, <1>9 DEF Copies

\* The character that the game is at.
LEMMA AtCharIs ==
    ASSUME MailboxInv
    PROVE  /\ AtChar \in Nat /\ Len(game.text) + 1 \in Positions
           /\ AtChar # 0 => Len(game.text) + 1 < Length
<1>1. game.field \in 1 .. Count /\ Len(game.text) \in Nat /\ Len(game.text) < Length
  BY LenProperties DEF MailboxInv, GameType, Inside
<1>2. Fields[game.field] \in FieldNames  BY <1>1, FieldsAre
<1>3. PICK n \in Nat : n = Len(game.text) + 1  BY <1>1
<1>4. n \in Positions /\ (n # Length => n < Length)  BY <1>1, <1>3, PositionsAre DEF Positions
<1>5. AtChar = buffer[Fields[game.field]][n]  BY <1>3 DEF AtChar
<1>6. AtChar \in Nat  BY <1>2, <1>4, <1>5 DEF MailboxInv, BufferType
<1>7. n = Length => AtChar = 0  BY <1>2, <1>5 DEF MailboxInv, Inside
<1>. QED  BY <1>3, <1>4, <1>6, <1>7

LEMMA GameStepsMailbox ==
    ASSUME MailboxInv, Reading
    PROVE  MailboxInv'
<1>1. BufferType /\ IOType /\ GameType /\ FlagType /\ Inside  BY DEF MailboxInv
<1>2. UNCHANGED <<buffer, io, latest>>  BY DEF Reading, RunCallbacks, ReadChar, ReadNul
<1>3. BufferType' /\ IOType' /\ \A f \in FieldNames : buffer'[f][Length] = 0
  BY <1>1, <1>2 DEF BufferType, IOType, Inside, Copying
<1>4. << >> \in Seq(Chars) /\ Len(<< >>) = 0 /\ 1 \in 1 .. Count  BY FieldsAre, EmptySeq
<1>5. CASE RunCallbacks
  <2>1. game' = [reading |-> TRUE, field |-> 1, text |-> << >>, heard |-> NoMessage]
        /\ flag' = FALSE /\ torn' = Copying
    BY <1>5 DEF RunCallbacks
  <2>2. NoMessage \in [FieldNames -> Seq(Chars)]  BY <1>4 DEF NoMessage, FieldNames
  <2>3. GameType' /\ game'.text = << >>  BY <1>4, <2>1, <2>2 DEF GameType
  <2>4. FlagType'  BY <1>1, <1>2, <2>1 DEF FlagType, Copying, IOType
  <2>. QED  BY <1>3, <1>4, <2>3, <2>4, PositionsAre DEF MailboxInv, Inside
<1>6. CASE ReadChar
  <2>1. game' = [game EXCEPT !.text = Append(@, AtChar)] /\ AtChar # 0 /\ UNCHANGED <<flag, torn>>
    BY <1>6 DEF ReadChar
  <2>2. PICK t : t = Append(game.text, AtChar)  OBVIOUS
  <2>3. AtChar \in Chars /\ Len(game.text) + 1 < Length  BY <2>1, AtCharIs DEF Chars
  <2>4. t \in Seq(Chars) /\ Len(t) = Len(game.text) + 1
    BY <1>1, <2>2, <2>3, AppendProperties DEF GameType
  <2>5. game' = [game EXCEPT !.text = t]  BY <2>1, <2>2
  <2>6. GameType' /\ game'.text = t  BY <1>1, <2>4, <2>5 DEF GameType
  <2>7. Len(game'.text) < Length  BY <2>3, <2>4, <2>6
  <2>. QED  BY <1>1, <1>2, <1>3, <2>1, <2>6, <2>7 DEF MailboxInv, FlagType, Inside
<1>7. CASE ReadNul
  <2>1. game' = [reading |-> game.field < Count,
                 field |-> IF game.field < Count THEN game.field + 1 ELSE 1,
                 text |-> << >>,
                 heard |-> [game.heard EXCEPT ![Fields[game.field]] = game.text]]
        /\ UNCHANGED <<flag, torn>>
    BY <1>7 DEF ReadNul, Count
  <2>2. game.field \in 1 .. Count /\ game.text \in Seq(Chars)
        /\ game.heard \in [FieldNames -> Seq(Chars)]
    BY <1>1 DEF GameType
  <2>3. (IF game.field < Count THEN game.field + 1 ELSE 1) \in 1 .. Count  BY <2>2, FieldsAre
  <2>4. [game.heard EXCEPT ![Fields[game.field]] = game.text] \in [FieldNames -> Seq(Chars)]
    BY <2>2
  <2>5. (game.field < Count) \in BOOLEAN  OBVIOUS
  <2>6. GameType' /\ game'.text = << >>  BY <1>4, <2>1, <2>3, <2>4, <2>5 DEF GameType
  <2>. QED  BY <1>1, <1>2, <1>3, <1>4, <2>1, <2>6, PositionsAre DEF MailboxInv, FlagType, Inside
<1>. QED  BY <1>5, <1>6, <1>7 DEF Reading

LEMMA MailboxInitially == Init => MailboxInv
<1>. SUFFICES ASSUME Init PROVE MailboxInv  OBVIOUS
<1>1. BufferType /\ \A f \in FieldNames : buffer[f][Length] = 0
  BY PositionsAre DEF Init, BufferType, FieldNames
<1>2. 1 \in 1 .. Count + 1 /\ 1 \in 1 .. Count  BY FieldsAre
<1>3. IOType  BY <1>2, PositionsAre DEF Init, IOType, Copying
<1>4. << >> \in Seq(Chars) /\ Len(<< >>) = 0  BY EmptySeq
<1>5. NoMessage \in [FieldNames -> Seq(Chars)]  BY <1>4 DEF NoMessage, FieldNames
<1>6. GameType /\ game.text = << >>  BY <1>2, <1>4, <1>5 DEF Init, GameType
<1>7. FlagType  BY DEF Init, FlagType
<1>. QED  BY <1>1, <1>3, <1>4, <1>6, <1>7, PositionsAre DEF MailboxInv, Inside

THEOREM MailboxInvariant == Spec => []MailboxInv
<1>1. MailboxInv /\ [Next]_vars => MailboxInv'
  <2>. SUFFICES ASSUME MailboxInv, [Next]_vars PROVE MailboxInv'  OBVIOUS
  <2>1. CASE UNCHANGED vars
    BY <2>1 DEF vars, MailboxInv, BufferType, IOType, GameType, FlagType, Inside, Copying
  <2>. QED  BY <2>1, IOStepsMailbox, GameStepsMailbox DEF Next
<1>. QED  BY <1>1, MailboxInitially, PTL DEF Spec

\* Every variable keeps its type: the IO thread never writes outside a buffer,
\* and what it copies is a message that has all that is required.
THEOREM TypeCorrect == Spec => []TypeOK
<1>1. MailboxInv => TypeOK
  BY DEF MailboxInv, BufferType, IOType, GameType, FlagType, TypeOK, FieldNames, Count
<1>. QED  BY <1>1, MailboxInvariant, PTL

\* Whatever is being copied meanwhile, the game never reads beyond the end of
\* a buffer.
THEOREM NoReaderLeaves == Spec => []ReaderStaysInside
<1>1. MailboxInv => ReaderStaysInside
  BY DEF MailboxInv, Inside, ReaderStaysInside, FieldNames
<1>. QED  BY <1>1, MailboxInvariant, PTL
-----------------------------------------------------------------------------
(* The mailbox: what is heard. *)

\* A buffer holds a text that ends with the first NUL.
Holds(b, t) ==
    /\ Len(t) < Length /\ b[Len(t) + 1] = 0
    /\ \A n \in 1 .. Len(t) : b[n] = t[n]

\* A field has been left by a message as it is left by it when it is copied.
Says(b, f, m) ==
    /\ m[f] # Null => Holds(b[f], StringCopy(Length, m[f]))
    /\ m[f] = Null /\ f \in Cleared => Holds(b[f], << >>)

\* The message that is being copied has not touched a buffer yet.
NothingStored ==
    /\ io.at = 1
    /\ \A i \in 1 .. Count :
           i < io.field => io.message[Fields[i]] = Null /\ Fields[i] \notin Cleared

\* The fields that have been copied, and what has been of the next.
Progress ==
    Copying =>
        /\ \A i \in 1 .. Count : i < io.field => Says(buffer, Fields[i], io.message)
        /\ io.at > 1 => Source # Null
        /\ Source # Null =>
               io.at - 1 <= Len(Source)
                   /\ \A n \in 1 .. Length : n < io.at => buffer[Field][n] = Source[n]

\* Until the next message touches a buffer they say what the last one did.
Settled ==
    (Copying => NothingStored) /\ latest # NoMessage => \A f \in FieldNames : Says(buffer, f, latest)

\* A reader that nobody disturbed has read what the buffers hold.
ReadSoFar ==
    game.reading /\ ~ torn =>
        /\ Copying => NothingStored
        /\ \A n \in 1 .. Len(game.text) : buffer[Fields[game.field]][n] = game.text[n]
        /\ \A i \in 1 .. Count :
               i < game.field => Holds(buffer[Fields[i]], game.heard[Fields[i]])

HeardInv == Progress /\ Settled /\ ReadSoFar

\* A buffer holds one text only.
LEMMA OneText ==
    ASSUME NEW b, NEW t \in Seq(Chars), NEW u \in Seq(Chars), Holds(b, t), Holds(b, u)
    PROVE  t = u
<1>1. PICK n \in Nat, m \in Nat : n = Len(t) /\ m = Len(u)  BY LenProperties
<1>2. \A i \in 1 .. n : b[i] = t[i] /\ t[i] # 0  BY <1>1, ElementOfSeq DEF Holds, Chars
<1>3. \A i \in 1 .. m : b[i] = u[i] /\ u[i] # 0  BY <1>1, ElementOfSeq DEF Holds, Chars
<1>4. b[n + 1] = 0 /\ b[m + 1] = 0  BY <1>1 DEF Holds
<1>5. ~ n < m
  <2>. SUFFICES ASSUME n < m PROVE FALSE  OBVIOUS
  <2>1. n + 1 \in 1 .. m  OBVIOUS
  <2>. QED  BY <1>3, <1>4, <2>1
<1>6. ~ m < n
  <2>. SUFFICES ASSUME m < n PROVE FALSE  OBVIOUS
  <2>1. m + 1 \in 1 .. n  OBVIOUS
  <2>. QED  BY <1>2, <1>4, <2>1
<1>7. n = m  BY <1>5, <1>6
<1>. QED  BY <1>1, <1>2, <1>3, <1>7, SeqEqual

\* StringCopy keeps a prefix, so long that the NUL still fits.
LEMMA StringCopyIs ==
    ASSUME NEW t \in Seq(Chars)
    PROVE  /\ StringCopy(Length, t) \in Seq(Chars)
           /\ Len(StringCopy(Length, t)) = IF Len(t) < Length THEN Len(t) ELSE Length - 1
           /\ \A n \in 1 .. Len(StringCopy(Length, t)) : StringCopy(Length, t)[n] = t[n]
<1>1. PICK l \in Nat : l = Len(t)  BY LenProperties
<1>2. PICK m : m = IF l < Length THEN l ELSE Length - 1  OBVIOUS
<1>3. m \in Nat /\ m <= l  BY <1>2, PositionsAre
<1>4. PICK s : s = SubSeq(t, 1, m)  OBVIOUS
<1>5. \A i \in 1 .. m : t[i] \in Chars  BY <1>1, <1>3, ElementOfSeq
<1>6. /\ s \in Seq(Chars) /\ Len(s) = IF 1 <= m THEN m - 1 + 1 ELSE 0
      /\ \A i \in 1 .. m - 1 + 1 : s[i] = t[1 + i - 1]
  BY <1>3, <1>4, <1>5, SubSeqProperties
<1>7. Len(s) = m  BY <1>3, <1>6
<1>8. ASSUME NEW n \in 1 .. m PROVE s[n] = t[n]
  <2>1. n \in 1 .. m - 1 + 1 /\ 1 + n - 1 = n  BY <1>3
  <2>2. s[n] = t[1 + n - 1]  BY <1>6, <2>1
  <2>. QED  BY <2>1, <2>2
<1>9. s = StringCopy(Length, t)  BY <1>1, <1>2, <1>4 DEF StringCopy
<1>. QED  BY <1>1, <1>2, <1>6, <1>7, <1>8, <1>9

\* Says looks at the one buffer only.
LEMMA SaysRests ==
    ASSUME NEW b, NEW c, NEW f, NEW m, Says(b, f, m), b[f] = c[f]
    PROVE  Says(c, f, m)
BY DEF Says

\* The last step of a field, which says what the message does.
LEMMA FieldCopied ==
    ASSUME MailboxInv, HeardInv, Copying, NextField, game' = game,
           Says(buffer', Field, io.message),
           \A f \in FieldNames : f # Field => buffer'[f] = buffer[f],
           \/ torn' = (torn \/ game.reading) /\ (Source # Null \/ Field \in Cleared)
           \/ UNCHANGED <<buffer, torn>> /\ io.at = 1 /\ Source = Null /\ Field \notin Cleared
    PROVE  HeardInv'
<1>1. io.field \in 1 .. Count /\ io.busy
  BY FieldsAre DEF Copying, MailboxInv, IOType, Count
<1>2. io' = [io EXCEPT !.field = io.field + 1, !.at = 1]
      /\ latest' = IF io.field = Count THEN io.message ELSE latest
  BY DEF NextField, Count
<1>3. /\ io'.field = io.field + 1 /\ io'.at = 1 /\ io'.message = io.message
      /\ io'.busy = io.busy
  BY <1>2 DEF MailboxInv, IOType
<1>4. Copying' => io.field < Count  BY <1>1, <1>3 DEF Copying, Count
<1>5. Field = Fields[io.field] /\ Field \in FieldNames /\ Source = io.message[Field]
  BY <1>1, FieldsAre DEF Field, Source
<1>6. \A i \in 1 .. Count : i <= io.field => Says(buffer', Fields[i], io.message)
  <2>. SUFFICES ASSUME NEW i \in 1 .. Count, i <= io.field
                PROVE  Says(buffer', Fields[i], io.message)
    OBVIOUS
  <2>1. CASE i = io.field  BY <1>5, <2>1
  <2>2. CASE i < io.field
    <3>1. Says(buffer, Fields[i], io.message)  BY <2>2 DEF HeardInv, Progress
    <3>2. Fields[i] \in FieldNames /\ Fields[i] # Field  BY <1>1, <1>5, <2>2, FieldsAre
    <3>3. buffer[Fields[i]] = buffer'[Fields[i]]  BY <3>2
    <3>. QED  BY <3>1, <3>3, SaysRests
  <2>. QED  BY <1>1, <2>1, <2>2
<1>7. Progress'
  <2>1. \A i \in 1 .. Count : i < io'.field => Says(buffer', Fields[i], io'.message)
    BY <1>1, <1>3, <1>6
  <2>2. \A n \in 1 .. Length : ~ n < io'.at  BY <1>3
  <2>3. ~ io'.at > 1  BY <1>3
  <2>4. Copying' /\ Source' # Null => io'.at - 1 <= Len(Source')
    <3>. SUFFICES ASSUME Copying', Source' # Null PROVE io'.at - 1 <= Len(Source')  OBVIOUS
    <3>1. io'.field \in 1 .. Count  BY <1>1, <1>3, <1>4, FieldsAre
    <3>2. Source' = io.message[Fields[io'.field]] /\ Fields[io'.field] \in FieldNames
      BY <1>3, <3>1, FieldsAre DEF Source, Field
    <3>3. io.message \in Messages \cup {NoMessage}  BY DEF MailboxInv, IOType
    <3>4. Source' \in Seq(Chars)  BY <3>2, <3>3, MessagesAre
    <3>5. Len(Source') \in Nat  BY <3>4, LenProperties
    <3>. QED  BY <1>3, <3>5
  <2>. QED  BY <2>1, <2>2, <2>3, <2>4 DEF Progress
<1>8. CASE torn' = (torn \/ game.reading) /\ (Source # Null \/ Field \in Cleared)
  <2>1. Copying' => ~ NothingStored'  BY <1>1, <1>3, <1>5, <1>8 DEF NothingStored
  <2>2. ~ Copying' => \A f \in FieldNames : Says(buffer', f, latest')
    <3>. SUFFICES ASSUME ~ Copying', NEW f \in FieldNames PROVE Says(buffer', f, latest')  OBVIOUS
    <3>1. io.field = Count  BY <1>1, <1>3 DEF Copying, Count
    <3>2. PICK i \in 1 .. Count : f = Fields[i]  BY FieldsAre
    <3>. QED  BY <1>2, <1>6, <3>1, <3>2
  <2>3. Settled'  BY <2>1, <2>2 DEF Settled
  <2>4. ReadSoFar'  BY <1>8 DEF ReadSoFar
  <2>. QED  BY <1>7, <2>3, <2>4 DEF HeardInv
<1>9. CASE UNCHANGED <<buffer, torn>> /\ io.at = 1 /\ Source = Null /\ Field \notin Cleared
  <2>1. NothingStored => NothingStored'
    <3>. SUFFICES ASSUME NothingStored, NEW i \in 1 .. Count, i < io.field + 1
                  PROVE  io.message[Fields[i]] = Null /\ Fields[i] \notin Cleared
      BY <1>3 DEF NothingStored
    <3>1. CASE i = io.field  BY <1>5, <1>9, <3>1
    <3>2. CASE i < io.field  BY <3>2 DEF NothingStored
    <3>. QED  BY <1>1, <3>1, <3>2
  <2>2. NothingStored' => NothingStored  BY <1>1, <1>3, <1>9 DEF NothingStored
  <2>3. Settled'
    <3>. SUFFICES ASSUME Copying' => NothingStored', latest' # NoMessage, NEW f \in FieldNames
                  PROVE  Says(buffer', f, latest')
      BY DEF Settled
    <3>1. CASE Copying'
      <4>1. latest' = latest  BY <1>1, <1>2, <1>4, <3>1
      <4>2. Says(buffer, f, latest)  BY <2>2, <3>1, <4>1 DEF HeardInv, Settled
      <4>. QED  BY <1>9, <4>1, <4>2
    <3>2. CASE ~ Copying'
      <4>1. io.field = Count  BY <1>1, <1>3, <3>2 DEF Copying, Count
      <4>2. PICK i \in 1 .. Count : f = Fields[i]  BY FieldsAre
      <4>. QED  BY <1>2, <1>6, <4>1, <4>2
    <3>. QED  BY <3>1, <3>2
  <2>4. ReadSoFar'  BY <1>9, <2>1 DEF HeardInv, ReadSoFar
  <2>. QED  BY <1>7, <2>3, <2>4 DEF HeardInv
<1>. QED  BY <1>8, <1>9

LEMMA IOStepsHeard ==
    ASSUME MailboxInv, HeardInv, Copies \/ \E m \in Messages : Receive(m)
    PROVE  HeardInv'
<1>1. io.field \in 1 .. Count + 1 /\ io.at \in Positions  BY DEF MailboxInv, IOType
<1>2. game' = game  BY DEF Copies, CopyChar, CopyNul, CopyNothing, Raise, Receive
<1>3. ASSUME NEW m \in Messages, Receive(m) PROVE HeardInv'
  <2>1. UNCHANGED <<buffer, latest, torn>> /\ ~ io.busy  BY <1>3 DEF Receive
  <2>2. io' = [busy |-> TRUE, message |-> m, at |-> 1,
               field |-> IF m \in Accepted THEN 1 ELSE Count + 1]
    BY <1>3 DEF Receive, Count
  <2>3. ~ Copying /\ io'.at = 1 /\ io'.message = m /\ (Copying' => io'.field = 1)
    BY <2>1, <2>2, FieldsAre DEF Copying, Count
  <2>4. Copying' => NothingStored'  BY <2>3 DEF NothingStored
  <2>5. Copying' /\ Source' # Null => io'.at - 1 <= Len(Source')
    <3>. SUFFICES ASSUME Copying', Source' # Null PROVE io'.at - 1 <= Len(Source')  OBVIOUS
    <3>1. Source' = m[Fields[1]] /\ Fields[1] \in FieldNames
      BY <2>3, FieldsAre DEF Source, Field
    <3>2. Source' \in Seq(Chars)  BY <3>1, MessagesAre
    <3>3. Len(Source') \in Nat  BY <3>2, LenProperties
    <3>. QED  BY <2>3, <3>3
  <2>6. Progress'  BY <2>3, <2>5 DEF Progress
  <2>7. Settled'  BY <2>1, <2>3 DEF HeardInv, Settled
  <2>8. ReadSoFar'  BY <1>2, <2>1, <2>4 DEF HeardInv, ReadSoFar
  <2>. QED  BY <2>6, <2>7, <2>8 DEF HeardInv
<1>4. CASE CopyChar
  <2>1. /\ Copying /\ Source # Null /\ MoreToCopy /\ io' = [io EXCEPT !.at = @ + 1]
        /\ buffer' = [buffer EXCEPT ![Field][io.at] = Source[io.at]]
        /\ torn' = (torn \/ game.reading) /\ latest' = latest
    BY <1>4 DEF CopyChar, Store
  <2>2. /\ io.field \in 1 .. Count /\ Field = Fields[io.field] /\ Field \in FieldNames
        /\ Source = io.message[Field]
    BY <1>1, <2>1, FieldsAre DEF Copying, Count, Field, Source
  <2>3. /\ io'.field = io.field /\ io'.at = io.at + 1 /\ io'.message = io.message
        /\ io'.busy = io.busy
    BY <2>1 DEF MailboxInv, IOType
  <2>4. Field' = Field /\ Source' = Source /\ Copying'  BY <2>1, <2>3 DEF Field, Source, Copying
  <2>5. io.at \in Nat \ {0} /\ io.at <= Len(Source)  BY <1>1, <2>1 DEF MoreToCopy, Positions
  <2>6. /\ \A f \in FieldNames : f # Field => buffer'[f] = buffer[f]
        /\ \A n \in Positions : n # io.at => buffer'[Field][n] = buffer[Field][n]
        /\ buffer'[Field][io.at] = Source[io.at]
    BY <1>1, <2>1, <2>2 DEF MailboxInv, BufferType
  <2>7. \A i \in 1 .. Count : i < io.field => Says(buffer', Fields[i], io.message)
    <3>. SUFFICES ASSUME NEW i \in 1 .. Count, i < io.field
                  PROVE  Says(buffer', Fields[i], io.message)
      OBVIOUS
    <3>1. Says(buffer, Fields[i], io.message)  BY <2>1 DEF HeardInv, Progress
    <3>2. Fields[i] \in FieldNames /\ Fields[i] # Field  BY <2>2, FieldsAre
    <3>. QED  BY <2>6, <3>1, <3>2, SaysRests
  <2>8. \A n \in 1 .. Length : n < io.at + 1 => buffer'[Field][n] = Source[n]
    <3>. SUFFICES ASSUME NEW n \in 1 .. Length, n < io.at + 1 PROVE buffer'[Field][n] = Source[n]
      OBVIOUS
    <3>1. CASE n = io.at  BY <2>6, <3>1
    <3>2. CASE n < io.at  BY <2>1, <2>6, <3>2 DEF HeardInv, Progress, Positions
    <3>. QED  BY <2>5, <3>1, <3>2
  <2>9. Progress'
    <3>1. \A i \in 1 .. Count : i < io'.field => Says(buffer', Fields[i], io'.message)
      BY <2>3, <2>7
    <3>2. io'.at - 1 <= Len(Source)  BY <2>3, <2>5
    <3>3. \A n \in 1 .. Length : n < io'.at => buffer'[Field][n] = Source[n]  BY <2>3, <2>8
    <3>. QED  BY <2>1, <2>4, <3>1, <3>2, <3>3 DEF Progress
  <2>10. ~ NothingStored'  BY <2>3, <2>5 DEF NothingStored
  <2>11. Settled'  BY <2>4, <2>10 DEF Settled
  <2>12. ReadSoFar'  BY <1>2, <2>1 DEF ReadSoFar
  <2>. QED  BY <2>9, <2>11, <2>12 DEF HeardInv
<1>5. CASE CopyNul
  <2>1. /\ Copying /\ Source # Null /\ ~ MoreToCopy /\ NextField
        /\ buffer' = [buffer EXCEPT ![Field][io.at] = 0]
        /\ torn' = (torn \/ game.reading)
    BY <1>5 DEF CopyNul, Store
  <2>2. /\ io.field \in 1 .. Count /\ Field \in FieldNames /\ Source = io.message[Field]
    BY <1>1, <2>1, FieldsAre DEF Copying, Count, Field, Source
  <2>3. PICK t : t = Source  OBVIOUS
  <2>4. t \in Seq(Chars)
    BY <2>1, <2>2, <2>3, MessagesAre DEF MailboxInv, IOType
  <2>5. PICK l \in Nat : l = Len(t)  BY <2>4, LenProperties
  <2>6. /\ io.at - 1 <= l
        /\ \A n \in 1 .. Length : n < io.at => buffer[Field][n] = t[n]
    BY <2>1, <2>3, <2>5 DEF HeardInv, Progress
  <2>7. io.at \in 1 .. Length /\ io.at - 1 = (IF l < Length THEN l ELSE Length - 1)
    BY <1>1, <2>1, <2>3, <2>5, <2>6, PositionsAre DEF MoreToCopy, Positions
  <2>8. /\ \A f \in FieldNames : f # Field => buffer'[f] = buffer[f]
        /\ \A n \in Positions : n # io.at => buffer'[Field][n] = buffer[Field][n]
        /\ buffer'[Field][io.at] = 0
    BY <1>1, <2>1, <2>2 DEF MailboxInv, BufferType
  <2>9. PICK u : u = StringCopy(Length, t)  OBVIOUS
  <2>10. Len(u) = io.at - 1 /\ \A n \in 1 .. Len(u) : u[n] = t[n]
    BY <2>4, <2>5, <2>7, <2>9, StringCopyIs
  <2>11. Holds(buffer'[Field], u)
    <3>1. Len(u) < Length /\ Len(u) + 1 = io.at  BY <2>5, <2>7, <2>10, PositionsAre
    <3>2. ASSUME NEW n \in 1 .. Len(u) PROVE buffer'[Field][n] = u[n]
      <4>1. n \in 1 .. Length /\ n < io.at /\ n # io.at  BY <2>7, <2>10, PositionsAre
      <4>. QED  BY <2>6, <2>8, <2>10, <4>1 DEF Positions
    <3>. QED  BY <2>8, <3>1, <3>2 DEF Holds
  <2>12. Says(buffer', Field, io.message)  BY <2>1, <2>2, <2>3, <2>9, <2>11 DEF Says
  <2>. QED  BY <1>2, <2>1, <2>8, <2>12, FieldCopied
<1>6. CASE CopyNothing
  <2>1. Copying /\ Source = Null /\ NextField  BY <1>6 DEF CopyNothing
  <2>2. io.at = 1  BY <1>1, <2>1 DEF HeardInv, Progress, Positions
  <2>3. Field \in FieldNames /\ Source = io.message[Field]
    BY <1>1, <2>1, FieldsAre DEF Copying, Count, Field, Source
  <2>4. CASE Field \in Cleared
    <3>1. /\ buffer' = [buffer EXCEPT ![Field][io.at] = 0] /\ torn' = (torn \/ game.reading)
      BY <1>6, <2>4 DEF CopyNothing, Store
    <3>2. /\ \A f \in FieldNames : f # Field => buffer'[f] = buffer[f]
          /\ buffer'[Field][1] = 0
      BY <1>1, <2>2, <2>3, <3>1 DEF MailboxInv, BufferType
    <3>3. Len(<< >>) = 0 /\ 0 < Length  BY EmptySeq, PositionsAre
    <3>4. Holds(buffer'[Field], << >>)  BY <3>2, <3>3 DEF Holds
    <3>5. Says(buffer', Field, io.message)  BY <2>1, <2>3, <3>4 DEF Says
    <3>. QED  BY <1>2, <2>1, <2>4, <3>1, <3>2, <3>5, FieldCopied
  <2>5. CASE Field \notin Cleared
    <3>1. UNCHANGED <<buffer, torn>>  BY <1>6, <2>5 DEF CopyNothing
    <3>2. Says(buffer', Field, io.message)  BY <2>1, <2>3, <2>5 DEF Says
    <3>. QED  BY <1>2, <2>1, <2>2, <2>5, <3>1, <3>2, FieldCopied
  <2>. QED  BY <2>4, <2>5
<1>7. CASE Raise
  <2>1. ~ Copying /\ io' = [io EXCEPT !.busy = FALSE] /\ UNCHANGED <<buffer, latest, torn>>
    BY <1>7 DEF Raise
  <2>2. ~ Copying'  BY <2>1 DEF Copying, MailboxInv, IOType
  <2>3. Progress' /\ Settled'  BY <2>1, <2>2 DEF HeardInv, Progress, Settled
  <2>4. ReadSoFar'  BY <1>2, <2>1, <2>2 DEF HeardInv, ReadSoFar
  <2>. QED  BY <2>3, <2>4 DEF HeardInv
<1>. QED  BY <1>3, <1>4, <1>5, <1>6, <1>7 DEF Copies

\* What the game has read so far, at the end of a field.
LEMMA FieldHeard ==
    ASSUME MailboxInv, HeardInv, ReadNul, ~ torn
    PROVE  /\ Copying => NothingStored
           /\ \A i \in 1 .. Count :
                  i <= game.field => Holds(buffer[Fields[i]], game'.heard[Fields[i]])
<1>1. game.reading /\ AtChar = 0 /\ game.field \in 1 .. Count
      /\ game'.heard = [game.heard EXCEPT ![Fields[game.field]] = game.text]
  BY DEF ReadNul, MailboxInv, GameType
<1>2. Copying => NothingStored  BY <1>1 DEF HeardInv, ReadSoFar
<1>3. Fields[game.field] \in FieldNames  BY <1>1, FieldsAre
<1>4. Holds(buffer[Fields[game.field]], game.text)
  BY <1>1 DEF HeardInv, ReadSoFar, Holds, AtChar, MailboxInv, Inside
<1>5. ASSUME NEW i \in 1 .. Count, i <= game.field
      PROVE  Holds(buffer[Fields[i]], game'.heard[Fields[i]])
  <2>1. CASE i = game.field  BY <1>1, <1>3, <1>4, <2>1 DEF MailboxInv, GameType
  <2>2. CASE i < game.field
    <3>1. Holds(buffer[Fields[i]], game.heard[Fields[i]])  BY <1>1, <2>2 DEF HeardInv, ReadSoFar
    <3>2. Fields[i] # Fields[game.field] /\ Fields[i] \in FieldNames  BY <1>1, <2>2, FieldsAre
    <3>3. game'.heard[Fields[i]] = game.heard[Fields[i]]
      BY <1>1, <3>2 DEF MailboxInv, GameType
    <3>. QED  BY <3>1, <3>3
  <2>. QED  BY <1>1, <1>5, <2>1, <2>2
<1>. QED  BY <1>2, <1>5

LEMMA GameStepsHeard ==
    ASSUME MailboxInv, HeardInv, Reading
    PROVE  HeardInv'
<1>1. UNCHANGED <<buffer, io, latest>>  BY DEF Reading, RunCallbacks, ReadChar, ReadNul
<1>2. Progress' /\ Settled' /\ (Copying' <=> Copying) /\ (NothingStored' <=> NothingStored)
  BY <1>1 DEF HeardInv, Progress, Settled, Copying, NothingStored, Source, Field
<1>3. game.field \in 1 .. Count /\ Fields[game.field] \in FieldNames
  BY FieldsAre DEF MailboxInv, GameType
<1>4. CASE RunCallbacks
  <2>1. game'.field = 1 /\ game'.text = << >> /\ torn' = Copying  BY <1>4 DEF RunCallbacks
  <2>2. Len(<< >>) = 0  BY EmptySeq
  <2>3. ReadSoFar'  BY <1>1, <1>2, <2>1, <2>2 DEF ReadSoFar
  <2>. QED  BY <1>2, <2>3 DEF HeardInv
<1>5. CASE ReadChar
  <2>1. game.reading /\ AtChar # 0 /\ game' = [game EXCEPT !.text = Append(@, AtChar)]
        /\ torn' = torn
    BY <1>5 DEF ReadChar
  <2>2. PICK t : t = Append(game.text, AtChar)  OBVIOUS
  <2>3. game'.text = t /\ game'.field = game.field /\ game'.heard = game.heard
        /\ game'.reading = game.reading
    BY <2>1, <2>2 DEF MailboxInv, GameType
  <2>4. PICK n \in Nat : n = Len(game.text)  BY LenProperties DEF MailboxInv, GameType
  <2>5. game.text \in Seq(Chars) /\ AtChar \in Chars
    BY <2>1, AtCharIs DEF MailboxInv, GameType, Chars
  <2>6. Len(t) = n + 1 /\ (\A i \in 1 .. n : t[i] = game.text[i]) /\ t[n + 1] = AtChar
    BY <2>2, <2>4, <2>5, AppendProperties
  <2>7. AtChar = buffer[Fields[game.field]][n + 1]  BY <2>4 DEF AtChar
  <2>8. ReadSoFar'
    <3>. SUFFICES ASSUME ~ torn PROVE ReadSoFar'  BY <2>1 DEF ReadSoFar
    <3>1. \A i \in 1 .. n : buffer[Fields[game.field]][i] = game.text[i]
      BY <2>1, <2>4 DEF HeardInv, ReadSoFar
    <3>2. \A i \in 1 .. Len(t) : buffer[Fields[game.field]][i] = t[i]
      BY <2>6, <2>7, <3>1
    <3>. QED  BY <1>1, <1>2, <2>1, <2>3, <3>2 DEF HeardInv, ReadSoFar
  <2>. QED  BY <1>2, <2>8 DEF HeardInv
<1>6. CASE ReadNul
  <2>1. /\ game'.reading = (game.field < Count) /\ game'.text = << >> /\ torn' = torn
        /\ game.field < Count => game'.field = game.field + 1
    BY <1>6 DEF ReadNul, Count
  <2>2. ReadSoFar'
    <3>. SUFFICES ASSUME ~ torn, game.field < Count PROVE ReadSoFar'  BY <2>1 DEF ReadSoFar
    <3>1. /\ Copying => NothingStored
          /\ \A i \in 1 .. Count :
                 i <= game.field => Holds(buffer[Fields[i]], game'.heard[Fields[i]])
      BY <1>6, FieldHeard
    <3>2. Len(game'.text) = 0  BY <2>1, EmptySeq
    <3>3. \A i \in 1 .. Count : i < game'.field => i <= game.field  BY <1>3, <2>1
    <3>. QED  BY <1>1, <1>2, <3>1, <3>2, <3>3 DEF ReadSoFar
  <2>. QED  BY <1>2, <2>2 DEF HeardInv
<1>. QED  BY <1>4, <1>5, <1>6 DEF Reading

LEMMA HeardInitially == Init => HeardInv
BY DEF Init, HeardInv, Progress, Settled, ReadSoFar, Copying

\* A text that nobody wrote to while it was read is what the message copied
\* last says, cut to the buffer; of an earlier message nothing is left.
THEOREM UntornIsHeard == Spec => HeardAsSent
<1>1. MailboxInv /\ HeardInv /\ [Next]_vars => HeardInv'
  <2>. SUFFICES ASSUME MailboxInv, HeardInv, [Next]_vars PROVE HeardInv'  OBVIOUS
  <2>1. CASE UNCHANGED vars
    BY <2>1 DEF vars, HeardInv, Progress, Settled, ReadSoFar, Copying, NothingStored, Source, Field
  <2>. QED  BY <2>1, IOStepsHeard, GameStepsHeard DEF Next
<1>2. MailboxInv /\ HeardInv /\ MailboxInv' /\ [Next]_vars
        => [game.reading /\ ~ game'.reading /\ ~ torn /\ latest # NoMessage
                => Heard(game'.heard, latest)]_vars
  <2>. SUFFICES ASSUME MailboxInv, HeardInv, MailboxInv', Next,
                       game.reading, ~ game'.reading, ~ torn, latest # NoMessage
                PROVE  Heard(game'.heard, latest)
    OBVIOUS
  <2>1. ReadNul
    BY DEF Next, Copies, CopyChar, CopyNul, CopyNothing, Raise, Receive, Reading, RunCallbacks,
           ReadChar, MailboxInv, GameType
  <2>2. game.field = Count  BY <2>1, FieldsAre DEF ReadNul, MailboxInv, GameType, Count
  <2>3. /\ Copying => NothingStored
        /\ \A i \in 1 .. Count :
               i <= game.field => Holds(buffer[Fields[i]], game'.heard[Fields[i]])
    BY <2>1, FieldHeard
  <2>4. \A f \in FieldNames : Holds(buffer[f], game'.heard[f]) /\ Says(buffer, f, latest)
    BY <2>2, <2>3, FieldsAre DEF HeardInv, Settled
  <2>5. \A f \in FieldNames : game'.heard[f] \in Seq(Chars)  BY DEF MailboxInv, GameType
  <2>6. ASSUME NEW f \in FieldNames, latest[f] # Null
        PROVE  game'.heard[f] = StringCopy(Length, latest[f])
    <3>1. latest[f] \in Seq(Chars)
      BY <2>6, MessagesAre DEF MailboxInv, FlagType, Accepted
    <3>2. PICK t, u : t = game'.heard[f] /\ u = StringCopy(Length, latest[f])  OBVIOUS
    <3>3. t \in Seq(Chars) /\ u \in Seq(Chars)  BY <2>5, <3>1, <3>2, StringCopyIs
    <3>4. Holds(buffer[f], t) /\ Holds(buffer[f], u)  BY <2>4, <2>6, <3>2 DEF Says
    <3>. QED  BY <3>2, <3>3, <3>4, OneText
  <2>7. ASSUME NEW f \in FieldNames, latest[f] = Null, f \in Cleared
        PROVE  game'.heard[f] = << >>
    <3>1. PICK t, u : t = game'.heard[f] /\ u = << >>  OBVIOUS
    <3>2. t \in Seq(Chars) /\ u \in Seq(Chars)  BY <2>5, <3>1
    <3>3. Holds(buffer[f], t) /\ Holds(buffer[f], u)  BY <2>4, <2>7, <3>1 DEF Says
    <3>. QED  BY <3>1, <3>2, <3>3, OneText
  <2>. QED  BY <2>6, <2>7 DEF Heard, FieldNames
<1>. QED  BY <1>1, <1>2, HeardInitially, MailboxInvariant, PTL DEF Spec, HeardAsSent

-----------------------------------------------------------------------------
(* The allocator. *)

AllocatorSpec == Fresh /\ [][Allocating]_allocating

\* What has been given out is all that lies before next, and a request that
\* was refused does not fit behind it.
AllocatorInv ==
    /\ allocator.next \in 0 .. BufferSize /\ allocator.end = BufferSize
    /\ DOMAIN allocator = {"next", "end", "block"}
    /\ UNION blocks = 0 .. allocator.next - 1
    /\ \A b \in blocks, c \in blocks : b # c => b \cap c = {}
    /\ refused \in Nat /\ (refused # 0 => allocator.next + refused > BufferSize)

LEMMA LinearIs ==
    ASSUME NEW a, a = Linear(BufferSize)
    PROVE  /\ a.next = 0 /\ a.end = BufferSize /\ DOMAIN a = {"next", "end", "block"}
           /\ 0 \in 0 .. BufferSize /\ 0 .. 0 - 1 = {}
BY CommandsAssumption DEF Linear

LEMMA FreshAllocator ==
    ASSUME NEW a, a = Linear(BufferSize)
    PROVE  a.next \in 0 .. BufferSize /\ UNION {} = 0 .. a.next - 1
BY LinearIs

LEMMA AllocateInv ==
    ASSUME AllocatorInv, NEW n \in 0 .. BufferSize + 1, Allocate(n)
    PROVE  AllocatorInv'
<1>1. PICK k \in Nat : k = allocator.next  BY DEF AllocatorInv
<1>2. BufferSize \in Nat /\ k <= BufferSize /\ n \in Nat /\ Null \notin Nat
  BY <1>1, CommandsAssumption, SerializationAssumption DEF AllocatorInv
<1>3. allocator' = Realloc(allocator, n)  BY DEF Allocate
<1>4. CASE n = 0 \/ k + n > BufferSize
  <2>1. allocator' = [allocator EXCEPT !.block = Null]
    BY <1>1, <1>3, <1>4 DEF Realloc, Malloc, AllocatorInv
  <2>2. /\ allocator'.next = k /\ allocator'.end = BufferSize /\ allocator'.block = Null
        /\ DOMAIN allocator' = {"next", "end", "block"}
    BY <1>1, <2>1 DEF AllocatorInv
  <2>3. blocks' = blocks /\ refused' = n  BY <2>2 DEF Allocate
  <2>. QED  BY <1>1, <1>2, <1>4, <2>2, <2>3 DEF AllocatorInv
<1>5. CASE n # 0 /\ ~ k + n > BufferSize
  <2>1. allocator' = [allocator EXCEPT !.next = k + n, !.block = k]
    BY <1>1, <1>3, <1>5 DEF Realloc, Malloc, AllocatorInv
  <2>2. /\ allocator'.next = k + n /\ allocator'.end = BufferSize /\ allocator'.block = k
        /\ DOMAIN allocator' = {"next", "end", "block"}
    BY <1>1, <2>1 DEF AllocatorInv
  <2>3. allocator'.block # Null  BY <1>2, <2>2
  <2>4. blocks' = blocks \cup {k .. k + n - 1} /\ refused' = 0
    BY <2>2, <2>3 DEF Allocate
  <2>5. \A b \in blocks : b \cap (k .. k + n - 1) = {}
    <3>. SUFFICES ASSUME NEW b \in blocks, NEW x \in b, x \in k .. k + n - 1 PROVE FALSE
      OBVIOUS
    <3>1. x \in 0 .. k - 1  BY <1>1 DEF AllocatorInv
    <3>. QED  BY <1>2, <3>1
  <2>6. UNION blocks' = 0 .. k + n - 1
    <3>1. UNION blocks' = (0 .. k - 1) \cup (k .. k + n - 1)  BY <1>1, <2>4 DEF AllocatorInv
    <3>. QED  BY <1>2, <3>1
  <2>7. \A b \in blocks', c \in blocks' : b # c => b \cap c = {}
    BY <2>4, <2>5 DEF AllocatorInv
  <2>. QED  BY <1>2, <1>5, <2>2, <2>4, <2>6, <2>7 DEF AllocatorInv
<1>. QED  BY <1>1, <1>2, <1>4, <1>5

\* Whatever is asked of the allocator, its blocks lie in the buffer and apart
\* from each other, and it refuses only what does not fit.
THEOREM AllocatorIsSound == AllocatorSpec => []AllocatorServes
<1>1. Fresh => AllocatorInv
  BY FreshAllocator, LinearIs DEF Fresh, AllocatorInv
<1>2. AllocatorInv /\ [Allocating]_allocating => AllocatorInv'
  <2>. SUFFICES ASSUME AllocatorInv, [Allocating]_allocating PROVE AllocatorInv'  OBVIOUS
  <2>1. CASE UNCHANGED allocating  BY <2>1 DEF allocating, AllocatorInv
  <2>2. CASE NextDocument  BY <2>2, FreshAllocator, LinearIs DEF NextDocument, AllocatorInv
  <2>. QED  BY <2>1, <2>2, AllocateInv DEF Allocating
<1>3. AllocatorInv => AllocatorServes
  <2>. SUFFICES ASSUME AllocatorInv PROVE AllocatorServes  OBVIOUS
  <2>1. PICK k \in Nat : k = allocator.next  BY DEF AllocatorInv
  <2>2. BufferSize \in Nat /\ k <= BufferSize /\ UNION blocks = 0 .. k - 1
    BY <2>1, CommandsAssumption DEF AllocatorInv
  <2>3. PICK n : n = k - 1  OBVIOUS
  <2>4. Cardinality(UNION blocks) = k
    <3>1. n \in Int /\ 0 \in Int  BY <2>1, <2>3
    <3>2. Cardinality(0 .. n) = IF 0 > n THEN 0 ELSE n - 0 + 1  BY <3>1, FS_Interval
    <3>3. Cardinality(0 .. n) = k  BY <2>1, <2>3, <3>2
    <3>. QED  BY <2>2, <2>3, <3>3
  <2>5. \A b \in blocks : b \subseteq 0 .. BufferSize - 1  BY <2>2
  <2>. QED  BY <2>1, <2>4, <2>5 DEF AllocatorServes, AllocatorInv
<1>. QED  BY <1>1, <1>2, <1>3, PTL DEF AllocatorSpec

-----------------------------------------------------------------------------
(* The presence: objects and their members. *)

\* The pointer that stands for no object is not one.
NullIsNoObject == Null # [key \in DOMAIN Null |-> Null[key]]
IsObject(o) == o = [key \in DOMAIN o |-> o[key]]

\* A member that is written on a condition, and an object with no other.
Optionally(o, key, condition, v) ==
    /\ condition <=> key \in DOMAIN o
    /\ condition => o[key] = v
Alone(o, key, condition, v) == DOMAIN o \subseteq {key} /\ Optionally(o, key, condition, v)

LEMMA WrittenIf ==
    ASSUME NEW key, NEW v, NEW condition \in BOOLEAN
    PROVE  Alone(If(condition, WriteKey(key, v)), key, condition, v)
<1>1. DOMAIN << >> = {}  OBVIOUS
<1>2. PICK o : o = WriteKey(key, v)  OBVIOUS
<1>3. DOMAIN o = {key} /\ o[key] = v  BY <1>2 DEF WriteKey
<1>4. CASE condition
  <2>1. If(condition, WriteKey(key, v)) = o  BY <1>2, <1>4 DEF If
  <2>. QED  BY <1>3, <1>4, <2>1 DEF Alone, Optionally
<1>5. CASE ~ condition
  <2>1. If(condition, WriteKey(key, v)) = << >>  BY <1>5 DEF If
  <2>. QED  BY <1>1, <1>5, <2>1 DEF Alone, Optionally
<1>. QED  BY <1>4, <1>5

LEMMA WrittenText ==
    ASSUME NEW key, NEW text
    PROVE  Alone(WriteOptionalString(key, text), key, IsSet(text), Text(text))
<1>1. IsSet(text) \in BOOLEAN  BY DEF IsSet
<1>. QED  BY <1>1, WrittenIf DEF WriteOptionalString

LEMMA WrittenNumber ==
    ASSUME NEW key, NEW n
    PROVE  Alone(OptionalInt(key, n), key, n # 0, Number(n))
<1>1. (n # 0) \in BOOLEAN  OBVIOUS
<1>. QED  BY <1>1, WrittenIf DEF OptionalInt

\* Two objects that have no name in common keep their members together.
LEMMA Together ==
    ASSUME NEW f, NEW g, NEW F, NEW G,
           DOMAIN f \subseteq F, DOMAIN g \subseteq G, F \cap G = {}
    PROVE  /\ IsObject(f ++ g)
           /\ DOMAIN (f ++ g) \subseteq F \cup G
           /\ \A key \in F : \A condition, v :
                  Optionally(f, key, condition, v) => Optionally(f ++ g, key, condition, v)
           /\ \A key \in G : \A condition, v :
                  Optionally(g, key, condition, v) => Optionally(f ++ g, key, condition, v)
<1>1. PICK o : o = f ++ g  OBVIOUS
<1>2. DOMAIN o = DOMAIN f \cup DOMAIN g  BY <1>1 DEF ++
<1>3. \A key \in DOMAIN f : o[key] = f[key]  BY <1>1 DEF ++
<1>4. \A key \in DOMAIN g : key \notin DOMAIN f => o[key] = g[key]  BY <1>1 DEF ++
<1>5. IsObject(o)  BY <1>1 DEF ++, IsObject
<1>6. ASSUME NEW key \in F, NEW condition, NEW v, Optionally(f, key, condition, v)
      PROVE  Optionally(o, key, condition, v)
  BY <1>2, <1>3, <1>6 DEF Optionally
<1>7. ASSUME NEW key \in G, NEW condition, NEW v, Optionally(g, key, condition, v)
      PROVE  Optionally(o, key, condition, v)
  BY <1>2, <1>4, <1>7 DEF Optionally
<1>. QED  BY <1>1, <1>2, <1>5, <1>6, <1>7

LEMMA OneMore ==
    ASSUME NEW f, NEW F, DOMAIN f \subseteq F,
           NEW key, NEW condition, NEW v, NEW g, Alone(g, key, condition, v), key \notin F
    PROVE  /\ IsObject(f ++ g)
           /\ DOMAIN (f ++ g) \subseteq F \cup {key}
           /\ Optionally(f ++ g, key, condition, v)
           /\ \A k \in F : \A c, w : Optionally(f, k, c, w) => Optionally(f ++ g, k, c, w)
<1>1. PICK G : G = {key}  OBVIOUS
<1>2. DOMAIN g \subseteq G /\ F \cap G = {} /\ key \in G  BY <1>1 DEF Alone
<1>3. /\ IsObject(f ++ g)
      /\ DOMAIN (f ++ g) \subseteq F \cup G
      /\ \A k \in F : \A c, w : Optionally(f, k, c, w) => Optionally(f ++ g, k, c, w)
      /\ \A k \in G : \A c, w : Optionally(g, k, c, w) => Optionally(f ++ g, k, c, w)
  BY <1>2, Together
<1>. QED  BY <1>1, <1>2, <1>3 DEF Alone

LEMMA ObjectIsNotNull == ASSUME NullIsNoObject, NEW o, IsObject(o) PROVE o # Null
BY DEF NullIsNoObject, IsObject

\* What is read of a member that is written on a condition.
LEMMA TextIsRead ==
    ASSUME NEW o, NEW key, NEW text, o # Null,
           Optionally(o, key, IsSet(text), Text(text))
    PROVE  GetStrMember(o, key, Null) = IF text = << >> THEN Null ELSE text
BY DEF Optionally, GetStrMember, Member, IsSet, Text

LEMMA NumberIsRead ==
    ASSUME NEW o, NEW key, NEW n, o # Null, Optionally(o, key, n # 0, Number(n))
    PROVE  GetIntMember(o, key) = n
BY DEF Optionally, GetIntMember, Member, Number

LEMMA ObjectIsRead ==
    ASSUME NEW o, NEW key, NEW condition \in BOOLEAN, NEW members, o # Null,
           Optionally(o, key, condition, Object(members))
    PROVE  GetObjMember(o, key) = IF condition THEN members ELSE Null
BY DEF Optionally, GetObjMember, Member, Object

LEMMA NothingIsRead ==
    ASSUME NEW key, NEW type, NEW none
    PROVE  Member(Null, type, key, none) = none
BY DEF Member

-----------------------------------------------------------------------------
(* The presence: its sections. *)

HasTimestamps(p) == p.startTimestamp # 0 \/ p.endTimestamp # 0
TimestampMembers(p) ==
    OptionalInt("start", p.startTimestamp) ++ OptionalInt("end", p.endTimestamp)
AssetMembers(p) ==
    WriteOptionalString("large_image", p.largeImageKey)
        ++ WriteOptionalString("large_text", p.largeImageText)
        ++ WriteOptionalString("small_image", p.smallImageKey)
        ++ WriteOptionalString("small_text", p.smallImageText)
HasParty(p) ==
    IsSet(p.partyId) \/ p.partySize # 0 \/ p.partyMax # 0 \/ p.partyPrivacy # 0
HasSize(p) == p.partySize # 0 /\ p.partyMax # 0
Size(p) == Array(<< p.partySize, p.partyMax >>)
PartyMembers(p) ==
    WriteOptionalString("id", p.partyId) ++ If(HasSize(p), WriteKey("size", Size(p)))
        ++ OptionalInt("privacy", p.partyPrivacy)
SecretMembers(p) ==
    WriteOptionalString("match", p.matchSecret) ++ WriteOptionalString("join", p.joinSecret)
        ++ WriteOptionalString("spectate", p.spectateSecret)

LEMMA Pair ==
    ASSUME NEW k1, NEW c1, NEW v1, NEW f1, Alone(f1, k1, c1, v1),
           NEW k2, NEW c2, NEW v2, NEW f2, Alone(f2, k2, c2, v2), k1 # k2
    PROVE  /\ IsObject(f1 ++ f2) /\ DOMAIN (f1 ++ f2) \subseteq {k1, k2}
           /\ Optionally(f1 ++ f2, k1, c1, v1) /\ Optionally(f1 ++ f2, k2, c2, v2)
<1>1. DOMAIN f1 \subseteq {k1} /\ DOMAIN f2 \subseteq {k2} /\ {k1} \cap {k2} = {}  BY DEF Alone
<1>2. /\ IsObject(f1 ++ f2)
      /\ DOMAIN (f1 ++ f2) \subseteq {k1} \cup {k2}
      /\ Optionally(f1, k1, c1, v1) => Optionally(f1 ++ f2, k1, c1, v1)
      /\ Optionally(f2, k2, c2, v2) => Optionally(f1 ++ f2, k2, c2, v2)
  <2>1. k1 \in {k1} /\ k2 \in {k2}  OBVIOUS
  <2>. QED  BY <1>1, <2>1, Together
<1>. QED  BY <1>2 DEF Alone

LEMMA Triple ==
    ASSUME NEW k1, NEW c1, NEW v1, NEW f1, Alone(f1, k1, c1, v1),
           NEW k2, NEW c2, NEW v2, NEW f2, Alone(f2, k2, c2, v2), k1 # k2,
           NEW k3, NEW c3, NEW v3, NEW f3, Alone(f3, k3, c3, v3), k3 \notin {k1, k2}
    PROVE  /\ IsObject(f1 ++ f2 ++ f3)
           /\ DOMAIN (f1 ++ f2 ++ f3) \subseteq {k1, k2, k3}
           /\ Optionally(f1 ++ f2 ++ f3, k1, c1, v1)
           /\ Optionally(f1 ++ f2 ++ f3, k2, c2, v2)
           /\ Optionally(f1 ++ f2 ++ f3, k3, c3, v3)
<1>1. PICK f : f = f1 ++ f2  OBVIOUS
<1>2. /\ DOMAIN f \subseteq {k1, k2}
      /\ Optionally(f, k1, c1, v1) /\ Optionally(f, k2, c2, v2)
  BY <1>1, Pair
<1>3. DOMAIN f3 \subseteq {k3} /\ {k1, k2} \cap {k3} = {}  BY DEF Alone
<1>4. /\ IsObject(f ++ f3)
      /\ DOMAIN (f ++ f3) \subseteq {k1, k2} \cup {k3}
      /\ Optionally(f, k1, c1, v1) => Optionally(f ++ f3, k1, c1, v1)
      /\ Optionally(f, k2, c2, v2) => Optionally(f ++ f3, k2, c2, v2)
      /\ Optionally(f3, k3, c3, v3) => Optionally(f ++ f3, k3, c3, v3)
  <2>1. k1 \in {k1, k2} /\ k2 \in {k1, k2} /\ k3 \in {k3}  OBVIOUS
  <2>. QED  BY <1>2, <1>3, <2>1, Together
<1>. QED  BY <1>1, <1>2, <1>4 DEF Alone

LEMMA Quadruple ==
    ASSUME NEW k1, NEW c1, NEW v1, NEW f1, Alone(f1, k1, c1, v1),
           NEW k2, NEW c2, NEW v2, NEW f2, Alone(f2, k2, c2, v2), k1 # k2,
           NEW k3, NEW c3, NEW v3, NEW f3, Alone(f3, k3, c3, v3), k3 \notin {k1, k2},
           NEW k4, NEW c4, NEW v4, NEW f4, Alone(f4, k4, c4, v4), k4 \notin {k1, k2, k3}
    PROVE  /\ IsObject(f1 ++ f2 ++ f3 ++ f4)
           /\ DOMAIN (f1 ++ f2 ++ f3 ++ f4) \subseteq {k1, k2, k3, k4}
           /\ Optionally(f1 ++ f2 ++ f3 ++ f4, k1, c1, v1)
           /\ Optionally(f1 ++ f2 ++ f3 ++ f4, k2, c2, v2)
           /\ Optionally(f1 ++ f2 ++ f3 ++ f4, k3, c3, v3)
           /\ Optionally(f1 ++ f2 ++ f3 ++ f4, k4, c4, v4)
<1>1. PICK f : f = f1 ++ f2 ++ f3  OBVIOUS
<1>2. /\ DOMAIN f \subseteq {k1, k2, k3}
      /\ Optionally(f, k1, c1, v1) /\ Optionally(f, k2, c2, v2) /\ Optionally(f, k3, c3, v3)
  BY <1>1, Triple
<1>3. DOMAIN f4 \subseteq {k4} /\ {k1, k2, k3} \cap {k4} = {}  BY DEF Alone
<1>4. /\ IsObject(f ++ f4)
      /\ DOMAIN (f ++ f4) \subseteq {k1, k2, k3} \cup {k4}
      /\ Optionally(f, k1, c1, v1) => Optionally(f ++ f4, k1, c1, v1)
      /\ Optionally(f, k2, c2, v2) => Optionally(f ++ f4, k2, c2, v2)
      /\ Optionally(f, k3, c3, v3) => Optionally(f ++ f4, k3, c3, v3)
      /\ Optionally(f4, k4, c4, v4) => Optionally(f ++ f4, k4, c4, v4)
  <2>1. k1 \in {k1, k2, k3} /\ k2 \in {k1, k2, k3} /\ k3 \in {k1, k2, k3} /\ k4 \in {k4}
    OBVIOUS
  <2>. QED  BY <1>2, <1>3, <2>1, Together
<1>. QED  BY <1>1, <1>2, <1>4 DEF Alone

LEMMA TimestampsSay ==
    ASSUME NEW p
    PROVE  /\ IsObject(TimestampMembers(p))
           /\ Optionally(TimestampMembers(p), "start",
                         p.startTimestamp # 0, Number(p.startTimestamp))
           /\ Optionally(TimestampMembers(p), "end", p.endTimestamp # 0, Number(p.endTimestamp))
BY WrittenNumber, Pair DEF TimestampMembers

LEMMA AssetsSay ==
    ASSUME NEW p
    PROVE  /\ IsObject(AssetMembers(p))
           /\ Optionally(AssetMembers(p), "large_image",
                         IsSet(p.largeImageKey), Text(p.largeImageKey))
           /\ Optionally(AssetMembers(p), "large_text",
                         IsSet(p.largeImageText), Text(p.largeImageText))
           /\ Optionally(AssetMembers(p), "small_image",
                         IsSet(p.smallImageKey), Text(p.smallImageKey))
           /\ Optionally(AssetMembers(p), "small_text",
                         IsSet(p.smallImageText), Text(p.smallImageText))
BY WrittenText, Quadruple DEF AssetMembers

LEMMA PartySays ==
    ASSUME NEW p
    PROVE  /\ IsObject(PartyMembers(p))
           /\ Optionally(PartyMembers(p), "id", IsSet(p.partyId), Text(p.partyId))
           /\ Optionally(PartyMembers(p), "size", HasSize(p), Size(p))
           /\ Optionally(PartyMembers(p), "privacy", p.partyPrivacy # 0, Number(p.partyPrivacy))
<1>1. Alone(If(HasSize(p), WriteKey("size", Size(p))), "size", HasSize(p), Size(p))
  <2>1. HasSize(p) \in BOOLEAN  BY DEF HasSize
  <2>. QED  BY <2>1, WrittenIf
<1>. QED  BY <1>1, WrittenText, WrittenNumber, Triple DEF PartyMembers

LEMMA SecretsSay ==
    ASSUME NEW p
    PROVE  /\ IsObject(SecretMembers(p))
           /\ Optionally(SecretMembers(p), "match", IsSet(p.matchSecret), Text(p.matchSecret))
           /\ Optionally(SecretMembers(p), "join", IsSet(p.joinSecret), Text(p.joinSecret))
           /\ Optionally(SecretMembers(p), "spectate",
                         IsSet(p.spectateSecret), Text(p.spectateSecret))
BY WrittenText, Triple DEF SecretMembers
-----------------------------------------------------------------------------
(* The presence: what the whole message says. *)

\* Each section is a member of the activity, when it is written.
Section(p, name, condition, members) ==
    Optionally(Activity(p), name, condition, Object(members))

LEMMA ActivitySays ==
    ASSUME NEW p
    PROVE  /\ IsObject(Activity(p))
           /\ DOMAIN Activity(p) \subseteq {"state", "details", "timestamps", "assets",
                                            "party", "secrets", "instance"}
           /\ Optionally(Activity(p), "state", IsSet(p.state), Text(p.state))
           /\ Optionally(Activity(p), "details", IsSet(p.details), Text(p.details))
           /\ Section(p, "timestamps", HasTimestamps(p), TimestampMembers(p))
           /\ Section(p, "assets", HasAssets(p), AssetMembers(p))
           /\ Section(p, "party", HasParty(p), PartyMembers(p))
           /\ Section(p, "secrets", HasSecrets(p), SecretMembers(p))
           /\ "instance" \in DOMAIN Activity(p)
           /\ Activity(p)["instance"] = [type |-> "bool", is |-> p.instance # 0]
<1>1. /\ Alone(Timestamps(p), "timestamps", HasTimestamps(p), Object(TimestampMembers(p)))
      /\ Alone(Assets(p), "assets", HasAssets(p), Object(AssetMembers(p)))
      /\ Alone(Party(p), "party", HasParty(p), Object(PartyMembers(p)))
      /\ Alone(Secrets(p), "secrets", HasSecrets(p), Object(SecretMembers(p)))
  <2>1. /\ HasTimestamps(p) \in BOOLEAN /\ HasAssets(p) \in BOOLEAN
        /\ HasParty(p) \in BOOLEAN /\ HasSecrets(p) \in BOOLEAN
    BY DEF HasTimestamps, HasAssets, HasParty, HasSecrets
  <2>2. Timestamps(p) =
            If(HasTimestamps(p), WriteKey("timestamps", Object(TimestampMembers(p))))
    BY DEF Timestamps, HasTimestamps, TimestampMembers, WriteObject
  <2>3. Assets(p) = If(HasAssets(p), WriteKey("assets", Object(AssetMembers(p))))
    BY DEF Assets, AssetMembers, WriteObject
  <2>4. Party(p) = If(HasParty(p), WriteKey("party", Object(PartyMembers(p))))
    BY DEF Party, HasParty, HasSize, Size, PartyMembers, WriteObject
  <2>5. Secrets(p) = If(HasSecrets(p), WriteKey("secrets", Object(SecretMembers(p))))
    BY DEF Secrets, SecretMembers, WriteObject
  <2>. QED  BY <2>1, <2>2, <2>3, <2>4, <2>5, WrittenIf
<1>2. PICK f1, f2, f3, f4, f5, f6, f7, c1, c2, c3, c4, c5, c6, v1, v2, v3, v4, v5, v6, v7 :
          /\ f1 = WriteOptionalString("state", p.state) /\ c1 = IsSet(p.state)
          /\ f2 = WriteOptionalString("details", p.details) /\ c2 = IsSet(p.details)
          /\ f3 = Timestamps(p) /\ c3 = HasTimestamps(p) /\ f4 = Assets(p) /\ c4 = HasAssets(p)
          /\ f5 = Party(p) /\ c5 = HasParty(p) /\ f6 = Secrets(p) /\ c6 = HasSecrets(p)
          /\ v1 = Text(p.state) /\ v2 = Text(p.details) /\ v3 = Object(TimestampMembers(p))
          /\ v4 = Object(AssetMembers(p)) /\ v5 = Object(PartyMembers(p))
          /\ v6 = Object(SecretMembers(p)) /\ v7 = [type |-> "bool", is |-> p.instance # 0]
          /\ f7 = WriteKey("instance", v7)
  OBVIOUS
<1>3. /\ Alone(f1, "state", c1, v1) /\ Alone(f2, "details", c2, v2)
      /\ Alone(f3, "timestamps", c3, v3) /\ Alone(f4, "assets", c4, v4)
      /\ Alone(f5, "party", c5, v5) /\ Alone(f6, "secrets", c6, v6)
  BY <1>1, <1>2, WrittenText
<1>4. Alone(f7, "instance", TRUE, v7)
  <2>1. If(TRUE, WriteKey("instance", v7)) = WriteKey("instance", v7)  BY DEF If
  <2>. QED  BY <1>2, <2>1, WrittenIf
<1>5. PICK a, b, c, d :
          /\ a = f1 ++ f2 ++ f3 ++ f4 /\ b = a ++ f5 /\ c = b ++ f6 /\ d = c ++ f7
          /\ d = Activity(p)
  BY <1>2 DEF Activity
<1>. DEFINE Four(o) == /\ Optionally(o, "state", c1, v1) /\ Optionally(o, "details", c2, v2)
                       /\ Optionally(o, "timestamps", c3, v3) /\ Optionally(o, "assets", c4, v4)
            Names == {"state", "details", "timestamps", "assets"}
<1>6. DOMAIN a \subseteq Names /\ Four(a)
  BY <1>3, <1>5, Quadruple
<1>7. DOMAIN b \subseteq Names \cup {"party"} /\ Four(b) /\ Optionally(b, "party", c5, v5)
  <2>1. PICK names : names = Names  OBVIOUS
  <2>2. "party" \notin names /\ DOMAIN a \subseteq names  BY <1>6, <2>1
  <2>3. /\ DOMAIN b \subseteq names \cup {"party"} /\ Optionally(b, "party", c5, v5)
        /\ \A k \in names : \A c0, w : Optionally(a, k, c0, w) => Optionally(b, k, c0, w)
    BY <1>3, <1>5, <2>2, OneMore
  <2>. QED  BY <1>6, <2>1, <2>3
<1>8. /\ DOMAIN c \subseteq Names \cup {"party", "secrets"} /\ Four(c)
      /\ Optionally(c, "party", c5, v5) /\ Optionally(c, "secrets", c6, v6)
  <2>1. PICK names : names = Names \cup {"party"}  OBVIOUS
  <2>2. "secrets" \notin names /\ DOMAIN b \subseteq names  BY <1>7, <2>1
  <2>3. /\ DOMAIN c \subseteq names \cup {"secrets"} /\ Optionally(c, "secrets", c6, v6)
        /\ \A k \in names : \A c0, w : Optionally(b, k, c0, w) => Optionally(c, k, c0, w)
    BY <1>3, <1>5, <2>2, OneMore
  <2>. QED  BY <1>7, <2>1, <2>3
<1>9. /\ IsObject(d) /\ DOMAIN d \subseteq Names \cup {"party", "secrets", "instance"}
      /\ Four(d) /\ Optionally(d, "party", c5, v5) /\ Optionally(d, "secrets", c6, v6)
      /\ Optionally(d, "instance", TRUE, v7)
  <2>1. PICK names : names = Names \cup {"party", "secrets"}  OBVIOUS
  <2>2. "instance" \notin names /\ DOMAIN c \subseteq names  BY <1>8, <2>1
  <2>3. PICK yes : yes = TRUE  OBVIOUS
  <2>4. Alone(f7, "instance", yes, v7) /\ d = c ++ f7  BY <1>4, <1>5, <2>3
  <2>5. /\ IsObject(d)
        /\ DOMAIN d \subseteq names \cup {"instance"} /\ Optionally(d, "instance", yes, v7)
        /\ \A k \in names : \A c0, w : Optionally(c, k, c0, w) => Optionally(d, k, c0, w)
    BY <2>2, <2>4, OneMore
  <2>. QED  BY <1>8, <2>1, <2>3, <2>5
<1>. QED  BY <1>2, <1>5, <1>9 DEF Section, Optionally

\* The path from the message to the activity.
LEMMA MessageSays ==
    ASSUME NullIsNoObject, NEW nonce, NEW pid, NEW p, p # Null
    PROVE  GetObjMember(GetObjMember(RichPresenceObj(nonce, pid, p), "args"), "activity")
               = Activity(p)
<1>. DEFINE args == WriteKey("pid", Number(pid))
                        ++ If(p # Null, WriteObject("activity", Activity(p)))
<1>1. PICK f1, f2, f3, f4, f5 :
          /\ f1 = WriteKey("nonce", Text(NumberToString(nonce)))
          /\ f2 = WriteKey("cmd", Text("SET_ACTIVITY"))
          /\ f3 = WriteKey("args", Object(args))
          /\ f4 = WriteKey("pid", Number(pid))
          /\ f5 = WriteKey("activity", Object(Activity(p)))
  OBVIOUS
<1>2. PICK yes : yes = TRUE  OBVIOUS
<1>3. /\ Alone(f1, "nonce", yes, Text(NumberToString(nonce)))
      /\ Alone(f2, "cmd", yes, Text("SET_ACTIVITY"))
      /\ Alone(f3, "args", yes, Object(args))
      /\ Alone(f4, "pid", yes, Number(pid))
      /\ Alone(f5, "activity", yes, Object(Activity(p)))
  <2>1. \A members : If(yes, members) = members  BY <1>2 DEF If
  <2>. QED  BY <1>1, <1>2, <2>1, WrittenIf
<1>4. /\ IsObject(f1 ++ f2 ++ f3)
      /\ Optionally(f1 ++ f2 ++ f3, "args", yes, Object(args))
  BY <1>3, Triple
<1>5. /\ IsObject(f4 ++ f5)
      /\ Optionally(f4 ++ f5, "activity", yes, Object(Activity(p)))
  BY <1>3, Pair
<1>6. RichPresenceObj(nonce, pid, p) = f1 ++ f2 ++ f3
  BY <1>1 DEF RichPresenceObj, Nonce, Command, WriteObject
<1>7. args = f4 ++ f5
  BY <1>1 DEF If, WriteObject
<1>8. GetObjMember(f1 ++ f2 ++ f3, "args") = args
  BY <1>2, <1>4, ObjectIsNotNull, ObjectIsRead
<1>9. GetObjMember(f4 ++ f5, "activity") = Activity(p)
  BY <1>2, <1>5, ObjectIsNotNull, ObjectIsRead
<1>. QED  BY <1>6, <1>7, <1>8, <1>9

LEMMA SectionsAreRead ==
    ASSUME NullIsNoObject, NEW p
    PROVE  LET Read(name) == GetObjMember(Activity(p), name)
           IN  /\ Read("timestamps") = IF HasTimestamps(p) THEN TimestampMembers(p) ELSE Null
               /\ Read("assets") = IF HasAssets(p) THEN AssetMembers(p) ELSE Null
               /\ Read("party") = IF HasParty(p) THEN PartyMembers(p) ELSE Null
               /\ Read("secrets") = IF HasSecrets(p) THEN SecretMembers(p) ELSE Null
<1>1. PICK a : a = Activity(p)  OBVIOUS
<1>2. /\ IsObject(a)
      /\ Optionally(a, "timestamps", HasTimestamps(p), Object(TimestampMembers(p)))
      /\ Optionally(a, "assets", HasAssets(p), Object(AssetMembers(p)))
      /\ Optionally(a, "party", HasParty(p), Object(PartyMembers(p)))
      /\ Optionally(a, "secrets", HasSecrets(p), Object(SecretMembers(p)))
  BY <1>1, ActivitySays DEF Section
<1>3. /\ HasTimestamps(p) \in BOOLEAN /\ HasAssets(p) \in BOOLEAN
      /\ HasParty(p) \in BOOLEAN /\ HasSecrets(p) \in BOOLEAN
  BY DEF HasTimestamps, HasAssets, HasParty, HasSecrets
<1>4. a # Null  BY <1>2, ObjectIsNotNull
<1>. QED  BY <1>1, <1>2, <1>3, <1>4, ObjectIsRead

\* Of a section that is not written nothing is read, and nothing was set.
LEMMA EverySectionIsHeard ==
    ASSUME NullIsNoObject, NEW p, NEW m, p # Null,
           GetObjMember(GetObjMember(m, "args"), "activity") = Activity(p)
    PROVE  SaysPresence(m, p)
<1>. DEFINE Tells(object, name, text) ==
                GetStrMember(object, name, Null) = IF text = << >> THEN Null ELSE text
            Read(name) == GetObjMember(Activity(p), name)
<1>1. \A o, name, text :
          o # Null /\ Optionally(o, name, IsSet(text), Text(text)) => Tells(o, name, text)
  BY TextIsRead
<1>2. \A name, text : ~ IsSet(text) => Tells(Null, name, text)
  BY NothingIsRead DEF GetStrMember, IsSet
<1>3. Tells(Activity(p), "state", p.state) /\ Tells(Activity(p), "details", p.details)
  <2>1. Activity(p) # Null  BY ActivitySays, ObjectIsNotNull
  <2>. QED  BY <1>1, <2>1, ActivitySays
<1>4. /\ GetIntMember(Read("timestamps"), "start") = p.startTimestamp
      /\ GetIntMember(Read("timestamps"), "end") = p.endTimestamp
  <2>1. CASE HasTimestamps(p)
    <3>1. PICK o : o = TimestampMembers(p)  OBVIOUS
    <3>2. Read("timestamps") = o  BY <2>1, <3>1, SectionsAreRead
    <3>3. o # Null  BY <3>1, TimestampsSay, ObjectIsNotNull
    <3>. QED  BY <3>1, <3>2, <3>3, TimestampsSay, NumberIsRead
  <2>2. CASE ~ HasTimestamps(p)
    <3>1. Read("timestamps") = Null  BY <2>2, SectionsAreRead
    <3>. QED  BY <2>2, <3>1, NothingIsRead DEF GetIntMember, HasTimestamps
  <2>. QED  BY <2>1, <2>2
<1>5. /\ Tells(Read("assets"), "large_image", p.largeImageKey)
      /\ Tells(Read("assets"), "large_text", p.largeImageText)
      /\ Tells(Read("assets"), "small_image", p.smallImageKey)
      /\ Tells(Read("assets"), "small_text", p.smallImageText)
  <2>1. CASE HasAssets(p)
    <3>1. Read("assets") = AssetMembers(p)  BY <2>1, SectionsAreRead
    <3>2. AssetMembers(p) # Null  BY AssetsSay, ObjectIsNotNull
    <3>. QED  BY <1>1, <3>1, <3>2, AssetsSay
  <2>2. CASE ~ HasAssets(p)
    <3>1. Read("assets") = Null  BY <2>2, SectionsAreRead
    <3>. QED  BY <1>2, <2>2, <3>1 DEF HasAssets
  <2>. QED  BY <2>1, <2>2
<1>6. /\ Tells(Read("party"), "id", p.partyId)
      /\ GetIntMember(Read("party"), "privacy") = p.partyPrivacy
      /\ Member(Read("party"), "array", "size", << 0, 0 >>) =
             IF 0 \in {p.partySize, p.partyMax} THEN << 0, 0 >>
             ELSE << p.partySize, p.partyMax >>
  <2>1. CASE HasParty(p)
    <3>1. PICK o : o = PartyMembers(p)  OBVIOUS
    <3>2. Read("party") = o  BY <2>1, <3>1, SectionsAreRead
    <3>3. o # Null  BY <3>1, PartySays, ObjectIsNotNull
    <3>4. Tells(o, "id", p.partyId)  BY <1>1, <3>1, <3>3, PartySays
    <3>5. GetIntMember(o, "privacy") = p.partyPrivacy
      BY <3>1, <3>3, PartySays, NumberIsRead
    <3>6. Member(o, "array", "size", << 0, 0 >>) =
              IF 0 \in {p.partySize, p.partyMax} THEN << 0, 0 >>
              ELSE << p.partySize, p.partyMax >>
      <4>1. Optionally(o, "size", HasSize(p), Size(p))  BY <3>1, PartySays
      <4>. QED  BY <3>3, <4>1 DEF Optionally, Member, HasSize, Size, Array
    <3>. QED  BY <3>2, <3>4, <3>5, <3>6
  <2>2. CASE ~ HasParty(p)
    <3>1. Read("party") = Null  BY <2>2, SectionsAreRead
    <3>2. Tells(Null, "id", p.partyId)  BY <1>2, <2>2 DEF HasParty
    <3>3. GetIntMember(Null, "privacy") = p.partyPrivacy
      BY <2>2, NothingIsRead DEF GetIntMember, HasParty
    <3>4. Member(Null, "array", "size", << 0, 0 >>) = << 0, 0 >>  BY NothingIsRead
    <3>. QED  BY <2>2, <3>1, <3>2, <3>3, <3>4 DEF HasParty
  <2>. QED  BY <2>1, <2>2
<1>7. /\ Tells(Read("secrets"), "match", p.matchSecret)
      /\ Tells(Read("secrets"), "join", p.joinSecret)
      /\ Tells(Read("secrets"), "spectate", p.spectateSecret)
  <2>1. CASE HasSecrets(p)
    <3>1. Read("secrets") = SecretMembers(p)  BY <2>1, SectionsAreRead
    <3>2. SecretMembers(p) # Null  BY SecretsSay, ObjectIsNotNull
    <3>. QED  BY <1>1, <3>1, <3>2, SecretsSay
  <2>2. CASE ~ HasSecrets(p)
    <3>1. Read("secrets") = Null  BY <2>2, SectionsAreRead
    <3>. QED  BY <1>2, <2>2, <3>1 DEF HasSecrets
  <2>. QED  BY <2>1, <2>2
<1>8. Member(Activity(p), "bool", "instance", Null) = (p.instance # 0)
  <2>1. PICK a : a = Activity(p)  OBVIOUS
  <2>2. a # Null  BY <2>1, ActivitySays, ObjectIsNotNull
  <2>3. "instance" \in DOMAIN a /\ a["instance"] = [type |-> "bool", is |-> p.instance # 0]
    BY <2>1, ActivitySays
  <2>. QED  BY <2>1, <2>2, <2>3 DEF Member
<1>. QED  BY <1>3, <1>4, <1>5, <1>6, <1>7, <1>8 DEF SaysPresence

LEMMA NoEmptySection ==
    ASSUME NEW p, NEW section \in DOMAIN Activity(p), Activity(p)[section] = Object(<< >>)
    PROVE  section = "party" /\ (p.partySize = 0 <=> p.partyMax # 0)
<1>1. PICK a : a = Activity(p)  OBVIOUS
<1>2. \A key : key \notin DOMAIN << >>  OBVIOUS
<1>3. section # "state" /\ section # "details" /\ section # "instance"
  <2>1. Object(<< >>).type = "object"  BY DEF Object
  <2>2. /\ section = "state" => Activity(p)[section] = Text(p.state)
        /\ section = "details" => Activity(p)[section] = Text(p.details)
        /\ section = "instance" =>
               Activity(p)[section] = [type |-> "bool", is |-> p.instance # 0]
    BY ActivitySays DEF Optionally
  <2>3. Text(p.state).type = "string" /\ Text(p.details).type = "string"  BY DEF Text
  <2>4. [type |-> "bool", is |-> p.instance # 0].type = "bool"  OBVIOUS
  <2>. QED  BY <2>1, <2>2, <2>3, <2>4
<1>4. \A members : Object(members) = Object(<< >>) => members = << >>
  <2>1. \A members : Object(members).is = members  BY DEF Object
  <2>. QED  BY <2>1
<1>5. section # "timestamps"
  <2>1. SUFFICES ASSUME section = "timestamps" PROVE FALSE  OBVIOUS
  <2>2. HasTimestamps(p) /\ TimestampMembers(p) = << >>
    BY <1>4, <2>1, ActivitySays DEF Section, Optionally
  <2>. QED  BY <1>2, <2>2, TimestampsSay DEF HasTimestamps, Optionally
<1>6. section # "assets"
  <2>1. SUFFICES ASSUME section = "assets" PROVE FALSE  OBVIOUS
  <2>2. HasAssets(p) /\ AssetMembers(p) = << >>
    BY <1>4, <2>1, ActivitySays DEF Section, Optionally
  <2>. QED  BY <1>2, <2>2, AssetsSay DEF HasAssets, Optionally
<1>7. section # "secrets"
  <2>1. SUFFICES ASSUME section = "secrets" PROVE FALSE  OBVIOUS
  <2>2. HasSecrets(p) /\ SecretMembers(p) = << >>
    BY <1>4, <2>1, ActivitySays DEF Section, Optionally
  <2>. QED  BY <1>2, <2>2, SecretsSay DEF HasSecrets, Optionally
<1>8. section = "party"  BY <1>3, <1>5, <1>6, <1>7, ActivitySays
<1>9. HasParty(p) /\ PartyMembers(p) = << >>
  BY <1>4, <1>8, ActivitySays DEF Section, Optionally
<1>10. ~ IsSet(p.partyId) /\ ~ HasSize(p) /\ ~ (p.partyPrivacy # 0)
  BY <1>2, <1>9, PartySays DEF Optionally
<1>. QED  BY <1>8, <1>9, <1>10 DEF HasParty, HasSize

\* Commands as far as it writes messages: the allocator of the documents that
\* are read has no part in it.
WritingSpec == Silent /\ [][Writing]_writing

\* The message is the one that the call asked for, as long as there is a call.
AsAsked == call = NoCall \/ (call \in Calls /\ message = Write(call))

LEMMA AsAskedInvariant == WritingSpec => []AsAsked
<1>1. Silent => AsAsked  BY DEF Silent, AsAsked
<1>2. AsAsked /\ [Writing]_writing => AsAsked'
  BY DEF AsAsked, Writing, writing, GameCalls, ClientReads
<1>. QED  BY <1>1, <1>2, PTL DEF WritingSpec

LEMMA PresenceIsWritten ==
    ASSUME AsAsked, IsPresence
    PROVE  message = RichPresenceObj(call.nonce, 1, call.presence) /\ call.presence # Null
<1>1. call.what = "presence" /\ call.presence # Null  BY DEF IsPresence
<1>2. NoCall.what = "nothing"  BY DEF NoCall
<1>3. message = Write(call)  BY <1>1, <1>2 DEF AsAsked
<1>. QED  BY <1>1, <1>3 DEF Write

\* Whatever the presence is, the client reads back from the message that
\* Discord_UpdatePresence writes what is set, and whether it is an instance.
THEOREM WholePresenceReadsBack == NullIsNoObject => (WritingSpec => []PresenceReadsBack)
<1>. SUFFICES ASSUME NullIsNoObject PROVE WritingSpec => []PresenceReadsBack
  OBVIOUS
<1>1. AsAsked => PresenceReadsBack
  BY PresenceIsWritten, MessageSays, EverySectionIsHeard DEF PresenceReadsBack
<1>. QED  BY <1>1, AsAskedInvariant, PTL

\* No section of it is written empty, but the party with one size only.
THEOREM NoSectionIsEmpty == NullIsNoObject => (WritingSpec => []SectionsHaveMembers)
<1>. SUFFICES ASSUME NullIsNoObject PROVE WritingSpec => []SectionsHaveMembers
  OBVIOUS
<1>1. AsAsked => SectionsHaveMembers
  BY PresenceIsWritten, MessageSays, NoEmptySection DEF SectionsHaveMembers
<1>. QED  BY <1>1, AsAskedInvariant, PTL

-----------------------------------------------------------------------------
(* Recursive functions.  A function that is defined by its value at an       *)
(* element of smaller measure exists; this and what follows from it are      *)
(* shown by induction, in the form of a least counterexample.                *)

\* Every set of naturals that is not empty has a least element.
LEMMA LeastNumber ==
    ASSUME NEW T, T \subseteq Nat, T # {}
    PROVE  \E n \in T : \A m \in T : n <= m
<1>. DEFINE Less == {ss \in Nat \X Nat : ss[1] < ss[2]}
<1>1. IsWellFoundedOn(Less, Nat)  BY NatLessThanWellFounded DEF OpToRel
<1>. HIDE DEF Less
<1>2. PICK n \in T : \A m \in T : <<m, n>> \notin Less  BY <1>1, WFMin
<1>3. ASSUME NEW m \in T PROVE n <= m
  <2>1. <<m, n>> \in Nat \X Nat /\ <<m, n>>[1] = m /\ <<m, n>>[2] = n  BY <1>2
  <2>. QED  BY <1>2, <2>1 DEF Less
<1>. QED  BY <1>2, <1>3

\* One step of the recursion: the value at n is given where the measure is 0,
\* and made from the value at p[n] elsewhere.
Unfold(m, p, b, G, f, n) == IF m[n] = 0 THEN b[n] ELSE G[n][f[p[n]]]
SolvesUpTo(D, V, m, p, b, G, f, k) ==
    f \in [D -> V] /\ \A n \in D : m[n] <= k => f[n] = Unfold(m, p, b, G, f, n)

LEMMA UpToEveryNumber ==
    ASSUME NEW D, NEW V, NEW m \in [D -> Nat], NEW p \in [D -> D], NEW b \in [D -> V],
           NEW G \in [D -> [V -> V]], \A n \in D : m[n] # 0 => m[p[n]] < m[n],
           NEW k \in Nat
    PROVE  \E f : SolvesUpTo(D, V, m, p, b, G, f, k)
<1>. DEFINE Bad == {i \in Nat : ~ \E f : SolvesUpTo(D, V, m, p, b, G, f, i)}
<1>1. SUFFICES ASSUME Bad # {} PROVE FALSE  OBVIOUS
<1>2. PICK i \in Bad : \A j \in Bad : i <= j
  <2>. HIDE DEF Bad
  <2>1. Bad \subseteq Nat  BY DEF Bad
  <2>. QED  BY <1>1, <2>1, LeastNumber
<1>3. i \in Nat /\ ~ \E f : SolvesUpTo(D, V, m, p, b, G, f, i)  BY <1>2
<1>4. i # 0
  <2>1. ASSUME NEW n \in D, m[n] <= 0 PROVE m[n] = 0  BY <2>1
  <2>2. SolvesUpTo(D, V, m, p, b, G, b, 0)  BY <2>1 DEF SolvesUpTo, Unfold
  <2>. QED  BY <1>3, <2>2
<1>5. PICK j \in Nat : j = i - 1  BY <1>3, <1>4
<1>6. PICK f : SolvesUpTo(D, V, m, p, b, G, f, j)
  <2>1. ~ i <= j  BY <1>3, <1>5
  <2>2. j \notin Bad
    <3>. HIDE DEF Bad
    <3>. QED  BY <1>2, <2>1
  <2>. QED  BY <1>5, <2>2
<1>. DEFINE g == [n \in D |-> Unfold(m, p, b, G, f, n)]
<1>7. g \in [D -> V]
  <2>1. ASSUME NEW n \in D PROVE Unfold(m, p, b, G, f, n) \in V
    <3>1. p[n] \in D /\ f[p[n]] \in V /\ b[n] \in V /\ G[n] \in [V -> V]
      BY <1>6 DEF SolvesUpTo
    <3>. QED  BY <3>1 DEF Unfold
  <2>. QED  BY <2>1
<1>8. ASSUME NEW n \in D, m[n] <= i PROVE g[n] = Unfold(m, p, b, G, g, n)
  <2>1. g[n] = Unfold(m, p, b, G, f, n)  OBVIOUS
  <2>2. CASE m[n] = 0  BY <2>1, <2>2 DEF Unfold
  <2>3. CASE m[n] # 0
    <3>1. PICK q \in D : q = p[n]  OBVIOUS
    <3>2. m[q] \in Nat /\ m[n] \in Nat /\ m[q] < m[n]  BY <2>3, <3>1
    <3>3. m[q] <= j  BY <1>3, <1>5, <1>8, <3>2
    <3>4. f[q] = g[q]  BY <1>6, <3>3 DEF SolvesUpTo
    <3>. HIDE DEF g
    <3>. QED  BY <2>1, <2>3, <3>1, <3>4 DEF Unfold
  <2>. QED  BY <2>2, <2>3
<1>9. SolvesUpTo(D, V, m, p, b, G, g, i)
  <2>. HIDE DEF g
  <2>. QED  BY <1>7, <1>8 DEF SolvesUpTo
<1>. QED  BY <1>3, <1>9

LEMMA AgreeUpTo ==
    ASSUME NEW D, NEW V, NEW m \in [D -> Nat], NEW p \in [D -> D], NEW b \in [D -> V],
           NEW G \in [D -> [V -> V]], \A n \in D : m[n] # 0 => m[p[n]] < m[n],
           NEW k \in Nat, NEW l \in Nat, k <= l, NEW f, NEW g,
           SolvesUpTo(D, V, m, p, b, G, f, k), SolvesUpTo(D, V, m, p, b, G, g, l)
    PROVE  \A n \in D : m[n] <= k => f[n] = g[n]
<1>. DEFINE Bad == {i \in Nat : \E n \in D : m[n] = i /\ i <= k /\ f[n] # g[n]}
<1>1. CASE Bad = {}
  <2>1. ASSUME NEW n \in D, m[n] <= k, f[n] # g[n] PROVE FALSE
    <3>1. m[n] \in Nat  OBVIOUS
    <3>2. m[n] \in Bad  BY <2>1, <3>1
    <3>. QED  BY <1>1, <3>2
  <2>. QED  BY <2>1
<1>2. CASE Bad # {}
  <2>1. PICK i \in Bad : \A j \in Bad : i <= j
    <3>. HIDE DEF Bad
    <3>1. Bad \subseteq Nat  BY DEF Bad
    <3>. QED  BY <1>2, <3>1, LeastNumber
  <2>2. PICK n \in D : m[n] = i /\ i <= k /\ f[n] # g[n]  BY <2>1
  <2>3. i \in Nat /\ m[n] <= k /\ m[n] <= l  BY <2>1, <2>2
  <2>4. f[n] = Unfold(m, p, b, G, f, n) /\ g[n] = Unfold(m, p, b, G, g, n)
    BY <2>3 DEF SolvesUpTo
  <2>5. m[n] # 0  BY <2>2, <2>4 DEF Unfold
  <2>6. PICK q \in D : q = p[n]  OBVIOUS
  <2>7. m[q] \in Nat /\ m[q] < i  BY <2>2, <2>5, <2>6
  <2>8. m[q] \notin Bad  BY <2>1, <2>3, <2>7
  <2>9. f[q] = g[q]  BY <2>2, <2>3, <2>7, <2>8
  <2>. HIDE DEF Bad
  <2>. QED  BY <2>2, <2>4, <2>5, <2>6, <2>9 DEF Unfold
<1>. QED  BY <1>1, <1>2

Decreases(D, m, p) == \A n \in D : m[n] # 0 => m[p[n]] < m[n]
Solves(D, V, m, p, b, G, f) ==
    f \in [D -> V] /\ \A n \in D : f[n] = Unfold(m, p, b, G, f, n)

LEMMA RecursiveFunction ==
    ASSUME NEW D, NEW V, NEW m \in [D -> Nat], NEW p \in [D -> D], NEW b \in [D -> V],
           NEW G \in [D -> [V -> V]], Decreases(D, m, p)
    PROVE  \E f : Solves(D, V, m, p, b, G, f)
<1>. DEFINE Upto(k) == CHOOSE f : SolvesUpTo(D, V, m, p, b, G, f, k)
<1>1. ASSUME NEW k \in Nat PROVE SolvesUpTo(D, V, m, p, b, G, Upto(k), k)
  BY UpToEveryNumber DEF Decreases
<1>. HIDE DEF Upto
<1>. DEFINE f == [n \in D |-> Upto(m[n])[n]]
<1>2. f \in [D -> V]
  <2>1. ASSUME NEW n \in D PROVE Upto(m[n])[n] \in V
    <3>1. PICK k \in Nat : k = m[n]  OBVIOUS
    <3>2. Upto(k) \in [D -> V]  BY <1>1 DEF SolvesUpTo
    <3>. QED  BY <3>1, <3>2
  <2>. QED  BY <2>1
<1>3. ASSUME NEW n \in D PROVE f[n] = Unfold(m, p, b, G, f, n)
  <2>1. PICK k \in Nat : k = m[n]  OBVIOUS
  <2>. DEFINE u == Upto(k)
  <2>2. SolvesUpTo(D, V, m, p, b, G, u, k) /\ k <= k  BY <1>1
  <2>3. f[n] = u[n] /\ u[n] = Unfold(m, p, b, G, u, n)  BY <2>1, <2>2 DEF SolvesUpTo
  <2>4. CASE k = 0
    <3>. HIDE DEF f, u
    <3>. QED  BY <2>1, <2>3, <2>4 DEF Unfold
  <2>5. CASE k # 0
    <3>1. PICK q \in D, j \in Nat : q = p[n] /\ j = m[q]  OBVIOUS
    <3>. DEFINE v == Upto(j)
    <3>2. SolvesUpTo(D, V, m, p, b, G, v, j) /\ j <= k /\ j <= j
      BY <1>1, <2>1, <2>5, <3>1 DEF Decreases
    <3>3. v[q] = u[q]  BY <2>2, <3>1, <3>2, AgreeUpTo DEF Decreases
    <3>4. f[q] = v[q]  BY <3>1
    <3>. HIDE DEF f, u, v
    <3>. QED  BY <2>1, <2>3, <2>5, <3>1, <3>3, <3>4 DEF Unfold
  <2>. QED  BY <2>4, <2>5
<1>. HIDE DEF f
<1>. QED  BY <1>2, <1>3 DEF Solves

\* Induction on a measure: what passes on from smaller elements holds for all.
LEMMA ByMeasure ==
    ASSUME NEW D, NEW m \in [D -> Nat], NEW S,
           \A n \in D : (\A k \in D : m[k] < m[n] => k \in S) => n \in S
    PROVE  D \subseteq S
<1>. DEFINE Bad == {i \in Nat : \E n \in D : m[n] = i /\ n \notin S}
<1>1. CASE Bad = {}
  <2>1. ASSUME NEW n \in D, n \notin S PROVE FALSE
    <3>1. m[n] \in Nat  OBVIOUS
    <3>2. m[n] \in Bad  BY <2>1, <3>1
    <3>. QED  BY <1>1, <3>2
  <2>. QED  BY <2>1
<1>2. CASE Bad # {}
  <2>1. PICK i \in Bad : \A j \in Bad : i <= j
    <3>. HIDE DEF Bad
    <3>1. Bad \subseteq Nat  BY DEF Bad
    <3>. QED  BY <1>2, <3>1, LeastNumber
  <2>2. PICK n \in D : m[n] = i /\ n \notin S  BY <2>1
  <2>3. PICK k \in D : m[k] < m[n] /\ k \notin S  BY <2>2
  <2>4. m[k] \in Nat /\ i \in Nat /\ m[k] < i  BY <2>1, <2>2, <2>3
  <2>5. m[k] \in Bad  BY <2>3, <2>4
  <2>6. i <= m[k]
    <3>. HIDE DEF Bad
    <3>. QED  BY <2>1, <2>5
  <2>. HIDE DEF Bad
  <2>. QED  BY <2>4, <2>6
<1>. QED  BY <1>1, <1>2

-----------------------------------------------------------------------------
(* The digits of a number. *)

Magnitude(n) == IF n < 0 THEN - n ELSE n
DigitCodes == 48 .. 57

LEMMA IntsAre ==
    /\ \A n : n \in Ints <=> n \in Int /\ - IntMax - 1 <= n /\ n <= IntMax
    /\ IntMax \in Nat \ {0} /\ Least = - IntMax - 1
BY SerializationAssumption DEF Ints, Least

LEMMA QuotientIs ==
    ASSUME NEW n \in Ints
    PROVE  /\ Quotient(n) \in Ints /\ Remainder(n) \in Int
           /\ n # 0 => Magnitude(Quotient(n)) < Magnitude(n)
           /\ n >= 0 => Quotient(n) >= 0 /\ Quotient(n) <= n /\ Remainder(n) \in 0 .. 9
           /\ n = 10 * Quotient(n) + Remainder(n)
<1>1. n \in Int /\ - IntMax - 1 <= n /\ n <= IntMax /\ IntMax \in Nat  BY IntsAre
<1>2. PICK q : q = Quotient(n)  OBVIOUS
<1>3. /\ q \in Int /\ - IntMax - 1 <= q /\ q <= IntMax
      /\ n < 0 => q <= 0 /\ n < q
      /\ n >= 0 => q >= 0 /\ q <= n /\ 10 * q <= n /\ n < 10 * q + 10
      /\ n > 0 => q < n
  <2>1. CASE n < 0
    <3>1. PICK a \in Nat : a = - n /\ a > 0  BY <1>1, <2>1
    <3>2. a \div 10 \in Nat /\ a \div 10 < a  BY <2>1, <3>1
    <3>3. q = - (a \div 10)  BY <1>2, <2>1, <3>1 DEF Quotient
    <3>. QED  BY <1>1, <2>1, <3>1, <3>2, <3>3
  <2>2. CASE n >= 0
    <3>1. q = n \div 10 /\ n \in Nat  BY <1>1, <1>2, <2>2 DEF Quotient
    <3>. QED  BY <1>1, <2>2, <3>1
  <2>. QED  BY <1>1, <2>1, <2>2
<1>4. q \in Ints  BY <1>3, IntsAre
<1>5. Remainder(n) = n - 10 * q  BY <1>2 DEF Remainder
<1>. QED  BY <1>1, <1>2, <1>3, <1>4, <1>5 DEF Magnitude

\* One more digit.
NextDigit(n, s) == Append(s, 48 + Remainder(n))

LEMMA NextDigitType == \A n \in Ints, s \in Seq(Int) : NextDigit(n, s) \in Seq(Int)
<1>1. ASSUME NEW n \in Ints, NEW s \in Seq(Int) PROVE NextDigit(n, s) \in Seq(Int)
  <2>1. 48 + Remainder(n) \in Int  BY QuotientIs
  <2>. QED  BY <2>1, AppendProperties DEF NextDigit
<1>. QED  BY <1>1

LEMMA DigitsExist ==
    \E f : f = [n \in Ints |-> IF n = 0 THEN << >> ELSE NextDigit(n, f[Quotient(n)])]
<1>1. PICK V : V = Seq(Int)  OBVIOUS
<1>2. PICK m : m = [n \in Ints |-> Magnitude(n)]  OBVIOUS
<1>3. PICK p : p = [n \in Ints |-> Quotient(n)]  OBVIOUS
<1>4. PICK b : b = [n \in Ints |-> << >>]  OBVIOUS
<1>5. PICK G : G = [n \in Ints |-> [s \in V |-> NextDigit(n, s)]]  OBVIOUS
<1>6. m \in [Ints -> Nat]  BY <1>2, IntsAre DEF Magnitude
<1>7. p \in [Ints -> Ints]  BY <1>3, QuotientIs
<1>8. b \in [Ints -> V]  BY <1>1, <1>4
<1>9. G \in [Ints -> [V -> V]]  BY <1>1, <1>5, NextDigitType
<1>10. \A n \in Ints : m[n] = 0 <=> n = 0  BY <1>2, IntsAre DEF Magnitude
<1>11. Decreases(Ints, m, p)  BY <1>2, <1>3, <1>10, QuotientIs DEF Decreases
<1>12. PICK f : Solves(Ints, V, m, p, b, G, f)
  BY <1>6, <1>7, <1>8, <1>9, <1>11, RecursiveFunction
<1>13. ASSUME NEW n \in Ints
       PROVE  f[n] = IF n = 0 THEN << >> ELSE NextDigit(n, f[Quotient(n)])
  <2>1. PICK q \in Ints : q = Quotient(n)  BY QuotientIs
  <2>2. p[n] = q /\ b[n] = << >> /\ f[q] \in V  BY <1>3, <1>4, <1>12, <2>1 DEF Solves
  <2>3. G[n][f[q]] = NextDigit(n, f[q])  BY <1>5, <2>2
  <2>4. f[n] = IF m[n] = 0 THEN b[n] ELSE G[n][f[p[n]]]  BY <1>12 DEF Solves, Unfold
  <2>. QED  BY <1>10, <2>1, <2>2, <2>3, <2>4
<1>14. f = [n \in Ints |-> f[n]]  BY <1>12 DEF Solves
<1>. QED  BY <1>13, <1>14

LEMMA DigitsIs ==
    \A n \in Ints :
        /\ Digits[n] = IF n = 0 THEN << >> ELSE NextDigit(n, Digits[Quotient(n)])
        /\ Digits[n] \in Seq(Int)
<1>1. Digits = [n \in Ints |-> IF n = 0 THEN << >> ELSE NextDigit(n, Digits[Quotient(n)])]
  BY DigitsExist DEF Digits, NextDigit
<1>2. \A n \in Ints :
          Digits[n] = IF n = 0 THEN << >> ELSE NextDigit(n, Digits[Quotient(n)])
  BY <1>1
<1>3. PICK m : m = [n \in Ints |-> Magnitude(n)]  OBVIOUS
<1>6. m \in [Ints -> Nat]  BY <1>3, IntsAre DEF Magnitude
<1>. DEFINE Good == {n \in Ints : Digits[n] \in Seq(Int)}
<1>4. ASSUME NEW n \in Ints, \A k \in Ints : m[k] < m[n] => k \in Good PROVE n \in Good
  <2>1. CASE n = 0
    <3>1. Digits[n] = << >>  BY <1>2, <2>1
    <3>2. << >> \in Seq(Int)  OBVIOUS
    <3>. QED  BY <3>1, <3>2
  <2>2. CASE n # 0
    <3>1. PICK q \in Ints : q = Quotient(n) /\ m[q] < m[n]  BY <1>3, <2>2, QuotientIs
    <3>2. Digits[q] \in Seq(Int)  BY <1>4, <3>1
    <3>3. Digits[n] = NextDigit(n, Digits[q])  BY <1>2, <2>2, <3>1
    <3>. QED  BY <3>2, <3>3, NextDigitType
  <2>. QED  BY <2>1, <2>2
<1>5. Ints \subseteq Good
  <2>. HIDE DEF Good
  <2>. QED  BY <1>4, <1>6, ByMeasure
<1>. QED  BY <1>2, <1>5

-----------------------------------------------------------------------------
(* The number that digits denote. *)

Numerals == Seq(DigitCodes)
NextDecimal(text, v) == 10 * v + Last(text) - 48

LEMMA FrontIs ==
    ASSUME NEW text \in Numerals, text # << >>
    PROVE  /\ Front(text) \in Numerals /\ Len(Front(text)) = Len(text) - 1
           /\ Len(text) \in Nat \ {0} /\ Last(text) \in DigitCodes
<1>1. Len(text) \in Nat \ {0}  BY EmptySeq, LenProperties DEF Numerals
<1>2. PICK n \in Nat : n = Len(text) - 1  BY <1>1
<1>3. 1 \in 1 .. Len(text) + 1 /\ n \in 1 - 1 .. Len(text)  BY <1>1, <1>2
<1>4. SubSeq(text, 1, n) \in Seq(DigitCodes)
  BY <1>1, <1>3, SubSeqProperties DEF Numerals
<1>5. Len(SubSeq(text, 1, n)) = n
  BY <1>1, <1>2, <1>3, SubSeqProperties DEF Numerals
<1>6. Front(text) = SubSeq(text, 1, n)  BY <1>2 DEF Front
<1>7. text[Len(text)] \in DigitCodes
  <2>1. Len(text) \in 1 .. Len(text)  BY <1>1
  <2>. QED  BY <2>1, ElementOfSeq DEF Numerals
<1>. QED  BY <1>1, <1>2, <1>4, <1>5, <1>6, <1>7 DEF Numerals, Last

LEMMA DecimalExists ==
    \E f : f = [text \in Numerals |->
                    IF text = << >> THEN 0 ELSE NextDecimal(text, f[Front(text)])]
<1>1. PICK D : D = Numerals  OBVIOUS
<1>2. PICK m : m = [text \in D |-> Len(text)]  OBVIOUS
<1>3. PICK p : p = [text \in D |-> IF text = << >> THEN << >> ELSE Front(text)]  OBVIOUS
<1>4. PICK b : b = [text \in D |-> 0]  OBVIOUS
<1>5. PICK G : G = [text \in D |-> [v \in Int |->
                        IF text = << >> THEN 0 ELSE NextDecimal(text, v)]]
  OBVIOUS
<1>6. m \in [D -> Nat]  BY <1>1, <1>2, LenProperties DEF Numerals
<1>7. p \in [D -> D]
  <2>1. << >> \in Numerals  BY DEF Numerals
  <2>. QED  BY <1>1, <1>3, <2>1, FrontIs
<1>8. b \in [D -> Int]  BY <1>4
<1>9. G \in [D -> [Int -> Int]]
  <2>1. ASSUME NEW text \in D, NEW v \in Int, text # << >>
        PROVE  NextDecimal(text, v) \in Int
    <3>1. Last(text) \in Int  BY <1>1, <2>1, FrontIs DEF DigitCodes
    <3>. QED  BY <3>1 DEF NextDecimal
  <2>. QED  BY <1>5, <2>1
<1>10. \A text \in D : m[text] = 0 <=> text = << >>
  BY <1>1, <1>2, EmptySeq, LenProperties DEF Numerals
<1>11. Decreases(D, m, p)
  <2>1. ASSUME NEW text \in D, m[text] # 0 PROVE m[p[text]] < m[text]
    <3>1. text # << >>  BY <1>10, <2>1
    <3>2. p[text] = Front(text) /\ Front(text) \in D  BY <1>1, <1>3, <3>1, FrontIs
    <3>3. Len(Front(text)) = Len(text) - 1 /\ Len(text) \in Nat  BY <1>1, <3>1, FrontIs
    <3>. QED  BY <1>2, <3>2, <3>3
  <2>. QED  BY <2>1 DEF Decreases
<1>12. PICK f : Solves(D, Int, m, p, b, G, f)
  BY <1>6, <1>7, <1>8, <1>9, <1>11, RecursiveFunction
<1>13. ASSUME NEW text \in D
       PROVE  f[text] = IF text = << >> THEN 0 ELSE NextDecimal(text, f[Front(text)])
  <2>1. f[text] = IF m[text] = 0 THEN b[text] ELSE G[text][f[p[text]]]
    BY <1>12 DEF Solves, Unfold
  <2>2. CASE text = << >>  BY <1>4, <1>10, <2>1, <2>2
  <2>3. CASE text # << >>
    <3>1. PICK t \in D : t = Front(text)  BY <1>1, <2>3, FrontIs
    <3>2. p[text] = t /\ f[t] \in Int  BY <1>3, <1>12, <2>3, <3>1 DEF Solves
    <3>3. G[text][f[t]] = NextDecimal(text, f[t])  BY <1>5, <2>3, <3>2
    <3>. QED  BY <1>10, <2>1, <2>3, <3>1, <3>2, <3>3
  <2>. QED  BY <2>2, <2>3
<1>14. f = [text \in D |-> f[text]]  BY <1>12 DEF Solves
<1>. QED  BY <1>1, <1>13, <1>14

LEMMA DecimalIs ==
    \A text \in Numerals :
        Decimal[text] = IF text = << >> THEN 0 ELSE NextDecimal(text, Decimal[Front(text)])
<1>1. Decimal = [text \in Numerals |->
                     IF text = << >> THEN 0 ELSE NextDecimal(text, Decimal[Front(text)])]
  BY DecimalExists DEF Decimal, NextDecimal, Numerals, DigitCodes
<1>. QED  BY <1>1

-----------------------------------------------------------------------------
(* The digits of a number denote it. *)

\* Of a number that is not negative, and how they begin.
Spelled(n) ==
    /\ Digits[n] \in Numerals /\ Decimal[Digits[n]] = n
    /\ n # 0 => Digits[n] # << >> /\ Head(Digits[n]) \in 49 .. 57

LEMMA DigitsSpell == \A n \in Ints : n >= 0 => Spelled(n)
<1>. DEFINE Good == {n \in Ints : n >= 0 => Spelled(n)}
<1>1. PICK m : m = [n \in Ints |-> Magnitude(n)]  OBVIOUS
<1>2. m \in [Ints -> Nat]  BY <1>1, IntsAre DEF Magnitude
<1>3. ASSUME NEW n \in Ints, \A k \in Ints : m[k] < m[n] => k \in Good PROVE n \in Good
  <2>1. SUFFICES ASSUME n >= 0 PROVE Spelled(n)  OBVIOUS
  <2>2. CASE n = 0
    <3>1. Digits[n] = << >>  BY <2>2, DigitsIs
    <3>2. << >> \in Numerals  BY DEF Numerals
    <3>. QED  BY <2>2, <3>1, <3>2, DecimalIs DEF Spelled
  <2>3. CASE n # 0
    <3>1. PICK q \in Ints : q = Quotient(n)  BY QuotientIs
    <3>2. PICK r : r = Remainder(n)  OBVIOUS
    <3>3. /\ m[q] < m[n] /\ q >= 0 /\ q <= n /\ r \in 0 .. 9 /\ n = 10 * q + r
          /\ q \in Int /\ n \in Int
      BY <1>1, <2>1, <2>3, <3>1, <3>2, QuotientIs, IntsAre
    <3>4. PICK s : s = Digits[q]  OBVIOUS
    <3>5. /\ s \in Numerals /\ Decimal[s] = q
          /\ q # 0 => s # << >> /\ Head(s) \in 49 .. 57
      BY <1>3, <3>3, <3>4 DEF Spelled
    <3>6. PICK c : c = 48 + r  OBVIOUS
    <3>7. c \in DigitCodes  BY <3>3, <3>6 DEF DigitCodes
    <3>8. PICK t : t = Append(s, c)  OBVIOUS
    <3>9. Digits[n] = t  BY <2>3, <3>1, <3>2, <3>4, <3>6, <3>8, DigitsIs DEF NextDigit
    <3>10. /\ t \in Numerals /\ t # << >> /\ Len(t) = Len(s) + 1 /\ t[Len(s) + 1] = c
           /\ \A i \in 1 .. Len(s) : t[i] = s[i]
           /\ Len(s) \in Nat
      BY <3>5, <3>7, <3>8, AppendProperties, LenProperties DEF Numerals
    <3>11. Front(t) = s /\ Last(t) = c
      <4>1. Last(t) = c  BY <3>10 DEF Last
      <4>2. Front(t) \in Numerals /\ Len(Front(t)) = Len(s)
        BY <3>10, FrontIs
      <4>3. \A i \in 1 .. Len(s) : Front(t)[i] = s[i]
        <5>1. PICK k \in Nat : k = Len(s)  BY <3>10
        <5>2. k + 1 - 1 = k  BY <5>1
        <5>3. Front(t) = SubSeq(t, 1, k)  BY <3>10, <5>1, <5>2 DEF Front
        <5>4. ASSUME NEW i \in 1 .. k PROVE SubSeq(t, 1, k)[i] = t[i]
          BY <5>1, <5>4
        <5>. QED  BY <3>10, <5>1, <5>3, <5>4
      <4>. QED  BY <3>5, <4>1, <4>2, <4>3, SeqEqual DEF Numerals
    <3>12. Decimal[t] = n
      <4>1. Decimal[t] = NextDecimal(t, Decimal[s])  BY <3>10, <3>11, DecimalIs
      <4>2. Decimal[t] = 10 * q + c - 48  BY <3>5, <3>11, <4>1 DEF NextDecimal
      <4>. QED  BY <3>3, <3>6, <4>2
    <3>13. Head(t) \in 49 .. 57
      <4>1. Head(t) = t[1]  OBVIOUS
      <4>2. CASE q = 0
        <5>1. s = << >>  BY <3>4, <4>2, DigitsIs
        <5>2. t[1] = c  BY <3>10, <5>1
        <5>3. c \in 49 .. 57  BY <2>3, <3>3, <3>6, <4>2
        <5>. QED  BY <4>1, <5>2, <5>3
      <4>3. CASE q # 0
        <5>1. Len(s) # 0  BY <3>5, <4>3, EmptySeq DEF Numerals
        <5>2. 1 \in 1 .. Len(s)  BY <3>10, <5>1
        <5>3. t[1] = s[1] /\ Head(s) = s[1]  BY <3>10, <5>2
        <5>. QED  BY <3>5, <4>1, <4>3, <5>3
      <4>. QED  BY <4>2, <4>3
    <3>. QED  BY <3>9, <3>10, <3>12, <3>13 DEF Spelled
  <2>. QED  BY <2>2, <2>3
<1>4. Ints \subseteq Good
  <2>. HIDE DEF Good
  <2>. QED  BY <1>2, <1>3, ByMeasure
<1>. QED  BY <1>4

LEMMA SingleDigit == Decimal[<< 48 >>] = 0
<1>1. PICK t : t = << 48 >>  OBVIOUS
<1>2. 48 \in DigitCodes  BY DEF DigitCodes
<1>3. t \in Numerals /\ t # << >> /\ Len(t) = 1 /\ t[1] = 48  BY <1>1, <1>2 DEF Numerals
<1>4. Front(t) \in Numerals /\ Len(Front(t)) = Len(t) - 1  BY <1>3, FrontIs
<1>5. Front(t) = << >>
  <2>1. PICK u : u = Front(t)  OBVIOUS
  <2>2. u \in Seq(DigitCodes) /\ Len(u) = 0  BY <1>3, <1>4, <2>1 DEF Numerals
  <2>. QED  BY <2>1, <2>2, EmptySeq
<1>6. << >> \in Numerals  BY DEF Numerals
<1>7. Decimal[<< >>] = 0  BY <1>6, DecimalIs
<1>8. Decimal[t] = NextDecimal(t, Decimal[Front(t)])  BY <1>3, DecimalIs
<1>9. Last(t) = 48  BY <1>3 DEF Last
<1>. QED  BY <1>1, <1>5, <1>7, <1>8, <1>9 DEF NextDecimal

LEMMA NumberReadsBack ==
    ASSUME NEW n \in Ints, n # Least
    PROVE  Denotes(NumberToString(n), n)
<1>1. n \in Int /\ - n \in Ints  BY IntsAre
<1>2. CASE n = 0
  <2>1. NumberToString(n) = << 48 >>  BY <1>2 DEF NumberToString
  <2>2. Head(<< 48 >>) = 48  OBVIOUS
  <2>. QED  BY <1>2, <2>1, <2>2, SingleDigit DEF Denotes
<1>3. CASE n > 0
  <2>1. Spelled(n)  BY <1>1, <1>3, DigitsSpell
  <2>2. NumberToString(n) = Digits[n]  BY <1>1, <1>3 DEF NumberToString
  <2>3. Head(Digits[n]) # 48 /\ Head(Digits[n]) # 45  BY <1>3, <2>1 DEF Spelled
  <2>. QED  BY <2>1, <2>2, <2>3 DEF Spelled, Denotes
<1>4. CASE n < 0
  <2>1. PICK k \in Ints : k = - n  BY <1>1
  <2>2. k >= 0 /\ n = - k  BY <1>1, <1>4, <2>1
  <2>3. Spelled(k)  BY <2>2, DigitsSpell
  <2>4. PICK d \in Numerals : d = Digits[k] /\ Decimal[d] = k  BY <2>3 DEF Spelled
  <2>5. NumberToString(n) = << 45 >> \o d
    BY <1>1, <1>4, <2>1, <2>4 DEF NumberToString, Negated
  <2>6. Head(<< 45 >> \o d) = 45 /\ Tail(<< 45 >> \o d) = d
    <3>1. d \in Seq(Int)  BY <2>4, DigitsIs
    <3>2. PICK t : t = << 45 >> \o d  OBVIOUS
    <3>3. << 45 >> \in Seq(Int)  OBVIOUS
    <3>4. /\ t \in Seq(Int) /\ Len(t) = 1 + Len(d) /\ Len(d) \in Nat
          /\ \A i \in 1 .. Len(t) : t[i] = IF i <= 1 THEN << 45 >>[i] ELSE d[i - 1]
      BY <3>1, <3>2, <3>3, ConcatProperties, LenProperties
    <3>5. t # << >> /\ t[1] = 45  BY <3>4
    <3>6. Head(t) = 45  BY <3>5
    <3>7. /\ Tail(t) \in Seq(Int) /\ Len(Tail(t)) = Len(d)
          /\ \A i \in 1 .. Len(d) : Tail(t)[i] = t[i + 1]
      BY <3>4, <3>5, HeadTailProperties
    <3>8. \A i \in 1 .. Len(d) : Tail(t)[i] = d[i]
      <4>1. ASSUME NEW i \in 1 .. Len(d) PROVE t[i + 1] = d[i]
        <5>1. PICK j \in 1 .. Len(t) : j = i + 1  BY <3>4
        <5>2. j - 1 = i /\ ~ j <= 1  BY <3>4, <5>1
        <5>. QED  BY <3>4, <5>1, <5>2
      <4>. QED  BY <3>7, <4>1
    <3>9. Tail(t) = d  BY <3>1, <3>7, <3>8, SeqEqual
    <3>. QED  BY <3>2, <3>6, <3>9
  <2>7. PICK text : text = NumberToString(n)  OBVIOUS
  <2>8. Head(text) = 45 /\ Tail(text) = d  BY <2>5, <2>6, <2>7
  <2>9. n = - Decimal[Tail(text)]  BY <2>2, <2>4, <2>8
  <2>. QED  BY <2>7, <2>8, <2>9 DEF Denotes
<1>. QED  BY <1>1, <1>2, <1>3, <1>4

\* Three keys that are written together.
LEMMA ThreeKeys ==
    ASSUME NullIsNoObject,
           NEW k1, NEW v1, NEW k2, NEW v2, NEW k3, NEW v3, k1 # k2, k3 \notin {k1, k2}
    PROVE  LET o == WriteKey(k1, v1) ++ WriteKey(k2, v2) ++ WriteKey(k3, v3)
           IN  o # Null /\ Optionally(o, k1, TRUE, v1) /\ Optionally(o, k3, TRUE, v3)
<1>1. PICK f1, f2, f3, yes :
          /\ f1 = WriteKey(k1, v1) /\ f2 = WriteKey(k2, v2) /\ f3 = WriteKey(k3, v3)
          /\ yes = TRUE
  OBVIOUS
<1>2. \A members : If(yes, members) = members  BY <1>1 DEF If
<1>3. Alone(f1, k1, yes, v1) /\ Alone(f2, k2, yes, v2) /\ Alone(f3, k3, yes, v3)
  BY <1>1, <1>2, WrittenIf
<1>4. IsObject(f1 ++ f2 ++ f3) /\ Optionally(f1 ++ f2 ++ f3, k1, yes, v1)
          /\ Optionally(f1 ++ f2 ++ f3, k3, yes, v3)
  BY <1>3, Triple
<1>. QED  BY <1>1, <1>4, ObjectIsNotNull

LEMMA NonceIsRead ==
    ASSUME NEW o, NEW n, NEW none, o # Null,
           Optionally(o, "nonce", TRUE, Text(NumberToString(n)))
    PROVE  GetStrMember(o, "nonce", none) = NumberToString(n)
BY DEF Optionally, GetStrMember, Member, Text

\* Each of the commands has its nonce.
LEMMA CommandsSayNonce ==
    ASSUME NullIsNoObject, NEW n, NEW none, NEW pid, NEW p, NEW event, NEW user, NEW reply
    PROVE  LET HasNonce(o) == GetStrMember(o, "nonce", none) = NumberToString(n)
           IN  /\ HasNonce(RichPresenceObj(n, pid, p))
               /\ HasNonce(SubscribeCommand(n, event)) /\ HasNonce(UnsubscribeCommand(n, event))
               /\ HasNonce(JoinReply(user, reply, n))
<1>. DEFINE nonce == Text(NumberToString(n))
            Carries(o) == o # Null /\ Optionally(o, "nonce", TRUE, nonce)
<1>1. \A o : Carries(o) => GetStrMember(o, "nonce", none) = NumberToString(n)
  BY NonceIsRead
<1>2. \A cmd, key, v : key \notin {"nonce", "cmd"} =>
          Carries(WriteKey("nonce", nonce) ++ WriteKey("cmd", cmd) ++ WriteKey(key, v))
  BY ThreeKeys
<1>3. \A cmd, v :
          Carries(WriteKey("cmd", cmd) ++ WriteKey("args", v) ++ WriteKey("nonce", nonce))
  BY ThreeKeys
<1>4. Carries(RichPresenceObj(n, pid, p))
  BY <1>2 DEF RichPresenceObj, Nonce, Command, WriteObject
<1>5. Carries(SubscribeCommand(n, event)) /\ Carries(UnsubscribeCommand(n, event))
  BY <1>2 DEF SubscribeCommand, UnsubscribeCommand, Nonce, Command
<1>6. Carries(JoinReply(user, reply, n))
  BY <1>3 DEF JoinReply, Nonce, Command, WriteObject
<1>. HIDE DEF Carries
<1>. QED  BY <1>1, <1>4, <1>5, <1>6

LEMMA HandshakeHasNone ==
    ASSUME NEW version, NEW id
    PROVE  "nonce" \notin DOMAIN HandshakeObj(version, id)
BY DEF HandshakeObj, WriteKey, ++

\* Before a call and after it there is no message.
Quiet == call = NoCall => message = << >>

LEMMA QuietInvariant == WritingSpec => []Quiet
<1>1. Silent => Quiet  BY DEF Silent, Quiet
<1>2. ASSUME NEW c \in Calls PROVE c # NoCall
  BY DEF Calls, NoCall
<1>3. Quiet /\ [Writing]_writing => Quiet'
  BY <1>2 DEF Quiet, Writing, writing, GameCalls, ClientReads
<1>. QED  BY <1>1, <1>3, PTL DEF WritingSpec

LEMMA EveryNonceReadsBack ==
    ASSUME NullIsNoObject, AsAsked, Quiet PROVE NonceReadsBack
<1>1. CASE call = NoCall
  <2>1. message = << >>  BY <1>1 DEF Quiet
  <2>2. call.what = "nothing" /\ "nonce" \notin DOMAIN << >>  BY <1>1 DEF NoCall
  <2>. QED  BY <2>1, <2>2 DEF NonceReadsBack
<1>2. CASE call \in Calls /\ message = Write(call)
  <2>1. CASE call.what = "handshake"
    <3>1. message = HandshakeObj(1, << 97 >>)  BY <1>2, <2>1 DEF Write
    <3>. QED  BY <2>1, <3>1, HandshakeHasNone DEF NonceReadsBack
  <2>2. CASE call.what \in {"presence", "subscribe", "unsubscribe", "reply"}
    <3>1. call.nonce \in Ints /\ call.nonce # Least
      <4>1. 1 \in Ints /\ 1 # Least  BY IntsAre
      <4>. QED  BY <1>2, <2>2, <4>1 DEF Calls, Nonces
    <3>2. GetStrMember(message, "nonce", << 48, 48 >>) = NumberToString(call.nonce)
      <4>1. PICK n, a, p, r : /\ n = call.nonce /\ a = << 97 >>
                              /\ p = call.presence /\ r = call.reply
        OBVIOUS
      <4>2. \/ message = RichPresenceObj(n, 1, p)
            \/ message = SubscribeCommand(n, a)
            \/ message = UnsubscribeCommand(n, a)
            \/ message = JoinReply(a, r, n)
        BY <1>2, <2>2, <4>1 DEF Write
      <4>. QED  BY <4>1, <4>2, CommandsSayNonce
    <3>3. Denotes(NumberToString(call.nonce), call.nonce)  BY <3>1, NumberReadsBack
    <3>. QED  BY <2>2, <3>2, <3>3 DEF NonceReadsBack
  <2>. QED  BY <1>2, <2>1, <2>2 DEF Calls
<1>. QED  BY <1>1, <1>2 DEF AsAsked

\* The number that a command carries can be read back from its digits, for
\* every int but the least and whatever the width of an int.
THEOREM WholeNonceReadsBack == NullIsNoObject => (WritingSpec => []NonceReadsBack)
<1>. SUFFICES ASSUME NullIsNoObject PROVE WritingSpec => []NonceReadsBack
  OBVIOUS
<1>1. AsAsked /\ Quiet => NonceReadsBack  BY EveryNonceReadsBack
<1>. QED  BY <1>1, AsAskedInvariant, QuietInvariant, PTL

=============================================================================
