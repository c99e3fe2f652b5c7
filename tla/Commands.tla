------------------------------ MODULE Commands ------------------------------
(***************************************************************************)
(* The messages that the library writes, as the Discord client reads them, *)
(* and the allocator that RapidJSON is given for its stack (serialization  *)
(* .cpp and .h).                                                           *)
(***************************************************************************)
EXTENDS Serialization, FiniteSets

CONSTANTS Presences,   \* that the game may set
          BufferSize   \* of the allocator

ASSUME CommandsAssumption == BufferSize \in Nat

VARIABLES
    call,       \* what is written: the function and its arguments
    message,    \* the message
    allocator,  \* of the document that is being read
    blocks,     \* what it has given out: sets of addresses
    refused     \* the size of the last request, if it was refused, or 0

writing == <<call, message>>
allocating == <<allocator, blocks, refused>>

\* Nonce counts up from 1 and wraps; the least int comes after 2^31 messages
\* and is left out.
Nonces == Ints \ {Least}

Calls ==
    [what : {"presence"}, presence : Presences \cup {Null}, nonce : {1}]
        \cup [what : {"subscribe", "unsubscribe"}, nonce : Nonces]
        \cup [what : {"reply"}, reply : 0 .. 2, nonce : Nonces]
        \cup [what : {"handshake"}]

NoCall == [what |-> "nothing"]

Write(c) ==
    CASE c.what = "presence" -> RichPresenceObj(c.nonce, 1, c.presence)
      [] c.what = "subscribe" -> SubscribeCommand(c.nonce, << 97 >>)
      [] c.what = "unsubscribe" -> UnsubscribeCommand(c.nonce, << 97 >>)
      [] c.what = "reply" -> JoinReply(<< 97 >>, c.reply, c.nonce)
      [] c.what = "handshake" -> HandshakeObj(1, << 97 >>)

Silent == call = NoCall /\ message = << >>
Fresh == allocator = Linear(BufferSize) /\ blocks = {} /\ refused = 0

GameCalls(c) ==
    /\ call = NoCall
    /\ call' = c /\ message' = Write(c)
    /\ UNCHANGED allocating

ClientReads ==
    /\ call # NoCall
    /\ call' = NoCall /\ message' = << >>
    /\ UNCHANGED allocating

Allocate(n) ==
    /\ allocator' = Realloc(allocator, n)
    /\ blocks' = IF allocator'.block = Null THEN blocks
                 ELSE blocks \cup {allocator'.block .. allocator'.block + n - 1}
    /\ refused' = IF allocator'.block = Null THEN n ELSE 0
    /\ UNCHANGED writing

\* Every document has an allocator of its own.
NextDocument ==
    /\ allocator' = Linear(BufferSize) /\ blocks' = {} /\ refused' = 0
    /\ UNCHANGED writing

Writing == (\E c \in Calls : GameCalls(c)) \/ ClientReads
Allocating == (\E n \in 0 .. BufferSize + 1 : Allocate(n)) \/ NextDocument

-----------------------------------------------------------------------------
(* Properties. *)

\* Every command carries its nonce, from which the number can be read back,
\* whatever the other arguments are; the handshake carries none.
Decimal[text \in Seq(48 .. 57)] ==
    IF text = << >> THEN 0 ELSE 10 * Decimal[Front(text)] + Last(text) - 48
Denotes(text, n) ==
    /\ text = << 48 >> \/ Head(text) # 48
    /\ IF Head(text) = 45 THEN n = - Decimal[Tail(text)] ELSE n = Decimal[text]
NonceReadsBack ==
    IF call.what \in {"nothing", "handshake"} THEN "nonce" \notin DOMAIN message
    ELSE Denotes(GetStrMember(message, "nonce", << 48, 48 >>), call.nonce)

\* The client can read from the message every member of the presence that is
\* set, and reads none of those that are not, whatever else is set or not;
\* whether it is an instance is always said.  Of the two sizes of a party none
\* is written without the other.
SaysPresence(m, p) ==
    LET args == GetObjMember(m, "args")
        activity == GetObjMember(args, "activity")
        timestamps == GetObjMember(activity, "timestamps")
        assets == GetObjMember(activity, "assets")
        party == GetObjMember(activity, "party")
        secrets == GetObjMember(activity, "secrets")
        Says(object, name, text) ==
            GetStrMember(object, name, Null) = IF text = << >> THEN Null ELSE text
    IN  /\ Says(activity, "state", p.state) /\ Says(activity, "details", p.details)
        /\ GetIntMember(timestamps, "start") = p.startTimestamp
        /\ GetIntMember(timestamps, "end") = p.endTimestamp
        /\ Says(assets, "large_image", p.largeImageKey)
        /\ Says(assets, "large_text", p.largeImageText)
        /\ Says(assets, "small_image", p.smallImageKey)
        /\ Says(assets, "small_text", p.smallImageText)
        /\ Says(party, "id", p.partyId)
        /\ GetIntMember(party, "privacy") = p.partyPrivacy
        /\ Member(party, "array", "size", << 0, 0 >>) =
               IF 0 \in {p.partySize, p.partyMax} THEN << 0, 0 >>
               ELSE << p.partySize, p.partyMax >>
        /\ Says(secrets, "match", p.matchSecret)
        /\ Says(secrets, "join", p.joinSecret)
        /\ Says(secrets, "spectate", p.spectateSecret)
        /\ Member(activity, "bool", "instance", Null) = (p.instance # 0)

IsPresence == call.what = "presence" /\ call.presence # Null
PresenceReadsBack == IsPresence => SaysPresence(message, call.presence)

\* No section is written that has no member, but for a party of which only
\* one size is set.
SectionsHaveMembers ==
    IsPresence =>
        LET activity == GetObjMember(GetObjMember(message, "args"), "activity")
        IN  \A section \in DOMAIN activity : activity[section] = Object(<< >>) =>
                /\ section = "party"
                /\ call.presence.partySize = 0 <=> call.presence.partyMax # 0

\* Whatever is asked of the allocator, its blocks lie in the buffer and apart
\* from each other, and a request that fits is not refused, also after one
\* that did not fit.
AllocatorServes ==
    /\ \A b \in blocks : b \subseteq 0 .. BufferSize - 1
    /\ \A b \in blocks, c \in blocks : b # c => b \cap c = {}
    /\ refused # 0 => Cardinality(UNION blocks) + refused > BufferSize
=============================================================================
