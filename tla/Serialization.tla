--------------------------- MODULE Serialization ---------------------------
(***************************************************************************)
(* serialization.cpp and .h: the messages that the library writes, how the *)
(* members of a message are read, and the helpers beneath both.            *)
(*                                                                         *)
(* A JSON value is tagged with its type; an object maps names to values.   *)
(* A character is its code.  The order of members, quoting and the bytes   *)
(* of a message are left to RapidJSON.                                     *)
(***************************************************************************)
EXTENDS Integers, Sequences, SequencesExt

CONSTANTS IntMax,  \* the greatest int
          Null     \* a null pointer

ASSUME SerializationAssumption == IntMax \in Nat \ {0} /\ Null # << >> /\ Null \notin Nat

Least == - IntMax - 1
Ints == Least .. IntMax

-----------------------------------------------------------------------------
(* Texts and numbers. *)

\* What StringCopy leaves in a buffer of length characters, the NUL included.
StringCopy(length, text) == SubSeq(text, 1, IF Len(text) < length THEN Len(text) ELSE length - 1)

\* Undefined for the least int; this is what two's complement gives.
Negated(n) == IF n = Least THEN Least ELSE - n

\* / and % of C.
Quotient(n) == IF n < 0 THEN - ((- n) \div 10) ELSE n \div 10
Remainder(n) == n - 10 * Quotient(n)

Digits[n \in Ints] ==
    IF n = 0 THEN << >> ELSE Append(Digits[Quotient(n)], 48 + Remainder(n))

NumberToString(n) ==
    IF n = 0 THEN << 48 >>
    ELSE IF n < 0 THEN << 45 >> \o Digits[Negated(n)] ELSE Digits[n]

-----------------------------------------------------------------------------
(* Objects. *)

Text(t) == [type |-> "string", is |-> t]
Number(n) == [type |-> "int", is |-> n]
Object(members) == [type |-> "object", is |-> members]
Array(elements) == [type |-> "array", is |-> elements]

\* A key and its value, and the members of two objects together.
WriteKey(name, value) == [key \in {name} |-> value]
f ++ g == [key \in DOMAIN f \cup DOMAIN g |-> IF key \in DOMAIN f THEN f[key] ELSE g[key]]
If(condition, members) == IF condition THEN members ELSE << >>

IsSet(text) == text \notin {Null, << >>}
WriteOptionalString(name, text) == If(IsSet(text), WriteKey(name, Text(text)))
OptionalInt(name, n) == If(n # 0, WriteKey(name, Number(n)))
WriteObject(name, members) == WriteKey(name, Object(members))

\* The value of the member with that name and type, or what stands for none.
Member(object, type, name, none) ==
    IF object # Null /\ name \in DOMAIN object /\ object[name].type = type
    THEN object[name].is ELSE none
GetObjMember(object, name) == Member(object, "object", name, Null)
GetIntMember(object, name) == Member(object, "int", name, 0)
GetStrMember(object, name, none) == Member(object, "string", name, none)

-----------------------------------------------------------------------------
(* Messages. *)

Nonce(nonce) == WriteKey("nonce", Text(NumberToString(nonce)))
Command(cmd) == WriteKey("cmd", Text(cmd))

Timestamps(p) ==
    If(p.startTimestamp # 0 \/ p.endTimestamp # 0,
       WriteObject("timestamps", OptionalInt("start", p.startTimestamp)
                                     ++ OptionalInt("end", p.endTimestamp)))

HasAssets_NoSmallText(p) ==
    IsSet(p.largeImageKey) \/ IsSet(p.largeImageText) \/ IsSet(p.smallImageKey)
HasAssets(p) ==
    \/ IsSet(p.largeImageKey) \/ IsSet(p.largeImageText)
    \/ IsSet(p.smallImageKey) \/ IsSet(p.smallImageText)
Assets(p) ==
    If(HasAssets(p),
       WriteObject("assets", WriteOptionalString("large_image", p.largeImageKey)
                                 ++ WriteOptionalString("large_text", p.largeImageText)
                                 ++ WriteOptionalString("small_image", p.smallImageKey)
                                 ++ WriteOptionalString("small_text", p.smallImageText)))

Party(p) ==
    If(IsSet(p.partyId) \/ p.partySize # 0 \/ p.partyMax # 0 \/ p.partyPrivacy # 0,
       WriteObject("party",
           WriteOptionalString("id", p.partyId)
               ++ If(p.partySize # 0 /\ p.partyMax # 0,
                     WriteKey("size", Array(<< p.partySize, p.partyMax >>)))
               ++ OptionalInt("privacy", p.partyPrivacy)))

HasSecrets_NotNull(p) == {p.matchSecret, p.joinSecret, p.spectateSecret} # {Null}
HasSecrets(p) == IsSet(p.matchSecret) \/ IsSet(p.joinSecret) \/ IsSet(p.spectateSecret)
Secrets(p) ==
    If(HasSecrets(p),
       WriteObject("secrets", WriteOptionalString("match", p.matchSecret)
                                  ++ WriteOptionalString("join", p.joinSecret)
                                  ++ WriteOptionalString("spectate", p.spectateSecret)))

Activity_OnlyIfInstance(p) ==
    WriteOptionalString("state", p.state) ++ WriteOptionalString("details", p.details)
        ++ Timestamps(p) ++ Assets(p) ++ Party(p) ++ Secrets(p)
        ++ If(p.instance # 0, WriteKey("instance", [type |-> "bool", is |-> TRUE]))
Activity(p) ==
    WriteOptionalString("state", p.state) ++ WriteOptionalString("details", p.details)
        ++ Timestamps(p) ++ Assets(p) ++ Party(p) ++ Secrets(p)
        ++ WriteKey("instance", [type |-> "bool", is |-> p.instance # 0])

\* Null stands for Discord_ClearPresence.
RichPresenceObj(nonce, pid, p) ==
    Nonce(nonce) ++ Command("SET_ACTIVITY")
        ++ WriteObject("args", WriteKey("pid", Number(pid))
                                   ++ If(p # Null, WriteObject("activity", Activity(p))))

HandshakeObj(version, applicationId) ==
    WriteKey("v", Number(version)) ++ WriteKey("client_id", Text(applicationId))

SubscribeCommand(nonce, evtName) ==
    Nonce(nonce) ++ Command("SUBSCRIBE") ++ WriteKey("evt", Text(evtName))

UnsubscribeCommand(nonce, evtName) ==
    Nonce(nonce) ++ Command("UNSUBSCRIBE") ++ WriteKey("evt", Text(evtName))

\* DISCORD_REPLY_NO and DISCORD_REPLY_IGNORE are the same to the client.
JoinReply_Swapped(userId, reply, nonce) ==
    Command(IF nonce = 1 THEN "SEND_ACTIVITY_JOIN_INVITE" ELSE "CLOSE_ACTIVITY_JOIN_REQUEST")
        ++ WriteObject("args", WriteKey("user_id", Text(userId))) ++ Nonce(reply)
JoinReply(userId, reply, nonce) ==
    Command(IF reply = 1 THEN "SEND_ACTIVITY_JOIN_INVITE" ELSE "CLOSE_ACTIVITY_JOIN_REQUEST")
        ++ WriteObject("args", WriteKey("user_id", Text(userId))) ++ Nonce(nonce)

-----------------------------------------------------------------------------
(* LinearAllocator: [next, end], and the block that it gave out last.      *)

Linear(size) == [next |-> 0, end |-> size, block |-> Null]

Malloc_NoReset(a, size) ==
    [a EXCEPT !.next = @ + size,
              !.block = IF a.next + size > a.end THEN Null ELSE a.next]
Malloc(a, size) ==
    IF a.next + size > a.end THEN [a EXCEPT !.block = Null]
    ELSE [a EXCEPT !.next = @ + size, !.block = a.next]

\* Never called for a block that exists: it asserts so.
Realloc(a, newSize) == IF newSize = 0 THEN [a EXCEPT !.block = Null] ELSE Malloc(a, newSize)
=============================================================================
