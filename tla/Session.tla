------------------------------ MODULE Session ------------------------------
(***************************************************************************)
(* What discord_rpc.cpp relies on in a connection to the Discord client,   *)
(* with frames, sockets and pings left out.  A session begins when the     *)
(* handshake is sent; it is up once the READY message has been read, which *)
(* is announced by onConnect; while it is up the messages of the peer are  *)
(* read in the order in which they were sent, none twice; its end, from    *)
(* whatever state, is announced by exactly one onDisconnect.  The call-   *)
(* backs of the last session are kept, so that one too many shows.         *)
(***************************************************************************)
EXTENDS Sequences

CONSTANTS Messages, Ready

VARIABLES status,    \* "down", "handshaking" or "up"
          inbox,     \* messages of the peer that have not been read
          got,       \* the message that was read last
          announced  \* the callbacks of the last session, "connect" and "disconnect"

vars == <<status, inbox, got, announced>>

Init == status = "down" /\ inbox = << >> /\ announced = << >>

Begin ==
    /\ status = "down"
    /\ status' = "handshaking"
    /\ inbox' = << >>
    /\ announced' = << >>
    /\ UNCHANGED got

Arrive(m) ==
    /\ status # "down"
    /\ inbox' = Append(inbox, m)
    /\ UNCHANGED <<status, got, announced>>

\* Before READY any other message is read and ignored.
Ignore ==
    /\ status = "handshaking" /\ inbox # << >> /\ Head(inbox) # Ready
    /\ inbox' = Tail(inbox)
    /\ UNCHANGED <<status, got, announced>>

BecomeUp ==
    /\ status = "handshaking" /\ inbox # << >> /\ Head(inbox) = Ready
    /\ status' = "up"
    /\ inbox' = Tail(inbox)
    /\ announced' = Append(announced, "connect")
    /\ UNCHANGED got

Deliver ==
    /\ status = "up" /\ inbox # << >>
    /\ got' = Head(inbox)
    /\ inbox' = Tail(inbox)
    /\ UNCHANGED <<status, announced>>

End ==
    /\ status # "down"
    /\ status' = "down"
    /\ inbox' = << >>
    /\ announced' = Append(announced, "disconnect")
    /\ UNCHANGED got

Next ==
    \/ Begin \/ Ignore \/ BecomeUp \/ Deliver \/ End
    \/ \E m \in Messages : Arrive(m)

Spec == Init /\ [][Next]_vars
=============================================================================
