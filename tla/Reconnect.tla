----------------------------- MODULE Reconnect -----------------------------
(***************************************************************************)
(* When the library tries to connect: the exponential backoff of backoff.h *)
(* and its use by Discord_UpdateConnection, onConnect and onDisconnect in  *)
(* discord_rpc.cpp.  Here time has a length, which DiscordRpc leaves out.  *)
(*                                                                         *)
(* Times are in units of the smallest interval that matters.  NextConnect  *)
(* is kept as the time that remains until it, which system_clock counts    *)
(* down; it jumps when that clock is set.                                  *)
(***************************************************************************)
EXTENDS Integers

CONSTANTS
    MinDelay, MaxDelay,  \* ReconnectTimeMs(500, 60 * 1000)
    Jumps,               \* by how much the system clock may be set
    MaxJumps,            \* bound: how often it is set
    MaxWaited            \* bound: how long the time between two tries is followed

ASSUME ReconnectAssumption ==
    /\ MinDelay \in Nat \ {0}
    /\ MaxDelay \in Nat /\ MinDelay <= MaxDelay
    /\ Jumps \subseteq Int
    /\ MaxJumps \in Nat /\ MaxWaited \in Nat

VARIABLES
    state,      \* RpcConnection's
    current,    \* Backoff.current
    remaining,  \* NextConnect less the time of system_clock
    waited,     \* how long ago the last try was made or the connection lost
    jumps       \* how often the clock was set

vars == <<state, current, remaining, waited, jumps>>

TypeOK ==
    /\ state \in {"Disconnected", "SentHandshake", "Connected"}
    /\ current \in MinDelay .. MaxDelay
    /\ remaining \in Int
    /\ waited \in Nat
    /\ jumps \in 0 .. MaxJumps

\* NextConnect starts as the time at which the library is loaded, so the first
\* try is due at once.
Init ==
    /\ state = "Disconnected"
    /\ current = MinDelay
    /\ remaining = 0
    /\ waited = MinDelay
    /\ jumps = 0

-----------------------------------------------------------------------------
(* Backoff::nextDelay: current grows by a random part of its double, less   *)
(* than all of it.                                                          *)

NextDelays_Uncapped(c) == {c + delay : delay \in 0 .. 2 * c - 1}
NextDelays(c) ==
    {IF c + delay < MaxDelay THEN c + delay ELSE MaxDelay : delay \in 0 .. 2 * c - 1}

UpdateReconnectTime(c) ==
    /\ current' = c
    /\ remaining' = c
    /\ waited' = 0
    /\ UNCHANGED jumps

-----------------------------------------------------------------------------
(* Discord_UpdateConnection when the connection is not up and NextConnect   *)
(* has come: UpdateReconnectTime, then Open.                                *)

Due_Exactly(s) == state = s /\ remaining = 0
Due(s) == state = s /\ remaining <= 0

\* No Discord client is found, or it takes no handshake: Close then has nobody
\* to tell.
OpenFails ==
    /\ Due("Disconnected")
    /\ \E c \in NextDelays(current) : UpdateReconnectTime(c)
    /\ UNCHANGED state

Handshake_Resets ==
    /\ Due("Disconnected")
    /\ \E c \in NextDelays(current) : remaining' = c
    /\ current' = MinDelay /\ waited' = 0
    /\ state' = "SentHandshake"
    /\ UNCHANGED jumps
Handshake ==
    /\ Due("Disconnected")
    /\ \E c \in NextDelays(current) : UpdateReconnectTime(c)
    /\ state' = "SentHandshake"

\* READY is not there yet; looking for it counts as a try.
NotReady ==
    /\ Due("SentHandshake")
    /\ \E c \in NextDelays(current) : UpdateReconnectTime(c)
    /\ UNCHANGED state

\* READY: onConnect calls reset after NextConnect was set.
GetsReady ==
    /\ Due("SentHandshake")
    /\ \E c \in NextDelays(current) : remaining' = c
    /\ current' = MinDelay
    /\ waited' = 0
    /\ state' = "Connected"
    /\ UNCHANGED jumps

\* Open's Read closes the connection: onDisconnect delays once more.
HandshakeFails ==
    /\ Due("SentHandshake")
    /\ \E first \in NextDelays(current) :
           \E c \in NextDelays(first) : UpdateReconnectTime(c)
    /\ state' = "Disconnected"

\* A Read or a Write closes a connection that is up.
Lost_NoDelay ==
    /\ state = "Connected"
    /\ waited' = 0
    /\ UNCHANGED <<current, remaining, jumps>>
    /\ state' = "Disconnected"
Lost ==
    /\ state = "Connected"
    /\ \E c \in NextDelays(current) : UpdateReconnectTime(c)
    /\ state' = "Disconnected"

\* Past MaxWaited time goes on uncounted.
TimePasses ==
    /\ IF waited < MaxWaited
       THEN remaining' = remaining - 1 /\ waited' = waited + 1
       ELSE UNCHANGED <<remaining, waited>>
    /\ UNCHANGED <<state, current, jumps>>

ClockIsSet ==
    /\ jumps < MaxJumps
    /\ jumps' = jumps + 1
    /\ \E j \in Jumps : remaining' = remaining - j
    /\ UNCHANGED <<state, current, waited>>

Try == OpenFails \/ Handshake \/ NotReady \/ GetsReady \/ HandshakeFails

Next == Try \/ Lost \/ TimePasses \/ ClockIsSet

Spec == Init /\ [][Next]_vars

FairSpec == Spec /\ WF_vars(TimePasses) /\ WF_vars(Try)

-----------------------------------------------------------------------------
(* "We want to auto connect, and retry on failure, but not as fast as       *)
(* possible. This does expoential backoff from 0.5 seconds to 1 minute."    *)

\* Not as fast as possible: a try comes no sooner than MinDelay after the one
\* before it, or after the connection was lost, however long it had been up.
\* A clock that is set may break this, in either direction.
NotTooFast == [][Try /\ jumps = 0 => waited >= MinDelay]_vars

\* "to 1 minute": after MaxDelay at the latest the next try is due, unless the
\* clock was set.
DueInTime ==
    jumps = 0 /\ state # "Connected" /\ waited >= MaxDelay => remaining <= 0

\* Exponential backoff: Backoff.current falls only when READY was read, and
\* until the clock is set a try waits out the whole of the backoff that the
\* one before it, or the loss of the connection, has left.  So the waits grow
\* until a try succeeds.  A clock that is set forward cuts a wait short:
\* current then still grows, but the tries do come sooner.
BacksOff ==
    [][/\ current' < current => state' = "Connected"
       /\ Try /\ jumps = 0 => waited >= current]_vars

\* "auto connect": while there is no connection there are tries, for ever.
KeepsTrying == []<>(state = "Connected" \/ waited = 0)
=============================================================================
