-------------------------- MODULE Reconnect_proofs --------------------------
(***************************************************************************)
(* The backoff of Reconnect, proved for every pair of delays and every way *)
(* of setting the clock.                                                   *)
(***************************************************************************)
EXTENDS Reconnect, TLAPS

\* nextDelay stays within the bounds and never falls.
LEMMA NextDelayRange ==
    ASSUME NEW c \in MinDelay .. MaxDelay, NEW d \in NextDelays(c)
    PROVE  d \in MinDelay .. MaxDelay /\ c <= d
<1>1. PICK delay \in 0 .. 2 * c - 1 :
          d = IF c + delay < MaxDelay THEN c + delay ELSE MaxDelay
  BY DEF NextDelays
<1>2. c \in Int /\ MinDelay <= c /\ c <= MaxDelay /\ delay \in Int /\ 0 <= delay
  BY ReconnectAssumption
<1>. QED  BY <1>1, <1>2, ReconnectAssumption

\* A try and the loss of a connection set NextConnect anew; current falls only
\* when READY was read, and is the delay unless it was.
LEMMA SetsNextConnect ==
    ASSUME TypeOK, Try \/ Lost
    PROVE  /\ state' \in {"Disconnected", "SentHandshake", "Connected"}
           /\ current' \in MinDelay .. MaxDelay
           /\ remaining' \in MinDelay .. MaxDelay
           /\ waited' = 0
           /\ jumps' = jumps
           /\ current' < current => state' = "Connected"
           /\ state' # "Connected" => remaining' = current'
<1>1. current \in MinDelay .. MaxDelay  BY DEF TypeOK
<1>2. MinDelay \in MinDelay .. MaxDelay  BY ReconnectAssumption
<1>3. CASE \E c \in NextDelays(current) : UpdateReconnectTime(c)
  <2>1. PICK c \in NextDelays(current) : UpdateReconnectTime(c)  BY <1>3
  <2>2. c \in MinDelay .. MaxDelay /\ current <= c  BY <1>1, NextDelayRange
  <2>3. current' = c /\ remaining' = c /\ waited' = 0 /\ jumps' = jumps
    BY <2>1 DEF UpdateReconnectTime
  <2>4. ~ (current' < current)  BY <1>1, <2>2, <2>3, ReconnectAssumption
  <2>5. state' \in {"Disconnected", "SentHandshake", "Connected"}
    BY DEF TypeOK, Try, OpenFails, Handshake, NotReady, GetsReady, HandshakeFails, Lost
  <2>. QED  BY <2>2, <2>3, <2>4, <2>5
<1>4. CASE GetsReady
  <2>1. PICK c \in NextDelays(current) : remaining' = c  BY <1>4 DEF GetsReady
  <2>2. c \in MinDelay .. MaxDelay  BY <1>1, NextDelayRange
  <2>. QED  BY <1>2, <1>4, <2>1, <2>2 DEF GetsReady
<1>5. CASE HandshakeFails
  <2>1. PICK first \in NextDelays(current) :
            \E c \in NextDelays(first) : UpdateReconnectTime(c)
    BY <1>5 DEF HandshakeFails
  <2>2. first \in MinDelay .. MaxDelay /\ current <= first  BY <1>1, NextDelayRange
  <2>3. PICK c \in NextDelays(first) : UpdateReconnectTime(c)  BY <2>1
  <2>4. c \in MinDelay .. MaxDelay /\ first <= c  BY <2>2, NextDelayRange
  <2>5. current' = c /\ remaining' = c /\ waited' = 0 /\ jumps' = jumps
    BY <2>3 DEF UpdateReconnectTime
  <2>6. ~ (current' < current)  BY <1>1, <2>2, <2>4, <2>5, ReconnectAssumption
  <2>. QED  BY <1>5, <2>4, <2>5, <2>6 DEF HandshakeFails
<1>. QED
  BY <1>3, <1>4, <1>5 DEF Try, OpenFails, Handshake, NotReady, Lost

-----------------------------------------------------------------------------
\* The delays stay between the two bounds, whatever the clock does.
LEMMA TypeStep == TypeOK /\ [Next]_vars => TypeOK'
<1>. SUFFICES ASSUME TypeOK, [Next]_vars PROVE TypeOK'  OBVIOUS
<1>1. CASE Try \/ Lost
  <2>1. remaining' \in Int  BY <1>1, SetsNextConnect, ReconnectAssumption
  <2>. QED  BY <1>1, <2>1, SetsNextConnect DEF TypeOK
<1>2. CASE TimePasses  BY <1>2 DEF TypeOK, TimePasses
<1>3. CASE ClockIsSet
  <2>1. PICK j \in Jumps : remaining' = remaining - j  BY <1>3 DEF ClockIsSet
  <2>2. j \in Int /\ MaxJumps \in Nat  BY ReconnectAssumption
  <2>3. remaining' \in Int  BY <2>1, <2>2 DEF TypeOK
  <2>4. jumps' \in 0 .. MaxJumps  BY <1>3, <2>2 DEF ClockIsSet, TypeOK
  <2>. QED  BY <1>3, <2>3, <2>4 DEF ClockIsSet, TypeOK
<1>4. CASE UNCHANGED vars  BY <1>4 DEF TypeOK, vars
<1>. QED  BY <1>1, <1>2, <1>3, <1>4 DEF Next

\* Backoff.current lies between the two delays it was built with.
THEOREM TypeCorrect == Spec => []TypeOK
<1>1. Init => TypeOK  BY ReconnectAssumption DEF Init, TypeOK
<1>. QED  BY <1>1, TypeStep, PTL DEF Spec

-----------------------------------------------------------------------------
(* Until the clock is set, remaining and waited count the same delay, from  *)
(* its two ends; while there is no connection it is the backoff itself.     *)

Steady ==
    /\ TypeOK
    /\ jumps = 0 => remaining + waited \in MinDelay .. MaxDelay
    /\ jumps = 0 /\ state # "Connected" => remaining + waited = current

LEMMA SteadyInvariant == Spec => []Steady
<1>1. Init => Steady  BY ReconnectAssumption DEF Init, TypeOK, Steady
<1>2. Steady /\ [Next]_vars => Steady'
  <2>. SUFFICES ASSUME Steady, [Next]_vars PROVE Steady'  OBVIOUS
  <2>1. TypeOK'  BY TypeStep DEF Steady
  <2>2. jumps' = 0 => remaining' + waited' \in MinDelay .. MaxDelay
    <3>1. CASE Try \/ Lost
      <4>1. waited' = 0  BY <3>1, SetsNextConnect DEF Steady
      <4>2. remaining' \in MinDelay .. MaxDelay  BY <3>1, SetsNextConnect DEF Steady
      <4>3. remaining' \in Int  BY <4>2, ReconnectAssumption
      <4>4. \A n \in Int : n + 0 = n  OBVIOUS
      <4>. QED  BY <4>1, <4>2, <4>3, <4>4, Zenon
    <3>2. CASE TimePasses
      <4>1. remaining \in Int /\ waited \in Nat  BY DEF Steady, TypeOK
      <4>2. remaining' + waited' = remaining + waited  BY <3>2, <4>1 DEF TimePasses
      <4>3. jumps' = jumps  BY <3>2 DEF TimePasses
      <4>. QED  BY <4>2, <4>3 DEF Steady
    <3>3. CASE ClockIsSet
      <4>1. jumps \in 0 .. MaxJumps /\ jumps' = jumps + 1
        BY <3>3 DEF ClockIsSet, Steady, TypeOK
      <4>. QED  BY <4>1, ReconnectAssumption
    <3>4. CASE UNCHANGED vars  BY <3>4 DEF vars, Steady
    <3>. QED  BY <3>1, <3>2, <3>3, <3>4 DEF Next
  <2>3. jumps' = 0 /\ state' # "Connected" => remaining' + waited' = current'
    <3>1. CASE Try \/ Lost
      <4>1. waited' = 0 /\ remaining' \in MinDelay .. MaxDelay
        BY <3>1, SetsNextConnect DEF Steady
      <4>2. state' # "Connected" => remaining' = current'
        BY <3>1, SetsNextConnect DEF Steady
      <4>3. remaining' \in Int  BY <4>1, ReconnectAssumption
      <4>. QED  BY <4>1, <4>2, <4>3
    <3>2. CASE TimePasses
      <4>1. remaining \in Int /\ waited \in Nat  BY DEF Steady, TypeOK
      <4>2. remaining' + waited' = remaining + waited  BY <3>2, <4>1 DEF TimePasses
      <4>3. jumps' = jumps /\ state' = state /\ current' = current
        BY <3>2 DEF TimePasses
      <4>. QED  BY <4>2, <4>3 DEF Steady
    <3>3. CASE ClockIsSet
      <4>1. jumps \in 0 .. MaxJumps /\ jumps' = jumps + 1
        BY <3>3 DEF ClockIsSet, Steady, TypeOK
      <4>. QED  BY <4>1, ReconnectAssumption
    <3>4. CASE UNCHANGED vars  BY <3>4 DEF vars, Steady
    <3>. QED  BY <3>1, <3>2, <3>3, <3>4 DEF Next
  <2>. QED  BY <2>1, <2>2, <2>3 DEF Steady
<1>. QED  BY <1>1, <1>2, PTL DEF Spec

\* "to 1 minute": while the clock is not set the next try is due in time.
THEOREM InTime == Spec => []DueInTime
<1>1. Steady => DueInTime
  BY ReconnectAssumption DEF Steady, TypeOK, DueInTime
<1>. QED  BY <1>1, SteadyInvariant, PTL

\* "not as fast as possible": while the clock is not set, no two tries, and no
\* loss and the try after it, are closer than MinDelay.
THEOREM Unhurried == Spec => NotTooFast
<1>1. Steady /\ [Next]_vars => [Try /\ jumps = 0 => waited >= MinDelay]_vars
  <2>. SUFFICES ASSUME Steady, Try, jumps = 0 PROVE waited >= MinDelay  OBVIOUS
  <2>1. remaining <= 0
    BY DEF Try, OpenFails, Handshake, NotReady, GetsReady, HandshakeFails, Due
  <2>. QED  BY <2>1, ReconnectAssumption DEF Steady, TypeOK
<1>. QED  BY <1>1, SteadyInvariant, PTL DEF Spec, NotTooFast

\* "expoential backoff": only READY makes the backoff fall, and while the
\* clock is not set every try comes when the whole of it has passed.
THEOREM WaitsOutTheBackoff == Spec => BacksOff
<1>1. Steady /\ [Next]_vars =>
          [/\ current' < current => state' = "Connected"
           /\ Try /\ jumps = 0 => waited >= current]_vars
  <2>. SUFFICES ASSUME Steady, Next
                PROVE  /\ current' < current => state' = "Connected"
                       /\ Try /\ jumps = 0 => waited >= current
    OBVIOUS
  <2>1. current' < current => state' = "Connected"
    <3>1. CASE Try \/ Lost  BY <3>1, SetsNextConnect DEF Steady
    <3>2. CASE TimePasses \/ ClockIsSet
      <4>1. current \in Int  BY ReconnectAssumption DEF Steady, TypeOK
      <4>2. current' = current  BY <3>2 DEF TimePasses, ClockIsSet
      <4>. QED  BY <4>1, <4>2
    <3>. QED  BY <3>1, <3>2 DEF Next
  <2>2. ASSUME Try, jumps = 0 PROVE waited >= current
    <3>1. remaining <= 0 /\ state # "Connected"
      BY <2>2 DEF Try, OpenFails, Handshake, NotReady, GetsReady, HandshakeFails, Due
    <3>2. remaining + waited = current  BY <2>2, <3>1 DEF Steady
    <3>. QED  BY <3>1, <3>2 DEF Steady, TypeOK
  <2>. QED  BY <2>1, <2>2
<1>. QED  BY <1>1, SteadyInvariant, PTL DEF Spec, BacksOff
=============================================================================
