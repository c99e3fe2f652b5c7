------------------------------ MODULE MsgQueue ------------------------------
(***************************************************************************)
(* The ring behind MsgQueue<ElementType, QueueSize> (msg_queue.h): an      *)
(* array of slots and three atomic unsigned counters.  One operator per    *)
(* atomic access of the class; the threads that call it interleave them    *)
(* (module QueueUse, module DiscordRpc).                                   *)
(*                                                                         *)
(* The counters are unsigned and wrap at CounterRange (2^32 in the build). *)
(* A slot that has never been filled, or that a producer is still filling, *)
(* reads as Junk.                                                          *)
(***************************************************************************)
EXTENDS Integers

CONSTANTS QueueSize, CounterRange, Junk

\* QueueSize is 8 for both queues, CounterRange 2^32: the ring index
\* survives the wrap of the counters because the one divides the other.
ASSUME QueueAssumption ==
    /\ QueueSize \in Nat \ {0}
    /\ CounterRange \in Nat \ {0}
    /\ CounterRange > QueueSize
    /\ CounterRange % QueueSize = 0

Counter == 0 .. (CounterRange - 1)
Slot == 0 .. (QueueSize - 1)

RingOf(S) == [slots : [Slot -> S], nextAdd : Counter, nextSend : Counter,
              pendingSends : Counter]

EmptyRing == [slots |-> [i \in Slot |-> Junk],
              nextAdd |-> 0, nextSend |-> 0, pendingSends |-> 0]

Inc(n) == (n + 1) % CounterRange
Dec(n) == (n - 1) % CounterRange

\* GetNextAddMessage, first access: "if we are falling behind, bail".
HasRoom_OffByOne(r) == r.pendingSends <= QueueSize
HasRoom(r) == r.pendingSends < QueueSize

\* GetNextAddMessage, second access: the slot handed out is the old value of
\* the counter modulo the size of the array.
Reserve_NoWrap(r) == [r EXCEPT !.nextAdd = @ + 1]
AddIndex(r) == r.nextAdd % QueueSize
Reserve(r) == [r EXCEPT !.nextAdd = Inc(@)]

\* The caller writes through the pointer it was given.
Store(r, i, v) == [r EXCEPT !.slots[i] = v]

CommitAdd(r) == [r EXCEPT !.pendingSends = Inc(@)]

HavePendingSends_OffByOne(r) == r.pendingSends > 1
HavePendingSends(r) == r.pendingSends # 0

\* GetNextSendMessage.
SendIndex(r) == r.nextSend % QueueSize
Take(r) == [r EXCEPT !.nextSend = Inc(@)]

CommitSend(r) == [r EXCEPT !.pendingSends = Dec(@)]
=============================================================================
