------------------------------ MODULE QueueUse ------------------------------
(***************************************************************************)
(* The protocol in which discord_rpc.cpp drives its two queues:            *)
(*                                                                         *)
(*   SendQueue     produced by RegisterForEvent, DeregisterForEvent and    *)
(*                 Discord_Respond, consumed by Discord_UpdateConnection   *)
(*   JoinAskQueue  produced by Discord_UpdateConnection, consumed by       *)
(*                 Discord_RunCallbacks                                    *)
(*                                                                         *)
(* A producer asks for room, reserves a slot, fills it and commits; the    *)
(* consumer sees a pending message, takes its slot, uses it and commits.   *)
(* Every one of these is a step of its own, so that any of them may fall   *)
(* between any two of the other threads'.                                  *)
(*                                                                         *)
(* Producers is the set of producing threads: one for JoinAskQueue, two    *)
(* for SendQueue (the IO thread through onConnect, the game thread through *)
(* the API).  A thread in Droppers may reserve a slot and then not fill    *)
(* it, as the ACTIVITY_JOIN_REQUEST branch does for a request without a    *)
(* user id or a user name.                                                 *)
(***************************************************************************)
EXTENDS MsgQueue, Sequences

CONSTANTS Producers, Droppers, Items

ASSUME UseAssumption ==
    /\ Producers # {}
    /\ Droppers \subseteq Producers
    /\ Junk \notin Items

VARIABLES
    ring,   \* the queue object
    add,    \* for each producer, where it is and the slot it holds
    send    \* where the consumer is, its slot and the item it read last

vars == <<ring, add, send>>

NoIndex == QueueSize  \* no slot reserved

AddState == [pc : {"idle", "room", "reserved", "filling", "filled"},
             index : Slot \cup {NoIndex}, item : Items \cup {Junk}]
SendState == [pc : {"idle", "pending", "taken", "used"},
              index : Slot \cup {NoIndex}, item : Items \cup {Junk}]

TypeOK ==
    /\ ring \in RingOf(Items \cup {Junk})
    /\ add \in [Producers -> AddState]
    /\ send \in SendState

Init ==
    /\ ring = EmptyRing
    /\ add = [p \in Producers |-> [pc |-> "idle", index |-> NoIndex, item |-> Junk]]
    /\ send = [pc |-> "idle", index |-> NoIndex, item |-> Junk]

-----------------------------------------------------------------------------
(* The producer. *)

AtAdd(p, pc) == add[p].pc = pc
AddGoes(p, pc) == add' = [add EXCEPT ![p].pc = pc]

\* pendingSends_.load() < QueueSize; a full queue answers nullptr and the
\* caller gives up.
CheckRoom(p) ==
    /\ AtAdd(p, "idle")
    /\ HasRoom(ring)
    /\ AddGoes(p, "room")
    /\ UNCHANGED <<ring, send>>

ReserveSlot(p) ==
    /\ AtAdd(p, "room")
    /\ add' = [add EXCEPT ![p].pc = "reserved", ![p].index = AddIndex(ring)]
    /\ ring' = Reserve(ring)
    /\ UNCHANGED send

\* Writing the message takes time: the slot holds half a message meanwhile.
BeginFill(p, m) ==
    /\ AtAdd(p, "reserved")
    /\ add' = [add EXCEPT ![p].pc = "filling", ![p].item = m]
    /\ ring' = Store(ring, add[p].index, Junk)
    /\ UNCHANGED send

EndFill(p) ==
    /\ AtAdd(p, "filling")
    /\ AddGoes(p, "filled")
    /\ ring' = Store(ring, add[p].index, add[p].item)
    /\ UNCHANGED send

\* ACTIVITY_JOIN_REQUEST: the slot was reserved before the fields of the
\* request were looked at; if one is missing the branch just ends.
DropRequest(p) ==
    /\ p \in Droppers
    /\ AtAdd(p, "reserved")
    /\ AddGoes(p, "idle")
    /\ UNCHANGED <<ring, send>>

Commit_Early(p) ==
    /\ AtAdd(p, "filling") \/ AtAdd(p, "filled")
    /\ AddGoes(p, "idle")
    /\ ring' = CommitAdd(ring)
    /\ UNCHANGED send
Commit(p) ==
    /\ AtAdd(p, "filled")
    /\ AddGoes(p, "idle")
    /\ ring' = CommitAdd(ring)
    /\ UNCHANGED send

-----------------------------------------------------------------------------
(* The consumer. *)

SeePending ==
    /\ send.pc = "idle"
    /\ HavePendingSends(ring)
    /\ send' = [send EXCEPT !.pc = "pending"]
    /\ UNCHANGED <<ring, add>>

TakeSlot ==
    /\ send.pc = "pending"
    /\ send' = [send EXCEPT !.pc = "taken", !.index = SendIndex(ring)]
    /\ ring' = Take(ring)
    /\ UNCHANGED add

\* Connection->Write(qmessage->buffer, ...), or the joinRequest callback.
UseSlot ==
    /\ send.pc = "taken"
    /\ send' = [send EXCEPT !.pc = "used", !.item = ring.slots[send.index]]
    /\ UNCHANGED <<ring, add>>

Release ==
    /\ send.pc = "used"
    /\ send' = [send EXCEPT !.pc = "idle"]
    /\ ring' = CommitSend(ring)
    /\ UNCHANGED add

-----------------------------------------------------------------------------
Produce(p) ==
    \/ CheckRoom(p) \/ ReserveSlot(p) \/ EndFill(p) \/ DropRequest(p) \/ Commit(p)
    \/ \E m \in Items : BeginFill(p, m)

Consume == SeePending \/ TakeSlot \/ UseSlot \/ Release

Next == Consume \/ \E p \in Producers : Produce(p)

Spec == Init /\ [][Next]_vars

\* Discord_UpdateConnection and Discord_RunCallbacks drain the queue in a
\* loop, and the loops are called again and again.
FairSpec == Spec /\ WF_vars(Consume)

-----------------------------------------------------------------------------
(* Properties. *)

Holds(p) == add[p].pc \in {"reserved", "filling", "filled"}
Using == send.pc \in {"taken", "used"}

\* While the consumer uses a slot, from GetNextSendMessage to CommitSend, no
\* producer is given the same slot: the message that is being written to the
\* pipe, or shown to the player, cannot change under the reader.
NoOverwriteInUse ==
    \A p \in Producers : Using /\ Holds(p) => add[p].index # send.index

\* The committed messages that the consumer has not read yet, oldest first.
Unread == ring.pendingSends - (IF send.pc = "used" THEN 1 ELSE 0)
Oldest == ring.nextSend - (IF send.pc = "taken" THEN 1 ELSE 0)
Contents == [k \in 1 .. Unread |-> ring.slots[(Oldest + k - 1) % QueueSize]]

Abstract == INSTANCE BoundedQueue
    WITH Capacity <- QueueSize, contents <- Contents, taken <- send.item

\* "A simple queue" (msg_queue.h): what the consumer reads is what the
\* producer committed, complete, in order and once.
IsQueue == Abstract!Spec

\* The slot in which the oldest unread message is due is read in the end,
\* whatever the producers do meanwhile.  While no reservation is dropped
\* (IsQueue) that slot holds the message, so every committed message is read.
\* After a dropped reservation it does not: the slot that was abandoned is
\* read in its place.
CommittedIsRead ==
    \A s \in Slot : (Unread > 0 /\ Oldest % QueueSize = s)
                        ~> (send.pc = "used" /\ send.index = s)

\* No more messages are counted than the array has slots, also while requests
\* are dropped: the room check and the commit are far apart, and what may
\* happen between them must not let the count pass QueueSize.
NeverOverfull == ring.pendingSends <= QueueSize
=============================================================================
