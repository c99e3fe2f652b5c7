---------------------------- MODULE BoundedQueue ----------------------------
(***************************************************************************)
(* What a queue between two threads promises: items come out in the order  *)
(* in which they were put in, each exactly once, and at most Capacity of   *)
(* them are waiting at any time.  A put that finds the queue full does     *)
(* nothing (the caller is told), so it is no step here.                    *)
(***************************************************************************)
EXTENDS Naturals, Sequences

CONSTANTS Capacity, Items

VARIABLES contents,  \* the items waiting, oldest first
          taken      \* the item the consumer took last

Init == contents = << >>

Put(m) ==
    /\ Len(contents) < Capacity
    /\ contents' = Append(contents, m)
    /\ UNCHANGED taken

Get ==
    /\ contents # << >>
    /\ taken' = Head(contents)
    /\ contents' = Tail(contents)

Next == Get \/ \E m \in Items : Put(m)

Spec == Init /\ [][Next]_<<contents, taken>>
=============================================================================
