------------------------------ MODULE MCQueue ------------------------------
(* The two queues of discord_rpc.cpp for TLC, each with one producer: of     *)
(* SendQueue the messages are always filled, into JoinAskQueue requests may  *)
(* be dropped.  They share nothing, so at most one of them is not at rest.   *)
EXTENDS QueueUse

VARIABLES askRing, askAdd, askSend

asking == <<askRing, askAdd, askSend>>

JoinAsk == INSTANCE QueueUse
    WITH Droppers <- Producers, ring <- askRing, add <- askAdd, send <- askSend

MCInit == Init /\ JoinAsk!Init
MCNext ==
    \/ JoinAsk!Init /\ Next /\ UNCHANGED asking
    \/ Init /\ JoinAsk!Next /\ UNCHANGED vars

MCSpec == MCInit /\ [][MCNext]_<<vars, asking>> /\ WF_vars(Consume)

\* NeverOverfull of JoinAskQueue: however many requests are dropped between
\* GetNextAddMessage and CommitAdd, no more are counted than there are slots.
RequestsFit == JoinAsk!NeverOverfull
=============================================================================
