---------------------------- MODULE MCConnection ----------------------------
(* The two platforms for TLC: frames that arrive whole on a socket, and in   *)
(* pieces on a Windows pipe.                                                 *)
EXTENDS RpcConnection

MCKinds == {[transport |-> "unix", whole |-> TRUE],
            [transport |-> "windows", whole |-> FALSE]}
=============================================================================
