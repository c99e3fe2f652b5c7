------------------------------ MODULE MCTexts ------------------------------
(* A user for TLC: name, discriminator and avatar; and presences in which    *)
(* one section varies and the others are blank.                              *)
EXTENDS Mailbox, Commands

MCFields == << "username", "discriminator", "avatar" >>
MCMessages ==
    {[username |-> u, discriminator |-> d, avatar |-> a] :
        u \in {<< 97, 98, 97 >>, << 98 >>, Null}, d \in {<< 48 >>, Null},
        a \in {<< 97, 97 >>, Null}}

Blank == [state |-> Null, details |-> Null, startTimestamp |-> 0, endTimestamp |-> 0,
          largeImageKey |-> Null, largeImageText |-> Null, smallImageKey |-> Null,
          smallImageText |-> Null, partyId |-> Null, partySize |-> 0, partyMax |-> 0,
          partyPrivacy |-> 0, matchSecret |-> Null, joinSecret |-> Null,
          spectateSecret |-> Null, instance |-> 0]
Texts == {Null, << >>, << 97 >>}
MCPresences ==
    {[Blank EXCEPT !.state = s, !.details = d, !.startTimestamp = b, !.endTimestamp = e,
                   !.instance = i] :
        s \in Texts, d \in Texts, b \in 0 .. 1, e \in 0 .. 1, i \in 0 .. 1}
    \cup {[Blank EXCEPT !.largeImageKey = a, !.largeImageText = b,
                        !.smallImageKey = c, !.smallImageText = d] :
        a \in Texts, b \in Texts, c \in Texts, d \in Texts}
    \cup {[Blank EXCEPT !.partyId = p, !.partySize = s, !.partyMax = m, !.partyPrivacy = v] :
        p \in Texts, s \in 0 .. 1, m \in 0 .. 2, v \in 0 .. 1}
    \cup {[Blank EXCEPT !.matchSecret = a, !.joinSecret = b, !.spectateSecret = c] :
        a \in Texts, b \in Texts, c \in Texts}

-----------------------------------------------------------------------------
(* Messages that are read, messages that are written and the allocator have  *)
(* nothing in common but this run, so at most one of them is not at rest.    *)

MCInit == Init /\ Silent /\ Fresh
MCNext ==
    \/ Init /\ Fresh /\ Writing /\ UNCHANGED <<vars, allocating>>
    \/ Init /\ Silent /\ Allocating /\ UNCHANGED <<vars, writing>>
    \/ Silent /\ Fresh /\ Next /\ UNCHANGED <<writing, allocating>>

MCSpec ==
    /\ MCInit /\ [][MCNext]_<<vars, writing, allocating>>
    /\ WF_vars(Copies) /\ WF_vars(Reading)
=============================================================================
