----------------------------- MODULE PipeSearch -----------------------------
(***************************************************************************)
(* BaseConnection::Open (connection_unix.cpp, connection_win.cpp): the     *)
(* Discord client listens on one of several names, which are tried in      *)
(* order, while clients come and go.                                       *)
(***************************************************************************)
EXTENDS Integers

CONSTANTS LastName,  \* the names are 0 .. LastName; 9 in the code
          Nowhere    \* nobody is searching

Names == 0 .. LastName

\* What connect or CreateFileW meets; the socket tells only "listens" from
\* the others.
Answers == {"listens", "absent", "busy", "refuses"}

VARIABLES name,     \* the name that is tried next
          clients,  \* what there is at each name, while somebody searches
          steady    \* where somebody has listened since the search began

vars == <<name, clients, steady>>

Quiet == [n \in Names |-> "absent"]
Listening(c) == {n \in Names : c[n] = "listens"}

TypeOK ==
    /\ name \in Names \cup {Nowhere}
    /\ clients \in [Names -> Answers]
    /\ steady \subseteq Listening(clients)

Init == name = Nowhere /\ clients = Quiet /\ steady = {}

Begin ==
    /\ name = Nowhere
    /\ name' = 0
    /\ clients' \in [Names -> Answers]
    /\ steady' = Listening(clients')

Over == name' = Nowhere /\ clients' = Quiet /\ steady' = {}

Found == name # Nowhere /\ clients[name] = "listens" /\ Over

\* The socket goes on after any error, CreateFileW only when there is no
\* such file.
Passes(transport) ==
    /\ name # Nowhere
    /\ clients[name] \in
           IF transport = "unix" THEN Answers \ {"listens"} ELSE {"absent"}

Skip_TwoAtATime(transport) ==
    /\ Passes(transport) /\ name < LastName
    /\ name' = IF name + 2 > LastName THEN LastName ELSE name + 2
    /\ UNCHANGED <<clients, steady>>
Skip_Stays(transport) ==
    /\ Passes(transport) /\ name < LastName
    /\ UNCHANGED <<name, clients, steady>>
Skip(transport) ==
    /\ Passes(transport) /\ name < LastName
    /\ name' = name + 1
    /\ UNCHANGED <<clients, steady>>

GiveUp(transport) ==
    /\ \/ Passes(transport) /\ name = LastName
       \/ transport = "windows" /\ name # Nowhere /\ clients[name] = "refuses"
    /\ Over

\* WaitNamedPipeW fails after ten seconds.  When it succeeds the same name is
\* tried again, which may be busy again.
TimesOut(transport) ==
    /\ transport = "windows" /\ name # Nowhere /\ clients[name] = "busy"
    /\ Over

ClientChanges ==
    /\ name # Nowhere
    /\ \E n \in Names, a \in Answers :
           clients[n] # a /\ clients' = [clients EXCEPT ![n] = a]
    /\ steady' = steady \cap Listening(clients')
    /\ UNCHANGED name
=============================================================================
