-------------------------------- MODULE Service --------------------------------
(***************************************************************************)
(* What the pool promises to those who connect, whatever its threads do:    *)
(* every connection that is accepted is answered or closed, once, and does  *)
(* not wait for ever.  It is closed when its worker panics, or when no      *)
(* worker is left.                                                          *)
(***************************************************************************)
EXTENDS FiniteSets

CONSTANT Incoming    \* the connections clients can make

VARIABLES
    accepted,   \* the connections main has accepted
    answered,   \* those that were handled
    closed      \* those that were dropped

service == <<accepted, answered, closed>>

Waiting == accepted \ (answered \cup closed)

Init ==
    /\ accepted = {}
    /\ answered = {}
    /\ closed = {}

(* Without a worker a connection is closed as soon as it is accepted. *)
Accept(c) ==
    /\ c \notin accepted
    /\ accepted' = accepted \cup {c}
    /\ closed' \in {closed, closed \cup {c}}
    /\ UNCHANGED answered

Answer(c) ==
    /\ c \in Waiting
    /\ answered' = answered \cup {c}
    /\ UNCHANGED <<accepted, closed>>

(* A panic closes the worker's connection, the last one those in the channel. *)
Close(cs) ==
    /\ cs # {}
    /\ cs \subseteq Waiting
    /\ closed' = closed \cup cs
    /\ UNCHANGED <<accepted, answered>>

Next ==
    \/ \E c \in Incoming : Accept(c) \/ Answer(c)
    \/ \E cs \in SUBSET Incoming : Close(cs)

(* No connection waits for ever. *)
Served(c) ==
    \/ Answer(c)
    \/ \E cs \in SUBSET Incoming : c \in cs /\ Close(cs)

Spec == Init /\ [][Next]_service /\ \A c \in Incoming : WF_service(Served(c))
===============================================================================
