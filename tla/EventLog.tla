------------------------------- MODULE EventLog -------------------------------
(***************************************************************************)
(* What the events of a session promise to a client, without tables,       *)
(* numbers, cursors or connections: there is one log, to which events are  *)
(* added, and a client never loses an event it has been shown.  Until an   *)
(* awkward schedule upsets the numbering, a client has a prefix of the     *)
(* log; after that it may miss events until it is shown the whole log.     *)
(***************************************************************************)
EXTENDS Naturals

CONSTANT Clients

VARIABLES
    log,    \* how many events there are; they are 1..log
    view,   \* client -> the events it has
    smooth  \* nothing has upset the numbering yet

vars == <<log, view, smooth>>

Init ==
    /\ log = 0
    /\ view = [c \in Clients |-> {}]
    /\ smooth = TRUE

Upset ==
    /\ smooth' = FALSE
    /\ UNCHANGED <<log, view>>

\* An event, that may upset what is shown after it.
Add ==
    /\ log' = log + 1
    /\ smooth' = smooth \/ smooth' = FALSE
    /\ UNCHANGED view

\* A longer prefix.
Show(c) ==
    /\ \E n \in 0..log : view[c] \subseteq 1..n /\ view' = [view EXCEPT ![c] = 1..n]
    /\ UNCHANGED <<log, smooth>>

\* Some more events, with others left out.
Skip(c) ==
    /\ ~ smooth
    /\ \E S \in SUBSET (1..log) : view' = [view EXCEPT ![c] = @ \cup S]
    /\ UNCHANGED <<log, smooth>>

Next ==
    \/ Upset \/ Add
    \/ \E c \in Clients : Show(c) \/ Skip(c)

Spec == Init /\ [][Next]_vars
=============================================================================
