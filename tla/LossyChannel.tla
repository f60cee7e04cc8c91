----------------------------- MODULE LossyChannel -----------------------------
(***************************************************************************)
(* What Tunnel promises its callers: a message handed to Send arrives at   *)
(* most once or is given up; it is refused only while Capacity others      *)
(* wait.  Messages are numbered in the order in which they are handed      *)
(* over.                                                                   *)
(***************************************************************************)
EXTENDS Naturals, FiniteSets

CONSTANT Capacity

VARIABLES
    handed,     \* how many messages were handed over
    waiting,    \* messages on their way
    arrived,    \* messages the server has read
    gone        \* messages given up

channel == <<handed, waiting, arrived, gone>>

Init == handed = 0 /\ waiting = {} /\ arrived = {} /\ gone = {}

Accept ==
    /\ handed' = handed + 1
    /\ waiting' = waiting \cup {handed + 1}
    /\ UNCHANGED <<arrived, gone>>

Refuse ==
    /\ Cardinality(waiting) >= Capacity
    /\ handed' = handed + 1
    /\ gone' = gone \cup {handed + 1}
    /\ UNCHANGED <<waiting, arrived>>

Arrive(m) ==
    /\ m \in waiting
    /\ waiting' = waiting \ {m} /\ arrived' = arrived \cup {m}
    /\ UNCHANGED <<handed, gone>>

GiveUp(S) ==
    /\ S \subseteq waiting
    /\ waiting' = waiting \ S /\ gone' = gone \cup S
    /\ UNCHANGED <<handed, arrived>>

Next ==
    \/ Accept \/ Refuse
    \/ \E m \in waiting : Arrive(m)
    \/ \E S \in SUBSET waiting : GiveUp(S)

Spec == Init /\ [][Next]_channel
=============================================================================
