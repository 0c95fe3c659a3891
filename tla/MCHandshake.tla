---------------------------- MODULE MCHandshake ----------------------------
(***************************************************************************)
(* Handshake with host names of different lengths.                         *)
(***************************************************************************)
EXTENDS Handshake

CONSTANTS l1, l2, l3

Two == {l1, l2}
Three == {l1, l2, l3}
Names == [l \in Three |-> IF l = l1 THEN 3 ELSE 2]

Calm == [who |-> Three, short |-> FALSE, killed |-> {}]
Rough == [who |-> Two, short |-> TRUE, killed |-> {"broadcaster", "listener"}]

CalmOrRough == {Calm, Rough}
BroadcasterKilled == {[Calm EXCEPT !.who = Two, !.killed = {"broadcaster"}]}
ListenerKilled == {[Calm EXCEPT !.who = Two, !.killed = {"listener"}]}
=============================================================================
