----------------------------- MODULE PeerTable -----------------------------
(***************************************************************************)
(* What a list of peers promises, without its order, its entries and their *)
(* memory: a table of who was heard and how long ago.  Each datagram makes *)
(* its sender as good as new, or lists it as long as there is room, who is *)
(* silent for too long is dropped, and the user picks somebody listed.     *)
(***************************************************************************)
EXTENDS Integers, Sequences, FiniteSets

CONSTANTS Peer, MAX_PEERS, TIMEOUT, AgeCap, NoPeer

VARIABLES
  inbox,   \* who sent the datagrams that were not read yet
  age,     \* seconds since each peer was heard, counted to AgeCap; see Unheard
  picked   \* the peer the user picked

tableVars == <<inbox, age, picked>>

Unheard == -1

Known == {p \in Peer : age[p] # Unheard}

Room == Cardinality(Known) < MAX_PEERS

Init ==
  /\ inbox = <<>>
  /\ age = [p \in Peer |-> Unheard]
  /\ picked = NoPeer

Arrive(p) ==
  /\ inbox' = Append(inbox, p)
  /\ UNCHANGED <<age, picked>>

\* A datagram that waited may be lost all the same.
Lose ==
  /\ inbox # <<>>
  /\ inbox' = Tail(inbox)
  /\ UNCHANGED <<age, picked>>

\* A peer the table knows needs no room.
Hear(p) ==
  /\ picked = NoPeer
  /\ inbox # <<>> /\ p = Head(inbox)
  /\ p \in Known \/ Room
  /\ inbox' = Tail(inbox)
  /\ age' = [age EXCEPT ![p] = 0]
  /\ UNCHANGED picked

Ignore(p) ==
  /\ picked = NoPeer
  /\ inbox # <<>> /\ p = Head(inbox)
  /\ p \notin Known /\ ~Room
  /\ inbox' = Tail(inbox)
  /\ UNCHANGED <<age, picked>>

Drop(p) ==
  /\ picked = NoPeer
  /\ age[p] > TIMEOUT
  /\ age' = [age EXCEPT ![p] = Unheard]
  /\ UNCHANGED <<inbox, picked>>

Second ==
  /\ picked = NoPeer
  /\ age' = [p \in Peer |-> IF age[p] \in {Unheard, AgeCap} THEN age[p] ELSE age[p] + 1]
  /\ UNCHANGED <<inbox, picked>>

Pick(p) ==
  /\ picked = NoPeer
  /\ p \in Known
  /\ picked' = p
  /\ UNCHANGED <<inbox, age>>

\* The peer that was picked accepted: the table is not needed any more.
Forget ==
  /\ picked # NoPeer
  /\ age' = [p \in Peer |-> Unheard]
  /\ UNCHANGED <<inbox, picked>>

Next ==
  \/ \E p \in Peer : Arrive(p) \/ Hear(p) \/ Ignore(p) \/ Drop(p) \/ Pick(p)
  \/ Lose
  \/ Second
  \/ Forget

Spec == Init /\ [][Next]_tableVars
=============================================================================
