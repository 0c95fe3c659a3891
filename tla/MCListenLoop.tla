---------------------------- MODULE MCListenLoop ----------------------------
(***************************************************************************)
(* ListenLoop with interchangeable heap blocks, and with a user who only   *)
(* looks at the list.                                                      *)
(***************************************************************************)
EXTENDS ListenLoop, TLC

BlockSymmetry == Permutations(Block)

CONSTANT Leaver   \* the peer that may stop

ASSUME LeaverAssumption == Leaver \in Peer

\* A property of the list in the loop loses nothing without the cursor keys, which
\* change what is drawn and not the list, and without Enter, which leaves the loop;
\* nor when the other peers never stop, for a peer that broadcasts may not be
\* heard, and datagrams arrive just before select looks for them.
Idle == Recv \/ RecvFails \/ SelectTimeout \/ Clean \/ Draw \/ OtherKey

IdleNext ==
  \/ Idle
  \/ Tick
  \/ \E p \in Peer : \/ lpc = "select" /\ Broadcast(p)
                     \/ (p = Leaver \/ ~on[p]) /\ Switch(p)
  \/ Ended

IdleSpec ==
  /\ Init /\ [][IdleNext]_vars
  /\ WF_vars(Idle)
  /\ WF_vars(Recv \/ SelectTimeout)
  /\ WF_vars(Tick)
=============================================================================
