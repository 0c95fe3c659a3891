---------------------------- MODULE FileDelivery ----------------------------
(***************************************************************************)
(* What a transfer promises, seen from the receiving user's folder and     *)
(* without a connection: the tree appears there from the root down, files  *)
(* are filled one at a time and in order of their bytes, nothing is made   *)
(* twice, and the transfer is over when the copy is complete.              *)
(***************************************************************************)
EXTENDS Integers

CONSTANTS Node, Folder, Root, Parent

VARIABLES
  size,    \* the size of each file to copy, fixed before anything is made
  copied,  \* the nodes that exist in the receiving folder
  count,   \* how many bytes of each file are there
  over     \* whether the receiver reported the end

deliveryVars == <<size, copied, count, over>>

File == Node \ Folder

Filled(n) == count[n] = size[n]

Init ==
  /\ size \in [File -> Nat]
  /\ copied = {}
  /\ count = [n \in File |-> 0]
  /\ over = FALSE

\* A new node, under a folder that exists, once every file begun is complete.
Make(n) ==
  /\ ~over
  /\ n \notin copied
  /\ n = Root \/ Parent[n] \in copied
  /\ \A m \in copied \cap File : Filled(m)
  /\ copied' = copied \cup {n}
  /\ UNCHANGED <<size, count, over>>

\* The next k bytes of the file begun last.
Fill(n, k) ==
  /\ ~over
  /\ n \in copied
  /\ count[n] + k <= size[n]
  /\ count' = [count EXCEPT ![n] = @ + k]
  /\ UNCHANGED <<size, copied, over>>

Finish ==
  /\ ~over
  /\ copied = Node
  /\ \A n \in File : Filled(n)
  /\ over' = TRUE
  /\ UNCHANGED <<size, copied, count>>

Next ==
  \/ \E n \in Node : Make(n)
  \/ \E n \in File : \E k \in 1..size[n] : Fill(n, k)
  \/ Finish

Spec == Init /\ [][Next]_deliveryVars
=============================================================================
