----------------------------- MODULE MCTransfer -----------------------------
(***************************************************************************)
(* A small tree for Transfer: the chosen folder `top' with a file `fa' and *)
(* a folder `sub' that holds another file, `fb', whose path is longer.     *)
(***************************************************************************)
EXTENDS Transfer

CONSTANTS top, sub, fa, fb

TreeNodes == {top, sub, fa, fb}
TreeFolders == {top, sub}
TreeParent == [n \in {sub, fa, fb} |-> IF n = fb THEN sub ELSE top]
TreePathLen == [n \in TreeNodes |-> IF n = fb THEN 2 ELSE 1]
=============================================================================
