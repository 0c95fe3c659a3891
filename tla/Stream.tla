------------------------------- MODULE Stream -------------------------------
(***************************************************************************)
(* What the two ends of a transfer share: the files and folders below the  *)
(* path the sending user typed, and the bytes that describe them on the    *)
(* TCP connection.                                                         *)
(*                                                                         *)
(* A file or folder is a node; its relative path is abstracted to the node *)
(* itself, a path being told apart from another one and nothing more.  A   *)
(* byte of the stream is a cell: which field it belongs to, of which node, *)
(* and its index in that field.                                            *)
(***************************************************************************)
EXTENDS Integers, Sequences, FiniteSets

CONSTANTS
  Node,      \* the files and folders that readdir reaches from the chosen path
  Folder,    \* the nodes that stat reports as directories
  Root,      \* the chosen path itself
  Parent,    \* the folder that holds each node, the root excepted
  PathLen,   \* bytes of a node's path once the first abs_len are dropped
  MaxSize,   \* bound on the size of a file
  METADATA,  \* bytes of a header: is_file, size, length of the path
  Twos       \* the files whose content is made of bytes equal to 2

VARIABLES
  wire,      \* every byte the sender handed to the connection so far
  conn       \* "open", "fin" after an orderly close, "rst" after a reset

File == Node \ Folder

ASSUME TreeAssumption ==
  /\ Root \in Node
  /\ Folder \subseteq Node
  /\ Parent \in [Node \ {Root} -> Folder]
  /\ \A S \in SUBSET Node :   \* readdir reaches nothing else from Root
       /\ Root \in S
       /\ \A n \in Node \ {Root} : Parent[n] \in S => n \in S
       => S = Node
  /\ PathLen \in [Node -> Nat \ {0}]
  /\ MaxSize \in Nat
  /\ METADATA \in Nat \ {0}
  /\ Twos \subseteq File

Children(d) == {n \in Node \ {Root} : Parent[n] = d}

(***************************************************************************)
(* The bytes of the stream.  NUL is what the global buffer holds before    *)
(* anything was received into it.                                          *)
(***************************************************************************)
MetaByte(n, size, j) == <<"meta", n, j, size>>
PathByte(n, j) == <<"path", n, j>>
DataByte(n, j) == <<"data", n, j>>
Stop == <<"stop">>
NUL == <<"nul">>

MetaCell ==
  {MetaByte(n, s, j) : n \in Node, s \in 0..MaxSize, j \in 0..METADATA-1}
PathCell == UNION {{PathByte(n, j) : j \in 0..PathLen[n]-1} : n \in Node}
DataCell == {DataByte(n, j) : n \in File, j \in 0..MaxSize-1}

Cell == MetaCell \cup PathCell \cup DataCell \cup {Stop}

\* What send_metadata puts in the buffer and sends in one call.
Header(n, size) == [i \in 1..METADATA |-> MetaByte(n, size, i-1)]
PathOf(n) == [i \in 1..PathLen[n] |-> PathByte(n, i-1)]

\* Bytes from, ..., from+k-1 of a file, as one sendfile call copies them.
Chunk(n, from, k) == [i \in 1..k |-> DataByte(n, from+i-1)]

AtMost(a, b) == IF a < b THEN a ELSE b
=============================================================================
