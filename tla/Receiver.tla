------------------------------ MODULE Receiver ------------------------------
(***************************************************************************)
(* The receiving half of a transfer: receive_folder, receive_metadata and  *)
(* receive_file, over the bytes the sender put in `wire'.                  *)
(*                                                                         *)
(* recv returns any positive number of the bytes asked for and available,  *)
(* 0 once the sender closed and everything was read, -1 once after a reset *)
(* and 0 from then on.  The buffer is global and never cleared: what a     *)
(* failed recv leaves in it is what the code then parses, so its first     *)
(* BufSize bytes are kept.                                                 *)
(***************************************************************************)
EXTENDS Stream

CONSTANTS
  BufSize,   \* BUF_SIZE: bytes asked of one recv of file content, at most
  Base,      \* the empty path: the folder the receiving user typed
  Junk       \* a path that is no node's

ASSUME ReceiverAssumption ==
  /\ BufSize \in Nat
  /\ METADATA <= BufSize
  /\ \A n \in Node : PathLen[n] <= BufSize
  /\ Base \notin Node /\ Junk \notin Node /\ Base # Junk

VARIABLES
  rd,       \* how many bytes of wire were received
  rpc,      \* where the receiver is: see ReceiverStates
  read,     \* bytes of the current header or path received so far
  buf,      \* the global buffer
  hdr,      \* the header parsed last
  path,     \* the path received last
  tot,      \* tot_bytes of the current file
  made,     \* the files and folders created so far
  content   \* the bytes written to each file

receiverVars == <<rd, rpc, read, buf, hdr, path, tot, made, content>>

ReceiverStates == {"meta", "path", "item", "data", "done", "crashed"}

\* is_file is 0 for a folder, 1 for a file, 2 for the end; 3 is any other byte.
HeaderRecord == [is_file : 0..3, size : 0..MaxSize, len : 0..BufSize]

ReceiverTypeOK ==
  /\ rd \in 0..Len(wire)
  /\ rpc \in ReceiverStates
  /\ read \in -1..BufSize
  /\ buf \in [0..BufSize-1 -> Cell \cup {NUL}]
  /\ hdr \in HeaderRecord
  /\ path \in Node \cup {Base, Junk}
  /\ tot \in -1..MaxSize
  /\ made \subseteq Node
  /\ content \in [File -> Seq(Cell)]

ReceiverInit ==
  /\ rd = 0
  /\ rpc = "meta"
  /\ read = 0
  /\ buf = [i \in 0..BufSize-1 |-> NUL]
  /\ hdr = [is_file |-> 0, size |-> 0, len |-> 0]
  /\ path = Base
  /\ tot = 0
  /\ made = {}
  /\ content = [n \in File |-> <<>>]

(***************************************************************************)
(* recv                                                                    *)
(***************************************************************************)
Available == Len(wire) - rd
AtEof == conn = "fin" /\ Available = 0   \* recv returns 0
AtReset == conn = "rst"                  \* recv returns -1

\* The buffer once k bytes were received at index `at'.
Stored(at, k) ==
  [i \in DOMAIN buf |-> IF i \in at..at+k-1 THEN wire[rd+1+i-at] ELSE buf[i]]

(***************************************************************************)
(* Parsing what the buffer holds.                                          *)
(***************************************************************************)
EqualsTwo(c) == c = Stop \/ (c[1] = "data" /\ c[2] \in Twos)

IsFileOf(c) ==
  CASE c = NUL -> 0
    [] c[1] = "meta" /\ c[3] = 0 -> IF c[2] \in File THEN 1 ELSE 0
    [] EqualsTwo(c) -> 2
    [] OTHER -> 3

\* Content whose bytes are not 2: one may be 1, or else 0 or another value, which
\* receive_folder does not tell apart.
MayBeOne(c) == c # NUL /\ c[1] = "data" /\ c[2] \notin Twos

\* The headers the first METADATA bytes may be read as: one when they are a
\* header the sender wrote or were never written, else any size and any length
\* that fits in the buffer: a longer one writes past it, which is left out.
HeadersIn(b) ==
  LET written == {w \in Node \X (0..MaxSize) :
                    \A j \in 0..METADATA-1 : b[j] = MetaByte(w[1], w[2], j)}
  IN  IF written # {}
        THEN {[is_file |-> IsFileOf(b[0]), size |-> w[2], len |-> PathLen[w[1]]]
                : w \in written}
        ELSE IF \A j \in 0..METADATA-1 : b[j] = NUL
          THEN {[is_file |-> 0, size |-> 0, len |-> 0]}
          ELSE {h \in HeaderRecord : \/ h.is_file = IsFileOf(b[0])
                                     \/ MayBeOne(b[0]) /\ h.is_file = 1}

\* The path the first len bytes spell.
PathIn(b, len) ==
  IF \E n \in Node : PathLen[n] = len /\ \A j \in 0..len-1 : b[j] = PathByte(n, j)
    THEN CHOOSE n \in Node :
           PathLen[n] = len /\ \A j \in 0..len-1 : b[j] = PathByte(n, j)
    ELSE Junk

(***************************************************************************)
(* receive_metadata                                                        *)
(***************************************************************************)

\* Mutant: the count of the header is not set back to 0 for the path.
HeaderParsedKeepsCount(b) ==
  \E h \in HeadersIn(b) :
    /\ hdr' = h
    /\ IF h.len = 0
         THEN rpc' = "item" /\ path' = Base /\ buf' = [b EXCEPT ![0] = NUL]
         ELSE rpc' = "path" /\ buf' = b /\ UNCHANGED path
    /\ UNCHANGED read

\* The end of the header loop: the path loop is next, empty for a length of 0,
\* after which the path is terminated in the buffer.
HeaderParsed(b) ==
  \E h \in HeadersIn(b) :
    /\ hdr' = h
    /\ read' = 0
    /\ IF h.len = 0
         THEN rpc' = "item" /\ path' = Base /\ buf' = [b EXCEPT ![0] = NUL]
         ELSE rpc' = "path" /\ buf' = b /\ UNCHANGED path

\* One recv of the header loop that returns bytes.
RecvMetadata ==
  /\ rpc = "meta"
  /\ \E k \in 1..AtMost(METADATA - read, Available) :
       /\ rd' = rd + k
       /\ LET b == Stored(read, k)
          IN  \/ /\ EqualsTwo(b[0])
                 /\ rpc' = "done"
                 /\ buf' = b
                 /\ UNCHANGED <<read, hdr, path>>
              \/ /\ ~EqualsTwo(b[0])
                 /\ read + k < METADATA
                 /\ read' = read + k
                 /\ buf' = b
                 /\ UNCHANGED <<rpc, hdr, path>>
              \/ /\ ~EqualsTwo(b[0])
                 /\ read + k = METADATA
                 /\ HeaderParsed(b)
  /\ UNCHANGED <<tot, made, content, wire, conn>>

\* recv returns 0: the error is printed and the old buffer is parsed.
MetadataEof ==
  /\ rpc = "meta"
  /\ AtEof
  /\ HeaderParsed(buf)
  /\ UNCHANGED <<rd, tot, made, content, wire, conn>>

\* recv returns -1: the same, unless the first byte in the buffer is 2.
MetadataError ==
  /\ rpc = "meta"
  /\ AtReset
  /\ conn' = "fin"
  /\ IF EqualsTwo(buf[0])
       THEN rpc' = "done" /\ UNCHANGED <<read, buf, hdr, path>>
       ELSE HeaderParsed(buf)
  /\ UNCHANGED <<rd, tot, made, content, wire>>

\* Mutant: each recv of the path asks for all of it again.
RecvPathWhole ==
  /\ rpc = "path"
  /\ \E k \in 1..AtMost(hdr.len, Available) :
       /\ rd' = rd + k
       /\ LET b == Stored(read, k)
          IN  IF read + k < hdr.len
                THEN buf' = b /\ read' = read + k /\ UNCHANGED <<rpc, path>>
                ELSE /\ path' = PathIn(b, hdr.len)
                     /\ buf' = b
                     /\ read' = 0
                     /\ rpc' = "item"
  /\ UNCHANGED <<hdr, tot, made, content, wire, conn>>

\* One recv of the path loop that returns bytes.
RecvPath ==
  /\ rpc = "path"
  /\ \E k \in 1..AtMost(hdr.len - read, Available) :
       /\ rd' = rd + k
       /\ LET b == Stored(read, k)
          IN  IF read + k < hdr.len
                THEN buf' = b /\ read' = read + k /\ UNCHANGED <<rpc, path>>
                ELSE /\ path' = PathIn(b, hdr.len)
                     /\ buf' = [i \in DOMAIN b |->
                                  IF i = hdr.len THEN NUL ELSE b[i]]
                     /\ read' = 0
                     /\ rpc' = "item"
  /\ UNCHANGED <<hdr, tot, made, content, wire, conn>>

\* recv returns 0 in the path loop: nothing changes, and the loop calls again.
PathEof ==
  /\ rpc = "path"
  /\ AtEof
  /\ UNCHANGED <<receiverVars, wire, conn>>

\* recv returns -1 in the path loop: the count goes down by one.
PathError ==
  /\ rpc = "path"
  /\ AtReset
  /\ conn' = "fin"
  /\ read' = read - 1
  /\ UNCHANGED <<rd, rpc, buf, hdr, path, tot, made, content, wire>>

(***************************************************************************)
(* receive_folder and receive_file                                         *)
(***************************************************************************)

\* The folder that is to hold the path exists below the typed one.
HasParent(p) == p = Root \/ (p \in Node \ {Root} /\ Parent[p] \in made)

\* A header whose first byte is 2 ends receive_folder.
EndOfFolder ==
  /\ rpc = "item"
  /\ hdr.is_file = 2
  /\ rpc' = "done"
  /\ UNCHANGED <<rd, read, buf, hdr, path, tot, made, content, wire, conn>>

\* fopen for writing.  It returns NULL when the folder is missing or the path
\* is the typed folder, and the first use of the NULL stream kills the process.
\* A path the sender never wrote as a file's may or may not be creatable.
CreateFile ==
  /\ rpc = "item"
  /\ hdr.is_file = 1
  /\ \/ /\ path \in File /\ HasParent(path)
        /\ rpc' = "data"
        /\ tot' = 0
        /\ made' = made \cup {path}
        /\ content' = [content EXCEPT ![path] = <<>>]
     \/ /\ path \notin File \cup {Base}
        /\ rpc' = "data"
        /\ tot' = 0
        /\ UNCHANGED <<made, content>>
     \/ /\ path \notin File \/ ~HasParent(path)
        /\ rpc' = "crashed"
        /\ UNCHANGED <<tot, made, content>>
  /\ UNCHANGED <<rd, read, buf, hdr, path, wire, conn>>

\* create_folder, whose result is not looked at.
CreateFolder ==
  /\ rpc = "item"
  /\ hdr.is_file \notin {1, 2}
  /\ made' = IF path \in Folder /\ HasParent(path) THEN made \cup {path} ELSE made
  /\ rpc' = "meta"
  /\ UNCHANGED <<rd, read, buf, hdr, path, tot, content, wire, conn>>

\* Mutant: the file is opened for writing anew by every recv.
RecvFileReopens ==
  /\ rpc = "data"
  /\ \E k \in 1..AtMost(AtMost(BufSize, hdr.size - tot), Available) :
       /\ rd' = rd + k
       /\ buf' = Stored(0, k)
       /\ tot' = tot + k
       /\ content' = IF path \in File
                       THEN [content EXCEPT ![path] = [i \in 1..k |-> buf'[i-1]]]
                       ELSE content
  /\ UNCHANGED <<rpc, read, hdr, path, made, wire, conn>>

\* Mutant: fwrite is given the bytes asked for, not the bytes received.
RecvFileWritesAsked ==
  /\ rpc = "data"
  /\ \E k \in 1..AtMost(AtMost(BufSize, hdr.size - tot), Available) :
       /\ rd' = rd + k
       /\ buf' = Stored(0, k)
       /\ tot' = tot + k
       /\ content' = IF path \in File
                       THEN [content EXCEPT ![path] =
                               @ \o [i \in 1..AtMost(BufSize, hdr.size - tot) |->
                                       buf'[i-1]]]
                       ELSE content
  /\ UNCHANGED <<rpc, read, hdr, path, made, wire, conn>>

\* One recv of the file loop that returns bytes, and their fwrite.
RecvFile ==
  /\ rpc = "data"
  /\ \E k \in 1..AtMost(AtMost(BufSize, hdr.size - tot), Available) :
       /\ rd' = rd + k
       /\ buf' = Stored(0, k)
       /\ tot' = tot + k
       /\ content' = IF path \in File
                       THEN [content EXCEPT ![path] =
                               @ \o SubSeq(wire, rd+1, rd+k)]
                       ELSE content
  /\ UNCHANGED <<rpc, read, hdr, path, made, wire, conn>>

\* The file is closed when all of it came, or as soon as recv returns 0.
CloseFile ==
  /\ rpc = "data"
  /\ tot = hdr.size \/ AtEof
  /\ rpc' = "meta"
  /\ UNCHANGED <<rd, read, buf, hdr, path, tot, made, content, wire, conn>>

\* recv returns -1: fwrite is given a length of 2^64-1, which crashes the
\* process or writes nothing, and the count goes down (-1 is the wrapped value).
FileError ==
  /\ rpc = "data"
  /\ tot # hdr.size
  /\ AtReset
  /\ conn' = "fin"
  /\ \/ rpc' = "crashed" /\ UNCHANGED tot
     \/ tot' = tot - 1 /\ UNCHANGED rpc
  /\ UNCHANGED <<rd, read, buf, hdr, path, made, content, wire>>

ReceiverStep ==
  RecvMetadata \/ MetadataEof \/ MetadataError
    \/ RecvPath \/ PathEof \/ PathError
    \/ EndOfFolder \/ CreateFile \/ CreateFolder
    \/ RecvFile \/ CloseFile \/ FileError
=============================================================================
