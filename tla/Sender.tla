------------------------------- MODULE Sender -------------------------------
(***************************************************************************)
(* The sending half of a transfer, on Linux and on Windows: send_folder,   *)
(* send_file and send_metadata walking the tree, and the stop byte of main.*)
(*                                                                         *)
(* send_folder recurses: `dirs' is its stack of calls, each one reduced to *)
(* the entries its directory loop has not returned yet, in any order.  One *)
(* action is one iteration of a loop or one call between two of them.      *)
(*                                                                         *)
(* The two systems share main and send_metadata.  They differ in how a     *)
(* file is opened and how much of it is sent; `sys' says which one the     *)
(* sender was built for.                                                   *)
(***************************************************************************)
EXTENDS Stream

CONSTANTS
  MaxFd,       \* descriptors the process may still open (RLIMIT_NOFILE)
  Unreadable,  \* files that stat reaches and open or CreateFile refuses
  Systems,     \* the systems the sender may be built for
  Faults       \* which faults the environment may cause: see below

FaultKinds == {"kill", "reset", "touch", "nosep"}

ASSUME SenderAssumption ==
  /\ MaxFd \in Nat
  /\ Unreadable \subseteq File
  /\ Systems \subseteq {"linux", "windows"}
  /\ Faults \subseteq FaultKinds

VARIABLES
  sys,      \* the system, chosen by Init and never changed
  fsize,    \* size of each file on the sender's disk
  spc,      \* where the sender is: see SenderStates
  dirs,     \* the send_folder calls in progress, innermost last
  item,     \* the file being sent
  told,     \* the size its header announced
  total,    \* the size send_file read again once the file was open
  offset,   \* bytes of it handed to the connection
  opened,   \* whether its open succeeded
  fds,      \* descriptors opened so far; none is ever closed
  raced     \* history: the bytes of some file are not as many as announced

senderVars == <<sys, fsize, spc, dirs, item, told, total, offset, opened, fds,
                raced, wire, conn>>

SenderStates == {"start", "entry", "open", "data", "done", "dead"}

SenderTypeOK ==
  /\ sys \in Systems
  /\ fsize \in [File -> 0..MaxSize]
  /\ spc \in SenderStates
  /\ dirs \in Seq(SUBSET Node)
  /\ item \in Node
  /\ told \in 0..MaxSize
  /\ total \in 0..MaxSize
  /\ offset \in 0..total
  /\ opened \in BOOLEAN
  /\ fds \in 0..MaxFd
  /\ raced \in BOOLEAN
  /\ wire \in Seq(Cell)
  /\ conn \in {"open", "fin", "rst"}

SenderInit ==
  /\ sys \in Systems
  /\ fsize \in [File -> 0..MaxSize]
  /\ spc = "start"
  /\ dirs = <<>>
  /\ item = Root
  /\ told = 0 /\ total = 0 /\ offset = 0
  /\ opened = FALSE
  /\ fds = 0
  /\ raced = FALSE
  /\ wire = <<>>
  /\ conn = "open"

(***************************************************************************)
(* send_folder and send_file on one entry.  `rest' is the stack once the   *)
(* entry has been taken from its directory.                                *)
(***************************************************************************)

\* Mutant: the folder is walked and never announced.
SendFolderUnannounced(n, rest) ==
  /\ n \in Folder
  /\ fds < MaxFd
  /\ dirs' = Append(rest, Children(n))
  /\ fds' = fds + 1
  /\ spc' = "entry"
  /\ UNCHANGED <<sys, fsize, item, told, total, offset, opened, raced, wire, conn>>

\* The header and the path, then opendir or FindFirstFile.  The size field of a
\* folder's header is left over in the buffer and read by nobody: 0 stands for
\* it.  With no descriptor left opendir returns NULL and readdir(NULL) kills the
\* process; on Windows the search handle, never closed either, is not scarce.
SendFolder(n, rest) ==
  /\ n \in Folder
  /\ wire' = wire \o Header(n, 0) \o PathOf(n)
  /\ IF sys = "windows" \/ fds < MaxFd
       THEN /\ dirs' = Append(rest, Children(n))
            /\ fds' = IF sys = "linux" THEN fds + 1 ELSE fds
            /\ spc' = "entry"
            /\ UNCHANGED conn
       ELSE /\ spc' = "dead"
            /\ conn' = "fin"
            /\ dirs' = rest
            /\ UNCHANGED fds
  /\ UNCHANGED <<sys, fsize, item, told, total, offset, opened, raced>>

\* send_metadata of a file: the first stat, the header and the path.
SendFileMetadata(n, rest) ==
  /\ n \in File
  /\ wire' = wire \o Header(n, fsize[n]) \o PathOf(n)
  /\ told' = fsize[n]
  /\ item' = n
  /\ dirs' = rest
  /\ spc' = "open"
  /\ UNCHANGED <<sys, fsize, total, offset, opened, fds, raced, conn>>

SendEntry(n, rest) == SendFolder(n, rest) \/ SendFileMetadata(n, rest)

\* main: the chosen path is a folder or a regular file.
Start ==
  /\ spc = "start"
  /\ SendEntry(Root, <<>>)

\* send_metadata finds no separator in the typed path and exits, once the
\* connection is up: main only asked whether the path names a file or folder.
InvalidPath ==
  /\ "nosep" \in Faults
  /\ spc = "start"
  /\ spc' = "dead"
  /\ conn' = "fin"
  /\ UNCHANGED <<sys, fsize, dirs, item, told, total, offset, opened, fds, raced,
                 wire>>

\* One readdir of the innermost send_folder.
ReadDir ==
  /\ spc = "entry"
  /\ dirs # <<>>
  /\ \E n \in dirs[Len(dirs)] :
       SendEntry(n, [dirs EXCEPT ![Len(dirs)] = @ \ {n}])

\* Mutant: the readdir loop may end before the last entry.
EndDirEarly ==
  /\ spc = "entry"
  /\ dirs # <<>>
  /\ dirs' = SubSeq(dirs, 1, Len(dirs)-1)
  /\ UNCHANGED <<sys, fsize, spc, item, told, total, offset, opened, fds, raced,
                 wire, conn>>

\* readdir returns NULL: send_folder returns and never closes the stream.
EndDir ==
  /\ spc = "entry"
  /\ dirs # <<>>
  /\ dirs[Len(dirs)] = {}
  /\ dirs' = SubSeq(dirs, 1, Len(dirs)-1)
  /\ UNCHANGED <<sys, fsize, spc, item, told, total, offset, opened, fds, raced,
                 wire, conn>>

\* Mutant: the offset of the file before is not set back to 0.
OpenFileKeepsOffset ==
  /\ spc = "open"
  /\ opened' = (item \notin Unreadable /\ fds < MaxFd)
  /\ fds' = IF opened' THEN fds + 1 ELSE fds
  /\ total' = fsize[item]
  /\ raced' = (raced \/ fsize[item] # told)
  /\ spc' = "data"
  /\ UNCHANGED <<sys, fsize, dirs, item, told, offset, wire, conn>>

\* open and the second stat of send_file; the result of open is not looked at.
OpenFile ==
  /\ spc = "open"
  /\ sys = "linux"
  /\ opened' = (item \notin Unreadable /\ fds < MaxFd)
  /\ fds' = IF opened' THEN fds + 1 ELSE fds
  /\ total' = fsize[item]
  /\ offset' = 0
  /\ raced' = (raced \/ fsize[item] # told)
  /\ spc' = "data"
  /\ UNCHANGED <<sys, fsize, dirs, item, told, wire, conn>>

\* CreateFile.  It shares the file with readers only: until the sender ends no
\* other program can open it for writing, and TransmitFile is given no bound.
CreateFileToSend ==
  /\ spc = "open"
  /\ sys = "windows"
  /\ item \notin Unreadable
  /\ opened' = TRUE
  /\ total' = fsize[item]
  /\ offset' = 0
  /\ raced' = (raced \/ fsize[item] # told)
  /\ spc' = "data"
  /\ UNCHANGED <<sys, fsize, dirs, item, told, fds, wire, conn>>

\* CreateFile refuses: send_file returns, its header sent and no content.
CreateFileRefused ==
  /\ spc = "open"
  /\ sys = "windows"
  /\ item \in Unreadable
  /\ raced' = (raced \/ told > 0)
  /\ spc' = "entry"
  /\ UNCHANGED <<sys, fsize, dirs, item, told, total, offset, opened, fds, wire,
                 conn>>

\* Mutant: the file is sent to its end, not to the size stat gave.
SendFileToEnd ==
  /\ spc = "data"
  /\ opened
  /\ \E k \in 1..fsize[item] - offset :
       /\ wire' = wire \o Chunk(item, offset, k)
       /\ offset' = offset + k
  /\ UNCHANGED <<sys, fsize, spc, dirs, item, told, total, opened, fds, raced, conn>>

\* One sendfile that copies at least a byte, or a part of what TransmitFile
\* copies before its event is set.
SendFile ==
  /\ spc = "data"
  /\ opened
  /\ \E k \in 1..AtMost(total, fsize[item]) - offset :
       /\ wire' = wire \o Chunk(item, offset, k)
       /\ offset' = offset + k
  /\ UNCHANGED <<sys, fsize, spc, dirs, item, told, total, opened, fds, raced, conn>>

\* Mutant: a file that cannot be sent is skipped.
SendFileSkips ==
  /\ spc = "data"
  /\ offset < total
  /\ ~opened
  /\ spc' = "entry"
  /\ UNCHANGED <<sys, fsize, dirs, item, told, total, offset, opened, fds, raced,
                 wire, conn>>

\* sendfile returns 0 or -1: the file was not opened or became shorter.
SendFileFails ==
  /\ spc = "data"
  /\ offset < total
  /\ ~opened \/ fsize[item] <= offset
  /\ spc' = "dead"
  /\ conn' = "fin"
  /\ UNCHANGED <<sys, fsize, dirs, item, told, total, offset, opened, fds, raced,
                 wire>>

\* send_file returns, without closing the descriptor or the handle.
EndFile ==
  /\ spc = "data"
  /\ offset = total
  /\ spc' = "entry"
  /\ UNCHANGED <<sys, fsize, dirs, item, told, total, offset, opened, fds, raced,
                 wire, conn>>

\* Mutant: the connection is shut down without the stop byte.
SendNoStop ==
  /\ spc = "entry"
  /\ dirs = <<>>
  /\ conn' = "fin"
  /\ spc' = "done"
  /\ UNCHANGED <<sys, fsize, dirs, item, told, total, offset, opened, fds, raced,
                 wire>>

\* Back in main: the stop byte and the shutdown.
SendStop ==
  /\ spc = "entry"
  /\ dirs = <<>>
  /\ wire' = Append(wire, Stop)
  /\ conn' = "fin"
  /\ spc' = "done"
  /\ UNCHANGED <<sys, fsize, dirs, item, told, total, offset, opened, fds, raced>>

SenderStep ==
  Start \/ InvalidPath \/ ReadDir \/ EndDir \/ OpenFile
    \/ CreateFileToSend \/ CreateFileRefused \/ SendFile \/ SendFileFails
    \/ EndFile \/ SendStop

(***************************************************************************)
(* Faults.  A process that dies leaves a prefix of the bytes of its last   *)
(* call in the connection, which its kernel still delivers before the FIN. *)
(* Dropping more than that is dying earlier, the rest of the sender's      *)
(* state being of no use any more.  A reset throws away what the receiver  *)
(* has not read.                                                           *)
(***************************************************************************)
Sending == spc \notin {"done", "dead"}

Kill(read) ==
  /\ "kill" \in Faults
  /\ Sending
  /\ spc' = "dead"
  /\ conn' = "fin"
  /\ \E k \in read..Len(wire) : wire' = SubSeq(wire, 1, k)
  /\ UNCHANGED <<sys, fsize, dirs, item, told, total, offset, opened, fds, raced>>

Reset(read) ==
  /\ "reset" \in Faults
  /\ Sending
  /\ spc' = "dead"
  /\ conn' = "rst"
  /\ wire' = SubSeq(wire, 1, read)
  /\ UNCHANGED <<sys, fsize, dirs, item, told, total, offset, opened, fds, raced>>

\* Another program changes the size of a file.  Windows keeps it out of the one
\* being sent; what happens to a file already sent shows nowhere.
Touch ==
  /\ "touch" \in Faults
  /\ Sending
  /\ \E n \in File, s \in 0..MaxSize :
       /\ s # fsize[n]
       /\ ~(sys = "windows" /\ spc = "data" /\ n = item)
       /\ fsize' = [fsize EXCEPT ![n] = s]
  /\ UNCHANGED <<sys, spc, dirs, item, told, total, offset, opened, fds, raced,
                 wire, conn>>
=============================================================================
