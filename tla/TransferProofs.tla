--------------------------- MODULE TransferProofs ---------------------------
(***************************************************************************)
(* The type of a transfer's state and the bounds of every recv, for every  *)
(* tree, every buffer and every set of faults.                             *)
(*                                                                         *)
(* Neither is inductive by itself: a recv that fails takes a count below   *)
(* 0, and would take it further down if it failed again.  It does not,     *)
(* since a connection reports a reset once; and no byte meets the negative *)
(* count, since a reset leaves none behind and nobody sends on.  So the    *)
(* counts are in range, or the connection is exhausted for good.           *)
(***************************************************************************)
EXTENDS Transfer, SequenceTheorems, TLAPS

\* The counts of the receiver's loops are short of the ends they test for.
Counts ==
  /\ rpc = "meta" => read \in 0..METADATA-1
  /\ rpc = "path" => read \in 0..hdr.len-1
  /\ rpc \in {"item", "data"} => read = 0
  /\ rpc = "data" => tot \in 0..hdr.size

Exhausted == conn = "fin" /\ Available = 0

IInv ==
  /\ TypeOK
  /\ spc \in {"open", "data"} => item \in File
  /\ conn # "open" => ~Sending
  /\ conn = "rst" => Available = 0
  /\ Counts \/ Exhausted

(***************************************************************************)
(* The bytes the sender writes are cells.                                  *)
(***************************************************************************)
LEMMA CellParts ==
  /\ \A n \in Node : \A s \in 0..MaxSize, j \in 0..METADATA-1 :
       MetaByte(n, s, j) \in Cell
  /\ \A n \in Node : \A j \in 0..PathLen[n]-1 : PathByte(n, j) \in Cell
  /\ \A n \in File : \A j \in 0..MaxSize-1 : DataByte(n, j) \in Cell
  /\ Stop \in Cell
<1>1. /\ MetaCell \subseteq Cell /\ PathCell \subseteq Cell /\ DataCell \subseteq Cell
      /\ Stop \in Cell
  BY DEF Cell
<1>2. \A n \in Node : \A s \in 0..MaxSize, j \in 0..METADATA-1 :
        MetaByte(n, s, j) \in MetaCell
  BY DEF MetaCell
<1>3. \A n \in Node : \A j \in 0..PathLen[n]-1 : PathByte(n, j) \in PathCell
  <2> DEFINE P(n) == {PathByte(n, j) : j \in 0..PathLen[n]-1}
  <2>1. \A n \in Node : \A j \in 0..PathLen[n]-1 : PathByte(n, j) \in P(n)
    OBVIOUS
  <2>2. PathCell = UNION {P(n) : n \in Node}
    BY DEF PathCell
  <2> HIDE DEF P
  <2>3. \A n \in Node : P(n) \subseteq PathCell
    BY <2>2
  <2>4. QED
    BY <2>1, <2>3
<1>4. \A n \in File : \A j \in 0..MaxSize-1 : DataByte(n, j) \in DataCell
  BY DEF DataCell
<1>5. QED
  BY <1>1, <1>2, <1>3, <1>4

LEMMA HeaderCells ==
  ASSUME NEW n \in Node, NEW s \in 0..MaxSize
  PROVE  Header(n, s) \in Seq(Cell)
<1>1. METADATA \in Nat
  BY TreeAssumption
<1>2. \A i \in 1..METADATA : i-1 \in 0..METADATA-1
  BY <1>1
<1>3. \A i \in 1..METADATA : MetaByte(n, s, i-1) \in Cell
  BY <1>2, CellParts
<1>4. Header(n, s) \in [1..METADATA -> Cell]
  BY <1>3 DEF Header
<1>5. QED
  BY <1>1, <1>4, SeqDef

LEMMA PathCells ==
  ASSUME NEW n \in Node
  PROVE  PathOf(n) \in Seq(Cell)
<1>1. PathLen[n] \in Nat
  BY TreeAssumption
<1>2. \A i \in 1..PathLen[n] : i-1 \in 0..PathLen[n]-1
  BY <1>1
<1>3. \A i \in 1..PathLen[n] : PathByte(n, i-1) \in Cell
  BY <1>2, CellParts
<1>4. PathOf(n) \in [1..PathLen[n] -> Cell]
  BY <1>3 DEF PathOf
<1>5. QED
  BY <1>1, <1>4, SeqDef

LEMMA ChunkCells ==
  ASSUME NEW n \in File, NEW from \in Nat, NEW k \in Nat, from + k <= MaxSize
  PROVE  Chunk(n, from, k) \in Seq(Cell)
<1>1. MaxSize \in Nat
  BY TreeAssumption
<1>2. \A i \in 1..k : from+i-1 \in 0..MaxSize-1
  BY <1>1
<1>3. \A i \in 1..k : DataByte(n, from+i-1) \in Cell
  BY <1>2, CellParts
<1>4. Chunk(n, from, k) \in [1..k -> Cell]
  BY <1>3 DEF Chunk
<1>5. QED
  BY <1>4, SeqDef

\* Writing more cells keeps the type of the stream and does not shorten it.
LEMMA WireGrows ==
  ASSUME wire \in Seq(Cell), NEW s \in Seq(Cell), wire' = wire \o s
  PROVE  wire' \in Seq(Cell) /\ Len(wire') >= Len(wire)
<1>1. wire \o s \in Seq(Cell) /\ Len(wire \o s) = Len(wire) + Len(s)
  BY ConcatProperties
<1>2. Len(wire) \in Nat /\ Len(s) \in Nat
  BY LenProperties
<1>3. QED
  BY <1>1, <1>2

LEMMA Constants ==
  /\ MaxSize \in Nat /\ METADATA \in Nat \ {0} /\ BufSize \in Nat
  /\ METADATA <= BufSize
  /\ File \subseteq Node
  /\ MaxFd \in Nat
BY TreeAssumption, SenderAssumption, ReceiverAssumption DEF File

(***************************************************************************)
(* The two sides.  Whoever sends finds the connection open, so the counts  *)
(* are in range, and leaves them alone.                                    *)
(***************************************************************************)
LEMMA SenderSide ==
  ASSUME IInv, Sending, UNCHANGED receiverVars,
         SenderTypeOK',
         spc' \in {"open", "data"} => item' \in File,
         conn' # "open" => ~Sending',
         conn' # "rst",
         Len(wire') >= Len(wire)
  PROVE  IInv'
<1>1. conn = "open" /\ Counts
  BY DEF IInv, Exhausted
<1>2. Counts'
  BY <1>1 DEF Counts, receiverVars
<1>3. Len(wire) \in Nat /\ Len(wire') \in Nat
  BY LenProperties DEF IInv, TypeOK, SenderTypeOK
<1>4. rd' \in 0..Len(wire')
  BY <1>3 DEF IInv, TypeOK, ReceiverTypeOK, receiverVars
<1>5. ReceiverTypeOK'
  BY <1>4 DEF IInv, TypeOK, ReceiverTypeOK, receiverVars
<1>6. QED
  BY <1>2, <1>5 DEF IInv, TypeOK

\* The receiver changes nothing of the sender's but, once, what recv returns.
LEMMA ReceiverSide ==
  ASSUME IInv,
         UNCHANGED <<sys, fsize, spc, dirs, item, told, total, offset, opened, fds,
                     raced, wire>>,
         conn' = conn \/ (conn = "rst" /\ conn' = "fin"),
         ReceiverTypeOK',
         conn = "rst" => Available' = 0,
         Counts' \/ Exhausted'
  PROVE  IInv'
<1>1. SenderTypeOK'
  BY DEF IInv, TypeOK, SenderTypeOK
<1>2. Sending' = Sending
  BY DEF Sending
<1>3. QED
  BY <1>1, <1>2 DEF IInv, TypeOK

(***************************************************************************)
(* The sender.                                                             *)
(***************************************************************************)
LEMMA SendEntryKeeps ==
  ASSUME IInv, Sending, UNCHANGED receiverVars,
         NEW n \in Node, NEW rest \in Seq(SUBSET Node), SendEntry(n, rest)
  PROVE  IInv'
<1>1. SenderTypeOK /\ conn = "open"
  BY DEF IInv, TypeOK
<1>2. CASE SendFolder(n, rest)
  <2>1. 0 \in 0..MaxSize
    BY Constants
  <2>2. Header(n, 0) \in Seq(Cell) /\ PathOf(n) \in Seq(Cell)
    BY <2>1, HeaderCells, PathCells
  <2>3. wire \o Header(n, 0) \in Seq(Cell)
    BY <1>1, <2>2, ConcatProperties DEF SenderTypeOK
  <2>4. Len(wire \o Header(n, 0)) >= Len(wire)
    BY <1>1, <2>2, ConcatProperties, LenProperties DEF SenderTypeOK
  <2>5. wire' \in Seq(Cell) /\ Len(wire') >= Len(wire \o Header(n, 0))
    BY <1>2, <2>2, <2>3, ConcatProperties, LenProperties DEF SendFolder
  <2>6. Len(wire') >= Len(wire)
    BY <1>1, <2>3, <2>4, <2>5, LenProperties DEF SenderTypeOK
  <2>7. Children(n) \in SUBSET Node
    BY DEF Children
  <2>8. Append(rest, Children(n)) \in Seq(SUBSET Node)
    BY <2>7, AppendProperties
  <2>9. /\ dirs' \in Seq(SUBSET Node)
        /\ fds' \in 0..MaxFd
        /\ spc' \in {"entry", "dead"}
        /\ conn' \in {"open", "fin"}
    <3>1. CASE sys = "windows" \/ fds < MaxFd
      <4>1. /\ dirs' = Append(rest, Children(n))
            /\ fds' = IF sys = "linux" THEN fds + 1 ELSE fds
        BY <1>2, <3>1 DEF SendFolder
      <4>2. spc' = "entry" /\ conn' = conn
        BY <1>2, <3>1 DEF SendFolder
      <4>3. fds' \in 0..MaxFd
        BY <1>1, <3>1, <4>1, Constants DEF SenderTypeOK
      <4>4. QED
        BY <1>1, <2>8, <4>1, <4>2, <4>3
    <3>2. CASE ~(sys = "windows" \/ fds < MaxFd)
      BY <1>1, <1>2, <3>2 DEF SendFolder, SenderTypeOK
    <3>3. QED
      BY <3>1, <3>2
  <2>10. SenderTypeOK'
    BY <1>1, <1>2, <2>5, <2>9 DEF SendFolder, SenderTypeOK, SenderStates
  <2>11. QED
    BY <1>1, <1>2, <2>6, <2>10, SenderSide DEF SendFolder, Sending
<1>3. CASE SendFileMetadata(n, rest)
  <2>1. n \in File /\ fsize[n] \in 0..MaxSize
    BY <1>1, <1>3 DEF SendFileMetadata, SenderTypeOK
  <2>2. Header(n, fsize[n]) \in Seq(Cell) /\ PathOf(n) \in Seq(Cell)
    BY <2>1, HeaderCells, PathCells
  <2>3. wire \o Header(n, fsize[n]) \in Seq(Cell)
    BY <1>1, <2>2, ConcatProperties DEF SenderTypeOK
  <2>4. Len(wire \o Header(n, fsize[n])) >= Len(wire)
    BY <1>1, <2>2, ConcatProperties, LenProperties DEF SenderTypeOK
  <2>5. wire' \in Seq(Cell) /\ Len(wire') >= Len(wire \o Header(n, fsize[n]))
    BY <1>3, <2>2, <2>3, ConcatProperties, LenProperties DEF SendFileMetadata
  <2>6. Len(wire') >= Len(wire)
    BY <1>1, <2>3, <2>4, <2>5, LenProperties DEF SenderTypeOK
  <2>7. SenderTypeOK'
    BY <1>1, <1>3, <2>1, <2>5 DEF SendFileMetadata, SenderTypeOK, SenderStates
  <2>8. QED
    BY <1>1, <1>3, <2>1, <2>6, <2>7, SenderSide DEF SendFileMetadata
<1>4. QED
  BY <1>2, <1>3 DEF SendEntry

LEMMA ReadDirKeeps ==
  ASSUME IInv, Sending, UNCHANGED receiverVars, ReadDir
  PROVE  IInv'
<1>1. dirs \in Seq(SUBSET Node) /\ dirs # <<>>
  BY DEF IInv, TypeOK, SenderTypeOK, ReadDir
<1>2. Len(dirs) \in 1..Len(dirs)
  BY <1>1, LenProperties
<1>3. dirs[Len(dirs)] \in SUBSET Node
  BY <1>1, <1>2, ElementOfSeq
<1>4. PICK n \in dirs[Len(dirs)] :
             SendEntry(n, [dirs EXCEPT ![Len(dirs)] = @ \ {n}])
  BY DEF ReadDir
<1>5. n \in Node /\ dirs[Len(dirs)] \ {n} \in SUBSET Node
  BY <1>3, <1>4
<1>6. [dirs EXCEPT ![Len(dirs)] = dirs[Len(dirs)] \ {n}] \in Seq(SUBSET Node)
  BY <1>1, <1>2, <1>5, ExceptSeq
<1>7. [dirs EXCEPT ![Len(dirs)] = @ \ {n}] \in Seq(SUBSET Node)
  BY <1>6
<1>8. QED
  BY <1>4, <1>5, <1>7, SendEntryKeeps

LEMMA EndDirKeeps ==
  ASSUME IInv, Sending, UNCHANGED receiverVars, EndDir
  PROVE  IInv'
<1>1. SenderTypeOK /\ dirs # <<>>
  BY DEF IInv, TypeOK, EndDir
<1>2. Len(dirs) \in Nat /\ \A i \in 1..Len(dirs) : dirs[i] \in SUBSET Node
  BY <1>1, LenProperties, ElementOfSeq DEF SenderTypeOK
<1>3. SubSeq(dirs, 1, Len(dirs)-1) \in Seq(SUBSET Node)
  BY <1>2, SubSeqProperties
<1>4. SenderTypeOK'
  BY <1>1, <1>3 DEF EndDir, SenderTypeOK
<1>5. Len(wire') >= Len(wire)
  BY <1>1, LenProperties DEF EndDir, SenderTypeOK
<1>6. QED
  BY <1>4, <1>5, SenderSide DEF EndDir, IInv, Sending

LEMMA SendFileKeeps ==
  ASSUME IInv, Sending, UNCHANGED receiverVars, SendFile
  PROVE  IInv'
<1>1. SenderTypeOK /\ item \in File
  BY DEF IInv, TypeOK, SendFile
<1>2. /\ fsize[item] \in 0..MaxSize /\ total \in 0..MaxSize /\ offset \in 0..total
      /\ MaxSize \in Nat
  BY <1>1, Constants DEF SenderTypeOK
<1>3. PICK k \in 1..AtMost(total, fsize[item]) - offset :
             wire' = wire \o Chunk(item, offset, k) /\ offset' = offset + k
  BY DEF SendFile
<1>4. k \in Nat /\ offset + k <= total /\ offset + k <= fsize[item]
  BY <1>2, <1>3 DEF AtMost
<1>5. Chunk(item, offset, k) \in Seq(Cell)
  BY <1>1, <1>2, <1>4, ChunkCells
<1>6. wire' \in Seq(Cell) /\ Len(wire') >= Len(wire)
  BY <1>1, <1>3, <1>5, WireGrows DEF SenderTypeOK
<1>7. offset' \in 0..total'
  BY <1>2, <1>3, <1>4 DEF SendFile
<1>8. SenderTypeOK'
  BY <1>1, <1>6, <1>7 DEF SendFile, SenderTypeOK
<1>9. QED
  BY <1>1, <1>6, <1>8, SenderSide DEF SendFile, IInv, Sending

\* open, the ways out of send_file, and the exits of the sender.
LEMMA OtherSenderStepKeeps ==
  ASSUME IInv, Sending, UNCHANGED receiverVars,
         InvalidPath \/ OpenFile \/ SendFileFails \/ EndFile
           \/ CreateFileToSend \/ CreateFileRefused
  PROVE  IInv'
<1>1. SenderTypeOK /\ conn = "open" /\ Len(wire) \in Nat
  BY LenProperties DEF IInv, TypeOK, SenderTypeOK
<1>2. wire' = wire
  BY DEF InvalidPath, OpenFile, SendFileFails, EndFile, CreateFileToSend,
         CreateFileRefused
<1>3. CASE OpenFile
  <2>1. item \in File /\ fsize[item] \in 0..MaxSize
    BY <1>1, <1>3 DEF OpenFile, IInv, SenderTypeOK
  <2>2. fds' \in 0..MaxFd
    <3>1. fds \in 0..MaxFd /\ MaxFd \in Nat
      BY <1>1, Constants DEF SenderTypeOK
    <3>2. opened' => fds < MaxFd
      BY <1>3, Zenon DEF OpenFile
    <3>3. CASE opened'
      BY <1>3, <3>1, <3>2, <3>3 DEF OpenFile
    <3>4. CASE ~opened'
      BY <1>3, <3>1, <3>4 DEF OpenFile
    <3>5. QED
      BY <3>3, <3>4
  <2>3. total' \in 0..MaxSize /\ offset' \in 0..total'
    BY <1>3, <2>1, Constants DEF OpenFile
  <2>4. opened' \in BOOLEAN
    BY <1>3, Zenon DEF OpenFile
  <2>5. raced' \in BOOLEAN
    BY <1>3, Zenon DEF OpenFile
  <2>6. SenderTypeOK'
    BY <1>1, <1>2, <1>3, <2>2, <2>3, <2>4, <2>5 DEF OpenFile, SenderTypeOK, SenderStates
  <2>7. QED
    BY <1>1, <1>2, <1>3, <2>1, <2>6, SenderSide DEF OpenFile, Sending
<1>4. CASE InvalidPath \/ SendFileFails \/ EndFile
  <2>1. SenderTypeOK'
    BY <1>1, <1>4 DEF InvalidPath, SendFileFails, EndFile, SenderTypeOK, SenderStates
  <2>2. QED
    BY <1>1, <1>2, <1>4, <2>1, SenderSide
       DEF InvalidPath, SendFileFails, EndFile, Sending
<1>5. CASE CreateFileToSend \/ CreateFileRefused
  <2>1. item \in File /\ fsize[item] \in 0..MaxSize /\ MaxSize \in Nat
    BY <1>1, <1>5, Constants
       DEF CreateFileToSend, CreateFileRefused, IInv, SenderTypeOK
  <2>2. raced' \in BOOLEAN /\ spc' \in {"data", "entry"}
    BY <1>5, Zenon DEF CreateFileToSend, CreateFileRefused
  <2>3. total' \in 0..MaxSize /\ offset' \in 0..total' /\ opened' \in BOOLEAN
    <3>1. CASE CreateFileToSend
      BY <2>1, <3>1 DEF CreateFileToSend
    <3>2. CASE CreateFileRefused
      BY <1>1, <3>2 DEF CreateFileRefused, SenderTypeOK
    <3>3. QED
      BY <1>5, <3>1, <3>2
  <2>4. SenderTypeOK'
    BY <1>1, <1>2, <1>5, <2>2, <2>3
       DEF CreateFileToSend, CreateFileRefused, SenderTypeOK, SenderStates
  <2>5. QED
    BY <1>1, <1>2, <1>5, <2>1, <2>4, SenderSide
       DEF CreateFileToSend, CreateFileRefused, Sending
<1>6. QED
  BY <1>3, <1>4, <1>5

LEMMA SendStopKeeps ==
  ASSUME IInv, Sending, UNCHANGED receiverVars, SendStop
  PROVE  IInv'
<1>1. SenderTypeOK /\ Stop \in Cell
  BY CellParts DEF IInv, TypeOK
<1>2. wire' \in Seq(Cell) /\ Len(wire') >= Len(wire)
  BY <1>1, AppendProperties, LenProperties DEF SenderTypeOK, SendStop
<1>3. SenderTypeOK'
  BY <1>1, <1>2 DEF SendStop, SenderTypeOK, SenderStates
<1>4. QED
  BY <1>2, <1>3, SenderSide DEF SendStop, Sending

LEMMA SendKeeps ==
  ASSUME IInv, Send
  PROVE  IInv'
<1>1. Sending /\ UNCHANGED receiverVars
  BY DEF Send, SenderStep, Start, InvalidPath, ReadDir, EndDir, OpenFile, SendFile,
         SendFileFails, EndFile, SendStop, CreateFileToSend, CreateFileRefused,
         Sending
<1>2. CASE Start
  <2>1. Root \in Node /\ <<>> \in Seq(SUBSET Node)
    BY TreeAssumption, EmptySeq
  <2>2. QED
    BY <1>1, <1>2, <2>1, SendEntryKeeps DEF Start
<1>3. QED
  BY <1>1, <1>2, ReadDirKeeps, EndDirKeeps, SendFileKeeps, OtherSenderStepKeeps,
     SendStopKeeps DEF Send, SenderStep

\* A fault ends the sending and, if it is a reset, leaves nothing to read.
LEMMA EnvironmentKeeps ==
  ASSUME IInv, Environment
  PROVE  IInv'
<1>1. SenderTypeOK /\ ReceiverTypeOK /\ conn = "open" /\ Counts
  BY DEF Environment, Kill, Reset, Touch, IInv, TypeOK, Exhausted
<1>2. /\ Len(wire) \in Nat
      /\ \A i \in 1..Len(wire) : wire[i] \in Cell
      /\ rd \in 0..Len(wire)
  BY <1>1, LenProperties, ElementOfSeq DEF SenderTypeOK, ReceiverTypeOK
<1>3. \A k \in rd..Len(wire) :
        SubSeq(wire, 1, k) \in Seq(Cell) /\ Len(SubSeq(wire, 1, k)) = k
  BY <1>2, SubSeqProperties
<1>4. UNCHANGED receiverVars /\ Counts'
  BY <1>1 DEF Environment, receiverVars, Counts
<1>5. CASE Touch
  <2>1. fsize' \in [File -> 0..MaxSize]
    BY <1>1, <1>5 DEF Touch, SenderTypeOK
  <2>2. SenderTypeOK' /\ ReceiverTypeOK'
    BY <1>1, <1>4, <1>5, <2>1
       DEF Touch, SenderTypeOK, ReceiverTypeOK, receiverVars
  <2>3. QED
    BY <1>4, <1>5, <2>2 DEF Touch, IInv, TypeOK, Sending
<1>6. CASE Kill(rd) \/ Reset(rd)
  <2>1. PICK k \in rd..Len(wire) :
          /\ wire' = SubSeq(wire, 1, k)
          /\ conn' = "fin" \/ (conn' = "rst" /\ k = rd)
    BY <1>2, <1>6 DEF Kill, Reset
  <2>2. wire' \in Seq(Cell) /\ Len(wire') = k
    BY <1>3, <2>1
  <2>3. SenderTypeOK' /\ spc' = "dead"
    BY <1>1, <1>6, <2>1, <2>2 DEF Kill, Reset, SenderTypeOK, SenderStates
  <2>4. rd' \in 0..Len(wire') /\ (conn' = "rst" => Available' = 0)
    BY <1>2, <1>4, <2>1, <2>2 DEF receiverVars, Available
  <2>5. ReceiverTypeOK'
    BY <1>1, <1>4, <2>4 DEF ReceiverTypeOK, receiverVars
  <2>6. QED
    BY <1>4, <2>3, <2>4, <2>5 DEF IInv, TypeOK, Sending
<1>7. QED
  BY <1>5, <1>6 DEF Environment

(***************************************************************************)
(* The receiver.                                                           *)
(***************************************************************************)
Buffer == [0..BufSize-1 -> Cell \cup {NUL}]

\* The next bytes of the stream are there and are cells.
LEMMA Incoming ==
  ASSUME IInv
  PROVE  /\ Len(wire) \in Nat /\ rd \in 0..Len(wire) /\ Available \in Nat
         /\ \A k \in 1..Available : rd + k \in 0..Len(wire)
         /\ \A k \in 1..Available : \A i \in rd+1..rd+k : wire[i] \in Cell
<1>1. wire \in Seq(Cell) /\ rd \in 0..Len(wire)
  BY DEF IInv, TypeOK, SenderTypeOK, ReceiverTypeOK
<1>2. Len(wire) \in Nat /\ \A i \in 1..Len(wire) : wire[i] \in Cell
  BY <1>1, LenProperties, ElementOfSeq
<1>3. QED
  BY <1>1, <1>2 DEF Available

LEMMA StoredType ==
  ASSUME IInv, NEW at \in Int, NEW k \in 1..Available
  PROVE  Stored(at, k) \in Buffer
<1>1. buf \in Buffer
  BY DEF IInv, TypeOK, ReceiverTypeOK, Buffer
<1>2. BufSize \in Nat /\ rd \in Nat /\ Available \in Nat
  BY Constants, Incoming
<1>3. ASSUME NEW i \in 0..BufSize-1, i \in at..at+k-1
      PROVE  wire[rd+1+i-at] \in Cell
  <2>1. rd+1+i-at \in rd+1..rd+k
    BY <1>2, <1>3
  <2>2. QED
    BY <2>1, Incoming
<1>4. QED
  BY <1>1, <1>3 DEF Stored, Buffer

LEMMA IsFileOfType ==
  ASSUME NEW c
  PROVE  IsFileOf(c) \in 0..3
BY DEF IsFileOf

LEMMA HeadersType ==
  ASSUME NEW b, NEW h \in HeadersIn(b)
  PROVE  h \in HeaderRecord
<1> DEFINE written == {w \in Node \X (0..MaxSize) :
                         \A j \in 0..METADATA-1 : b[j] = MetaByte(w[1], w[2], j)}
<1>1. CASE written # {}
  <2>1. PICK w \in written :
          h = [is_file |-> IsFileOf(b[0]), size |-> w[2], len |-> PathLen[w[1]]]
    BY <1>1 DEF HeadersIn
  <2>2. w[1] \in Node /\ w[2] \in 0..MaxSize
    BY <2>1
  <2>3. PathLen[w[1]] \in 0..BufSize
    BY <2>2, TreeAssumption, ReceiverAssumption
  <2>4. IsFileOf(b[0]) \in 0..3
    BY IsFileOfType
  <2>5. QED
    BY <2>1, <2>2, <2>3, <2>4 DEF HeaderRecord
<1>2. CASE ~(written # {})
  <2>1. h \in {[is_file |-> 0, size |-> 0, len |-> 0]} \/ h \in HeaderRecord
    BY <1>2 DEF HeadersIn
  <2>2. QED
    BY <2>1, Constants DEF HeaderRecord
<1>3. QED
  BY <1>1, <1>2

LEMMA PathInType ==
  ASSUME NEW b, NEW len
  PROVE  PathIn(b, len) \in Node \cup {Base, Junk}
<1> DEFINE spells(n) == PathLen[n] = len /\ \A j \in 0..len-1 : b[j] = PathByte(n, j)
<1>1. CASE \E n \in Node : spells(n)
  <2>1. PathIn(b, len) = CHOOSE n \in Node : spells(n)
    BY <1>1, Zenon DEF PathIn
  <2> HIDE DEF spells
  <2>2. (CHOOSE n \in Node : spells(n)) \in Node
    BY <1>1, Zenon
  <2>3. QED
    BY <2>1, <2>2
<1>2. CASE ~\E n \in Node : spells(n)
  <2>1. PathIn(b, len) = Junk
    BY <1>2, Zenon DEF PathIn
  <2>2. QED
    BY <2>1
<1>3. QED
  BY <1>1, <1>2

\* A header that was parsed is followed by a path, unless its length is 0.
LEMMA HeaderParsedKeeps ==
  ASSUME IInv, NEW b \in Buffer, HeaderParsed(b),
         UNCHANGED <<sys, fsize, spc, dirs, item, told, total, offset, opened, fds,
                     raced, wire, tot, made, content>>,
         conn' = conn \/ (conn = "rst" /\ conn' = "fin"),
         rd' \in rd..Len(wire)
  PROVE  IInv'
<1>1. PICK h \in HeadersIn(b) :
        /\ hdr' = h
        /\ read' = 0
        /\ IF h.len = 0
             THEN rpc' = "item" /\ path' = Base /\ buf' = [b EXCEPT ![0] = NUL]
             ELSE rpc' = "path" /\ buf' = b /\ UNCHANGED path
  BY DEF HeaderParsed
<1>2. h \in HeaderRecord
  BY HeadersType
<1>3. hdr' \in HeaderRecord /\ hdr'.len \in Nat
  BY <1>1, <1>2, Constants DEF HeaderRecord
<1>4. [b EXCEPT ![0] = NUL] \in Buffer
  BY DEF Buffer
<1>5. buf' \in Buffer /\ rpc' \in {"item", "path"} /\ path' \in Node \cup {Base, Junk}
  BY <1>1, <1>4 DEF IInv, TypeOK, ReceiverTypeOK
<1>6. rd' \in 0..Len(wire') /\ (conn = "rst" => Available' = 0)
  BY Incoming DEF IInv, Available
<1>7. ReceiverTypeOK'
  BY <1>1, <1>3, <1>5, <1>6, Constants
     DEF IInv, TypeOK, ReceiverTypeOK, ReceiverStates, Buffer
<1>8. Counts'
  BY <1>1, <1>3, <1>5 DEF Counts
<1>9. QED
  BY <1>6, <1>7, <1>8, ReceiverSide

LEMMA RecvMetadataKeeps ==
  ASSUME IInv, Receive, RecvMetadata
  PROVE  IInv'
<1>1. PICK k \in 1..AtMost(METADATA - read, Available) :
        /\ rd' = rd + k
        /\ LET b == Stored(read, k)
           IN  \/ /\ EqualsTwo(b[0])
                  /\ rpc' = "done"
                  /\ buf' = b
                  /\ UNCHANGED <<read, hdr, path>>
               \/ /\ ~EqualsTwo(b[0])
                  /\ read + k < METADATA
                  /\ read' = read + k
                  /\ buf' = b
                  /\ UNCHANGED <<rpc, hdr, path>>
               \/ /\ ~EqualsTwo(b[0])
                  /\ read + k = METADATA
                  /\ HeaderParsed(b)
  BY DEF RecvMetadata
<1>2. read \in -1..BufSize /\ rpc = "meta"
  BY DEF IInv, TypeOK, ReceiverTypeOK, RecvMetadata
<1>3. k \in 1..Available
  BY <1>1, <1>2, Constants, Incoming DEF AtMost
<1>4. Stored(read, k) \in Buffer
  BY <1>2, <1>3, Constants, StoredType
<1>5. /\ UNCHANGED <<sys, fsize, spc, dirs, item, told, total, offset, opened, fds, raced,
                      wire, conn, tot, made, content>>
      /\ rd' \in rd..Len(wire) /\ rd' \in 0..Len(wire')
  BY <1>1, <1>3, Incoming DEF Receive, RecvMetadata
<1>6. conn # "rst" /\ Counts
  BY <1>3, Incoming DEF IInv, Exhausted
<1>7. CASE HeaderParsed(Stored(read, k))
  BY <1>4, <1>5, <1>7, HeaderParsedKeeps
<1>8. CASE rpc' = "done" /\ buf' = Stored(read, k) /\ UNCHANGED <<read, hdr, path>>
  <2>1. ReceiverTypeOK'
    BY <1>4, <1>5, <1>8 DEF IInv, TypeOK, ReceiverTypeOK, ReceiverStates, Buffer
  <2>2. Counts'
    BY <1>8 DEF Counts
  <2>3. QED
    BY <1>5, <1>6, <2>1, <2>2, ReceiverSide
<1>9. CASE /\ read + k < METADATA
           /\ read' = read + k /\ buf' = Stored(read, k)
           /\ UNCHANGED <<rpc, hdr, path>>
  <2>1. read \in 0..METADATA-1
    BY <1>2, <1>6 DEF Counts
  <2>2. read' \in 0..METADATA-1 /\ read' \in -1..BufSize
    BY <1>3, <1>9, <2>1, Constants, Incoming
  <2>3. ReceiverTypeOK'
    BY <1>4, <1>5, <1>9, <2>2 DEF IInv, TypeOK, ReceiverTypeOK, Buffer
  <2>4. Counts'
    BY <1>2, <1>9, <2>2 DEF Counts
  <2>5. QED
    BY <1>5, <1>6, <2>3, <2>4, ReceiverSide
<1>10. QED
  BY <1>1, <1>7, <1>8, <1>9

\* A failed recv leaves the connection exhausted, whatever the code makes of it.
LEMMA FailedRecv ==
  ASSUME IInv, Receive,
         \/ AtEof /\ UNCHANGED conn
         \/ AtReset /\ conn' = "fin",
         UNCHANGED <<rd, wire>>
  PROVE  /\ Exhausted'
         /\ conn' = conn \/ (conn = "rst" /\ conn' = "fin")
         /\ conn = "rst" => Available' = 0
         /\ AtReset => Counts
BY DEF IInv, AtEof, AtReset, Exhausted, Available

LEMMA MetadataFailsKeeps ==
  ASSUME IInv, Receive, MetadataEof \/ MetadataError
  PROVE  IInv'
<1>1. /\ UNCHANGED <<sys, fsize, spc, dirs, item, told, total, offset, opened, fds, raced,
                      wire, rd, tot, made, content>>
      /\ (AtEof /\ UNCHANGED conn) \/ (AtReset /\ conn' = "fin")
  BY DEF Receive, MetadataEof, MetadataError
<1>2. /\ Exhausted'
      /\ conn' = conn \/ (conn = "rst" /\ conn' = "fin")
      /\ conn = "rst" => Available' = 0
  BY <1>1, FailedRecv
<1>3. buf \in Buffer /\ rd' \in rd..Len(wire)
  BY <1>1, Incoming DEF IInv, TypeOK, ReceiverTypeOK, Buffer
<1>4. CASE HeaderParsed(buf)
  BY <1>1, <1>2, <1>3, <1>4, HeaderParsedKeeps
<1>5. CASE rpc' = "done" /\ UNCHANGED <<read, buf, hdr, path>>
  <2>1. ReceiverTypeOK'
    BY <1>1, <1>5 DEF IInv, TypeOK, ReceiverTypeOK, ReceiverStates
  <2>2. QED
    BY <1>1, <1>2, <2>1, ReceiverSide
<1>6. QED
  BY <1>4, <1>5 DEF MetadataEof, MetadataError

LEMMA RecvPathKeeps ==
  ASSUME IInv, Receive, RecvPath
  PROVE  IInv'
<1>1. PICK k \in 1..AtMost(hdr.len - read, Available) :
        /\ rd' = rd + k
        /\ LET b == Stored(read, k)
           IN  IF read + k < hdr.len
                 THEN buf' = b /\ read' = read + k /\ UNCHANGED <<rpc, path>>
                 ELSE /\ path' = PathIn(b, hdr.len)
                      /\ buf' = [i \in DOMAIN b |->
                                   IF i = hdr.len THEN NUL ELSE b[i]]
                      /\ read' = 0
                      /\ rpc' = "item"
  BY DEF RecvPath
<1>2. /\ read \in -1..BufSize /\ rpc = "path"
      /\ hdr \in HeaderRecord /\ hdr.len \in 0..BufSize
  BY DEF IInv, TypeOK, ReceiverTypeOK, RecvPath, HeaderRecord
<1>3. k \in 1..Available
  BY <1>1, <1>2, Constants, Incoming DEF AtMost
<1>4. Stored(read, k) \in Buffer
  BY <1>2, <1>3, Constants, StoredType
<1>5. /\ UNCHANGED <<sys, fsize, spc, dirs, item, told, total, offset, opened, fds, raced,
                      wire, conn, hdr, tot, made, content>>
      /\ rd' \in 0..Len(wire')
  BY <1>1, <1>3, Incoming DEF Receive, RecvPath
<1>6. conn # "rst" /\ read \in 0..hdr.len-1
  BY <1>2, <1>3, Incoming DEF IInv, Exhausted, Counts
<1>7. CASE read + k < hdr.len
  <2>1. buf' = Stored(read, k) /\ read' = read + k /\ UNCHANGED <<rpc, path>>
    BY <1>1, <1>7
  <2>2. read' \in 0..hdr.len-1 /\ read' \in -1..BufSize
    BY <1>2, <1>3, <1>6, <1>7, <2>1, Constants, Incoming
  <2>3. ReceiverTypeOK'
    BY <1>4, <1>5, <2>1, <2>2 DEF IInv, TypeOK, ReceiverTypeOK, Buffer
  <2>4. Counts'
    BY <1>2, <1>5, <2>1, <2>2 DEF Counts
  <2>5. QED
    BY <1>5, <1>6, <2>3, <2>4, ReceiverSide
<1>8. CASE ~(read + k < hdr.len)
  <2>1. /\ path' = PathIn(Stored(read, k), hdr.len)
        /\ buf' = [i \in DOMAIN Stored(read, k) |->
                     IF i = hdr.len THEN NUL ELSE Stored(read, k)[i]]
        /\ read' = 0 /\ rpc' = "item"
    BY <1>1, <1>8
  <2>2. buf' \in Buffer
    BY <1>4, <2>1 DEF Buffer
  <2>3. path' \in Node \cup {Base, Junk}
    BY <2>1, PathInType
  <2>4. ReceiverTypeOK'
    BY <1>5, <2>1, <2>2, <2>3, Constants
       DEF IInv, TypeOK, ReceiverTypeOK, ReceiverStates, Buffer
  <2>5. Counts'
    BY <2>1 DEF Counts
  <2>6. QED
    BY <1>5, <1>6, <2>4, <2>5, ReceiverSide
<1>9. QED
  BY <1>7, <1>8

\* The path loop and the file loop when recv fails: the counts go below 0 only
\* from a count in range, which a reset still finds.
LEMMA LoopFailsKeeps ==
  ASSUME IInv, Receive, PathEof \/ PathError \/ FileError
  PROVE  IInv'
<1>1. /\ UNCHANGED <<sys, fsize, spc, dirs, item, told, total, offset, opened, fds, raced,
                      wire, rd, buf, hdr, path, made, content>>
      /\ (AtEof /\ UNCHANGED conn) \/ (AtReset /\ conn' = "fin")
  BY DEF Receive, PathEof, PathError, FileError, receiverVars
<1>2. /\ Exhausted'
      /\ conn' = conn \/ (conn = "rst" /\ conn' = "fin")
      /\ conn = "rst" => Available' = 0
      /\ AtReset => Counts
  BY <1>1, FailedRecv
<1>3. /\ hdr.len \in 0..BufSize /\ hdr.size \in 0..MaxSize
      /\ read \in -1..BufSize /\ tot \in -1..MaxSize
  BY DEF IInv, TypeOK, ReceiverTypeOK, HeaderRecord
<1>4. read' \in -1..BufSize
  BY <1>2, <1>3, Constants DEF PathEof, PathError, FileError, receiverVars, Counts
<1>5. tot' \in -1..MaxSize
  BY <1>2, <1>3, Constants DEF PathEof, PathError, FileError, receiverVars, Counts
<1>6. rpc' \in ReceiverStates
  BY DEF PathEof, PathError, FileError, receiverVars, IInv, TypeOK, ReceiverTypeOK,
         ReceiverStates
<1>7. ReceiverTypeOK'
  BY <1>1, <1>4, <1>5, <1>6 DEF IInv, TypeOK, ReceiverTypeOK
<1>8. QED
  BY <1>1, <1>2, <1>7, ReceiverSide

\* What is done with a header and its path once they are there.
LEMMA ItemKeeps ==
  ASSUME IInv, Receive, EndOfFolder \/ CreateFile \/ CreateFolder
  PROVE  IInv'
<1>1. /\ UNCHANGED <<sys, fsize, spc, dirs, item, told, total, offset, opened, fds, raced,
                      wire, conn, rd, read, buf, hdr, path>>
      /\ rpc = "item"
  BY DEF Receive, EndOfFolder, CreateFile, CreateFolder
<1>2. made' \subseteq Node
  <2>1. made \subseteq Node /\ Folder \subseteq Node
    BY TreeAssumption DEF IInv, TypeOK, ReceiverTypeOK
  <2>2. CASE CreateFolder
    BY <2>1, <2>2 DEF CreateFolder
  <2>3. CASE CreateFile
    BY <2>1, <2>3, Constants DEF CreateFile
  <2>4. CASE EndOfFolder
    BY <2>1, <2>4 DEF EndOfFolder
  <2>5. QED
    BY <2>2, <2>3, <2>4
<1>3. content' \in [File -> Seq(Cell)]
  <2>1. <<>> \in Seq(Cell)
    BY EmptySeq
  <2>2. QED
    BY <2>1 DEF EndOfFolder, CreateFile, CreateFolder, IInv, TypeOK, ReceiverTypeOK
<1>4. /\ tot' \in -1..MaxSize
      /\ rpc' = "data" => tot' = 0
      /\ rpc' \in {"meta", "data", "done", "crashed"}
  BY Constants DEF EndOfFolder, CreateFile, CreateFolder, IInv, TypeOK, ReceiverTypeOK
<1>5. ReceiverTypeOK'
  BY <1>1, <1>2, <1>3, <1>4 DEF IInv, TypeOK, ReceiverTypeOK, ReceiverStates
<1>6. hdr.size \in Nat
  BY Constants DEF IInv, TypeOK, ReceiverTypeOK, HeaderRecord
<1>7. Counts => Counts'
  BY <1>1, <1>4, <1>6, Constants DEF Counts
<1>8. Counts' \/ Exhausted'
  BY <1>1, <1>7 DEF IInv, Exhausted, Available
<1>9. conn = "rst" => Available' = 0
  BY <1>1 DEF IInv, Available
<1>10. QED
  BY <1>1, <1>5, <1>8, <1>9, ReceiverSide

LEMMA RecvFileKeeps ==
  ASSUME IInv, Receive, RecvFile
  PROVE  IInv'
<1>1. PICK k \in 1..AtMost(AtMost(BufSize, hdr.size - tot), Available) :
        /\ rd' = rd + k
        /\ buf' = Stored(0, k)
        /\ tot' = tot + k
        /\ content' = IF path \in File
                        THEN [content EXCEPT ![path] = @ \o SubSeq(wire, rd+1, rd+k)]
                        ELSE content
  BY DEF RecvFile
<1>2. /\ tot \in -1..MaxSize /\ rpc = "data" /\ hdr.size \in 0..MaxSize
      /\ content \in [File -> Seq(Cell)]
  BY DEF IInv, TypeOK, ReceiverTypeOK, RecvFile, HeaderRecord
<1>3. k \in 1..Available /\ tot + k <= hdr.size
  BY <1>1, <1>2, Constants, Incoming DEF AtMost
<1>4. buf' \in Buffer
  BY <1>1, <1>3, StoredType
<1>5. /\ UNCHANGED <<sys, fsize, spc, dirs, item, told, total, offset, opened, fds, raced,
                      wire, conn, rpc, read, hdr, path, made>>
      /\ rd' \in 0..Len(wire')
  BY <1>1, <1>3, Incoming DEF Receive, RecvFile
<1>6. conn # "rst" /\ Counts
  BY <1>3, Incoming DEF IInv, Exhausted
<1>7. tot' \in 0..hdr.size /\ tot' \in -1..MaxSize
  BY <1>1, <1>2, <1>3, <1>6, Constants, Incoming DEF Counts
<1>8. content' \in [File -> Seq(Cell)]
  <2>1. rd+1 \in Int /\ rd+k \in Int
    BY <1>3, Incoming
  <2>2. SubSeq(wire, rd+1, rd+k) \in Seq(Cell)
    BY <1>3, <2>1, Incoming, SubSeqProperties
  <2>3. \A n \in File : content[n] \o SubSeq(wire, rd+1, rd+k) \in Seq(Cell)
    BY <1>2, <2>2, ConcatProperties
  <2>4. QED
    BY <1>1, <1>2, <2>3
<1>9. ReceiverTypeOK'
  BY <1>4, <1>5, <1>7, <1>8 DEF IInv, TypeOK, ReceiverTypeOK, Buffer
<1>10. Counts'
  BY <1>2, <1>5, <1>6, <1>7 DEF Counts
<1>11. QED
  BY <1>5, <1>6, <1>9, <1>10, ReceiverSide

LEMMA CloseFileKeeps ==
  ASSUME IInv, Receive, CloseFile
  PROVE  IInv'
<1>1. /\ UNCHANGED <<sys, fsize, spc, dirs, item, told, total, offset, opened, fds, raced,
                      wire, conn, rd, read, buf, hdr, path, tot, made, content>>
      /\ rpc = "data" /\ rpc' = "meta"
  BY DEF Receive, CloseFile
<1>2. ReceiverTypeOK'
  BY <1>1 DEF IInv, TypeOK, ReceiverTypeOK, ReceiverStates
<1>3. Counts => Counts'
  BY <1>1, Constants DEF Counts
<1>4. Counts' \/ Exhausted'
  BY <1>1, <1>3 DEF IInv, Exhausted, Available
<1>5. conn = "rst" => Available' = 0
  BY <1>1 DEF IInv, Available
<1>6. QED
  BY <1>1, <1>2, <1>4, <1>5, ReceiverSide

(***************************************************************************)
(* The invariant and what follows from it.                                 *)
(***************************************************************************)
LEMMA Initially ==
  ASSUME Init
  PROVE  IInv
<1>1. <<>> \in Seq(Cell) /\ <<>> \in Seq(SUBSET Node) /\ Len(<<>>) = 0
  BY EmptySeq
<1>2. SenderTypeOK
  <2>1. 0 \in 0..MaxSize /\ 0 \in 0..MaxFd /\ 0 \in 0..0 /\ Root \in Node
    BY Constants, TreeAssumption
  <2>2. dirs \in Seq(SUBSET Node) /\ wire \in Seq(Cell)
    BY <1>1 DEF Init, SenderInit
  <2>3. fsize \in [File -> 0..MaxSize] /\ item \in Node
    BY <2>1 DEF Init, SenderInit
  <2>4. told \in 0..MaxSize /\ total \in 0..MaxSize /\ offset \in 0..total /\ fds \in 0..MaxFd
    BY <2>1 DEF Init, SenderInit
  <2>5. QED
    BY <2>2, <2>3, <2>4 DEF Init, SenderInit, SenderTypeOK, SenderStates
<1>3. hdr \in HeaderRecord
  BY Constants DEF Init, ReceiverInit, HeaderRecord
<1>4. ReceiverTypeOK
  BY <1>1, <1>3, Constants
     DEF Init, SenderInit, ReceiverInit, ReceiverTypeOK, ReceiverStates
<1>5. Counts
  BY Constants DEF Init, ReceiverInit, Counts
<1>6. QED
  BY <1>2, <1>4, <1>5 DEF Init, SenderInit, IInv, TypeOK

LEMMA Step ==
  ASSUME IInv, [Next]_vars
  PROVE  IInv'
<1>1. CASE UNCHANGED vars
  BY <1>1 DEF vars, senderVars, receiverVars, IInv, TypeOK, SenderTypeOK, ReceiverTypeOK,
              Sending, Available, Counts, Exhausted
<1>2. CASE Receive
  BY <1>2, RecvMetadataKeeps, MetadataFailsKeeps, RecvPathKeeps, LoopFailsKeeps,
     ItemKeeps, RecvFileKeeps, CloseFileKeeps DEF Receive, ReceiverStep
<1>3. QED
  BY <1>1, <1>2, SendKeeps, EnvironmentKeeps DEF Next, Ended

LEMMA Invariant == Spec => []IInv
BY Initially, Step, PTL DEF Spec

\* Every variable of a transfer keeps its type, for every tree and buffer and
\* whatever faults there are: no count and no index leaves its range.
THEOREM TransferTypeCorrect == Spec => []TypeOK
<1>1. IInv => TypeOK
  BY DEF IInv
<1>2. QED
  BY <1>1, Invariant, PTL

\* No byte is received outside the part of the buffer that its loop asks for.
THEOREM RecvStaysInBuffer == Spec => []RecvInBuffer
<1>1. IInv => RecvInBuffer
  BY DEF IInv, Counts, Exhausted, RecvInBuffer
<1>2. QED
  BY <1>1, Invariant, PTL
=============================================================================
