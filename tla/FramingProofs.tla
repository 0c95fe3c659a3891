--------------------------- MODULE FramingProofs ---------------------------
(***************************************************************************)
(* What arrives: the receiver's place in its loops agrees with the stream, *)
(* its files are prefixes of the sender's, and the end it reports is the   *)
(* end of a complete copy.                                                 *)
(*                                                                         *)
(* The stream has no marks, so the invariant says where its parts are.     *)
(* Walk: a node is announced once, behind the folder that holds it, and    *)
(* what is not announced yet is in a directory being read or below one.    *)
(* Items: behind the first byte of a header come, by counting, the rest of *)
(* it, the path, the content announced, and another header or the stop     *)
(* byte.  Aligned: the receiver is at the place in such an item that its   *)
(* loops and counts say, and holds what came before.  Lost: a sender that  *)
(* died left nothing to read, and what the receiver still does is done to  *)
(* the empty path.                                                         *)
(***************************************************************************)
EXTENDS TransferProofs

(***************************************************************************)
(* The stream.                                                             *)
(***************************************************************************)
HeaderAt(i, n, s) == wire[i] = MetaByte(n, s, 0)

Size == 0..MaxSize

Announced(n) == \E i \in 1..Len(wire), s \in Size : HeaderAt(i, n, s)

Walk ==
  /\ \A i, k \in 1..Len(wire), n \in Node, s, t \in Size :
       HeaderAt(i, n, s) /\ HeaderAt(k, n, t) => i = k
  /\ \A i \in 1..Len(wire), n \in Node \ {Root}, s \in Size :
       HeaderAt(i, n, s) => \E k \in 1..i-1, t \in Size : HeaderAt(k, Parent[n], t)
  /\ \A i \in 1..Len(wire) : wire[i] = Stop => i = Len(wire) /\ spc = "done"

\* The directories the sender is still to read.
Pending ==
  /\ spc = "start" => wire = <<>> /\ dirs = <<>>
  /\ Sending => \A k \in 1..Len(dirs) : \A n \in dirs[k] :
       /\ n # Root /\ ~Announced(n) /\ Announced(Parent[n])
       /\ \A l \in 1..Len(dirs) : n \in dirs[l] => l = k
  /\ spc \notin {"start", "dead"} =>
       /\ Announced(Root)
       /\ \A n \in Node \ {Root} :
            Announced(Parent[n]) => Announced(n) \/ \E k \in 1..Len(dirs) : n \in dirs[k]
  /\ spc = "done" => dirs = <<>> /\ wire # <<>> /\ wire[Len(wire)] = Stop

\* Where an item whose header begins at i ends, and what is in it so far.
Behind(i, n, s) == i + METADATA + PathLen[n] + s

Between(i) ==
  i = 1 \/ \E k \in 1..i-1, n \in Node, s \in Size : HeaderAt(k, n, s) /\ Behind(k, n, s) = i

Boundary(i) ==
  i <= Len(wire) => wire[i] = Stop \/ \E n \in Node, s \in Size : HeaderAt(i, n, s)

Item(i, n, s) ==
  /\ n \in Folder => s = 0
  /\ \A j \in 0..METADATA-1 : i+j <= Len(wire) => wire[i+j] = MetaByte(n, s, j)
  /\ \A j \in 0..PathLen[n]-1 :
       i+METADATA+j <= Len(wire) => wire[i+METADATA+j] = PathByte(n, j)
  /\ \A j \in 0..s-1 :
       i+METADATA+PathLen[n]+j <= Len(wire) => wire[i+METADATA+PathLen[n]+j] = DataByte(n, j)
  /\ Boundary(Behind(i, n, s))

Complete(S) ==
  \A i \in S, n \in Node, s \in Size : HeaderAt(i, n, s) => Behind(i, n, s) <= Len(wire) + 1

Items ==
  /\ Boundary(1)
  /\ \A i \in 1..Len(wire), n \in Node, s \in Size : HeaderAt(i, n, s) => Item(i, n, s)
  /\ spc = "entry" => Complete(1..Len(wire))
  /\ spc \in {"open", "data"} => \E i \in 1..Len(wire) :
       /\ HeaderAt(i, item, told)
       /\ Len(wire) + 1 = i + METADATA + PathLen[item] + IF spc = "open" THEN 0 ELSE offset
       /\ Complete(1..Len(wire) \ {i})
  /\ spc = "data" => total = told

(***************************************************************************)
(* The receiver.                                                           *)
(***************************************************************************)
HeaderOf(n, s) == [is_file |-> IF n \in File THEN 1 ELSE 0, size |-> s, len |-> PathLen[n]]

\* How many bytes precede the item that is not made yet.
Front ==
  rd - IF rpc = "meta" THEN read
       ELSE IF rpc = "path" THEN METADATA + read
       ELSE IF rpc = "item" THEN METADATA + hdr.len ELSE 0

Place ==
  /\ rpc = "meta" /\ read = 0 => Between(rd+1)
  /\ rpc = "meta" /\ read > 0 => \E n \in Node, s \in Size :
       /\ Front >= 0 /\ HeaderAt(Front+1, n, s)
       /\ \A j \in 0..read-1 : buf[j] = MetaByte(n, s, j)
  /\ rpc = "path" => \E n \in Node, s \in Size :
       /\ Front >= 0 /\ HeaderAt(Front+1, n, s)
       /\ hdr = HeaderOf(n, s)
       /\ \A j \in 0..read-1 : buf[j] = PathByte(n, j)
  /\ rpc = "item" =>
       /\ Front >= 0 /\ HeaderAt(Front+1, path, hdr.size)
       /\ path \in Node /\ hdr = HeaderOf(path, hdr.size)
  /\ rpc = "data" =>
       /\ path \in File /\ hdr = HeaderOf(path, hdr.size) /\ Len(content[path]) = tot
       /\ rd >= METADATA + hdr.len + tot
       /\ HeaderAt(rd - tot - hdr.len - METADATA + 1, path, hdr.size)
  /\ rpc = "done" => rd > 0 /\ wire[rd] = Stop

Holds ==
  /\ \A n \in Node : n \in made <=> \E i \in 1..Front, s \in Size : HeaderAt(i, n, s)
  /\ \A i \in 1..Front, n \in File, s \in Size :
       HeaderAt(i, n, s) /\ ~(rpc = "data" /\ n = path) => Len(content[n]) = s

Aligned ==
  /\ rpc # "crashed"
  /\ Counts
  /\ rpc # "done" => \A i \in 1..rd : wire[i] # Stop
  /\ Place
  /\ Holds

\* Bytes equal to 2 that are no stop byte were received.
TwosCame == \E n \in Twos : content[n] # <<>>

Lost ==
  /\ Exhausted /\ spc = "dead"
  /\ rpc = "item" => path = Base
  /\ hdr.is_file = 2 => TwosCame
  /\ rpc = "done" => TwosCame /\ buf[0] # Stop

Copies ==
  /\ \A n \in File : content[n] = Chunk(n, 0, Len(content[n]))
  /\ \A n \in File : n \notin made => content[n] = <<>>
  /\ \A n \in File, j \in 0..MaxSize-1 : buf[0] = DataByte(n, j) => content[n] # <<>>
  /\ buf[0] = Stop => rpc = "done"

FInv == Walk /\ Pending /\ (~raced => Items /\ Copies /\ (Aligned \/ Lost))

(***************************************************************************)
(* The bytes and the constants.                                            *)
(***************************************************************************)
LEMMA CellFields ==
  /\ \A n, s, j : /\ MetaByte(n, s, j)[1] = "meta" /\ MetaByte(n, s, j)[2] = n
                  /\ MetaByte(n, s, j)[3] = j /\ MetaByte(n, s, j)[4] = s
  /\ \A n, j : /\ PathByte(n, j)[1] = "path" /\ PathByte(n, j)[2] = n
               /\ PathByte(n, j)[3] = j
  /\ \A n, j : /\ DataByte(n, j)[1] = "data" /\ DataByte(n, j)[2] = n
               /\ DataByte(n, j)[3] = j
  /\ Stop[1] = "stop" /\ NUL[1] = "nul"
BY DEF MetaByte, PathByte, DataByte, Stop, NUL

LEMMA Numbers ==
  /\ METADATA \in Nat /\ METADATA >= 1
  /\ BufSize \in Nat /\ METADATA <= BufSize
  /\ MaxSize \in Nat /\ Size \subseteq Nat /\ 0 \in Size
  /\ \A n \in Node : PathLen[n] \in Nat /\ PathLen[n] >= 1 /\ PathLen[n] <= BufSize
  /\ File \subseteq Node /\ Folder \subseteq Node /\ Root \in Node
  /\ \A n \in Node : n \in File <=> n \notin Folder
  /\ \A n \in Node \ {Root} : Parent[n] \in Folder
BY TreeAssumption, ReceiverAssumption DEF File, Size

LEMMA Lengths ==
  ASSUME IInv
  PROVE  /\ wire \in Seq(Cell) /\ Len(wire) \in Nat
         /\ rd \in 0..Len(wire)
         /\ dirs \in Seq(SUBSET Node) /\ Len(dirs) \in Nat
         /\ \A k \in 1..Len(dirs) : dirs[k] \subseteq Node
<1>1. wire \in Seq(Cell) /\ rd \in 0..Len(wire) /\ dirs \in Seq(SUBSET Node)
  BY DEF IInv, TypeOK, SenderTypeOK, ReceiverTypeOK
<1>2. \A k \in 1..Len(dirs) : dirs[k] \in SUBSET Node
  BY <1>1, ElementOfSeq
<1>3. QED
  BY <1>1, <1>2, LenProperties

(***************************************************************************)
(* What a send adds to the stream.                                         *)
(***************************************************************************)
Kept == \A i \in 1..Len(wire) : wire'[i] = wire[i]

LEMMA Grown ==
  ASSUME IInv, NEW s \in Seq(Cell), wire' = wire \o s
  PROVE  /\ Len(wire') = Len(wire) + Len(s)
         /\ Kept
         /\ \A j \in 1..Len(s) : wire'[Len(wire)+j] = s[j]
<1>1. wire \in Seq(Cell) /\ Len(wire) \in Nat /\ Len(s) \in Nat
  BY Lengths, LenProperties
<1>2. /\ Len(wire \o s) = Len(wire) + Len(s)
      /\ \A i \in 1..Len(wire) + Len(s) :
           (wire \o s)[i] = IF i <= Len(wire) THEN wire[i] ELSE s[i - Len(wire)]
  BY <1>1, ConcatProperties
<1>3. \A j \in 1..Len(s) : /\ Len(wire)+j \in 1..Len(wire) + Len(s)
                           /\ ~(Len(wire)+j <= Len(wire))
                           /\ Len(wire)+j-Len(wire) = j
  BY <1>1
<1>4. \A j \in 1..Len(s) : (wire \o s)[Len(wire)+j] = s[j]
  BY <1>2, <1>3
<1>5. QED
  BY <1>1, <1>2, <1>4 DEF Kept

\* A header and a path.
LEMMA AnnouncementBytes ==
  ASSUME IInv, NEW n \in Node, NEW s \in Size, wire' = wire \o Header(n, s) \o PathOf(n)
  PROVE  /\ Len(wire') = Len(wire) + METADATA + PathLen[n]
         /\ Kept
         /\ \A j \in 0..METADATA-1 : wire'[Len(wire)+1+j] = MetaByte(n, s, j)
         /\ \A j \in 0..PathLen[n]-1 : wire'[Len(wire)+1+METADATA+j] = PathByte(n, j)
<1> DEFINE h == Header(n, s)
           p == PathOf(n)
<1>1. /\ wire \in Seq(Cell) /\ Len(wire) \in Nat /\ METADATA \in Nat /\ PathLen[n] \in Nat
      /\ s \in 0..MaxSize
  BY Lengths, Numbers DEF Size
<1>2. h \in Seq(Cell) /\ p \in Seq(Cell)
  BY <1>1, HeaderCells, PathCells
<1>3. /\ Len(h) = METADATA /\ \A j \in 1..METADATA : h[j] = MetaByte(n, s, j-1)
      /\ Len(p) = PathLen[n] /\ \A j \in 1..PathLen[n] : p[j] = PathByte(n, j-1)
  BY <1>1 DEF Header, PathOf
<1> HIDE DEF h, p
<1>4. h \o p \in Seq(Cell) /\ Len(h \o p) = METADATA + PathLen[n]
      /\ \A j \in 1..METADATA + PathLen[n] :
           (h \o p)[j] = IF j <= METADATA THEN h[j] ELSE p[j - METADATA]
  <2>1. h \o p \in Seq(Cell) /\ Len(h \o p) = Len(h) + Len(p)
        /\ \A j \in 1..Len(h) + Len(p) :
             (h \o p)[j] = IF j <= Len(h) THEN h[j] ELSE p[j - Len(h)]
    BY <1>2, ConcatProperties
  <2>2. QED
    BY <1>3, <2>1
<1>5. wire' = wire \o (h \o p)
  <2>1. (wire \o h) \o p = wire \o (h \o p)
    BY <1>1, <1>2, ConcatAssociative
  <2>2. wire' = wire \o h \o p
    BY DEF h, p
  <2>3. QED
    BY <2>1, <2>2
<1>6. /\ Len(wire') = Len(wire) + (METADATA + PathLen[n])
      /\ Kept
      /\ \A j \in 1..METADATA + PathLen[n] : wire'[Len(wire)+j] = (h \o p)[j]
  BY <1>4, <1>5, Grown
<1>7. ASSUME NEW j \in 0..METADATA-1
      PROVE  wire'[Len(wire)+1+j] = MetaByte(n, s, j)
  <2>1. j+1 \in 1..METADATA /\ j+1 \in 1..METADATA + PathLen[n] /\ (j+1)-1 = j
        /\ Len(wire)+(j+1) = Len(wire)+1+j /\ j+1 <= METADATA
    BY <1>1
  <2>2. wire'[Len(wire)+(j+1)] = h[j+1]
    BY <1>4, <1>6, <2>1
  <2>3. h[j+1] = MetaByte(n, s, (j+1)-1)
    BY <1>3, <2>1
  <2>4. QED
    BY <2>1, <2>2, <2>3
<1>8. ASSUME NEW j \in 0..PathLen[n]-1
      PROVE  wire'[Len(wire)+1+METADATA+j] = PathByte(n, j)
  <2> DEFINE k == METADATA+j+1
  <2>1. /\ k \in 1..METADATA + PathLen[n] /\ ~(k <= METADATA) /\ k - METADATA = j+1
        /\ Len(wire)+k = Len(wire)+1+METADATA+j
        /\ j+1 \in 1..PathLen[n] /\ (j+1)-1 = j
    BY <1>1
  <2> HIDE DEF k
  <2>2. wire'[Len(wire)+k] = p[j+1]
    BY <1>4, <1>6, <2>1
  <2>3. p[j+1] = PathByte(n, (j+1)-1)
    BY <1>3, <2>1
  <2>4. QED
    BY <2>1, <2>2, <2>3
<1>9. QED
  BY <1>1, <1>6, <1>7, <1>8

\* No other header comes with a header and a path.
LEMMA NewHeader ==
  ASSUME IInv, NEW n \in Node, NEW s \in Size, wire' = wire \o Header(n, s) \o PathOf(n)
  PROVE  /\ \A i \in 1..Len(wire') : \A m, t :
              HeaderAt(i, m, t)' <=> \/ i <= Len(wire) /\ HeaderAt(i, m, t)
                                     \/ i = Len(wire)+1 /\ m = n /\ t = s
         /\ \A m \in Node : Announced(m)' <=> Announced(m) \/ m = n
         /\ \A i \in 1..Len(wire') : wire'[i] = Stop => i <= Len(wire) /\ wire[i] = Stop
<1>1. /\ Len(wire) \in Nat /\ METADATA \in Nat /\ METADATA >= 1 /\ PathLen[n] \in Nat
  BY Lengths, Numbers
<1>2. /\ Len(wire') = Len(wire) + METADATA + PathLen[n]
      /\ Kept
      /\ \A j \in 0..METADATA-1 : wire'[Len(wire)+1+j] = MetaByte(n, s, j)
      /\ \A j \in 0..PathLen[n]-1 : wire'[Len(wire)+1+METADATA+j] = PathByte(n, j)
  BY AnnouncementBytes
<1>3. wire'[Len(wire)+1] = MetaByte(n, s, 0)
  <2>1. 0 \in 0..METADATA-1 /\ Len(wire)+1+0 = Len(wire)+1
    BY <1>1
  <2>2. QED
    BY <1>2, <2>1
<1>4. ASSUME NEW i \in 1..Len(wire'), ~(i <= Len(wire))
      PROVE  \/ i = Len(wire)+1 /\ wire'[i] = MetaByte(n, s, 0)
             \/ \E j \in 1..METADATA-1 : wire'[i] = MetaByte(n, s, j)
             \/ \E j \in 0..PathLen[n]-1 : wire'[i] = PathByte(n, j)
  <2> DEFINE j == i - (Len(wire)+1)
  <2>1. j \in 0..METADATA+PathLen[n]-1 /\ i = Len(wire)+1+j
    BY <1>1, <1>2, <1>4
  <2> HIDE DEF j
  <2>2. CASE j \in 0..METADATA-1
    <3>1. wire'[i] = MetaByte(n, s, j)
      BY <1>2, <2>1, <2>2
    <3>2. j = 0 \/ j \in 1..METADATA-1
      BY <1>1, <2>2
    <3>3. QED
      BY <1>1, <2>1, <3>1, <3>2
  <2>3. CASE j \notin 0..METADATA-1
    <3>1. j-METADATA \in 0..PathLen[n]-1 /\ i = Len(wire)+1+METADATA+(j-METADATA)
      BY <1>1, <2>1, <2>3
    <3>2. wire'[i] = PathByte(n, j-METADATA)
      BY <1>2, <3>1
    <3>3. QED
      BY <3>1, <3>2
  <2>4. QED
    BY <2>2, <2>3
<1>5. \A i \in 1..Len(wire') : \A m, t :
        HeaderAt(i, m, t)' <=> \/ i <= Len(wire) /\ HeaderAt(i, m, t)
                               \/ i = Len(wire)+1 /\ m = n /\ t = s
  <2> SUFFICES ASSUME NEW i \in 1..Len(wire'), NEW m, NEW t
               PROVE  HeaderAt(i, m, t)' <=> \/ i <= Len(wire) /\ HeaderAt(i, m, t)
                                             \/ i = Len(wire)+1 /\ m = n /\ t = s
    OBVIOUS
  <2>1. CASE i <= Len(wire)
    BY <1>1, <1>2, <2>1 DEF Kept, HeaderAt
  <2>2. CASE ~(i <= Len(wire))
    <3>1. CASE i = Len(wire)+1 /\ wire'[i] = MetaByte(n, s, 0)
      BY <2>2, <3>1, CellFields DEF HeaderAt
    <3>2. CASE \E j \in 1..METADATA-1 : wire'[i] = MetaByte(n, s, j)
      <4>1. PICK j \in 1..METADATA-1 : wire'[i] = MetaByte(n, s, j)
        BY <3>2
      <4>2. wire'[i] # MetaByte(m, t, 0) /\ wire'[i] # MetaByte(n, s, 0)
        <5>1. MetaByte(n, s, j)[3] = j /\ MetaByte(m, t, 0)[3] = 0 /\ MetaByte(n, s, 0)[3] = 0
          BY CellFields
        <5>2. j # 0
          OBVIOUS
        <5>3. QED
          BY <4>1, <5>1, <5>2
      <4>3. i # Len(wire)+1
        BY <1>3, <4>2
      <4>4. QED
        BY <2>2, <4>2, <4>3 DEF HeaderAt
    <3>3. CASE \E j \in 0..PathLen[n]-1 : wire'[i] = PathByte(n, j)
      <4>1. wire'[i][1] = "path"
        BY <3>3, CellFields
      <4>2. wire'[i] # MetaByte(m, t, 0) /\ wire'[i] # MetaByte(n, s, 0)
        BY <4>1, CellFields
      <4>3. i # Len(wire)+1
        BY <1>3, <4>2
      <4>4. QED
        BY <2>2, <4>2, <4>3 DEF HeaderAt
    <3>4. QED
      BY <1>4, <2>2, <3>1, <3>2, <3>3
  <2>3. QED
    BY <2>1, <2>2
<1>6. ASSUME NEW m \in Node
      PROVE  Announced(m)' <=> Announced(m) \/ m = n
  <2>1. Announced(m)' => Announced(m) \/ m = n
    <3> SUFFICES ASSUME Announced(m)'
                 PROVE  Announced(m) \/ m = n
      OBVIOUS
    <3>1. PICK i \in 1..Len(wire'), t \in Size : HeaderAt(i, m, t)'
      BY DEF Announced
    <3>2. \/ i <= Len(wire) /\ HeaderAt(i, m, t)
          \/ m = n
      BY <1>5, <3>1
    <3>3. QED
      BY <1>1, <3>2 DEF Announced
  <2>2. Announced(m) => Announced(m)'
    <3> SUFFICES ASSUME Announced(m)
                 PROVE  Announced(m)'
      OBVIOUS
    <3>1. PICK i \in 1..Len(wire), t \in Size : HeaderAt(i, m, t)
      BY DEF Announced
    <3>2. i \in 1..Len(wire') /\ i <= Len(wire)
      BY <1>1, <1>2
    <3>3. HeaderAt(i, m, t)'
      BY <1>5, <3>1, <3>2
    <3>4. QED
      BY <3>2, <3>3 DEF Announced
  <2>3. Announced(n)'
    <3>1. PICK i \in Nat : i = Len(wire)+1
      BY <1>1
    <3>2. i \in 1..Len(wire')
      BY <1>1, <1>2, <3>1
    <3>3. HeaderAt(i, n, s)'
      BY <1>5, <3>1, <3>2
    <3>4. QED
      BY <3>2, <3>3 DEF Announced
  <2>4. QED
    BY <2>1, <2>2, <2>3
<1>7. ASSUME NEW i \in 1..Len(wire'), wire'[i] = Stop
      PROVE  i <= Len(wire) /\ wire[i] = Stop
  <2>1. i <= Len(wire)
    <3>1. wire'[i][1] = "stop"
      BY <1>7, CellFields
    <3>2. \A j : wire'[i] # MetaByte(n, s, j) /\ wire'[i] # PathByte(n, j)
      BY <3>1, CellFields
    <3>3. QED
      BY <1>4, <3>2
  <2>2. QED
    BY <1>1, <1>2, <1>7, <2>1 DEF Kept
<1>8. QED
  BY <1>5, <1>6, <1>7

\* Nothing is announced by the bytes of a file, nor by the stop byte.
LEMMA NoNewHeader ==
  ASSUME IInv, Len(wire') \in Nat, Len(wire') >= Len(wire), Kept,
         \A i \in Len(wire)+1..Len(wire') : \A m, t : wire'[i] # MetaByte(m, t, 0)
  PROVE  /\ \A i \in 1..Len(wire') : \A m, t :
              HeaderAt(i, m, t)' <=> i <= Len(wire) /\ HeaderAt(i, m, t)
         /\ \A m \in Node : Announced(m)' <=> Announced(m)
<1>1. Len(wire) \in Nat
  BY Lengths
<1>2. ASSUME NEW i \in 1..Len(wire'), NEW m, NEW t
      PROVE  HeaderAt(i, m, t)' <=> i <= Len(wire) /\ HeaderAt(i, m, t)
  BY <1>1 DEF Kept, HeaderAt
<1>3. ASSUME NEW m \in Node
      PROVE  Announced(m)' <=> Announced(m)
  BY <1>1, <1>2 DEF Announced
<1>4. QED
  BY <1>2, <1>3

(***************************************************************************)
(* The walk through the tree.                                              *)
(***************************************************************************)

\* n can be announced next, and the rest of the tree is in `rest' or below it.
Due(n, rest) ==
  /\ ~Announced(n)
  /\ n # Root => Announced(Root) /\ Announced(Parent[n])
  /\ \A k \in 1..Len(rest) : \A m \in rest[k] :
       /\ m # Root /\ m # n /\ ~Announced(m) /\ Announced(Parent[m])
       /\ \A l \in 1..Len(rest) : m \in rest[l] => l = k
  /\ \A m \in Node \ {Root} :
       Announced(Parent[m]) => Announced(m) \/ m = n \/ \E k \in 1..Len(rest) : m \in rest[k]

LEMMA EntryWire ==
  ASSUME IInv, NEW n \in Node, NEW rest, SendEntry(n, rest)
  PROVE  \E s \in Size : /\ wire' = wire \o Header(n, s) \o PathOf(n)
                         /\ n \in Folder => s = 0 /\ spc' \in {"entry", "dead"}
                         /\ n \in File => s = fsize[n] /\ spc' = "open" /\ told' = s /\ item' = n
                         /\ raced' = raced
<1>1. CASE SendFolder(n, rest)
  <2>1. n \in Folder /\ n \notin File /\ 0 \in Size
    BY <1>1, Numbers DEF SendFolder
  <2>2. spc' \in {"entry", "dead"} /\ raced' = raced
        /\ wire' = wire \o Header(n, 0) \o PathOf(n)
    BY <1>1 DEF SendFolder
  <2>3. QED
    BY <2>1, <2>2
<1>2. CASE SendFileMetadata(n, rest)
  <2>1. n \in File /\ n \notin Folder /\ fsize[n] \in Size
    BY <1>2, Numbers DEF SendFileMetadata, IInv, TypeOK, SenderTypeOK, Size
  <2>2. QED
    BY <1>2, <2>1 DEF SendFileMetadata
<1>3. QED
  BY <1>1, <1>2 DEF SendEntry

LEMMA EntryWalks ==
  ASSUME IInv, Walk, Sending, NEW n \in Node, NEW rest \in Seq(SUBSET Node),
         SendEntry(n, rest), Due(n, rest)
  PROVE  Walk'
<1>1. PICK s \in Size : wire' = wire \o Header(n, s) \o PathOf(n)
  BY EntryWire
<1>2. /\ \A i \in 1..Len(wire') : \A m, t :
           HeaderAt(i, m, t)' <=> \/ i <= Len(wire) /\ HeaderAt(i, m, t)
                                  \/ i = Len(wire)+1 /\ m = n /\ t = s
      /\ \A i \in 1..Len(wire') : wire'[i] = Stop => i <= Len(wire) /\ wire[i] = Stop
  BY <1>1, NewHeader
<1>3. Len(wire) \in Nat /\ Len(wire') \in Nat /\ Len(wire') > Len(wire)
  BY <1>1, AnnouncementBytes, Lengths, Numbers
<1>4. \A i \in 1..Len(wire), t \in Size : ~HeaderAt(i, n, t)
  BY DEF Due, Announced
<1>5. ASSUME NEW i \in 1..Len(wire'), NEW k \in 1..Len(wire'), NEW m \in Node,
             NEW t \in Size, NEW u \in Size, HeaderAt(i, m, t)', HeaderAt(k, m, u)'
      PROVE  i = k
  BY <1>2, <1>3, <1>4, <1>5 DEF Walk
<1>6. ASSUME NEW i \in 1..Len(wire'), NEW m \in Node \ {Root}, NEW t \in Size,
             HeaderAt(i, m, t)'
      PROVE  \E k \in 1..i-1, u \in Size : HeaderAt(k, Parent[m], u)'
  <2>1. CASE i <= Len(wire) /\ HeaderAt(i, m, t)
    <3>1. PICK k \in 1..i-1, u \in Size : HeaderAt(k, Parent[m], u)
      BY <1>3, <2>1 DEF Walk
    <3>2. k \in 1..Len(wire') /\ k <= Len(wire)
      BY <1>3, <2>1
    <3>3. HeaderAt(k, Parent[m], u)'
      BY <1>2, <3>1, <3>2
    <3>4. QED
      BY <3>1, <3>3
  <2>2. CASE i = Len(wire)+1 /\ m = n
    <3>1. PICK k \in 1..Len(wire), u \in Size : HeaderAt(k, Parent[m], u)
      BY <2>2 DEF Due, Announced
    <3>2. k \in 1..Len(wire') /\ k <= Len(wire) /\ k \in 1..i-1
      BY <1>3, <2>2
    <3>3. HeaderAt(k, Parent[m], u)'
      BY <1>2, <3>1, <3>2
    <3>4. QED
      BY <3>2, <3>3
  <2>3. QED
    BY <1>2, <1>6, <2>1, <2>2
<1>7. \A i \in 1..Len(wire') : wire'[i] # Stop
  BY <1>2, <1>3 DEF Walk, Sending
<1>8. QED
  BY <1>5, <1>6, <1>7 DEF Walk

LEMMA EntryPends ==
  ASSUME IInv, Walk, Sending, NEW n \in Node, NEW rest \in Seq(SUBSET Node),
         SendEntry(n, rest), Due(n, rest)
  PROVE  Pending'
<1>1. PICK s \in Size : wire' = wire \o Header(n, s) \o PathOf(n)
  BY EntryWire
<1>2. \A m \in Node : Announced(m)' <=> Announced(m) \/ m = n
  BY <1>1, NewHeader
<1>3. \A m \in Node \ {Root} : Parent[m] \in Node /\ Parent[m] \in Folder
  BY Numbers
<1>4. /\ Len(rest) \in Nat
      /\ \A k \in 1..Len(rest) : rest[k] \subseteq Node
  BY LenProperties, ElementOfSeq
<1>5. ASSUME NEW k \in 1..Len(rest), NEW m \in rest[k]
      PROVE  /\ m \in Node /\ m # Root /\ m # n
             /\ ~Announced(m)' /\ Announced(Parent[m])'
             /\ \A l \in 1..Len(rest) : m \in rest[l] => l = k
  <2>1. /\ m \in Node /\ m # Root /\ m # n /\ ~Announced(m) /\ Announced(Parent[m])
        /\ \A l \in 1..Len(rest) : m \in rest[l] => l = k
    BY <1>4, <1>5 DEF Due
  <2>2. QED
    BY <1>2, <1>3, <2>1
<1>6. Announced(Root)'
  BY <1>2, Numbers DEF Due
<1>7. CASE spc' = "dead"
  BY <1>7 DEF Pending, Sending
<1>8. CASE spc' = "open"
  <2>1. dirs' = rest /\ n \notin Folder
    BY <1>8, Numbers DEF SendEntry, SendFolder, SendFileMetadata
  <2>2. ASSUME NEW m \in Node \ {Root}, Announced(Parent[m])'
        PROVE  Announced(m)' \/ \E k \in 1..Len(rest) : m \in rest[k]
    BY <1>2, <1>3, <2>1, <2>2 DEF Due
  <2>3. QED
    BY <1>5, <1>6, <1>8, <2>1, <2>2 DEF Pending
<1>9. CASE spc' = "entry"
  <2>1. dirs' = Append(rest, Children(n)) /\ n \in Folder
    BY <1>9 DEF SendEntry, SendFolder, SendFileMetadata
  <2>2. Children(n) \in SUBSET Node
    BY DEF Children
  <2>3. /\ Len(dirs') = Len(rest)+1
        /\ \A k \in 1..Len(rest) : dirs'[k] = rest[k]
        /\ dirs'[Len(rest)+1] = Children(n)
    BY <1>4, <2>1, <2>2, AppendProperties
  <2>4. ASSUME NEW m \in Children(n)
        PROVE  /\ m \in Node /\ m # Root /\ ~Announced(m)' /\ Announced(Parent[m])'
               /\ \A k \in 1..Len(rest) : m \notin rest[k]
    <3>1. m \in Node \ {Root} /\ Parent[m] = n
      BY <2>4 DEF Children
    <3>2. ~Announced(n) /\ (n # Root => Announced(Parent[n]))
      BY DEF Due
    <3>3. m # n
      BY <3>1, <3>2
    <3>4. ~Announced(m)
      BY <3>1, <3>2 DEF Walk, Announced
    <3>5. \A k \in 1..Len(rest) : m \notin rest[k]
      BY <3>1, <3>2 DEF Due
    <3>6. QED
      BY <1>2, <3>1, <3>3, <3>4, <3>5
  <2>5. ASSUME NEW k \in 1..Len(dirs'), NEW m \in dirs'[k]
        PROVE  /\ m # Root /\ ~Announced(m)' /\ Announced(Parent[m])'
               /\ \A l \in 1..Len(dirs') : m \in dirs'[l] => l = k
    <3>1. \A l \in 1..Len(dirs') : l \in 1..Len(rest) \/ l = Len(rest)+1
      BY <1>4, <2>3
    <3>2. CASE k \in 1..Len(rest)
      <4>1. m \in rest[k]
        BY <2>3, <2>5, <3>2
      <4>2. m \notin Children(n)
        BY <2>4, <3>2, <4>1
      <4>3. QED
        BY <1>5, <2>3, <3>1, <3>2, <4>1, <4>2
    <3>3. CASE k = Len(rest)+1
      <4>1. m \in Children(n)
        BY <2>3, <2>5, <3>3
      <4>2. QED
        BY <2>3, <2>4, <3>1, <3>3, <4>1
    <3>4. QED
      BY <3>1, <3>2, <3>3
  <2>6. ASSUME NEW m \in Node \ {Root}, Announced(Parent[m])'
        PROVE  Announced(m)' \/ \E k \in 1..Len(dirs') : m \in dirs'[k]
    <3>1. CASE Parent[m] = n
      <4>1. m \in dirs'[Len(rest)+1] /\ Len(rest)+1 \in 1..Len(dirs')
        BY <1>4, <2>3, <3>1 DEF Children
      <4>2. QED
        BY <4>1
    <3>2. CASE Parent[m] # n
      <4>1. Announced(m) \/ m = n \/ \E k \in 1..Len(rest) : m \in rest[k]
        BY <1>2, <1>3, <2>6, <3>2 DEF Due
      <4>2. \A k \in 1..Len(rest) : k \in 1..Len(dirs')
        BY <1>4, <2>3
      <4>3. QED
        BY <1>2, <2>3, <4>1, <4>2
    <3>3. QED
      BY <3>1, <3>2
  <2>7. QED
    BY <1>6, <1>9, <2>5, <2>6 DEF Pending
<1>10. QED
  BY <1>7, <1>8, <1>9, EntryWire, Numbers

LEMMA StartIsDue ==
  ASSUME Pending, spc = "start"
  PROVE  Due(Root, <<>>)
<1>1. Len(wire) = 0 /\ Len(<<>>) = 0
  BY EmptySeq DEF Pending
<1>2. \A m : ~Announced(m)
  BY <1>1 DEF Announced
<1>3. QED
  BY <1>1, <1>2 DEF Due

LEMMA ReadIsDue ==
  ASSUME IInv, Pending, spc = "entry", dirs # <<>>, NEW n \in dirs[Len(dirs)]
  PROVE  /\ n \in Node
         /\ [dirs EXCEPT ![Len(dirs)] = @ \ {n}] \in Seq(SUBSET Node)
         /\ Due(n, [dirs EXCEPT ![Len(dirs)] = @ \ {n}])
<1> DEFINE rest == [dirs EXCEPT ![Len(dirs)] = @ \ {n}]
<1>1. Len(dirs) \in 1..Len(dirs) /\ dirs[Len(dirs)] \subseteq Node
  BY Lengths, EmptySeq
<1>2. n \in Node /\ dirs[Len(dirs)] \ {n} \in SUBSET Node
  BY <1>1
<1>3. /\ rest \in Seq(SUBSET Node) /\ Len(rest) = Len(dirs)
      /\ \A k \in 1..Len(dirs) :
           rest[k] = IF k = Len(dirs) THEN dirs[Len(dirs)] \ {n} ELSE dirs[k]
  <2>1. dirs \in Seq(SUBSET Node)
    BY Lengths
  <2>2. /\ [dirs EXCEPT ![Len(dirs)] = dirs[Len(dirs)] \ {n}] \in Seq(SUBSET Node)
        /\ Len([dirs EXCEPT ![Len(dirs)] = dirs[Len(dirs)] \ {n}]) = Len(dirs)
        /\ \A k \in 1..Len(dirs) :
             [dirs EXCEPT ![Len(dirs)] = dirs[Len(dirs)] \ {n}][k]
               = IF k = Len(dirs) THEN dirs[Len(dirs)] \ {n} ELSE dirs[k]
    BY <1>1, <1>2, <2>1, ExceptSeq
  <2>3. QED
    BY <2>2
<1> HIDE DEF rest
<1>4. /\ Announced(Root) /\ n # Root /\ ~Announced(n) /\ Announced(Parent[n])
      /\ \A l \in 1..Len(dirs) : n \in dirs[l] => l = Len(dirs)
  BY <1>1 DEF Pending, Sending
<1>5. ASSUME NEW k \in 1..Len(rest), NEW m \in rest[k]
      PROVE  /\ m # Root /\ m # n /\ ~Announced(m) /\ Announced(Parent[m])
             /\ \A l \in 1..Len(rest) : m \in rest[l] => l = k
  <2>1. k \in 1..Len(dirs) /\ m \in dirs[k] /\ (m = n => k # Len(dirs))
    BY <1>3, <1>5
  <2>2. /\ m # Root /\ ~Announced(m) /\ Announced(Parent[m])
        /\ \A l \in 1..Len(dirs) : m \in dirs[l] => l = k
    BY <2>1 DEF Pending, Sending
  <2>3. m # n
    BY <1>4, <2>1
  <2>4. QED
    BY <1>3, <2>2, <2>3
<1>6. ASSUME NEW m \in Node \ {Root}, Announced(Parent[m])
      PROVE  Announced(m) \/ m = n \/ \E k \in 1..Len(rest) : m \in rest[k]
  <2>1. Announced(m) \/ \E k \in 1..Len(dirs) : m \in dirs[k]
    BY <1>6 DEF Pending
  <2>2. \A k \in 1..Len(dirs) : m \in dirs[k] => m = n \/ m \in rest[k]
    BY <1>3
  <2>3. QED
    BY <1>3, <2>1, <2>2
<1>7. Due(n, rest)
  BY <1>4, <1>5, <1>6 DEF Due
<1>8. QED
  BY <1>2, <1>3, <1>7 DEF rest

\* Steps that announce nothing and stay in the walk.
LEMMA QuietWalks ==
  ASSUME IInv, Walk, Pending, Len(wire') \in Nat, Len(wire') >= Len(wire), Kept,
         \A i \in Len(wire)+1..Len(wire') : \A m, t : wire'[i] # MetaByte(m, t, 0),
         \A i \in Len(wire)+1..Len(wire') : wire'[i] # Stop,
         dirs' = dirs, Sending, spc # "start", spc' \in {"entry", "open", "data"}
  PROVE  Walk' /\ Pending'
<1>1. /\ \A i \in 1..Len(wire') : \A m, t : HeaderAt(i, m, t)' <=> i <= Len(wire) /\ HeaderAt(i, m, t)
      /\ \A m \in Node : Announced(m)' <=> Announced(m)
  BY NoNewHeader
<1>2. Len(wire) \in Nat
  BY Lengths
<1>3. ASSUME NEW i \in 1..Len(wire'), NEW k \in 1..Len(wire'), NEW m \in Node,
             NEW t \in Size, NEW u \in Size, HeaderAt(i, m, t)', HeaderAt(k, m, u)'
      PROVE  i = k
  BY <1>1, <1>2, <1>3 DEF Walk
<1>4. ASSUME NEW i \in 1..Len(wire'), NEW m \in Node \ {Root}, NEW t \in Size,
             HeaderAt(i, m, t)'
      PROVE  \E k \in 1..i-1, u \in Size : HeaderAt(k, Parent[m], u)'
  <2>1. i <= Len(wire) /\ HeaderAt(i, m, t)
    BY <1>1, <1>4
  <2>2. PICK k \in 1..i-1, u \in Size : HeaderAt(k, Parent[m], u)
    BY <1>2, <2>1 DEF Walk
  <2>3. k \in 1..Len(wire') /\ k <= Len(wire)
    BY <1>2, <2>1
  <2>4. HeaderAt(k, Parent[m], u)'
    BY <1>1, <2>2, <2>3
  <2>5. QED
    BY <2>2, <2>4
<1>5. \A i \in 1..Len(wire') : wire'[i] # Stop
  <2>1. \A i \in 1..Len(wire) : wire[i] # Stop
    BY DEF Walk, Sending
  <2>2. QED
    BY <1>2, <2>1 DEF Kept
<1>6. Walk'
  BY <1>3, <1>4, <1>5 DEF Walk
<1>7. ASSUME NEW k \in 1..Len(dirs), NEW m \in dirs[k]
      PROVE  /\ m # Root /\ ~Announced(m)' /\ Announced(Parent[m])'
             /\ \A l \in 1..Len(dirs) : m \in dirs[l] => l = k
  <2>1. /\ m # Root /\ ~Announced(m) /\ Announced(Parent[m])
        /\ \A l \in 1..Len(dirs) : m \in dirs[l] => l = k
    BY <1>7 DEF Pending
  <2>2. m \in Node /\ Parent[m] \in Node
    BY <1>7, <2>1, Lengths, Numbers
  <2>3. QED
    BY <1>1, <2>1, <2>2
<1>8. ASSUME NEW m \in Node \ {Root}, Announced(Parent[m])'
      PROVE  Announced(m)' \/ \E k \in 1..Len(dirs) : m \in dirs[k]
  BY <1>1, <1>8, Numbers DEF Pending, Sending
<1>9. Announced(Root)'
  BY <1>1, Numbers DEF Pending, Sending
<1>10. QED
  BY <1>6, <1>7, <1>8, <1>9 DEF Pending

\* readdir returned every entry: the stack is one call shorter.
LEMMA EndDirWalks ==
  ASSUME IInv, Walk, Pending, EndDir
  PROVE  Walk' /\ Pending'
<1>1. /\ wire' = wire /\ spc' = "entry" /\ spc = "entry" /\ Len(dirs) \in Nat /\ Len(dirs) >= 1
      /\ dirs[Len(dirs)] = {}
      /\ dirs \in Seq(SUBSET Node)
      /\ dirs' = SubSeq(dirs, 1, Len(dirs)-1)
  BY Lengths, EmptySeq DEF EndDir
<1>2. Len(dirs') = Len(dirs)-1 /\ \A k \in 1..Len(dirs)-1 : dirs'[k] = dirs[k]
  <2>1. \A k \in 1..Len(dirs)-1 : dirs[k] \in SUBSET Node
    BY <1>1, Lengths
  <2>2. /\ Len(SubSeq(dirs, 1, Len(dirs)-1)) =
             IF 1 <= Len(dirs)-1 THEN (Len(dirs)-1)-1+1 ELSE 0
        /\ \A k \in 1..(Len(dirs)-1)-1+1 : SubSeq(dirs, 1, Len(dirs)-1)[k] = dirs[1+k-1]
    BY <1>1, <2>1, SubSeqProperties
  <2>3. (Len(dirs)-1)-1+1 = Len(dirs)-1 /\ \A k \in 1..Len(dirs)-1 : 1+k-1 = k
    BY <1>1
  <2>4. QED
    BY <1>1, <2>2, <2>3
<1>3. \A m : Announced(m)' <=> Announced(m)
  BY <1>1 DEF Announced, HeaderAt
<1>4. Walk'
  BY <1>1 DEF Walk, HeaderAt
<1>5. ASSUME NEW k \in 1..Len(dirs'), NEW m \in dirs'[k]
      PROVE  /\ m # Root /\ ~Announced(m)' /\ Announced(Parent[m])'
             /\ \A l \in 1..Len(dirs') : m \in dirs'[l] => l = k
  <2>1. k \in 1..Len(dirs) /\ m \in dirs[k]
    BY <1>1, <1>2, <1>5
  <2>2. \A l \in 1..Len(dirs') : l \in 1..Len(dirs) /\ dirs'[l] = dirs[l]
    BY <1>1, <1>2
  <2>3. /\ m # Root /\ ~Announced(m) /\ Announced(Parent[m])
        /\ \A l \in 1..Len(dirs) : m \in dirs[l] => l = k
    BY <1>1, <2>1 DEF Pending, Sending
  <2>4. QED
    BY <1>3, <2>2, <2>3
<1>6. ASSUME NEW m \in Node \ {Root}, Announced(Parent[m])'
      PROVE  Announced(m)' \/ \E k \in 1..Len(dirs') : m \in dirs'[k]
  <2>1. Announced(m) \/ \E k \in 1..Len(dirs) : m \in dirs[k]
    BY <1>1, <1>3, <1>6 DEF Pending
  <2>2. \A k \in 1..Len(dirs) : m \in dirs[k] => k \in 1..Len(dirs') /\ dirs'[k] = dirs[k]
    BY <1>1, <1>2
  <2>3. QED
    BY <1>3, <2>1, <2>2
<1>7. Announced(Root)'
  BY <1>1, <1>3 DEF Pending
<1>8. QED
  BY <1>1, <1>4, <1>5, <1>6, <1>7 DEF Pending

LEMMA SendStopWalks ==
  ASSUME IInv, Walk, Pending, SendStop
  PROVE  Walk' /\ Pending'
<1>1. /\ spc = "entry" /\ spc' = "done" /\ dirs = <<>> /\ dirs' = <<>>
      /\ wire' = Append(wire, Stop) /\ Len(dirs) = 0
  BY EmptySeq DEF SendStop
<1>2. Len(wire') = Len(wire)+1 /\ Kept /\ wire'[Len(wire)+1] = Stop /\ Len(wire) \in Nat
  BY <1>1, Lengths, CellParts, AppendProperties DEF Kept
<1>3. \A i \in Len(wire)+1..Len(wire') : \A m, t : wire'[i] # MetaByte(m, t, 0)
  BY <1>2, CellFields
<1>4. /\ \A i \in 1..Len(wire') : \A m, t : HeaderAt(i, m, t)' <=> i <= Len(wire) /\ HeaderAt(i, m, t)
      /\ \A m \in Node : Announced(m)' <=> Announced(m)
  <2>1. Len(wire') \in Nat /\ Len(wire') >= Len(wire)
    BY <1>2
  <2>2. QED
    BY <1>2, <1>3, <2>1, NoNewHeader
<1>5. ASSUME NEW i \in 1..Len(wire'), NEW k \in 1..Len(wire'), NEW m \in Node,
             NEW t \in Size, NEW u \in Size, HeaderAt(i, m, t)', HeaderAt(k, m, u)'
      PROVE  i = k
  BY <1>2, <1>4, <1>5 DEF Walk
<1>6. ASSUME NEW i \in 1..Len(wire'), NEW m \in Node \ {Root}, NEW t \in Size,
             HeaderAt(i, m, t)'
      PROVE  \E k \in 1..i-1, u \in Size : HeaderAt(k, Parent[m], u)'
  <2>1. i <= Len(wire) /\ HeaderAt(i, m, t)
    BY <1>4, <1>6
  <2>2. PICK k \in 1..i-1, u \in Size : HeaderAt(k, Parent[m], u)
    BY <1>2, <2>1 DEF Walk
  <2>3. k \in 1..Len(wire') /\ k <= Len(wire)
    BY <1>2, <2>1
  <2>4. HeaderAt(k, Parent[m], u)'
    BY <1>4, <2>2, <2>3
  <2>5. QED
    BY <2>2, <2>4
<1>7. ASSUME NEW i \in 1..Len(wire'), wire'[i] = Stop
      PROVE  i = Len(wire') /\ spc' = "done"
  <2>1. \A k \in 1..Len(wire) : wire[k] # Stop
    BY <1>1 DEF Walk
  <2>2. QED
    BY <1>1, <1>2, <1>7, <2>1 DEF Kept
<1>8. Walk'
  BY <1>5, <1>6, <1>7 DEF Walk
<1>9. ASSUME NEW m \in Node \ {Root}, Announced(Parent[m])'
      PROVE  Announced(m)'
  BY <1>1, <1>4, <1>9, Numbers DEF Pending
<1>10. Announced(Root)'
  BY <1>1, <1>4, Numbers DEF Pending
<1>11. wire' # <<>> /\ wire'[Len(wire')] = Stop
  BY <1>2, EmptySeq
<1>12. QED
  BY <1>1, <1>8, <1>9, <1>10, <1>11 DEF Pending, Sending

\* A sender that dies leaves a prefix of what it sent.
LEMMA CutWalks ==
  ASSUME IInv, Walk, Sending, spc' = "dead", Len(wire') \in 0..Len(wire),
         \A i \in 1..Len(wire') : wire'[i] = wire[i]
  PROVE  Walk' /\ Pending'
<1>1. Len(wire) \in Nat /\ 1..Len(wire') \subseteq 1..Len(wire)
  BY Lengths
<1>2. \A i \in 1..Len(wire') : \A m, t : HeaderAt(i, m, t)' <=> HeaderAt(i, m, t)
  BY DEF HeaderAt
<1>3. ASSUME NEW i \in 1..Len(wire'), NEW m \in Node \ {Root}, NEW t \in Size,
             HeaderAt(i, m, t)'
      PROVE  \E k \in 1..i-1, u \in Size : HeaderAt(k, Parent[m], u)'
  <2>1. PICK k \in 1..i-1, u \in Size : HeaderAt(k, Parent[m], u)
    BY <1>1, <1>2, <1>3 DEF Walk
  <2>2. k \in 1..Len(wire')
    BY <1>1
  <2>3. QED
    BY <1>2, <2>1, <2>2
<1>4. \A i \in 1..Len(wire') : wire'[i] # Stop
  BY <1>1 DEF Walk, Sending
<1>5. \A i, k \in 1..Len(wire'), m \in Node, s, t \in Size :
        HeaderAt(i, m, s)' /\ HeaderAt(k, m, t)' => i = k
  BY <1>1, <1>2 DEF Walk
<1>6. QED
  BY <1>3, <1>4, <1>5 DEF Walk, Pending, Sending

\* The bytes of one sendfile.
LEMMA SentBytes ==
  ASSUME IInv, SendFile
  PROVE  \E k \in Nat \ {0} :
           /\ offset' = offset + k /\ offset + k <= total /\ offset \in Nat /\ total \in Nat
           /\ Len(wire') = Len(wire) + k
           /\ Kept
           /\ \A j \in offset..offset+k-1 :
                wire'[Len(wire)+1+j-offset] = DataByte(item, j)
           /\ \A i \in Len(wire)+1..Len(wire') : wire'[i][1] = "data"
<1>1. item \in File /\ fsize[item] \in 0..MaxSize /\ total \in 0..MaxSize /\ offset \in 0..total
  BY DEF IInv, TypeOK, SenderTypeOK, SendFile
<1>2. PICK k \in 1..AtMost(total, fsize[item]) - offset :
             wire' = wire \o Chunk(item, offset, k) /\ offset' = offset + k
  BY DEF SendFile
<1>3. /\ k \in Nat \ {0} /\ offset \in Nat /\ total \in Nat
      /\ offset + k <= total /\ offset + k <= MaxSize
  BY <1>1, <1>2, Numbers DEF AtMost
<1>4. Chunk(item, offset, k) \in Seq(Cell)
  BY <1>1, <1>3, ChunkCells
<1>5. Len(Chunk(item, offset, k)) = k
      /\ \A j \in 1..k : Chunk(item, offset, k)[j] = DataByte(item, offset+j-1)
  BY <1>3 DEF Chunk
<1>6. /\ Len(wire') = Len(wire) + k
      /\ Kept
      /\ \A j \in 1..k : wire'[Len(wire)+j] = Chunk(item, offset, k)[j]
  BY <1>2, <1>4, <1>5, Grown
<1>7. Len(wire) \in Nat
  BY Lengths
<1>8. ASSUME NEW j \in offset..offset+k-1
      PROVE  wire'[Len(wire)+1+j-offset] = DataByte(item, j)
  <2> DEFINE l == j-offset+1
  <2>1. l \in 1..k /\ Len(wire)+l = Len(wire)+1+j-offset /\ offset+l-1 = j
    BY <1>3, <1>7
  <2> HIDE DEF l
  <2>2. wire'[Len(wire)+l] = DataByte(item, offset+l-1)
    BY <1>5, <1>6, <2>1
  <2>3. QED
    BY <2>1, <2>2
<1>9. ASSUME NEW i \in Len(wire)+1..Len(wire')
      PROVE  wire'[i][1] = "data"
  <2> DEFINE l == i-Len(wire)
  <2>1. l \in 1..k /\ Len(wire)+l = i
    BY <1>6, <1>7
  <2> HIDE DEF l
  <2>2. wire'[Len(wire)+l] = DataByte(item, offset+l-1)
    BY <1>5, <1>6, <2>1
  <2>3. QED
    BY <2>1, <2>2, CellFields
<1>10. QED
  BY <1>2, <1>3, <1>6, <1>8, <1>9

\* A fault leaves a prefix of the stream that holds what was received.
LEMMA CutWire ==
  ASSUME IInv, Kill(rd) \/ Reset(rd)
  PROVE  /\ Sending /\ spc' = "dead" /\ raced' = raced
         /\ Len(wire') \in rd..Len(wire)
         /\ \A i \in 1..Len(wire') : wire'[i] = wire[i]
<1>1. PICK k \in rd..Len(wire) : wire' = SubSeq(wire, 1, k)
  BY Lengths DEF Kill, Reset
<1>2. k \in Nat /\ k <= Len(wire) /\ \A i \in 1..k : wire[i] \in Cell
  BY Lengths, ElementOfSeq
<1>3. Len(wire') = k /\ \A i \in 1..k : wire'[i] = wire[i]
  <2>1. /\ Len(SubSeq(wire, 1, k)) = IF 1 <= k THEN k-1+1 ELSE 0
        /\ \A i \in 1..k-1+1 : SubSeq(wire, 1, k)[i] = wire[1+i-1]
    BY <1>2, SubSeqProperties
  <2>2. k-1+1 = k /\ \A i \in 1..k : 1+i-1 = i
    BY <1>2
  <2>3. QED
    BY <1>1, <1>2, <2>1, <2>2
<1>4. QED
  BY <1>3 DEF Kill, Reset

LEMMA WalkStep ==
  ASSUME IInv, Walk, Pending, [Next]_vars
  PROVE  Walk' /\ Pending'
<1>1. Len(wire) \in Nat /\ rd \in 0..Len(wire)
  BY Lengths
<1>2. ASSUME UNCHANGED <<wire, dirs, spc>>
      PROVE  Walk' /\ Pending'
  <2>1. Walk'
    BY <1>2 DEF Walk, HeaderAt
  <2>2. \A m : Announced(m)' <=> Announced(m)
    BY <1>2 DEF Announced, HeaderAt
  <2>3. Sending' <=> Sending
    BY <1>2 DEF Sending
  <2>4. QED
    BY <1>2, <2>1, <2>2, <2>3 DEF Pending
<1>3. CASE UNCHANGED vars \/ Receive \/ Ended
  BY <1>2, <1>3 DEF vars, senderVars, Receive, ReceiverStep, Ended, RecvMetadata,
     MetadataEof, MetadataError, RecvPath, PathEof, PathError, EndOfFolder, CreateFile,
     CreateFolder, RecvFile, CloseFile, FileError
<1>4. CASE Environment
  <2>1. CASE Touch
    BY <1>2, <2>1 DEF Touch
  <2>2. CASE Kill(rd) \/ Reset(rd)
    <3>1. /\ Sending /\ spc' = "dead" /\ Len(wire') \in 0..Len(wire)
          /\ \A i \in 1..Len(wire') : wire'[i] = wire[i]
      BY <1>1, <2>2, CutWire
    <3>2. QED
      BY <3>1, CutWalks
  <2>3. QED
    BY <1>4, <2>1, <2>2 DEF Environment
<1>5. CASE Start
  <2>1. Root \in Node /\ <<>> \in Seq(SUBSET Node) /\ Sending /\ SendEntry(Root, <<>>)
    BY <1>5, Numbers, EmptySeq DEF Start, Sending
  <2>2. Due(Root, <<>>)
    BY <1>5, StartIsDue DEF Start
  <2>3. QED
    BY <2>1, <2>2, EntryWalks, EntryPends
<1>6. CASE ReadDir
  <2>1. PICK n \in dirs[Len(dirs)] : SendEntry(n, [dirs EXCEPT ![Len(dirs)] = @ \ {n}])
    BY <1>6 DEF ReadDir
  <2>2. spc = "entry" /\ dirs # <<>> /\ Sending
    BY <1>6 DEF ReadDir, Sending
  <2>3. /\ n \in Node
        /\ [dirs EXCEPT ![Len(dirs)] = @ \ {n}] \in Seq(SUBSET Node)
        /\ Due(n, [dirs EXCEPT ![Len(dirs)] = @ \ {n}])
    BY <2>2, ReadIsDue
  <2>4. QED
    BY <2>1, <2>2, <2>3, EntryWalks, EntryPends
<1>7. CASE OpenFile \/ CreateFileToSend \/ CreateFileRefused \/ EndFile
  <2>1. /\ wire' = wire /\ dirs' = dirs /\ Sending /\ spc # "start"
        /\ spc' \in {"entry", "open", "data"}
    BY <1>7 DEF OpenFile, CreateFileToSend, CreateFileRefused, EndFile, Sending
  <2>2. Kept /\ Len(wire') \in Nat /\ Len(wire') >= Len(wire)
        /\ \A i \in Len(wire)+1..Len(wire') : FALSE
    BY <1>1, <2>1 DEF Kept
  <2>3. QED
    BY <2>1, <2>2, QuietWalks
<1>8. CASE SendFile
  <2>1. /\ dirs' = dirs /\ Sending /\ spc # "start" /\ spc' \in {"entry", "open", "data"}
    BY <1>8 DEF SendFile, Sending
  <2>2. /\ Kept /\ Len(wire') \in Nat /\ Len(wire') >= Len(wire)
        /\ \A i \in Len(wire)+1..Len(wire') : wire'[i][1] = "data"
    BY <1>1, <1>8, SentBytes
  <2>3. /\ \A i \in Len(wire)+1..Len(wire') : \A m, t : wire'[i] # MetaByte(m, t, 0)
        /\ \A i \in Len(wire)+1..Len(wire') : wire'[i] # Stop
    BY <2>2, CellFields
  <2>4. QED
    BY <2>1, <2>2, <2>3, QuietWalks
<1>9. CASE InvalidPath \/ SendFileFails
  <2>1. Sending /\ spc' = "dead" /\ wire' = wire
    BY <1>9 DEF InvalidPath, SendFileFails, Sending
  <2>2. QED
    BY <1>1, <2>1, CutWalks
<1>10. QED
  BY <1>3, <1>4, <1>5, <1>6, <1>7, <1>8, <1>9, EndDirWalks, SendStopWalks
     DEF Next, Send, SenderStep

(***************************************************************************)
(* The items of the stream.                                                *)
(***************************************************************************)
Framed == \A i \in 1..Len(wire), n \in Node, s \in Size : HeaderAt(i, n, s) => Item(i, n, s)

\* Neither a header nor the stop byte is inside an item.
LEMMA InnerByte ==
  ASSUME IInv, NEW i \in Nat, NEW n \in Node, NEW s \in Size, Item(i, n, s),
         NEW k \in i+1..Behind(i, n, s)-1, k <= Len(wire)
  PROVE  wire[k] # Stop /\ \A m, t : ~HeaderAt(k, m, t)
<1>1. METADATA \in Nat /\ PathLen[n] \in Nat /\ s \in Nat /\ Len(wire) \in Nat
  BY Numbers, Lengths
<1> DEFINE d == k-i
<1>2. d \in 1..METADATA+PathLen[n]+s-1 /\ k = i+d
  BY <1>1 DEF Behind
<1> HIDE DEF d
<1>3. CASE d < METADATA
  <2>1. d \in 0..METADATA-1 /\ d # 0
    BY <1>1, <1>2, <1>3
  <2>2. wire[k] = MetaByte(n, s, d)
    BY <1>2, <2>1 DEF Item
  <2>3. QED
    BY <2>1, <2>2, CellFields DEF HeaderAt
<1>4. CASE METADATA <= d /\ d < METADATA+PathLen[n]
  <2>1. d-METADATA \in 0..PathLen[n]-1 /\ i+METADATA+(d-METADATA) = k
    BY <1>1, <1>2, <1>4
  <2>2. wire[k] = PathByte(n, d-METADATA)
    BY <2>1 DEF Item
  <2>3. QED
    BY <2>2, CellFields DEF HeaderAt
<1>5. CASE METADATA+PathLen[n] <= d
  <2>1. d-METADATA-PathLen[n] \in 0..s-1
        /\ i+METADATA+PathLen[n]+(d-METADATA-PathLen[n]) = k
    BY <1>1, <1>2, <1>5
  <2>2. wire[k] = DataByte(n, d-METADATA-PathLen[n])
    BY <2>1 DEF Item
  <2>3. QED
    BY <2>2, CellFields DEF HeaderAt
<1>6. QED
  BY <1>1, <1>2, <1>3, <1>4, <1>5

LEMMA Apart ==
  ASSUME IInv, Framed, NEW i \in 1..Len(wire), NEW k \in 1..Len(wire), i < k,
         NEW n \in Node, NEW s \in Size, HeaderAt(i, n, s),
         NEW m, NEW t, HeaderAt(k, m, t)
  PROVE  Behind(i, n, s) <= k
<1>1. Item(i, n, s) /\ Behind(i, n, s) \in Nat /\ Len(wire) \in Nat
  BY Numbers, Lengths DEF Framed, Behind
<1>2. SUFFICES ASSUME ~(Behind(i, n, s) <= k)
               PROVE  FALSE
  OBVIOUS
<1>3. k \in i+1..Behind(i, n, s)-1 /\ i \in Nat /\ k <= Len(wire)
  BY <1>1, <1>2
<1>4. QED
  BY <1>1, <1>3, InnerByte

\* An item that is there to its end stays one when more comes.
LEMMA OldItem ==
  ASSUME IInv, Kept, Len(wire') \in Nat, Len(wire') >= Len(wire),
         NEW i \in 1..Len(wire), NEW n \in Node, NEW s \in Size, Item(i, n, s),
         NEW e \in Nat, e = Behind(i, n, s), e <= Len(wire)+1,
         e = Len(wire)+1 => Boundary(e)'
  PROVE  Item(i, n, s)'
<1>1. METADATA \in Nat /\ PathLen[n] \in Nat /\ s \in Nat /\ Len(wire) \in Nat
  BY Numbers, Lengths
<1>2. i+METADATA+PathLen[n]+s <= Len(wire)+1
  BY <1>1 DEF Behind
<1>3. \A j \in 0..METADATA-1 : wire'[i+j] = MetaByte(n, s, j)
  <2> TAKE j \in 0..METADATA-1
  <2>1. i+j \in 1..Len(wire)
    BY <1>1, <1>2
  <2>2. QED
    BY <2>1 DEF Item, Kept
<1>4. \A j \in 0..PathLen[n]-1 : wire'[i+METADATA+j] = PathByte(n, j)
  <2> TAKE j \in 0..PathLen[n]-1
  <2>1. i+METADATA+j \in 1..Len(wire)
    BY <1>1, <1>2
  <2>2. QED
    BY <2>1 DEF Item, Kept
<1>5. \A j \in 0..s-1 : wire'[i+METADATA+PathLen[n]+j] = DataByte(n, j)
  <2> TAKE j \in 0..s-1
  <2>1. i+METADATA+PathLen[n]+j \in 1..Len(wire)
    BY <1>1, <1>2
  <2>2. QED
    BY <2>1 DEF Item, Kept
<1>6. Boundary(e)'
  <2>1. CASE e <= Len(wire)
    <3>1. e \in 1..Len(wire)
      BY <1>1, <2>1 DEF Behind
    <3>2. wire[e] = Stop \/ \E m \in Node, t \in Size : HeaderAt(e, m, t)
      BY <2>1 DEF Item, Boundary
    <3>3. QED
      BY <3>1, <3>2 DEF Kept, Boundary, HeaderAt
  <2>2. QED
    BY <1>1, <2>1
<1>7. n \in Folder => s = 0
  BY DEF Item
<1>8. Behind(i, n, s)' = e
  BY DEF Behind
<1>9. QED
  BY <1>3, <1>4, <1>5, <1>6, <1>7, <1>8 DEF Item

LEMMA EntryItems ==
  ASSUME IInv, Items, NEW n \in Node, NEW rest, SendEntry(n, rest),
         spc = "entry" \/ wire = <<>>
  PROVE  Items'
<1>1. PICK s \in Size :
        /\ wire' = wire \o Header(n, s) \o PathOf(n)
        /\ n \in Folder => s = 0 /\ spc' \in {"entry", "dead"}
        /\ n \in File => s = fsize[n] /\ spc' = "open" /\ told' = s /\ item' = n
  BY EntryWire
<1>2. /\ Len(wire') = Len(wire) + METADATA + PathLen[n]
      /\ Kept
      /\ \A j \in 0..METADATA-1 : wire'[Len(wire)+1+j] = MetaByte(n, s, j)
      /\ \A j \in 0..PathLen[n]-1 : wire'[Len(wire)+1+METADATA+j] = PathByte(n, j)
  BY <1>1, AnnouncementBytes
<1>3. \A i \in 1..Len(wire') : \A m, t :
        HeaderAt(i, m, t)' <=> \/ i <= Len(wire) /\ HeaderAt(i, m, t)
                               \/ i = Len(wire)+1 /\ m = n /\ t = s
  BY <1>1, NewHeader
<1>4. /\ Len(wire) \in Nat /\ METADATA \in Nat /\ METADATA >= 1
      /\ PathLen[n] \in Nat /\ PathLen[n] >= 1 /\ s \in Nat
      /\ Len(wire') \in Nat /\ Len(wire') >= Len(wire)+1
  BY <1>2, Lengths, Numbers
<1>5. Framed /\ Complete(1..Len(wire))
  BY EmptySeq DEF Items, Framed, Complete
<1>6. PICK f \in Nat : f = Len(wire)+1
  BY <1>4
<1>7. f \in 1..Len(wire') /\ HeaderAt(f, n, s)' /\ Boundary(f)'
  BY <1>3, <1>4, <1>6 DEF Boundary
<1>8. Boundary(1)'
  <2>1. CASE Len(wire) = 0
    BY <1>4, <1>6, <1>7, <2>1
  <2>2. CASE Len(wire) >= 1
    <3>1. wire[1] = Stop \/ \E m \in Node, t \in Size : HeaderAt(1, m, t)
      BY <2>2 DEF Items, Boundary
    <3>2. wire'[1] = wire[1]
      BY <1>2, <1>4, <2>2 DEF Kept
    <3>3. QED
      BY <3>1, <3>2 DEF Boundary, HeaderAt
  <2>3. QED
    BY <1>4, <2>1, <2>2
<1>9. ASSUME NEW i \in 1..Len(wire'), NEW m \in Node, NEW t \in Size, HeaderAt(i, m, t)'
      PROVE  Item(i, m, t)'
  <2>1. CASE i <= Len(wire) /\ HeaderAt(i, m, t)
    <3>1. i \in 1..Len(wire) /\ Item(i, m, t)
      BY <1>4, <1>5, <2>1 DEF Framed
    <3>2. PICK e \in Nat : e = Behind(i, m, t)
      BY <3>1, Numbers, Lengths DEF Behind
    <3>3. e <= Len(wire)+1
      BY <1>5, <2>1, <3>1, <3>2 DEF Complete
    <3>4. e = Len(wire)+1 => Boundary(e)'
      BY <1>6, <1>7
    <3>5. QED
      BY <1>2, <1>4, <3>1, <3>2, <3>3, <3>4, OldItem
  <2>2. CASE i = Len(wire)+1 /\ m = n /\ t = s
    <3>1. i = f
      BY <1>6, <2>2
    <3>2. \A j \in 0..METADATA-1 : wire'[f+j] = MetaByte(n, s, j)
      BY <1>2, <1>6
    <3>3. \A j \in 0..PathLen[n]-1 : wire'[f+METADATA+j] = PathByte(n, j)
      BY <1>2, <1>6
    <3>4. \A j \in 0..s-1 : ~(f+METADATA+PathLen[n]+j <= Len(wire'))
      BY <1>2, <1>4, <1>6
    <3>5. ~(f+METADATA+PathLen[n]+s <= Len(wire'))
      BY <1>2, <1>4, <1>6
    <3>6. n \in Folder => s = 0
      BY <1>1
    <3>7. QED
      BY <2>2, <3>1, <3>2, <3>3, <3>4, <3>5, <3>6 DEF Item, Boundary, Behind
  <2>3. QED
    BY <1>3, <1>9, <2>1, <2>2
<1>10. ASSUME NEW i \in 1..Len(wire'), i # f, NEW m \in Node, NEW t \in Size,
              HeaderAt(i, m, t)'
       PROVE  Behind(i, m, t) <= Len(wire')+1
  <2>1. i \in 1..Len(wire) /\ HeaderAt(i, m, t)
    BY <1>3, <1>4, <1>6, <1>10
  <2>2. Behind(i, m, t) <= Len(wire)+1 /\ Behind(i, m, t) \in Nat
    BY <1>5, <2>1, Numbers DEF Complete, Behind
  <2>3. QED
    BY <1>4, <2>2
<1>11. CASE n \in Folder
  <2>1. n \notin File /\ spc' \in {"entry", "dead"} /\ s = 0
    BY <1>1, <1>11, Numbers
  <2>2. ASSUME NEW i \in 1..Len(wire'), NEW m \in Node, NEW t \in Size, HeaderAt(i, m, t)'
        PROVE  Behind(i, m, t) <= Len(wire')+1
    <3>1. CASE i = f
      <4>1. m = n /\ t = s
        BY <1>3, <1>4, <1>6, <2>2, <3>1
      <4>2. QED
        BY <1>2, <1>4, <1>6, <2>1, <3>1, <4>1 DEF Behind
    <3>2. QED
      BY <1>10, <2>2, <3>1
  <2>3. Complete(1..Len(wire))'
    BY <2>2 DEF Complete, Behind
  <2>4. QED
    BY <1>8, <1>9, <2>1, <2>3 DEF Items
<1>12. CASE n \in File
  <2>1. spc' = "open" /\ told' = s /\ item' = n
    BY <1>1, <1>12
  <2>2. Complete(1..Len(wire) \ {f})'
    BY <1>10 DEF Complete, Behind
  <2>3. Len(wire')+1 = f+METADATA+PathLen[n]+0
    BY <1>2, <1>4, <1>6
  <2>4. QED
    BY <1>7, <1>8, <1>9, <2>1, <2>2, <2>3 DEF Items
<1>13. QED
  BY <1>11, <1>12, Numbers

LEMMA SendFileItems ==
  ASSUME IInv, Items, SendFile
  PROVE  Items'
<1>1. PICK k \in Nat \ {0} :
        /\ offset' = offset + k /\ offset + k <= total /\ offset \in Nat /\ total \in Nat
        /\ Len(wire') = Len(wire) + k
        /\ Kept
        /\ \A j \in offset..offset+k-1 :
             wire'[Len(wire)+1+j-offset] = DataByte(item, j)
        /\ \A i \in Len(wire)+1..Len(wire') : wire'[i][1] = "data"
  BY SentBytes
<1>2. /\ spc = "data" /\ spc' = "data" /\ item' = item /\ told' = told /\ total' = total
      /\ item \in File /\ item \in Node /\ told \in Size /\ total = told
  BY Numbers DEF SendFile, Items, IInv, TypeOK, SenderTypeOK, Size
<1>3. /\ Len(wire) \in Nat /\ Len(wire') \in Nat /\ Len(wire') >= Len(wire)
      /\ METADATA \in Nat /\ METADATA >= 1
      /\ PathLen[item] \in Nat /\ PathLen[item] >= 1 /\ told \in Nat
  BY <1>1, <1>2, Lengths, Numbers
<1>4. PICK i \in 1..Len(wire) :
        /\ HeaderAt(i, item, told)
        /\ Len(wire) + 1 = i + METADATA + PathLen[item] + offset
        /\ Complete(1..Len(wire) \ {i})
  BY <1>2 DEF Items
<1>a. /\ Len(wire) + 1 = i + METADATA + PathLen[item] + offset
      /\ Len(wire') = Len(wire) + k /\ k \in Nat /\ i \in Nat /\ i >= 1
      /\ offset \in Nat /\ offset + k <= told /\ offset' = offset + k
  BY <1>1, <1>2, <1>4
<1>b. \A p \in 1..Len(wire) : wire'[p] = wire[p]
  BY <1>1 DEF Kept
<1>5. \A l \in 1..Len(wire') : \A m, t :
        HeaderAt(l, m, t)' <=> l <= Len(wire) /\ HeaderAt(l, m, t)
  <2>1. \A l \in Len(wire)+1..Len(wire') : \A m, t : wire'[l] # MetaByte(m, t, 0)
    BY <1>1, CellFields
  <2>2. QED
    BY <1>1, <1>3, <2>1, NoNewHeader
<1>6. Framed /\ Item(i, item, told)
  BY <1>2, <1>4 DEF Items, Framed
\* The other items end where the last one begins, or before.
<1>7. ASSUME NEW l \in 1..Len(wire), l # i, NEW m \in Node, NEW t \in Size,
             HeaderAt(l, m, t)
      PROVE  Behind(l, m, t) \in Nat /\ Behind(l, m, t) <= i
  <2>1. Behind(l, m, t) \in Nat
    BY <1>3, Numbers DEF Behind
  <2>2. ~(i < l)
    <3>1. Behind(i, item, told) > Len(wire)
      BY <1>1, <1>2, <1>3, <1>4 DEF Behind
    <3>2. i < l => Behind(i, item, told) <= l
      BY <1>2, <1>4, <1>6, <1>7, Apart
    <3>3. QED
      BY <1>2, <1>3, <3>1, <3>2 DEF Behind
  <2>3. l < i
    BY <1>3, <1>7, <2>2
  <2>4. QED
    BY <1>2, <1>4, <1>6, <1>7, <2>1, <2>3, Apart
<1>8. Boundary(1)'
  <2>1. 1 \in 1..Len(wire)
    BY <1>3, <1>4
  <2>2. wire[1] = Stop \/ \E m \in Node, t \in Size : HeaderAt(1, m, t)
    BY <2>1 DEF Items, Boundary
  <2>3. QED
    BY <1>1, <2>1, <2>2 DEF Kept, Boundary, HeaderAt
<1>9. Item(i, item, told)'
  <2>1. \A j \in 0..METADATA-1 : wire'[i+j] = MetaByte(item, told, j)
    <3> TAKE j \in 0..METADATA-1
    <3>1. i+j \in 1..Len(wire) /\ i+j <= Len(wire)
      BY <1>3, <1>a
    <3>2. QED
      BY <1>b, <1>6, <3>1 DEF Item
  <2>2. \A j \in 0..PathLen[item]-1 : wire'[i+METADATA+j] = PathByte(item, j)
    <3> TAKE j \in 0..PathLen[item]-1
    <3>1. i+METADATA+j \in 1..Len(wire) /\ i+METADATA+j <= Len(wire)
      BY <1>3, <1>a
    <3>2. QED
      BY <1>b, <1>6, <3>1 DEF Item
  <2>3. \A j \in 0..told-1 : i+METADATA+PathLen[item]+j <= Len(wire') =>
          wire'[i+METADATA+PathLen[item]+j] = DataByte(item, j)
    <3> SUFFICES ASSUME NEW j \in 0..told-1, i+METADATA+PathLen[item]+j <= Len(wire')
                 PROVE  wire'[i+METADATA+PathLen[item]+j] = DataByte(item, j)
      OBVIOUS
    <3>1. CASE j < offset
      <4>1. i+METADATA+PathLen[item]+j \in 1..Len(wire) /\ i+METADATA+PathLen[item]+j <= Len(wire)
        BY <1>3, <1>a, <3>1
      <4>2. QED
        BY <1>b, <1>6, <4>1 DEF Item
    <3>2. CASE offset <= j
      <4>1. j \in offset..offset+k-1 /\ Len(wire)+1+j-offset = i+METADATA+PathLen[item]+j
        BY <1>3, <1>a, <3>2
      <4>2. wire'[Len(wire)+1+j-offset] = DataByte(item, j)
        BY <1>1, <4>1
      <4>3. QED
        BY <4>1, <4>2
    <3>3. QED
      BY <1>1, <3>1, <3>2
  <2>4. Boundary(Behind(i, item, told))'
    <3>1. Behind(i, item, told)' = i+METADATA+PathLen[item]+told
      BY <1>2 DEF Behind
    <3>2. ~(i+METADATA+PathLen[item]+told <= Len(wire'))
      BY <1>1, <1>2, <1>3, <1>4
    <3>3. QED
      BY <1>2, <3>2 DEF Boundary, Behind
  <2>5. item \in Folder => told = 0
    BY <1>6 DEF Item
  <2>6. QED
    BY <1>2, <2>1, <2>2, <2>3, <2>4, <2>5 DEF Item
<1>10. ASSUME NEW l \in 1..Len(wire'), NEW m \in Node, NEW t \in Size, HeaderAt(l, m, t)'
       PROVE  Item(l, m, t)'
  <2>1. l \in 1..Len(wire) /\ HeaderAt(l, m, t)
    BY <1>3, <1>5, <1>10
  <2>2. CASE l = i
    <3>1. m = item /\ t = told
      BY <1>4, <2>1, <2>2, CellFields DEF HeaderAt
    <3>2. QED
      BY <1>2, <1>9, <2>2, <3>1 DEF Item, Boundary, HeaderAt, Behind
  <2>3. CASE l # i
    <3>1. PICK e \in Nat : e = Behind(l, m, t)
      BY <1>7, <2>1, <2>3
    <3>2. e <= Len(wire)
      BY <1>3, <1>7, <2>1, <2>3, <3>1
    <3>3. Item(l, m, t)
      BY <1>6, <2>1 DEF Framed
    <3>4. e <= Len(wire)+1 /\ e # Len(wire)+1
      BY <1>3, <3>2
    <3>5. QED
      BY <1>1, <1>3, <2>1, <3>1, <3>3, <3>4, OldItem
  <2>4. QED
    BY <2>2, <2>3
<1>11. Complete(1..Len(wire) \ {i})'
  <2>1. ASSUME NEW l \in 1..Len(wire') \ {i}, NEW m \in Node, NEW t \in Size,
               HeaderAt(l, m, t)'
        PROVE  Behind(l, m, t) <= Len(wire')+1
    <3>1. l \in 1..Len(wire) /\ HeaderAt(l, m, t)
      BY <1>3, <1>5, <2>1
    <3>2. QED
      BY <1>3, <1>7, <2>1, <3>1
  <2>2. QED
    BY <2>1 DEF Complete, Behind
<1>12. /\ i \in 1..Len(wire') /\ HeaderAt(i, item, told)'
       /\ Len(wire')+1 = i+METADATA+PathLen[item]+offset'
  <2>1. i \in 1..Len(wire') /\ i <= Len(wire)
    BY <1>3
  <2>2. HeaderAt(i, item, told)'
    BY <1>1, <1>2, <1>4 DEF HeaderAt, Kept
  <2>3. Len(wire')+1 = i+METADATA+PathLen[item]+offset'
    BY <1>3, <1>a
  <2>4. QED
    BY <2>1, <2>2, <2>3
<1>13. QED
  BY <1>2, <1>8, <1>10, <1>11, <1>12 DEF Items

LEMMA SendStopItems ==
  ASSUME IInv, Items, SendStop
  PROVE  Items'
<1>1. /\ spc = "entry" /\ spc' = "done" /\ wire' = Append(wire, Stop)
  BY DEF SendStop
<1>2. Len(wire') = Len(wire)+1 /\ Kept /\ wire'[Len(wire)+1] = Stop /\ Len(wire) \in Nat
  BY <1>1, Lengths, CellParts, AppendProperties DEF Kept
<1>3. \A l \in 1..Len(wire') : \A m, t :
        HeaderAt(l, m, t)' <=> l <= Len(wire) /\ HeaderAt(l, m, t)
  <2>1. \A l \in Len(wire)+1..Len(wire') : \A m, t : wire'[l] # MetaByte(m, t, 0)
    BY <1>2, CellFields
  <2>2. Len(wire') \in Nat /\ Len(wire') >= Len(wire)
    BY <1>2
  <2>3. QED
    BY <1>2, <2>1, <2>2, NoNewHeader
<1>4. PICK f \in Nat : f = Len(wire)+1
  BY <1>2
<1>5. Boundary(f)'
  BY <1>2, <1>4 DEF Boundary
<1>6. Boundary(1)'
  <2>1. CASE Len(wire) = 0
    BY <1>4, <1>5, <2>1
  <2>2. CASE Len(wire) >= 1
    <3>1. wire[1] = Stop \/ \E m \in Node, t \in Size : HeaderAt(1, m, t)
      BY <2>2 DEF Items, Boundary
    <3>2. wire'[1] = wire[1]
      BY <1>2, <2>2 DEF Kept
    <3>3. QED
      BY <3>1, <3>2 DEF Boundary, HeaderAt
  <2>3. QED
    BY <1>2, <2>1, <2>2
<1>7. ASSUME NEW l \in 1..Len(wire'), NEW m \in Node, NEW t \in Size, HeaderAt(l, m, t)'
      PROVE  Item(l, m, t)'
  <2>1. l \in 1..Len(wire) /\ HeaderAt(l, m, t) /\ Item(l, m, t)
    BY <1>2, <1>3, <1>7 DEF Items
  <2>2. PICK e \in Nat : e = Behind(l, m, t)
    BY <2>1, Numbers, Lengths DEF Behind
  <2>3. e <= Len(wire)+1
    BY <1>1, <2>1, <2>2 DEF Items, Complete
  <2>4. e = Len(wire)+1 => Boundary(e)'
    BY <1>4, <1>5
  <2>5. Len(wire') \in Nat /\ Len(wire') >= Len(wire)
    BY <1>2
  <2>6. QED
    BY <1>2, <2>1, <2>2, <2>3, <2>4, <2>5, OldItem
<1>8. QED
  BY <1>1, <1>6, <1>7 DEF Items

LEMMA CutItems ==
  ASSUME IInv, Items, spc' = "dead", Len(wire') \in 0..Len(wire),
         \A i \in 1..Len(wire') : wire'[i] = wire[i]
  PROVE  Items'
<1>1. Len(wire) \in Nat /\ Len(wire') \in Nat
  BY Lengths
<1>2. ASSUME NEW i \in Nat, i >= 1, Boundary(i)
      PROVE  Boundary(i)'
  BY <1>1, <1>2 DEF Boundary, HeaderAt
<1>3. ASSUME NEW i \in 1..Len(wire'), NEW n \in Node, NEW s \in Size, HeaderAt(i, n, s)'
      PROVE  Item(i, n, s)'
  <2>1. i \in 1..Len(wire) /\ HeaderAt(i, n, s)
    BY <1>1, <1>3 DEF HeaderAt
  <2>2. Item(i, n, s)
    BY <2>1 DEF Items
  <2>3. METADATA \in Nat /\ PathLen[n] \in Nat /\ s \in Nat
    BY Numbers
  <2>4. \A j \in 0..METADATA-1 : i+j <= Len(wire') => wire'[i+j] = MetaByte(n, s, j)
    <3> SUFFICES ASSUME NEW j \in 0..METADATA-1, i+j <= Len(wire')
                 PROVE  wire'[i+j] = MetaByte(n, s, j)
      OBVIOUS
    <3>1. i+j \in 1..Len(wire') /\ i+j <= Len(wire)
      BY <1>1, <2>3
    <3>2. QED
      BY <2>2, <3>1 DEF Item
  <2>5. \A j \in 0..PathLen[n]-1 :
          i+METADATA+j <= Len(wire') => wire'[i+METADATA+j] = PathByte(n, j)
    <3> SUFFICES ASSUME NEW j \in 0..PathLen[n]-1, i+METADATA+j <= Len(wire')
                 PROVE  wire'[i+METADATA+j] = PathByte(n, j)
      OBVIOUS
    <3>1. i+METADATA+j \in 1..Len(wire') /\ i+METADATA+j <= Len(wire)
      BY <1>1, <2>3
    <3>2. QED
      BY <2>2, <3>1 DEF Item
  <2>6. \A j \in 0..s-1 : i+METADATA+PathLen[n]+j <= Len(wire') =>
          wire'[i+METADATA+PathLen[n]+j] = DataByte(n, j)
    <3> SUFFICES ASSUME NEW j \in 0..s-1, i+METADATA+PathLen[n]+j <= Len(wire')
                 PROVE  wire'[i+METADATA+PathLen[n]+j] = DataByte(n, j)
      OBVIOUS
    <3>1. i+METADATA+PathLen[n]+j \in 1..Len(wire') /\ i+METADATA+PathLen[n]+j <= Len(wire)
      BY <1>1, <2>3
    <3>2. QED
      BY <2>2, <3>1 DEF Item
  <2>7. PICK e \in Nat : e = Behind(i, n, s) /\ e >= 1
    BY <2>1, <2>3 DEF Behind
  <2>8. Boundary(e)'
    BY <1>2, <2>2, <2>7 DEF Item
  <2>9. n \in Folder => s = 0
    BY <2>2 DEF Item
  <2>10. Behind(i, n, s)' = e
    BY <2>7 DEF Behind
  <2>11. QED
    BY <2>4, <2>5, <2>6, <2>8, <2>9, <2>10 DEF Item
<1>4. Boundary(1)'
  BY <1>2 DEF Items
<1>5. QED
  BY <1>3, <1>4 DEF Items

\* The steps that send nothing.
LEMMA SameWireItems ==
  ASSUME Items, wire' = wire, spc' # "dead" =>
           /\ spc' = "entry" => Complete(1..Len(wire))
           /\ spc' \in {"open", "data"} => \E i \in 1..Len(wire) :
                /\ HeaderAt(i, item', told')
                /\ Len(wire) + 1 = i + METADATA + PathLen[item'] +
                                   IF spc' = "open" THEN 0 ELSE offset'
                /\ Complete(1..Len(wire) \ {i})
           /\ spc' = "data" => total' = told'
  PROVE  Items'
<1>1. Boundary(1)'
  BY DEF Items, Boundary, HeaderAt
<1>2. ASSUME NEW i \in 1..Len(wire), NEW n \in Node, NEW s \in Size, HeaderAt(i, n, s)'
      PROVE  Item(i, n, s)'
  <2>1. Item(i, n, s)
    BY <1>2 DEF Items, HeaderAt
  <2>2. QED
    BY <2>1 DEF Item, Boundary, HeaderAt, Behind
<1>3. \A S : Complete(S)' <=> Complete(S)
  BY DEF Complete, HeaderAt, Behind
<1>4. Complete(1..Len(wire)) => Complete(1..Len(wire))'
  BY DEF Complete, HeaderAt, Behind
<1>5. ASSUME NEW i \in 1..Len(wire), Complete(1..Len(wire) \ {i})
      PROVE  Complete(1..Len(wire) \ {i})'
  BY <1>5 DEF Complete, HeaderAt, Behind
<1>6. spc' = "entry" => Complete(1..Len(wire))'
  BY <1>4
<1>7. spc' \in {"open", "data"} => \E i \in 1..Len(wire') :
        /\ HeaderAt(i, item, told)'
        /\ Len(wire') + 1 = i + METADATA + PathLen[item'] + IF spc' = "open" THEN 0 ELSE offset'
        /\ Complete(1..Len(wire) \ {i})'
  <2> SUFFICES ASSUME spc' \in {"open", "data"}
               PROVE  \E i \in 1..Len(wire') :
                        /\ HeaderAt(i, item, told)'
                        /\ Len(wire') + 1 = i + METADATA + PathLen[item'] + IF spc' = "open" THEN 0 ELSE offset'
                        /\ Complete(1..Len(wire) \ {i})'
    OBVIOUS
  <2>1. PICK i \in 1..Len(wire) :
          /\ HeaderAt(i, item', told')
          /\ Len(wire) + 1 = i + METADATA + PathLen[item'] + IF spc' = "open" THEN 0 ELSE offset'
          /\ Complete(1..Len(wire) \ {i})
    OBVIOUS
  <2>2. HeaderAt(i, item, told)'
    BY <2>1 DEF HeaderAt
  <2>3. QED
    BY <1>5, <2>1, <2>2
<1>8. QED
  BY <1>1, <1>2, <1>6, <1>7 DEF Items

LEMMA ItemsStep ==
  ASSUME IInv, Pending, Items, [Next]_vars, ~raced'
  PROVE  Items'
<1>1. Len(wire) \in Nat /\ rd \in 0..Len(wire)
  BY Lengths
<1>2. ASSUME UNCHANGED <<wire, spc, item, told, total, offset>>
      PROVE  Items'
  <2>1. /\ spc = "entry" => Complete(1..Len(wire))
        /\ spc \in {"open", "data"} => \E i \in 1..Len(wire) :
             /\ HeaderAt(i, item, told)
             /\ Len(wire) + 1 = i + METADATA + PathLen[item] + IF spc = "open" THEN 0 ELSE offset
             /\ Complete(1..Len(wire) \ {i})
        /\ spc = "data" => total = told
    BY DEF Items
  <2>2. QED
    BY <1>2, <2>1, SameWireItems
<1>3. CASE UNCHANGED vars \/ Receive \/ Ended
  BY <1>2, <1>3 DEF vars, senderVars, Receive, ReceiverStep, Ended, RecvMetadata,
     MetadataEof, MetadataError, RecvPath, PathEof, PathError, EndOfFolder, CreateFile,
     CreateFolder, RecvFile, CloseFile, FileError
<1>4. CASE Environment
  <2>1. CASE Touch
    BY <1>2, <2>1 DEF Touch
  <2>2. CASE Kill(rd) \/ Reset(rd)
    <3>1. /\ spc' = "dead" /\ Len(wire') \in 0..Len(wire)
          /\ \A i \in 1..Len(wire') : wire'[i] = wire[i]
      BY <1>1, <2>2, CutWire
    <3>2. QED
      BY <3>1, CutItems
  <2>3. QED
    BY <1>4, <2>1, <2>2 DEF Environment
<1>5. CASE Start
  BY <1>5, Numbers, EntryItems DEF Start, Pending
<1>6. CASE ReadDir
  <2>1. PICK n \in dirs[Len(dirs)] : SendEntry(n, [dirs EXCEPT ![Len(dirs)] = @ \ {n}])
    BY <1>6 DEF ReadDir
  <2>2. spc = "entry" /\ dirs # <<>>
    BY <1>6 DEF ReadDir
  <2>3. n \in Node
    BY <2>2, ReadIsDue
  <2>4. QED
    BY <2>1, <2>2, <2>3, EntryItems
<1>7. CASE OpenFile \/ CreateFileToSend
  <2>1. /\ spc = "open" /\ spc' = "data" /\ wire' = wire /\ item' = item /\ told' = told
        /\ total' = fsize[item] /\ offset' = 0
        /\ raced' = (raced \/ fsize[item] # told)
    BY <1>7 DEF OpenFile, CreateFileToSend
  <2>2. total' = told'
    BY <2>1
  <2>3. PICK i \in 1..Len(wire) :
          /\ HeaderAt(i, item, told)
          /\ Len(wire) + 1 = i + METADATA + PathLen[item] + 0
          /\ Complete(1..Len(wire) \ {i})
    BY <2>1 DEF Items
  <2>4. QED
    BY <2>1, <2>2, <2>3, SameWireItems
<1>8. CASE CreateFileRefused
  <2>1. /\ spc = "open" /\ spc' = "entry" /\ wire' = wire /\ item \in Node /\ told \in Size
        /\ raced' = (raced \/ told > 0)
    BY <1>8 DEF CreateFileRefused, IInv, TypeOK, SenderTypeOK, Size
  <2>2. told = 0
    <3>1. ~(told > 0)
      BY <2>1, Zenon
    <3>2. QED
      BY <2>1, <3>1, Numbers
  <2>3. PICK i \in 1..Len(wire) :
          /\ HeaderAt(i, item, told)
          /\ Len(wire) + 1 = i + METADATA + PathLen[item] + 0
          /\ Complete(1..Len(wire) \ {i})
    BY <2>1 DEF Items
  <2>4. ASSUME NEW n \in Node, NEW s \in Size, HeaderAt(i, n, s)
        PROVE  Behind(i, n, s) <= Len(wire)+1
    <3>1. n = item /\ s = told
      BY <2>3, <2>4, CellFields DEF HeaderAt
    <3>2. PathLen[item] \in Nat /\ METADATA \in Nat
      BY <2>1, Numbers
    <3>3. QED
      BY <1>1, <2>2, <2>3, <3>1, <3>2 DEF Behind
  <2>5. Complete(1..Len(wire))
    BY <2>3, <2>4 DEF Complete
  <2>6. QED
    BY <2>1, <2>5, SameWireItems
<1>9. CASE EndFile
  <2>1. /\ spc = "data" /\ spc' = "entry" /\ wire' = wire /\ offset = total
        /\ item \in Node /\ told \in Size /\ total = told
    BY <1>9 DEF EndFile, IInv, TypeOK, SenderTypeOK, Size, Items
  <2>2. PICK i \in 1..Len(wire) :
          /\ HeaderAt(i, item, told)
          /\ Len(wire) + 1 = i + METADATA + PathLen[item] + offset
          /\ Complete(1..Len(wire) \ {i})
    BY <2>1 DEF Items
  <2>3. ASSUME NEW n \in Node, NEW s \in Size, HeaderAt(i, n, s)
        PROVE  Behind(i, n, s) <= Len(wire)+1
    <3>1. n = item /\ s = told
      BY <2>2, <2>3, CellFields DEF HeaderAt
    <3>2. PathLen[item] \in Nat /\ METADATA \in Nat /\ told \in Nat
      BY <2>1, Numbers
    <3>3. QED
      BY <1>1, <2>1, <2>2, <3>1, <3>2 DEF Behind
  <2>4. Complete(1..Len(wire))
    BY <2>2, <2>3 DEF Complete
  <2>5. QED
    BY <2>1, <2>4, SameWireItems
<1>10. CASE EndDir
  BY <1>10, SameWireItems DEF EndDir, Items
<1>11. CASE InvalidPath \/ SendFileFails
  BY <1>11, SameWireItems DEF InvalidPath, SendFileFails
<1>12. QED
  BY <1>3, <1>4, <1>5, <1>6, <1>7, <1>8, <1>9, <1>10, <1>11, SendFileItems, SendStopItems
     DEF Next, Send, SenderStep

(***************************************************************************)
(* The receiver while the sender goes on.                                  *)
(***************************************************************************)
LEMMA Positions ==
  ASSUME IInv
  PROVE  /\ rd \in Nat /\ rd <= Len(wire) /\ Len(wire) \in Nat
         /\ read \in Int /\ tot \in Int
         /\ hdr.len \in Nat /\ hdr.size \in Size /\ hdr.is_file \in 0..3
         /\ buf \in Buffer /\ made \subseteq Node /\ content \in [File -> Seq(Cell)]
         /\ path \in Node \cup {Base, Junk}
         /\ Available \in Nat /\ Available = Len(wire) - rd
BY Lengths, Numbers
   DEF IInv, TypeOK, ReceiverTypeOK, HeaderRecord, Size, Buffer, Available

\* What was received stays received.
LEMMA ReceivedStays ==
  ASSUME IInv, Send \/ Environment
  PROVE  /\ Sending /\ UNCHANGED receiverVars
         /\ Len(wire') >= rd /\ Len(wire') \in Nat
         /\ \A i \in 1..rd : wire'[i] = wire[i]
<1>1. rd \in Nat /\ rd <= Len(wire) /\ Len(wire) \in Nat
  BY Positions
<1>2. ASSUME Kept, Len(wire') \in Nat, Len(wire') >= Len(wire)
      PROVE  Len(wire') >= rd /\ Len(wire') \in Nat /\ \A i \in 1..rd : wire'[i] = wire[i]
  BY <1>1, <1>2 DEF Kept
<1>3. CASE Environment
  <2>1. UNCHANGED receiverVars
    BY <1>3 DEF Environment
  <2>2. CASE Touch
    BY <1>1, <2>1, <2>2 DEF Touch
  <2>3. CASE Kill(rd) \/ Reset(rd)
    BY <1>1, <2>1, <2>3, CutWire
  <2>4. QED
    BY <1>3, <2>2, <2>3 DEF Environment
<1>4. CASE Send
  <2>1. UNCHANGED receiverVars
    BY <1>4 DEF Send
  <2>2. CASE Start
    <3>1. PICK s \in Size : wire' = wire \o Header(Root, s) \o PathOf(Root)
      BY <2>2, Numbers, EntryWire DEF Start
    <3>2. Kept /\ Len(wire') \in Nat /\ Len(wire') >= Len(wire)
      <4>1. Kept /\ Len(wire') = Len(wire) + METADATA + PathLen[Root]
        BY <3>1, Numbers, AnnouncementBytes
      <4>2. QED
        BY <1>1, <4>1, Numbers
    <3>3. QED
      BY <1>2, <2>1, <2>2, <3>2 DEF Start, Sending
  <2>3. CASE ReadDir
    <3>1. PICK n \in dirs[Len(dirs)] : SendEntry(n, [dirs EXCEPT ![Len(dirs)] = @ \ {n}])
      BY <2>3 DEF ReadDir
    <3>2. n \in Node
      <4>1. Len(dirs) \in 1..Len(dirs)
        BY <2>3, Lengths, EmptySeq DEF ReadDir
      <4>2. QED
        BY <3>1, <4>1, Lengths
    <3>3. PICK s \in Size : wire' = wire \o Header(n, s) \o PathOf(n)
      BY <3>1, <3>2, EntryWire
    <3>4. Kept /\ Len(wire') \in Nat /\ Len(wire') >= Len(wire)
      <4>1. Kept /\ Len(wire') = Len(wire) + METADATA + PathLen[n]
        BY <3>2, <3>3, AnnouncementBytes
      <4>2. QED
        BY <1>1, <3>2, <4>1, Numbers
    <3>5. QED
      BY <1>2, <2>1, <2>3, <3>4 DEF ReadDir, Sending
  <2>4. CASE SendFile
    <3>1. Kept /\ Len(wire') \in Nat /\ Len(wire') >= Len(wire)
      BY <1>1, <2>4, SentBytes
    <3>2. QED
      BY <1>2, <2>1, <2>4, <3>1 DEF SendFile, Sending
  <2>5. CASE SendStop
    <3>1. Kept /\ Len(wire') = Len(wire)+1
      BY <2>5, Lengths, CellParts, AppendProperties DEF SendStop, Kept
    <3>2. QED
      BY <1>1, <1>2, <2>1, <2>5, <3>1 DEF SendStop, Sending
  <2>6. CASE InvalidPath \/ EndDir \/ OpenFile \/ CreateFileToSend \/ CreateFileRefused
               \/ SendFileFails \/ EndFile
    <3>1. wire' = wire /\ Sending
      BY <2>6 DEF InvalidPath, EndDir, OpenFile, CreateFileToSend, CreateFileRefused,
         SendFileFails, EndFile, Sending
    <3>2. QED
      BY <1>1, <2>1, <3>1
  <2>7. QED
    BY <1>4, <2>2, <2>3, <2>4, <2>5, <2>6 DEF Send, SenderStep
<1>5. QED
  BY <1>3, <1>4

LEMMA AlignedStays ==
  ASSUME IInv, Aligned, UNCHANGED receiverVars, \A i \in 1..rd : wire'[i] = wire[i]
  PROVE  Aligned'
<1>1. /\ rd \in Nat /\ read \in Int /\ tot \in Int /\ hdr.len \in Nat
      /\ METADATA \in Nat /\ METADATA >= 1
  BY Positions, Numbers
<1>2. UNCHANGED <<rd, rpc, read, buf, hdr, path, tot, made, content>>
  BY DEF receiverVars
<1>3. \A i \in 1..rd : \A n, s : HeaderAt(i, n, s)' <=> HeaderAt(i, n, s)
  BY DEF HeaderAt
<1>4. Front' = Front
  BY <1>2 DEF Front
<1>5. Front \in Int /\ Front <= rd
  BY <1>1 DEF Front, Aligned, Counts
<1>6. Counts'
  BY <1>2 DEF Counts, Aligned
<1>7. Holds'
  <2>1. 1..Front \subseteq 1..rd
    BY <1>1, <1>5
  <2>2. \A i \in 1..Front : \A n, s : HeaderAt(i, n, s)' <=> HeaderAt(i, n, s)
    BY <1>3, <2>1
  <2>3. QED
    BY <1>2, <1>4, <2>2 DEF Holds, Aligned
<1>8. Place'
  <2>1. rpc = "meta" /\ read = 0 => Between(rd+1)'
    <3> SUFFICES ASSUME rpc = "meta", read = 0, rd+1 # 1
                 PROVE  \E k \in 1..(rd+1)-1, n \in Node, s \in Size :
                          HeaderAt(k, n, s)' /\ Behind(k, n, s) = rd+1
      BY <1>2 DEF Between, Behind
    <3>1. PICK k \in 1..(rd+1)-1, n \in Node, s \in Size :
            HeaderAt(k, n, s) /\ Behind(k, n, s) = rd+1
      BY DEF Aligned, Place, Between
    <3>2. k \in 1..rd
      BY <1>1
    <3>3. QED
      BY <1>3, <3>1, <3>2
  <2>2. rpc = "meta" /\ read > 0 => \E n \in Node, s \in Size :
          /\ Front >= 0 /\ HeaderAt(Front+1, n, s)'
          /\ \A j \in 0..read-1 : buf[j] = MetaByte(n, s, j)
    <3>1. rpc = "meta" /\ read > 0 /\ Front >= 0 => Front+1 \in 1..rd
      BY <1>1, <1>5 DEF Front
    <3>2. QED
      BY <1>2, <1>3, <1>4, <3>1 DEF Aligned, Place, HeaderAt
  <2>3. rpc = "path" => \E n \in Node, s \in Size :
          /\ Front >= 0 /\ wire'[Front+1] = MetaByte(n, s, 0)
          /\ hdr = HeaderOf(n, s)
          /\ \A j \in 0..read-1 : buf[j] = PathByte(n, j)
    <3>1. rpc = "path" /\ Front >= 0 => Front+1 \in 1..rd
      BY <1>1, <1>5 DEF Front, Aligned, Counts
    <3>2. QED
      BY <3>1 DEF Aligned, Place, HeaderAt
  <2>4. rpc = "item" =>
          /\ Front >= 0 /\ wire'[Front+1] = MetaByte(path, hdr.size, 0)
          /\ path \in Node /\ hdr = HeaderOf(path, hdr.size)
    <3>1. rpc = "item" /\ Front >= 0 => Front+1 \in 1..rd
      BY <1>1, <1>5 DEF Front, Aligned, Counts
    <3>2. QED
      BY <3>1 DEF Aligned, Place, HeaderAt
  <2>5. rpc = "data" =>
          /\ path \in File /\ hdr = HeaderOf(path, hdr.size) /\ Len(content[path]) = tot
          /\ rd >= METADATA + hdr.len + tot
          /\ wire'[rd - tot - hdr.len - METADATA + 1] = MetaByte(path, hdr.size, 0)
    <3>1. rpc = "data" /\ rd >= METADATA + hdr.len + tot =>
            rd - tot - hdr.len - METADATA + 1 \in 1..rd
      <4>1. rpc = "data" => tot \in Nat
        BY DEF Aligned, Counts
      <4>2. QED
        BY <1>1, <4>1
    <3>2. QED
      BY <3>1 DEF Aligned, Place, HeaderAt
  <2>6. rpc = "done" => rd > 0 /\ wire'[rd] = Stop
    BY <1>1 DEF Aligned, Place
  <2>7. QED
    BY <1>2, <1>4, <2>1, <2>2, <2>3, <2>4, <2>5, <2>6 DEF Place, HeaderAt
<1>9. QED
  BY <1>2, <1>6, <1>7, <1>8 DEF Aligned

(***************************************************************************)
(* What the receiver makes of the bytes.                                   *)
(***************************************************************************)
LEMMA TwoOrNot ==
  /\ EqualsTwo(Stop)
  /\ \A c : c[1] \in {"meta", "path", "nul"} => ~EqualsTwo(c)
BY CellFields DEF EqualsTwo

LEMMA HeaderRead ==
  ASSUME NEW n \in Node, NEW s \in Size, NEW b,
         \A j \in 0..METADATA-1 : b[j] = MetaByte(n, s, j)
  PROVE  HeadersIn(b) = {HeaderOf(n, s)}
<1> DEFINE written == {w \in Node \X (0..MaxSize) :
                         \A j \in 0..METADATA-1 : b[j] = MetaByte(w[1], w[2], j)}
<1>1. b[0] = MetaByte(n, s, 0) /\ 0 \in 0..METADATA-1
  BY Numbers
<1>2. <<n, s>> \in written
  BY DEF Size
<1>3. \A w \in written : w[1] = n /\ w[2] = s
  <2> TAKE w \in written
  <2>1. b[0] = MetaByte(w[1], w[2], 0)
    BY <1>1
  <2>2. QED
    BY <1>1, <2>1, CellFields
<1>4. IsFileOf(b[0]) = IF n \in File THEN 1 ELSE 0
  <2>1. b[0] # NUL /\ b[0][1] = "meta" /\ b[0][2] = n /\ b[0][3] = 0
    BY <1>1, CellFields
  <2>2. ~EqualsTwo(b[0])
    BY <2>1, TwoOrNot
  <2>3. QED
    BY <2>1, <2>2 DEF IsFileOf
<1>5. written # {}
  BY <1>2
<1>6. HeadersIn(b) = {[is_file |-> IsFileOf(b[0]), size |-> w[2], len |-> PathLen[w[1]]]
                        : w \in written}
  BY <1>5 DEF HeadersIn
<1> HIDE DEF written
<1>7. \A w \in written :
        [is_file |-> IsFileOf(b[0]), size |-> w[2], len |-> PathLen[w[1]]] = HeaderOf(n, s)
  BY <1>3, <1>4 DEF HeaderOf
<1>8. QED
  BY <1>5, <1>6, <1>7

LEMMA PathRead ==
  ASSUME NEW n \in Node, NEW b, \A j \in 0..PathLen[n]-1 : b[j] = PathByte(n, j)
  PROVE  PathIn(b, PathLen[n]) = n
<1> DEFINE spells(m) == PathLen[m] = PathLen[n]
                        /\ \A j \in 0..PathLen[n]-1 : b[j] = PathByte(m, j)
<1>1. b[0] = PathByte(n, 0) /\ 0 \in 0..PathLen[n]-1
  BY Numbers
<1>2. spells(n)
  OBVIOUS
<1>3. \A m \in Node : spells(m) => m = n
  <2> TAKE m \in Node
  <2>1. spells(m) => b[0] = PathByte(m, 0)
    BY <1>1
  <2>2. QED
    BY <1>1, <2>1, CellFields
<1>4. PathIn(b, PathLen[n]) = CHOOSE m \in Node : spells(m)
  BY <1>2, Zenon DEF PathIn
<1> HIDE DEF spells
<1>5. spells(CHOOSE m \in Node : spells(m)) /\ (CHOOSE m \in Node : spells(m)) \in Node
  BY <1>2
<1>6. QED
  BY <1>3, <1>4, <1>5

\* The buffer after a recv.
LEMMA StoredBytes ==
  ASSUME IInv, NEW at \in Nat, NEW k \in 1..Available, NEW j \in 0..BufSize-1
  PROVE  Stored(at, k)[j] = IF j \in at..at+k-1 THEN wire[rd+1+j-at] ELSE buf[j]
BY Positions DEF Stored, Buffer

\* The bytes of a header that are in the buffer once k more came.
LEMMA HeaderArrives ==
  ASSUME IInv, Items, Copies, Aligned, rpc = "meta",
         NEW k \in 1..Available, read+k <= METADATA
  PROVE  \/ /\ read = 0 /\ wire[rd+1] = Stop
            /\ Stored(read, k)[0] = Stop
         \/ \E n \in Node, s \in Size :
              /\ rd-read >= 0 /\ HeaderAt(rd-read+1, n, s) /\ Item(rd-read+1, n, s)
              /\ \A j \in 0..read+k-1 : Stored(read, k)[j] = MetaByte(n, s, j)
              /\ \A i \in rd+1..rd+k : wire[i] # Stop
<1>1. /\ rd \in Nat /\ Len(wire) \in Nat /\ rd+k <= Len(wire) /\ k \in Nat /\ k >= 1
      /\ METADATA \in Nat /\ METADATA <= BufSize /\ BufSize \in Nat
  BY Positions, Numbers
<1>2. read \in 0..METADATA-1
  BY DEF Aligned, Counts
<1>3. \A j \in 0..read+k-1 :
        Stored(read, k)[j] = IF j \in read..read+k-1 THEN wire[rd+1+j-read] ELSE buf[j]
  <2> TAKE j \in 0..read+k-1
  <2>1. j \in 0..BufSize-1
    BY <1>1, <1>2
  <2>2. QED
    BY <1>2, <2>1, StoredBytes
\* What is left to do once the header is known.
<1>4. ASSUME NEW n \in Node, NEW s \in Size, rd-read >= 0, HeaderAt(rd-read+1, n, s),
             \A j \in 0..read-1 : buf[j] = MetaByte(n, s, j)
      PROVE  /\ Item(rd-read+1, n, s)
             /\ \A j \in 0..read+k-1 : Stored(read, k)[j] = MetaByte(n, s, j)
             /\ \A i \in rd+1..rd+k : wire[i] # Stop
  <2>1. rd-read+1 \in 1..Len(wire)
    BY <1>1, <1>2, <1>4
  <2>2. Item(rd-read+1, n, s)
    BY <1>4, <2>1 DEF Items
  <2>3. \A j \in 0..METADATA-1 :
          (rd-read+1)+j <= Len(wire) => wire[(rd-read+1)+j] = MetaByte(n, s, j)
    BY <2>2 DEF Item
  <2>4. \A j \in read..read+k-1 : wire[rd+1+j-read] = MetaByte(n, s, j)
    <3> TAKE j \in read..read+k-1
    <3>1. j \in 0..METADATA-1 /\ (rd-read+1)+j <= Len(wire) /\ (rd-read+1)+j = rd+1+j-read
      BY <1>1, <1>2
    <3>2. wire[(rd-read+1)+j] = MetaByte(n, s, j)
      BY <2>3, <3>1
    <3>3. QED
      BY <3>1, <3>2
  <2>5. \A j \in 0..read+k-1 : Stored(read, k)[j] = MetaByte(n, s, j)
    <3> TAKE j \in 0..read+k-1
    <3>1. CASE j \in read..read+k-1
      BY <1>3, <2>4, <3>1
    <3>2. CASE j \notin read..read+k-1
      <4>1. j \in 0..read-1
        BY <1>1, <1>2, <3>2
      <4>2. QED
        BY <1>3, <1>4, <3>2, <4>1
    <3>3. QED
      BY <3>1, <3>2
  <2>6. \A i \in rd+1..rd+k : wire[i] # Stop
    <3> TAKE i \in rd+1..rd+k
    <3>1. i-rd-1+read \in read..read+k-1 /\ rd+1+(i-rd-1+read)-read = i
      BY <1>1, <1>2
    <3>2. wire[i] = MetaByte(n, s, i-rd-1+read)
      BY <2>4, <3>1
    <3>3. QED
      BY <3>2, CellFields
  <2>7. QED
    BY <2>2, <2>5, <2>6
<1>5. CASE read = 0
  <2>1. Between(rd+1)
    BY <1>5 DEF Aligned, Place
  <2>2. Boundary(rd+1)
    <3>1. CASE rd+1 = 1
      BY <3>1 DEF Items
    <3>2. CASE rd+1 # 1
      <4>1. PICK l \in 1..rd, n \in Node, s \in Size :
              HeaderAt(l, n, s) /\ Behind(l, n, s) = rd+1
        BY <1>1, <2>1, <3>2 DEF Between
      <4>2. l \in 1..Len(wire)
        BY <1>1
      <4>3. QED
        BY <4>1, <4>2 DEF Items, Item
    <3>3. QED
      BY <3>1, <3>2
  <2>3. rd+1 <= Len(wire) /\ rd-read+1 = rd+1 /\ 0 \in 0..read+k-1 /\ 0 \in read..read+k-1
        /\ rd+1+0-read = rd+1 /\ rd-read >= 0
    BY <1>1, <1>5
  <2>4. CASE wire[rd+1] = Stop
    BY <1>3, <1>5, <2>3, <2>4
  <2>5. CASE \E n \in Node, s \in Size : HeaderAt(rd+1, n, s)
    <3>1. PICK n \in Node, s \in Size : HeaderAt(rd+1, n, s)
      BY <2>5
    <3>2. \A j \in 0..read-1 : FALSE
      BY <1>5
    <3>3. HeaderAt(rd-read+1, n, s)
      BY <2>3, <3>1
    <3>4. QED
      BY <1>4, <2>3, <3>2, <3>3
  <2>6. QED
    BY <2>2, <2>3, <2>4, <2>5 DEF Boundary
<1>6. CASE read > 0
  <2>1. Front = rd-read
    BY DEF Front
  <2>2. PICK n \in Node, s \in Size :
          /\ rd-read >= 0 /\ HeaderAt(rd-read+1, n, s)
          /\ \A j \in 0..read-1 : buf[j] = MetaByte(n, s, j)
    BY <1>6, <2>1 DEF Aligned, Place
  <2>3. QED
    BY <1>4, <2>2
<1>7. QED
  BY <1>2, <1>5, <1>6

(***************************************************************************)
(* The receiver's steps.                                                   *)
(***************************************************************************)

\* The first byte in the buffer is all that Copies asks of a header or a path.
LEMMA CopiesKept ==
  ASSUME Copies, UNCHANGED <<content, made>>,
         buf'[0][1] # "data" \/ buf'[0] = buf[0],
         buf'[0] = Stop => rpc' = "done"
  PROVE  Copies'
<1>1. ASSUME NEW n \in File, NEW j \in 0..MaxSize-1, buf'[0] = DataByte(n, j)
      PROVE  content[n] # <<>>
  <2>1. buf'[0] = buf[0]
    BY <1>1, CellFields
  <2>2. QED
    BY <1>1, <2>1 DEF Copies
<1>2. QED
  BY <1>1 DEF Copies

\* More of a header or of a path came, and no item was begun or made.
LEMMA SameFront ==
  ASSUME IInv, Aligned, UNCHANGED <<wire, made, content>>,
         rpc \in {"meta", "path"}, rpc' \in {"meta", "path", "item"},
         Front' = Front, rd' \in Nat,
         \A i \in rd+1..rd' : wire[i] # Stop,
         Counts', Place'
  PROVE  Aligned'
<1>1. \A i \in 1..rd' : wire'[i] # Stop
  <2>1. rd \in Nat /\ \A i \in 1..rd : wire[i] # Stop
    BY Positions DEF Aligned
  <2>2. QED
    BY <2>1
<1>2. Holds'
  BY DEF Aligned, Holds, HeaderAt
<1>3. QED
  BY <1>1, <1>2 DEF Aligned

LEMMA RecvMetadataAligned ==
  ASSUME IInv, Walk, Items, Copies, Aligned, Receive, RecvMetadata
  PROVE  Aligned' /\ Copies'
<1>1. PICK k \in 1..AtMost(METADATA - read, Available) :
        /\ rd' = rd + k
        /\ LET b == Stored(read, k)
           IN  \/ /\ EqualsTwo(b[0])
                  /\ rpc' = "done"
                  /\ buf' = b
                  /\ UNCHANGED <<read, hdr, path>>
               \/ /\ ~EqualsTwo(b[0])
                  /\ read + k < METADATA
                  /\ read' = read + k
                  /\ buf' = b
                  /\ UNCHANGED <<rpc, hdr, path>>
               \/ /\ ~EqualsTwo(b[0])
                  /\ read + k = METADATA
                  /\ HeaderParsed(b)
  BY DEF RecvMetadata
<1> DEFINE b == Stored(read, k)
<1>2. /\ rpc = "meta" /\ UNCHANGED <<tot, made, content, wire, conn>>
      /\ read \in 0..METADATA-1
  BY DEF RecvMetadata, Aligned, Counts
<1>3. /\ rd \in Nat /\ Len(wire) \in Nat /\ METADATA \in Nat /\ METADATA >= 1
      /\ k \in Nat /\ k >= 1 /\ k \in 1..Available /\ rd+k <= Len(wire)
      /\ read+k <= METADATA
  BY <1>1, <1>2, Positions, Numbers DEF AtMost
<1>4. Front = rd-read
  BY <1>2 DEF Front
<1> HIDE DEF b
<1>5. CASE read = 0 /\ wire[rd+1] = Stop /\ b[0] = Stop
  <2>1. rpc' = "done" /\ buf' = b /\ read' = read
    BY <1>1, <1>5, TwoOrNot DEF b
  <2>2. rd+1 = Len(wire)
    <3>1. rd+1 \in 1..Len(wire)
      BY <1>3
    <3>2. QED
      BY <1>5, <3>1 DEF Walk
  <2>3. k = 1 /\ rd' = rd+1
    BY <1>1, <1>3, <2>2
  <2>4. Front' = rd+1 /\ Front = rd
    BY <1>3, <1>4, <1>5, <2>1, <2>3 DEF Front
  <2>5. \A n, s : ~HeaderAt(rd+1, n, s)
    BY <1>5, CellFields DEF HeaderAt
  <2>6. \A n, s : \A i \in 1..rd+1 : HeaderAt(i, n, s) => i \in 1..rd
    BY <1>3, <2>5
  <2>7. \A n, s : \A i \in 1..rd : HeaderAt(i, n, s) => i \in 1..rd+1
    BY <1>3
  <2>8. Holds'
    <3>1. \A n \in Node : n \in made' <=> \E i \in 1..Front', s \in Size : HeaderAt(i, n, s)'
      BY <1>2, <2>4, <2>6, <2>7 DEF Aligned, Holds, HeaderAt
    <3>2. \A i \in 1..Front', n \in File, s \in Size : HeaderAt(i, n, s)' => Len(content[n]) = s
      BY <1>2, <2>4, <2>6 DEF Aligned, Holds, HeaderAt
    <3>3. QED
      BY <1>2, <2>1, <3>1, <3>2 DEF Holds
  <2>9. Place'
    BY <1>2, <1>3, <1>5, <2>1, <2>3 DEF Place
  <2>10. Counts'
    BY <2>1 DEF Counts
  <2>11. Aligned'
    BY <2>1, <2>8, <2>9, <2>10 DEF Aligned
  <2>12. Copies'
    BY <1>2, <1>5, <2>1, CopiesKept, CellFields
  <2>13. QED
    BY <2>11, <2>12
<1>6. CASE \E n \in Node, s \in Size :
             /\ rd-read >= 0 /\ HeaderAt(rd-read+1, n, s) /\ Item(rd-read+1, n, s)
             /\ \A j \in 0..read+k-1 : b[j] = MetaByte(n, s, j)
             /\ \A i \in rd+1..rd+k : wire[i] # Stop
  <2>1. PICK n \in Node, s \in Size :
             /\ rd-read >= 0 /\ HeaderAt(rd-read+1, n, s) /\ Item(rd-read+1, n, s)
             /\ \A j \in 0..read+k-1 : b[j] = MetaByte(n, s, j)
             /\ \A i \in rd+1..rd+k : wire[i] # Stop
    BY <1>6
  <2>2. 0 \in 0..read+k-1
    BY <1>2, <1>3
  <2>3. b[0] = MetaByte(n, s, 0)
    BY <2>1, <2>2
  <2>4. ~EqualsTwo(b[0]) /\ b[0][1] = "meta" /\ b[0] # Stop
    BY <2>3, TwoOrNot, CellFields
  <2>5. CASE read + k < METADATA
    <3>1. read' = read + k /\ buf' = b /\ UNCHANGED <<rpc, hdr, path>>
      BY <1>1, <1>3, <2>4, <2>5 DEF b
    <3>2. Front' = Front /\ read' \in 0..METADATA-1 /\ read' > 0 /\ rd' = rd+k
      BY <1>1, <1>2, <1>3, <1>4, <2>5, <3>1 DEF Front
    <3>3. Counts'
      BY <1>2, <3>1, <3>2 DEF Counts
    <3>4. Place'
      <4>1. wire'[Front'+1] = MetaByte(n, s, 0) /\ Front' >= 0
        BY <1>2, <1>4, <2>1, <3>2 DEF HeaderAt
      <4>2. \A j \in 0..read'-1 : buf'[j] = MetaByte(n, s, j)
        BY <1>2, <1>3, <2>1, <3>1
      <4>3. QED
        BY <1>2, <3>1, <3>2, <4>1, <4>2 DEF Place, HeaderAt
    <3>5. Aligned'
      BY <1>2, <1>3, <2>1, <3>1, <3>2, <3>3, <3>4, SameFront
    <3>6. Copies'
      BY <1>2, <2>4, <3>1, CopiesKept
    <3>7. QED
      BY <3>5, <3>6
  <2>6. CASE read + k = METADATA
    <3>1. HeaderParsed(b)
      BY <1>1, <1>3, <2>4, <2>6 DEF b
    <3>2. \A j \in 0..METADATA-1 : b[j] = MetaByte(n, s, j)
      BY <1>2, <1>3, <2>1, <2>6
    <3>3. HeadersIn(b) = {HeaderOf(n, s)}
      BY <3>2, HeaderRead
    <3>4. HeaderOf(n, s).len = PathLen[n] /\ PathLen[n] \in Nat /\ PathLen[n] >= 1
      BY Numbers DEF HeaderOf
    <3>5. hdr' = HeaderOf(n, s) /\ read' = 0 /\ rpc' = "path" /\ buf' = b
      BY <3>1, <3>3, <3>4 DEF HeaderParsed
    <3>6. Front' = Front
      BY <1>1, <1>2, <1>3, <1>4, <2>6, <3>5 DEF Front
    <3>7. Counts'
      BY <3>4, <3>5 DEF Counts
    <3>8. Place'
      <4>1. wire'[Front'+1] = MetaByte(n, s, 0) /\ Front' >= 0
        BY <1>2, <1>4, <2>1, <3>6 DEF HeaderAt
      <4>2. \A j \in 0..read'-1 : FALSE
        BY <3>5
      <4>3. QED
        BY <3>5, <4>1, <4>2 DEF Place, HeaderAt
    <3>9. Aligned'
      BY <1>1, <1>2, <1>3, <2>1, <3>5, <3>6, <3>7, <3>8, SameFront
    <3>10. Copies'
      BY <1>2, <2>4, <3>5, CopiesKept
    <3>11. QED
      BY <3>9, <3>10
  <2>7. QED
    BY <1>2, <1>3, <2>5, <2>6
<1>7. QED
  BY <1>2, <1>3, <1>5, <1>6, HeaderArrives DEF b

LEMMA RecvPathAligned ==
  ASSUME IInv, Items, Copies, Aligned, Receive, RecvPath
  PROVE  Aligned' /\ Copies'
<1>1. PICK k \in 1..AtMost(hdr.len - read, Available) :
        /\ rd' = rd + k
        /\ LET b == Stored(read, k)
           IN  IF read + k < hdr.len
                 THEN buf' = b /\ read' = read + k /\ UNCHANGED <<rpc, path>>
                 ELSE /\ path' = PathIn(b, hdr.len)
                      /\ buf' = [i \in DOMAIN b |->
                                   IF i = hdr.len THEN NUL ELSE b[i]]
                      /\ read' = 0
                      /\ rpc' = "item"
  BY DEF RecvPath
<1> DEFINE b == Stored(read, k)
<1>2. /\ rpc = "path" /\ UNCHANGED <<hdr, tot, made, content, wire, conn>>
      /\ read \in 0..hdr.len-1
  BY DEF RecvPath, Aligned, Counts
<1>3. PICK n \in Node, s \in Size :
        /\ Front >= 0 /\ HeaderAt(Front+1, n, s)
        /\ hdr = HeaderOf(n, s)
        /\ \A j \in 0..read-1 : buf[j] = PathByte(n, j)
  BY <1>2 DEF Aligned, Place
<1>4. /\ hdr.len = PathLen[n] /\ hdr.size = s /\ PathLen[n] \in Nat /\ PathLen[n] <= BufSize
      /\ BufSize \in Nat /\ METADATA \in Nat /\ METADATA >= 1
  BY <1>3, Numbers DEF HeaderOf
<1>5. /\ rd \in Nat /\ Len(wire) \in Nat /\ k \in Nat /\ k >= 1 /\ k \in 1..Available
      /\ rd+k <= Len(wire) /\ read+k <= PathLen[n]
  BY <1>1, <1>2, <1>4, Positions DEF AtMost
<1>6. Front = rd-METADATA-read /\ Front \in Int
  BY <1>2, <1>4, <1>5 DEF Front
<1>7. Item(Front+1, n, s)
  <2>1. Front+1 \in 1..Len(wire)
    BY <1>2, <1>3, <1>4, <1>5, <1>6
  <2>2. QED
    BY <1>3, <2>1 DEF Items
<1>8. \A j \in read..read+k-1 : wire[rd+1+j-read] = PathByte(n, j)
  <2> TAKE j \in read..read+k-1
  <2>1. /\ j \in 0..PathLen[n]-1 /\ (Front+1)+METADATA+j <= Len(wire)
        /\ (Front+1)+METADATA+j = rd+1+j-read
    BY <1>2, <1>4, <1>5, <1>6
  <2>2. wire[(Front+1)+METADATA+j] = PathByte(n, j)
    BY <1>7, <2>1 DEF Item
  <2>3. QED
    BY <2>1, <2>2
<1> HIDE DEF b
<1>9. \A j \in 0..read+k-1 : b[j] = PathByte(n, j)
  <2> TAKE j \in 0..read+k-1
  <2>1. b[j] = IF j \in read..read+k-1 THEN wire[rd+1+j-read] ELSE buf[j]
    <3>1. j \in 0..BufSize-1 /\ read \in Nat
      BY <1>2, <1>4, <1>5
    <3>2. QED
      BY <1>5, <3>1, StoredBytes DEF b
  <2>2. j \in read..read+k-1 \/ j \in 0..read-1
    BY <1>2, <1>5
  <2>3. CASE j \in read..read+k-1
    BY <1>8, <2>1, <2>3
  <2>4. CASE j \in 0..read-1
    <3>1. j \notin read..read+k-1
      BY <1>2, <1>5, <2>4
    <3>2. QED
      BY <1>3, <2>1, <2>4, <3>1
  <2>5. QED
    BY <2>2, <2>3, <2>4
<1>10. \A i \in rd+1..rd+k : wire[i] # Stop
  <2> TAKE i \in rd+1..rd+k
  <2>1. i-rd-1+read \in read..read+k-1 /\ rd+1+(i-rd-1+read)-read = i
    BY <1>2, <1>4, <1>5
  <2>2. wire[i] = PathByte(n, i-rd-1+read)
    BY <1>8, <2>1
  <2>3. QED
    BY <2>2, CellFields
<1>11. b[0][1] = "path" /\ b[0] # Stop
  <2>1. 0 \in 0..read+k-1
    BY <1>2, <1>4, <1>5
  <2>2. b[0] = PathByte(n, 0)
    BY <1>9, <2>1
  <2>3. QED
    BY <2>2, CellFields
<1>12. rd' = rd+k /\ rd' \in Nat
  BY <1>1, <1>5
<1>13. CASE read + k < hdr.len
  <2>1. buf' = b /\ read' = read + k /\ UNCHANGED <<rpc, path>>
    BY <1>1, <1>13 DEF b
  <2>2. Front' = Front /\ read' \in 0..hdr'.len-1
    BY <1>2, <1>4, <1>5, <1>6, <1>12, <1>13, <2>1 DEF Front
  <2>3. Counts'
    BY <1>2, <2>1, <2>2 DEF Counts
  <2>4. Place'
    <3>1. wire'[Front'+1] = MetaByte(n, s, 0) /\ Front' >= 0
      BY <1>2, <1>3, <2>2 DEF HeaderAt
    <3>2. \A j \in 0..read'-1 : buf'[j] = PathByte(n, j)
      BY <1>2, <1>4, <1>5, <1>9, <2>1
    <3>3. QED
      BY <1>2, <1>3, <2>1, <3>1, <3>2 DEF Place, HeaderAt
  <2>5. Aligned'
    BY <1>2, <1>10, <1>12, <2>1, <2>2, <2>3, <2>4, SameFront
  <2>6. Copies'
    BY <1>2, <1>11, <2>1, CopiesKept
  <2>7. QED
    BY <2>5, <2>6
<1>14. CASE ~(read + k < hdr.len)
  <2>1. /\ path' = PathIn(b, hdr.len)
        /\ buf' = [i \in DOMAIN b |-> IF i = hdr.len THEN NUL ELSE b[i]]
        /\ read' = 0
        /\ rpc' = "item"
    BY <1>1, <1>14 DEF b
  <2>2. read + k = PathLen[n]
    BY <1>2, <1>4, <1>5, <1>14
  <2>3. path' = n
    <3>1. \A j \in 0..PathLen[n]-1 : b[j] = PathByte(n, j)
      BY <1>2, <1>4, <1>5, <1>9, <2>2
    <3>2. QED
      BY <1>4, <2>1, <3>1, PathRead
  <2>4. Front' = Front
    BY <1>2, <1>4, <1>5, <1>6, <1>12, <2>1, <2>2 DEF Front
  <2>5. Counts'
    BY <2>1 DEF Counts
  <2>6. Place'
    <3>1. wire'[Front'+1] = MetaByte(n, s, 0) /\ Front' >= 0
      BY <1>2, <1>3, <2>4 DEF HeaderAt
    <3>2. QED
      BY <1>2, <1>3, <1>4, <2>1, <2>3, <3>1 DEF Place, HeaderAt
  <2>7. Aligned'
    BY <1>2, <1>10, <1>12, <2>1, <2>4, <2>5, <2>6, SameFront
  <2>8. buf'[0] = b[0] \/ buf'[0] = NUL
    <3>1. 0 \in DOMAIN b
      BY <1>4, <1>2, Numbers, Positions DEF b, Stored, Buffer
    <3>2. QED
      BY <2>1, <3>1
  <2>9. Copies'
    BY <1>2, <1>11, <2>1, <2>8, CopiesKept, CellFields
  <2>10. QED
    BY <2>7, <2>9
<1>15. QED
  BY <1>13, <1>14

\* The item in hand: its node, which is new, and where its header and its path
\* end.
LEMMA ItemInHand ==
  ASSUME IInv, Walk, Items, Copies, Aligned, rpc = "item"
  PROVE  /\ path \in Node /\ path \notin made /\ HasParent(path)
         /\ hdr.is_file = IF path \in File THEN 1 ELSE 0
         /\ hdr.len = PathLen[path]
         /\ Front \in Nat /\ rd = Front + METADATA + PathLen[path] /\ Front+1 \in 1..rd
         /\ HeaderAt(Front+1, path, hdr.size) /\ Item(Front+1, path, hdr.size)
         /\ path \in File => content[path] = <<>>
         /\ \A i \in 1..rd : \A n, s : HeaderAt(i, n, s) => i \in 1..Front+1
<1>1. /\ rd \in Nat /\ Len(wire) \in Nat /\ rd <= Len(wire) /\ METADATA \in Nat /\ METADATA >= 1
      /\ hdr.size \in Size /\ hdr.size \in Nat
  BY Positions, Numbers
<1>2. /\ Front >= 0 /\ HeaderAt(Front+1, path, hdr.size)
      /\ path \in Node /\ hdr = HeaderOf(path, hdr.size)
      /\ Front = rd - (METADATA + hdr.len)
  BY DEF Aligned, Place, Front
<1>3. /\ hdr.is_file = IF path \in File THEN 1 ELSE 0
      /\ hdr.len = PathLen[path] /\ PathLen[path] \in Nat /\ PathLen[path] >= 1
  BY <1>2, Numbers DEF HeaderOf
<1>4. /\ Front \in Nat /\ rd = Front + METADATA + PathLen[path] /\ Front+1 \in 1..rd
      /\ Front+1 \in 1..Len(wire)
  BY <1>1, <1>2, <1>3
<1>5. Item(Front+1, path, hdr.size)
  BY <1>1, <1>2, <1>4 DEF Items
<1>6. path \notin made
  <2> SUFFICES ASSUME path \in made
               PROVE  FALSE
    OBVIOUS
  <2>1. PICK i \in 1..Front, s \in Size : HeaderAt(i, path, s)
    BY <1>2 DEF Aligned, Holds
  <2>2. i \in 1..Len(wire) /\ i # Front+1
    BY <1>1, <1>4
  <2>3. QED
    BY <1>1, <1>2, <1>4, <2>1, <2>2 DEF Walk
<1>7. HasParent(path)
  <2>1. CASE path = Root
    BY <2>1 DEF HasParent
  <2>2. CASE path # Root
    <3>1. PICK k \in 1..(Front+1)-1, t \in Size : HeaderAt(k, Parent[path], t)
      BY <1>1, <1>2, <1>4, <2>2 DEF Walk
    <3>2. k \in 1..Front /\ Parent[path] \in Node
      BY <1>2, <1>4, <2>2, Numbers
    <3>3. Parent[path] \in made
      BY <3>1, <3>2 DEF Aligned, Holds
    <3>4. QED
      BY <1>2, <2>2, <3>3 DEF HasParent
  <2>3. QED
    BY <2>1, <2>2
<1>8. path \in File => content[path] = <<>>
  BY <1>6 DEF Copies
<1>9. ASSUME NEW i \in 1..rd, NEW n, NEW s, HeaderAt(i, n, s)
      PROVE  i \in 1..Front+1
  <2>1. Behind(Front+1, path, hdr.size) > rd /\ Behind(Front+1, path, hdr.size) \in Nat
    BY <1>1, <1>3, <1>4 DEF Behind
  <2>2. SUFFICES ASSUME i > Front+1
                 PROVE  FALSE
    BY <1>1, <1>4
  <2>3. i \in (Front+1)+1..Behind(Front+1, path, hdr.size)-1 /\ i <= Len(wire)
    BY <1>1, <1>4, <2>1, <2>2
  <2>4. QED
    BY <1>1, <1>2, <1>4, <1>5, <1>9, <2>3, InnerByte
<1>10. QED
  BY <1>2, <1>3, <1>4, <1>5, <1>6, <1>7, <1>8, <1>9

LEMMA ItemAligned ==
  ASSUME IInv, Walk, Items, Copies, Aligned, Receive, EndOfFolder \/ CreateFile \/ CreateFolder
  PROVE  /\ Aligned' /\ Copies' /\ content' = content
         /\ \/ CreateFile /\ path \in File
            \/ CreateFolder /\ path \in Folder
         /\ made' = made \cup {path}
<1>1. /\ rpc = "item" /\ UNCHANGED <<rd, read, buf, hdr, path, wire, conn>>
      /\ read = 0
  BY DEF EndOfFolder, CreateFile, CreateFolder, Aligned, Counts
<1>2. /\ path \in Node /\ path \notin made /\ HasParent(path)
      /\ hdr.is_file = IF path \in File THEN 1 ELSE 0
      /\ hdr.len = PathLen[path]
      /\ Front \in Nat /\ rd = Front + METADATA + PathLen[path] /\ Front+1 \in 1..rd
      /\ HeaderAt(Front+1, path, hdr.size) /\ Item(Front+1, path, hdr.size)
      /\ path \in File => content[path] = <<>>
      /\ \A i \in 1..rd : \A n, s : HeaderAt(i, n, s) => i \in 1..Front+1
  BY <1>1, ItemInHand
<1>3. /\ rd \in Nat /\ Len(wire) \in Nat /\ rd <= Len(wire) /\ METADATA \in Nat /\ METADATA >= 1
      /\ PathLen[path] \in Nat /\ PathLen[path] >= 1 /\ hdr.size \in Size /\ hdr.size \in Nat
      /\ content \in [File -> Seq(Cell)]
  BY <1>2, Positions, Numbers
<1>4. \/ /\ CreateFile /\ path \in File /\ rpc' = "data" /\ tot' = 0
         /\ content' = content
      \/ /\ CreateFolder /\ path \in Folder /\ path \notin File /\ rpc' = "meta" /\ tot' = tot
         /\ content' = content
  <2>1. CASE EndOfFolder
    BY <1>2, <2>1 DEF EndOfFolder
  <2>2. CASE CreateFile
    <3>1. path \in File
      BY <1>2, <2>2 DEF CreateFile
    <3>2. rpc' = "data" /\ tot' = 0 /\ content' = [content EXCEPT ![path] = <<>>]
      BY <1>2, <2>2, <3>1 DEF CreateFile
    <3>3. [content EXCEPT ![path] = <<>>] = content
      BY <1>2, <1>3, <3>1
    <3>4. QED
      BY <2>2, <3>1, <3>2, <3>3
  <2>3. CASE CreateFolder
    <3>1. path \notin File /\ path \in Folder
      BY <1>2, <2>3, Numbers DEF CreateFolder
    <3>2. QED
      BY <2>3, <3>1 DEF CreateFolder
  <2>4. QED
    BY <2>1, <2>2, <2>3
<1>5. made' = made \cup {path}
  BY <1>2, <1>4 DEF CreateFile, CreateFolder
<1>6. Front' = rd /\ Front' \in Nat
  BY <1>1, <1>3, <1>4 DEF Front
<1>7. Counts'
  BY <1>1, <1>3, <1>4 DEF Counts
<1>8. Holds'
  <2>1. ASSUME NEW n \in Node
        PROVE  n \in made' <=> \E i \in 1..rd, s \in Size : HeaderAt(i, n, s)
    <3>1. n \in made => \E i \in 1..rd, s \in Size : HeaderAt(i, n, s)
      <4> SUFFICES ASSUME n \in made
                   PROVE  \E i \in 1..rd, s \in Size : HeaderAt(i, n, s)
        OBVIOUS
      <4>1. PICK i \in 1..Front, s \in Size : HeaderAt(i, n, s)
        BY DEF Aligned, Holds
      <4>2. i \in 1..rd
        BY <1>2, <1>3
      <4>3. QED
        BY <4>1, <4>2
    <3>2. n = path => \E i \in 1..rd, s \in Size : HeaderAt(i, n, s)
      BY <1>2, <1>3
    <3>3. (\E i \in 1..rd, s \in Size : HeaderAt(i, n, s)) => n \in made \/ n = path
      <4> SUFFICES ASSUME NEW i \in 1..rd, NEW s \in Size, HeaderAt(i, n, s)
                   PROVE  n \in made \/ n = path
        OBVIOUS
      <4>1. i \in 1..Front \/ i = Front+1
        BY <1>2
      <4>2. i = Front+1 => n = path
        BY <1>2, CellFields DEF HeaderAt
      <4>3. QED
        BY <4>1, <4>2 DEF Aligned, Holds
    <3>4. QED
      BY <1>5, <3>1, <3>2, <3>3
  <2>2. ASSUME NEW i \in 1..rd, NEW n \in File, NEW s \in Size, HeaderAt(i, n, s),
               n # path
        PROVE  Len(content[n]) = s
    <3>1. i \in 1..Front \/ i = Front+1
      BY <1>2, <2>2
    <3>2. i # Front+1
      BY <1>2, <2>2, CellFields DEF HeaderAt
    <3>3. QED
      BY <1>1, <2>2, <3>1, <3>2 DEF Aligned, Holds
  <2>3. \A i \in 1..Front', n \in File, s \in Size :
          HeaderAt(i, n, s)' /\ ~(rpc' = "data" /\ n = path') => Len(content'[n]) = s
    BY <1>1, <1>4, <1>6, <2>2 DEF HeaderAt
  <2>4. \A n \in Node : n \in made' <=> \E i \in 1..Front', s \in Size : HeaderAt(i, n, s)'
    BY <1>1, <1>6, <2>1 DEF HeaderAt
  <2>5. QED
    BY <2>3, <2>4 DEF Holds
<1>9. Place'
  <2>1. CASE rpc' = "meta"
    <3>1. hdr.size = 0
      BY <1>2, <1>4, <2>1 DEF Item
    <3>2. Behind(Front+1, path, hdr.size) = rd+1 /\ Front+1 \in 1..(rd+1)-1
      BY <1>2, <1>3, <3>1 DEF Behind
    <3>3. \E k \in 1..(rd+1)-1, n \in Node, s \in Size :
            HeaderAt(k, n, s) /\ Behind(k, n, s) = rd+1
      BY <1>2, <1>3, <3>2
    <3>4. Between(rd+1)'
      BY <1>1, <3>3 DEF Between, HeaderAt, Behind
    <3>5. QED
      BY <1>1, <2>1, <3>4 DEF Place
  <2>2. CASE rpc' = "data"
    <3>1. path \in File /\ tot' = 0 /\ Len(content'[path]) = 0
      BY <1>2, <1>4, <2>2, EmptySeq
    <3>2. hdr = HeaderOf(path, hdr.size)
      BY <1>1 DEF Aligned, Place
    <3>3. rd - 0 - hdr.len - METADATA + 1 = Front+1 /\ rd >= METADATA + hdr.len + 0
      BY <1>2, <1>3
    <3>4. wire[rd - 0 - hdr.len - METADATA + 1] = MetaByte(path, hdr.size, 0)
      BY <1>2, <3>3 DEF HeaderAt
    <3>5. QED
      BY <1>1, <2>2, <3>1, <3>2, <3>3, <3>4 DEF Place, HeaderAt
  <2>3. QED
    BY <1>4, <2>1, <2>2
<1>10. Aligned'
  BY <1>1, <1>4, <1>7, <1>8, <1>9 DEF Aligned
<1>11. Copies'
  <2>1. buf'[0] = Stop => FALSE
    BY <1>1 DEF Copies
  <2>2. QED
    BY <1>1, <1>4, <1>5, <2>1 DEF Copies
<1>12. QED
  BY <1>4, <1>5, <1>10, <1>11

\* The file in hand, and where its header begins.
LEMMA FileInHand ==
  ASSUME IInv, Items, Aligned, rpc = "data"
  PROVE  \E h \in 1..rd :
           /\ path \in File /\ path \in Node /\ hdr.len = PathLen[path] /\ hdr.is_file = 1
           /\ tot \in 0..hdr.size /\ Len(content[path]) = tot
           /\ rd + 1 = h + METADATA + PathLen[path] + tot
           /\ HeaderAt(h, path, hdr.size) /\ Item(h, path, hdr.size)
<1>1. /\ rd \in Nat /\ Len(wire) \in Nat /\ rd <= Len(wire) /\ METADATA \in Nat /\ METADATA >= 1
      /\ hdr.size \in Size /\ hdr.size \in Nat /\ tot \in 0..hdr.size
  BY Positions, Numbers DEF Aligned, Counts
<1>2. /\ path \in File /\ hdr = HeaderOf(path, hdr.size) /\ Len(content[path]) = tot
      /\ rd >= METADATA + hdr.len + tot
      /\ HeaderAt(rd - tot - hdr.len - METADATA + 1, path, hdr.size)
  BY DEF Aligned, Place
<1>3. path \in Node /\ hdr.len = PathLen[path] /\ hdr.is_file = 1 /\ PathLen[path] \in Nat
  BY <1>2, Numbers DEF HeaderOf
<1>4. PICK h \in Int : h = rd - tot - hdr.len - METADATA + 1
  BY <1>1, <1>3
<1>5. h \in 1..rd /\ rd + 1 = h + METADATA + PathLen[path] + tot /\ h \in 1..Len(wire)
  <2>1. tot \in Nat /\ hdr.len \in Nat /\ rd >= METADATA + hdr.len + tot
    BY <1>1, <1>2, <1>3
  <2>2. rd \in Nat /\ METADATA \in Nat /\ METADATA >= 1
    BY <1>1
  <2>3. h >= 1 /\ h <= rd /\ rd + 1 = h + METADATA + hdr.len + tot
    BY <1>4, <2>1, <2>2
  <2>4. QED
    BY <1>1, <1>3, <2>3
<1>6. HeaderAt(h, path, hdr.size) /\ Item(h, path, hdr.size)
  BY <1>1, <1>2, <1>3, <1>4, <1>5 DEF Items
<1>7. QED
  BY <1>1, <1>2, <1>3, <1>5, <1>6

LEMMA ChunkBegins ==
  ASSUME NEW n \in File, NEW t \in Nat, NEW k \in Nat, t+k <= MaxSize
  PROVE  /\ Len(Chunk(n, 0, t)) <= Len(Chunk(n, 0, t+k))
         /\ SubSeq(Chunk(n, 0, t+k), 1, Len(Chunk(n, 0, t))) = Chunk(n, 0, t)
<1> DEFINE c == Chunk(n, 0, t)
           d == Chunk(n, 0, t+k)
<1>1. t+k \in Nat /\ MaxSize \in Nat /\ 0+t <= MaxSize /\ 0+(t+k) <= MaxSize
  BY Numbers
<1>2. c \in Seq(Cell) /\ d \in Seq(Cell)
  BY <1>1, ChunkCells
<1>3. Len(c) = t /\ Len(d) = t+k
  BY <1>1 DEF Chunk
<1>4. \A i \in 1..t : c[i] = d[i]
  BY <1>1 DEF Chunk
<1> HIDE DEF c, d
<1>5. \A i \in 1..t : d[i] \in Cell
  BY <1>2, <1>3, ElementOfSeq
<1>6. /\ SubSeq(d, 1, t) \in Seq(Cell)
      /\ Len(SubSeq(d, 1, t)) = IF 1 <= t THEN t-1+1 ELSE 0
      /\ \A i \in 1..t-1+1 : SubSeq(d, 1, t)[i] = d[1+i-1]
  BY <1>5, SubSeqProperties
<1>7. Len(SubSeq(d, 1, t)) = t /\ \A i \in 1..t : SubSeq(d, 1, t)[i] = c[i]
  <2>1. \A i \in 1..t : i \in 1..t-1+1 /\ 1+i-1 = i
    OBVIOUS
  <2>2. QED
    BY <1>4, <1>6, <2>1
<1>8. SubSeq(d, 1, t) = c
  BY <1>2, <1>3, <1>6, <1>7, SeqEqual
<1>9. QED
  BY <1>3, <1>8 DEF c, d

\* The bytes that are received are the next ones of the file.
LEMMA RecvFileBytes ==
  ASSUME IInv, Items, Copies, Aligned, Receive, RecvFile
  PROVE  \E k \in Nat \ {0} :
           /\ rd' = rd + k /\ rd + k <= Len(wire) /\ tot' = tot + k /\ tot + k <= hdr.size
           /\ buf'[0] = DataByte(path, tot)
           /\ \A i \in rd+1..rd+k : wire[i][1] = "data"
           /\ content' = [content EXCEPT ![path] = Chunk(path, 0, tot+k)]
           /\ content[path] = Chunk(path, 0, tot)
<1>1. PICK k \in 1..AtMost(AtMost(BufSize, hdr.size - tot), Available) :
        /\ rd' = rd + k
        /\ buf' = Stored(0, k)
        /\ tot' = tot + k
        /\ content' = IF path \in File
                        THEN [content EXCEPT ![path] = @ \o SubSeq(wire, rd+1, rd+k)]
                        ELSE content
  BY DEF RecvFile
<1>2. PICK h \in 1..rd :
           /\ path \in File /\ path \in Node /\ hdr.len = PathLen[path] /\ hdr.is_file = 1
           /\ tot \in 0..hdr.size /\ Len(content[path]) = tot
           /\ rd + 1 = h + METADATA + PathLen[path] + tot
           /\ HeaderAt(h, path, hdr.size) /\ Item(h, path, hdr.size)
  BY FileInHand DEF RecvFile
<1>3. /\ rd \in Nat /\ Len(wire) \in Nat /\ METADATA \in Nat /\ PathLen[path] \in Nat
      /\ hdr.size \in Nat /\ BufSize \in Nat /\ BufSize >= 1 /\ tot \in Nat
      /\ content \in [File -> Seq(Cell)]
  <2>1. hdr.size \in Nat /\ METADATA <= BufSize /\ METADATA >= 1
    BY Positions, Numbers
  <2>2. tot \in Nat
    BY <1>2, <2>1
  <2>3. QED
    BY <1>2, <2>1, <2>2, Positions, Numbers
<1>4. /\ k \in Nat \ {0} /\ k \in 1..Available /\ rd+k <= Len(wire) /\ tot+k <= hdr.size
  <2>1. Available \in Nat /\ Available = Len(wire) - rd
    BY Positions
  <2>2. k \in Nat \ {0} /\ k <= hdr.size - tot /\ k <= Available
    <3>1. hdr.size - tot \in Int /\ BufSize \in Int /\ Available \in Int
      BY <1>3, <2>1
    <3>2. \A a, b \in Int : AtMost(a, b) \in Int /\ AtMost(a, b) <= a /\ AtMost(a, b) <= b
      BY DEF AtMost
    <3>3. PICK c \in Int : c = AtMost(BufSize, hdr.size - tot) /\ c <= hdr.size - tot
      BY <3>1, <3>2
    <3>4. PICK d \in Int : d = AtMost(c, Available) /\ d <= c /\ d <= Available
      BY <3>1, <3>2
    <3>5. k \in 1..d
      BY <3>3, <3>4
    <3>6. QED
      BY <3>1, <3>3, <3>4, <3>5
  <2>3. QED
    BY <1>3, <2>1, <2>2
<1>5. \A i \in rd+1..rd+k : wire[i] = DataByte(path, tot+i-rd-1)
  <2> TAKE i \in rd+1..rd+k
  <2>1. /\ tot+i-rd-1 \in 0..hdr.size-1 /\ h+METADATA+PathLen[path]+(tot+i-rd-1) = i
        /\ i <= Len(wire)
    <3>1. /\ rd \in Nat /\ Len(wire) \in Nat /\ METADATA \in Nat /\ PathLen[path] \in Nat
          /\ hdr.size \in Nat /\ tot \in Nat
      BY <1>3
    <3>2. k \in Nat /\ rd+k <= Len(wire) /\ tot+k <= hdr.size
      BY <1>4
    <3>3. h \in Int /\ rd + 1 = h + METADATA + PathLen[path] + tot
      BY <1>2
    <3>4. i \in Int /\ i >= rd+1 /\ i <= rd+k
      BY <3>1, <3>2
    <3>5. i <= Len(wire)
      BY <3>1, <3>2, <3>4
    <3>6. tot+i-rd-1 \in 0..hdr.size-1
      BY <3>1, <3>2, <3>4
    <3>7. h+METADATA+PathLen[path]+(tot+i-rd-1) = i
      BY <3>1, <3>3, <3>4
    <3>8. QED
      BY <3>5, <3>6, <3>7
  <2>2. PICK j \in 0..hdr.size-1 : j = tot+i-rd-1
    BY <2>1
  <2>3. wire[h+METADATA+PathLen[path]+j] = DataByte(path, j)
    BY <1>2, <2>1, <2>2 DEF Item
  <2>4. QED
    BY <2>1, <2>2, <2>3
<1>6. buf'[0] = DataByte(path, tot)
  <2>1. 0 \in 0..BufSize-1 /\ 0 \in 0..0+k-1 /\ rd+1+0-0 = rd+1 /\ rd+1 \in rd+1..rd+k
        /\ tot+(rd+1)-rd-1 = tot
    BY <1>3, <1>4
  <2>2. Stored(0, k)[0] = wire[rd+1]
    BY <1>4, <2>1, StoredBytes
  <2>3. wire[rd+1] = DataByte(path, tot+(rd+1)-rd-1)
    BY <1>5, <2>1
  <2>4. QED
    BY <1>1, <2>1, <2>2, <2>3
<1>7. content[path] = Chunk(path, 0, tot)
  BY <1>2 DEF Copies
<1>8. content[path] \o SubSeq(wire, rd+1, rd+k) = Chunk(path, 0, tot+k)
  <2> DEFINE c == content[path]
             t == SubSeq(wire, rd+1, rd+k)
  <2>1. \A i \in rd+1..rd+k : wire[i] \in Cell
    BY <1>4, Incoming
  <2>2. /\ t \in Seq(Cell) /\ Len(t) = k
        /\ \A i \in 1..k : t[i] = wire[rd+1+i-1]
    <3>1. rd+1 \in Int /\ rd+k \in Int /\ rd+1 <= rd+k /\ (rd+k)-(rd+1)+1 = k
      BY <1>3, <1>4
    <3>2. /\ t \in Seq(Cell)
          /\ Len(t) = IF rd+1 <= rd+k THEN (rd+k)-(rd+1)+1 ELSE 0
          /\ \A i \in 1..(rd+k)-(rd+1)+1 : t[i] = wire[rd+1+i-1]
      BY <2>1, <3>1, SubSeqProperties
    <3>3. QED
      BY <3>1, <3>2
  <2>3. c \in Seq(Cell) /\ Len(c) = tot
    BY <1>2, <1>3
  <2>4. \A i \in 1..tot : c[i] = DataByte(path, i-1)
    <3>1. \A i \in 1..tot : Chunk(path, 0, tot)[i] = DataByte(path, 0+i-1)
      BY DEF Chunk
    <3>2. QED
      BY <1>3, <1>7, <3>1
  <2>5. \A i \in 1..k : t[i] = DataByte(path, tot+i-1)
    <3> TAKE i \in 1..k
    <3>1. rd+1+i-1 \in rd+1..rd+k /\ tot+(rd+1+i-1)-rd-1 = tot+i-1
      BY <1>3, <1>4
    <3>2. wire[rd+1+i-1] = DataByte(path, tot+(rd+1+i-1)-rd-1)
      BY <1>5, <3>1
    <3>3. QED
      BY <2>2, <3>1, <3>2
  <2> HIDE DEF c, t
  <2>6. /\ c \o t \in Seq(Cell) /\ Len(c \o t) = tot+k
        /\ \A i \in 1..tot+k : (c \o t)[i] = IF i <= tot THEN c[i] ELSE t[i-tot]
    <3>1. /\ c \o t \in Seq(Cell) /\ Len(c \o t) = Len(c)+Len(t)
          /\ \A i \in 1..Len(c)+Len(t) : (c \o t)[i] = IF i <= Len(c) THEN c[i] ELSE t[i-Len(c)]
      BY <2>2, <2>3, ConcatProperties
    <3>2. QED
      BY <2>2, <2>3, <3>1
  <2>7. \A i \in 1..tot+k : (c \o t)[i] = DataByte(path, i-1)
    <3> TAKE i \in 1..tot+k
    <3>1. CASE i <= tot
      BY <1>3, <2>4, <2>6, <3>1
    <3>2. CASE ~(i <= tot)
      <4>1. i-tot \in 1..k /\ tot+(i-tot)-1 = i-1
        BY <1>3, <1>4, <3>2
      <4>2. QED
        BY <2>5, <2>6, <3>2, <4>1
    <3>3. QED
      BY <3>1, <3>2
  <2>8. /\ Len(Chunk(path, 0, tot+k)) = tot+k
        /\ \A i \in 1..tot+k : Chunk(path, 0, tot+k)[i] = DataByte(path, i-1)
    <3>1. tot+k \in Nat
      BY <1>3, <1>4
    <3>2. \A i \in 1..tot+k : 0+i-1 = i-1
      BY <1>3, <1>4
    <3>3. QED
      BY <3>1, <3>2 DEF Chunk
  <2>9. Chunk(path, 0, tot+k) \in Seq(Cell)
    <3>1. tot+k \in Nat /\ 0+(tot+k) <= MaxSize
      BY <1>3, <1>4, Positions, Numbers DEF Size
    <3>2. QED
      BY <1>2, <3>1, ChunkCells
  <2>10. c \o t = Chunk(path, 0, tot+k)
    BY <2>6, <2>7, <2>8, <2>9, SeqEqual
  <2>11. QED
    BY <2>10 DEF c, t
<1>9. \A i \in rd+1..rd+k : wire[i][1] = "data"
  BY <1>5, CellFields
<1>10. content' = [content EXCEPT ![path] = Chunk(path, 0, tot+k)]
  BY <1>1, <1>2, <1>8
<1>11. QED
  BY <1>1, <1>4, <1>6, <1>7, <1>9, <1>10

LEMMA RecvFileAligned ==
  ASSUME IInv, Items, Copies, Aligned, Receive, RecvFile
  PROVE  Aligned' /\ Copies'
<1>1. PICK k \in Nat \ {0} :
           /\ rd' = rd + k /\ rd + k <= Len(wire) /\ tot' = tot + k /\ tot + k <= hdr.size
           /\ buf'[0] = DataByte(path, tot)
           /\ \A i \in rd+1..rd+k : wire[i][1] = "data"
           /\ content' = [content EXCEPT ![path] = Chunk(path, 0, tot+k)]
           /\ content[path] = Chunk(path, 0, tot)
  BY RecvFileBytes
<1>2. PICK h \in 1..rd :
           /\ path \in File /\ path \in Node /\ hdr.len = PathLen[path] /\ hdr.is_file = 1
           /\ tot \in 0..hdr.size /\ Len(content[path]) = tot
           /\ rd + 1 = h + METADATA + PathLen[path] + tot
           /\ HeaderAt(h, path, hdr.size) /\ Item(h, path, hdr.size)
  BY FileInHand DEF RecvFile
<1>3. /\ rd \in Nat /\ Len(wire) \in Nat /\ METADATA \in Nat /\ PathLen[path] \in Nat
      /\ hdr.size \in Nat /\ tot \in Nat
      /\ content \in [File -> Seq(Cell)]
      /\ rpc = "data" /\ UNCHANGED <<rpc, read, hdr, path, made, wire, conn>>
  <2>1. hdr.size \in Nat
    BY Positions, Numbers
  <2>2. tot \in Nat
    BY <1>2, <2>1
  <2>3. rpc = "data" /\ UNCHANGED <<rpc, read, hdr, path, made, wire, conn>>
    BY DEF RecvFile
  <2>4. QED
    BY <1>2, <2>1, <2>2, <2>3, Positions, Numbers
<1>4. /\ Len(Chunk(path, 0, tot+k)) = tot+k /\ Chunk(path, 0, tot+k) # <<>>
  <2>1. tot+k \in Nat /\ tot+k # 0
    BY <1>1, <1>3
  <2>2. Len(Chunk(path, 0, tot+k)) = tot+k
    BY <2>1 DEF Chunk
  <2>3. QED
    BY <2>1, <2>2, EmptySeq
<1>5. /\ content'[path] = Chunk(path, 0, tot+k)
      /\ \A n \in File : n # path => content'[n] = content[n]
  BY <1>1, <1>2, <1>3
<1>6. Front = rd /\ Front' = rd+k
  BY <1>1, <1>3 DEF Front
<1>7. \A i \in 1..rd+k : \A n, s : HeaderAt(i, n, s) => i \in 1..rd
  BY <1>1, <1>3, CellFields DEF HeaderAt
<1>8. Counts'
  BY <1>1, <1>3 DEF Counts, Aligned
<1>9. \A i \in 1..rd' : wire'[i] # Stop
  BY <1>1, <1>3, CellFields DEF Aligned
<1>10. Place'
  <2>1. rd' - tot' - hdr.len - METADATA + 1 = rd - tot - hdr.len - METADATA + 1
        /\ rd' >= METADATA + hdr.len + tot'
    <3>1. /\ rd' = rd + k /\ tot' = tot + k
          /\ rd \in Nat /\ tot \in Nat /\ k \in Nat /\ METADATA \in Nat
      BY <1>1, <1>3
    <3>2. hdr.len \in Nat /\ rd + 1 = h + METADATA + hdr.len + tot
      BY <1>2, <1>3, Zenon
    <3>3. h \in Nat /\ h >= 1
      BY <1>3
    <3>4. QED
      BY <3>1, <3>2, <3>3
  <2>2. /\ hdr = HeaderOf(path, hdr.size)
        /\ wire[rd - tot - hdr.len - METADATA + 1] = MetaByte(path, hdr.size, 0)
    BY <1>3 DEF Aligned, Place, HeaderAt
  <2>3. Len(content'[path]) = tot'
    BY <1>1, <1>4, <1>5
  <2>4. wire'[rd' - tot' - hdr.len - METADATA + 1] = MetaByte(path, hdr.size, 0)
    BY <1>3, <2>1, <2>2
  <2>5. QED
    BY <1>2, <1>3, <2>1, <2>2, <2>3, <2>4 DEF Place, HeaderAt
<1>11. Holds'
  <2>1. \A i \in 1..rd : i \in 1..rd+k
    BY <1>1, <1>3
  <2>2. \A n \in Node : n \in made' <=> \E i \in 1..Front', s \in Size : HeaderAt(i, n, s)'
    BY <1>3, <1>6, <1>7, <2>1 DEF Aligned, Holds, HeaderAt
  <2>3. \A i \in 1..Front', n \in File, s \in Size :
          HeaderAt(i, n, s)' /\ ~(rpc' = "data" /\ n = path') => Len(content'[n]) = s
    BY <1>3, <1>5, <1>6, <1>7 DEF Aligned, Holds, HeaderAt
  <2>4. QED
    BY <2>2, <2>3 DEF Holds
<1>12. Aligned'
  BY <1>3, <1>8, <1>9, <1>10, <1>11 DEF Aligned
<1>13. path \in made
  BY <1>2, <1>3, <1>6, Positions DEF Aligned, Holds
<1>14. Copies'
  <2>1. \A n \in File : content'[n] = Chunk(n, 0, Len(content'[n]))
    BY <1>4, <1>5 DEF Copies
  <2>2. \A n \in File : n \notin made' => content'[n] = <<>>
    BY <1>3, <1>5, <1>13 DEF Copies
  <2>3. \A n \in File, j \in 0..MaxSize-1 : buf'[0] = DataByte(n, j) => content'[n] # <<>>
    <3>1. PICK c : c = DataByte(path, tot) /\ buf'[0] = c
      BY <1>1
    <3>2. c[2] = path
      BY <3>1, CellFields
    <3>3. ASSUME NEW n, NEW j, c = DataByte(n, j)
          PROVE  n = path
      <4>1. DataByte(n, j)[2] = n
        BY CellFields
      <4>2. QED
        BY <3>2, <3>3, <4>1
    <3>4. \A n, j : buf'[0] = DataByte(n, j) => n = path
      BY <3>1, <3>3
    <3>5. QED
      BY <1>4, <1>5, <3>4
  <2>4. buf'[0] # Stop
    BY <1>1, CellFields
  <2>5. QED
    BY <2>1, <2>2, <2>3, <2>4 DEF Copies
<1>15. QED
  BY <1>12, <1>14

\* All of the file came.
LEMMA CloseFileAligned ==
  ASSUME IInv, Walk, Items, Copies, Aligned, Receive, CloseFile, tot = hdr.size
  PROVE  Aligned' /\ Copies'
<1>1. /\ rpc = "data" /\ rpc' = "meta"
      /\ UNCHANGED <<rd, read, buf, hdr, path, tot, made, content, wire, conn>>
      /\ read = 0
  BY DEF CloseFile, Aligned, Counts
<1>2. PICK h \in 1..rd :
           /\ path \in File /\ path \in Node /\ hdr.len = PathLen[path] /\ hdr.is_file = 1
           /\ tot \in 0..hdr.size /\ Len(content[path]) = tot
           /\ rd + 1 = h + METADATA + PathLen[path] + tot
           /\ HeaderAt(h, path, hdr.size) /\ Item(h, path, hdr.size)
  BY <1>1, FileInHand
<1>3. /\ rd \in Nat /\ Len(wire) \in Nat /\ rd <= Len(wire) /\ METADATA \in Nat /\ METADATA >= 1
      /\ hdr.size \in Size
  BY Positions, Numbers
<1>4. Front = rd /\ Front' = rd
  BY <1>1, <1>3 DEF Front
<1>5. Counts'
  BY <1>1, <1>3 DEF Counts
<1>6. Place'
  <2>1. h \in 1..(rd+1)-1 /\ Behind(h, path, hdr.size) = rd+1
    BY <1>2, <1>3 DEF Behind
  <2>2. \E k \in 1..(rd+1)-1, n \in Node, s \in Size :
          HeaderAt(k, n, s) /\ Behind(k, n, s) = rd+1
    BY <1>2, <1>3, <2>1
  <2>3. Between(rd+1)'
    BY <1>1, <2>2 DEF Between, HeaderAt, Behind
  <2>4. QED
    BY <1>1, <2>3 DEF Place
<1>7. ASSUME NEW i \in 1..rd, NEW n \in File, NEW s \in Size, HeaderAt(i, n, s)
      PROVE  Len(content[n]) = s
  <2>1. CASE n = path
    <3>1. i \in 1..Len(wire) /\ h \in 1..Len(wire)
      BY <1>3
    <3>2. i = h
      BY <1>2, <1>3, <1>7, <2>1, <3>1 DEF Walk
    <3>3. s = hdr.size
      BY <1>2, <1>7, <3>2, CellFields DEF HeaderAt
    <3>4. QED
      BY <1>2, <2>1, <3>3
  <2>2. CASE n # path
    BY <1>4, <1>7, <2>2 DEF Aligned, Holds
  <2>3. QED
    BY <2>1, <2>2
<1>8. Holds'
  <2>1. \A n \in Node : n \in made' <=> \E i \in 1..Front', s \in Size : HeaderAt(i, n, s)'
    BY <1>1, <1>4 DEF Aligned, Holds, HeaderAt
  <2>2. \A i \in 1..Front', n \in File, s \in Size : HeaderAt(i, n, s)' => Len(content'[n]) = s
    BY <1>1, <1>4, <1>7 DEF HeaderAt
  <2>3. QED
    BY <2>1, <2>2 DEF Holds
<1>9. Aligned'
  BY <1>1, <1>5, <1>6, <1>8 DEF Aligned
<1>10. Copies'
  <2>1. buf'[0] # Stop
    BY <1>1 DEF Copies
  <2>2. QED
    BY <1>1, <2>1 DEF Copies
<1>11. QED
  BY <1>9, <1>10

(***************************************************************************)
(* A sender that died.                                                     *)
(***************************************************************************)

\* A failed recv finds no stop byte behind it.
LEMMA SenderDied ==
  ASSUME IInv, Pending, Aligned, rpc # "done", conn # "open", Available = 0
  PROVE  spc = "dead"
<1>1. spc \in {"done", "dead"}
  BY DEF IInv, Sending
<1>2. rd = Len(wire) /\ Len(wire) \in Nat
  BY Positions
<1>3. spc = "done" => Len(wire) \in 1..rd
  BY <1>2, Lengths, EmptySeq DEF Pending
<1>4. spc # "done"
  BY <1>3 DEF Pending, Aligned
<1>5. QED
  BY <1>1, <1>4

\* A buffer that begins with a 2 holds content.
LEMMA TwoInBuffer ==
  ASSUME IInv, Copies, rpc # "done", EqualsTwo(buf[0])
  PROVE  TwosCame
<1>1. buf[0] # Stop /\ buf[0][1] = "data" /\ buf[0][2] \in Twos
  BY DEF Copies, EqualsTwo
<1>2. buf[0] \in Cell \cup {NUL}
  <2>1. 0 \in 0..BufSize-1
    BY Numbers
  <2>2. QED
    BY <2>1, Positions DEF Buffer
<1>3. buf[0] \in DataCell
  <2>1. \A c \in MetaCell : c[1] = "meta"
    BY CellFields DEF MetaCell
  <2>2. \A c \in PathCell : c[1] = "path"
    BY CellFields DEF PathCell
  <2>3. QED
    BY <1>1, <1>2, <2>1, <2>2, CellFields DEF Cell
<1>4. PICK n \in File, j \in 0..MaxSize-1 : buf[0] = DataByte(n, j)
  BY <1>3 DEF DataCell
<1>5. n = buf[0][2]
  BY <1>4, CellFields
<1>6. content[n] # <<>>
  BY <1>4 DEF Copies
<1>7. QED
  BY <1>1, <1>5, <1>6 DEF TwosCame

LEMMA EndHeader ==
  ASSUME NEW b, NEW h \in HeadersIn(b), h.is_file = 2
  PROVE  EqualsTwo(b[0])
<1> DEFINE written == {w \in Node \X (0..MaxSize) :
                         \A j \in 0..METADATA-1 : b[j] = MetaByte(w[1], w[2], j)}
<1>1. h.is_file = IsFileOf(b[0]) \/ h.is_file \in {0, 1}
  <2>1. CASE written # {}
    <3>1. HeadersIn(b) = {[is_file |-> IsFileOf(b[0]), size |-> w[2], len |-> PathLen[w[1]]]
                            : w \in written}
      BY <2>1 DEF HeadersIn
    <3> HIDE DEF written
    <3>2. QED
      BY <3>1
  <2>2. CASE written = {}
    BY <2>2 DEF HeadersIn
  <2>3. QED
    BY <2>1, <2>2
<1>2. IsFileOf(b[0]) = 2
  BY <1>1
<1>3. QED
  BY <1>2 DEF IsFileOf

\* What a failed recv leaves of the buffer is parsed.
LEMMA OldHeader ==
  ASSUME IInv, Copies, rpc = "meta", HeaderParsed(buf), UNCHANGED <<made, content>>
  PROVE  /\ rpc' \in {"item", "path"}
         /\ rpc' = "item" => path' = Base
         /\ hdr'.is_file = 2 => TwosCame
         /\ Copies'
<1>1. PICK h \in HeadersIn(buf) :
    /\ hdr' = h
    /\ read' = 0
    /\ IF h.len = 0
         THEN rpc' = "item" /\ path' = Base /\ buf' = [buf EXCEPT ![0] = NUL]
         ELSE rpc' = "path" /\ buf' = buf /\ UNCHANGED path
  BY DEF HeaderParsed
<1>2. rpc' \in {"item", "path"} /\ (rpc' = "item" => path' = Base)
  BY <1>1
<1>3. hdr'.is_file = 2 => TwosCame
  BY <1>1, EndHeader, TwoInBuffer
<1>4. buf'[0] = NUL \/ buf'[0] = buf[0]
  <2>1. 0 \in 0..BufSize-1
    BY Numbers
  <2>2. QED
    BY <1>1, <2>1, Positions DEF Buffer
<1>5. buf[0] # Stop
  BY DEF Copies
<1>6. Copies'
  BY <1>4, <1>5, CellFields, CopiesKept
<1>7. QED
  BY <1>2, <1>3, <1>6

\* The first recv that fails.
LEMMA FailedLost ==
  ASSUME IInv, Pending, Copies, Aligned, Receive,
         \/ MetadataEof \/ MetadataError \/ PathEof \/ PathError \/ FileError
         \/ CloseFile /\ tot # hdr.size
  PROVE  Lost' /\ Copies' /\ UNCHANGED <<made, content>>
<1>1. /\ UNCHANGED <<spc, wire, rd, made, content>>
      /\ (AtEof /\ UNCHANGED conn) \/ (AtReset /\ conn' = "fin")
      /\ rpc \in {"meta", "path", "data"}
  BY DEF Receive, MetadataEof, MetadataError, PathEof, PathError, FileError, CloseFile,
         receiverVars
<1>2. Exhausted'
  BY <1>1, FailedRecv
<1>3. spc' = "dead"
  <2>1. conn # "open" /\ Available = 0
    BY <1>1 DEF AtEof, AtReset, IInv
  <2>2. QED
    BY <1>1, <2>1, SenderDied
<1>4. buf[0] # Stop
  BY <1>1 DEF Copies
<1>5. TwosCame' <=> TwosCame
  BY <1>1 DEF TwosCame
<1>6. rpc \in {"path", "data"} => hdr.is_file # 2
  BY DEF Aligned, Place, HeaderOf
<1>7. CASE (MetadataEof \/ MetadataError) /\ HeaderParsed(buf)
  <2>1. rpc = "meta"
    BY <1>7 DEF MetadataEof, MetadataError
  <2>2. QED
    BY <1>1, <1>2, <1>3, <1>5, <1>7, <2>1, OldHeader DEF Lost
<1>8. CASE MetadataError /\ ~HeaderParsed(buf)
  <2>1. rpc = "meta" /\ EqualsTwo(buf[0]) /\ UNCHANGED <<buf, hdr>> /\ rpc' = "done"
    BY <1>8 DEF MetadataError
  <2>2. TwosCame
    BY <2>1, TwoInBuffer
  <2>3. Copies'
    BY <1>1, <2>1, CopiesKept
  <2>4. QED
    BY <1>1, <1>2, <1>3, <1>4, <1>5, <2>1, <2>2, <2>3 DEF Lost
<1>9. CASE PathEof \/ PathError \/ FileError \/ CloseFile
  <2>1. /\ rpc \in {"path", "data"} /\ UNCHANGED <<buf, hdr>>
        /\ rpc' \notin {"item", "done"}
    BY <1>9 DEF PathEof, PathError, FileError, CloseFile, receiverVars
  <2>2. Copies'
    BY <1>1, <1>4, <2>1, CopiesKept
  <2>3. QED
    BY <1>1, <1>2, <1>3, <1>6, <2>1, <2>2 DEF Lost
<1>10. QED
  BY <1>1, <1>7, <1>8, <1>9 DEF MetadataEof

\* Nothing comes any more, and what is still done is done to the empty path.
LEMMA LostStays ==
  ASSUME IInv, Copies, Lost, Receive
  PROVE  Lost' /\ Copies' /\ UNCHANGED <<made, content>>
<1>1. conn = "fin" /\ Available = 0 /\ spc = "dead" /\ spc' = spc
  BY DEF Lost, Exhausted, Receive
<1>2. ~RecvMetadata /\ ~RecvPath /\ ~RecvFile /\ ~MetadataError /\ ~PathError /\ ~FileError
  <2>1. \A a \in Int : 1..AtMost(a, Available) = {}
    BY <1>1 DEF AtMost
  <2>2. /\ METADATA - read \in Int /\ hdr.len - read \in Int
        /\ AtMost(BufSize, hdr.size - tot) \in Int
    <3>1. METADATA \in Int /\ BufSize \in Int
      BY Numbers
    <3>2. read \in Int /\ tot \in Int /\ hdr.len \in Nat /\ hdr.size \in Size
      BY Positions
    <3>3. hdr.size \in Nat
      BY <3>2, Numbers
    <3>4. METADATA - read \in Int /\ hdr.len - read \in Int /\ hdr.size - tot \in Int
      BY <3>1, <3>2, <3>3
    <3>5. \A a, b \in Int : AtMost(a, b) \in Int
      BY DEF AtMost
    <3>6. QED
      BY <3>1, <3>4, <3>5
  <2>3. QED
    BY <1>1, <2>1, <2>2 DEF RecvMetadata, RecvPath, RecvFile, MetadataError, PathError,
       FileError, AtReset
<1>3. rpc # "done" => buf[0] # Stop
  BY DEF Copies
<1>4. CASE MetadataEof
  <2>1. /\ rpc = "meta" /\ HeaderParsed(buf) /\ UNCHANGED <<rd, made, content, wire, conn>>
    BY <1>4 DEF MetadataEof
  <2>2. Exhausted' /\ (TwosCame' <=> TwosCame)
    BY <2>1 DEF Lost, Exhausted, Available, TwosCame
  <2>3. QED
    BY <1>1, <2>1, <2>2, OldHeader DEF Lost
<1>5. CASE ~MetadataEof
  <2>1. PathEof \/ EndOfFolder \/ CreateFile \/ CreateFolder \/ CloseFile
    BY <1>2, <1>5 DEF Receive, ReceiverStep
  <2>2. UNCHANGED <<rd, buf, hdr, path, content, wire, conn>> /\ rpc # "done"
    <3>1. CASE CreateFile
      <4>1. path = Base /\ Base \notin File
        BY <3>1, ReceiverAssumption DEF CreateFile, Lost, File
      <4>2. QED
        BY <3>1, <4>1 DEF CreateFile
    <3>2. QED
      BY <2>1, <3>1 DEF PathEof, EndOfFolder, CreateFolder, CloseFile, receiverVars
  <2>3. UNCHANGED made /\ rpc' # "item"
    <3>1. CASE CreateFile \/ CreateFolder
      <4>1. path = Base /\ Base \notin File /\ Base \notin Folder
        BY <3>1, ReceiverAssumption, TreeAssumption DEF CreateFile, CreateFolder, Lost, File
      <4>2. QED
        BY <3>1, <4>1 DEF CreateFile, CreateFolder
    <3>2. QED
      BY <2>1, <3>1 DEF PathEof, EndOfFolder, CloseFile, receiverVars
  <2>4. rpc' = "done" => hdr.is_file = 2
    BY <2>1, <2>2 DEF PathEof, EndOfFolder, CreateFile, CreateFolder, CloseFile, receiverVars
  <2>5. Exhausted' /\ (TwosCame' <=> TwosCame)
    BY <2>2 DEF Lost, Exhausted, Available, TwosCame
  <2>6. Copies'
    BY <1>3, <2>2, <2>3, CopiesKept
  <2>7. QED
    BY <1>1, <1>3, <2>2, <2>3, <2>4, <2>5, <2>6 DEF Lost
<1>6. QED
  BY <1>4, <1>5

(***************************************************************************)
(* The invariant.                                                          *)
(***************************************************************************)
LEMMA ReceiveKeepsPlace ==
  ASSUME IInv, Walk, Pending, Items, Copies, Aligned \/ Lost, Receive
  PROVE  Copies' /\ (Aligned' \/ Lost')
<1>1. CASE Lost
  BY <1>1, LostStays
<1>2. CASE Aligned
  <2>1. CASE RecvMetadata
    BY <1>2, <2>1, RecvMetadataAligned
  <2>2. CASE RecvPath
    BY <1>2, <2>2, RecvPathAligned
  <2>3. CASE EndOfFolder \/ CreateFile \/ CreateFolder
    BY <1>2, <2>3, ItemAligned
  <2>4. CASE RecvFile
    BY <1>2, <2>4, RecvFileAligned
  <2>5. CASE CloseFile /\ tot = hdr.size
    BY <1>2, <2>5, CloseFileAligned
  <2>6. CASE \/ MetadataEof \/ MetadataError \/ PathEof \/ PathError \/ FileError
             \/ CloseFile /\ tot # hdr.size
    BY <1>2, <2>6, FailedLost
  <2>7. QED
    BY <2>1, <2>2, <2>3, <2>4, <2>5, <2>6 DEF Receive, ReceiverStep
<1>3. QED
  BY <1>1, <1>2

\* No step takes back that a file was sent in another size.
LEMMA RacedForGood ==
  ASSUME IInv, [Next]_vars, raced
  PROVE  raced'
<1>1. CASE UNCHANGED raced
  BY <1>1
<1>2. CASE OpenFile \/ CreateFileToSend
  <2>1. raced' = (raced \/ fsize[item] # told)
    BY <1>2 DEF OpenFile, CreateFileToSend
  <2>2. QED
    BY <2>1, Zenon
<1>3. CASE CreateFileRefused
  <2>1. raced' = (raced \/ told > 0)
    BY <1>3 DEF CreateFileRefused
  <2>2. QED
    BY <2>1, Zenon
<1>4. QED
  BY <1>1, <1>2, <1>3
     DEF Next, Send, SenderStep, Receive, Environment, Ended, vars, senderVars, Start,
         InvalidPath, ReadDir, SendEntry, SendFolder, SendFileMetadata, EndDir, SendFile,
         SendFileFails, EndFile, SendStop, Kill, Reset, Touch

LEMMA FStep ==
  ASSUME IInv, FInv, [Next]_vars
  PROVE  FInv'
<1>1. Walk' /\ Pending'
  BY WalkStep DEF FInv
<1>2. ASSUME ~raced'
      PROVE  Items' /\ Copies' /\ (Aligned' \/ Lost')
  <2>1. ~raced
    BY <1>2, RacedForGood
  <2>2. Walk /\ Pending /\ Items /\ Copies /\ (Aligned \/ Lost)
    BY <2>1 DEF FInv
  <2>3. Items'
    BY <1>2, <2>2, ItemsStep
  <2>4. CASE Receive
    BY <2>2, <2>3, <2>4, ReceiveKeepsPlace
  <2>5. CASE Send \/ Environment
    <3>1. Sending /\ UNCHANGED receiverVars /\ \A i \in 1..rd : wire'[i] = wire[i]
      BY <2>5, ReceivedStays
    <3>2. Copies'
      BY <2>2, <3>1 DEF Copies, receiverVars
    <3>3. ~Lost
      BY <3>1 DEF Lost, Sending
    <3>4. QED
      BY <2>2, <2>3, <3>1, <3>2, <3>3, AlignedStays
  <2>6. CASE UNCHANGED vars \/ Ended
    <3>1. UNCHANGED receiverVars /\ wire' = wire /\ conn' = conn /\ spc' = spc
      BY <2>6 DEF Ended, vars, senderVars
    <3>2. Copies'
      BY <2>2, <3>1 DEF Copies, receiverVars
    <3>3. Lost => Lost'
      BY <3>1 DEF Lost, Exhausted, Available, TwosCame, receiverVars
    <3>4. Aligned => Aligned'
      BY <3>1, AlignedStays
    <3>5. QED
      BY <2>2, <2>3, <3>2, <3>3, <3>4
  <2>7. QED
    BY <2>4, <2>5, <2>6 DEF Next
<1>3. QED
  BY <1>1, <1>2 DEF FInv

LEMMA FInit ==
  ASSUME Init
  PROVE  FInv
<1>1. /\ wire = <<>> /\ dirs = <<>> /\ spc = "start" /\ rd = 0 /\ rpc = "meta" /\ read = 0
      /\ made = {} /\ content = [n \in File |-> <<>>] /\ tot = 0
  BY DEF Init, SenderInit, ReceiverInit
<1>2. Len(wire) = 0 /\ Len(dirs) = 0 /\ 1..0 = {}
  BY <1>1, EmptySeq
<1>3. Walk
  BY <1>2 DEF Walk
<1>4. Pending
  BY <1>1, <1>2 DEF Pending
<1>5. Items
  BY <1>1, <1>2 DEF Items, Boundary
<1>6. Copies
  <2>1. \A n \in File : content[n] = <<>> /\ Len(content[n]) = 0
    BY <1>1, EmptySeq
  <2>2. \A n \in File : Chunk(n, 0, 0) = <<>>
    BY <1>2, EmptySeq DEF Chunk
  <2>3. buf[0] = NUL
    BY Numbers DEF Init, ReceiverInit
  <2>4. QED
    BY <1>1, <2>1, <2>2, <2>3, CellFields DEF Copies
<1>7. Aligned
  <2>1. Front = 0
    BY <1>1 DEF Front
  <2>2. Counts
    BY <1>1, Numbers DEF Counts
  <2>3. Between(rd+1)
    BY <1>1 DEF Between
  <2>4. Place
    BY <1>1, <2>3 DEF Place
  <2>5. Holds
    BY <1>1, <1>2, <2>1 DEF Holds
  <2>6. QED
    BY <1>1, <1>2, <2>2, <2>4, <2>5 DEF Aligned
<1>8. QED
  BY <1>3, <1>4, <1>5, <1>6, <1>7 DEF FInv

LEMMA FInvariant == Spec => [](IInv /\ FInv)
<1>1. Init => IInv /\ FInv
  BY Initially, FInit
<1>2. IInv /\ FInv /\ [Next]_vars => (IInv /\ FInv)'
  BY Step, FStep
<1>3. QED
  BY <1>1, <1>2, PTL DEF Spec

\* receive_folder, receive_metadata and receive_file take no byte for what it is
\* not: each header, path and content is read where the sender wrote one, for
\* every tree and every split of the stream into recv calls, until a file is sent
\* in another size than announced or skipped on Windows.
THEOREM StreamIsFramed == Spec => []Framing
<1>1. ASSUME IInv, FInv
      PROVE  Framing
  <2> SUFFICES ASSUME ~raced, Available > 0
               PROVE  LET next == wire[rd+1]
                      IN  CASE rpc = "meta" /\ read = 0 ->
                                 next = Stop \/ (next[1] = "meta" /\ next[3] = 0)
                            [] rpc = "meta" /\ read > 0 -> next[1] = "meta" /\ next[3] = read
                            [] rpc = "path" -> next[1] = "path" /\ next[3] = read
                            [] rpc = "data" /\ tot # hdr.size -> next = DataByte(path, tot)
                            [] OTHER -> TRUE
    BY DEF Framing
  <2>1. Items /\ Copies /\ Aligned
    <3>1. ~Lost
      BY Positions DEF Lost, Exhausted
    <3>2. QED
      BY <1>1, <3>1 DEF FInv
  <2>2. /\ rd \in Nat /\ Len(wire) \in Nat /\ rd+1 <= Len(wire)
        /\ METADATA \in Nat /\ METADATA >= 1
    BY <1>1, Positions, Numbers
  <2>3. CASE rpc = "meta" /\ read = 0
    <3>1. Boundary(rd+1)
      <4>1. CASE rd+1 = 1
        BY <2>1, <4>1 DEF Items
      <4>2. CASE rd+1 # 1
        <5>1. PICK k \in 1..(rd+1)-1, n \in Node, s \in Size :
                HeaderAt(k, n, s) /\ Behind(k, n, s) = rd+1
          BY <2>1, <2>3, <4>2 DEF Aligned, Place, Between
        <5>2. k \in 1..Len(wire)
          BY <2>2
        <5>3. QED
          BY <2>1, <5>1, <5>2 DEF Items, Item
      <4>3. QED
        BY <4>1, <4>2
    <3>2. wire[rd+1] = Stop \/ \E n \in Node, s \in Size : HeaderAt(rd+1, n, s)
      BY <2>2, <3>1 DEF Boundary
    <3>3. wire[rd+1] = Stop \/ (wire[rd+1][1] = "meta" /\ wire[rd+1][3] = 0)
      BY <3>2, CellFields DEF HeaderAt
    <3>4. QED
      BY <2>3, <3>3
  <2>4. CASE rpc = "meta" /\ read > 0
    <3>1. read \in 0..METADATA-1
      BY <2>1, <2>4 DEF Aligned, Counts
    <3>2. PICK n \in Node, s \in Size : rd-read >= 0 /\ HeaderAt(rd-read+1, n, s)
      BY <2>1, <2>4 DEF Aligned, Place, Front
    <3>3. rd-read+1 \in 1..Len(wire) /\ (rd-read+1)+read = rd+1
      BY <2>2, <3>1, <3>2
    <3>4. Item(rd-read+1, n, s)
      BY <2>1, <3>2, <3>3 DEF Items
    <3>5. wire[rd+1] = MetaByte(n, s, read)
      BY <2>2, <3>1, <3>3, <3>4 DEF Item
    <3>6. wire[rd+1][1] = "meta" /\ wire[rd+1][3] = read
      BY <3>5, CellFields
    <3>7. QED
      BY <2>2, <2>4, <3>1, <3>6
  <2>5. CASE rpc = "path"
    <3>1. read \in 0..hdr.len-1
      BY <2>1, <2>5 DEF Aligned, Counts
    <3>2. PICK n \in Node, s \in Size :
            rd-(METADATA+read) >= 0 /\ HeaderAt(rd-(METADATA+read)+1, n, s) /\ hdr = HeaderOf(n, s)
      BY <2>1, <2>5 DEF Aligned, Place, Front
    <3>3. hdr.len = PathLen[n] /\ PathLen[n] \in Nat
      BY <3>2, Numbers DEF HeaderOf
    <3>4. /\ rd-(METADATA+read)+1 \in 1..Len(wire)
          /\ (rd-(METADATA+read)+1)+METADATA+read = rd+1
      BY <2>2, <3>1, <3>2, <3>3
    <3>5. Item(rd-(METADATA+read)+1, n, s)
      BY <2>1, <3>2, <3>4 DEF Items
    <3>6. wire[rd+1] = PathByte(n, read)
      BY <2>2, <3>1, <3>3, <3>4, <3>5 DEF Item
    <3>7. wire[rd+1][1] = "path" /\ wire[rd+1][3] = read
      BY <3>6, CellFields
    <3>8. QED
      BY <2>5, <3>7
  <2>6. CASE rpc = "data" /\ tot # hdr.size
    <3>1. PICK h \in 1..rd :
             /\ path \in File /\ path \in Node /\ hdr.len = PathLen[path] /\ hdr.is_file = 1
             /\ tot \in 0..hdr.size /\ Len(content[path]) = tot
             /\ rd + 1 = h + METADATA + PathLen[path] + tot
             /\ HeaderAt(h, path, hdr.size) /\ Item(h, path, hdr.size)
      BY <1>1, <2>1, <2>6, FileInHand
    <3>2. hdr.size \in Nat
      BY <1>1, Positions, Numbers
    <3>3. tot \in 0..hdr.size-1
      BY <2>6, <3>1, <3>2
    <3>4. wire[rd+1] = DataByte(path, tot)
      BY <2>2, <3>1, <3>3 DEF Item
    <3>5. QED
      BY <2>6, <3>4
  <2>7. CASE /\ ~(rpc = "meta" /\ read = 0) /\ ~(rpc = "meta" /\ read > 0) /\ rpc # "path"
             /\ ~(rpc = "data" /\ tot # hdr.size)
    BY <2>7
  <2>8. QED
    BY <2>3, <2>4, <2>5, <2>6, <2>7
<1>2. QED
  BY <1>1, FInvariant, PTL

\* fwrite wrote a prefix of that very file, whichever process dies and whenever the
\* connection is reset, as long as no file changed its size between the two looks at
\* it and no announced file was skipped on Windows: those two faults make it false,
\* and ~raced on the left of the property leaves them out.
THEOREM CopiesAreTrue == Spec => []CopiesArePrefixes
<1>1. FInv => CopiesArePrefixes
  BY DEF FInv, Copies, CopiesArePrefixes
<1>2. QED
  BY <1>1, FInvariant, PTL

\* fopen fails on no file that a living sender sends: create_folder was called on
\* its folder before.  Of a stream in which a size changed, or from which Windows
\* withheld a file, it says nothing (~raced).
THEOREM FoldersComeFirst == Spec => []ParentsComeFirst
<1>1. FInv => ParentsComeFirst
  BY DEF FInv, Aligned, Lost, Sending, ParentsComeFirst
<1>2. QED
  BY <1>1, FInvariant, PTL

\* The receiver that took the stop byte for the end.
LEMMA EndIsWhole ==
  ASSUME IInv, Walk, Pending, Copies, Aligned, rpc = "done"
  PROVE  /\ made = Node
         /\ \A n \in File : \E i \in 1..Len(wire) :
              /\ wire[i] = MetaByte(n, Len(content[n]), 0)
              /\ content[n] = Chunk(n, 0, Len(content[n]))
<1>1. rd > 0 /\ wire[rd] = Stop /\ rd \in Nat /\ Len(wire) \in Nat /\ rd <= Len(wire)
  BY Positions DEF Aligned, Place
<1>2. rd = Len(wire) /\ spc = "done"
  <2>1. rd \in 1..Len(wire)
    BY <1>1
  <2>2. QED
    BY <1>1, <2>1 DEF Walk
<1>3. \A n \in Node : Announced(n)
  <2> DEFINE S == {n \in Node : Announced(n)}
  <2>1. Len(dirs) = 0
    BY <1>2, EmptySeq DEF Pending
  <2>2. Root \in S
    BY <1>2, Numbers DEF Pending
  <2>3. \A n \in Node \ {Root} : Parent[n] \in S => n \in S
    BY <1>2, <2>1 DEF Pending
  <2>4. S \in SUBSET Node
    OBVIOUS
  <2> HIDE DEF S
  <2>5. S = Node
    BY <2>2, <2>3, <2>4, TreeAssumption
  <2>6. QED
    BY <2>5 DEF S
<1>4. Front = rd
  BY <1>1 DEF Front
<1>5. \A n \in Node : \E i \in 1..rd, s \in Size : HeaderAt(i, n, s)
  BY <1>2, <1>3 DEF Announced
<1>6. made = Node
  <2>1. \A n \in Node : n \in made
    BY <1>4, <1>5 DEF Aligned, Holds
  <2>2. made \subseteq Node
    BY Positions
  <2>3. QED
    BY <2>1, <2>2
<1>7. ASSUME NEW n \in File
      PROVE  \E i \in 1..Len(wire) :
               /\ wire[i] = MetaByte(n, Len(content[n]), 0)
               /\ content[n] = Chunk(n, 0, Len(content[n]))
  <2>1. n \in Node
    BY Numbers
  <2>2. PICK i \in 1..rd, s \in Size : HeaderAt(i, n, s)
    BY <1>5, <2>1
  <2>3. Len(content[n]) = s
    BY <1>4, <2>2 DEF Aligned, Holds
  <2>4. content[n] = Chunk(n, 0, Len(content[n]))
    BY DEF Copies
  <2>5. QED
    BY <1>2, <2>2, <2>3, <2>4 DEF HeaderAt
<1>8. QED
  BY <1>6, <1>7

LEMMA EndIsReal ==
  ASSUME IInv, FInv
  PROVE  EndMeansCopied
<1> SUFFICES ASSUME ~raced, rpc = "done",
                    buf[0] = Stop \/ \A n \in Twos : content[n] = <<>>
             PROVE  /\ made = Node
                    /\ \A n \in File : \E i \in 1..Len(wire) :
                         /\ wire[i] = MetaByte(n, Len(content[n]), 0)
                         /\ content[n] = Chunk(n, 0, Len(content[n]))
  BY DEF EndMeansCopied
<1>1. Walk /\ Pending /\ Copies /\ Aligned
  BY DEF FInv, Lost, TwosCame
<1>2. QED
  BY <1>1, EndIsWhole

\* The end that the receiver reports is the end of a complete copy: only the stop
\* byte ends the header loop, and main sends it once send_folder returned from
\* every directory.  Of a stream in which a size changed, or from which Windows
\* withheld a file, it says nothing (~raced).
THEOREM TheEndIsComplete == Spec => []EndMeansCopied
<1>1. IInv /\ FInv => EndMeansCopied
  BY EndIsReal
<1>2. QED
  BY <1>1, FInvariant, PTL

\* No path comes twice, so that no fopen truncates a file that was received, and
\* every fwrite appends, as long as no size changed and no announced file was skipped
\* on Windows (~raced).
THEOREM NothingIsOverwritten == Spec => NeverOverwritten
<1>1. ASSUME IInv, FInv, [Next]_vars
      PROVE  [~raced => \A n \in File :
               content'[n] # content[n] =>
                 /\ Len(content[n]) <= Len(content'[n])
                 /\ SubSeq(content'[n], 1, Len(content[n])) = content[n]]_vars
  <2> SUFFICES ASSUME ~raced, NEW n \in File, content'[n] # content[n]
               PROVE  /\ Len(content[n]) <= Len(content'[n])
                      /\ SubSeq(content'[n], 1, Len(content[n])) = content[n]
    OBVIOUS
  <2>1. Receive
    <3>1. content' # content
      OBVIOUS
    <3>2. QED
      BY <1>1, <3>1 DEF Next, Send, Environment, Ended, vars, receiverVars
  <2>2. Walk /\ Pending /\ Items /\ Copies /\ Aligned
    BY <1>1, <2>1, LostStays DEF FInv
  <2>3. RecvFile
    <3>1. ~(EndOfFolder \/ CreateFile \/ CreateFolder)
      BY <1>1, <2>1, <2>2, ItemAligned
    <3>2. QED
      BY <2>1, <3>1 DEF Receive, ReceiverStep, RecvMetadata, MetadataEof, MetadataError,
         RecvPath, PathEof, PathError, CloseFile, FileError, receiverVars
  <2>4. PICK k \in Nat \ {0} :
           /\ rd' = rd + k /\ rd + k <= Len(wire) /\ tot' = tot + k /\ tot + k <= hdr.size
           /\ buf'[0] = DataByte(path, tot)
           /\ \A i \in rd+1..rd+k : wire[i][1] = "data"
           /\ content' = [content EXCEPT ![path] = Chunk(path, 0, tot+k)]
           /\ content[path] = Chunk(path, 0, tot)
    BY <1>1, <2>1, <2>2, <2>3, RecvFileBytes
  <2>5. n = path /\ content'[n] = Chunk(n, 0, tot+k) /\ content[n] = Chunk(n, 0, tot)
    BY <1>1, <2>4, Positions
  <2>6. tot \in Nat /\ tot+k <= MaxSize
    <3>1. hdr.size \in Nat /\ hdr.size <= MaxSize /\ MaxSize \in Nat
      BY <1>1, Positions, Numbers DEF Size
    <3>2. tot \in 0..hdr.size
      BY <2>2, <2>3 DEF Aligned, Counts, RecvFile
    <3>3. QED
      BY <2>4, <3>1, <3>2
  <2>7. QED
    BY <2>4, <2>5, <2>6, ChunkBegins
<1>2. QED
  BY <1>1, FInvariant, PTL DEF Spec, NeverOverwritten

(***************************************************************************)
(* The promise.  While no other program gives a file another size, every   *)
(* header announces the size that the file has.                            *)
(***************************************************************************)
Told ==
  \A i \in 1..Len(wire), n \in File, s \in Size : HeaderAt(i, n, s) => s = fsize[n]

LEMMA SizesStay ==
  ASSUME "touch" \notin Faults, IInv, [Next]_vars
  PROVE  fsize' = fsize
BY DEF Next, Send, SenderStep, Receive, Environment, Ended, vars, senderVars, Start,
       InvalidPath, ReadDir, SendEntry, SendFolder, SendFileMetadata, EndDir, OpenFile,
       CreateFileToSend, CreateFileRefused, SendFile, SendFileFails, EndFile, SendStop,
       Kill, Reset, Touch

LEMMA ToldStep ==
  ASSUME "touch" \notin Faults, IInv, Told, [Next]_vars
  PROVE  Told'
<1>1. fsize' = fsize
  BY SizesStay
<1>2. ASSUME \A i \in 1..Len(wire') : \A m, t : HeaderAt(i, m, t)' => i \in 1..Len(wire) /\ HeaderAt(i, m, t)
      PROVE  Told'
  BY <1>1, <1>2 DEF Told
<1>3. ASSUME NEW n \in Node, NEW rest, SendEntry(n, rest)
      PROVE  Told'
  <2>1. PICK s \in Size :
          /\ wire' = wire \o Header(n, s) \o PathOf(n)
          /\ n \in File => s = fsize[n]
    BY <1>3, EntryWire
  <2>2. \A i \in 1..Len(wire') : \A m, t :
          HeaderAt(i, m, t)' <=> \/ i <= Len(wire) /\ HeaderAt(i, m, t)
                                 \/ i = Len(wire)+1 /\ m = n /\ t = s
    BY <2>1, NewHeader
  <2>3. \A i \in 1..Len(wire') : i <= Len(wire) => i \in 1..Len(wire)
    BY Lengths
  <2>4. QED
    BY <1>1, <2>1, <2>2, <2>3 DEF Told
<1>4. CASE Start
  BY <1>3, <1>4, Numbers DEF Start
<1>5. CASE ReadDir
  <2>1. PICK n \in dirs[Len(dirs)] : SendEntry(n, [dirs EXCEPT ![Len(dirs)] = @ \ {n}])
    BY <1>5 DEF ReadDir
  <2>2. n \in Node
    <3>1. Len(dirs) \in 1..Len(dirs)
      BY <1>5, Lengths, EmptySeq DEF ReadDir
    <3>2. QED
      BY <2>1, <3>1, Lengths
  <2>3. QED
    BY <1>3, <2>1, <2>2
<1>6. ASSUME Kept, Len(wire') \in Nat, Len(wire') >= Len(wire),
             \A i \in Len(wire)+1..Len(wire') : \A m, t : wire'[i] # MetaByte(m, t, 0)
      PROVE  Told'
  <2>1. \A i \in 1..Len(wire') : \A m, t : HeaderAt(i, m, t)' <=> i <= Len(wire) /\ HeaderAt(i, m, t)
    BY <1>6, NoNewHeader
  <2>2. \A i \in 1..Len(wire') : i <= Len(wire) => i \in 1..Len(wire)
    BY Lengths
  <2>3. QED
    BY <1>2, <2>1, <2>2
<1>7. CASE SendFile
  <2>1. PICK k \in Nat \ {0} :
          /\ Len(wire') = Len(wire) + k /\ Kept
          /\ \A i \in Len(wire)+1..Len(wire') : wire'[i][1] = "data"
    BY <1>7, SentBytes
  <2>2. \A i \in Len(wire)+1..Len(wire') : \A m, t : wire'[i] # MetaByte(m, t, 0)
    BY <2>1, CellFields
  <2>3. Len(wire') \in Nat /\ Len(wire') >= Len(wire)
    BY <2>1, Lengths
  <2>4. QED
    BY <1>6, <2>1, <2>2, <2>3
<1>8. CASE SendStop
  <2>1. Len(wire') = Len(wire)+1 /\ Kept /\ wire'[Len(wire)+1] = Stop /\ Len(wire) \in Nat
    BY <1>8, Lengths, CellParts, AppendProperties DEF Kept, SendStop
  <2>2. \A i \in Len(wire)+1..Len(wire') : \A m, t : wire'[i] # MetaByte(m, t, 0)
    BY <2>1, CellFields
  <2>3. Len(wire') \in Nat /\ Len(wire') >= Len(wire)
    BY <2>1
  <2>4. QED
    BY <1>6, <2>1, <2>2, <2>3
<1>9. CASE Kill(rd) \/ Reset(rd)
  <2>1. Len(wire') \in 0..Len(wire) /\ \A i \in 1..Len(wire') : wire'[i] = wire[i]
    BY <1>9, CutWire, Lengths
  <2>2. \A i \in 1..Len(wire') : i \in 1..Len(wire)
    BY <2>1, Lengths
  <2>3. QED
    BY <1>2, <2>1, <2>2 DEF HeaderAt
<1>10. CASE wire' = wire
  BY <1>2, <1>10 DEF HeaderAt
<1>11. QED
  BY <1>4, <1>5, <1>7, <1>8, <1>9, <1>10
     DEF Next, Send, SenderStep, Receive, ReceiverStep, Environment, Ended, vars, senderVars,
         InvalidPath, EndDir, OpenFile, CreateFileToSend, CreateFileRefused, SendFileFails,
         EndFile, Touch, RecvMetadata, MetadataEof, MetadataError, RecvPath, PathEof,
         PathError, EndOfFolder, CreateFile, CreateFolder, RecvFile, CloseFile, FileError

\* A file that was made and is not in hand has the size it has at the sender.
LEMMA OthersAreFull ==
  ASSUME IInv, Told, Aligned, rpc # "data", NEW n \in File, n \in made
  PROVE  Len(content[n]) = fsize[n]
<1>1. n \in Node
  BY Numbers
<1>2. PICK i \in 1..Front, s \in Size : HeaderAt(i, n, s)
  BY <1>1 DEF Aligned, Holds
<1>3. Len(content[n]) = s
  BY <1>2 DEF Aligned, Holds
<1>4. i \in 1..Len(wire)
  <2>1. Front \in Int /\ Front <= rd
    <3>1. METADATA \in Nat /\ read \in Int /\ hdr.len \in Nat /\ rd \in Nat
      BY Positions, Numbers
    <3>2. (rpc \in {"meta", "path"} => read >= 0)
      BY DEF Aligned, Counts
    <3>3. QED
      BY <3>1, <3>2 DEF Front
  <2>2. QED
    BY <2>1, Positions
<1>5. QED
  BY <1>2, <1>3, <1>4 DEF Told

LEMMA MakesNode ==
  ASSUME IInv, FInv, Told, ~raced, fsize' = fsize, Aligned, Receive,
         EndOfFolder \/ CreateFile \/ CreateFolder
  PROVE  \E n \in Node : Delivery!Make(n)
<1>1. Walk /\ Items /\ Copies /\ rpc = "item"
  BY DEF FInv, EndOfFolder, CreateFile, CreateFolder
<1>2. path \in Node /\ path \notin made /\ HasParent(path)
  BY <1>1, ItemInHand
<1>3. /\ content' = content /\ made' = made \cup {path}
      /\ (CreateFile /\ path \in File) \/ (CreateFolder /\ path \in Folder)
  BY <1>1, ItemAligned
<1>4. rpc # "done" /\ rpc' # "done"
  BY <1>1, <1>3 DEF CreateFile, CreateFolder
<1>5. path = Root \/ Parent[path] \in made
  BY <1>2 DEF HasParent
<1>6. \A m \in made \cap File : Len(content[m]) = fsize[m]
  BY <1>1, OthersAreFull
<1>7. Delivery!Make(path)
  BY <1>2, <1>3, <1>4, <1>5, <1>6 DEF Delivery!Make, Delivery!File, Delivery!Filled, File
<1>8. QED
  BY <1>2, <1>7

LEMMA FillsFile ==
  ASSUME IInv, FInv, Told, ~raced, fsize' = fsize, Aligned, Receive, RecvFile
  PROVE  \E n \in File : \E k \in 1..fsize[n] : Delivery!Fill(n, k)
<1>1. Walk /\ Items /\ Copies /\ rpc = "data"
  BY DEF FInv, RecvFile
<1>2. PICK k \in Nat \ {0} :
           /\ rd' = rd + k /\ rd + k <= Len(wire) /\ tot' = tot + k /\ tot + k <= hdr.size
           /\ buf'[0] = DataByte(path, tot)
           /\ \A i \in rd+1..rd+k : wire[i][1] = "data"
           /\ content' = [content EXCEPT ![path] = Chunk(path, 0, tot+k)]
           /\ content[path] = Chunk(path, 0, tot)
  BY <1>1, RecvFileBytes
<1>3. PICK h \in 1..rd :
           /\ path \in File /\ path \in Node /\ hdr.len = PathLen[path] /\ hdr.is_file = 1
           /\ tot \in 0..hdr.size /\ Len(content[path]) = tot
           /\ rd + 1 = h + METADATA + PathLen[path] + tot
           /\ HeaderAt(h, path, hdr.size) /\ Item(h, path, hdr.size)
  BY <1>1, FileInHand
<1>4. hdr.size \in Size /\ h \in 1..Len(wire) /\ hdr.size \in Nat /\ rd \in Nat /\ h \in 1..rd
  <2>1. hdr.size \in Size /\ rd \in Nat /\ Len(wire) \in Nat /\ rd <= Len(wire)
    BY Positions
  <2>2. hdr.size \in Nat
    BY <2>1, Numbers
  <2>3. QED
    BY <2>1, <2>2
<1>5. hdr.size = fsize[path]
  BY <1>3, <1>4 DEF Told
<1>6. path \in made
  <2>1. Front = rd
    BY <1>1, <1>4 DEF Front
  <2>2. QED
    BY <1>3, <1>4, <2>1 DEF Aligned, Holds
<1>7. tot \in Nat /\ tot+k \in Nat /\ k \in 1..fsize[path] /\ tot+k <= fsize[path]
  <2>1. tot \in Nat
    BY <1>3, <1>4
  <2>2. QED
    BY <1>2, <1>4, <1>5, <2>1
<1>8. Len(Chunk(path, 0, tot+k)) = tot+k
  BY <1>7 DEF Chunk
<1>9. [n \in File |-> Len(content'[n])]
        = [[n \in File |-> Len(content[n])] EXCEPT ![path] = tot+k]
  <2>1. \A n \in File : Len(content'[n]) = IF n = path THEN tot+k ELSE Len(content[n])
    BY <1>2, <1>3, <1>8, Positions
  <2>2. QED
    BY <2>1
<1>10. rpc # "done" /\ rpc' # "done" /\ made' = made
  BY <1>1 DEF RecvFile
<1>11. Delivery!Fill(path, k)
  BY <1>3, <1>6, <1>7, <1>9, <1>10 DEF Delivery!Fill
<1>12. QED
  BY <1>3, <1>7, <1>11

\* Its end is the end of a whole copy.
Total == rpc = "done" => made = Node /\ \A n \in File : Len(content[n]) = fsize[n]

LEMMA TotalHolds ==
  ASSUME IInv, FInv, Told, ~raced, spc = "dead" => Twos = {}
  PROVE  Total
<1> SUFFICES ASSUME rpc = "done"
             PROVE  made = Node /\ \A n \in File : Len(content[n]) = fsize[n]
  BY DEF Total
<1>1. Walk /\ Pending /\ Copies /\ Aligned
  BY DEF FInv, Lost, TwosCame
<1>2. made = Node
  BY <1>1, EndIsWhole
<1>3. \A n \in File : Len(content[n]) = fsize[n]
  BY <1>1, <1>2, Numbers, OthersAreFull
<1>4. QED
  BY <1>2, <1>3

LEMMA OtherSteps ==
  ASSUME fsize' = fsize, UNCHANGED <<made, content>>, rpc = "done" => rpc' = "done", Total'
  PROVE  Delivery!Finish \/ UNCHANGED Delivery!deliveryVars
<1>1. CASE rpc # "done" /\ rpc' = "done"
  <2>1. made = Node /\ \A n \in File : Len(content[n]) = fsize[n]
    BY <1>1 DEF Total
  <2>2. QED
    BY <1>1, <2>1 DEF Delivery!Finish, Delivery!Filled, Delivery!File, File
<1>2. CASE rpc = "done" <=> rpc' = "done"
  BY <1>2 DEF Delivery!deliveryVars
<1>3. QED
  BY <1>1, <1>2

LEMMA DeliveryStep ==
  ASSUME "touch" \notin Faults, IInv, FInv, Told, ~raced, Total', [Next]_vars
  PROVE  [Delivery!Next]_Delivery!deliveryVars
<1>1. fsize' = fsize
  BY SizesStay
<1>2. CASE ~Receive
  <2>1. UNCHANGED receiverVars
    BY <1>2 DEF Next, Send, Environment, Ended, vars
  <2>2. QED
    BY <1>1, <2>1, OtherSteps DEF receiverVars, Delivery!Next
<1>3. CASE Receive
  <2>1. rpc # "done"
    BY <1>3 DEF Receive, ReceiverStep, RecvMetadata, MetadataEof, MetadataError, RecvPath,
       PathEof, PathError, EndOfFolder, CreateFile, CreateFolder, RecvFile, CloseFile,
       FileError
  <2>2. CASE Aligned /\ (EndOfFolder \/ CreateFile \/ CreateFolder)
    BY <1>1, <1>3, <2>2, MakesNode DEF Delivery!Next
  <2>3. CASE Aligned /\ RecvFile
    <3>1. \E n \in File : \E k \in 1..fsize[n] : Delivery!Fill(n, k)
      BY <1>1, <1>3, <2>3, FillsFile
    <3>2. QED
      BY <3>1 DEF Delivery!Next, Delivery!File, File
  <2>4. CASE Lost \/ ~(EndOfFolder \/ CreateFile \/ CreateFolder \/ RecvFile)
    <3>1. UNCHANGED <<made, content>>
      <4>1. CASE Lost
        BY <1>3, <4>1, LostStays DEF FInv
      <4>2. CASE ~(EndOfFolder \/ CreateFile \/ CreateFolder \/ RecvFile)
        BY <1>3, <4>2 DEF Receive, ReceiverStep, RecvMetadata, MetadataEof, MetadataError,
           RecvPath, PathEof, PathError, CloseFile, FileError, receiverVars
      <4>3. QED
        BY <2>4, <4>1, <4>2
    <3>2. QED
      BY <1>1, <2>1, <3>1, OtherSteps DEF Delivery!Next
  <2>5. QED
    BY <2>2, <2>3, <2>4 DEF FInv
<1>4. QED
  BY <1>2, <1>3

LEMMA DeliveryInit ==
  ASSUME Init
  PROVE  Delivery!Init
<1>1. fsize \in [File -> 0..MaxSize] /\ MaxSize \in Nat
  BY Numbers DEF Init, SenderInit
<1>2. fsize \in [File -> Nat]
  BY <1>1
<1>3. /\ made = {} /\ rpc # "done"
      /\ [n \in File |-> Len(content[n])] = [n \in File |-> 0]
  BY EmptySeq DEF Init, ReceiverInit
<1>4. QED
  BY <1>2, <1>3 DEF Delivery!Init, Delivery!File, File

\* receive_folder keeps the promise of FileDelivery: the tree is made from the
\* root down and one file after another, nothing twice, and the end is reported
\* of a complete copy only.  It does so whatever the faults, as long as no program
\* gives a file another size, no content is withheld that was announced, and a
\* sender that dies has not sent content that passes for the stop byte.
THEOREM TransferDelivers ==
  ASSUME "touch" \notin Faults
  PROVE  Spec /\ [](~raced) /\ [](spc = "dead" => Twos = {}) => DeliverySpec
<1>1. Init => Told
  BY EmptySeq DEF Init, SenderInit, Told
<1>2. IInv /\ Told /\ [Next]_vars => Told'
  BY ToldStep
<1>3. IInv /\ FInv /\ Told /\ ~raced /\ (spc = "dead" => Twos = {}) => Total
  BY TotalHolds
<1>4. Init => Delivery!Init
  BY DeliveryInit
<1>5. IInv /\ FInv /\ Told /\ ~raced /\ Total' /\ [Next]_vars
        => [Delivery!Next]_Delivery!deliveryVars
  BY DeliveryStep
<1>6. QED
  BY <1>1, <1>2, <1>3, <1>4, <1>5, FInvariant, PTL DEF Spec, DeliverySpec, Delivery!Spec
=============================================================================
