------------------------ MODULE BroadcastListProofs ------------------------
(***************************************************************************)
(* The operations of the list of peers keep its type and its soundness.    *)
(*                                                                         *)
(* The soundness of the list, WellFormed and NoDoubleFree, is inductive by *)
(* itself: add makes an entry of two blocks that were free, clean frees    *)
(* the two blocks of the last entry and drops it, and nothing else touches *)
(* a block.  No entry points to no block while no gap was ever closed, so  *)
(* neither clean nor list_free meets a block that is already free.         *)
(***************************************************************************)
EXTENDS BroadcastList, SequenceTheorems, FiniteSetTheorems, TLAPS

ListSound == ListTypeOK /\ WellFormed /\ NoDoubleFree

\* The list is a function on its indices; every fact about an entry below comes
\* from this one.
LEMMA EntryType ==
  ASSUME ListTypeOK
  PROVE  /\ Len(list) \in Nat
         /\ list \in [1..Len(list) -> Entry]
         /\ DOMAIN list = 1..Len(list)
         /\ \A i \in 1..Len(list) :
              /\ list[i] \in Entry
              /\ list[i].addr \in Block \cup {Wild}
              /\ list[i].name \in Block
              /\ list[i].age \in 0..AgeCap
<1>1. list \in Seq(Entry)
  BY DEF ListTypeOK
<1>2. /\ Len(list) \in Nat
      /\ list \in [1..Len(list) -> Entry]
      /\ DOMAIN list = 1..Len(list)
  BY <1>1, LenProperties
<1>3. QED
  BY <1>2 DEF Entry

\* Changing ages alone keeps a list sound: the state after is the state before
\* but for the age of its entries.
LEMMA AgesOnly ==
  ASSUME ListSound,
         list' \in Seq(Entry), Len(list') = Len(list),
         \A i \in 1..Len(list) : /\ list'[i].addr = list[i].addr
                                 /\ list'[i].name = list[i].name,
         UNCHANGED <<addrs, alive, shifted>>,
         ~shifted => names' = names
  PROVE  WellFormed' /\ NoDoubleFree'
<1>1. Len(list) \in Nat
  BY EntryType DEF ListSound
<1>2. NoDoubleFree'
  BY DEF ListSound, NoDoubleFree
<1>3. ASSUME ~shifted'
      PROVE  WellFormed'
  <2>1. WellFormed /\ ~shifted
    BY <1>3 DEF ListSound
  <2>2. \A i \in 1..Len(list)' :
           CanFree(list[i])' /\ (names[list[i].name] = Heard(i))'
    BY <2>1 DEF WellFormed, CanFree, Heard
  <2>3. NoneShared'
    BY <2>1 DEF WellFormed, NoneShared
  <2>4. (\A i, j \in 1..Len(list) : i # j => Heard(i) # Heard(j))'
    BY <2>1 DEF WellFormed, Heard
  <2>5. /\ (\A b \in Block : addrs[b] # Freed => OwnedAddr(b))'
        /\ (\A b \in Block : names[b] # Freed => OwnedName(b))'
    BY <2>1 DEF WellFormed, OwnedAddr, OwnedName
  <2>6. QED
    BY <2>2, <2>3, <2>4, <2>5 DEF WellFormed
<1>4. QED
  BY <1>2, <1>3 DEF WellFormed

\* As long as the list is sound no name leads to a freed block: the one add drops
\* is nobody's.
LEMMA DropNameSound ==
  ASSUME ListSound, NEW p \in Peer, DropName(p)
  PROVE  /\ names' \in [Block -> Peer \cup {Freed}]
         /\ lost' \in BOOLEAN
         /\ ~shifted => names' = names
<1>1. lost' = TRUE /\ names \in [Block -> Peer \cup {Freed}]
  BY DEF DropName, ListSound, ListTypeOK
<1>2. CASE UNCHANGED names
  BY <1>1, <1>2
<1>3. CASE \E c \in Block : /\ names[c] = Freed /\ OwnedName(c)
                            /\ names' = [names EXCEPT ![c] = p]
  <2>1. PICK c \in Block : /\ names[c] = Freed /\ OwnedName(c)
                           /\ names' = [names EXCEPT ![c] = p]
    BY <1>3
  <2>2. names' \in [Block -> Peer \cup {Freed}]
    BY <1>1, <2>1
  <2>3. shifted
    BY <2>1 DEF ListSound, WellFormed, OwnedName, CanFree
  <2>4. QED
    BY <1>1, <2>2, <2>3
<1>4. QED
  BY <1>2, <1>3 DEF DropName

LEMMA RefreshSound ==
  ASSUME ListSound, NEW p \in Peer, Refresh(p)
  PROVE  ListSound'
<1>1. PICK i \in 1..Len(list) : list' = [list EXCEPT ![i].age = 0]
  BY DEF Refresh
<1>2. /\ UNCHANGED <<addrs, ci, alive, shifted>>
      /\ names' \in [Block -> Peer \cup {Freed}] /\ lost' \in BOOLEAN
      /\ ~shifted => names' = names
  BY DropNameSound DEF Refresh
<1> DEFINE e == [list[i] EXCEPT !.age = 0]
<1>3. e \in Entry /\ e.addr = list[i].addr /\ e.name = list[i].name
  BY EntryType, ListAssumption DEF ListSound, Entry, AgeCap
<1>4. /\ list' \in Seq(Entry)
      /\ Len(list') = Len(list)
      /\ \A j \in 1..Len(list) : list'[j] = IF j = i THEN e ELSE list[j]
  <2> HIDE DEF e
  <2>1. list' = [list EXCEPT ![i] = e]
    BY <1>1 DEF e
  <2>2. QED
    BY <1>3, <2>1, ExceptSeq DEF ListSound, ListTypeOK
<1>5. WellFormed' /\ NoDoubleFree'
  BY <1>2, <1>3, <1>4, AgesOnly
<1>6. ListTypeOK'
  BY <1>2, <1>4 DEF ListSound, ListTypeOK
<1>7. QED
  BY <1>5, <1>6 DEF ListSound

\* The two blocks of a new entry were free, so no entry pointed to them, and the
\* peer was not listed.
LEMMA InsertSound ==
  ASSUME ListSound, NEW p \in Peer, Insert(p)
  PROVE  ListSound'
<1>1. PICK b \in Block, c \in Block :
        /\ addrs[b] = Freed /\ names[c] = Freed
        /\ addrs' = [addrs EXCEPT ![b] = p]
        /\ names' = [names EXCEPT ![c] = p]
        /\ list' = Append(list, [addr |-> b, name |-> c, age |-> 0])
  BY DEF Insert
<1>2. /\ UNCHANGED <<ci, alive, shifted, lost>>
      /\ Len(list) < MAX_PEERS
      /\ NotBefore(Len(list) + 1, p)
  BY DEF Insert
<1> DEFINE e == [addr |-> b, name |-> c, age |-> 0]
           n == Len(list)
<1>3. e \in Entry /\ p \in Peer \cup {Freed} /\ p # Freed
  BY ListAssumption DEF Entry, AgeCap
<1>4. /\ list' \in Seq(Entry)
      /\ Len(list') = n + 1
      /\ \A i \in 1..n : list'[i] = list[i]
      /\ list'[n+1] = e
  <2>1. list \in Seq(Entry)
    BY DEF ListSound, ListTypeOK
  <2> HIDE DEF e
  <2>2. list' = Append(list, e)
    BY <1>1 DEF e
  <2>3. QED
    BY <1>3, <2>1, <2>2, AppendProperties
<1>5. /\ n \in Nat
      /\ \A i \in 1..n : list[i].addr \in Block \cup {Wild} /\ list[i].name \in Block
      /\ addrs \in [Block -> Peer \cup {Freed}]
      /\ names \in [Block -> Peer \cup {Freed}]
      /\ MAX_PEERS \in Nat
      /\ Wild \notin Block
  BY EntryType, ListAssumption DEF ListSound, ListTypeOK
<1>6. ListTypeOK'
  BY <1>1, <1>2, <1>3, <1>4, <1>5 DEF ListSound, ListTypeOK
<1>7. NoDoubleFree'
  BY <1>2 DEF ListSound, NoDoubleFree
<1>8. ASSUME ~shifted
      PROVE  WellFormed'
  <2>1. /\ \A i \in 1..n : CanFree(list[i]) /\ names[list[i].name] = Heard(i)
        /\ NoneShared
        /\ \A i, j \in 1..n : i # j => Heard(i) # Heard(j)
        /\ \A x \in Block : addrs[x] # Freed => OwnedAddr(x)
        /\ \A x \in Block : names[x] # Freed => OwnedName(x)
    BY <1>8 DEF ListSound, WellFormed
  <2>2. \A i \in 1..n : /\ list[i].addr \in Block /\ list[i].addr # b
                        /\ list[i].name \in Block /\ list[i].name # c
    BY <1>1, <1>5, <2>1 DEF CanFree
  <2>3. \A i \in 1..n : Heard(i) # p
    BY <1>2, <1>5, <2>1 DEF NotBefore, Same, Live, Heard, CanFree
  <2>4. /\ \A i \in 1..n : /\ addrs'[list[i].addr] = addrs[list[i].addr]
                          /\ names'[list[i].name] = names[list[i].name]
        /\ addrs'[b] = p /\ names'[c] = p
    BY <1>1, <1>5, <2>2
  <2>5. 1..Len(list') = 1..n \cup {n+1} /\ n+1 \notin 1..n
    BY <1>4, <1>5
  <2>6. e.addr = b /\ e.name = c
    OBVIOUS
  <2> HIDE DEF e, n
  <2>7. \A i \in 1..Len(list') :
          /\ CanFree(list[i])'
          /\ names'[list'[i].name] = addrs'[list'[i].addr]
    <3>1. TAKE i \in 1..Len(list')
    <3>2. CASE i \in 1..n
      BY <1>4, <2>1, <2>4, <3>2 DEF CanFree, Heard
    <3>3. CASE i = n+1
      BY <1>3, <1>4, <1>5, <2>4, <2>6, <3>3 DEF CanFree
    <3>4. QED
      BY <2>5, <3>2, <3>3
  <2>8. NoneShared'
    BY <1>4, <2>1, <2>2, <2>5, <2>6 DEF NoneShared, n
  <2>9. \A i, j \in 1..Len(list') :
           i # j => addrs'[list'[i].addr] # addrs'[list'[j].addr]
    BY <1>4, <2>1, <2>3, <2>4, <2>5, <2>6 DEF Heard
  <2>10. \A x \in Block : addrs'[x] # Freed => OwnedAddr(x)'
    <3>1. SUFFICES ASSUME NEW x \in Block, addrs'[x] # Freed
                   PROVE  \E i \in 1..Len(list') : list'[i].addr = x
      BY DEF OwnedAddr
    <3>2. CASE x = b
      BY <1>4, <2>5, <2>6, <3>2
    <3>3. CASE x # b
      BY <1>1, <1>4, <1>5, <2>1, <2>5, <3>1, <3>3 DEF OwnedAddr, n
    <3>4. QED
      BY <3>2, <3>3
  <2>11. \A x \in Block : names'[x] # Freed => OwnedName(x)'
    <3>1. SUFFICES ASSUME NEW x \in Block, names'[x] # Freed
                   PROVE  \E i \in 1..Len(list') : list'[i].name = x
      BY DEF OwnedName
    <3>2. CASE x = c
      BY <1>4, <2>5, <2>6, <3>2
    <3>3. CASE x # c
      BY <1>1, <1>4, <1>5, <2>1, <2>5, <3>1, <3>3 DEF OwnedName, n
    <3>4. QED
      BY <3>2, <3>3
  <2>12. QED
    BY <2>7, <2>8, <2>9, <2>10, <2>11 DEF WellFormed, Heard
<1>9. WellFormed'
  BY <1>2, <1>8 DEF WellFormed
<1>10. QED
  BY <1>6, <1>7, <1>9 DEF ListSound

LEMMA FullSound ==
  ASSUME ListSound, NEW p \in Peer, Full(p)
  PROVE  ListSound'
<1>1. /\ UNCHANGED <<list, addrs, ci, alive, shifted>>
      /\ names' \in [Block -> Peer \cup {Freed}] /\ lost' \in BOOLEAN
      /\ ~shifted => names' = names
  BY DropNameSound DEF Full
<1>2. WellFormed' /\ NoDoubleFree'
  BY <1>1, AgesOnly DEF ListSound, ListTypeOK
<1>3. QED
  BY <1>1, <1>2 DEF ListSound, ListTypeOK

\* A sound list owns every block that is allocated, and has fewer entries than
\* there are blocks.
LEMMA HeapHasRoom ==
  ASSUME ListSound, ~shifted
  PROVE  /\ ~(\A b \in Block : addrs[b] # Freed)
         /\ ~(\A c \in Block : names[c] # Freed)
<1> DEFINE n == Len(list)
           f == [i \in 1..n |-> list[i].addr]
           g == [i \in 1..n |-> list[i].name]
<1>1. /\ n \in Nat /\ n <= MAX_PEERS /\ MAX_PEERS \in Nat
      /\ \A i \in 1..n : list[i].addr \in Block \cup {Wild} /\ list[i].name \in Block
  BY EntryType, ListAssumption DEF ListSound, ListTypeOK
<1>2. /\ \A i \in 1..n : list[i].addr \in Block
      /\ \A b \in Block : addrs[b] # Freed => \E i \in 1..n : list[i].addr = b
      /\ \A b \in Block : names[b] # Freed => \E i \in 1..n : list[i].name = b
  BY <1>1 DEF ListSound, WellFormed, CanFree, OwnedAddr, OwnedName
<1>3. IsFiniteSet(1..n) /\ Cardinality(1..n) = n
  <2> HIDE DEF n
  <2>1. /\ IsFiniteSet(1..n)
        /\ Cardinality(1..n) = IF 1 > n THEN 0 ELSE n - 1 + 1
    BY <1>1, FS_Interval
  <2>2. QED
    BY <1>1, <2>1
<1>4. Cardinality(Block) \in Nat /\ ~(Cardinality(Block) <= n)
  BY <1>1, ListAssumption, FS_CardinalityType
<1>5. ASSUME \A b \in Block : addrs[b] # Freed PROVE FALSE
  <2>1. f \in Surjection(1..n, Block)
    BY <1>2, <1>5 DEF Surjection
  <2>2. Cardinality(Block) <= Cardinality(1..n)
    BY <1>3, <2>1, FS_Surjection
  <2>3. QED
    BY <1>3, <1>4, <2>2
<1>6. ASSUME \A b \in Block : names[b] # Freed PROVE FALSE
  <2>1. g \in Surjection(1..n, Block)
    BY <1>1, <1>2, <1>6 DEF Surjection
  <2>2. Cardinality(Block) <= Cardinality(1..n)
    BY <1>3, <2>1, FS_Surjection
  <2>3. QED
    BY <1>3, <1>4, <2>2
<1>7. QED
  BY <1>5, <1>6

LEMMA AddSound ==
  ASSUME ListSound, NEW p \in Peer, add(p)
  PROVE  ListSound'
<1>1. CASE Refresh(p)
  BY <1>1, RefreshSound
<1>2. CASE Insert(p)
  BY <1>2, InsertSound
<1>3. CASE Full(p)
  BY <1>3, FullSound
<1>4. CASE Segfault
  <2>1. shifted
    BY <1>4 DEF Segfault, ListSound, WellFormed, CanFree
  <2>2. QED
    BY <1>4, <2>1 DEF Segfault, ListSound, ListTypeOK, WellFormed, NoDoubleFree
<1>5. CASE NoMemory(p)
  <2>1. shifted
    BY <1>5, HeapHasRoom DEF NoMemory
  <2>2. QED
    BY <1>5, <2>1 DEF NoMemory, ListSound, ListTypeOK, WellFormed, NoDoubleFree
<1>6. QED
  BY <1>1, <1>2, <1>3, <1>4, <1>5 DEF add

\* Only the removal of the last entry leaves the pointers of the others alone.
LEMMA ExpireSound ==
  ASSUME ListSound, Expire
  PROVE  ListSound'
<1> DEFINE n == Len(list)
           x == list[ci].addr
           y == list[ci].name
<1>1. /\ ci \in 1..n
      /\ CanFree(list[ci])
      /\ addrs' = [addrs EXCEPT ![x] = Freed]
      /\ names' = [names EXCEPT ![y] = Freed]
      /\ shifted' = (shifted \/ ci < n)
      /\ ci' = ci + 1
      /\ alive' = alive /\ lost' = lost
  BY DEF Expire
<1>2. PICK ptr \in Spliced(ci) : list' = Removed(ci, ptr)
  BY DEF Expire
<1>3. /\ n \in Nat /\ n <= MAX_PEERS /\ MAX_PEERS \in Nat
      /\ list \in Seq(Entry)
      /\ \A i \in 1..n : /\ list[i] \in Entry
                         /\ list[i].addr \in Block \cup {Wild}
                         /\ list[i].name \in Block
      /\ addrs \in [Block -> Peer \cup {Freed}]
      /\ names \in [Block -> Peer \cup {Freed}]
  BY EntryType, ListAssumption DEF ListSound, ListTypeOK
<1>4. ptr \in Block \cup {Wild}
  BY <1>1, <1>2, <1>3 DEF Spliced
<1> DEFINE e == [list[ci] EXCEPT !.addr = ptr]
<1>5. e \in Entry
  BY <1>1, <1>3, <1>4 DEF Entry
<1>6. /\ list' \in Seq(Entry)
      /\ Len(list') = n - 1
      /\ \A i \in 1..n-1 : list'[i] = IF i = ci THEN e ELSE list[i]
  <2> DEFINE s == [list EXCEPT ![ci] = e]
  <2>1. list' = SubSeq(s, 1, n - 1)
    BY <1>2 DEF Removed
  <2> HIDE DEF e
  <2>2. /\ s \in Seq(Entry) /\ Len(s) = n
        /\ \A i \in 1..n : s[i] = IF i = ci THEN e ELSE list[i]
    BY <1>1, <1>3, <1>5, ExceptSeq
  <2> HIDE DEF s
  <2>3. \A i \in 1..n-1 : s[i] \in Entry
    BY <1>3, <2>2, LenProperties
  <2>4. /\ SubSeq(s, 1, n-1) \in Seq(Entry)
        /\ Len(SubSeq(s, 1, n-1)) = IF 1 <= n-1 THEN (n-1)-1+1 ELSE 0
        /\ \A i \in 1..(n-1)-1+1 : SubSeq(s, 1, n-1)[i] = s[1+i-1]
    BY <1>3, <2>3, SubSeqProperties
  <2>5. QED
    BY <1>1, <1>3, <2>1, <2>2, <2>4
<1>7. ListTypeOK'
  <2>1. shifted' \in BOOLEAN /\ alive' \in BOOLEAN /\ lost' \in BOOLEAN
    BY <1>1 DEF ListSound, ListTypeOK
  <2>2. list' \in Seq(Entry) /\ Len(list') <= MAX_PEERS /\ ci' \in 0..MAX_PEERS + 1
    BY <1>1, <1>3, <1>6
  <2>3. /\ addrs' \in [Block -> Peer \cup {Freed}]
        /\ names' \in [Block -> Peer \cup {Freed}]
    BY <1>1, <1>3
  <2>4. QED
    BY <2>1, <2>2, <2>3 DEF ListTypeOK
<1>8. NoDoubleFree'
  <2>1. ~shifted' => ~shifted
    BY <1>1, Zenon
  <2>2. QED
    BY <1>1, <2>1 DEF ListSound, NoDoubleFree
<1>9. ASSUME ~shifted'
      PROVE  WellFormed'
  <2>1. ~shifted /\ ~(ci < n)
    BY <1>1, <1>9, Zenon
  <2>2. ci = n /\ ~shifted
    BY <1>1, <1>3, <2>1
  <2>3. /\ \A i \in 1..n : CanFree(list[i]) /\ names[list[i].name] = Heard(i)
        /\ NoneShared
        /\ \A i, j \in 1..n : i # j => Heard(i) # Heard(j)
        /\ \A b \in Block : addrs[b] # Freed => OwnedAddr(b)
        /\ \A b \in Block : names[b] # Freed => OwnedName(b)
    BY <2>2 DEF ListSound, WellFormed
  <2>4. /\ Len(list') = n - 1
        /\ \A i \in 1..n-1 : i \in 1..n /\ i # n /\ list'[i] = list[i]
    BY <1>3, <1>6, <2>2
  <2>5. \A i \in 1..n-1 : /\ list[i].addr \in Block /\ list[i].addr # x
                         /\ list[i].name \in Block /\ list[i].name # y
    BY <1>1, <1>3, <2>2, <2>3, <2>4 DEF NoneShared, CanFree
  <2> HIDE DEF x, y, n, e
  <2>6. \A i \in 1..n-1 : /\ addrs'[list[i].addr] = addrs[list[i].addr]
                         /\ names'[list[i].name] = names[list[i].name]
    BY <1>1, <1>3, <2>5
  <2>7. \A i \in 1..Len(list') : CanFree(list[i])' /\ (names[list[i].name] = Heard(i))'
    BY <2>3, <2>4, <2>6 DEF CanFree, Heard
  <2>8. NoneShared'
    BY <2>3, <2>4 DEF NoneShared, n
  <2>9. (\A i, j \in 1..Len(list) : i # j => Heard(i) # Heard(j))'
    BY <2>3, <2>4, <2>6 DEF Heard
  <2>10. (\A b \in Block : addrs[b] # Freed => OwnedAddr(b))'
    <3>1. SUFFICES ASSUME NEW b \in Block, addrs'[b] # Freed
                   PROVE  \E i \in 1..Len(list') : list'[i].addr = b
      BY DEF OwnedAddr
    <3>2. b # x /\ addrs[b] # Freed
      BY <1>1, <1>3, <3>1
    <3>3. PICK i \in 1..n : list[i].addr = b
      BY <2>3, <3>2 DEF OwnedAddr, n
    <3>4. i \in 1..n-1
      BY <1>3, <2>2, <3>2, <3>3 DEF x
    <3>5. QED
      BY <2>4, <3>3, <3>4
  <2>11. (\A b \in Block : names[b] # Freed => OwnedName(b))'
    <3>1. SUFFICES ASSUME NEW b \in Block, names'[b] # Freed
                   PROVE  \E i \in 1..Len(list') : list'[i].name = b
      BY DEF OwnedName
    <3>2. b # y /\ names[b] # Freed
      BY <1>1, <1>3, <3>1
    <3>3. PICK i \in 1..n : list[i].name = b
      BY <2>3, <3>2 DEF OwnedName, n
    <3>4. i \in 1..n-1
      BY <1>3, <2>2, <3>2, <3>3 DEF y
    <3>5. QED
      BY <2>4, <3>3, <3>4
  <2>12. QED
    BY <2>7, <2>8, <2>9, <2>10, <2>11 DEF WellFormed
<1>10. WellFormed'
  BY <1>9 DEF WellFormed
<1>11. QED
  BY <1>7, <1>8, <1>10 DEF ListSound

\* A step of clean that leaves list and blocks alone.
LEMMA CleanMovesSound ==
  ASSUME ListSound,
         UNCHANGED <<list, addrs, names, shifted, lost>>,
         ci' \in 0..MAX_PEERS + 1,
         alive' \in BOOLEAN, ~shifted => alive'
  PROVE  ListSound'
BY DEF ListSound, ListTypeOK, WellFormed, NoDoubleFree, NoneShared, CanFree,
       Heard, OwnedAddr, OwnedName

LEMMA CleanStepSound ==
  ASSUME ListSound, CleanStep
  PROVE  ListSound'
<1>1. CASE Expire
  BY <1>1, ExpireSound
<1>2. CASE DoubleFree
  <2>1. shifted
    BY <1>2 DEF DoubleFree, ListSound, WellFormed
  <2>2. QED
    BY <1>2, <2>1, CleanMovesSound DEF DoubleFree, ListSound, ListTypeOK
<1>3. CASE Keep
  <2>1. ci' \in 0..MAX_PEERS + 1 /\ (~shifted => alive')
    BY <1>3, ListAssumption, EntryType
       DEF Keep, ListSound, ListTypeOK, NoDoubleFree
  <2>2. QED
    BY <1>3, <2>1, CleanMovesSound DEF Keep, ListSound, ListTypeOK
<1>4. QED
  BY <1>1, <1>2, <1>3 DEF CleanStep

LEMMA CleanEndsSound ==
  ASSUME ListSound, CleanStart \/ CleanEnd
  PROVE  ListSound'
BY CleanMovesSound, ListAssumption
   DEF CleanStart, CleanEnd, ListSound, ListTypeOK, NoDoubleFree

LEMMA ListFreeSound ==
  ASSUME ListSound, list_free
  PROVE  ListSound'
<1>1. /\ list' = <<>> /\ Len(list') = 0 /\ list' \in Seq(Entry)
      /\ UNCHANGED <<ci, shifted, lost>>
      /\ MAX_PEERS \in Nat
  BY ListAssumption, EmptySeq DEF list_free
<1>2. /\ addrs' = [b \in Block |-> IF OwnedAddr(b) THEN Freed ELSE addrs[b]]
      /\ names' = [b \in Block |-> IF OwnedName(b) THEN Freed ELSE names[b]]
      /\ alive' = (NoneShared /\ \A i \in 1..Len(list) : CanFree(list[i]))
  BY DEF list_free
<1>3. ListTypeOK'
  <2>1. /\ addrs' \in [Block -> Peer \cup {Freed}]
        /\ names' \in [Block -> Peer \cup {Freed}]
    BY <1>2 DEF ListSound, ListTypeOK
  <2>2. alive' \in BOOLEAN
    BY <1>2
  <2>3. QED
    BY <1>1, <2>1, <2>2 DEF ListSound, ListTypeOK
<1>4. ASSUME ~shifted
      PROVE  WellFormed' /\ alive'
  <2>1. WellFormed
    BY DEF ListSound
  <2>2. alive'
    BY <1>2, <1>4, <2>1 DEF WellFormed
  <2>3. \A b \in Block : addrs'[b] = Freed /\ names'[b] = Freed
    BY <1>2, <1>4, <2>1 DEF WellFormed
  <2>4. 1..Len(list') = {}
    BY <1>1
  <2>5. QED
    BY <2>2, <2>3, <2>4 DEF WellFormed, NoneShared
<1>5. QED
  BY <1>1, <1>3, <1>4 DEF ListSound, WellFormed, NoDoubleFree

LEMMA AgeSound ==
  ASSUME ListSound, Age
  PROVE  ListSound'
<1>1. /\ Len(list) \in Nat
      /\ \A i \in 1..Len(list) : /\ list[i] \in Entry
                                /\ list[i].age \in 0..AgeCap
  BY EntryType DEF ListSound
<1> DEFINE older(i) == [list[i] EXCEPT !.age = IF @ < AgeCap THEN @ + 1 ELSE @]
<1>2. list' = [i \in 1..Len(list) |-> older(i)]
  BY DEF Age
<1>3. AgeCap \in Nat
  BY ListAssumption DEF AgeCap
<1>4. \A i \in 1..Len(list) : /\ older(i) \in Entry
                             /\ older(i).addr = list[i].addr
                             /\ older(i).name = list[i].name
  BY <1>1, <1>3 DEF Entry
<1> HIDE DEF older
<1>5. list' \in Seq(Entry) /\ Len(list') = Len(list)
  <2>1. list' \in [1..Len(list) -> Entry]
    BY <1>2, <1>4
  <2>2. list' \in Seq(Entry)
    BY <1>1, <2>1, SeqDef
  <2>3. QED
    BY <1>1, <1>2, <2>1, <2>2, LenProperties
<1>6. \A i \in 1..Len(list) : /\ list'[i].addr = list[i].addr
                             /\ list'[i].name = list[i].name
  BY <1>2, <1>4
<1>7. UNCHANGED <<addrs, names, ci, alive, shifted, lost>>
  BY DEF Age
<1>8. WellFormed' /\ NoDoubleFree'
  BY <1>5, <1>6, <1>7, AgesOnly
<1>9. ListTypeOK'
  BY <1>5, <1>7 DEF ListSound, ListTypeOK
<1>10. QED
  BY <1>8, <1>9 DEF ListSound
=============================================================================
