-------------------------- MODULE ListenLoopProofs --------------------------
(***************************************************************************)
(* The safety invariants of ListenLoop hold for any number of peers, any   *)
(* capacity of the list and any timeout, and it implements PeerTable.      *)
(*                                                                         *)
(* They are proved from one inductive invariant.  To the soundness of the  *)
(* list it adds how far the loop is: clean runs in its own phase only, the *)
(* entries clean has passed are fresh, and from the drawing to the choice  *)
(* the screen shows the list as it is, the cursor on one of its rows.      *)
(***************************************************************************)
EXTENDS ListenLoop, BroadcastListProofs

Phase == ci > 0 => lpc = "clean"

Limit == IF ticked THEN TIMEOUT + 1 ELSE TIMEOUT

Fresh ==
  ~shifted =>
    /\ lpc = "clean" => \A i \in 1..Len(list) : i < ci => list[i].age <= Limit
    /\ lpc \in {"draw", "key"} => \A i \in 1..Len(list) : list[i].age <= Limit

Screen ==
  lpc \in {"key", "chosen"} => option <= Len(list) /\ shown = Drawn(option)

IInv == TypeOK /\ WellFormed /\ NoDoubleFree /\ Phase /\ Fresh /\ Screen
          /\ ChosenWasShown

\* Arithmetic of the cursor: a remainder is a row of the list.
LEMMA Wraps ==
  ASSUME NEW n \in Nat, NEW a \in Int
  PROVE  a % (n + 1) \in 0..n
OBVIOUS

LEMMA InitIInv == Init => IInv
<1> SUFFICES ASSUME Init PROVE IInv
  OBVIOUS
<1>1. /\ list = <<>> /\ Len(list) = 0 /\ 1..Len(list) = {}
      /\ list \in Seq(Entry) /\ queue \in Seq(Peer) /\ Len(queue) = 0
      /\ <<>> \in Seq(Peer \cup {Freed})
  BY EmptySeq DEF Init, ListInit
<1>2. TypeOK
  <2>1. ListTypeOK
    <3>1. MAX_PEERS \in Nat /\ Len(list) <= MAX_PEERS /\ ci \in 0..MAX_PEERS + 1
      BY <1>1, ListAssumption DEF Init, ListInit
    <3>2. /\ addrs \in [Block -> Peer \cup {Freed}]
          /\ names \in [Block -> Peer \cup {Freed}]
          /\ alive \in BOOLEAN /\ shifted \in BOOLEAN /\ lost \in BOOLEAN
      BY DEF Init, ListInit
    <3>3. QED
      BY <1>1, <3>1, <3>2 DEF ListTypeOK
  <2>2. shown \in [cursor : 0..MAX_PEERS, rows : Seq(Peer \cup {Freed})]
    BY <1>1, ListAssumption DEF Init
  <2>3. on \in [Peer -> BOOLEAN] /\ ticked \in BOOLEAN
    BY Zenon DEF Init
  <2>4. /\ Len(queue) <= QueueCap /\ option \in 0..MAX_PEERS
        /\ lpc \in LoopStates /\ target \in Peer \cup {NoPeer, Freed}
    BY <1>1, ListAssumption, LoopAssumption DEF Init, LoopStates
  <2>5. QED
    BY <1>1, <2>1, <2>2, <2>3, <2>4 DEF TypeOK
<1>3. WellFormed /\ NoDoubleFree
  BY <1>1 DEF Init, ListInit, WellFormed, NoDoubleFree, NoneShared
<1>4. QED
  BY <1>2, <1>3 DEF Init, ListInit, IInv, Phase, Fresh, Screen, ChosenWasShown

\* What every action below uses of the invariant.
LEMMA Facts ==
  ASSUME IInv
  PROVE  /\ ListSound
         /\ Len(list) \in Nat /\ Len(list) <= MAX_PEERS /\ MAX_PEERS \in Nat
         /\ TIMEOUT \in Nat
         /\ \A i \in 1..Len(list) : list[i].name \in Block /\ list[i].age \in Nat
         /\ names \in [Block -> Peer \cup {Freed}]
         /\ option \in 0..MAX_PEERS
<1>1. ListSound
  BY DEF IInv, TypeOK, ListSound
<1>2. /\ Len(list) \in Nat /\ Len(list) <= MAX_PEERS /\ MAX_PEERS \in Nat
      /\ TIMEOUT \in Nat
      /\ \A i \in 1..Len(list) : list[i].name \in Block /\ list[i].age \in 0..AgeCap
      /\ names \in [Block -> Peer \cup {Freed}]
      /\ option \in 0..MAX_PEERS
  BY <1>1, EntryType, ListAssumption DEF IInv, TypeOK, ListTypeOK, ListSound
<1>3. AgeCap \in Nat
  BY <1>2 DEF AgeCap
<1>4. QED
  BY <1>1, <1>2, <1>3

\* What an Expire that closes no gap does to the list: its last entry goes.
LEMMA ExpireCuts ==
  ASSUME IInv, Expire, ~shifted'
  PROVE  /\ ~shifted /\ Len(list) \in Nat \ {0} /\ ci = Len(list)
         /\ Len(list') = Len(list) - 1
         /\ \A i \in 1..Len(list)-1 :
              list'[i] = list[i] /\ addrs'[list[i].addr] = addrs[list[i].addr]
<1>1. ~shifted /\ ~(ci < Len(list))
  BY Zenon DEF Expire
<1>2. ci = Len(list) /\ Len(list) \in Nat \ {0}
  BY <1>1, Facts DEF Expire
<1>3. PICK ptr \in Spliced(ci) : list' = Removed(ci, ptr)
  BY DEF Expire
<1> DEFINE s == [list EXCEPT ![ci].addr = ptr]
<1>4. list \in Seq(Entry) /\ \A j \in 1..Len(list)-1 : j \in 1..Len(list) /\ j # ci
  BY <1>2, Facts DEF ListSound, ListTypeOK
<1>5. \A j \in 1..Len(list)-1 : s[j] = list[j]
  BY <1>4, LenProperties
<1>6. list' = SubSeq(s, 1, Len(list) - 1)
  BY <1>3 DEF Removed
<1> HIDE DEF s
<1>7. \A j \in 1..Len(list)-1 : s[j] \in Entry
  BY <1>4, <1>5, ElementOfSeq
<1>8. Len(list') = Len(list) - 1 /\ \A i \in 1..Len(list)-1 : list'[i] = list[i]
  <2>1. /\ Len(SubSeq(s, 1, Len(list)-1)) =
             IF 1 <= Len(list)-1 THEN (Len(list)-1)-1+1 ELSE 0
        /\ \A j \in 1..(Len(list)-1)-1+1 :
             SubSeq(s, 1, Len(list)-1)[j] = s[1+j-1]
    BY <1>2, <1>7, SubSeqProperties
  <2>2. QED
    BY <1>2, <1>5, <1>6, <2>1
<1>9. \A i \in 1..Len(list)-1 : list[i].addr # list[ci].addr
  BY <1>1, <1>2, <1>4 DEF IInv, WellFormed, NoneShared
<1>10. addrs' = [addrs EXCEPT ![list[ci].addr] = Freed]
  BY DEF Expire
<1>11. \A i \in 1..Len(list)-1 : addrs'[list[i].addr] = addrs[list[i].addr]
  BY <1>9, <1>10, Facts DEF ListSound, ListTypeOK
<1>12. QED
  BY <1>1, <1>2, <1>8, <1>11

LEMMA DrawnType ==
  ASSUME IInv, NEW o \in 0..MAX_PEERS
  PROVE  Drawn(o) \in [cursor : 0..MAX_PEERS, rows : Seq(Peer \cup {Freed})]
<1>1. [i \in 1..Len(list) |-> names[list[i].name]]
        \in [1..Len(list) -> Peer \cup {Freed}]
  BY Facts
<1>2. [i \in 1..Len(list) |-> names[list[i].name]] \in Seq(Peer \cup {Freed})
  BY <1>1, Facts, SeqDef
<1>3. QED
  BY <1>2 DEF Drawn

LEMMA RecvIInv ==
  ASSUME IInv, Recv
  PROVE  IInv'
<1>1. /\ queue \in Seq(Peer) /\ queue # <<>> /\ Len(queue) <= QueueCap
      /\ QueueCap \in Nat
  BY LoopAssumption DEF IInv, TypeOK, Recv
<1>2. /\ Head(queue) \in Peer
      /\ Tail(queue) \in Seq(Peer) /\ Len(Tail(queue)) <= QueueCap
  BY <1>1, HeadTailProperties, LenProperties
<1>3. ListSound'
  BY <1>2, Facts, AddSound DEF Recv
<1>4. ci = 0 /\ ci' = 0
  BY DEF Recv, add, Refresh, Insert, NoMemory, Full, Segfault
<1>5. TypeOK'
  BY <1>2, <1>3 DEF IInv, TypeOK, ListSound, Recv, LoopStates
<1>6. lpc' = "clean"
  BY DEF Recv
<1>7. (\A i \in 1..Len(list) : i < ci => list[i].age <= Limit)'
  BY <1>3, <1>4, EntryType DEF ListSound, ListTypeOK
<1>8. QED
  BY <1>3, <1>4, <1>5, <1>6, <1>7
     DEF IInv, ListSound, Phase, Fresh, Screen, ChosenWasShown

LEMMA CleanIInv ==
  ASSUME IInv, Clean
  PROVE  IInv'
<1>1. /\ lpc = "clean"
      /\ UNCHANGED <<on, queue, option, shown, target, ticked>>
      /\ \/ CleanStart /\ UNCHANGED lpc
         \/ ci > 0 /\ CleanStep /\ UNCHANGED lpc
         \/ ci > 0 /\ CleanEnd /\ lpc' = "draw"
  BY DEF Clean
<1>2. ListSound'
  BY <1>1, Facts, CleanStepSound, CleanEndsSound
<1>3. TypeOK'
  BY <1>1, <1>2 DEF IInv, TypeOK, ListSound, LoopStates
<1>4. lpc' \in {"clean", "draw"} /\ (lpc' = "draw" => ci' = 0)
  BY <1>1 DEF CleanEnd
<1>5. ASSUME ~shifted'
      PROVE  /\ lpc' = "clean" => \A i \in 1..Len(list') : i < ci' => list'[i].age <= Limit
             /\ lpc' = "draw" => \A i \in 1..Len(list') : list'[i].age <= Limit
  <2>1. CASE CleanStart /\ UNCHANGED lpc
    BY <1>1, <2>1, Facts DEF CleanStart
  <2>2. CASE ci > 0 /\ CleanEnd /\ lpc' = "draw"
    BY <1>1, <1>5, <2>2, Facts DEF CleanEnd, IInv, Fresh, TypeOK, ListTypeOK
  <2>3. CASE ci > 0 /\ CleanStep /\ UNCHANGED lpc
    <3>1. CASE Expire
      <4>1. /\ ~shifted /\ Len(list) \in Nat \ {0} /\ ci = Len(list)
            /\ Len(list') = Len(list) - 1
            /\ \A i \in 1..Len(list)-1 : list'[i] = list[i]
        BY <1>5, <3>1, ExpireCuts
      <4>2. \A i \in 1..Len(list) : i < ci => list[i].age <= Limit
        BY <1>1, <4>1 DEF IInv, Fresh
      <4>3. \A i \in 1..Len(list') : list'[i].age <= Limit
        <5>1. SUFFICES ASSUME NEW i \in 1..Len(list')
                       PROVE  list'[i].age <= Limit
          OBVIOUS
        <5>2. i \in 1..Len(list)-1 /\ i \in 1..Len(list) /\ i < ci
          BY <4>1
        <5>3. list'[i] = list[i] /\ list[i].age <= Limit
          BY <4>1, <4>2, <5>2
        <5>4. QED
          BY <5>3
      <4>4. lpc' = "clean"
        BY <1>1, <2>3
      <4>5. QED
        BY <4>3, <4>4
    <3>2. CASE DoubleFree
      BY <1>1, <1>5, <2>3, <3>2 DEF DoubleFree, IInv, Fresh
    <3>3. CASE Keep
      <4>1. ~shifted /\ \A i \in 1..Len(list) : i < ci => list[i].age <= Limit
        BY <1>1, <1>5, <3>3 DEF IInv, Fresh, Keep
      <4>2. ci \in 1..Len(list) /\ list[ci].age <= TIMEOUT
        BY <3>3, Facts DEF Keep, is_old
      <4>3. Limit \in Nat /\ TIMEOUT <= Limit
        BY Facts DEF Limit
      <4>4. lpc' = "clean" /\ list' = list /\ ci' = ci + 1
        BY <1>1, <2>3, <3>3 DEF Keep
      <4>5. \A i \in 1..Len(list) : i < ci + 1 => list[i].age <= Limit
        <5>1. SUFFICES ASSUME NEW i \in 1..Len(list), i < ci + 1
                       PROVE  list[i].age <= Limit
          OBVIOUS
        <5>2. i < ci \/ i = ci
          BY <4>2, <5>1
        <5>3. list[i].age \in Nat
          BY Facts
        <5>4. QED
          BY <4>1, <4>2, <4>3, <5>2, <5>3, Facts
      <4>6. QED
        BY <4>4, <4>5
    <3>4. QED
      BY <2>3, <3>1, <3>2, <3>3 DEF CleanStep
  <2>4. QED
    BY <1>1, <2>1, <2>2, <2>3
<1>6. Limit' = Limit
  BY <1>1 DEF Limit
<1>7. Fresh'
  BY <1>4, <1>5, <1>6 DEF Fresh
<1>8. QED
  BY <1>2, <1>3, <1>4, <1>7
     DEF IInv, ListSound, Phase, Screen, ChosenWasShown, TypeOK, ListTypeOK

\* The steps that leave the list and its blocks alone, outside clean.
LEMMA ListUntouched ==
  ASSUME IInv, UNCHANGED listVars
  PROVE  ListSound' /\ (Phase /\ (ci = 0 \/ lpc' = lpc) => Phase')
BY Facts DEF listVars, ListSound, ListTypeOK, WellFormed, NoDoubleFree,
             NoneShared, CanFree, Heard, OwnedAddr, OwnedName, Phase

LEMMA RecvFailsIInv ==
  ASSUME IInv, RecvFails
  PROVE  IInv'
<1>1. /\ ListSound' /\ lpc = "select" /\ lpc' = "select" /\ ci = 0 /\ ci' = 0
      /\ UNCHANGED <<on, option, shown, target>> /\ ticked' = FALSE
  BY ListUntouched DEF RecvFails, listVars, IInv, Phase, TypeOK, ListTypeOK
<1>2. queue' \in Seq(Peer) /\ Len(queue') <= QueueCap
  <2>1. queue \in Seq(Peer) /\ Len(queue) <= QueueCap /\ QueueCap \in Nat
    BY LoopAssumption DEF IInv, TypeOK
  <2>2. CASE queue' = queue
    BY <2>1, <2>2
  <2>3. CASE queue # <<>> /\ queue' = Tail(queue)
    BY <2>1, <2>3, HeadTailProperties, LenProperties
  <2>4. QED
    BY <2>2, <2>3 DEF RecvFails
<1>3. TypeOK'
  BY <1>1, <1>2 DEF IInv, TypeOK, ListSound
<1>4. QED
  BY <1>1, <1>3 DEF IInv, ListSound, Phase, Fresh, Screen, ChosenWasShown

LEMMA SelectTimeoutIInv ==
  ASSUME IInv, SelectTimeout
  PROVE  IInv'
<1>1. ListSound'
  BY ListUntouched DEF SelectTimeout
<1>2. lpc = "select" /\ lpc' = "clean" /\ ci = 0 /\ ci' = 0
  BY DEF SelectTimeout, listVars, IInv, Phase, TypeOK, ListTypeOK
<1>3. TypeOK'
  BY <1>1 DEF SelectTimeout, IInv, TypeOK, ListSound, LoopStates
<1>4. (\A i \in 1..Len(list) : i < ci => list[i].age <= Limit)'
  BY <1>1, <1>2, EntryType DEF ListSound, ListTypeOK
<1>5. QED
  BY <1>1, <1>2, <1>3, <1>4
     DEF IInv, ListSound, Phase, Fresh, Screen, ChosenWasShown

LEMMA DrawIInv ==
  ASSUME IInv, Draw
  PROVE  IInv'
<1>1. /\ ListSound' /\ lpc = "draw" /\ lpc' = "key" /\ ci = 0 /\ ci' = 0
      /\ UNCHANGED <<list, names, shifted, ticked>>
  BY ListUntouched DEF Draw, listVars, IInv, Phase, TypeOK, ListTypeOK
<1>2. /\ option' = IF option - 1 >= Len(list) THEN Len(list) ELSE option
      /\ shown' = Drawn(option')
      /\ UNCHANGED <<on, queue, target, ticked>>
  BY DEF Draw
<1>3. option' \in 0..MAX_PEERS /\ option' <= Len(list)
  BY <1>2, Facts
<1>4. shown' \in [cursor : 0..MAX_PEERS, rows : Seq(Peer \cup {Freed})]
  BY <1>2, <1>3, DrawnType
<1>5. TypeOK'
  BY <1>1, <1>2, <1>3, <1>4 DEF IInv, TypeOK, ListSound, LoopStates
<1>6. Fresh'
  BY <1>1 DEF IInv, Fresh, Limit
<1>7. Screen'
  BY <1>1, <1>2, <1>3 DEF Screen, Drawn
<1>8. QED
  BY <1>1, <1>5, <1>6, <1>7 DEF IInv, ListSound, Phase, ChosenWasShown

LEMMA MoveIInv ==
  ASSUME IInv, NEW o \in 0..MAX_PEERS, Move(o)
  PROVE  IInv'
<1>1. ListSound' /\ lpc' = "select" /\ ci = 0 /\ ci' = 0
  BY ListUntouched DEF Move, listVars, IInv, Phase, TypeOK, ListTypeOK
<1>2. shown' \in [cursor : 0..MAX_PEERS, rows : Seq(Peer \cup {Freed})]
  BY DrawnType DEF Move
<1>3. TypeOK'
  BY <1>1, <1>2 DEF Move, IInv, TypeOK, ListSound, LoopStates
<1>4. QED
  BY <1>1, <1>3 DEF IInv, ListSound, Phase, Fresh, Screen, ChosenWasShown

LEMMA KeysIInv ==
  ASSUME IInv, KeyUp \/ KeyDown \/ OtherKey
  PROVE  IInv'
<1> DEFINE n == Len(list)
<1>1. n \in Nat /\ n <= MAX_PEERS /\ MAX_PEERS \in Nat /\ option \in 0..MAX_PEERS
  BY Facts
<1>2. option - 1 + (n + 1) \in Int /\ option + 1 + (n + 1) \in Int
  BY <1>1
<1>3. /\ (option - 1 + (n + 1)) % (n + 1) \in 0..n
      /\ (option + 1 + (n + 1)) % (n + 1) \in 0..n
  BY <1>1, <1>2, Wraps
<1>4. /\ (option - 1 + (n + 1)) % (n + 1) \in 0..MAX_PEERS
      /\ (option + 1 + (n + 1)) % (n + 1) \in 0..MAX_PEERS
  <2> \A m \in 0..n : m \in 0..MAX_PEERS
    BY <1>1
  <2> QED
    BY <1>3
<1>5. QED
  BY <1>1, <1>4, MoveIInv DEF KeyUp, KeyDown, OtherKey

LEMMA KeyEnterIInv ==
  ASSUME IInv, KeyEnter
  PROVE  IInv'
<1>1. /\ ListSound' /\ lpc = "key" /\ lpc' = "chosen" /\ ci = 0 /\ ci' = 0
      /\ UNCHANGED <<list, names, option, shown>>
  BY ListUntouched DEF KeyEnter, listVars, IInv, Phase, TypeOK, ListTypeOK
<1>2. TypeOK'
  BY <1>1 DEF KeyEnter, IInv, TypeOK, ListSound, LoopStates
<1>3. Screen'
  BY <1>1 DEF IInv, Screen, Drawn
<1>4. QED
  BY <1>1, <1>2, <1>3 DEF IInv, ListSound, Phase, Fresh, ChosenWasShown

\* The row Enter was pressed on is the entry that is used.
LEMMA ChooseIInv ==
  ASSUME IInv, Choose
  PROVE  IInv'
<1>1. /\ ListSound' /\ lpc = "chosen" /\ lpc' \in {"exit", "connect"}
      /\ ci = 0 /\ ci' = 0
      /\ UNCHANGED <<list, names, addrs, shifted, option, shown, on, queue, ticked>>
  BY ListUntouched DEF Choose, listVars, IInv, Phase, TypeOK, ListTypeOK
<1>2. /\ option \in 0..MAX_PEERS /\ option <= Len(list) /\ Len(list) \in Nat
      /\ shown = Drawn(option)
  BY <1>1, Facts DEF IInv, Screen
<1>3. target' \in Peer \cup {NoPeer, Freed}
  <2>1. CASE option = 0
    BY <2>1 DEF Choose, IInv, TypeOK
  <2>2. CASE option # 0
    <3>1. option \in 1..Len(list)
      BY <1>2, <2>2
    <3>2. Live(option) => Heard(option) \in Peer \cup {Freed}
      BY <3>1, EntryType, Facts DEF Live, Heard, ListSound, ListTypeOK
    <3>3. QED
      BY <2>2, <3>2 DEF Choose
  <2>3. QED
    BY <2>1, <2>2
<1>4. TypeOK'
  BY <1>1, <1>3 DEF IInv, TypeOK, ListSound, LoopStates
<1>5. ChosenWasShown'
  <2>1. SUFFICES ASSUME ~shifted, lpc' = "connect"
                 PROVE  \E i \in 1..Len(shown.rows) :
                          i = shown.cursor /\ target' = shown.rows[i]
    BY <1>1 DEF ChosenWasShown
  <2>2. option # 0
    BY <2>1 DEF Choose
  <2>3. option \in 1..Len(list)
    BY <1>2, <2>2
  <2>4. CanFree(list[option]) /\ names[list[option].name] = Heard(option)
    BY <2>1, <2>3 DEF IInv, WellFormed
  <2>5. target' = Heard(option)
    BY <2>2, <2>4 DEF Choose, Live, CanFree
  <2>6. /\ shown.cursor = option
        /\ Len(shown.rows) = Len(list)
        /\ shown.rows[option] = names[list[option].name]
    BY <1>2, <2>3 DEF Drawn
  <2>7. QED
    BY <2>3, <2>4, <2>5, <2>6
<1>6. QED
  BY <1>1, <1>4, <1>5 DEF IInv, ListSound, Phase, Fresh, Screen

LEMMA AnswerIInv ==
  ASSUME IInv, Answer
  PROVE  IInv'
<1>1. CASE Accepted
  <2>1. ListSound' /\ ci = 0 /\ ci' = 0 /\ lpc' = "receive"
    BY <1>1, Facts, ListFreeSound DEF Accepted, list_free
  <2>2. TypeOK'
    BY <1>1, <2>1 DEF Accepted, IInv, TypeOK, ListSound, LoopStates
  <2>3. QED
    BY <2>1, <2>2 DEF IInv, ListSound, Phase, Fresh, Screen, ChosenWasShown
<1>2. CASE Refused
  <2>1. ListSound' /\ ci = 0 /\ ci' = 0 /\ lpc' = "exit"
    BY <1>2, ListUntouched DEF Refused, listVars, IInv, Phase, TypeOK, ListTypeOK
  <2>2. TypeOK'
    BY <1>2, <2>1 DEF Refused, IInv, TypeOK, ListSound, LoopStates
  <2>3. QED
    BY <2>1, <2>2 DEF IInv, ListSound, Phase, Fresh, Screen, ChosenWasShown
<1>3. QED
  BY <1>1, <1>2 DEF Answer

LEMMA NetworkIInv ==
  ASSUME IInv, NEW p \in Peer, Broadcast(p) \/ Switch(p)
  PROVE  IInv'
<1>1. UNCHANGED <<listVars, lpc, option, shown, target, ticked>>
  BY DEF Broadcast, Switch
<1>2. /\ queue' \in Seq(Peer) /\ Len(queue') <= QueueCap
      /\ on' \in [Peer -> BOOLEAN]
  <2>1. CASE Broadcast(p)
    BY <2>1, LoopAssumption, AppendProperties, LenProperties
       DEF Broadcast, IInv, TypeOK
  <2>2. CASE Switch(p)
    BY <2>2 DEF Switch, IInv, TypeOK
  <2>3. QED
    BY <2>1, <2>2
<1>3. ListSound' /\ Phase'
  BY <1>1, ListUntouched DEF IInv
<1>4. TypeOK'
  BY <1>1, <1>2, <1>3 DEF IInv, TypeOK, ListSound
<1>5. Fresh'
  BY <1>1 DEF listVars, IInv, Fresh, Limit
<1>6. Screen' /\ ChosenWasShown'
  BY <1>1 DEF listVars, IInv, Screen, Drawn, ChosenWasShown
<1>7. QED
  BY <1>3, <1>4, <1>5, <1>6 DEF IInv, ListSound

\* The one second that may pass during an iteration is what Limit allows for.
LEMMA TickIInv ==
  ASSUME IInv, Tick
  PROVE  IInv'
<1>1. /\ Age /\ ~ticked /\ ticked' /\ lpc # "connect"
      /\ UNCHANGED <<on, queue, lpc, option, shown, target>>
  BY DEF Tick
<1>2. UNCHANGED <<addrs, names, ci, alive, shifted, lost>> /\ ListSound'
  BY <1>1, Facts, AgeSound DEF Age
<1>3. ticked' \in BOOLEAN
  BY DEF Tick
<1>4. TypeOK'
  BY <1>1, <1>2, <1>3 DEF IInv, TypeOK, ListSound
<1> DEFINE older(i) == [list[i] EXCEPT !.age = IF @ < AgeCap THEN @ + 1 ELSE @]
<1>5. list' = [i \in 1..Len(list) |-> older(i)]
  BY <1>1 DEF Age
<1>6. AgeCap \in Nat /\ Len(list) \in Nat
  BY Facts DEF AgeCap
<1>7. \A i \in 1..Len(list) :
         /\ older(i).addr = list[i].addr
         /\ older(i).name = list[i].name
         /\ older(i).age \in Nat /\ older(i).age <= list[i].age + 1
  BY <1>6, EntryType, Facts DEF ListSound, Entry
<1> HIDE DEF older
<1>8. Len(list') = Len(list) /\ \A i \in 1..Len(list) : list'[i] = older(i)
  BY <1>5, <1>6
<1>9. Fresh'
  <2>1. SUFFICES ASSUME ~shifted
                 PROVE  /\ lpc = "clean" => \A i \in 1..Len(list) :
                              i < ci => list'[i].age <= Limit'
                        /\ lpc \in {"draw", "key"} => \A i \in 1..Len(list) :
                              list'[i].age <= Limit'
    BY <1>1, <1>2, <1>8 DEF Fresh
  <2>2. Limit = TIMEOUT /\ Limit' = TIMEOUT + 1 /\ TIMEOUT \in Nat
    BY <1>1, Facts DEF Limit
  <2>3. \A i \in 1..Len(list) : list[i].age <= TIMEOUT => list'[i].age <= TIMEOUT + 1
    BY <1>7, <1>8, <2>2, Facts
  <2>4. QED
    BY <2>1, <2>2, <2>3 DEF IInv, Fresh
<1>10. Drawn(option)' = Drawn(option)
  BY <1>1, <1>2, <1>7, <1>8 DEF Drawn
<1>11. Screen'
  BY <1>1, <1>8, <1>10 DEF IInv, Screen
<1>12. QED
  BY <1>1, <1>2, <1>4, <1>9, <1>11 DEF IInv, ListSound, Phase, ChosenWasShown

LEMMA StepIInv == IInv /\ [Next]_vars => IInv'
<1> SUFFICES ASSUME IInv, [Next]_vars PROVE IInv'
  OBVIOUS
<1>1. CASE Recv
  BY <1>1, RecvIInv
<1>2. CASE SelectTimeout
  BY <1>2, SelectTimeoutIInv
<1>3. CASE Clean
  BY <1>3, CleanIInv
<1>4. CASE Draw
  BY <1>4, DrawIInv
<1>5. CASE KeyUp \/ KeyDown \/ OtherKey
  BY <1>5, KeysIInv
<1>6. CASE KeyEnter
  BY <1>6, KeyEnterIInv
<1>7. CASE Choose
  BY <1>7, ChooseIInv
<1>8. CASE Answer
  BY <1>8, AnswerIInv
<1>9. CASE Tick
  BY <1>9, TickIInv
<1>10. CASE \E p \in Peer : Broadcast(p) \/ Switch(p)
  BY <1>10, NetworkIInv
<1>11. CASE UNCHANGED vars
  <2>1. UNCHANGED listVars /\ UNCHANGED loopVars
    BY <1>11 DEF vars
  <2>2. ListSound' /\ Phase'
    BY <2>1, ListUntouched DEF IInv, loopVars
  <2>3. TypeOK'
    BY <2>1, <2>2 DEF loopVars, IInv, TypeOK, ListSound
  <2>4. Fresh' /\ Screen' /\ ChosenWasShown'
    BY <2>1 DEF listVars, loopVars, IInv, Fresh, Limit, Screen, Drawn,
                ChosenWasShown
  <2>5. QED
    BY <2>2, <2>3, <2>4 DEF IInv, ListSound
<1>12. CASE Ended
  BY <1>11, <1>12 DEF Ended
<1>13. CASE RecvFails
  BY <1>13, RecvFailsIInv
<1>14. QED
  BY <1>1, <1>2, <1>3, <1>4, <1>5, <1>6, <1>7, <1>8, <1>9, <1>10, <1>11, <1>12, <1>13
     DEF Next, Loop

LEMMA Invariant == Spec => []IInv
BY InitIInv, StepIInv, PTL DEF Spec

\* Every variable keeps its type, the list its capacity among them: add never
\* writes behind the array of MAX_PEERS entries.
THEOREM TypeCorrect == Spec => []TypeOK
<1>1. IInv => TypeOK
  BY DEF IInv
<1>2. QED
  BY <1>1, Invariant, PTL

\* Until clean removes an entry that is not the last, every entry of the list
\* owns its two blocks, no block that an entry took over leaks, and no peer is
\* listed twice.  The names of the datagrams add does not store are not among those
\* blocks: they leak (DropName).
THEOREM ListStaysWellFormed == Spec => []WellFormed
<1>1. IInv => WellFormed
  BY DEF IInv
<1>2. QED
  BY <1>1, Invariant, PTL

\* ... and neither clean nor list_free ever frees a block twice.
THEOREM BlocksFreedOnce == Spec => []NoDoubleFree
<1>1. IInv => NoDoubleFree
  BY DEF IInv
<1>2. QED
  BY <1>1, Invariant, PTL

\* The cursor is a row of the list whenever the loop reads a key or uses the
\* entry, also after memmove went wrong.
THEOREM CursorStaysInList == Spec => []OptionInRange
<1>1. IInv => OptionInRange
  BY DEF IInv, Screen, OptionInRange
<1>2. QED
  BY <1>1, Invariant, PTL

\* connect goes to the peer that was in colour when Enter was pressed.
THEOREM ChosenPeerWasShown == Spec => []ChosenWasShown
<1>1. IInv => ChosenWasShown
  BY DEF IInv
<1>2. QED
  BY <1>1, Invariant, PTL

\* Nobody on the screen was silent longer than TIMEOUT and one second.
THEOREM ShownPeersAreFresh == Spec => []ShownIsFresh
<1>1. IInv => ShownIsFresh
  <2>1. ASSUME IInv PROVE TIMEOUT \in Nat
                          /\ \A i \in 1..Len(list) : list[i].age \in Nat
    BY <2>1, Facts
  <2>2. QED
    BY <2>1 DEF IInv, Fresh, Limit, ShownIsFresh
<1>2. QED
  BY <1>1, Invariant, PTL

(***************************************************************************)
(* Who leaves the list.  Every step but a removal by clean keeps the       *)
(* entries and what their addresses hold, or adds to them.                 *)
(***************************************************************************)
LEMMA SameEntries ==
  ASSUME NEW p \in Peer, Listed(p),
         Len(list) \in Nat, Len(list') \in Nat, Len(list) <= Len(list'),
         \A i \in 1..Len(list) :
           /\ list'[i].addr = list[i].addr
           /\ addrs[list[i].addr] # Freed =>
                addrs'[list[i].addr] = addrs[list[i].addr]
  PROVE  Listed(p)'
<1>1. PICK i \in 1..Len(list) :
        list[i].addr # Wild /\ addrs[list[i].addr] # Freed /\ Heard(i) = p
  BY DEF Listed, Live
<1>2. i \in 1..Len(list')
  OBVIOUS
<1>3. QED
  BY <1>1, <1>2 DEF Listed, Live, Heard

LEMMA AddKeepsListed ==
  ASSUME IInv, NEW q \in Peer, add(q), NEW p \in Peer, Listed(p)
  PROVE  Listed(p)'
<1>1. CASE Refresh(q)
  <2>1. PICK i \in 1..Len(list) : list' = [list EXCEPT ![i].age = 0]
    BY <1>1 DEF Refresh
  <2> DEFINE e == [list[i] EXCEPT !.age = 0]
  <2>2. e.addr = list[i].addr
    BY Facts, EntryType DEF Entry
  <2>3. list \in [1..Len(list) -> Entry] /\ Len(list) \in Nat
    BY Facts, LenProperties DEF ListSound, ListTypeOK
  <2>4. list' = [list EXCEPT ![i] = e]
    BY <2>1
  <2> HIDE DEF e
  <2>5. Len(list') = Len(list)
        /\ \A j \in 1..Len(list) : list'[j].addr = list[j].addr
    BY <2>2, <2>3, <2>4
  <2>6. addrs' = addrs
    BY <1>1 DEF Refresh
  <2>7. QED
    BY <2>3, <2>5, <2>6, SameEntries
<1>2. CASE Insert(q)
  <2>1. PICK b \in Block, c \in Block :
          /\ addrs[b] = Freed
          /\ addrs' = [addrs EXCEPT ![b] = q]
          /\ list' = Append(list, [addr |-> b, name |-> c, age |-> 0])
    BY <1>2 DEF Insert
  <2> DEFINE e == [addr |-> b, name |-> c, age |-> 0]
  <2>2. e \in Entry
    BY ListAssumption DEF Entry, AgeCap
  <2>3. list \in Seq(Entry) /\ Len(list) \in Nat
    BY Facts DEF ListSound, ListTypeOK
  <2> HIDE DEF e
  <2>4. /\ Len(list') = Len(list) + 1
        /\ \A i \in 1..Len(list) : list'[i] = list[i]
    BY <2>1, <2>2, <2>3, AppendProperties DEF e
  <2>5. \A x : addrs[x] # Freed => addrs'[x] = addrs[x]
    BY <2>1, Facts DEF ListSound, ListTypeOK
  <2>6. QED
    BY <2>3, <2>4, <2>5, SameEntries
<1>3. CASE Full(q) \/ NoMemory(q) \/ Segfault
  BY <1>3 DEF Full, NoMemory, Segfault, Listed, Live, Heard
<1>4. QED
  BY <1>1, <1>2, <1>3 DEF add

\* The entry that leaves is the one clean found to be old.
LEMMA CleanStepLeaves ==
  ASSUME IInv, CleanStep, ~shifted', NEW p \in Peer, Listed(p), ~Listed(p)'
  PROVE  Silent(p)
<1>1. CASE Keep \/ DoubleFree
  BY <1>1 DEF Keep, DoubleFree, Listed, Live, Heard
<1>2. CASE Expire
  <2>1. PICK i \in 1..Len(list) : Live(i) /\ Heard(i) = p
    BY DEF Listed
  <2>2. CASE i = ci
    BY <1>2, <2>1, <2>2 DEF Expire, is_old, Silent
  <2>3. CASE i # ci
    <3>1. /\ Len(list) \in Nat \ {0} /\ ci = Len(list) /\ Len(list') = Len(list) - 1
          /\ \A j \in 1..Len(list)-1 :
               list'[j] = list[j] /\ addrs'[list[j].addr] = addrs[list[j].addr]
      BY <1>2, ExpireCuts
    <3>2. i \in 1..Len(list') /\ list'[i] = list[i] /\ addrs'[list[i].addr] = addrs[list[i].addr]
      BY <2>1, <2>3, <3>1
    <3>3. Listed(p)'
      BY <2>1, <3>2 DEF Listed, Live, Heard
    <3>4. QED
      BY <3>3
  <2>4. QED
    BY <2>2, <2>3
<1>3. QED
  BY <1>1, <1>2 DEF CleanStep

LEMMA TickKeepsListed ==
  ASSUME IInv, Tick, NEW p \in Peer, Listed(p)
  PROVE  Listed(p)'
<1>1. Age /\ addrs' = addrs /\ Len(list) \in Nat
  BY Facts DEF Tick, Age
<1> DEFINE older(i) == [list[i] EXCEPT !.age = IF @ < AgeCap THEN @ + 1 ELSE @]
<1>2. list' = [i \in 1..Len(list) |-> older(i)]
  BY <1>1 DEF Age
<1>3. \A i \in 1..Len(list) : older(i).addr = list[i].addr
  BY EntryType, Facts DEF Entry
<1> HIDE DEF older
<1>4. Len(list') = Len(list) /\ \A i \in 1..Len(list) : list'[i].addr = list[i].addr
  BY <1>1, <1>2, <1>3
<1>5. QED
  BY <1>1, <1>4, SameEntries

LEMMA StepLeaves ==
  ASSUME IInv, [Next]_vars, ~shifted', lpc # "connect",
         NEW p \in Peer, Listed(p), ~Listed(p)'
  PROVE  Silent(p)
<1>1. CASE Recv
  <2>1. Head(queue) \in Peer
    BY <1>1, HeadTailProperties DEF Recv, IInv, TypeOK
  <2>2. QED
    BY <1>1, <2>1, AddKeepsListed DEF Recv
<1>2. CASE Clean
  <2>1. CASE CleanStep
    BY <2>1, CleanStepLeaves
  <2>2. CASE CleanStart \/ CleanEnd
    BY <2>2 DEF CleanStart, CleanEnd, Listed, Live, Heard
  <2>3. QED
    BY <1>2, <2>1, <2>2 DEF Clean
<1>3. CASE Tick
  BY <1>3, TickKeepsListed
<1>4. CASE UNCHANGED listVars
  BY <1>4 DEF listVars, Listed, Live, Heard
<1>5. CASE Answer
  BY <1>5 DEF Answer, Accepted, Refused
<1>6. QED
  BY <1>1, <1>2, <1>3, <1>4, <1>5
     DEF Next, Loop, RecvFails, SelectTimeout, Draw, KeyUp, KeyDown, OtherKey, Move,
         KeyEnter, Choose, Broadcast, Switch, Ended, vars

\* As long as clean removed nothing but last entries, a peer that leaves the list
\* was silent for more than TIMEOUT seconds.
THEOREM OnlyTheSilentLeave == Spec => OnlySilentLeave
<1>1. IInv /\ [Next]_vars =>
        (~shifted' /\ lpc # "connect" =>
           \A p \in Peer : Listed(p) /\ ~Listed(p)' => Silent(p))
  BY StepLeaves
<1>2. IInv /\ [Next]_vars =>
        [~shifted' /\ lpc # "connect" =>
           \A p \in Peer : Listed(p) /\ ~Listed(p)' => Silent(p)]_vars
  BY <1>1
<1>3. QED
  BY <1>2, Invariant, PTL DEF Spec, OnlySilentLeave

(***************************************************************************)
(* The list as a table of ages: ListenLoop implements PeerTable as long as *)
(* no gap was closed.                                                      *)
(*                                                                         *)
(* Every entry is the only one of its peer, so the table holds its age,    *)
(* and a peer without an entry is unheard: Tabled.  A step of the list is  *)
(* then a step of the table because the table after it is read off the     *)
(* list after it in the same way.  PeerTable changes only while nobody is  *)
(* picked, which needs of the loop that connect is where a target first    *)
(* exists: Picking, inductive beside IInv.                                 *)
(***************************************************************************)
Tabled ==
  /\ \A i \in 1..Len(list) :
       Heard(i) \in Peer /\ list[i].age \in Nat /\ Ages[Heard(i)] = list[i].age
  /\ \A p \in Peer :
       \/ Ages[p] = -1
       \/ \E i \in 1..Len(list) : Heard(i) = p

Picking ==
  /\ lpc \notin {"connect", "receive", "exit"} => target = NoPeer
  /\ ~shifted /\ lpc = "connect" => target \in Peer

LEMMA InitPicking == Init => Picking
BY DEF Init, Picking

LEMMA EntriesHeard ==
  ASSUME IInv, ~shifted, NEW i \in 1..Len(list)
  PROVE  Live(i) /\ Heard(i) \in Peer
<1>1. CanFree(list[i])
  BY DEF IInv, WellFormed
<1>2. list[i].addr \in Block /\ addrs \in [Block -> Peer \cup {Freed}]
  BY <1>1, Facts, EntryType DEF ListSound, ListTypeOK, CanFree
<1>3. QED
  BY <1>1, <1>2 DEF CanFree, Live, Heard

LEMMA AgesTabled == IInv /\ ~shifted => Tabled
<1> SUFFICES ASSUME IInv, ~shifted PROVE Tabled
  OBVIOUS
<1>1. \A i, j \in 1..Len(list) : i # j => Heard(i) # Heard(j)
  BY DEF IInv, WellFormed
<1>2. ASSUME NEW i \in 1..Len(list)
      PROVE  Heard(i) \in Peer /\ list[i].age \in Nat /\ Ages[Heard(i)] = list[i].age
  <2> DEFINE k == CHOOSE j \in 1..Len(list) : Live(j) /\ Heard(j) = Heard(i)
  <2>1. Live(i) /\ Heard(i) \in Peer
    BY EntriesHeard
  <2>2. k \in 1..Len(list) /\ Heard(k) = Heard(i)
    BY <2>1, Zenon
  <2>3. k = i
    BY <1>1, <2>2, Zenon
  <2>4. Listed(Heard(i))
    BY <2>1 DEF Listed
  <2>5. AgeOf(Heard(i)) = list[k].age
    BY <2>4, Zenon DEF AgeOf
  <2> HIDE DEF k
  <2>6. Ages[Heard(i)] = AgeOf(Heard(i))
    BY <2>1 DEF Ages
  <2>7. QED
    BY <2>1, <2>3, <2>5, <2>6, Facts
<1>3. ASSUME NEW p \in Peer, \A i \in 1..Len(list) : Heard(i) # p
      PROVE  Ages[p] = -1
  BY <1>3 DEF Ages, AgeOf, Listed
<1>4. QED
  BY <1>2, <1>3 DEF Tabled

\* Two tables are the same if they agree on every peer.
LEMMA SameTable ==
  ASSUME NEW f, \A p \in Peer : Ages'[p] = f[p], f = [p \in Peer |-> f[p]]
  PROVE  Ages' = f
<1>1. Ages' = [p \in Peer |-> Ages'[p]]
  BY DEF Ages
<1>2. QED
  BY <1>1

\* Of the datagrams, one from a peer that is listed renews its age.
LEMMA RefreshHears ==
  ASSUME IInv, ~shifted, Tabled, Tabled', NEW p \in Peer, Refresh(p)
  PROVE  Ages[p] # -1 /\ Ages' = [Ages EXCEPT ![p] = 0]
<1>1. PICK i \in 1..Len(list) : MaybeSame(i, p) /\ list' = [list EXCEPT ![i].age = 0]
  BY DEF Refresh
<1>2. addrs' = addrs
  BY DEF Refresh
<1>3. Heard(i) = p
  BY <1>1, EntriesHeard DEF MaybeSame, Same, Heard
<1> DEFINE e == [list[i] EXCEPT !.age = 0]
<1>4. e.addr = list[i].addr /\ e.age = 0
  BY Facts, EntryType DEF Entry
<1>5. list \in [1..Len(list) -> Entry] /\ Len(list) \in Nat
  BY Facts, LenProperties DEF ListSound, ListTypeOK
<1>6. list' = [list EXCEPT ![i] = e]
  BY <1>1
<1> HIDE DEF e
<1>7. /\ Len(list') = Len(list)
      /\ \A j \in 1..Len(list) : list'[j] = IF j = i THEN e ELSE list[j]
  BY <1>5, <1>6
<1>8. \A j \in 1..Len(list) : Heard(j)' = Heard(j)
  BY <1>2, <1>4, <1>7 DEF Heard
<1>9. Ages[p] # -1
  BY <1>3 DEF Tabled
<1>10. \A j \in 1..Len(list) : /\ Heard(j) \in Peer
                              /\ Ages'[Heard(j)] = list'[j].age
                              /\ Ages[Heard(j)] = list[j].age
  BY <1>7, <1>8 DEF Tabled
<1>11. \A q \in Peer : Ages'[q] = IF q = p THEN 0 ELSE Ages[q]
  <2>1. TAKE q \in Peer
  <2>2. CASE \E j \in 1..Len(list) : Heard(j) = q
    <3>1. PICK j \in 1..Len(list) : Heard(j) = q
      BY <2>2
    <3>2. j = i => list'[j].age = 0
      BY <1>4, <1>7
    <3>3. j # i => list'[j].age = list[j].age /\ Heard(j) # p
      BY <1>3, <1>7 DEF IInv, WellFormed
    <3>4. QED
      BY <1>3, <1>10, <3>1, <3>2, <3>3
  <2>3. CASE \A j \in 1..Len(list) : Heard(j) # q
    BY <1>3, <1>7, <1>8, <2>3 DEF Tabled
  <2>4. QED
    BY <2>2, <2>3
<1>12. QED
  <2>1. Ages = [q \in Peer |-> AgeOf(q)]
    BY DEF Ages
  <2>2. /\ [Ages EXCEPT ![p] = 0] = [q \in Peer |-> [Ages EXCEPT ![p] = 0][q]]
        /\ \A q \in Peer : Ages'[q] = [Ages EXCEPT ![p] = 0][q]
    BY <1>11, <2>1
  <2>3. QED
    BY <1>9, <2>2, SameTable

\* The table of a list has as many peers as the list has entries.
LEMMA KnownCount ==
  ASSUME IInv, ~shifted, Tabled
  PROVE  Table!Room <=> Len(list) < MAX_PEERS
<1> DEFINE f == [i \in 1..Len(list) |-> Heard(i)]
           S == Table!Known
<1>1. Len(list) \in Nat
  BY Facts
<1>2. S = {p \in Peer : Ages[p] # -1}
  BY DEF Table!Known, Table!Unheard
<1>3. \A i \in 1..Len(list) : Heard(i) \in S
  BY <1>2 DEF Tabled
<1>4. \A p \in S : \E i \in 1..Len(list) : Heard(i) = p
  BY <1>2 DEF Tabled
<1>5. \A i, j \in 1..Len(list) : i # j => Heard(i) # Heard(j)
  BY DEF IInv, WellFormed
<1> HIDE DEF S
<1>6. f \in [1..Len(list) -> S]
  BY <1>3
<1>7. \A p \in S : \E i \in 1..Len(list) : f[i] = p
  BY <1>4
<1>8. \A i, j \in 1..Len(list) : f[i] = f[j] => i = j
  BY <1>5
<1> HIDE DEF f
<1>9. f \in Bijection(1..Len(list), S)
  BY <1>6, <1>7, <1>8 DEF Bijection, Injection, Surjection, IsInjective
<1>10. ExistsBijection(1..Len(list), S)
  BY <1>9 DEF ExistsBijection
<1>11. Cardinality(S) = Len(list)
  BY <1>1, <1>10, FS_CountingElements
<1>12. Table!Cardinality(S) = Cardinality(S)
  BY DEF Table!Cardinality, Cardinality
<1>13. QED
  BY <1>11, <1>12 DEF S, Table!Room

\* ... and one from a peer that is not lists it, if there is room.
LEMMA InsertHears ==
  ASSUME IInv, ~shifted, Tabled, Tabled', NEW p \in Peer, Insert(p)
  PROVE  Table!Room /\ Ages' = [Ages EXCEPT ![p] = 0]
<1>1. PICK b \in Block, c \in Block :
        /\ addrs[b] = Freed
        /\ addrs' = [addrs EXCEPT ![b] = p]
        /\ list' = Append(list, [addr |-> b, name |-> c, age |-> 0])
  BY DEF Insert
<1> DEFINE e == [addr |-> b, name |-> c, age |-> 0]
           n == Len(list)
<1>2. e \in Entry /\ e.addr = b /\ e.age = 0
  BY ListAssumption DEF Entry, AgeCap
<1>3. /\ list \in Seq(Entry) /\ n \in Nat /\ n < MAX_PEERS /\ MAX_PEERS \in Nat
      /\ addrs \in [Block -> Peer \cup {Freed}]
  BY Facts DEF ListSound, ListTypeOK, Insert
<1> HIDE DEF e
<1>4. /\ Len(list') = n + 1
      /\ \A i \in 1..n : list'[i] = list[i]
      /\ list'[n+1] = e
  BY <1>1, <1>2, <1>3, AppendProperties DEF e
<1>5. \A i \in 1..n : Heard(i)' = Heard(i) /\ Heard(i) \in Peer
  <2>1. TAKE i \in 1..n
  <2>2. CanFree(list[i]) /\ Heard(i) \in Peer
    BY EntriesHeard DEF IInv, WellFormed
  <2>3. list[i].addr # b
    BY <1>1, <2>2 DEF CanFree
  <2>4. QED
    BY <1>1, <1>3, <1>4, <2>2, <2>3 DEF Heard
<1>6. addrs'[list'[n+1].addr] = p
  BY <1>1, <1>2, <1>3, <1>4
<1>7. 1..Len(list') = 1..n \cup {n+1}
  BY <1>3, <1>4
<1>8. \A i \in 1..n : Ages'[Heard(i)] = Ages[Heard(i)]
  <2>1. TAKE i \in 1..n
  <2>2. i \in 1..Len(list')
    BY <1>7
  <2>3. Ages'[Heard(i)'] = list'[i].age
    BY <2>2 DEF Tabled
  <2>4. Ages[Heard(i)] = list[i].age
    BY DEF Tabled
  <2>5. QED
    BY <1>4, <1>5, <2>3, <2>4
<1>9. Ages'[p] = 0
  <2>1. n+1 \in 1..Len(list')
    BY <1>7
  <2>2. \A i \in 1..Len(list') : Ages'[addrs'[list'[i].addr]] = list'[i].age
    BY DEF Tabled, Heard
  <2>3. QED
    BY <1>2, <1>4, <1>6, <2>1, <2>2
<1>10. \A q \in Peer : Ages'[q] = IF q = p THEN 0 ELSE Ages[q]
  <2>1. TAKE q \in Peer
  <2>2. CASE \E i \in 1..n : Heard(i) = q
    BY <1>8, <1>9, <2>2
  <2>3. CASE \A i \in 1..n : Heard(i) # q
    <3>1. Ages[q] = -1
      BY <2>3 DEF Tabled
    <3>2. q # p => \A i \in 1..Len(list') : Heard(i)' # q
      BY <1>5, <1>6, <1>7, <2>3 DEF Heard
    <3>3. q # p => Ages'[q] = -1
      BY <3>2 DEF Tabled
    <3>4. QED
      BY <1>9, <3>1, <3>3
  <2>4. QED
    BY <2>2, <2>3
<1>11. Table!Room
  BY <1>3, KnownCount
<1>12. QED
  <2>1. Ages = [q \in Peer |-> AgeOf(q)]
    BY DEF Ages
  <2>2. /\ [Ages EXCEPT ![p] = 0] = [q \in Peer |-> [Ages EXCEPT ![p] = 0][q]]
        /\ \A q \in Peer : Ages'[q] = [Ages EXCEPT ![p] = 0][q]
    BY <1>10, <2>1
  <2>3. QED
    BY <1>11, <2>2, SameTable

\* ... and if there is not, the peer is not listed either.
LEMMA FullIgnores ==
  ASSUME IInv, ~shifted, Tabled, NEW p \in Peer, Full(p)
  PROVE  Ages[p] = -1 /\ ~Table!Room
<1>1. Len(list) = MAX_PEERS /\ \A i \in 1..Len(list) : ~Same(i, p)
  BY Facts DEF Full, NotBefore
<1>2. \A i \in 1..Len(list) : Heard(i) # p
  BY <1>1, EntriesHeard DEF Same, Heard
<1>3. ~Table!Room
  BY <1>1, Facts, KnownCount
<1>4. QED
  BY <1>2, <1>3 DEF Tabled

\* The peer whose entry goes was silent, and nobody else leaves the table.
LEMMA ExpireDrops ==
  ASSUME IInv, Tabled, Tabled', Expire, ~shifted'
  PROVE  \E p \in Peer : Ages[p] > TIMEOUT /\ Ages' = [Ages EXCEPT ![p] = -1]
<1> DEFINE n == Len(list)
           p == Heard(n)
<1>1. /\ ~shifted /\ n \in Nat \ {0} /\ ci = n /\ n \in 1..n
      /\ Len(list') = n - 1
      /\ \A i \in 1..n-1 : list'[i] = list[i] /\ addrs'[list[i].addr] = addrs[list[i].addr]
  BY ExpireCuts
<1>2. p \in Peer /\ Ages[p] = list[n].age
  BY <1>1 DEF Tabled
<1>3. list[n].age > TIMEOUT
  BY <1>1 DEF Expire, is_old
<1>4. \A i \in 1..n-1 :
        Heard(i) \in Peer /\ Heard(i) # p /\ Ages[Heard(i)] = list[i].age
  <2>1. TAKE i \in 1..n-1
  <2>2. i \in 1..n /\ i # n
    BY <1>1
  <2>3. Heard(i) # p
    BY <1>1, <2>2 DEF IInv, WellFormed
  <2>4. QED
    BY <2>2, <2>3 DEF Tabled
<1>5. \A i \in 1..n-1 : Heard(i)' = Heard(i) /\ Ages'[Heard(i)] = list[i].age
  <2>1. \A i \in 1..n-1 : Heard(i)' = Heard(i)
    BY <1>1 DEF Heard
  <2>2. \A i \in 1..n-1 : Ages'[Heard(i)'] = list'[i].age
    BY <1>1 DEF Tabled
  <2>3. QED
    BY <1>1, <2>1, <2>2
<1>6. \A q \in Peer : (\A i \in 1..n-1 : Heard(i) # q) => Ages'[q] = -1
  <2>1. \A q \in Peer : Ages'[q] = -1 \/ \E i \in 1..n-1 : Heard(i)' = q
    BY <1>1 DEF Tabled
  <2>2. QED
    BY <1>5, <2>1
<1>7. \A q \in Peer : Ages'[q] = IF q = p THEN -1 ELSE Ages[q]
  <2>1. TAKE q \in Peer
  <2>2. CASE \E i \in 1..n-1 : Heard(i) = q
    BY <1>4, <1>5, <2>2
  <2>3. CASE \A i \in 1..n-1 : Heard(i) # q
    <3>1. Ages'[q] = -1
      BY <1>6, <2>3
    <3>2. q # p => \A i \in 1..n : Heard(i) # q
      <4>1. \A i \in 1..n : i \in 1..n-1 \/ i = n
        BY <1>1
      <4>2. QED
        BY <2>3, <4>1
    <3>3. q # p => Ages[q] = -1
      BY <3>2 DEF Tabled
    <3>4. QED
      BY <3>1, <3>3
  <2>4. QED
    BY <2>2, <2>3
<1> HIDE DEF p
<1>8. Ages' = [Ages EXCEPT ![p] = -1]
  <2>1. Ages = [q \in Peer |-> AgeOf(q)]
    BY DEF Ages
  <2>2. /\ [Ages EXCEPT ![p] = -1] = [q \in Peer |-> [Ages EXCEPT ![p] = -1][q]]
        /\ \A q \in Peer : Ages'[q] = [Ages EXCEPT ![p] = -1][q]
    BY <1>7, <2>1
  <2>3. QED
    BY <2>2, SameTable
<1>9. QED
  BY <1>2, <1>3, <1>8

\* A second of the list is a second of the table.
LEMMA TickAges ==
  ASSUME IInv, Tabled, Tabled', Tick
  PROVE  Ages' = [p \in Peer |->
                    IF Ages[p] \in {-1, AgeCap} THEN Ages[p] ELSE Ages[p] + 1]
<1> DEFINE n == Len(list)
           older(i) == [list[i] EXCEPT !.age = IF @ < AgeCap THEN @ + 1 ELSE @]
           f == [p \in Peer |-> IF Ages[p] \in {-1, AgeCap} THEN Ages[p] ELSE Ages[p] + 1]
<1>1. list' = [i \in 1..n |-> older(i)] /\ addrs' = addrs
  BY DEF Tick, Age
<1>2. AgeCap \in Nat /\ n \in Nat /\ \A i \in 1..n : list[i].age \in 0..AgeCap
  BY Facts, EntryType DEF AgeCap, ListSound
<1>3. \A i \in 1..n :
        /\ older(i).addr = list[i].addr
        /\ older(i).age = IF list[i].age < AgeCap THEN list[i].age + 1 ELSE list[i].age
  BY EntryType, Facts DEF Entry, ListSound
<1> HIDE DEF older
<1>4. Len(list') = n /\ \A i \in 1..n : list'[i] = older(i)
  BY <1>1, <1>2
<1>5. \A i \in 1..n : Heard(i)' = Heard(i)
  BY <1>1, <1>3, <1>4 DEF Heard
<1>6. \A i \in 1..n : Ages'[Heard(i)] = f[Heard(i)]
  <2>1. TAKE i \in 1..n
  <2>2. Heard(i) \in Peer /\ Ages[Heard(i)] = list[i].age
    BY DEF Tabled
  <2>3. Ages'[Heard(i)'] = list'[i].age
    BY <1>4 DEF Tabled
  <2>4. list'[i].age = IF list[i].age < AgeCap THEN list[i].age + 1 ELSE list[i].age
    BY <1>3, <1>4
  <2>5. list[i].age \in 0..AgeCap
    BY <1>2
  <2>6. QED
    BY <1>2, <1>5, <2>2, <2>3, <2>4, <2>5
<1>7. \A q \in Peer : (\A i \in 1..n : Heard(i) # q) => Ages'[q] = -1 /\ Ages[q] = -1
  BY <1>4, <1>5 DEF Tabled
<1>8. \A q \in Peer : Ages'[q] = f[q]
  BY <1>6, <1>7
<1>9. f = [q \in Peer |-> f[q]]
  OBVIOUS
<1> HIDE DEF f
<1>10. Ages' = f
  BY <1>8, <1>9, SameTable
<1>11. QED
  BY <1>10 DEF f

\* Choose picks somebody who is in the table.
LEMMA ChoosePicks ==
  ASSUME IInv, ~shifted, Tabled, Choose, option # 0
  PROVE  target' \in Peer /\ Ages[target'] # -1
<1>1. option \in 1..Len(list)
  BY Facts DEF Choose, IInv, Screen
<1>2. target' = Heard(option)
  BY <1>1, EntriesHeard DEF Choose
<1>3. QED
  BY <1>1, <1>2 DEF Tabled

LEMMA PickingStep == IInv /\ Picking /\ [Next]_vars => Picking'
<1> SUFFICES ASSUME IInv, Picking, [Next]_vars PROVE Picking'
  OBVIOUS
<1>1. CASE Choose
  <2>1. CASE option = 0
    BY <1>1, <2>1 DEF Choose, Picking
  <2>2. CASE option # 0
    BY <1>1, <2>2, AgesTabled, ChoosePicks DEF Choose, Picking, listVars
  <2>3. QED
    BY <2>1, <2>2
<1>2. CASE Recv
  BY <1>2 DEF Recv, Picking
<1>3. CASE Clean
  BY <1>3 DEF Clean, Picking
<1>4. CASE Answer
  BY <1>4 DEF Answer, Accepted, Refused, Picking
<1>5. CASE Tick
  BY <1>5 DEF Tick, Age, Picking
<1>6. CASE RecvFails \/ SelectTimeout \/ Draw \/ KeyUp \/ KeyDown \/ OtherKey \/ KeyEnter
  BY <1>6 DEF RecvFails, SelectTimeout, Draw, KeyUp, KeyDown, OtherKey, Move, KeyEnter, Picking
<1>7. CASE \E p \in Peer : Broadcast(p) \/ Switch(p)
  BY <1>7 DEF Broadcast, Switch, listVars, Picking
<1>8. CASE UNCHANGED vars
  BY <1>8 DEF vars, listVars, loopVars, Picking
<1>9. QED
  BY <1>1, <1>2, <1>3, <1>4, <1>5, <1>6, <1>7, <1>8 DEF Next, Loop, Ended

\* A list that keeps its entries, whatever happens to the rest, is the same table.
LEMMA AgesStay ==
  ASSUME UNCHANGED <<list, addrs>>
  PROVE  Ages' = Ages
<1>1. \A p \in Peer : AgeOf(p)' = AgeOf(p)
  BY DEF AgeOf, Listed, Live, Heard
<1>2. QED
  BY <1>1 DEF Ages

LEMMA RecvIsTableStep ==
  ASSUME IInv, Picking, Tabled, Tabled', ~shifted, Recv
  PROVE  Table!Next
<1> DEFINE p == Head(queue)
<1>1. /\ p \in Peer /\ add(p) /\ target = NoPeer /\ UNCHANGED target
      /\ queue # <<>> /\ p = Head(queue) /\ queue' = Tail(queue)
  BY HeadTailProperties DEF Recv, IInv, TypeOK, Picking
<1> HIDE DEF p
<1>2. CASE Refresh(p)
  <2>1. Table!Hear(p)
    BY <1>1, <1>2, RefreshHears DEF Table!Hear, Table!Known, Table!Unheard
  <2>2. QED
    BY <1>1, <2>1 DEF Table!Next
<1>3. CASE Insert(p)
  <2>1. Table!Hear(p)
    BY <1>1, <1>3, InsertHears DEF Table!Hear
  <2>2. QED
    BY <1>1, <2>1 DEF Table!Next
<1>4. CASE Full(p)
  <2>1. Ages' = Ages
    BY <1>4, AgesStay DEF Full
  <2>2. Ages[p] = -1 /\ ~Table!Room
    BY <1>1, <1>4, FullIgnores
  <2>3. Table!Ignore(p)
    BY <1>1, <2>1, <2>2 DEF Table!Ignore, Table!Known, Table!Unheard
  <2>4. QED
    BY <1>1, <2>3 DEF Table!Next
<1>5. CASE Segfault
  BY <1>5 DEF Segfault, IInv, WellFormed, CanFree
<1>6. CASE NoMemory(p)
  BY <1>6, Facts, HeapHasRoom DEF NoMemory
<1>7. QED
  BY <1>1, <1>2, <1>3, <1>4, <1>5, <1>6 DEF add

LEMMA RecvFailsIsTableStep ==
  ASSUME RecvFails
  PROVE  Table!Next \/ UNCHANGED Table!tableVars
<1>1. Ages' = Ages /\ UNCHANGED target
  BY AgesStay DEF RecvFails, listVars
<1>2. CASE queue' = queue
  BY <1>1, <1>2 DEF Table!tableVars
<1>3. CASE queue # <<>> /\ queue' = Tail(queue)
  BY <1>1, <1>3 DEF Table!Lose, Table!Next
<1>4. QED
  BY <1>2, <1>3 DEF RecvFails

LEMMA CleanIsTableStep ==
  ASSUME IInv, Picking, Tabled, Tabled', ~shifted', Clean
  PROVE  Table!Next \/ UNCHANGED Table!tableVars
<1>1. target = NoPeer /\ UNCHANGED <<queue, target>>
  BY DEF Clean, Picking
<1>2. CASE Expire
  <2>1. PICK p \in Peer : Ages[p] > TIMEOUT /\ Ages' = [Ages EXCEPT ![p] = -1]
    BY <1>2, ExpireDrops
  <2>2. Table!Drop(p)
    BY <1>1, <2>1 DEF Table!Drop, Table!Unheard
  <2>3. QED
    BY <2>2 DEF Table!Next
<1>3. CASE DoubleFree \/ Keep \/ CleanStart \/ CleanEnd
  BY <1>1, <1>3, AgesStay DEF DoubleFree, Keep, CleanStart, CleanEnd, Table!tableVars
<1>4. QED
  BY <1>2, <1>3 DEF Clean, CleanStep

LEMMA ChooseIsTableStep ==
  ASSUME IInv, Picking, Tabled, ~shifted, Choose
  PROVE  Table!Next \/ UNCHANGED Table!tableVars
<1>1. target = NoPeer /\ Ages' = Ages /\ UNCHANGED queue
  BY AgesStay DEF Choose, Picking, listVars
<1>2. CASE option = 0
  BY <1>1, <1>2 DEF Choose, Table!tableVars
<1>3. CASE option # 0
  <2>1. target' \in Peer /\ Ages[target'] # -1
    BY <1>3, ChoosePicks
  <2>2. Table!Pick(target')
    BY <1>1, <2>1 DEF Table!Pick, Table!Known, Table!Unheard
  <2>3. QED
    BY <2>1, <2>2 DEF Table!Next
<1>4. QED
  BY <1>2, <1>3

LEMMA AcceptedIsTableStep ==
  ASSUME Picking, ~shifted, Accepted
  PROVE  Table!Next
<1>1. target # NoPeer /\ UNCHANGED <<queue, target>>
  BY LoopAssumption DEF Accepted, Picking
<1>2. list' = <<>> /\ 1..Len(list') = {}
  BY DEF Accepted, list_free
<1>3. \A p \in Peer : AgeOf(p)' = -1
  BY <1>2 DEF AgeOf, Listed
<1>4. Ages' = [p \in Peer |-> -1]
  BY <1>3 DEF Ages
<1>5. Table!Forget
  BY <1>1, <1>4 DEF Table!Forget, Table!Unheard
<1>6. QED
  BY <1>5 DEF Table!Next

LEMMA TickIsTableStep ==
  ASSUME IInv, Picking, Tabled, Tabled', Tick
  PROVE  Table!Next
<1>1. target = NoPeer /\ UNCHANGED <<queue, target>>
  BY DEF Tick, Running, Picking
<1>2. Table!Second
  BY <1>1, TickAges DEF Table!Second, Table!Unheard
<1>3. QED
  BY <1>2 DEF Table!Next

\* No step ever takes back that a gap was closed.
LEMMA ShiftedStays ==
  ASSUME [Next]_vars, ~shifted'
  PROVE  ~shifted
<1>1. CASE Recv
  BY <1>1 DEF Recv, add, Refresh, Insert, NoMemory, Full, Segfault
<1>2. CASE Clean
  BY <1>2 DEF Clean, CleanStep, CleanStart, CleanEnd, Expire, DoubleFree, Keep
<1>3. CASE Answer
  BY <1>3 DEF Answer, Accepted, Refused, list_free, listVars
<1>4. CASE Tick
  BY <1>4 DEF Tick, Age
<1>5. CASE UNCHANGED listVars
  BY <1>5 DEF listVars
<1>6. QED
  BY <1>1, <1>2, <1>3, <1>4, <1>5
     DEF Next, Loop, RecvFails, SelectTimeout, Draw, KeyUp, KeyDown, OtherKey, Move,
         KeyEnter, Choose, Broadcast, Switch, Ended, vars

LEMMA BroadcastIsTableStep ==
  ASSUME NEW p \in Peer, Broadcast(p)
  PROVE  Table!Next
<1>1. Table!Arrive(p)
  BY AgesStay DEF Broadcast, listVars, Table!Arrive
<1>2. QED
  BY <1>1 DEF Table!Next

LEMMA TableStep ==
  ASSUME IInv, Picking, [Next]_vars, ~shifted', Tabled, Tabled'
  PROVE  Table!Next \/ UNCHANGED Table!tableVars
<1>1. ~shifted
  BY ShiftedStays
<1>2. CASE Recv
  BY <1>1, <1>2, RecvIsTableStep
<1>3. CASE Clean
  BY <1>3, CleanIsTableStep
<1>4. CASE Choose
  BY <1>1, <1>4, ChooseIsTableStep
<1>5. CASE Accepted
  BY <1>1, <1>5, AcceptedIsTableStep
<1>6. CASE Tick
  BY <1>6, TickIsTableStep
<1>7. CASE \E p \in Peer : Broadcast(p)
  BY <1>7, BroadcastIsTableStep
<1>8. CASE UNCHANGED <<listVars, queue, target>>
  BY <1>8, AgesStay DEF listVars, Table!tableVars
<1>9. CASE RecvFails
  BY <1>9, RecvFailsIsTableStep
<1>10. QED
  BY <1>2, <1>3, <1>4, <1>5, <1>6, <1>7, <1>8, <1>9
     DEF Next, Loop, Answer, Refused, SelectTimeout, Draw, KeyUp, KeyDown, OtherKey,
         Move, KeyEnter, Switch, Ended, vars, loopVars

LEMMA InitTable == Init => Table!Init
<1> SUFFICES ASSUME Init PROVE Table!Init
  OBVIOUS
<1>1. 1..Len(list) = {}
  BY DEF Init, ListInit
<1>2. Ages = [p \in Peer |-> -1]
  BY <1>1 DEF Ages, AgeOf, Listed
<1>3. QED
  BY <1>2 DEF Init, Table!Init, Table!Unheard

\* Until a gap is closed the list is a table of ages: each datagram makes its sender
\* as good as new or lists it exactly when there is room, only the silent are
\* dropped, and connect is given a peer that is listed.
THEOREM ListIsATable == Spec => TableSpec
<1>1. IInv /\ [Next]_vars /\ ~shifted' => Tabled /\ Tabled'
  <2>1. IInv /\ [Next]_vars => IInv'
    BY StepIInv
  <2>2. IInv' /\ ~shifted' => Tabled'
    BY AgesTabled, PTL
  <2>3. QED
    BY <2>1, <2>2, AgesTabled, ShiftedStays
<1>2. IInv /\ Picking /\ [Next]_vars => [~shifted' => Table!Next]_Table!tableVars
  BY <1>1, TableStep
<1>3. Spec => []Picking
  BY InitPicking, PickingStep, Invariant, PTL DEF Spec
<1>4. Spec => Table!Init
  BY InitTable DEF Spec
<1>5. QED
  BY <1>2, <1>3, <1>4, Invariant, PTL DEF Spec, TableSpec
=============================================================================
