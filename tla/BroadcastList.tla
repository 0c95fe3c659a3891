---------------------------- MODULE BroadcastList ----------------------------
(***************************************************************************)
(* broadcastlist.c: the peers a listening ztransfer has heard of.          *)
(*                                                                         *)
(* An entry points to two heap blocks, the address and the name of a peer, *)
(* and remembers when the peer was heard last.  Only time(NULL) minus that *)
(* time is ever used, so the entry holds its age in seconds, counted no    *)
(* further than AgeCap.                                                    *)
(*                                                                         *)
(* clean closes the gap an expired entry leaves with a memmove of          *)
(* size - i - 1 BYTES, fewer than the 8 of the addr pointer that an entry  *)
(* starts with.  So of the entry behind it the gap receives only the low   *)
(* bytes of that pointer; the name and the time stay the expired ones and  *)
(* the last entry of the list is dropped.                                  *)
(***************************************************************************)
EXTENDS Integers, Sequences, FiniteSets

CONSTANTS
  Peer,       \* the hosts that broadcast, one address and one name each
  MAX_PEERS,  \* capacity of the list
  TIMEOUT,    \* seconds of silence a peer may keep and stay listed
  Block,      \* heap blocks, of each of the two sizes
  Freed,      \* content of a block that is not allocated
  Wild        \* a pointer to no block

ASSUME ListAssumption ==
  /\ MAX_PEERS \in 1..8
  /\ TIMEOUT \in Nat
  /\ IsFiniteSet(Block)
  /\ Cardinality(Block) > MAX_PEERS
  /\ Freed \notin Peer
  /\ Wild \notin Block

AgeCap == TIMEOUT + 2

VARIABLES
  list,      \* the entries, in the order of the array
  addrs,     \* what each address block holds
  names,     \* what each name block holds
  ci,        \* the entry clean is looking at, 0 when clean is not running
  alive,     \* FALSE once the allocator or the MMU killed the process
  shifted,   \* history: clean removed an entry that was not the last one
  lost       \* history: add was given a name that it neither kept nor freed

listVars == <<list, addrs, names, ci, alive, shifted, lost>>

Entry == [addr : Block \cup {Wild}, name : Block, age : 0..AgeCap]

ListTypeOK ==
  /\ list \in Seq(Entry)
  /\ Len(list) <= MAX_PEERS
  /\ addrs \in [Block -> Peer \cup {Freed}]
  /\ names \in [Block -> Peer \cup {Freed}]
  /\ ci \in 0..MAX_PEERS + 1
  /\ alive \in BOOLEAN
  /\ shifted \in BOOLEAN
  /\ lost \in BOOLEAN

\* list_constructor
ListInit ==
  /\ list = <<>>
  /\ addrs = [b \in Block |-> Freed]
  /\ names = [b \in Block |-> Freed]
  /\ ci = 0
  /\ alive = TRUE
  /\ shifted = FALSE
  /\ lost = FALSE

(***************************************************************************)
(* add                                                                     *)
(***************************************************************************)
Live(i) == list[i].addr # Wild /\ addrs[list[i].addr] # Freed

\* check_broadcast_same on an entry: what a dangling pointer leads to may
\* look like any address.
Same(i, p) == Live(i) /\ addrs[list[i].addr] = p
MaybeSame(i, p) == ~Live(i) \/ Same(i, p)

NotBefore(i, p) == \A j \in 1..i-1 : ~Same(j, p)

OwnedAddr(b) == \E i \in 1..Len(list) : list[i].addr = b
OwnedName(b) == \E i \in 1..Len(list) : list[i].name = b

\* The name listen_to_discovery allocated for a datagram of p when add does not
\* store it: nobody frees it.  A block that nothing points to plays no part any
\* more and is only counted as lost; but malloc may also have returned the freed
\* block that the name of a damaged entry still leads to.
DropName(p) ==
  /\ lost' = TRUE
  /\ \/ UNCHANGED names
     \/ \E c \in Block : /\ names[c] = Freed /\ OwnedName(c)
                         /\ names' = [names EXCEPT ![c] = p]

\* Mutant: part of an address is compared.
RefreshAnother(p) ==
  /\ \E i \in 1..Len(list) : list' = [list EXCEPT ![i].age = 0]
  /\ DropName(p)
  /\ UNCHANGED <<addrs, ci, alive, shifted>>

\* A peer that is in the list: its time is renewed, and the name in the datagram
\* is dropped.
Refresh(p) ==
  /\ \E i \in 1..Len(list) :
       /\ MaybeSame(i, p)
       /\ NotBefore(i, p)
       /\ list' = [list EXCEPT ![i].age = 0]
  /\ DropName(p)
  /\ UNCHANGED <<addrs, ci, alive, shifted>>

\* Mutant: the capacity is checked with <=.
InsertPastEnd(p) ==
  /\ NotBefore(Len(list) + 1, p)
  /\ Len(list) <= MAX_PEERS
  /\ \E b, c \in Block :
       /\ addrs[b] = Freed /\ names[c] = Freed
       /\ addrs' = [addrs EXCEPT ![b] = p]
       /\ names' = [names EXCEPT ![c] = p]
       /\ list' = Append(list, [addr |-> b, name |-> c, age |-> 0])
  /\ UNCHANGED <<ci, alive, shifted, lost>>

\* A new peer while there is room: the address is copied to a block of its own,
\* the name is the one listen_to_discovery allocated.
Insert(p) ==
  /\ NotBefore(Len(list) + 1, p)
  /\ Len(list) < MAX_PEERS
  /\ \E b, c \in Block :
       /\ addrs[b] = Freed /\ names[c] = Freed
       /\ addrs' = [addrs EXCEPT ![b] = p]
       /\ names' = [names EXCEPT ![c] = p]
       /\ list' = Append(list, [addr |-> b, name |-> c, age |-> 0])
  /\ UNCHANGED <<ci, alive, shifted, lost>>

\* malloc finds no block for a new peer, the entries the memmove dropped having
\* used them up: strcpy or memcpy writes through the null pointer.
NoMemory(p) ==
  /\ NotBefore(Len(list) + 1, p)
  /\ Len(list) < MAX_PEERS
  /\ (\A b \in Block : addrs[b] # Freed) \/ (\A c \in Block : names[c] # Freed)
  /\ alive' = FALSE
  /\ UNCHANGED <<list, addrs, names, ci, shifted, lost>>

\* A new peer when the list is full is not remembered, and its name is dropped.
Full(p) ==
  /\ NotBefore(Len(list) + 1, p)
  /\ Len(list) = MAX_PEERS
  /\ DropName(p)
  /\ UNCHANGED <<list, addrs, ci, alive, shifted>>

\* Following a wild pointer may also end the process.
Segfault ==
  /\ \E i \in 1..Len(list) : list[i].addr = Wild
  /\ alive' = FALSE
  /\ UNCHANGED <<list, addrs, names, ci, shifted, lost>>

add(p) ==
  /\ alive /\ ci = 0
  /\ Refresh(p) \/ Insert(p) \/ NoMemory(p) \/ Full(p) \/ Segfault

(***************************************************************************)
(* clean: one action per iteration of its loop, which reads the clock anew *)
(* each time.                                                              *)
(***************************************************************************)
\* Mutants: the timeout is one second longer, or is compared with >=.
IsOldLate(e) == e.age > TIMEOUT + 1
IsOldEarly(e) == e.age >= TIMEOUT

is_old(e) == e.age > TIMEOUT

\* free aborts on a block that is not allocated.
CanFree(e) == names[e.name] # Freed /\ e.addr # Wild /\ addrs[e.addr] # Freed

\* The pointers the memmove may leave in the gap at i: its low bytes come from
\* the next entry, its high bytes are the old ones.
Spliced(i) ==
  IF i = Len(list) THEN {list[i].addr}
                   ELSE {list[i].addr, list[i+1].addr, Wild}

Removed(i, ptr) == SubSeq([list EXCEPT ![i].addr = ptr], 1, Len(list) - 1)

\* Mutants: the address is not freed; the entry stays in the list.
ExpireLeaks ==
  /\ ci \in 1..Len(list)
  /\ is_old(list[ci])
  /\ CanFree(list[ci])
  /\ names' = [names EXCEPT ![list[ci].name] = Freed]
  /\ \E ptr \in Spliced(ci) : list' = Removed(ci, ptr)
  /\ shifted' = (shifted \/ ci < Len(list))
  /\ ci' = ci + 1
  /\ UNCHANGED <<addrs, alive, lost>>

ExpireKeeps ==
  /\ ci \in 1..Len(list)
  /\ is_old(list[ci])
  /\ CanFree(list[ci])
  /\ names' = [names EXCEPT ![list[ci].name] = Freed]
  /\ addrs' = [addrs EXCEPT ![list[ci].addr] = Freed]
  /\ ci' = ci + 1
  /\ UNCHANGED <<list, alive, shifted, lost>>

Expire ==
  /\ ci \in 1..Len(list)
  /\ is_old(list[ci])
  /\ CanFree(list[ci])
  /\ names' = [names EXCEPT ![list[ci].name] = Freed]
  /\ addrs' = [addrs EXCEPT ![list[ci].addr] = Freed]
  /\ \E ptr \in Spliced(ci) : list' = Removed(ci, ptr)
  /\ shifted' = (shifted \/ ci < Len(list))
  /\ ci' = ci + 1
  /\ UNCHANGED <<alive, lost>>

DoubleFree ==
  /\ ci \in 1..Len(list)
  /\ is_old(list[ci])
  /\ ~CanFree(list[ci])
  /\ alive' = FALSE
  /\ UNCHANGED <<list, addrs, names, ci, shifted, lost>>

Keep ==
  /\ ci \in 1..Len(list)
  /\ ~is_old(list[ci])
  /\ ci' = ci + 1
  /\ UNCHANGED <<list, addrs, names, alive, shifted, lost>>

CleanStart ==
  /\ alive /\ ci = 0
  /\ ci' = 1
  /\ UNCHANGED <<list, addrs, names, alive, shifted, lost>>

CleanStep == alive /\ (Expire \/ DoubleFree \/ Keep)

CleanEnd ==
  /\ alive /\ ci > Len(list)
  /\ ci' = 0
  /\ UNCHANGED <<list, addrs, names, alive, shifted, lost>>

(***************************************************************************)
(* list_free, once the list is not needed any more: it frees what every    *)
(* entry points to and aborts on a block that is freed already.            *)
(***************************************************************************)
NoneShared ==
  \A i, j \in 1..Len(list) :
    i # j => list[i].addr # list[j].addr /\ list[i].name # list[j].name

list_free ==
  /\ alive /\ ci = 0
  /\ alive' = (NoneShared /\ \A i \in 1..Len(list) : CanFree(list[i]))
  /\ addrs' = [b \in Block |-> IF OwnedAddr(b) THEN Freed ELSE addrs[b]]
  /\ names' = [b \in Block |-> IF OwnedName(b) THEN Freed ELSE names[b]]
  /\ list' = <<>>
  /\ UNCHANGED <<ci, shifted, lost>>

\* A second passes.
Age ==
  /\ list' = [i \in 1..Len(list) |->
                [list[i] EXCEPT !.age = IF @ < AgeCap THEN @ + 1 ELSE @]]
  /\ UNCHANGED <<addrs, names, ci, alive, shifted, lost>>

(***************************************************************************)
(* Properties of the list by itself.                                       *)
(***************************************************************************)
Heard(i) == addrs[list[i].addr]

\* As long as no entry but the last was ever removed, each entry owns two
\* allocated blocks that no other entry points to, every block an entry ever took
\* over is either owned still or freed, the name is that of the peer at the
\* address, and a peer is listed once.  It does not say that nothing leaks: the
\* names no entry took over, those of every datagram of a listed peer and of every
\* new peer at a full list, do (DropName, lost).
WellFormed ==
  ~shifted =>
    /\ \A i \in 1..Len(list) : CanFree(list[i]) /\ names[list[i].name] = Heard(i)
    /\ NoneShared
    /\ \A i, j \in 1..Len(list) : i # j => Heard(i) # Heard(j)
    /\ \A b \in Block : addrs[b] # Freed => OwnedAddr(b)
    /\ \A b \in Block : names[b] # Freed => OwnedName(b)

\* ... and neither clean nor list_free frees a block twice.
NoDoubleFree == ~shifted => alive
=============================================================================
