----------------------------- MODULE ListenLoop -----------------------------
(***************************************************************************)
(* listen_to_discovery up to the connection: the loop that receives the    *)
(* broadcasts of the peers, cleans and draws the list and lets the user    *)
(* choose, with the peers and the network around it.                       *)
(***************************************************************************)
EXTENDS BroadcastList

CONSTANTS
  QueueCap,   \* datagrams the socket holds before it drops new ones
  NoPeer      \* nobody was chosen

ASSUME LoopAssumption == QueueCap \in Nat \ {0} /\ NoPeer \notin Peer

VARIABLES
  on,       \* which peers are broadcasting
  queue,    \* datagrams the socket holds
  lpc,      \* where the loop is: see LoopStates
  option,   \* the highlighted row, 0 for Cancel
  shown,    \* what was drawn last: the row in colour and the names below
  target,   \* the peer whose address connect was given
  ticked    \* whether a second passed since the loop began its iteration

loopVars == <<on, queue, lpc, option, shown, target, ticked>>
vars == <<listVars, loopVars>>

LoopStates == {"select", "clean", "draw", "key", "chosen", "connect",
               "receive", "exit"}

TypeOK ==
  /\ ListTypeOK
  /\ on \in [Peer -> BOOLEAN]
  /\ queue \in Seq(Peer) /\ Len(queue) <= QueueCap
  /\ lpc \in LoopStates
  /\ option \in 0..MAX_PEERS
  /\ shown \in [cursor : 0..MAX_PEERS, rows : Seq(Peer \cup {Freed})]
  /\ target \in Peer \cup {NoPeer, Freed}
  /\ ticked \in BOOLEAN

Init ==
  /\ ListInit
  /\ on = [p \in Peer |-> FALSE]
  /\ queue = <<>>
  /\ lpc = "select"
  /\ option = 0
  /\ shown = [cursor |-> 0, rows |-> <<>>]
  /\ target = NoPeer
  /\ ticked = FALSE

Running == alive /\ lpc \notin {"receive", "exit"}

(***************************************************************************)
(* The loop.                                                               *)
(***************************************************************************)

\* select reports the socket readable: recvfrom, a name for the datagram, add.
Recv ==
  /\ lpc = "select"
  /\ queue # <<>>
  /\ add(Head(queue))
  /\ queue' = Tail(queue)
  /\ lpc' = "clean"
  /\ UNCHANGED <<on, option, shown, target, ticked>>

\* recvfrom fails, with the datagram it could not deliver or without one: the
\* loop begins again, past clean, the drawing and the keyboard.
RecvFails ==
  /\ lpc = "select"
  /\ alive
  /\ queue' = queue \/ (queue # <<>> /\ queue' = Tail(queue))
  /\ ticked' = FALSE
  /\ UNCHANGED <<listVars, on, lpc, option, shown, target>>

\* Mutant: the list is cleaned only after a datagram.
SelectTimeoutSkipsClean ==
  /\ lpc = "select"
  /\ alive
  /\ queue = <<>>
  /\ lpc' = "draw"
  /\ UNCHANGED <<listVars, on, queue, option, shown, target, ticked>>

\* select times out.
SelectTimeout ==
  /\ lpc = "select"
  /\ alive
  /\ queue = <<>>
  /\ lpc' = "clean"
  /\ UNCHANGED <<listVars, on, queue, option, shown, target, ticked>>

Clean ==
  /\ lpc = "clean"
  /\ \/ CleanStart /\ UNCHANGED lpc
     \/ ci > 0 /\ CleanStep /\ UNCHANGED lpc
     \/ ci > 0 /\ CleanEnd /\ lpc' = "draw"
  /\ UNCHANGED <<on, queue, option, shown, target, ticked>>

\* draw_broadcasts with a given row in colour.
Drawn(cursor) ==
  [cursor |-> cursor, rows |-> [i \in 1..Len(list) |-> names[list[i].name]]]

\* Mutant: the cursor is compared one row too late.
DrawPastEnd ==
  /\ lpc = "draw"
  /\ alive
  /\ option' = IF option - 1 > Len(list) THEN Len(list) ELSE option
  /\ shown' = Drawn(option')
  /\ lpc' = "key"
  /\ UNCHANGED <<listVars, on, queue, target, ticked>>

\* The cursor is brought back into the list before the list is drawn.
Draw ==
  /\ lpc = "draw"
  /\ alive
  /\ option' = IF option - 1 >= Len(list) THEN Len(list) ELSE option
  /\ shown' = Drawn(option')
  /\ lpc' = "key"
  /\ UNCHANGED <<listVars, on, queue, target, ticked>>

\* Mutant: Enter moves the cursor first.
KeyEnterMoves ==
  /\ lpc = "key"
  /\ alive
  /\ option' = (option + 1) % (Len(list) + 1)
  /\ lpc' = "chosen"
  /\ UNCHANGED <<listVars, on, queue, shown, target, ticked>>

\* getch: the loop begins again after any key but Enter.
Move(o) ==
  /\ lpc = "key"
  /\ alive
  /\ option' = o
  /\ shown' = Drawn(o)
  /\ lpc' = "select"
  /\ ticked' = FALSE
  /\ UNCHANGED <<listVars, on, queue, target>>

KeyUp == Move((option - 1 + (Len(list) + 1)) % (Len(list) + 1))
KeyDown == Move((option + 1 + (Len(list) + 1)) % (Len(list) + 1))
OtherKey == Move(option)

KeyEnter ==
  /\ lpc = "key"
  /\ alive
  /\ lpc' = "chosen"
  /\ UNCHANGED <<listVars, on, queue, option, shown, target, ticked>>

\* The address the chosen entry points to; no key was read since Enter.
Choose ==
  /\ lpc = "chosen"
  /\ alive
  /\ IF option = 0
       THEN lpc' = "exit" /\ UNCHANGED target
       ELSE /\ lpc' = "connect"
            /\ target' = IF Live(option) THEN Heard(option) ELSE Freed
  /\ UNCHANGED <<listVars, on, queue, option, shown, ticked>>

\* The peer accepts: the list is freed and the transfer begins.
Accepted ==
  /\ lpc = "connect"
  /\ list_free
  /\ lpc' = "receive"
  /\ UNCHANGED <<on, queue, option, shown, target, ticked>>

\* connect fails or the peer rejects: the process exits.
Refused ==
  /\ lpc = "connect"
  /\ alive
  /\ lpc' = "exit"
  /\ UNCHANGED <<listVars, on, queue, option, shown, target, ticked>>

Loop ==
  Recv \/ RecvFails \/ SelectTimeout \/ Clean \/ Draw \/ KeyUp \/ KeyDown \/ OtherKey
    \/ KeyEnter \/ Choose

Answer == Accepted \/ Refused

(***************************************************************************)
(* The environment.                                                        *)
(***************************************************************************)

\* A datagram of a peer reaches the socket; one that is lost or dropped on a
\* full queue is no step.
Broadcast(p) ==
  /\ Running
  /\ on[p]
  /\ Len(queue) < QueueCap
  /\ queue' = Append(queue, p)
  /\ UNCHANGED <<listVars, on, lpc, option, shown, target, ticked>>

\* A peer starts or stops broadcasting.
Switch(p) ==
  /\ Running
  /\ on' = [on EXCEPT ![p] = ~@]
  /\ UNCHANGED <<listVars, queue, lpc, option, shown, target, ticked>>

\* A second passes: at most one per iteration, select and getch waiting no
\* longer than 10 and 100 milliseconds.
Tick ==
  /\ Running
  /\ ~ticked
  /\ lpc # "connect"
  /\ Age
  /\ ticked' = TRUE
  /\ UNCHANGED <<on, queue, lpc, option, shown, target>>

Ended == ~Running /\ UNCHANGED vars

Next ==
  \/ Loop
  \/ Answer
  \/ Tick
  \/ \E p \in Peer : Broadcast(p) \/ Switch(p)
  \/ Ended

Spec == Init /\ [][Next]_vars

\* The process is scheduled, select and getch time out, and time passes; recvfrom
\* does not fail every time for ever.  The chosen peer need not answer: the
\* connection has no timeout.
FairSpec ==
  /\ Spec
  /\ WF_vars(Loop)
  /\ WF_vars(Recv \/ SelectTimeout)
  /\ WF_vars(Tick)

(***************************************************************************)
(* Properties.                                                             *)
(***************************************************************************)

\* The row the code uses as an index is one of the list, however the list
\* shrank since the user moved there.
OptionInRange == lpc \in {"key", "chosen"} => option <= Len(list)

\* connect goes to the peer whose name was in colour when the user pressed
\* Enter.
ChosenWasShown ==
  ~shifted /\ lpc = "connect" =>
    \E i \in 1..Len(shown.rows) : i = shown.cursor /\ target = shown.rows[i]

\* Nobody is on the screen when a key is read who was silent for more than
\* TIMEOUT seconds and the one that may pass in an iteration.
ShownIsFresh ==
  ~shifted /\ lpc = "key" => \A i \in 1..Len(list) : list[i].age <= TIMEOUT + 1

Listed(p) == \E i \in 1..Len(list) : Live(i) /\ Heard(i) = p
Silent(p) ==
  \E i \in 1..Len(list) : Live(i) /\ Heard(i) = p /\ list[i].age > TIMEOUT

\* A peer leaves the list only for its silence, or with the whole list.
OnlySilentLeave ==
  [][~shifted' /\ lpc # "connect" =>
       \A p \in Peer : Listed(p) /\ ~Listed(p)' => Silent(p)]_vars

\* The same whatever was removed before.
LivePeersStay ==
  [][lpc # "connect" =>
       \A p \in Peer : Listed(p) /\ ~Listed(p)' => Silent(p)]_vars

AgeOf(p) ==
  IF Listed(p) THEN list[CHOOSE i \in 1..Len(list) : Live(i) /\ Heard(i) = p].age ELSE -1

Ages == [p \in Peer |-> AgeOf(p)]

Table == INSTANCE PeerTable WITH inbox <- queue, age <- Ages, picked <- target

\* The list keeps the promise of PeerTable, until an entry that is not the last was
\* removed: each datagram renews the age of its sender and of nobody else, or lists
\* it exactly when there is room for one more; whoever leaves was silent, and
\* connect is given a peer that is listed.
TableSpec == Table!Init /\ [][~shifted' => Table!Next]_Table!tableVars

Looping == alive /\ lpc \notin {"connect", "receive", "exit"}

\* A peer that stopped for good leaves the list for good while the loop runs.  It
\* is kept neither by a datagram of it that waited in the socket, nor by the gap a
\* removal leaves: the wrong memmove puts the address of the next entry, its
\* peer's, there, and the loop of clean passes over it, but the time in the gap is
\* the one that expired and the next pass takes it up.
StoppedPeersLeave ==
  \A p \in Peer : (<>[]~on[p]) => <>[](Looping => ~Listed(p))
=============================================================================
