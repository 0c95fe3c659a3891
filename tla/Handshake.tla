----------------------------- MODULE Handshake -----------------------------
(***************************************************************************)
(* From the connection of a listening ztransfer to the answer of the       *)
(* broadcasting user: the accepting half of discovery with make_choice,    *)
(* and the end of listen_to_discovery in every listener that chose this    *)
(* broadcaster.                                                            *)
(*                                                                         *)
(* Each connection is two queues of bytes.  The length of a name and the   *)
(* answer are ints in network order: all their bytes but the last are 0,   *)
(* which is also what ends a name.                                         *)
(***************************************************************************)
EXTENDS Integers, Sequences, FiniteSets

CONSTANTS
  Listener,    \* the processes that may choose this broadcaster
  NoOne,
  MAX_NAME,    \* the buffer of a host name, with its end
  NameLen,     \* bytes of each listener's host name
  INT,         \* sizeof(int)
  Backlog,     \* connections that wait for accept: one more than listen asks
  KeyCap,      \* bound on the keys typed and not read yet
  Conditions   \* the circumstances a behaviour may be in: see cond

ASSUME HandshakeAssumption ==
  /\ NoOne \notin Listener
  /\ INT \in Nat /\ INT >= 2
  /\ MAX_NAME \in Nat /\ MAX_NAME > INT
  /\ NameLen \in [Listener -> 1..MAX_NAME-1]
  /\ Backlog \in Nat \ {0} /\ KeyCap \in Nat \ {0}
  /\ Conditions \subseteq [who : SUBSET Listener, short : BOOLEAN,
                            killed : SUBSET {"broadcaster", "listener"}]

VARIABLES
  cond,     \* chosen by Init and never changed: the listeners that take part,
            \* whether recv may return less than what was sent in one call, and
            \* whose process may be killed
  bpc,      \* where the broadcaster is: see BroadcasterStates
  cur,      \* the listener it accepted last
  bytes,    \* its count of the bytes of the length or the name
  len,      \* the length it parsed
  buf,      \* its buffer, which every recv fills from the start
  option,   \* the highlighted answer, 0 for accept
  keys,     \* keys typed and not read, whatever was on the screen then
  backlog,  \* connections that wait for accept
  lpc,      \* where each listener is: see ListenerStates
  up,       \* bytes on their way to the broadcaster
  down,     \* bytes on their way to each listener
  closed,   \* how the broadcaster's side of each connection stands
  answer    \* history: what the broadcaster answered

bVars == <<bpc, cur, bytes, len, buf, option, backlog>>
vars == <<cond, bVars, keys, lpc, up, down, closed, answer>>

BroadcasterStates == {"select", "len", "name", "ask", "key",
                      "send", "exit", "dead"}
ListenerStates == {"browse", "len", "name", "wait",
                   "receive", "rejected", "failed", "dead"}

NUL == <<"nul">>
ONE == <<"one">>
NameByte(l, j) == <<"name", l, j>>
LengthByte(l) == <<"len", l>>
Byte == {NUL, ONE} \cup {LengthByte(l) : l \in Listener}
          \cup UNION {{NameByte(l, j) : j \in 0..NameLen[l]-1} : l \in Listener}

\* htonl of a small number: zeros and the number.
NetInt(last) == [i \in 1..INT |-> IF i = INT THEN last ELSE NUL]
Name(l) == [i \in 1..NameLen[l] |-> NameByte(l, i-1)]

TypeOK ==
  /\ cond \in Conditions
  /\ bpc \in BroadcasterStates
  /\ cur \in Listener \cup {NoOne}
  /\ bytes \in 0..MAX_NAME-1
  /\ len \in 0..MAX_NAME-1
  /\ buf \in [0..MAX_NAME-1 -> Byte]
  /\ option \in {0, 1}
  /\ keys \in Seq({"move", "enter"})
  /\ Len(keys) <= KeyCap
  /\ backlog \in Seq(Listener) /\ Len(backlog) <= Backlog
  /\ lpc \in [Listener -> ListenerStates]
  /\ up \in [Listener -> Seq(Byte)]
  /\ down \in [Listener -> Seq(Byte)]
  /\ closed \in [Listener -> {"open", "fin", "rst"}]
  /\ answer \in [Listener -> {"none", "yes", "no"}]

Init ==
  /\ cond \in Conditions
  /\ bpc = "select" /\ cur = NoOne
  /\ bytes = 0 /\ len = 0 /\ option = 0
  /\ buf = [i \in 0..MAX_NAME-1 |-> NUL]
  /\ keys = <<>> /\ backlog = <<>>
  /\ lpc = [l \in Listener |-> "browse"]
  /\ up = [l \in Listener |-> <<>>]
  /\ down = [l \in Listener |-> <<>>]
  /\ closed = [l \in Listener |-> "open"]
  /\ answer = [l \in Listener |-> "none"]

\* How many bytes a recv that asks for `want' may return.
Reads(want, queue) ==
  LET most == IF want < Len(queue) THEN want ELSE Len(queue)
  IN  IF cond.short THEN 1..most ELSE {most} \ {0}

Waiting == {backlog[i] : i \in 1..Len(backlog)}

\* Closing the listening socket resets the connections nobody accepted.
ResetWaiting(how) == [l \in Listener |-> IF l \in Waiting THEN "rst" ELSE how[l]]

\* Mutant: the connection is reset instead of closed.
CloseResets(l) == [closed EXCEPT ![l] = "rst"]

\* Closing a connection with unread bytes resets it.
Close(l) == [closed EXCEPT ![l] = IF up[l] = <<>> THEN "fin" ELSE "rst"]

(***************************************************************************)
(* The broadcaster: one iteration of its loop from select to getch.        *)
(***************************************************************************)
Accept ==
  /\ bpc = "select"
  /\ backlog # <<>>
  /\ cur' = Head(backlog)
  /\ backlog' = Tail(backlog)
  /\ bytes' = 0
  /\ bpc' = "len"
  /\ UNCHANGED <<cond, len, buf, option, keys, lpc, up, down, closed, answer>>

NoConnection ==
  /\ bpc = "select"
  /\ backlog = <<>>
  /\ bpc' = "key"
  /\ UNCHANGED <<cond, cur, bytes, len, buf, option, backlog, keys, lpc, up, down,
                 closed, answer>>

Stored(k) == [i \in 0..MAX_NAME-1 |-> IF i < k THEN up[cur][i+1] ELSE buf[i]]
Taken(k) == [up EXCEPT ![cur] = SubSeq(@, k+1, Len(@))]

\* The number the first INT bytes are; any that the buffer has room for, once they
\* are not in their places.
LengthsIn(b) ==
  LET whole == {l \in Listener : \A i \in 1..INT : b[i-1] = NetInt(LengthByte(l))[i]}
  IN  IF whole # {} THEN {NameLen[l] : l \in whole} ELSE 0..MAX_NAME-1

\* Mutant: the count of the length is not set back to 0 before the name.
RecvLenKeepsCount ==
  /\ bpc = "len"
  /\ \E k \in Reads(INT - bytes, up[cur]) :
       /\ buf' = Stored(k)
       /\ up' = Taken(k)
       /\ bytes' = bytes + k
       /\ IF bytes + k < INT
            THEN UNCHANGED <<bpc, len>>
            ELSE len' \in LengthsIn(buf') /\ bpc' = "name"
  /\ UNCHANGED <<cond, cur, option, backlog, keys, lpc, down, closed, answer>>

RecvLen ==
  /\ bpc = "len"
  /\ \E k \in Reads(INT - bytes, up[cur]) :
       /\ buf' = Stored(k)
       /\ up' = Taken(k)
       /\ IF bytes + k < INT
            THEN bytes' = bytes + k /\ UNCHANGED <<bpc, len>>
            ELSE /\ len' \in LengthsIn(buf')
                 /\ bytes' = 0
                 /\ bpc' = "name"
  /\ UNCHANGED <<cond, cur, option, backlog, keys, lpc, down, closed, answer>>

RecvName ==
  /\ bpc = "name"
  /\ bytes # len
  /\ \E k \in Reads(len - bytes, up[cur]) :
       /\ buf' = Stored(k)
       /\ up' = Taken(k)
       /\ bytes' = bytes + k
  /\ UNCHANGED <<cond, bpc, cur, len, option, backlog, keys, lpc, down, closed,
                 answer>>

\* recv returns 0: the count stays and the loop calls again.
RecvEof ==
  /\ bpc = "len" \/ (bpc = "name" /\ bytes # len)
  /\ lpc[cur] = "dead"
  /\ up[cur] = <<>>
  /\ UNCHANGED vars

\* The name is terminated and shown, and make_choice begins with "accept".
Prompt ==
  /\ bpc = "name"
  /\ bytes = len
  /\ buf' = [buf EXCEPT ![len] = NUL]
  /\ option' = 0
  /\ bpc' = "ask"
  /\ UNCHANGED <<cond, cur, bytes, len, backlog, keys, lpc, up, down, closed, answer>>

\* Mutant: the highlight does not wrap around.
MovePastEnd ==
  /\ bpc = "ask"
  /\ keys # <<>> /\ Head(keys) = "move"
  /\ keys' = Tail(keys)
  /\ option' = option + 1
  /\ UNCHANGED <<cond, bpc, cur, bytes, len, buf, backlog, lpc, up, down, closed,
                 answer>>

\* make_choice on an arrow.
Move ==
  /\ bpc = "ask"
  /\ keys # <<>> /\ Head(keys) = "move"
  /\ keys' = Tail(keys)
  /\ option' = (option + 1) % 2
  /\ UNCHANGED <<cond, bpc, cur, bytes, len, buf, backlog, lpc, up, down, closed,
                 answer>>

Answer(says, last) ==
  /\ bpc = "ask"
  /\ keys # <<>> /\ Head(keys) = "enter"
  /\ keys' = Tail(keys)
  /\ answer' = [answer EXCEPT ![cur] = says]
  /\ down' = [down EXCEPT ![cur] = @ \o NetInt(last)]
  /\ UNCHANGED <<cond, cur, bytes, len, buf, option, lpc, up>>

\* Mutant: the loop goes on after an acceptance.
AnswerYesGoesOn ==
  /\ option = 0
  /\ Answer("yes", ONE)
  /\ bpc' = "key"
  /\ UNCHANGED <<cond, closed, backlog>>

\* Accepted: the loop ends, the listening socket is closed, sending begins.
AnswerYes ==
  /\ option = 0
  /\ Answer("yes", ONE)
  /\ bpc' = "send"
  /\ closed' = ResetWaiting(closed)
  /\ backlog' = <<>>

\* Mutant: a refused connection is closed without an answer.
AnswerNoSilent ==
  /\ bpc = "ask"
  /\ option # 0
  /\ keys # <<>> /\ Head(keys) = "enter"
  /\ keys' = Tail(keys)
  /\ answer' = [answer EXCEPT ![cur] = "no"]
  /\ bpc' = "key"
  /\ closed' = Close(cur)
  /\ UNCHANGED <<cond, cur, bytes, len, buf, option, lpc, up, down, backlog>>

AnswerNo ==
  /\ option # 0
  /\ Answer("no", NUL)
  /\ bpc' = "key"
  /\ closed' = Close(cur)
  /\ UNCHANGED backlog

\* getch of the loop: Enter is on "Cancel", nothing else is looked at.
KeyCancel ==
  /\ bpc = "key"
  /\ keys # <<>> /\ Head(keys) = "enter"
  /\ keys' = Tail(keys)
  /\ bpc' = "exit"
  /\ closed' = ResetWaiting(closed)
  /\ backlog' = <<>>
  /\ UNCHANGED <<cond, cur, bytes, len, buf, option, lpc, up, down, answer>>

KeyOther ==
  /\ bpc = "key"
  /\ keys # <<>> /\ Head(keys) # "enter"
  /\ keys' = Tail(keys)
  /\ bpc' = "select"
  /\ UNCHANGED <<cond, cur, bytes, len, buf, option, backlog, lpc, up, down, closed,
                 answer>>

\* Mutant: the timeout that make_choice switched off is not set again.
KeyTimeoutNever ==
  /\ bpc = "key"
  /\ keys = <<>>
  /\ cur = NoOne
  /\ bpc' = "select"
  /\ UNCHANGED <<cond, cur, bytes, len, buf, option, backlog, keys, lpc, up, down,
                 closed, answer>>

\* getch returns ERR after 100 milliseconds.
KeyTimeout ==
  /\ bpc = "key"
  /\ keys = <<>>
  /\ bpc' = "select"
  /\ UNCHANGED <<cond, cur, bytes, len, buf, option, backlog, keys, lpc, up, down,
                 closed, answer>>

Broadcaster ==
  Accept \/ NoConnection \/ RecvLen \/ RecvName \/ RecvEof \/ Prompt
    \/ Move \/ AnswerYes \/ AnswerNo \/ KeyCancel \/ KeyOther \/ KeyTimeout

(***************************************************************************)
(* A listener, once its user chose this broadcaster.                       *)
(***************************************************************************)
Listening == bpc \notin {"send", "exit", "dead"}

Connect(l) ==
  /\ l \in cond.who
  /\ lpc[l] = "browse"
  /\ Listening
  /\ Len(backlog) < Backlog
  /\ backlog' = Append(backlog, l)
  /\ lpc' = [lpc EXCEPT ![l] = "len"]
  /\ UNCHANGED <<cond, bpc, cur, bytes, len, buf, option, keys, up, down, closed,
                 answer>>

\* Refused, or not answered because the backlog is full.
ConnectFails(l) ==
  /\ l \in cond.who
  /\ lpc[l] = "browse"
  /\ ~Listening \/ Len(backlog) = Backlog
  /\ lpc' = [lpc EXCEPT ![l] = "failed"]
  /\ UNCHANGED <<cond, bVars, keys, up, down, closed, answer>>

\* send succeeds unless a reset is known; what is sent to a process that is gone
\* provokes one.
SendTo(l, from, to, msg) ==
  /\ lpc[l] = from
  /\ IF closed[l] = "rst"
       THEN lpc' = [lpc EXCEPT ![l] = "failed"] /\ UNCHANGED <<up, closed>>
       ELSE /\ lpc' = [lpc EXCEPT ![l] = to]
            /\ up' = [up EXCEPT ![l] = @ \o msg]
            /\ \/ UNCHANGED closed
               \/ closed[l] = "fin" /\ closed' = [closed EXCEPT ![l] = "rst"]
  /\ UNCHANGED <<cond, bVars, keys, down, answer>>

SendLen(l) == SendTo(l, "len", "name", NetInt(LengthByte(l)))
SendName(l) == SendTo(l, "name", "wait", Name(l))

\* Mutant: a piece of an answer is taken for an acceptance.
RecvReplyPieceAccepts(l) ==
  /\ lpc[l] = "wait"
  /\ \E k \in Reads(INT, down[l]) :
       /\ lpc' = [lpc EXCEPT ![l] =
                    IF k < INT \/ down[l][INT] # NUL THEN "receive" ELSE "rejected"]
       /\ down' = [down EXCEPT ![l] = SubSeq(@, k+1, Len(@))]
  /\ UNCHANGED <<cond, bVars, keys, up, closed, answer>>

\* recv into name_len, which holds the length of the name in host order: its
\* first byte alone is not 0, so a piece of an answer leaves 0 whatever it is.
RecvReply(l) ==
  /\ lpc[l] = "wait"
  /\ \E k \in Reads(INT, down[l]) :
       /\ lpc' = [lpc EXCEPT ![l] =
                    IF k = INT /\ down[l][INT] # NUL THEN "receive" ELSE "rejected"]
       /\ down' = [down EXCEPT ![l] = SubSeq(@, k+1, Len(@))]
  /\ UNCHANGED <<cond, bVars, keys, up, closed, answer>>

\* recv returns 0: name_len still holds the length, which is not 0.
ReplyEof(l) ==
  /\ lpc[l] = "wait"
  /\ down[l] = <<>> /\ closed[l] = "fin"
  /\ lpc' = [lpc EXCEPT ![l] = "receive"]
  /\ UNCHANGED <<cond, bVars, keys, up, down, closed, answer>>

ReplyError(l) ==
  /\ lpc[l] = "wait"
  /\ closed[l] = "rst"
  /\ lpc' = [lpc EXCEPT ![l] = "failed"]
  /\ UNCHANGED <<cond, bVars, keys, up, down, closed, answer>>

Request(l) ==
  SendLen(l) \/ SendName(l) \/ RecvReply(l) \/ ReplyEof(l) \/ ReplyError(l)

(***************************************************************************)
(* The broadcasting user and the end of processes.                         *)
(***************************************************************************)
Type(k) ==
  /\ Listening
  /\ Len(keys) < KeyCap
  /\ keys' = Append(keys, k)
  /\ UNCHANGED <<cond, bVars, lpc, up, down, closed, answer>>

TypeAnswer == bpc = "ask" /\ Type("enter")

KillBroadcaster ==
  /\ "broadcaster" \in cond.killed
  /\ Listening
  /\ bpc' = "dead"
  /\ closed' = ResetWaiting(IF bpc \in {"len", "name", "ask"} THEN Close(cur)
                                                             ELSE closed)
  /\ backlog' = <<>>
  /\ UNCHANGED <<cond, cur, bytes, len, buf, option, keys, lpc, up, down, answer>>

KillListener(l) ==
  /\ "listener" \in cond.killed
  /\ lpc[l] \in {"len", "name", "wait"}
  /\ lpc' = [lpc EXCEPT ![l] = "dead"]
  /\ UNCHANGED <<cond, bVars, keys, up, down, closed, answer>>

Settled(l) == lpc[l] \in {"receive", "rejected", "failed", "dead"}

Ended ==
  /\ ~Listening
  /\ \A l \in cond.who : Settled(l)
  /\ UNCHANGED vars

Next ==
  \/ Broadcaster
  \/ \E l \in Listener : Connect(l) \/ ConnectFails(l) \/ Request(l)
  \/ \E k \in {"move", "enter"} : Type(k)
  \/ KillBroadcaster
  \/ \E l \in Listener : KillListener(l)
  \/ Ended

Spec == Init /\ [][Next]_vars

\* The processes are scheduled, and a user who is asked presses Enter some time,
\* however many arrows come before it.
FairSpec ==
  /\ Spec
  /\ WF_vars(Broadcaster)
  /\ \A l \in Listener : WF_vars(Request(l))
  /\ SF_vars(TypeAnswer)

(***************************************************************************)
(* Properties.                                                             *)
(***************************************************************************)

\* The name in "... is trying to connect" is the name of the process whose
\* connection the answer will go to, and nothing of an earlier name or length,
\* when each recv returns what one send sent.
NameShown ==
  bpc = "ask" /\ ~cond.short =>
    /\ \A j \in 0..NameLen[cur]-1 : buf[j] = NameByte(cur, j)
    /\ buf[NameLen[cur]] = NUL

\* A listener goes on to receive only when the broadcasting user accepted it,
\* and says it was rejected only when it was.
AnswerBelieved ==
  \A l \in Listener :
    /\ lpc[l] = "receive" => answer[l] = "yes"
    /\ lpc[l] = "rejected" => answer[l] = "no"

\* That much holds while nobody is killed and recv returns what send sent.
CalmAnswerBelieved == cond.killed = {} /\ ~cond.short => AnswerBelieved

\* Whose name the user is shown: the listener whose whole name is in the buffer.
NameIn(l) ==
  /\ \A j \in 0..NameLen[l]-1 : buf[j] = NameByte(l, j)
  /\ buf[NameLen[l]] = NUL

Asked == IF bpc = "ask" THEN CHOOSE l \in Listener : NameIn(l) ELSE NoOne

Outcome ==
  [l \in Listener |->
     IF lpc[l] \in {"receive", "rejected", "failed"} THEN lpc[l] ELSE "none"]

Promise == INSTANCE Consent WITH
  open <- Listening, asked <- Asked, verdict <- answer, outcome <- Outcome

\* In the same circumstances the two programs do what Consent promises: the answer
\* goes to the listener whose name is on the screen, everybody is asked about and
\* answered at most once, nobody after one was accepted, and whoever was answered
\* comes to know that answer and never fails instead.
ConsentSpec ==
  (cond.killed = {} /\ ~cond.short => Promise!Init)
    /\ [][cond.killed = {} /\ ~cond.short => Promise!Next]_Promise!consentVars

\* When recv returns pieces and processes are killed a refusal is still never
\* taken for an acceptance ...
RefusalBelieved ==
  \A l \in Listener : lpc[l] = "receive" => answer[l] # "no"

\* ... and while the broadcaster lives, nobody goes on to receive but the one
\* listener it sends to: not those it refused before, nor those in its backlog.
OneReceiver ==
  \A l \in Listener :
    lpc[l] = "receive" => bpc = "dead" \/ (bpc = "send" /\ cur = l)

\* A connection that was established comes to an outcome, also when it waits
\* behind others, while the broadcaster goes on, cancels or accepts another.
RequestsSettle ==
  \A l \in Listener : lpc[l] \in {"len", "name", "wait"} ~> Settled(l)

\* The same when no listener is killed before its name came.
CalmRequestsSettle ==
  \A l \in Listener :
    cond.killed = {} /\ lpc[l] \in {"len", "name", "wait"} ~> Settled(l)
=============================================================================
