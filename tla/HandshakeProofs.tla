-------------------------- MODULE HandshakeProofs --------------------------
(***************************************************************************)
(* The handshake keeps its types, and every listener believes what the     *)
(* broadcasting user answered as far as Handshake claims it does.          *)
(*                                                                         *)
(* The properties are about the end of a request; the invariant follows it *)
(* from the backlog on.  Requests: a listener is in the backlog once, and  *)
(* nobody there or before has an answer or a closed connection.  Answers:  *)
(* what is on its way to a listener that has not read yet is exactly what  *)
(* was answered to it, and only the one being sent to has a yes.  Names:   *)
(* while recv returns whole messages, the messages and the broadcaster's   *)
(* place in them agree.  Heard, at the end, is what the implementation of  *)
(* Consent needs besides: who was answered was heard out, and not reset.   *)
(***************************************************************************)
EXTENDS Handshake, SequenceTheorems, TLAPS

Asking == {"len", "name", "wait"}

Ranges ==
  /\ bpc = "len" => bytes < INT
  /\ bpc = "name" => bytes <= len
  /\ bpc \in {"len", "name", "ask", "send"} => cur \in Listener

Untouched(l) == answer[l] = "none" /\ closed[l] = "open" /\ cur # l

Requests ==
  /\ \A i, j \in 1..Len(backlog) : backlog[i] = backlog[j] => i = j
  /\ backlog # <<>> => Listening
  /\ \A l \in Listener : lpc[l] = "browse" => Untouched(l) /\ l \notin Waiting
  /\ \A l \in Waiting : Untouched(l)

Said(l) ==
  IF answer[l] = "none" THEN <<>>
                        ELSE NetInt(IF answer[l] = "yes" THEN ONE ELSE NUL)

Answers ==
  /\ bpc \in {"len", "name", "ask"} => answer[cur] = "none" /\ closed[cur] = "open"
  /\ \A l \in Listener :
       /\ lpc[l] \in {"browse"} \cup Asking => down[l] = Said(l)
       /\ answer[l] = "yes" => bpc = "send" /\ cur = l
       /\ closed[l] = "fin" => answer[l] = "no" \/ bpc = "dead"

Outcomes ==
  /\ bpc = "dead" => "broadcaster" \in cond.killed
  /\ \A l \in Listener :
       /\ lpc[l] = "receive" => answer[l] = "yes" \/ (answer[l] = "none" /\ bpc = "dead")
       /\ lpc[l] = "rejected" /\ ~cond.short => answer[l] = "no"

\* What a listener has sent, each message whole.
Sent(l) ==
  \/ lpc[l] \in {"browse", "len", "dead"} /\ up[l] = <<>>
  \/ lpc[l] \in {"name", "dead"} /\ up[l] = NetInt(LengthByte(l))
  \/ lpc[l] \in {"wait", "dead"} /\ up[l] = NetInt(LengthByte(l)) \o Name(l)

\* The same once the broadcaster has taken the length.
SentRest(l) ==
  \/ lpc[l] \in {"name", "dead"} /\ up[l] = <<>>
  \/ lpc[l] \in {"wait", "dead"} /\ up[l] = Name(l)

\* The broadcaster has read nothing from this listener.
Pending(l) == lpc[l] = "browse" \/ l \in Waiting \/ (bpc = "len" /\ cur = l)

NameInBuffer == \A j \in 0..NameLen[cur]-1 : buf[j] = NameByte(cur, j)

WholeNames ==
  ~cond.short =>
    /\ \A l \in Listener : Pending(l) => Sent(l)
    /\ bpc = "len" => bytes = 0
    /\ bpc = "name" =>
         /\ len = NameLen[cur]
         /\ \/ bytes = 0 /\ SentRest(cur)
            \/ bytes = len /\ lpc[cur] \in {"wait", "dead"} /\ NameInBuffer
    /\ bpc = "ask" => NameInBuffer /\ buf[NameLen[cur]] = NUL

Accord == Requests /\ Answers /\ Outcomes

IInv == TypeOK /\ Ranges /\ Accord /\ WholeNames

(***************************************************************************)
(* What is sent.                                                           *)
(***************************************************************************)

\* An int in network order is INT bytes, a name as many as the host name has.
LEMMA Messages ==
  /\ NUL \in Byte /\ ONE \in Byte /\ NUL # ONE
  /\ \A last \in Byte : /\ NetInt(last) \in Seq(Byte)
                        /\ Len(NetInt(last)) = INT
                        /\ \A i \in 1..INT : NetInt(last)[i] = IF i = INT THEN last ELSE NUL
  /\ \A l \in Listener : /\ LengthByte(l) \in Byte
                          /\ NameLen[l] \in 1..MAX_NAME-1
                          /\ Name(l) \in Seq(Byte)
                          /\ Len(Name(l)) = NameLen[l]
                          /\ \A i \in 1..NameLen[l] : Name(l)[i] = NameByte(l, i-1)
<1>1. NUL \in Byte /\ ONE \in Byte /\ NUL # ONE
  BY DEF NUL, ONE, Byte
<1>2. ASSUME NEW last \in Byte
      PROVE  /\ NetInt(last) \in Seq(Byte)
             /\ Len(NetInt(last)) = INT
             /\ \A i \in 1..INT : NetInt(last)[i] = IF i = INT THEN last ELSE NUL
  <2>1. INT \in Nat
    BY HandshakeAssumption
  <2>2. NetInt(last) \in [1..INT -> Byte]
    BY <1>1 DEF NetInt
  <2>3. QED
    BY <2>1, <2>2, SeqDef, LenProperties DEF NetInt
<1>3. ASSUME NEW l \in Listener
      PROVE  /\ LengthByte(l) \in Byte
             /\ NameLen[l] \in 1..MAX_NAME-1
             /\ Name(l) \in Seq(Byte)
             /\ Len(Name(l)) = NameLen[l]
             /\ \A i \in 1..NameLen[l] : Name(l)[i] = NameByte(l, i-1)
  <2>1. NameLen[l] \in 1..MAX_NAME-1
    BY HandshakeAssumption
  <2>2. LengthByte(l) \in Byte
    BY DEF Byte
  <2>3. \A i \in 1..NameLen[l] : i-1 \in 0..NameLen[l]-1
    BY <2>1, HandshakeAssumption
  <2>4. \A j \in 0..NameLen[l]-1 : NameByte(l, j) \in Byte
    BY DEF Byte
  <2>5. Name(l) \in [1..NameLen[l] -> Byte]
    BY <2>3, <2>4 DEF Name
  <2>6. NameLen[l] \in Nat
    BY <2>1, HandshakeAssumption
  <2>7. Name(l) \in Seq(Byte) /\ Len(Name(l)) = NameLen[l]
    BY <2>5, <2>6, SeqDef, LenProperties
  <2>8. \A i \in 1..NameLen[l] : Name(l)[i] = NameByte(l, i-1)
    BY DEF Name
  <2>9. QED
    BY <2>1, <2>2, <2>7, <2>8
<1>4. QED
  BY <1>1, <1>2, <1>3

\* A recv takes some bytes from the front of the connection, no more than it asks
\* for and, if messages come whole, no fewer than are there.
LEMMA RecvTakes ==
  ASSUME TypeOK, cur \in Listener,
         NEW want \in Nat, NEW k \in Reads(want, up[cur])
  PROVE  /\ k \in 1..want /\ k <= Len(up[cur])
         /\ ~cond.short => k = want \/ k = Len(up[cur])
         /\ \A i \in 0..k-1 : up[cur][i+1] \in Byte
         /\ Stored(k) \in [0..MAX_NAME-1 -> Byte]
         /\ Taken(k) \in [Listener -> Seq(Byte)]
         /\ \A l \in Listener :
              Taken(k)[l] = IF l = cur THEN SubSeq(up[l], k+1, Len(up[l])) ELSE up[l]
<1>1. up \in [Listener -> Seq(Byte)] /\ up[cur] \in Seq(Byte) /\ Len(up[cur]) \in Nat
  BY DEF TypeOK
<1>2. /\ k \in 1..want /\ k <= Len(up[cur])
      /\ ~cond.short => k = want \/ k = Len(up[cur])
  BY <1>1 DEF Reads
<1>3. \A i \in 0..k-1 : up[cur][i+1] \in Byte
  <2>1. \A i \in 0..k-1 : i+1 \in 1..Len(up[cur])
    BY <1>1, <1>2
  <2>2. QED
    BY <1>1, <2>1, ElementOfSeq
<1>4. Stored(k) \in [0..MAX_NAME-1 -> Byte]
  <2>1. \A i \in 0..MAX_NAME-1 : i < k => i \in 0..k-1
    BY <1>2
  <2>2. QED
    BY <1>3, <2>1 DEF Stored, TypeOK
<1>5. SubSeq(up[cur], k+1, Len(up[cur])) \in Seq(Byte)
  BY <1>1, <1>2, SubSeqProperties
<1>6. /\ Taken(k) \in [Listener -> Seq(Byte)]
      /\ \A l \in Listener :
           Taken(k)[l] = IF l = cur THEN SubSeq(up[l], k+1, Len(up[l])) ELSE up[l]
  BY <1>1, <1>5 DEF Taken
<1>7. QED
  BY <1>2, <1>3, <1>4, <1>6

\* The length a broadcaster finds is one its buffer has room for.
LEMMA LengthsFit ==
  ASSUME NEW b, NEW n \in LengthsIn(b)
  PROVE  n \in 0..MAX_NAME-1
BY Messages, HandshakeAssumption DEF LengthsIn

\* The first waiting listener is a listener; the others wait on.
LEMMA BacklogHead ==
  ASSUME TypeOK, backlog # <<>>
  PROVE  /\ Head(backlog) \in Listener /\ Head(backlog) = backlog[1]
         /\ Tail(backlog) \in Seq(Listener)
         /\ Len(backlog) \in 1..Backlog /\ Len(Tail(backlog)) = Len(backlog) - 1
         /\ \A i \in 1..Len(backlog)-1 : Tail(backlog)[i] = backlog[i+1]
<1>1. backlog \in Seq(Listener) /\ Len(backlog) <= Backlog
  BY DEF TypeOK
<1>2. Backlog \in Nat
  BY HandshakeAssumption
<1>3. Len(backlog) \in 1..Backlog
  BY <1>1, <1>2, EmptySeq, LenProperties
<1>4. QED
  BY <1>1, <1>3, HeadTailProperties

(***************************************************************************)
(* Types.                                                                  *)
(***************************************************************************)

LEMMA TypeStep ==
  ASSUME TypeOK, Ranges, [Next]_vars
  PROVE  TypeOK' /\ Ranges'
<1> USE DEF bVars, BroadcasterStates, ListenerStates
<1>1. INT \in Nat /\ INT >= 2 /\ MAX_NAME \in Nat /\ MAX_NAME > INT
  BY HandshakeAssumption
<1>2. keys # <<>> => Tail(keys) \in Seq({"move", "enter"}) /\ Len(Tail(keys)) <= KeyCap
  BY HandshakeAssumption, HeadTailProperties, EmptySeq DEF TypeOK
<1>3. ResetWaiting(closed) \in [Listener -> {"open", "fin", "rst"}]
  BY DEF ResetWaiting, TypeOK
<1>4. cur \in Listener => Close(cur) \in [Listener -> {"open", "fin", "rst"}]
  BY DEF Close, TypeOK
<1>5. CASE Accept
  <2>1. /\ cur' \in Listener
        /\ backlog' \in Seq(Listener) /\ Len(backlog') <= Backlog
    BY <1>5, HandshakeAssumption, BacklogHead DEF Accept
  <2>2. QED
    BY <1>1, <1>5, <2>1 DEF Accept, TypeOK, Ranges
<1>6. CASE NoConnection
  BY <1>6 DEF NoConnection, TypeOK, Ranges
<1>7. CASE RecvLen
  <2>1. cur \in Listener /\ bytes < INT /\ bytes \in Nat
    BY <1>7 DEF RecvLen, Ranges, TypeOK
  <2>2. PICK k \in Reads(INT - bytes, up[cur]) :
          /\ buf' = Stored(k)
          /\ up' = Taken(k)
          /\ IF bytes + k < INT
               THEN bytes' = bytes + k /\ UNCHANGED <<bpc, len>>
               ELSE len' \in LengthsIn(buf') /\ bytes' = 0 /\ bpc' = "name"
    BY <1>7 DEF RecvLen
  <2>3. INT - bytes \in Nat
    BY <1>1, <2>1
  <2>4. k \in 1..(INT - bytes)
    BY <2>1, <2>2, <2>3, RecvTakes
  <2>5. buf' \in [0..MAX_NAME-1 -> Byte] /\ up' \in [Listener -> Seq(Byte)]
    BY <2>1, <2>2, <2>3, RecvTakes
  <2>6. len' \in 0..MAX_NAME-1 /\ bytes' \in 0..MAX_NAME-1
    BY <1>1, <2>1, <2>2, <2>4, LengthsFit DEF TypeOK
  <2>7. Ranges'
    BY <1>1, <1>7, <2>1, <2>2, <2>4, <2>6 DEF Ranges, RecvLen
  <2>8. QED
    BY <1>7, <2>2, <2>5, <2>6, <2>7 DEF RecvLen, TypeOK
<1>8. CASE RecvName
  <2>1. cur \in Listener /\ bytes <= len /\ bytes \in Nat /\ len \in 0..MAX_NAME-1
    BY <1>8 DEF RecvName, Ranges, TypeOK
  <2>2. PICK k \in Reads(len - bytes, up[cur]) :
          buf' = Stored(k) /\ up' = Taken(k) /\ bytes' = bytes + k
    BY <1>8 DEF RecvName
  <2>3. len - bytes \in Nat
    BY <1>1, <2>1
  <2>4. k \in 1..(len - bytes)
    BY <2>1, <2>2, <2>3, RecvTakes
  <2>5. buf' \in [0..MAX_NAME-1 -> Byte] /\ up' \in [Listener -> Seq(Byte)]
    BY <2>1, <2>2, <2>3, RecvTakes
  <2>6. bytes' \in 0..MAX_NAME-1 /\ bytes' <= len
    BY <1>1, <2>1, <2>2, <2>4
  <2>7. QED
    BY <1>8, <2>5, <2>6 DEF RecvName, TypeOK, Ranges
<1>9. CASE RecvEof
  BY <1>9 DEF RecvEof, vars, TypeOK, Ranges
<1>10. CASE Prompt
  <2>1. buf' \in [0..MAX_NAME-1 -> Byte]
    BY <1>10, Messages DEF Prompt, TypeOK
  <2>2. QED
    BY <1>10, <2>1 DEF Prompt, TypeOK, Ranges
<1>11. CASE Move
  BY <1>2, <1>11 DEF Move, TypeOK, Ranges
<1>12. ASSUME NEW says \in {"yes", "no"}, NEW last \in {ONE, NUL}, Answer(says, last)
       PROVE  /\ answer' \in [Listener -> {"none", "yes", "no"}]
              /\ down' \in [Listener -> Seq(Byte)]
              /\ keys' \in Seq({"move", "enter"}) /\ Len(keys') <= KeyCap
              /\ cur \in Listener
  <2>1. cur \in Listener
    BY <1>12 DEF Answer, Ranges
  <2>2. down[cur] \o NetInt(last) \in Seq(Byte)
    BY <2>1, Messages, ConcatProperties DEF TypeOK
  <2>3. QED
    BY <1>2, <1>12, <2>1, <2>2 DEF Answer, TypeOK
<1>13. CASE AnswerYes
  <2>1. Answer("yes", ONE)
    BY <1>13 DEF AnswerYes
  <2>2. <<>> \in Seq(Listener) /\ Len(<<>>) <= Backlog
    BY HandshakeAssumption, EmptySeq
  <2>3. QED
    BY <1>3, <1>12, <1>13, <2>1, <2>2 DEF AnswerYes, Answer, TypeOK, Ranges
<1>14. CASE AnswerNo
  <2>1. Answer("no", NUL)
    BY <1>14 DEF AnswerNo
  <2>2. QED
    BY <1>4, <1>12, <1>14, <2>1 DEF AnswerNo, Answer, TypeOK, Ranges
<1>15. CASE KeyCancel
  <2>1. <<>> \in Seq(Listener) /\ Len(<<>>) <= Backlog
    BY HandshakeAssumption, EmptySeq
  <2>2. QED
    BY <1>2, <1>3, <1>15, <2>1 DEF KeyCancel, TypeOK, Ranges
<1>16. CASE KeyOther
  BY <1>2, <1>16 DEF KeyOther, TypeOK, Ranges
<1>17. CASE KeyTimeout
  BY <1>17 DEF KeyTimeout, TypeOK, Ranges
<1>18. ASSUME NEW l \in Listener, Connect(l)
       PROVE  TypeOK' /\ Ranges'
  <2>1. backlog' \in Seq(Listener) /\ Len(backlog') <= Backlog
    BY <1>18, HandshakeAssumption, AppendProperties DEF Connect, TypeOK
  <2>2. QED
    BY <1>18, <2>1 DEF Connect, TypeOK, Ranges
<1>19. ASSUME NEW l \in Listener, ConnectFails(l)
       PROVE  TypeOK' /\ Ranges'
  BY <1>19 DEF ConnectFails, TypeOK, Ranges
<1>20. ASSUME NEW l \in Listener, NEW to \in ListenerStates, NEW msg \in Seq(Byte),
              NEW from, SendTo(l, from, to, msg)
       PROVE  TypeOK' /\ Ranges'
  <2>1. up[l] \o msg \in Seq(Byte)
    BY ConcatProperties DEF TypeOK
  <2>2. QED
    BY <1>20, <2>1 DEF SendTo, TypeOK, Ranges
<1>21. ASSUME NEW l \in Listener, SendLen(l) \/ SendName(l)
       PROVE  TypeOK' /\ Ranges'
  BY <1>20, <1>21, Messages DEF SendLen, SendName
<1>22. ASSUME NEW l \in Listener, RecvReply(l)
       PROVE  TypeOK' /\ Ranges'
  <2>1. PICK k \in Reads(INT, down[l]) : down' = [down EXCEPT ![l] = SubSeq(@, k+1, Len(@))]
    BY <1>22 DEF RecvReply
  <2>2. down[l] \in Seq(Byte) /\ Len(down[l]) \in Nat
    BY DEF TypeOK
  <2>3. k \in Nat
    BY <1>1, <2>2 DEF Reads
  <2>4. SubSeq(down[l], k+1, Len(down[l])) \in Seq(Byte)
    BY <2>2, <2>3, SubSeqProperties
  <2>5. QED
    BY <1>22, <2>1, <2>4 DEF RecvReply, TypeOK, Ranges
<1>23. ASSUME NEW l \in Listener, ReplyEof(l) \/ ReplyError(l) \/ KillListener(l)
       PROVE  TypeOK' /\ Ranges'
  BY <1>23 DEF ReplyEof, ReplyError, KillListener, TypeOK, Ranges
<1>24. ASSUME NEW k \in {"move", "enter"}, Type(k)
       PROVE  TypeOK' /\ Ranges'
  <2>1. keys' \in Seq({"move", "enter"}) /\ Len(keys') <= KeyCap
    BY <1>24, HandshakeAssumption, AppendProperties DEF Type, TypeOK
  <2>2. QED
    BY <1>24, <2>1 DEF Type, TypeOK, Ranges
<1>25. CASE KillBroadcaster
  <2>1. <<>> \in Seq(Listener) /\ Len(<<>>) <= Backlog
    BY HandshakeAssumption, EmptySeq
  <2>2. closed' \in [Listener -> {"open", "fin", "rst"}]
    BY <1>25 DEF KillBroadcaster, ResetWaiting, Close, TypeOK
  <2>3. QED
    BY <1>25, <2>1, <2>2 DEF KillBroadcaster, TypeOK, Ranges
<1>26. CASE Ended \/ UNCHANGED vars
  BY <1>26 DEF Ended, vars, TypeOK, Ranges
<1>27. QED
  BY <1>5, <1>6, <1>7, <1>8, <1>9, <1>10, <1>11, <1>13, <1>14, <1>15, <1>16, <1>17,
     <1>18, <1>19, <1>21, <1>22, <1>23, <1>24, <1>25, <1>26
     DEF Next, Broadcaster, Request

(***************************************************************************)
(* Requests, answers and outcomes.                                         *)
(***************************************************************************)

Serving == {"len", "name", "ask"}

\* A step that answers, accepts, connects and settles nobody.
Quiet ==
  /\ UNCHANGED <<cond, backlog, answer, cur>>
  /\ \/ bpc' = bpc
     \/ bpc \in Serving /\ bpc' \in Serving
     \/ bpc \in {"select", "key"} /\ bpc' \in {"select", "key"}
  /\ \A l \in Listener :
       /\ closed[l] = "open" => closed'[l] = "open"
       /\ closed'[l] = "fin" => closed[l] = "fin"
       /\ lpc'[l] = "browse" => lpc[l] = "browse"
       /\ lpc'[l] \in {"browse"} \cup Asking =>
            lpc[l] \in {"browse"} \cup Asking /\ down'[l] = down[l]
       /\ lpc'[l] \in {"receive", "rejected"} => lpc'[l] = lpc[l]

LEMMA QuietKeeps ==
  ASSUME TypeOK, Ranges, Requests, Answers, Outcomes, Quiet
  PROVE  Requests' /\ Answers' /\ Outcomes'
<1>1. (backlog # <<>> => Listening)'
  BY DEF Requests, Listening, Quiet, Serving
<1>2. ASSUME NEW l \in Listener, Untouched(l)
      PROVE  Untouched(l)'
  BY <1>2 DEF Untouched, Quiet
<1>3. Waiting' = Waiting /\ Waiting \subseteq Listener
  BY DEF Waiting, Quiet, TypeOK
<1>4. Requests'
  BY <1>1, <1>2, <1>3 DEF Requests, Quiet
<1>5. \A l \in Listener : Said(l)' = Said(l)
  BY DEF Said, Quiet
<1>6. ASSUME bpc' \in Serving
      PROVE  answer'[cur'] = "none" /\ closed'[cur'] = "open"
  <2>1. bpc \in Serving
    BY <1>6 DEF Quiet, Serving
  <2>2. answer[cur] = "none" /\ closed[cur] = "open"
    BY <2>1 DEF Answers, Serving
  <2>3. cur \in Listener
    BY <2>1 DEF Ranges, Serving
  <2>4. QED
    BY <2>2, <2>3 DEF Quiet
<1>7. Answers'
  BY <1>5, <1>6 DEF Answers, Quiet, Serving
<1>8. Outcomes'
  BY DEF Outcomes, Quiet, Serving
<1>9. QED
  BY <1>4, <1>7, <1>8

\* Every action but those that answer, accept, connect or settle is quiet.
LEMMA QuietSteps ==
  ASSUME TypeOK
  PROVE  /\ NoConnection \/ RecvLen \/ RecvName \/ RecvEof \/ Prompt \/ Move
              \/ KeyOther \/ KeyTimeout \/ Ended \/ UNCHANGED vars => Quiet
         /\ \A k \in {"move", "enter"} : Type(k) => Quiet
         /\ \A l \in Listener :
              SendLen(l) \/ SendName(l) \/ ReplyError(l) \/ ConnectFails(l)
                \/ KillListener(l) => Quiet
<1> USE DEF Quiet, Serving, Asking, vars, bVars
<1>1. NoConnection \/ KeyOther \/ KeyTimeout => Quiet
  BY DEF NoConnection, KeyOther, KeyTimeout
<1>2. RecvLen => Quiet
  BY DEF RecvLen
<1>3. RecvName \/ RecvEof => Quiet
  BY DEF RecvName, RecvEof
<1>4. Prompt \/ Move => Quiet
  BY DEF Prompt, Move
<1>5. Ended \/ UNCHANGED vars => Quiet
  BY DEF Ended
<1>6. ASSUME NEW k \in {"move", "enter"}, Type(k)
      PROVE  Quiet
  BY <1>6 DEF Type
<1>7. ASSUME NEW l \in Listener, NEW from \in Asking, NEW to \in Asking, NEW msg,
             SendTo(l, from, to, msg)
      PROVE  Quiet
  BY <1>7 DEF SendTo, TypeOK
<1>8. ASSUME NEW l \in Listener, SendLen(l) \/ SendName(l)
      PROVE  Quiet
  BY <1>7, <1>8 DEF SendLen, SendName
<1>9. ASSUME NEW l \in Listener, ReplyError(l) \/ ConnectFails(l) \/ KillListener(l)
      PROVE  Quiet
  BY <1>9 DEF ReplyError, ConnectFails, KillListener, TypeOK
<1>10. QED
  BY <1>1, <1>2, <1>3, <1>4, <1>5, <1>6, <1>8, <1>9

\* A listener is accepted when it is the first in the backlog, and it is there once.
LEMMA AcceptKeeps ==
  ASSUME TypeOK, Ranges, Accord, Accept
  PROVE  Accord'
<1> DEFINE h == Head(backlog)
<1>1. h \in Listener /\ h = backlog[1] /\ Len(backlog) \in Nat /\ Len(backlog) >= 1
  BY BacklogHead DEF Accept
<1>2. /\ Len(backlog') = Len(backlog) - 1
      /\ \A i \in 1..Len(backlog)-1 : backlog'[i] = backlog[i+1]
  BY BacklogHead DEF Accept
<1>3. Waiting' = Waiting \ {h}
  <2>1. \A i \in 1..Len(backlog)-1 : i+1 \in 1..Len(backlog) /\ i+1 # 1
    BY <1>1
  <2>2. \A i \in 1..Len(backlog) : i # 1 => i-1 \in 1..Len(backlog)-1 /\ (i-1)+1 = i
    BY <1>1
  <2>3. \A i \in 1..Len(backlog) : backlog[i] = h => i = 1
    BY <1>1 DEF Accord, Requests
  <2>4. Waiting' = {backlog'[i] : i \in 1..Len(backlog)-1}
    BY <1>2 DEF Waiting
  <2>5. \A w \in Waiting' : w \in Waiting /\ w # h
    BY <1>2, <2>1, <2>3, <2>4 DEF Waiting
  <2>6. ASSUME NEW w \in Waiting, w # h
        PROVE  w \in Waiting'
    <3>1. PICK i \in 1..Len(backlog) : w = backlog[i]
      BY DEF Waiting
    <3>2. i - 1 \in 1..Len(backlog)-1 /\ w = backlog'[i-1]
      BY <1>1, <1>2, <2>2, <2>6, <3>1
    <3>3. QED
      BY <2>4, <3>2
  <2>7. QED
    BY <2>5, <2>6
<1>4. h \in Waiting
  BY <1>1 DEF Waiting
<1>5. (\A i, j \in 1..Len(backlog) : backlog[i] = backlog[j] => i = j)'
  <2>1. \A i \in 1..Len(backlog)-1 : i+1 \in 1..Len(backlog)
    BY <1>1
  <2>2. \A i, j \in 1..Len(backlog)-1 : i+1 = j+1 => i = j
    BY <1>1
  <2>3. QED
    BY <1>1, <1>2, <2>1, <2>2 DEF Accord, Requests
<1>6. (backlog # <<>> => Listening)'
  BY DEF Accept, Listening
<1>7. cur' = h /\ UNCHANGED <<answer, closed, lpc, down, cond>> /\ bpc = "select" /\ bpc' = "len"
  BY DEF Accept
<1>8. \A l \in Listener : l # h /\ Untouched(l) => Untouched(l)'
  BY <1>7 DEF Untouched
<1>9. \A l \in Listener : lpc[l] = "browse" => l # h
  BY <1>4 DEF Accord, Requests
<1>10. Waiting \subseteq Listener
  BY DEF Waiting, TypeOK
<1>11. Requests'
  <2> HIDE DEF h
  <2>1. (\A l \in Listener : lpc[l] = "browse" => Untouched(l) /\ l \notin Waiting)'
    BY <1>3, <1>7, <1>8, <1>9 DEF Accord, Requests
  <2>2. (\A l \in Waiting : Untouched(l))'
    BY <1>3, <1>8, <1>10 DEF Accord, Requests
  <2>3. QED
    BY <1>5, <1>6, <2>1, <2>2 DEF Requests
<1>12. Answers'
  <2>1. Untouched(h)
    BY <1>4 DEF Accord, Requests
  <2>2. QED
    BY <1>7, <2>1 DEF Accord, Answers, Untouched, Said
<1>13. Outcomes'
  BY <1>7 DEF Accord, Outcomes
<1>14. QED
  BY <1>11, <1>12, <1>13 DEF Accord

LEMMA ConnectKeeps ==
  ASSUME TypeOK, Ranges, Accord, NEW l \in Listener, Connect(l)
  PROVE  Accord'
<1>1. Len(backlog) \in Nat /\ backlog \in Seq(Listener)
  BY DEF TypeOK
<1>2. /\ Len(backlog') = Len(backlog) + 1
      /\ \A i \in 1..Len(backlog) : backlog'[i] = backlog[i]
      /\ backlog'[Len(backlog)+1] = l
  BY <1>1, AppendProperties DEF Connect
<1>3. Waiting' = Waiting \cup {l}
  BY <1>1, <1>2 DEF Waiting
<1>4. l \notin Waiting /\ Untouched(l)
  BY DEF Connect, Accord, Requests
<1>5. (\A i, j \in 1..Len(backlog) : backlog[i] = backlog[j] => i = j)'
  <2>1. \A i \in 1..Len(backlog) : backlog[i] # l
    BY <1>4 DEF Waiting
  <2>2. \A i \in 1..Len(backlog)+1 : i \in 1..Len(backlog) \/ i = Len(backlog)+1
    BY <1>1
  <2>3. QED
    BY <1>1, <1>2, <2>1, <2>2 DEF Accord, Requests
<1>6. UNCHANGED <<answer, closed, cur, bpc, down, cond>>
  BY DEF Connect
<1>7. \A m \in Listener : Untouched(m)' <=> Untouched(m)
  BY <1>6 DEF Untouched
<1>8. \A m \in Listener : lpc'[m] = IF m = l THEN "len" ELSE lpc[m]
  BY DEF Connect, TypeOK
<1>9. lpc[l] = "browse" /\ Listening
  BY DEF Connect
<1>10. Requests'
  <2>1. (backlog # <<>> => Listening)'
    BY <1>6, <1>9 DEF Listening
  <2>2. (\A m \in Listener : lpc[m] = "browse" => Untouched(m) /\ m \notin Waiting)'
    BY <1>3, <1>7, <1>8 DEF Accord, Requests
  <2>3. Waiting \subseteq Listener
    BY <1>1 DEF Waiting
  <2>4. (\A m \in Waiting : Untouched(m))'
    BY <1>3, <1>4, <1>7, <2>3 DEF Accord, Requests
  <2>5. QED
    BY <1>5, <2>1, <2>2, <2>4 DEF Requests
<1>11. Answers'
  BY <1>6, <1>8, <1>9 DEF Accord, Answers, Said, Asking
<1>12. Outcomes'
  BY <1>6, <1>8 DEF Accord, Outcomes
<1>13. QED
  BY <1>10, <1>11, <1>12 DEF Accord

\* When the listening socket is closed nobody is in the backlog any more, and the
\* others keep their connections as they are.
LEMMA EmptyBacklog ==
  ASSUME TypeOK, Requests, backlog' = <<>>, cur' = cur,
         \A l \in Listener : lpc[l] = "browse" =>
           answer'[l] = answer[l] /\ closed'[l] = closed[l],
         lpc' = lpc
  PROVE  Requests'
<1>1. Waiting' = {}
  <2>1. Len(backlog') = 0
    BY EmptySeq
  <2>2. QED
    BY <2>1 DEF Waiting
<1>2. QED
  BY <1>1 DEF Requests, Untouched, Waiting

LEMMA AnswerYesKeeps ==
  ASSUME TypeOK, Ranges, Accord, AnswerYes
  PROVE  Accord'
<1>1. /\ answer' = [answer EXCEPT ![cur] = "yes"]
      /\ down' = [down EXCEPT ![cur] = @ \o NetInt(ONE)]
      /\ closed' = ResetWaiting(closed) /\ backlog' = <<>>
      /\ bpc = "ask" /\ bpc' = "send"
      /\ UNCHANGED <<cond, cur, lpc>>
  BY DEF AnswerYes, Answer
<1>2. cur \in Listener /\ answer[cur] = "none" /\ closed[cur] = "open"
  BY <1>1 DEF Ranges, Accord, Answers
<1>3. \A l \in Listener : /\ answer'[l] = IF l = cur THEN "yes" ELSE answer[l]
                          /\ closed'[l] = IF l \in Waiting THEN "rst" ELSE closed[l]
  BY <1>1 DEF ResetWaiting, TypeOK
<1>4. \A l \in Listener : lpc[l] = "browse" => l # cur /\ l \notin Waiting
  BY DEF Accord, Requests, Untouched
<1>5. Requests'
  BY <1>1, <1>3, <1>4, EmptyBacklog DEF Accord
<1>6. Answers'
  <2>1. ASSUME NEW l \in Listener, lpc[l] \in {"browse"} \cup Asking
        PROVE  down'[l] = Said(l)'
    <3>1. CASE l = cur
      <4>1. down[l] = <<>>
        BY <1>2, <2>1, <3>1 DEF Accord, Answers, Said
      <4>2. down'[l] = NetInt(ONE)
        BY <1>1, <3>1, <4>1, Messages, ConcatEmptySeq DEF TypeOK
      <4>3. QED
        BY <1>3, <3>1, <4>2 DEF Said
    <3>2. CASE l # cur
      BY <1>1, <1>3, <2>1, <3>2 DEF Accord, Answers, Said, TypeOK
    <3>3. QED
      BY <3>1, <3>2
  <2>2. QED
    BY <1>1, <1>3, <2>1 DEF Accord, Answers
<1>7. Outcomes'
  BY <1>1, <1>2, <1>3 DEF Accord, Outcomes
<1>8. QED
  BY <1>5, <1>6, <1>7 DEF Accord

LEMMA AnswerNoKeeps ==
  ASSUME TypeOK, Ranges, Accord, AnswerNo
  PROVE  Accord'
<1>1. /\ answer' = [answer EXCEPT ![cur] = "no"]
      /\ down' = [down EXCEPT ![cur] = @ \o NetInt(NUL)]
      /\ closed' = Close(cur) /\ backlog' = backlog
      /\ bpc = "ask" /\ bpc' = "key"
      /\ UNCHANGED <<cond, cur, lpc>>
  BY DEF AnswerNo, Answer
<1>2. cur \in Listener /\ answer[cur] = "none" /\ closed[cur] = "open"
  BY <1>1 DEF Ranges, Accord, Answers
<1>3. \A l \in Listener : /\ answer'[l] = IF l = cur THEN "no" ELSE answer[l]
                          /\ l # cur => closed'[l] = closed[l]
  BY <1>1 DEF Close, TypeOK
<1>4. \A l \in Listener : Untouched(l) => Untouched(l)'
  BY <1>1, <1>3 DEF Untouched
<1>5. Waiting' = Waiting /\ Waiting \subseteq Listener
  BY <1>1 DEF Waiting, TypeOK
<1>6. Requests'
  BY <1>1, <1>4, <1>5 DEF Accord, Requests, Listening
<1>7. Answers'
  <2>1. ASSUME NEW l \in Listener, lpc[l] \in {"browse"} \cup Asking
        PROVE  down'[l] = Said(l)'
    <3>1. CASE l = cur
      <4>1. down[l] = <<>>
        BY <1>2, <2>1, <3>1 DEF Accord, Answers, Said
      <4>2. down'[l] = NetInt(NUL)
        BY <1>1, <3>1, <4>1, Messages, ConcatEmptySeq DEF TypeOK
      <4>3. QED
        BY <1>3, <3>1, <4>2 DEF Said
    <3>2. CASE l # cur
      BY <1>1, <1>3, <2>1, <3>2 DEF Accord, Answers, Said, TypeOK
    <3>3. QED
      BY <3>1, <3>2
  <2>2. QED
    BY <1>1, <1>3, <2>1 DEF Accord, Answers
<1>8. Outcomes'
  BY <1>1, <1>2, <1>3 DEF Accord, Outcomes
<1>9. QED
  BY <1>6, <1>7, <1>8 DEF Accord

LEMMA CancelKeeps ==
  ASSUME TypeOK, Ranges, Accord, KeyCancel
  PROVE  Accord'
<1>1. /\ closed' = ResetWaiting(closed) /\ backlog' = <<>>
      /\ bpc = "key" /\ bpc' = "exit"
      /\ UNCHANGED <<cond, cur, lpc, answer, down>>
  BY DEF KeyCancel
<1>2. \A l \in Listener : closed'[l] = IF l \in Waiting THEN "rst" ELSE closed[l]
  BY <1>1 DEF ResetWaiting, TypeOK
<1>3. \A l \in Listener : lpc[l] = "browse" => l \notin Waiting
  BY DEF Accord, Requests
<1>4. Requests'
  BY <1>1, <1>2, <1>3, EmptyBacklog DEF Accord
<1>5. Answers'
  BY <1>1, <1>2 DEF Accord, Answers, Said
<1>6. Outcomes'
  BY <1>1 DEF Accord, Outcomes
<1>7. QED
  BY <1>4, <1>5, <1>6 DEF Accord

LEMMA KillKeeps ==
  ASSUME TypeOK, Ranges, Accord, KillBroadcaster
  PROVE  Accord'
<1>1. /\ "broadcaster" \in cond.killed /\ Listening
      /\ backlog' = <<>> /\ bpc' = "dead"
      /\ UNCHANGED <<cond, cur, lpc, answer, down>>
  BY DEF KillBroadcaster
<1>2. \A l \in Listener : l \notin Waiting /\ l # cur => closed'[l] = closed[l]
  BY DEF KillBroadcaster, ResetWaiting, Close, TypeOK
<1>3. \A l \in Listener : lpc[l] = "browse" => l # cur /\ l \notin Waiting
  BY DEF Accord, Requests, Untouched
<1>4. Requests'
  BY <1>1, <1>2, <1>3, EmptyBacklog DEF Accord
<1>5. \A l \in Listener : answer[l] # "yes"
  BY <1>1 DEF Accord, Answers, Listening
<1>6. Answers'
  BY <1>1, <1>5 DEF Accord, Answers, Said
<1>7. Outcomes'
  BY <1>1, <1>5 DEF Accord, Outcomes
<1>8. QED
  BY <1>4, <1>6, <1>7 DEF Accord

\* A listener that reads a whole answer reads the one that was given; a piece of it
\* has nothing but zeros, and is never an acceptance.
LEMMA ReplyKeeps ==
  ASSUME TypeOK, Ranges, Accord, NEW l \in Listener, RecvReply(l)
  PROVE  Accord'
<1>1. PICK k \in Reads(INT, down[l]) :
        /\ lpc' = [lpc EXCEPT ![l] =
                     IF k = INT /\ down[l][INT] # NUL THEN "receive" ELSE "rejected"]
        /\ down' = [down EXCEPT ![l] = SubSeq(@, k+1, Len(@))]
  BY DEF RecvReply
<1>2. lpc[l] = "wait" /\ UNCHANGED <<cond, bpc, cur, backlog, closed, answer>>
  BY DEF RecvReply, bVars
<1>3. INT \in Nat /\ INT >= 2
  BY HandshakeAssumption
<1>4. answer[l] # "none" /\ down[l] = NetInt(IF answer[l] = "yes" THEN ONE ELSE NUL)
  <2>1. down[l] = Said(l)
    BY <1>2 DEF Accord, Answers, Asking
  <2>2. down[l] # <<>>
    BY <1>1, <1>3, EmptySeq DEF Reads
  <2>3. QED
    BY <2>1, <2>2 DEF Said
<1>5. /\ Len(down[l]) = INT
      /\ down[l][INT] = IF answer[l] = "yes" THEN ONE ELSE NUL
  BY <1>3, <1>4, Messages
<1>6. ~cond.short => k = INT
  BY <1>1, <1>3, <1>5 DEF Reads
<1>7. /\ lpc'[l] = "receive" => answer[l] = "yes"
      /\ lpc'[l] = "rejected" /\ ~cond.short => answer[l] = "no"
      /\ lpc'[l] \in {"receive", "rejected"}
  BY <1>1, <1>4, <1>5, <1>6, Messages DEF TypeOK
<1>8. \A m \in Listener : m # l => lpc'[m] = lpc[m] /\ down'[m] = down[m]
  BY <1>1 DEF TypeOK
<1>9. Requests'
  <2>1. Waiting' = Waiting
    BY <1>2 DEF Waiting
  <2>2. QED
    BY <1>2, <1>7, <1>8, <2>1 DEF Accord, Requests, Untouched, Listening
<1>10. Answers'
  BY <1>2, <1>7, <1>8 DEF Accord, Answers, Said, Asking
<1>11. Outcomes'
  BY <1>2, <1>7, <1>8 DEF Accord, Outcomes
<1>12. QED
  BY <1>9, <1>10, <1>11 DEF Accord

\* The end of a connection without an answer means that the broadcaster is gone.
LEMMA EofKeeps ==
  ASSUME TypeOK, Ranges, Accord, NEW l \in Listener, ReplyEof(l)
  PROVE  Accord'
<1>1. /\ lpc[l] = "wait" /\ down[l] = <<>> /\ closed[l] = "fin"
      /\ lpc' = [lpc EXCEPT ![l] = "receive"]
      /\ UNCHANGED <<cond, bpc, cur, backlog, closed, answer, down>>
  BY DEF ReplyEof, bVars
<1>2. answer[l] = "none"
  <2>1. down[l] = Said(l)
    BY <1>1 DEF Accord, Answers, Asking
  <2>2. \A b \in Byte : NetInt(b) # <<>>
    BY Messages, HandshakeAssumption, EmptySeq
  <2>3. QED
    BY <1>1, <2>1, <2>2, Messages DEF Said
<1>3. bpc = "dead"
  BY <1>1, <1>2 DEF Accord, Answers
<1>4. \A m \in Listener : lpc'[m] = IF m = l THEN "receive" ELSE lpc[m]
  BY <1>1 DEF TypeOK
<1>5. Requests'
  <2>1. Waiting' = Waiting
    BY <1>1 DEF Waiting
  <2>2. QED
    BY <1>1, <1>4, <2>1 DEF Accord, Requests, Untouched, Listening
<1>6. Answers'
  BY <1>1, <1>4 DEF Accord, Answers, Said, Asking
<1>7. Outcomes'
  BY <1>1, <1>2, <1>3, <1>4 DEF Accord, Outcomes
<1>8. QED
  BY <1>5, <1>6, <1>7 DEF Accord

LEMMA AccordStep ==
  ASSUME TypeOK, Ranges, Accord, [Next]_vars
  PROVE  Accord'
<1>1. Quiet => Accord'
  BY QuietKeeps DEF Accord
<1>2. CASE Broadcaster
  BY <1>1, <1>2, QuietSteps, AcceptKeeps, AnswerYesKeeps, AnswerNoKeeps, CancelKeeps
     DEF Broadcaster
<1>3. ASSUME NEW l \in Listener, Connect(l) \/ ConnectFails(l) \/ Request(l) \/ KillListener(l)
      PROVE  Accord'
  BY <1>1, <1>3, QuietSteps, ConnectKeeps, ReplyKeeps, EofKeeps DEF Request
<1>4. CASE KillBroadcaster
  BY <1>4, KillKeeps
<1>5. CASE (\E k \in {"move", "enter"} : Type(k)) \/ Ended \/ UNCHANGED vars
  BY <1>1, <1>5, QuietSteps
<1>6. QED
  BY <1>2, <1>3, <1>4, <1>5 DEF Next

(***************************************************************************)
(* Names.                                                                  *)
(***************************************************************************)

\* Nobody whose name the broadcaster is still to read has an answer or a closed
\* connection, so its sends succeed and it has nothing to receive.
LEMMA NotSettled ==
  ASSUME TypeOK, Ranges, Accord, NEW l \in Listener,
         Pending(l) \/ (bpc \in Serving /\ cur = l)
  PROVE  answer[l] = "none" /\ closed[l] = "open"
BY DEF Pending, Serving, Accord, Requests, Answers, Untouched

\* The broadcaster goes where it reads nothing, and nobody is added.
LEMMA LeavesNames ==
  ASSUME TypeOK, WholeNames, UNCHANGED <<cond, cur, up, lpc>>,
         bpc' \notin Serving, Waiting' \subseteq Waiting
  PROVE  WholeNames'
<1>1. \A l \in Listener : Sent(l)' <=> Sent(l)
  BY DEF Sent
<1>2. \A l \in Listener : Pending(l)' => Pending(l)
  BY DEF Pending, Serving
<1>3. QED
  BY <1>1, <1>2 DEF WholeNames, Serving

\* A step of one listener alone.
LEMMA ListenerKeepsNames ==
  ASSUME Ranges, WholeNames, NEW l \in Listener,
         UNCHANGED <<cond, bpc, cur, bytes, len, buf, backlog>>,
         \A m \in Listener : m # l => lpc'[m] = lpc[m] /\ up'[m] = up[m],
         lpc'[l] # "browse",
         ~cond.short /\ Pending(l) /\ Sent(l) => Sent(l)',
         ~cond.short /\ bpc = "name" /\ cur = l /\ SentRest(l) => SentRest(l)',
         ~cond.short /\ bpc = "name" /\ cur = l /\ lpc[l] \in {"wait", "dead"} =>
           lpc'[l] \in {"wait", "dead"}
  PROVE  WholeNames'
<1> SUFFICES ASSUME ~cond.short
             PROVE  WholeNames'
  BY DEF WholeNames
<1>1. ASSUME NEW m \in Listener, Pending(m)'
      PROVE  Sent(m)'
  <2>1. Pending(m)
    BY <1>1 DEF Pending, Waiting
  <2>2. Sent(m)
    BY <2>1 DEF WholeNames
  <2>3. QED
    BY <2>1, <2>2 DEF Sent
<1>2. ASSUME bpc = "name"
      PROVE  \/ bytes = 0 /\ SentRest(cur)'
             \/ bytes = len /\ lpc'[cur] \in {"wait", "dead"} /\ NameInBuffer
  <2>1. cur \in Listener
    BY <1>2 DEF Ranges
  <2>2. CASE bytes = 0 /\ SentRest(cur)
    <3>1. CASE cur = l
      BY <1>2, <2>2, <3>1
    <3>2. CASE cur # l
      BY <2>1, <2>2, <3>2 DEF SentRest
    <3>3. QED
      BY <3>1, <3>2
  <2>3. CASE bytes = len /\ lpc[cur] \in {"wait", "dead"} /\ NameInBuffer
    <3>1. CASE cur = l
      BY <1>2, <2>3, <3>1
    <3>2. CASE cur # l
      BY <2>1, <2>3, <3>2
    <3>3. QED
      BY <3>1, <3>2
  <2>4. QED
    BY <1>2, <2>2, <2>3 DEF WholeNames
<1>3. NameInBuffer' <=> NameInBuffer
  BY DEF NameInBuffer
<1>4. (bpc = "name") => len = NameLen[cur]
  BY DEF WholeNames
<1>5. /\ bpc = "len" => bytes = 0
      /\ bpc = "ask" => NameInBuffer /\ buf[NameLen[cur]] = NUL
  BY DEF WholeNames
<1>6. QED
  BY <1>1, <1>2, <1>3, <1>4, <1>5 DEF WholeNames

LEMMA SendKeepsNames ==
  ASSUME TypeOK, Ranges, Accord, WholeNames, NEW l \in Listener,
         SendLen(l) \/ SendName(l)
  PROVE  WholeNames'
<1>1. UNCHANGED <<cond, bpc, cur, bytes, len, buf, backlog>>
  BY DEF SendLen, SendName, SendTo, bVars
<1>2. \A m \in Listener : m # l => lpc'[m] = lpc[m] /\ up'[m] = up[m]
  BY DEF SendLen, SendName, SendTo, TypeOK
<1>3. lpc'[l] # "browse"
  BY DEF SendLen, SendName, SendTo, TypeOK
<1>4. ASSUME Pending(l) \/ (bpc = "name" /\ cur = l)
      PROVE  \/ /\ lpc[l] = "len" /\ lpc'[l] = "name"
                /\ up'[l] = up[l] \o NetInt(LengthByte(l))
             \/ /\ lpc[l] = "name" /\ lpc'[l] = "wait"
                /\ up'[l] = up[l] \o Name(l)
  <2>1. closed[l] = "open"
    BY <1>4, NotSettled DEF Serving
  <2>2. QED
    BY <2>1 DEF SendLen, SendName, SendTo, TypeOK
<1>5. /\ <<>> \o NetInt(LengthByte(l)) = NetInt(LengthByte(l))
      /\ <<>> \o Name(l) = Name(l)
  BY Messages, ConcatEmptySeq
<1>6. Pending(l) /\ Sent(l) => Sent(l)'
  BY <1>4, <1>5 DEF Sent
<1>7. bpc = "name" /\ cur = l /\ SentRest(l) => SentRest(l)'
  BY <1>4, <1>5 DEF SentRest
<1>8. bpc = "name" /\ cur = l => lpc[l] \notin {"wait", "dead"}
  BY <1>4
<1>9. QED
  BY <1>1, <1>2, <1>3, <1>6, <1>7, <1>8, ListenerKeepsNames

\* A listener whose name is to be read has nothing to receive, and dies at most.
LEMMA SettleKeepsNames ==
  ASSUME TypeOK, Ranges, Accord, WholeNames, NEW l \in Listener,
         RecvReply(l) \/ ReplyEof(l) \/ ReplyError(l) \/ KillListener(l)
  PROVE  WholeNames'
<1>1. /\ UNCHANGED <<cond, bpc, cur, bytes, len, buf, backlog, up>>
      /\ lpc[l] \in Asking
  BY DEF RecvReply, ReplyEof, ReplyError, KillListener, bVars, Asking
<1>2. \A m \in Listener : m # l => lpc'[m] = lpc[m]
  BY DEF RecvReply, ReplyEof, ReplyError, KillListener, TypeOK
<1>3. lpc'[l] # "browse"
  BY DEF RecvReply, ReplyEof, ReplyError, KillListener, TypeOK
<1>4. ASSUME Pending(l) \/ (bpc = "name" /\ cur = l)
      PROVE  lpc'[l] = "dead"
  <2>1. answer[l] = "none" /\ closed[l] = "open"
    BY <1>4, NotSettled DEF Serving
  <2>2. down[l] = <<>>
    BY <1>1, <2>1 DEF Accord, Answers, Said
  <2>3. Reads(INT, down[l]) = {}
    BY <2>2, HandshakeAssumption, EmptySeq DEF Reads
  <2>4. KillListener(l)
    BY <2>1, <2>3 DEF RecvReply, ReplyEof, ReplyError
  <2>5. QED
    BY <2>4 DEF KillListener, TypeOK
<1>5. Pending(l) /\ Sent(l) => Sent(l)'
  BY <1>1, <1>4 DEF Sent, Asking
<1>6. bpc = "name" /\ cur = l /\ SentRest(l) => SentRest(l)'
  BY <1>1, <1>4 DEF SentRest
<1>7. QED
  BY <1>1, <1>2, <1>3, <1>4, <1>5, <1>6, ListenerKeepsNames

\* What is left of the two messages behind the length is the name.
LEMMA BehindLength ==
  ASSUME NEW l \in Listener
  PROVE  LET m == NetInt(LengthByte(l))
         IN  /\ SubSeq(m, INT+1, Len(m)) = <<>>
             /\ SubSeq(m \o Name(l), INT+1, Len(m \o Name(l))) = Name(l)
             /\ Len(m \o Name(l)) >= INT
             /\ \A i \in 1..INT : (m \o Name(l))[i] = m[i]
<1> DEFINE m == NetInt(LengthByte(l))
           both == m \o Name(l)
<1>1. /\ m \in Seq(Byte) /\ Len(m) = INT
      /\ Name(l) \in Seq(Byte) /\ Len(Name(l)) = NameLen[l]
  BY Messages
<1>2. INT \in Nat /\ NameLen[l] \in Nat
  BY HandshakeAssumption, Messages
<1> HIDE DEF m
<1>3. SubSeq(m, INT+1, Len(m)) = <<>>
  BY <1>1, <1>2, SubSeqEmpty
<1>4. /\ both \in Seq(Byte) /\ Len(both) = INT + NameLen[l]
      /\ \A i \in 1..INT + NameLen[l] :
           both[i] = IF i <= INT THEN m[i] ELSE Name(l)[i - INT]
  <2>1. /\ both \in Seq(Byte) /\ Len(both) = Len(m) + Len(Name(l))
        /\ \A i \in 1..Len(m) + Len(Name(l)) :
             both[i] = IF i <= Len(m) THEN m[i] ELSE Name(l)[i - Len(m)]
    BY <1>1, ConcatProperties
  <2> HIDE DEF both
  <2>2. QED
    BY <1>1, <2>1
<1> HIDE DEF both
<1>5. \A i \in INT+1..INT + NameLen[l] : both[i] \in Byte
  BY <1>2, <1>4, ElementOfSeq
<1> DEFINE a == INT+1
           z == INT + NameLen[l]
           rest == SubSeq(both, a, z)
<1>6. /\ rest \in Seq(Byte) /\ Len(rest) = NameLen[l]
      /\ \A i \in 1..NameLen[l] : rest[i] = both[INT+1+i-1]
  <2>1. a \in Int /\ z \in Int /\ \A i \in a..z : both[i] \in Byte
    BY <1>2, <1>5
  <2>2. z-a+1 = NameLen[l] /\ (a <= z \/ NameLen[l] = 0)
    BY <1>2
  <2> HIDE DEF a, z
  <2>3. /\ rest \in Seq(Byte)
        /\ Len(rest) = IF a <= z THEN z-a+1 ELSE 0
        /\ \A i \in 1..z-a+1 : rest[i] = both[a+i-1]
    BY <2>1, SubSeqProperties
  <2> HIDE DEF rest
  <2>4. /\ rest \in Seq(Byte) /\ Len(rest) = NameLen[l]
        /\ \A i \in 1..NameLen[l] : rest[i] = both[a+i-1]
    BY <2>2, <2>3
  <2>5. QED
    BY <2>4 DEF a
<1>7. \A i \in 1..NameLen[l] : rest[i] = Name(l)[i]
  <2>1. \A i \in 1..NameLen[l] :
          INT+1+i-1 = INT + i /\ INT + i \in 1..INT + NameLen[l] /\ ~(INT + i <= INT)
            /\ (INT + i) - INT = i
    BY <1>2
  <2>2. QED
    BY <1>4, <1>6, <2>1
<1>8. rest = Name(l)
  BY <1>1, <1>6, <1>7, SeqEqual
<1>9. SubSeq(both, INT+1, Len(both)) = Name(l) /\ Len(both) >= INT
  BY <1>2, <1>4, <1>8
<1>10. \A i \in 1..INT : both[i] = m[i]
  BY <1>2, <1>4
<1>11. QED
  BY <1>3, <1>9, <1>10 DEF both, m

\* The bytes of a length in their places are the length of one listener.
LEMMA LengthIsRead ==
  ASSUME NEW l \in Listener, NEW b,
         \A i \in 1..INT : b[i-1] = NetInt(LengthByte(l))[i]
  PROVE  LengthsIn(b) = {NameLen[l]}
<1>1. INT \in 1..INT
  BY HandshakeAssumption
<1>2. ASSUME NEW m \in Listener, \A i \in 1..INT : b[i-1] = NetInt(LengthByte(m))[i]
      PROVE  m = l
  <2>1. /\ b[INT-1] = NetInt(LengthByte(m))[INT]
        /\ b[INT-1] = NetInt(LengthByte(l))[INT]
    BY <1>1, <1>2
  <2>2. \A last \in Byte : NetInt(last)[INT] = last
    BY <1>1, Messages
  <2>3. LengthByte(m) \in Byte /\ LengthByte(l) \in Byte
    BY Messages
  <2>4. LengthByte(m) = LengthByte(l)
    BY <2>1, <2>2, <2>3
  <2>5. QED
    BY <2>4 DEF LengthByte
<1>3. {m \in Listener : \A i \in 1..INT : b[i-1] = NetInt(LengthByte(m))[i]} = {l}
  BY <1>2
<1>4. QED
  BY <1>3 DEF LengthsIn

LEMMA RecvLenKeepsNames ==
  ASSUME TypeOK, Ranges, Accord, WholeNames, RecvLen
  PROVE  WholeNames'
<1> SUFFICES ASSUME ~cond.short
             PROVE  WholeNames'
  BY DEF RecvLen, WholeNames
<1> DEFINE m == NetInt(LengthByte(cur))
<1>1. /\ bpc = "len" /\ cur \in Listener /\ bytes = 0 /\ Sent(cur)
      /\ INT \in Nat /\ INT >= 2
  BY HandshakeAssumption DEF RecvLen, Ranges, WholeNames, Pending
<1>2. INT - bytes = INT
  BY <1>1
<1>3. PICK k \in Reads(INT, up[cur]) :
        /\ buf' = Stored(k)
        /\ up' = Taken(k)
        /\ IF bytes + k < INT
             THEN bytes' = bytes + k /\ UNCHANGED <<bpc, len>>
             ELSE len' \in LengthsIn(buf') /\ bytes' = 0 /\ bpc' = "name"
  BY <1>2 DEF RecvLen
<1>4. k \in 1..INT /\ k <= Len(up[cur]) /\ (k = INT \/ k = Len(up[cur]))
  BY <1>1, <1>3, RecvTakes
<1>5. up[cur] # <<>>
  BY <1>4, EmptySeq
<1>6. /\ lpc[cur] \in {"name", "wait", "dead"}
      /\ \/ lpc[cur] \in {"name", "dead"} /\ up[cur] = m
         \/ lpc[cur] \in {"wait", "dead"} /\ up[cur] = m \o Name(cur)
  BY <1>1, <1>5 DEF Sent
<1>7. Len(up[cur]) >= INT /\ \A i \in 1..INT : up[cur][i] = m[i]
  BY <1>1, <1>6, BehindLength, Messages
<1>8. k = INT
  BY <1>1, <1>4, <1>7
<1>9. bytes' = 0 /\ bpc' = "name" /\ len' \in LengthsIn(buf')
  BY <1>1, <1>3, <1>8
<1>10. \A i \in 1..INT : buf'[i-1] = m[i]
  <2>1. \A i \in 1..INT : i-1 \in 0..MAX_NAME-1 /\ i-1 < INT /\ i-1+1 = i
    BY HandshakeAssumption
  <2>2. QED
    BY <1>3, <1>7, <1>8, <2>1 DEF Stored
<1>11. len' = NameLen[cur]
  BY <1>1, <1>9, <1>10, LengthIsRead
<1>12. \A l \in Listener :
         up'[l] = IF l = cur THEN SubSeq(up[l], INT+1, Len(up[l])) ELSE up[l]
  BY <1>1, <1>3, <1>8, RecvTakes
<1>13. UNCHANGED <<cond, cur, lpc, backlog>>
  BY DEF RecvLen
<1>14. SentRest(cur)'
  BY <1>1, <1>6, <1>12, <1>13, BehindLength DEF SentRest
<1>15. ASSUME NEW l \in Listener, Pending(l)'
       PROVE  Sent(l)'
  <2>1. Pending(l) /\ l # cur
    BY <1>9, <1>13, <1>15 DEF Pending, Waiting, Accord, Requests, Untouched
  <2>2. QED
    BY <1>12, <1>13, <2>1 DEF WholeNames, Sent
<1>16. QED
  BY <1>9, <1>11, <1>13, <1>14, <1>15 DEF WholeNames

LEMMA RecvNameKeepsNames ==
  ASSUME TypeOK, Ranges, Accord, WholeNames, RecvName
  PROVE  WholeNames'
<1> SUFFICES ASSUME ~cond.short
             PROVE  WholeNames'
  BY DEF RecvName, WholeNames
<1>1. /\ bpc = "name" /\ cur \in Listener /\ len = NameLen[cur]
      /\ bytes = 0 /\ SentRest(cur)
      /\ len \in 1..MAX_NAME-1
  BY Messages DEF RecvName, Ranges, WholeNames
<1>2. len - bytes = len /\ len \in Nat
  BY <1>1
<1>3. PICK k \in Reads(len, up[cur]) :
        buf' = Stored(k) /\ up' = Taken(k) /\ bytes' = bytes + k
  BY <1>2 DEF RecvName
<1>4. k \in 1..len /\ k <= Len(up[cur]) /\ (k = len \/ k = Len(up[cur]))
  BY <1>1, <1>2, <1>3, RecvTakes
<1>5. up[cur] # <<>>
  BY <1>4, EmptySeq
<1>6. lpc[cur] \in {"wait", "dead"} /\ up[cur] = Name(cur)
  BY <1>1, <1>5 DEF SentRest
<1>7. k = len /\ bytes' = len
  BY <1>1, <1>3, <1>4, <1>6, Messages
<1>8. UNCHANGED <<cond, bpc, cur, len, lpc, backlog>>
  BY DEF RecvName
<1>9. NameInBuffer'
  <2>1. \A j \in 0..len-1 : /\ j \in 0..MAX_NAME-1 /\ j < len
                            /\ j+1 \in 1..len /\ (j+1)-1 = j
    BY <1>1, HandshakeAssumption
  <2>2. ASSUME NEW j \in 0..len-1
        PROVE  buf'[j] = NameByte(cur, j)
    <3>1. buf'[j] = up[cur][j+1]
      BY <1>3, <1>7, <2>1 DEF Stored
    <3>2. up[cur][j+1] = NameByte(cur, j)
      BY <1>1, <1>6, <2>1, Messages
    <3>3. QED
      BY <3>1, <3>2
  <2>3. QED
    BY <1>1, <1>8, <2>2 DEF NameInBuffer
<1>10. ASSUME NEW l \in Listener, Pending(l)'
       PROVE  Sent(l)'
  <2>1. Pending(l) /\ l # cur
    BY <1>1, <1>8, <1>10 DEF Pending, Waiting, Accord, Requests, Untouched
  <2>2. up'[l] = up[l]
    BY <1>1, <1>2, <1>3, <2>1, RecvTakes
  <2>3. QED
    BY <1>8, <2>1, <2>2 DEF WholeNames, Sent
<1>11. QED
  BY <1>1, <1>6, <1>7, <1>8, <1>9, <1>10 DEF WholeNames

\* The terminator goes behind the last byte of the name, not over it.
LEMMA PromptKeepsNames ==
  ASSUME TypeOK, Ranges, WholeNames, Prompt
  PROVE  WholeNames'
<1> SUFFICES ASSUME ~cond.short
             PROVE  WholeNames'
  BY DEF Prompt, WholeNames
<1>1. /\ bpc = "name" /\ bytes = len /\ len = NameLen[cur] /\ cur \in Listener
      /\ bpc' = "ask" /\ buf' = [buf EXCEPT ![len] = NUL]
      /\ UNCHANGED <<cond, cur, up, lpc, backlog>>
  BY DEF Prompt, Ranges, WholeNames
<1>2. len \in 1..MAX_NAME-1
  BY <1>1, Messages
<1>3. NameInBuffer
  BY <1>1, <1>2 DEF WholeNames
<1>4. buf'[len] = NUL /\ \A j \in 0..len-1 : buf'[j] = buf[j]
  <2>1. len \in 0..MAX_NAME-1 /\ \A j \in 0..len-1 : j \in 0..MAX_NAME-1 /\ j # len
    BY <1>2, HandshakeAssumption
  <2>2. QED
    BY <1>1, <2>1 DEF TypeOK
<1>5. NameInBuffer' /\ buf'[NameLen[cur']] = NUL
  BY <1>1, <1>3, <1>4 DEF NameInBuffer
<1>6. ASSUME NEW l \in Listener, Pending(l)'
      PROVE  Sent(l)'
  BY <1>1, <1>6 DEF Pending, Waiting, WholeNames, Sent
<1>7. QED
  BY <1>1, <1>5, <1>6 DEF WholeNames

LEMMA AcceptKeepsNames ==
  ASSUME TypeOK, WholeNames, Accept
  PROVE  WholeNames'
<1>1. /\ bytes' = 0 /\ bpc' = "len" /\ cur' = Head(backlog) /\ backlog' = Tail(backlog)
      /\ UNCHANGED <<cond, up, lpc>> /\ backlog # <<>>
  BY DEF Accept
<1>2. Head(backlog) \in Waiting
  BY <1>1, BacklogHead DEF Waiting
<1>3. Waiting' \subseteq Waiting
  <2>1. \A i \in 1..Len(backlog)-1 : i+1 \in 1..Len(backlog)
    BY <1>1, BacklogHead
  <2>2. Waiting' = {Tail(backlog)[i] : i \in 1..Len(backlog)-1}
    BY <1>1, BacklogHead DEF Waiting
  <2>3. QED
    BY <1>1, <2>1, <2>2, BacklogHead DEF Waiting
<1>4. ASSUME NEW l \in Listener, Pending(l)', ~cond.short
      PROVE  Sent(l)'
  <2>1. Pending(l)
    BY <1>1, <1>2, <1>3, <1>4 DEF Pending
  <2>2. QED
    BY <1>1, <1>4, <2>1 DEF WholeNames, Sent
<1>5. QED
  BY <1>1, <1>4 DEF WholeNames

LEMMA ConnectKeepsNames ==
  ASSUME TypeOK, Ranges, Accord, WholeNames, NEW l \in Listener,
         Connect(l) \/ ConnectFails(l)
  PROVE  WholeNames'
<1>1. /\ UNCHANGED <<cond, bpc, cur, bytes, len, buf, up>>
      /\ lpc[l] = "browse" /\ lpc'[l] \in {"len", "failed"}
      /\ \A m \in Listener : m # l => lpc'[m] = lpc[m]
  BY DEF Connect, ConnectFails, bVars, TypeOK
<1>2. cur # l
  BY <1>1 DEF Accord, Requests, Untouched
<1>3. \A m \in Listener : m # l /\ Pending(m)' => Pending(m)
  <2>1. CASE Connect(l)
    <3>1. Len(backlog) \in Nat /\ backlog \in Seq(Listener)
      BY DEF TypeOK
    <3>2. Waiting' = Waiting \cup {l}
      BY <2>1, <3>1, AppendProperties DEF Connect, Waiting
    <3>3. QED
      BY <1>1, <3>2 DEF Pending
  <2>2. CASE ConnectFails(l)
    BY <1>1, <2>2 DEF ConnectFails, bVars, Pending, Waiting
  <2>3. QED
    BY <2>1, <2>2
<1>4. l \notin Waiting
  BY <1>1 DEF Accord, Requests
<1>5. ASSUME NEW m \in Listener, Pending(m)', ~cond.short
      PROVE  Sent(m)'
  <2>1. CASE m = l
    <3>1. lpc'[l] = "len"
      BY <1>1, <1>2, <1>4, <1>5, <2>1 DEF Pending, ConnectFails, Connect, bVars, Waiting, TypeOK
    <3>2. up[l] = <<>>
      BY <1>1, <1>5 DEF WholeNames, Pending, Sent
    <3>3. QED
      BY <1>1, <2>1, <3>1, <3>2 DEF Sent
  <2>2. CASE m # l
    BY <1>1, <1>3, <1>5, <2>2 DEF WholeNames, Sent
  <2>3. QED
    BY <2>1, <2>2
<1>6. ASSUME ~cond.short, bpc = "name"
      PROVE  \/ bytes = 0 /\ SentRest(cur)'
             \/ bytes = len /\ lpc'[cur] \in {"wait", "dead"} /\ NameInBuffer
  <2>1. cur \in Listener
    BY <1>6 DEF Ranges
  <2>2. QED
    BY <1>1, <1>2, <1>6, <2>1 DEF WholeNames, SentRest
<1>7. NameInBuffer' <=> NameInBuffer
  BY <1>1 DEF NameInBuffer
<1>8. QED
  BY <1>1, <1>5, <1>6, <1>7 DEF WholeNames

LEMMA NamesStep ==
  ASSUME TypeOK, Ranges, Accord, WholeNames, [Next]_vars
  PROVE  WholeNames'
<1>1. CASE NoConnection \/ AnswerYes \/ AnswerNo \/ KeyCancel \/ KeyOther
             \/ KeyTimeout \/ KillBroadcaster
  <2>1. UNCHANGED <<cond, cur, up, lpc>> /\ bpc' \notin Serving
    BY <1>1 DEF NoConnection, AnswerYes, AnswerNo, Answer, KeyCancel, KeyOther,
                KeyTimeout, KillBroadcaster, Serving
  <2>2. backlog' = backlog \/ backlog' = <<>>
    BY <1>1 DEF NoConnection, AnswerYes, AnswerNo, Answer, KeyCancel, KeyOther,
                KeyTimeout, KillBroadcaster
  <2>3. Waiting' \subseteq Waiting
    BY <2>2, EmptySeq DEF Waiting
  <2>4. QED
    BY <2>1, <2>3, LeavesNames
<1>2. CASE Move \/ RecvEof \/ (\E k \in {"move", "enter"} : Type(k)) \/ Ended
             \/ UNCHANGED vars
  <2>1. UNCHANGED <<cond, bpc, cur, bytes, len, buf, backlog, up, lpc>>
    BY <1>2 DEF Move, RecvEof, Type, Ended, vars, bVars
  <2>2. QED
    BY <2>1 DEF WholeNames, Pending, Waiting, Sent, SentRest, NameInBuffer
<1>3. CASE Accept \/ RecvLen \/ RecvName \/ Prompt
  BY <1>3, AcceptKeepsNames, RecvLenKeepsNames, RecvNameKeepsNames, PromptKeepsNames
<1>4. ASSUME NEW l \in Listener, Connect(l) \/ ConnectFails(l) \/ Request(l) \/ KillListener(l)
      PROVE  WholeNames'
  BY <1>4, ConnectKeepsNames, SendKeepsNames, SettleKeepsNames DEF Request
<1>5. QED
  BY <1>1, <1>2, <1>3, <1>4 DEF Next, Broadcaster

(***************************************************************************)
(* The theorems.                                                           *)
(***************************************************************************)

LEMMA InitIInv == Init => IInv
<1> SUFFICES ASSUME Init
             PROVE  IInv
  OBVIOUS
<1>1. MAX_NAME - 1 \in Nat /\ Backlog \in Nat /\ KeyCap \in Nat
  BY HandshakeAssumption
<1>2. /\ <<>> \in Seq(Listener) /\ <<>> \in Seq({"move", "enter"}) /\ <<>> \in Seq(Byte)
      /\ Len(<<>>) = 0
  BY EmptySeq
<1>3. TypeOK
  BY <1>1, <1>2, Messages DEF Init, TypeOK, BroadcasterStates, ListenerStates
<1>4. Waiting = {}
  BY <1>2 DEF Init, Waiting
<1>5. Ranges
  BY DEF Init, Ranges
<1>6. Accord
  <2>1. \A l \in Listener : Untouched(l)
    BY HandshakeAssumption DEF Init, Untouched
  <2>2. Requests
    BY <1>2, <1>4, <2>1 DEF Init, Requests
  <2>3. Answers /\ Outcomes
    BY DEF Init, Answers, Outcomes, Said
  <2>4. QED
    BY <2>2, <2>3 DEF Accord
<1>7. WholeNames
  BY <1>4 DEF Init, WholeNames, Sent
<1>8. QED
  BY <1>3, <1>5, <1>6, <1>7 DEF IInv

LEMMA StepIInv == IInv /\ [Next]_vars => IInv'
BY TypeStep, AccordStep, NamesStep DEF IInv

LEMMA Invariance == Spec => []IInv
BY InitIInv, StepIInv, PTL DEF Spec

\* Every variable of the handshake keeps its type: no count passes the buffer a name
\* is read into, and make_choice ends on one of its two answers.
THEOREM HandshakeTypeCorrect == Spec => []TypeOK
<1>1. IInv => TypeOK
  BY DEF IInv
<1>2. QED
  BY <1>1, Invariance, PTL

\* A refusal is never taken for an acceptance, whatever pieces it arrives in and
\* whoever is killed.
THEOREM RefusalIsBelieved == Spec => []RefusalBelieved
<1>1. IInv => RefusalBelieved
  BY DEF IInv, Accord, Outcomes, RefusalBelieved
<1>2. QED
  BY <1>1, Invariance, PTL

\* While the broadcaster lives, only the listener it sends to receives.
THEOREM OneListenerReceives == Spec => []OneReceiver
<1>1. IInv => OneReceiver
  BY DEF IInv, Accord, Outcomes, Answers, OneReceiver
<1>2. QED
  BY <1>1, Invariance, PTL

\* In calm circumstances every listener believes the answer it was given.
THEOREM CalmAnswerIsBelieved == Spec => []CalmAnswerBelieved
<1>1. IInv => CalmAnswerBelieved
  BY DEF IInv, Accord, Outcomes, CalmAnswerBelieved, AnswerBelieved
<1>2. QED
  BY <1>1, Invariance, PTL

\* When messages come whole, the name that is shown is that of the listener the
\* answer goes to, and nothing of an earlier one.
THEOREM NameIsShown == Spec => []NameShown
<1>1. IInv => NameShown
  BY DEF IInv, WholeNames, NameInBuffer, NameShown
<1>2. QED
  BY <1>1, Invariance, PTL

(***************************************************************************)
(* Consent.                                                                *)
(***************************************************************************)

InCalm == cond.killed = {} /\ ~cond.short

\* In calm circumstances the broadcaster has read all that was sent to it by the
\* time it asks, so that it closes a connection it refused without a reset.
Heard ==
  InCalm =>
    /\ bpc = "name" /\ bytes = len => up[cur] = <<>>
    /\ bpc = "ask" => lpc[cur] = "wait" /\ up[cur] = <<>>
    /\ \A l \in Listener :
         /\ lpc[l] # "dead"
         /\ answer[l] # "none" => lpc[l] \in {"wait", "receive", "rejected"}
         /\ closed[l] = "rst" => answer[l] = "none"

LEMMA CircumstancesStay == [Next]_vars => cond' = cond
<1>1. Broadcaster => cond' = cond
  BY DEF Broadcaster, Accept, NoConnection, RecvLen, RecvName, RecvEof, Prompt, Move,
         AnswerYes, AnswerNo, Answer, KeyCancel, KeyOther, KeyTimeout, vars
<1>2. \A l \in Listener : Connect(l) \/ ConnectFails(l) \/ Request(l) \/ KillListener(l)
        => cond' = cond
  BY DEF Connect, ConnectFails, Request, SendLen, SendName, SendTo, RecvReply, ReplyEof,
         ReplyError, KillListener
<1>3. KillBroadcaster \/ (\E k \in {"move", "enter"} : Type(k)) \/ Ended \/ UNCHANGED vars
        => cond' = cond
  BY DEF KillBroadcaster, Type, Ended, vars
<1>4. QED
  BY <1>1, <1>2, <1>3 DEF Next

\* A step of the broadcaster that changes nothing a listener knows.
LEMMA BroadcasterKeepsHeard ==
  ASSUME IInv, IInv', Heard, InCalm,
         NoConnection \/ KeyOther \/ KeyTimeout \/ Accept \/ RecvLen \/ RecvEof
           \/ Move
  PROVE  Heard'
<1>1. CASE NoConnection \/ KeyOther \/ KeyTimeout \/ Accept
  BY <1>1 DEF NoConnection, KeyOther, KeyTimeout, Accept, Heard, InCalm
<1>2. CASE RecvLen
  <2>1. UNCHANGED <<cond, lpc, answer, closed, cur>> /\ bpc' \in {"len", "name"}
    BY <1>2 DEF RecvLen
  <2>2. bpc' = "name" => bytes' = 0
    BY <1>2 DEF RecvLen
  <2>3. bpc' = "name" => len' # 0
    <3>1. bpc' = "name" => len' = NameLen[cur] /\ cur \in Listener
      BY <2>1 DEF IInv, WholeNames, Ranges, InCalm
    <3>2. QED
      BY <3>1, Messages, HandshakeAssumption
  <2>4. QED
    BY <2>1, <2>2, <2>3 DEF Heard, InCalm
<1>3. CASE RecvEof \/ Move
  BY <1>3 DEF RecvEof, Move, vars, bVars, Heard, InCalm
<1>4. QED
  BY <1>1, <1>2, <1>3

\* The last byte of the name is the last that the listener sent.
LEMMA RecvNameKeepsHeard ==
  ASSUME IInv, Heard, InCalm, RecvName
  PROVE  Heard'
<1>1. /\ bpc = "name" /\ cur \in Listener /\ len = NameLen[cur]
      /\ bytes = 0 /\ SentRest(cur) /\ len \in 1..MAX_NAME-1
      /\ UNCHANGED <<cond, bpc, cur, len, lpc, answer, closed>>
  BY Messages DEF RecvName, IInv, Ranges, WholeNames, InCalm
<1>2. len - bytes = len /\ len \in Nat
  BY <1>1
<1>3. PICK k \in Reads(len, up[cur]) : up' = Taken(k) /\ bytes' = bytes + k
  BY <1>2 DEF RecvName
<1>4. /\ k \in 1..len /\ k <= Len(up[cur])
      /\ Taken(k)[cur] = SubSeq(up[cur], k+1, Len(up[cur]))
  BY <1>1, <1>2, <1>3, RecvTakes DEF IInv
<1>5. up[cur] = Name(cur)
  <2>1. up[cur] # <<>>
    BY <1>4, EmptySeq
  <2>2. QED
    BY <1>1, <2>1 DEF SentRest
<1>6. bytes' = len => up'[cur] = <<>>
  <2>1. bytes' = len => k = len
    BY <1>1, <1>3, <1>4
  <2>2. Len(Name(cur)) = len /\ Name(cur) \in Seq(Byte)
    BY <1>1, Messages
  <2>3. SubSeq(Name(cur), len+1, len) = <<>>
    BY <1>2, <2>2, SubSeqEmpty
  <2>4. QED
    BY <1>3, <1>4, <1>5, <2>1, <2>2, <2>3
<1>7. QED
  BY <1>1, <1>6 DEF Heard, InCalm

LEMMA PromptKeepsHeard ==
  ASSUME IInv, Heard, InCalm, Prompt
  PROVE  Heard'
<1>1. /\ bpc = "name" /\ bytes = len /\ bpc' = "ask" /\ cur \in Listener
      /\ UNCHANGED <<cond, cur, lpc, up, answer, closed>>
  BY DEF Prompt, IInv, Ranges
<1>2. len # 0
  BY <1>1, Messages, HandshakeAssumption DEF IInv, WholeNames, InCalm
<1>3. lpc[cur] = "wait"
  BY <1>1, <1>2 DEF IInv, WholeNames, InCalm, Heard
<1>4. QED
  BY <1>1, <1>3 DEF Heard, InCalm

\* Nobody in the backlog was answered, and who is refused is not reset.
LEMMA AnswerKeepsHeard ==
  ASSUME IInv, Heard, InCalm, AnswerYes \/ AnswerNo \/ KeyCancel
  PROVE  Heard'
<1>1. UNCHANGED <<cond, lpc, up>> /\ bpc' \notin {"name", "ask"}
  BY DEF AnswerYes, AnswerNo, Answer, KeyCancel
<1>2. \A l \in Listener : l \in Waiting => answer[l] = "none" /\ l # cur
  BY DEF IInv, Accord, Requests, Untouched
<1>3. bpc = "ask" => cur \in Listener /\ lpc[cur] = "wait" /\ up[cur] = <<>>
  BY DEF Heard, IInv, Ranges
<1>4. CASE AnswerYes
  <2>1. \A l \in Listener : answer'[l] = IF l = cur THEN "yes" ELSE answer[l]
    BY <1>4 DEF AnswerYes, Answer, IInv, TypeOK
  <2>2. \A l \in Listener : closed'[l] = IF l \in Waiting THEN "rst" ELSE closed[l]
    BY <1>4 DEF AnswerYes, ResetWaiting
  <2>3. bpc = "ask" /\ closed[cur] = "open"
    BY <1>4 DEF AnswerYes, Answer, IInv, Accord, Answers
  <2>4. QED
    BY <1>1, <1>2, <1>3, <2>1, <2>2, <2>3 DEF Heard, InCalm
<1>5. CASE AnswerNo
  <2>1. \A l \in Listener : answer'[l] = IF l = cur THEN "no" ELSE answer[l]
    BY <1>5 DEF AnswerNo, Answer, IInv, TypeOK
  <2>2. bpc = "ask"
    BY <1>5 DEF AnswerNo, Answer
  <2>3. \A l \in Listener : closed'[l] = IF l = cur THEN "fin" ELSE closed[l]
    BY <1>3, <1>5, <2>2 DEF AnswerNo, Close, IInv, TypeOK
  <2>4. QED
    BY <1>1, <1>3, <2>1, <2>2, <2>3 DEF Heard, InCalm
<1>6. CASE KeyCancel
  <2>1. answer' = answer
    BY <1>6 DEF KeyCancel
  <2>2. \A l \in Listener : closed'[l] = IF l \in Waiting THEN "rst" ELSE closed[l]
    BY <1>6 DEF KeyCancel, ResetWaiting
  <2>3. QED
    BY <1>1, <1>2, <2>1, <2>2 DEF Heard, InCalm
<1>7. QED
  BY <1>4, <1>5, <1>6

\* A listener that has been answered sent everything before.
LEMMA SendKeepsHeard ==
  ASSUME IInv, Heard, InCalm, NEW l \in Listener, SendLen(l) \/ SendName(l)
  PROVE  Heard'
<1>1. /\ lpc[l] \in {"len", "name"} /\ lpc'[l] \in {"name", "wait", "failed"}
      /\ UNCHANGED <<cond, bpc, cur, bytes, len, answer>>
  BY DEF SendLen, SendName, SendTo, bVars, IInv, TypeOK
<1>2. \A m \in Listener : m # l => lpc'[m] = lpc[m] /\ up'[m] = up[m] /\ closed'[m] = closed[m]
  BY DEF SendLen, SendName, SendTo, IInv, TypeOK
<1>3. answer[l] = "none"
  BY <1>1 DEF Heard
<1>4. bpc = "ask" => cur # l /\ cur \in Listener
  BY <1>1 DEF Heard, IInv, Ranges
<1>5. bpc = "name" /\ bytes = len => cur # l /\ cur \in Listener
  <2>1. bpc = "name" => cur \in Listener /\ len # 0
    BY Messages, HandshakeAssumption DEF IInv, Ranges, WholeNames, InCalm
  <2>2. QED
    BY <1>1, <2>1 DEF IInv, WholeNames, InCalm
<1>6. QED
  BY <1>1, <1>2, <1>3, <1>4, <1>5 DEF Heard, InCalm

LEMMA ConnectKeepsHeard ==
  ASSUME IInv, Heard, InCalm, NEW l \in Listener, Connect(l) \/ ConnectFails(l)
  PROVE  Heard'
<1>1. /\ lpc[l] = "browse" /\ lpc'[l] \in {"len", "failed"}
      /\ UNCHANGED <<cond, bpc, cur, bytes, len, up, answer, closed>>
  BY DEF Connect, ConnectFails, bVars, IInv, TypeOK
<1>2. \A m \in Listener : m # l => lpc'[m] = lpc[m]
  BY DEF Connect, ConnectFails, IInv, TypeOK
<1>3. cur # l /\ answer[l] = "none"
  BY <1>1 DEF IInv, Accord, Requests, Untouched
<1>4. bpc = "ask" => cur \in Listener
  BY DEF IInv, Ranges
<1>5. QED
  BY <1>1, <1>2, <1>3, <1>4 DEF Heard, InCalm

\* In calm circumstances a listener that waits reads its answer or a reset, whole
\* and never while its name is on the screen.
LEMMA CalmReply ==
  ASSUME IInv, Heard, InCalm, NEW l \in Listener,
         RecvReply(l) \/ ReplyEof(l) \/ ReplyError(l)
  PROVE  /\ lpc[l] = "wait" /\ (bpc = "ask" => cur # l)
         /\ \/ answer[l] = "yes" /\ lpc'[l] = "receive"
            \/ answer[l] = "no" /\ lpc'[l] = "rejected"
            \/ answer[l] = "none" /\ lpc'[l] = "failed"
         /\ \A m \in Listener : m # l => lpc'[m] = lpc[m]
         /\ UNCHANGED <<cond, bpc, cur, bytes, len, buf, up, answer, closed>>
<1>1. /\ lpc[l] = "wait"
      /\ UNCHANGED <<cond, bpc, cur, bytes, len, buf, up, answer, closed>>
  BY DEF RecvReply, ReplyEof, ReplyError, bVars
<1>2. \A m \in Listener : m # l => lpc'[m] = lpc[m]
  BY DEF RecvReply, ReplyEof, ReplyError, IInv, TypeOK
<1>3. down[l] = Said(l)
  BY <1>1 DEF IInv, Accord, Answers, Asking
<1>4. INT \in Nat /\ INT >= 2
  BY HandshakeAssumption
<1>5. bpc = "ask" /\ cur = l => answer[l] = "none" /\ closed[l] = "open"
  BY DEF IInv, Accord, Answers
<1>6. CASE RecvReply(l)
  <2>1. PICK k \in Reads(INT, down[l]) :
          lpc' = [lpc EXCEPT ![l] =
                    IF k = INT /\ down[l][INT] # NUL THEN "receive" ELSE "rejected"]
    BY <1>6 DEF RecvReply
  <2>2. answer[l] # "none"
    <3>1. down[l] # <<>>
      BY <1>4, <2>1, EmptySeq DEF Reads
    <3>2. QED
      BY <1>3, <3>1 DEF Said
  <2>3. answer[l] \in {"yes", "no"}
    BY <2>2 DEF IInv, TypeOK
  <2>4. down[l] = NetInt(IF answer[l] = "yes" THEN ONE ELSE NUL)
    BY <1>3, <2>2 DEF Said
  <2>5. Len(down[l]) = INT /\ down[l][INT] = IF answer[l] = "yes" THEN ONE ELSE NUL
    <3>1. ASSUME NEW last \in Byte, down[l] = NetInt(last)
          PROVE  Len(down[l]) = INT /\ down[l][INT] = last
      BY <1>4, <3>1, Messages
    <3>2. QED
      BY <2>4, <3>1, Messages
  <2>6. k = INT
    BY <1>4, <2>1, <2>5 DEF Reads, InCalm
  <2>7. lpc'[l] = IF answer[l] = "yes" THEN "receive" ELSE "rejected"
    BY <2>1, <2>5, <2>6, Messages DEF IInv, TypeOK
  <2>8. QED
    BY <1>1, <1>2, <1>5, <2>2, <2>3, <2>7
<1>7. CASE ReplyEof(l)
  <2>1. answer[l] = "no"
    BY <1>7 DEF ReplyEof, IInv, Accord, Answers, Outcomes, InCalm
  <2>2. NetInt(NUL) # <<>>
    BY <1>4, Messages, EmptySeq
  <2>3. QED
    BY <1>3, <1>7, <2>1, <2>2 DEF ReplyEof, Said
<1>8. CASE ReplyError(l)
  <2>1. closed[l] = "rst" /\ lpc'[l] = "failed"
    BY <1>8 DEF ReplyError, IInv, TypeOK
  <2>2. answer[l] = "none"
    BY <2>1 DEF Heard
  <2>3. QED
    BY <1>1, <1>2, <1>5, <2>1, <2>2
<1>9. QED
  BY <1>6, <1>7, <1>8

LEMMA ReplyKeepsHeard ==
  ASSUME IInv, Heard, InCalm, NEW l \in Listener,
         RecvReply(l) \/ ReplyEof(l) \/ ReplyError(l)
  PROVE  Heard'
<1>1. bpc = "ask" => cur \in Listener
  BY DEF IInv, Ranges
<1>2. QED
  BY <1>1, CalmReply DEF Heard, InCalm

LEMMA InitHeard == Init => Heard
BY DEF Init, Heard

LEMMA HeardStep == IInv /\ IInv' /\ Heard /\ [Next]_vars => Heard'
<1> SUFFICES ASSUME IInv, IInv', Heard, [Next]_vars
             PROVE  Heard'
  OBVIOUS
<1>0. cond' = cond
  BY CircumstancesStay
<1> SUFFICES ASSUME InCalm
             PROVE  Heard'
  BY <1>0 DEF Heard, InCalm
<1>1. CASE Broadcaster
  BY <1>1, BroadcasterKeepsHeard, RecvNameKeepsHeard, PromptKeepsHeard, AnswerKeepsHeard
     DEF Broadcaster
<1>2. ASSUME NEW l \in Listener, Connect(l) \/ ConnectFails(l) \/ Request(l)
      PROVE  Heard'
  BY <1>2, ConnectKeepsHeard, SendKeepsHeard, ReplyKeepsHeard DEF Request
<1>3. CASE KillBroadcaster \/ \E l \in Listener : KillListener(l)
  BY <1>3 DEF KillBroadcaster, KillListener, InCalm
<1>4. CASE (\E k \in {"move", "enter"} : Type(k)) \/ Ended \/ UNCHANGED vars
  BY <1>4 DEF Type, Ended, vars, bVars, Heard, InCalm
<1>5. QED
  BY <1>1, <1>2, <1>3, <1>4 DEF Next

\* The name in the buffer is the name of one listener: the one accepted last.
LEMMA AskedIs == IInv /\ ~cond.short => Asked = IF bpc = "ask" THEN cur ELSE NoOne
<1> SUFFICES ASSUME IInv, ~cond.short, bpc = "ask"
             PROVE  Asked = cur
  BY DEF Asked
<1>1. cur \in Listener /\ NameIn(cur)
  BY DEF IInv, Ranges, WholeNames, NameInBuffer, NameIn
<1>2. ASSUME NEW l \in Listener, NameIn(l)
      PROVE  l = cur
  <2>1. \A m \in Listener : 0 \in 0..NameLen[m]-1
    BY Messages, HandshakeAssumption
  <2>2. buf[0] = NameByte(l, 0) /\ buf[0] = NameByte(cur, 0)
    BY <1>1, <1>2, <2>1 DEF NameIn
  <2>3. QED
    BY <2>2 DEF NameByte
<1>3. QED
  BY <1>1, <1>2 DEF Asked

\* What the steps of the broadcaster are to its user.
LEMMA BroadcasterPromises ==
  ASSUME IInv, Heard, InCalm, Broadcaster,
         Asked = IF bpc = "ask" THEN cur ELSE NoOne,
         Asked' = IF bpc' = "ask" THEN cur' ELSE NoOne
  PROVE  Promise!Next \/ UNCHANGED Promise!consentVars
<1> USE DEF Promise!Next, Promise!consentVars
<1>1. NoOne \notin Listener
  BY HandshakeAssumption
<1>2. Outcome' = Outcome
  <2>1. lpc' = lpc
    BY DEF Broadcaster, Accept, NoConnection, RecvLen, RecvName, RecvEof, Prompt, Move,
           AnswerYes, AnswerNo, Answer, KeyCancel, KeyOther, KeyTimeout, vars
  <2>2. QED
    BY <2>1 DEF Outcome
<1>3. CASE NoConnection \/ KeyOther \/ KeyTimeout \/ Accept \/ RecvLen \/ RecvName
             \/ RecvEof \/ Move
  <2>1. bpc' = bpc \/ (bpc # "ask" /\ bpc' # "ask")
    BY <1>3 DEF NoConnection, KeyOther, KeyTimeout, Accept, RecvLen, RecvName, RecvEof,
                Move, vars, bVars
  <2>2. bpc' = "ask" => cur' = cur
    BY <1>3 DEF NoConnection, KeyOther, KeyTimeout, Accept, RecvLen, RecvName, RecvEof,
                Move, vars, bVars
  <2>3. answer' = answer /\ (Listening' <=> Listening)
    BY <1>3 DEF NoConnection, KeyOther, KeyTimeout, Accept, RecvLen, RecvName, RecvEof,
                Move, vars, bVars, Listening
  <2>4. QED
    BY <1>2, <2>1, <2>2, <2>3
<1>4. CASE Prompt
  <2>1. /\ bpc = "name" /\ bpc' = "ask" /\ cur' = cur /\ answer' = answer
        /\ cur \in Listener /\ bytes = len
    BY <1>4 DEF Prompt, IInv, Ranges
  <2>2. answer[cur] = "none"
    BY <2>1 DEF IInv, Accord, Answers
  <2>3. Outcome[cur] = "none"
    <3>1. len # 0
      BY <2>1, Messages, HandshakeAssumption DEF IInv, WholeNames, InCalm
    <3>2. lpc[cur] = "wait"
      BY <2>1, <3>1 DEF IInv, WholeNames, InCalm, Heard
    <3>3. QED
      BY <2>1, <3>2 DEF Outcome
  <2>4. Promise!Ask(cur)
    BY <1>2, <2>1, <2>2, <2>3 DEF Promise!Ask, Listening
  <2>5. QED
    BY <2>1, <2>4
<1>5. CASE AnswerYes
  <2>1. Promise!Accept(cur)
    BY <1>2, <1>5 DEF AnswerYes, Answer, Promise!Accept, Listening
  <2>2. QED
    BY <1>5, <2>1 DEF AnswerYes, Answer, IInv, Ranges
<1>6. CASE AnswerNo
  <2>1. Promise!Refuse(cur)
    BY <1>2, <1>6 DEF AnswerNo, Answer, Promise!Refuse, Listening
  <2>2. QED
    BY <1>6, <2>1 DEF AnswerNo, Answer, IInv, Ranges
<1>7. CASE KeyCancel
  BY <1>2, <1>7 DEF KeyCancel, Promise!Cancel, Listening
<1>8. QED
  BY <1>3, <1>4, <1>5, <1>6, <1>7 DEF Broadcaster

\* What the end of a request is to the listener.
LEMMA ListenerPromises ==
  ASSUME IInv, Heard, InCalm, NEW l \in Listener,
         Connect(l) \/ ConnectFails(l) \/ Request(l),
         Asked = IF bpc = "ask" THEN cur ELSE NoOne,
         Asked' = IF bpc' = "ask" THEN cur' ELSE NoOne
  PROVE  Promise!Next \/ UNCHANGED Promise!consentVars
<1> USE DEF Promise!Next, Promise!consentVars
<1>1. UNCHANGED <<bpc, cur, answer>>
  BY DEF Connect, ConnectFails, Request, SendLen, SendName, SendTo, RecvReply, ReplyEof,
         ReplyError, bVars
<1>2. UNCHANGED <<Asked, Listening>>
  BY <1>1 DEF Listening
<1>3. l # NoOne
  BY HandshakeAssumption
<1>4. ASSUME NEW o \in {"receive", "rejected", "failed"}, lpc'[l] = o,
             \A m \in Listener : m # l => lpc'[m] = lpc[m],
             lpc[l] \notin {"receive", "rejected", "failed"},
             \/ o = "receive" /\ answer[l] = "yes"
             \/ o = "rejected" /\ answer[l] = "no"
             \/ o = "failed" /\ answer[l] = "none" /\ Asked # l
      PROVE  Promise!Next
  <2>1. Outcome[l] = "none" /\ Outcome' = [Outcome EXCEPT ![l] = o]
    BY <1>4 DEF Outcome
  <2>2. Promise!Conclude(l, o)
    BY <1>1, <1>2, <1>4, <2>1 DEF Promise!Conclude
  <2>3. QED
    BY <2>2
<1>5. ASSUME lpc'[l] \notin {"receive", "rejected", "failed"},
             lpc[l] \notin {"receive", "rejected", "failed"},
             \A m \in Listener : m # l => lpc'[m] = lpc[m]
      PROVE  UNCHANGED Promise!consentVars
  <2>1. Outcome' = Outcome
    BY <1>5 DEF Outcome
  <2>2. QED
    BY <1>1, <1>2, <2>1
<1>6. CASE Connect(l) \/ ConnectFails(l)
  <2>1. /\ lpc[l] = "browse" /\ lpc'[l] \in {"len", "failed"}
        /\ \A m \in Listener : m # l => lpc'[m] = lpc[m]
    BY <1>6 DEF Connect, ConnectFails, IInv, TypeOK
  <2>2. cur # l /\ answer[l] = "none"
    BY <2>1 DEF IInv, Accord, Requests, Untouched
  <2>3. QED
    BY <1>3, <1>4, <1>5, <2>1, <2>2
<1>7. CASE SendLen(l) \/ SendName(l)
  <2>1. /\ lpc[l] \in {"len", "name"} /\ lpc'[l] \in {"name", "wait", "failed"}
        /\ \A m \in Listener : m # l => lpc'[m] = lpc[m]
    BY <1>7 DEF SendLen, SendName, SendTo, IInv, TypeOK
  <2>2. answer[l] = "none" /\ (bpc = "ask" => cur # l)
    BY <2>1 DEF Heard
  <2>3. QED
    BY <1>3, <1>4, <1>5, <2>1, <2>2
<1>8. CASE RecvReply(l) \/ ReplyEof(l) \/ ReplyError(l)
  <2>1. /\ lpc[l] = "wait" /\ (bpc = "ask" => cur # l)
        /\ \/ answer[l] = "yes" /\ lpc'[l] = "receive"
           \/ answer[l] = "no" /\ lpc'[l] = "rejected"
           \/ answer[l] = "none" /\ lpc'[l] = "failed"
        /\ \A m \in Listener : m # l => lpc'[m] = lpc[m]
    BY <1>8, CalmReply
  <2>2. QED
    BY <1>3, <1>4, <2>1
<1>9. QED
  BY <1>6, <1>7, <1>8 DEF Request

LEMMA PromiseStep ==
  ASSUME IInv, Heard, InCalm, [Next]_vars,
         Asked = IF bpc = "ask" THEN cur ELSE NoOne,
         Asked' = IF bpc' = "ask" THEN cur' ELSE NoOne
  PROVE  Promise!Next \/ UNCHANGED Promise!consentVars
<1>1. CASE KillBroadcaster \/ \E l \in Listener : KillListener(l)
  BY <1>1 DEF KillBroadcaster, KillListener, InCalm
<1>2. CASE (\E k \in {"move", "enter"} : Type(k)) \/ Ended \/ UNCHANGED vars
  <2>1. UNCHANGED <<bpc, cur, answer, lpc>>
    BY <1>2 DEF Type, Ended, vars, bVars
  <2>2. QED
    BY <2>1 DEF Promise!consentVars, Outcome, Listening
<1>3. QED
  BY <1>1, <1>2, BroadcasterPromises, ListenerPromises DEF Next

\* When nobody is killed and messages come whole, discovery and listen_to_discovery
\* do what Consent promises: the answer goes to the listener whose name was on the
\* screen, and everybody comes to know theirs.
THEOREM ConsentIsKept == Spec => ConsentSpec
<1>1. Init /\ InCalm => Promise!Init
  BY DEF Init, Promise!Init, Listening, Asked, Outcome
<1>2. IInv /\ IInv' /\ Heard /\ [Next]_vars
        => [InCalm => Promise!Next]_Promise!consentVars
  <2> SUFFICES ASSUME IInv, IInv', Heard, [Next]_vars, InCalm
               PROVE  Promise!Next \/ UNCHANGED Promise!consentVars
    OBVIOUS
  <2>1. cond' = cond
    BY CircumstancesStay
  <2>2. Asked = IF bpc = "ask" THEN cur ELSE NoOne
    BY AskedIs DEF InCalm
  <2>3. (IInv /\ ~cond.short => Asked = IF bpc = "ask" THEN cur ELSE NoOne)'
    BY AskedIs, PTL
  <2>4. Asked' = IF bpc' = "ask" THEN cur' ELSE NoOne
    BY <2>1, <2>3 DEF InCalm
  <2>5. QED
    BY <2>2, <2>4, PromiseStep
<1>3. Spec => [][InCalm => Promise!Next]_Promise!consentVars
  BY <1>2, InitHeard, HeardStep, Invariance, PTL DEF Spec
<1>4. Spec => (InCalm => Promise!Init)
  BY <1>1, PTL DEF Spec
<1>5. QED
  BY <1>3, <1>4 DEF ConsentSpec, InCalm
=============================================================================
