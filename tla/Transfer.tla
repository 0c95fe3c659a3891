------------------------------ MODULE Transfer ------------------------------
(***************************************************************************)
(* A sending and a receiving ztransfer joined by one TCP connection, from  *)
(* the moment the handshake is over to the end of both processes.          *)
(***************************************************************************)
EXTENDS Sender, Receiver

vars == <<senderVars, receiverVars>>

Init == SenderInit /\ ReceiverInit

Send == SenderStep /\ UNCHANGED receiverVars

Receive ==
  /\ ReceiverStep
  /\ UNCHANGED <<sys, fsize, spc, dirs, item, told, total, offset, opened, fds, raced>>

Environment ==
  /\ Kill(rd) \/ Reset(rd) \/ Touch
  /\ UNCHANGED receiverVars

\* Both processes left their loops and nothing more can happen.
Ended ==
  /\ ~Sending
  /\ rpc \in {"done", "crashed"}
  /\ UNCHANGED vars

Next == Send \/ Receive \/ Environment \/ Ended

Spec == Init /\ [][Next]_vars

\* Both processes are plain loops that block in nothing but a call whose
\* completion enables the next action: each is scheduled and keeps going.
FairSpec == Spec /\ WF_vars(Send) /\ WF_vars(Receive)

TypeOK == SenderTypeOK /\ ReceiverTypeOK

(***************************************************************************)
(* Framing.  The stream has no marks: the receiver takes the next bytes    *)
(* for a header, a path or a file's content by counting.                   *)
(***************************************************************************)

\* The bytes that are about to be read are the ones the receiver's position
\* in its loops expects: no header is taken for content and no content for a
\* header, whatever pieces recv returned, as long as no file changed size
\* between the stat that announced it and the stat that bounded its sending, and
\* none was announced that CreateFile then refused (raced).
Framing ==
  ~raced /\ Available > 0 =>
    LET next == wire[rd+1]
    IN  CASE rpc = "meta" /\ read = 0 ->
               next = Stop \/ (next[1] = "meta" /\ next[3] = 0)
          [] rpc = "meta" /\ read > 0 -> next[1] = "meta" /\ next[3] = read
          [] rpc = "path" -> next[1] = "path" /\ next[3] = read
          [] rpc = "data" /\ tot # hdr.size -> next = DataByte(path, tot)
          [] OTHER -> TRUE

\* While there are bytes to come every recv asks for at least one and stores it
\* in the buffer where the last one ended: a count that a failed recv took below
\* 0 is never added to another, and no loop has passed the end it tests for.
RecvInBuffer ==
  Available > 0 =>
    /\ rpc = "meta" => read \in 0..METADATA-1
    /\ rpc = "path" => read \in 0..hdr.len-1
    /\ rpc = "data" => tot \in 0..hdr.size

\* What was written to a file of the receiver is a prefix of the sender's
\* file: no byte is lost, repeated, out of order or another file's, as long as as
\* many bytes of each file were sent as its header announced: a size that changed
\* in between, or a file that Windows skips, makes headers of content (raced).
CopiesArePrefixes ==
  ~raced => \A n \in File : content[n] = Chunk(n, 0, Len(content[n]))

\* receive_file never gets a NULL stream from fopen while the sender lives:
\* the folder of every file was created before the file came, as long as each file
\* was sent in the size announced (~raced).
ParentsComeFirst ==
  ~raced /\ (Sending \/ spc = "done") => rpc # "crashed"

\* When the receiver reports the end it holds the whole tree, every file with
\* all the bytes its header announced, unless the sender sent another number of
\* them: a sender that dies, whose connection is reset or that gives up on a file
\* is never taken for one that finished.  There is one exception: the test for
\* the stop byte also reads a buffer that a failed recv left alone, and content
\* equal to 2 in it passes for the stop byte.
EndMeansCopied ==
  /\ ~raced /\ rpc = "done"
  /\ buf[0] = Stop \/ \A n \in Twos : content[n] = <<>>
  => /\ made = Node
     /\ \A n \in File : \E i \in 1..Len(wire) :
          /\ wire[i] = MetaByte(n, Len(content[n]), 0)
          /\ content[n] = Chunk(n, 0, Len(content[n]))

\* A file once written is never truncated or written over: no path comes twice, as
\* long as each file was sent in the size announced.  When one was not (raced),
\* content is read as headers, whose paths may be any.
NeverOverwritten ==
  [][~raced => \A n \in File :
       content'[n] # content[n] =>
         /\ Len(content[n]) <= Len(content'[n])
         /\ SubSeq(content'[n], 1, Len(content[n])) = content[n]]_vars

\* The transfer implements its promise.
Delivery ==
  INSTANCE FileDelivery WITH
    size <- fsize,
    copied <- made,
    count <- [n \in File |-> Len(content[n])],
    over <- (rpc = "done")

DeliverySpec == Delivery!Spec

\* Both processes end, and the receiver by reporting the end.
BothEnd == <>(spc = "done" /\ rpc = "done")

\* The receiver leaves its loops, whatever happens to the sender.
ReceiverEnds == <>(rpc \in {"done", "crashed"})
=============================================================================
