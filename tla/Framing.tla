------------------------------ MODULE Framing ------------------------------
(***************************************************************************)
(* Messages on a connection: bio_lsp_send_msg and bio_lsp_recv_msg_header  *)
(* of src/lsp.c, buxn_ls_end_msg and buxn_ls_recv_msg of src/ls.c.         *)
(*                                                                         *)
(* The coroutines of a session write to one output buffer; its capacity    *)
(* and its flushing are bio's.  A header line is one token and so is a     *)
(* byte of a body, which says whose it is.                                 *)
(***************************************************************************)
EXTENDS Integers, Sequences, FiniteSets

CONSTANTS Writers,     \* the coroutines that send
          Messages, Size,
          Extra,       \* messages with another header line: only clients send them
          Capacity,    \* of the output buffer, in tokens
          MaxSent

ASSUME FramingAssumption ==
    /\ Size \in [Messages -> Nat \ {0}]
    /\ Extra \subseteq Messages
    /\ Capacity \in Nat \ {0}
    /\ MaxSent \in Nat

VARIABLES
    sent,      \* the messages, in the order in which sending began
    pending,   \* what a writer has yet to put in the buffer
    wpc,
    out,       \* out_buf
    wire,      \* what has reached the other end
    open,      \* the connection
    rpc,
    length,    \* content_length
    body,      \* recv_buf
    received,  \* the messages that were parsed
    torn       \* history: a send began while another was half in the buffer

vars == <<sent, pending, wpc, out, wire, open, rpc, length, body, received, torn>>

LengthLine(n) == [line |-> "length", n |-> n]
OtherLine == [line |-> "other", n |-> 0]
EmptyLine == [line |-> "empty", n |-> 0]
Lines == [line : {"length"}, n : Nat] \cup {OtherLine, EmptyLine}
BodyBytes == [id : 1 .. MaxSent, k : Nat]
Tokens == Lines \cup BodyBytes

IsLine(x) == x \in Lines

\* Every variable has a value of its kind.
TypeOK ==
    /\ sent \in Seq(Messages)
    /\ Len(sent) <= MaxSent
    /\ pending \in [Writers -> Seq(Tokens)]
    /\ wpc \in [Writers -> {"idle", "write", "flush"}]
    /\ out \in Seq(Tokens)
    /\ Len(out) <= Capacity
    /\ wire \in Seq(Tokens)
    /\ open \in BOOLEAN
    /\ rpc \in {"header", "body", "failed"}
    /\ length \in Nat
    /\ body \in Seq(Tokens)
    /\ received \in Seq(1 .. MaxSent)
    /\ torn \in BOOLEAN

Init ==
    /\ sent = <<>>
    /\ pending = [w \in Writers |-> <<>>]
    /\ wpc = [w \in Writers |-> "idle"]
    /\ out = <<>>
    /\ wire = <<>>
    /\ open = TRUE
    /\ rpc = "header"
    /\ length = 0
    /\ body = <<>>
    /\ received = <<>>
    /\ torn = FALSE

-----------------------------------------------------------------------------
(***************************************************************************)
(* Sending                                                                 *)
(***************************************************************************)
Body(m, id) == [k \in 1 .. Size[m] |-> [id |-> id, k |-> k]]

\* Mutant of Frame: the length counts the end of a string too.
FrameTerminated(m, id) == <<LengthLine(Size[m] + 1), EmptyLine>> \o Body(m, id)

\* The header and the body of message m, the id-th to be sent
Frame(m, id) ==
    (IF m \in Extra THEN <<OtherLine>> ELSE <<>>)
      \o <<LengthLine(Size[m]), EmptyLine>> \o Body(m, id)

\* bio_buffered_write_exactly: what fits goes to the buffer, and the writer waits
\* for room or, when all has been written, for the flush.
Put(w, tokens) ==
    LET room == Capacity - Len(out)
        n == IF Len(tokens) < room THEN Len(tokens) ELSE room
    IN  /\ out' = out \o SubSeq(tokens, 1, n)
        /\ pending' = [pending EXCEPT ![w] = SubSeq(tokens, n + 1, Len(tokens))]
        /\ wpc' = [wpc EXCEPT ![w] = IF n = Len(tokens) THEN "flush" ELSE "write"]

\* bio_lsp_send_msg until it first waits
BeginSend(w, m) ==
    /\ wpc[w] = "idle"
    /\ Len(sent) < MaxSent
    /\ sent' = Append(sent, m)
    /\ torn' = (torn \/ \E v \in Writers : wpc[v] = "write")
    /\ Put(w, Frame(m, Len(sent) + 1))
    /\ UNCHANGED <<wire, open, rpc, length, body, received>>

ResumeWrite(w) ==
    /\ wpc[w] = "write"
    /\ Len(out) < Capacity
    /\ Put(w, pending[w])
    /\ UNCHANGED <<sent, wire, open, rpc, length, body, received, torn>>

\* The buffer goes out while someone waits for it to: it is full, or flushed.
Drain ==
    /\ open
    /\ out # <<>>
    /\ \E w \in Writers : wpc[w] = "flush" \/ (wpc[w] = "write" /\ Len(out) = Capacity)
    /\ wire' = Append(wire, Head(out))
    /\ out' = Tail(out)
    /\ UNCHANGED <<sent, pending, wpc, open, rpc, length, body, received, torn>>

\* Mutant of EndFlush: the last write is not followed by a flush.
EndFlushNot(w) ==
    /\ wpc[w] = "flush"
    /\ wpc' = [wpc EXCEPT ![w] = "idle"]
    /\ UNCHANGED <<sent, pending, out, wire, open, rpc, length, body, received, torn>>

EndFlush(w) ==
    /\ wpc[w] = "flush"
    /\ out = <<>>
    /\ wpc' = [wpc EXCEPT ![w] = "idle"]
    /\ UNCHANGED <<sent, pending, out, wire, open, rpc, length, body, received, torn>>

\* A write or flush fails: "Error while sending reply".  The rest is not sent.
SendError(w) ==
    /\ ~open
    /\ wpc[w] # "idle"
    /\ wpc' = [wpc EXCEPT ![w] = "idle"]
    /\ pending' = [pending EXCEPT ![w] = <<>>]
    /\ UNCHANGED <<sent, out, wire, open, rpc, length, body, received, torn>>

\* The connection is lost, and with it what is in the buffer.
Disconnect ==
    /\ open
    /\ open' = FALSE
    /\ UNCHANGED <<sent, pending, wpc, out, wire, rpc, length, body, received, torn>>

-----------------------------------------------------------------------------
(***************************************************************************)
(* Receiving                                                               *)
(***************************************************************************)
NextIsLine == rpc = "header" /\ wire # <<>> /\ IsLine(Head(wire))

\* A header line that is neither empty nor a content length is passed over.
RecvOther ==
    /\ NextIsLine
    /\ Head(wire).line = "other"
    /\ wire' = Tail(wire)
    /\ UNCHANGED <<sent, pending, wpc, out, open, rpc, length, body, received, torn>>

RecvLength ==
    /\ NextIsLine
    /\ Head(wire).line = "length"
    /\ length' = Head(wire).n
    /\ wire' = Tail(wire)
    /\ UNCHANGED <<sent, pending, wpc, out, open, rpc, body, received, torn>>

\* Mutant of RecvEmpty: the body of the last message stays in the buffer.
RecvEmptyKeepBody ==
    /\ NextIsLine
    /\ Head(wire).line = "empty"
    /\ rpc' = IF length = 0 THEN "failed" ELSE "body"
    /\ wire' = Tail(wire)
    /\ UNCHANGED <<sent, pending, wpc, out, open, length, body, received, torn>>

\* The end of the header, with a length or without
RecvEmpty ==
    /\ NextIsLine
    /\ Head(wire).line = "empty"
    /\ rpc' = IF length = 0 THEN "failed" ELSE "body"
    /\ body' = <<>>
    /\ wire' = Tail(wire)
    /\ UNCHANGED <<sent, pending, wpc, out, open, length, received, torn>>

RecvBody ==
    /\ rpc = "body"
    /\ Len(body) < length
    /\ wire # <<>>
    /\ body' = Append(body, Head(wire))
    /\ wire' = Tail(wire)
    /\ UNCHANGED <<sent, pending, wpc, out, open, rpc, length, received, torn>>

\* The messages whose body this is: one or none
Parsed == {id \in DOMAIN sent : body = Body(sent[id], id)}

\* bio_lsp_parse_msg
ParseMsg ==
    /\ rpc = "body"
    /\ Len(body) = length
    /\ \E id \in Parsed : received' = Append(received, id)
    /\ rpc' = "header"
    /\ length' = 0
    /\ UNCHANGED <<sent, pending, wpc, out, wire, open, body, torn>>

\* Mutant of BadJson: the message is passed over.
BadJsonContinue ==
    /\ rpc = "body"
    /\ Len(body) = length
    /\ Parsed = {}
    /\ rpc' = "header"
    /\ length' = 0
    /\ UNCHANGED <<sent, pending, wpc, out, wire, open, body, received, torn>>

BadJson ==
    /\ rpc = "body"
    /\ Len(body) = length
    /\ Parsed = {}
    /\ rpc' = "failed"
    /\ UNCHANGED <<sent, pending, wpc, out, wire, open, length, body, received, torn>>

\* The connection ends in the middle of a header or of a body.
RecvError ==
    /\ rpc \in {"header", "body"}
    /\ rpc = "body" => Len(body) < length
    /\ ~open
    /\ wire = <<>>
    /\ rpc' = "failed"
    /\ UNCHANGED <<sent, pending, wpc, out, wire, open, length, body, received, torn>>

Send(w) == (\E m \in Messages : BeginSend(w, m)) \/ ResumeWrite(w) \/ EndFlush(w) \/ SendError(w)

Receive ==
    \/ RecvOther
    \/ RecvLength
    \/ RecvEmpty
    \/ RecvBody
    \/ ParseMsg
    \/ BadJson
    \/ RecvError

Next == (\E w \in Writers : Send(w)) \/ Drain \/ Disconnect \/ Receive

Spec == Init /\ [][Next]_vars

\* bio completes the I/O of a connection that lasts and resumes who waited.
Fairness ==
    /\ \A w \in Writers : WF_vars(ResumeWrite(w)) /\ WF_vars(EndFlush(w))
    /\ WF_vars(Drain)
    /\ WF_vars(Receive)

FairSpec == Spec /\ Fairness

-----------------------------------------------------------------------------
(***************************************************************************)
(* Properties                                                              *)
(***************************************************************************)
\* The abstract channel: a message is in transit from the moment its sending
\* begins.
Transit == [k \in 1 .. Len(sent) - Len(received) |-> Len(received) + k]
Promise == INSTANCE Channel WITH Messages <- 1 .. MaxSent, transit <- Transit,
                                 broken <- torn

\* The receiver gets the messages sent, whole, in order and each once, however the
\* buffer splits them and whoever sends, until two are written into each other.
Implements == Promise!Spec

\* The receiver gives up a connection only for a reason: it ended, or two
\* messages were written into each other.
FailsWithReason == rpc = "failed" => ~open \/ torn

\* The receiver never takes a part of a body for a header line, even if messages
\* were written into each other: it has given up the connection before.
HeaderWhereExpected ==
    rpc = "header" /\ wire # <<>> => IsLine(Head(wire))

\* What was sent arrives, if the connection lasts and no message is torn.
Delivered ==
    \A k \in 1 .. MaxSent :
      Len(sent) >= k ~> (Len(received) >= k \/ ~open \/ torn)
=============================================================================
