-------------------------------- MODULE Shim --------------------------------
(***************************************************************************)
(* The proxy between an editor and a server: src/shim.c.                   *)
(*                                                                         *)
(* Two coroutines, called "stdin" and "stdout" in the code, copy from a    *)
(* source to a destination, a buffer at a time; each may be suspended in   *)
(* its read and in its write.  The first to end ends the shim.  The editor *)
(* and the server are external: they write, and close their end, at will.  *)
(***************************************************************************)
EXTENDS Integers, Sequences

CONSTANTS BufSize,    \* BUF_SIZE
          MaxBytes    \* bound on what each side writes

ASSUME ShimAssumption == BufSize \in Nat \ {0} /\ MaxBytes \in Nat

VARIABLES
    main,      \* shim_entry
    fallback,  \* the mode is hybrid, not shim
    pc, buf,   \* of the two coroutines
    typed,     \* what the editor has written to stdin
    eof,       \* the editor has closed stdin
    stdin,     \* the part of it not read yet
    up,        \* in the socket, towards the server
    written,   \* what the server has sent
    down,      \* in the socket, towards the shim
    shown,     \* what the editor has got from stdout
    sock,      \* the socket of the shim
    server,    \* whether the server's end is open
    heard      \* what the server has received

vars == <<main, fallback, pc, buf, typed, eof, stdin, up, written, down, shown, sock,
          server, heard>>

Pumps == {"stdin", "stdout"}

\* A coroutine has returned: at the end of what it reads, or on an error.
Ended(p) == pc[p] \in {"done", "failed"}

Streams == Seq(1 .. MaxBytes)

\* Every variable has a value of its kind.
TypeOK ==
    /\ main \in {"connect", "wait", "returned", "stdio", "failed"}
    /\ fallback \in BOOLEAN
    /\ pc \in [Pumps -> {"off", "read", "write", "done", "failed"}]
    /\ buf \in [Pumps -> Streams]
    /\ \A p \in Pumps : Len(buf[p]) <= BufSize
    /\ {typed, stdin, up, written, down, shown, heard} \subseteq Streams
    /\ {eof, server} \subseteq BOOLEAN
    /\ sock \in {"none", "open", "closed"}

Init ==
    /\ main = "connect"
    /\ fallback \in BOOLEAN
    /\ pc = [p \in Pumps |-> "off"]
    /\ buf = [p \in Pumps |-> <<>>]
    /\ typed = <<>>
    /\ eof = FALSE
    /\ stdin = <<>>
    /\ up = <<>>
    /\ written = <<>>
    /\ down = <<>>
    /\ shown = <<>>
    /\ sock = "none"
    /\ server = TRUE
    /\ heard = <<>>

-----------------------------------------------------------------------------
\* shim_entry until it waits for one of the two
Connect ==
    /\ main = "connect"
    /\ server
    /\ main' = "wait"
    /\ sock' = "open"
    /\ pc' = [p \in Pumps |-> "read"]
    /\ UNCHANGED <<fallback, buf, typed, eof, stdin, up, written, down, shown, server, heard>>

\* No server: "Falling back to stdio", or an error
ConnectError ==
    /\ main = "connect"
    /\ main' = IF fallback THEN "stdio" ELSE "failed"
    /\ UNCHANGED <<fallback, pc, buf, typed, eof, stdin, up, written, down, shown, sock,
                   server, heard>>

\* Mutant of Close: the shim waits for both.
CloseAfterBoth ==
    /\ main = "wait"
    /\ \A p \in Pumps : Ended(p)
    /\ main' = "returned"
    /\ sock' = "closed"
    /\ UNCHANGED <<fallback, pc, buf, typed, eof, stdin, up, written, down, shown, server,
                   heard>>

\* One of the two has ended: the socket is closed and shim_entry returns.  What
\* the server has sent and the shim not received is gone.
Close ==
    /\ main = "wait"
    /\ \E p \in Pumps : Ended(p)
    /\ main' = "returned"
    /\ sock' = "closed"
    /\ down' = <<>>
    /\ UNCHANGED <<fallback, pc, buf, typed, eof, stdin, up, written, shown, server, heard>>

\* Mutant of ReadStdin: all that there is
ReadStdinAll ==
    /\ pc["stdin"] = "read"
    /\ stdin # <<>>
    /\ buf' = [buf EXCEPT !["stdin"] = stdin]
    /\ stdin' = <<>>
    /\ pc' = [pc EXCEPT !["stdin"] = "write"]
    /\ UNCHANGED <<main, fallback, typed, eof, up, written, down, shown, sock, server, heard>>

\* bio_fread: some of what there is, at most a buffer full
ReadStdin ==
    /\ pc["stdin"] = "read"
    /\ \E n \in 1 .. BufSize :
         /\ n <= Len(stdin)
         /\ buf' = [buf EXCEPT !["stdin"] = SubSeq(stdin, 1, n)]
         /\ stdin' = SubSeq(stdin, n + 1, Len(stdin))
    /\ pc' = [pc EXCEPT !["stdin"] = "write"]
    /\ UNCHANGED <<main, fallback, typed, eof, up, written, down, shown, sock, server, heard>>

\* bio_fread reads nothing: the end of the file
EndStdin ==
    /\ pc["stdin"] = "read"
    /\ eof
    /\ stdin = <<>>
    /\ pc' = [pc EXCEPT !["stdin"] = "done"]
    /\ UNCHANGED <<main, fallback, buf, typed, eof, stdin, up, written, down, shown, sock,
                   server, heard>>

\* bio_fread reads nothing: an error
ReadError ==
    /\ pc["stdin"] = "read"
    /\ pc' = [pc EXCEPT !["stdin"] = "failed"]
    /\ UNCHANGED <<main, fallback, buf, typed, eof, stdin, up, written, down, shown, sock,
                   server, heard>>

\* Mutant of SendToServer: a part of the buffer is sent and taken for the whole.
SendSomeToServer ==
    /\ pc["stdin"] = "write"
    /\ sock = "open" /\ server
    /\ \E n \in 1 .. Len(buf["stdin"]) : up' = up \o SubSeq(buf["stdin"], 1, n)
    /\ buf' = [buf EXCEPT !["stdin"] = <<>>]
    /\ pc' = [pc EXCEPT !["stdin"] = "read"]
    /\ UNCHANGED <<main, fallback, typed, eof, stdin, written, down, shown, sock, server, heard>>

\* bio_net_send_exactly, one send of it: some of the buffer, and on with the rest
SendToServer ==
    /\ pc["stdin"] = "write"
    /\ sock = "open" /\ server
    /\ \E n \in 1 .. Len(buf["stdin"]) :
         /\ up' = up \o SubSeq(buf["stdin"], 1, n)
         /\ buf' = [buf EXCEPT !["stdin"] = SubSeq(buf["stdin"], n + 1, Len(buf["stdin"]))]
         /\ pc' = IF n = Len(buf["stdin"]) THEN [pc EXCEPT !["stdin"] = "read"] ELSE pc
    /\ UNCHANGED <<main, fallback, typed, eof, stdin, written, down, shown, sock, server, heard>>

\* A send fails, maybe after others of the same buffer: what is left of the buffer
\* is never sent.
SendError ==
    /\ pc["stdin"] = "write"
    /\ sock = "closed" \/ ~server
    /\ pc' = [pc EXCEPT !["stdin"] = "failed"]
    /\ UNCHANGED <<main, fallback, buf, typed, eof, stdin, up, written, down, shown, sock,
                   server, heard>>

\* bio_net_recv
RecvFromServer ==
    /\ pc["stdout"] = "read"
    /\ sock = "open"
    /\ \E n \in 1 .. BufSize :
         /\ n <= Len(down)
         /\ buf' = [buf EXCEPT !["stdout"] = SubSeq(down, 1, n)]
         /\ down' = SubSeq(down, n + 1, Len(down))
    /\ pc' = [pc EXCEPT !["stdout"] = "write"]
    /\ UNCHANGED <<main, fallback, typed, eof, stdin, up, written, shown, sock, server, heard>>

\* bio_net_recv receives nothing: the server has closed its end.
EndRecv ==
    /\ pc["stdout"] = "read"
    /\ sock = "open"
    /\ ~server
    /\ down = <<>>
    /\ pc' = [pc EXCEPT !["stdout"] = "done"]
    /\ UNCHANGED <<main, fallback, buf, typed, eof, stdin, up, written, down, shown, sock,
                   server, heard>>

\* bio_net_recv receives nothing: an error, as once the shim has closed the socket
RecvError ==
    /\ pc["stdout"] = "read"
    /\ pc' = [pc EXCEPT !["stdout"] = "failed"]
    /\ UNCHANGED <<main, fallback, buf, typed, eof, stdin, up, written, down, shown, sock,
                   server, heard>>

\* Mutant of WriteStdout: a short write is taken for a complete one.
WriteSomeStdout ==
    /\ pc["stdout"] = "write"
    /\ \E n \in 1 .. Len(buf["stdout"]) : shown' = shown \o SubSeq(buf["stdout"], 1, n)
    /\ buf' = [buf EXCEPT !["stdout"] = <<>>]
    /\ pc' = [pc EXCEPT !["stdout"] = "read"]
    /\ UNCHANGED <<main, fallback, typed, eof, stdin, up, written, down, sock, server, heard>>

\* bio_fwrite_exactly, one write of it
WriteStdout ==
    /\ pc["stdout"] = "write"
    /\ \E n \in 1 .. Len(buf["stdout"]) :
         /\ shown' = shown \o SubSeq(buf["stdout"], 1, n)
         /\ buf' = [buf EXCEPT !["stdout"] = SubSeq(buf["stdout"], n + 1, Len(buf["stdout"]))]
         /\ pc' = IF n = Len(buf["stdout"]) THEN [pc EXCEPT !["stdout"] = "read"] ELSE pc
    /\ UNCHANGED <<main, fallback, typed, eof, stdin, up, written, down, sock, server, heard>>

\* The editor, which has closed its end, reads no more: what is left of the buffer
\* is never shown.
WriteError ==
    /\ pc["stdout"] = "write"
    /\ eof
    /\ pc' = [pc EXCEPT !["stdout"] = "failed"]
    /\ UNCHANGED <<main, fallback, buf, typed, eof, stdin, up, written, down, shown, sock,
                   server, heard>>

-----------------------------------------------------------------------------
(***************************************************************************)
(* The editor and the server                                               *)
(***************************************************************************)
EditorWrites ==
    /\ ~eof
    /\ Len(typed) < MaxBytes
    /\ typed' = Append(typed, Len(typed) + 1)
    /\ stdin' = Append(stdin, Len(typed) + 1)
    /\ UNCHANGED <<main, fallback, pc, buf, eof, up, written, down, shown, sock, server, heard>>

EditorCloses ==
    /\ ~eof
    /\ eof' = TRUE
    /\ UNCHANGED <<main, fallback, pc, buf, typed, stdin, up, written, down, shown, sock,
                   server, heard>>

ServerReads ==
    /\ server
    /\ up # <<>>
    /\ heard' = Append(heard, Head(up))
    /\ up' = Tail(up)
    /\ UNCHANGED <<main, fallback, pc, buf, typed, eof, stdin, written, down, shown, sock, server>>

\* A reply: the server sends no more bytes than it has received.
ServerWrites ==
    /\ server
    /\ Len(written) < Len(heard)
    /\ written' = Append(written, Len(written) + 1)
    /\ down' = IF sock = "open" THEN Append(down, Len(written) + 1) ELSE down
    /\ UNCHANGED <<main, fallback, pc, buf, typed, eof, stdin, up, shown, sock, server, heard>>

ServerCloses ==
    /\ server
    /\ server' = FALSE
    /\ UNCHANGED <<main, fallback, pc, buf, typed, eof, stdin, up, written, down, shown, sock, heard>>

Forward ==
    \/ ReadStdin
    \/ EndStdin
    \/ ReadError
    \/ SendToServer
    \/ SendError
    \/ RecvFromServer
    \/ EndRecv
    \/ RecvError
    \/ WriteStdout
    \/ WriteError

Next ==
    \/ Connect
    \/ ConnectError
    \/ Close
    \/ Forward
    \/ EditorWrites
    \/ EditorCloses
    \/ ServerReads
    \/ ServerWrites
    \/ ServerCloses

Spec == Init /\ [][Next]_vars

\* bio completes I/O that can complete, in either direction, and resumes shim_entry.
\* An error need not happen, unless the shim has closed the socket.
Fairness ==
    /\ WF_vars(Connect \/ ConnectError)
    /\ WF_vars(Close)
    /\ WF_vars(ReadStdin \/ EndStdin \/ SendToServer \/ SendError)
    /\ WF_vars(\/ RecvFromServer \/ EndRecv \/ WriteStdout \/ WriteError
               \/ RecvError /\ sock = "closed")

FairSpec == Spec /\ Fairness

-----------------------------------------------------------------------------
(***************************************************************************)
(* Properties                                                              *)
(***************************************************************************)
\* What the editor types reaches the server in order, whole and once: each byte has
\* arrived, is in the socket, in the buffer, or still to be read.  A coroutine that
\* fails takes the rest of its buffer with it; one that meets the end of the file
\* has left nothing behind, in the buffer or unread.
UpInOrder ==
    /\ typed = heard \o up \o buf["stdin"] \o stdin
    /\ pc["stdin"] = "done" => typed = heard \o up

\* The editor gets the replies in order and without a gap, and all of them when the
\* server closes the connection in its time; the shim that closes the socket, or
\* fails, may lose the last of them.
DownInOrder ==
    /\ Len(shown) <= Len(written)
    /\ \A k \in DOMAIN shown : shown[k] = k
    /\ sock = "open" => written = shown \o buf["stdout"] \o down
    /\ pc["stdout"] = "done" => shown = written

\* Once the editor has closed stdin the process ends: both coroutines stop, and
\* neither is left waiting for the other.
Ends == eof /\ main = "wait" ~> main = "returned" /\ \A p \in Pumps : Ended(p)
=============================================================================
