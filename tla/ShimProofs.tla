----------------------------- MODULE ShimProofs -----------------------------
(***************************************************************************)
(* Theorems about Shim, for buffers and streams of any length.             *)
(***************************************************************************)
EXTENDS Shim, SequenceTheorems, TLAPS

\* The buffer is empty except while a coroutine writes, or once it has failed.
BufInv == \A p \in Pumps : pc[p] \in {"off", "read", "done"} => buf[p] = <<>>

\* A coroutine that is done has met the end of what it reads.
EndInv ==
    /\ pc["stdin"] = "done" => eof /\ stdin = <<>>
    /\ pc["stdout"] = "done" => ~server /\ shown = written

\* The editor and the server write numbered bytes, the server no more than it has
\* received.
NumberInv ==
    /\ Len(typed) <= MaxBytes
    /\ Len(written) <= Len(heard)
    /\ \A k \in 1 .. Len(written) : written[k] = k

\* What the server has written is what the editor has got, what is in the buffer
\* and the socket, and a rest that was lost with the socket.
DownInv ==
    \E lost \in Streams :
      /\ written = ((shown \o buf["stdout"]) \o down) \o lost
      /\ sock # "closed" => lost = <<>>

\* Before the connection nothing has reached the server.
FreshInv ==
    /\ main = "connect" => sock = "none" /\ \A p \in Pumps : pc[p] = "off"
    /\ sock = "none" => up = <<>> /\ heard = <<>>

\* Every byte from the editor is somewhere on its way.
UpInv == typed = heard \o up \o buf["stdin"] \o stdin

ShimInv == TypeOK /\ BufInv /\ EndInv /\ NumberInv /\ UpInv /\ DownInv /\ FreshInv

-----------------------------------------------------------------------------
(***************************************************************************)
(* Moving bytes along a concatenation                                      *)
(***************************************************************************)
\* Names under which the provers take \o and Append as they are
Join(a, b) == a \o b
Add(s, e) == Append(s, e)

LEMMA Assoc ==
    ASSUME NEW S, NEW a \in Seq(S), NEW b \in Seq(S), NEW c \in Seq(S)
    PROVE  (a \o b) \o c = a \o (b \o c)
OBVIOUS

\* Two parts are put together behind a third.
LEMMA Regroup ==
    ASSUME NEW S, NEW a \in Seq(S), NEW b \in Seq(S), NEW c \in Seq(S)
    PROVE  (a \o b) \o c = (a \o <<>>) \o (b \o c)
<1>1. (a \o b) \o c = a \o (b \o c)
  BY Assoc
<1>2. a \o <<>> = a
  BY ConcatEmptySeq
<1>3. QED
  BY <1>1, <1>2

\* A prefix of the source goes to an empty buffer.
LEMMA Taken ==
    ASSUME NEW S, NEW a \in Seq(S), NEW s \in Seq(S), NEW n \in 1 .. Len(s)
    PROVE  /\ SubSeq(s, 1, n) \in Seq(S)
           /\ SubSeq(s, n + 1, Len(s)) \in Seq(S)
           /\ Len(SubSeq(s, 1, n)) = n
           /\ (a \o SubSeq(s, 1, n)) \o SubSeq(s, n + 1, Len(s)) = (a \o <<>>) \o s
<1>1. /\ SubSeq(s, 1, n) \in Seq(S)
      /\ SubSeq(s, n + 1, Len(s)) \in Seq(S)
      /\ Len(SubSeq(s, 1, n)) = n
  <2>1. Len(s) \in Nat /\ n \in Int /\ \A i \in 1 .. Len(s) : s[i] \in S
    BY LenProperties, ElementOfSeq
  <2>2. SubSeq(s, 1, n) \in Seq(S) /\ Len(SubSeq(s, 1, n)) = n
    <3>1. \A i \in 1 .. n : s[i] \in S
      BY <2>1
    <3>2. QED
      BY <2>1, <3>1, SubSeqProperties
  <2>3. SubSeq(s, n + 1, Len(s)) \in Seq(S)
    <3>1. \A i \in n + 1 .. Len(s) : s[i] \in S
      BY <2>1
    <3>2. QED
      BY <2>1, <3>1, SubSeqProperties
  <2>4. QED
    BY <2>2, <2>3
<1>2. SubSeq(s, 1, n) \o SubSeq(s, n + 1, Len(s)) = s
  <2>1. /\ 1 \in 1 .. Len(s) + 1
        /\ n \in 1 - 1 .. Len(s)
        /\ Len(s) \in n .. Len(s)
    BY LenProperties
  <2>2. SubSeq(s, 1, n) \o SubSeq(s, n + 1, Len(s)) = SubSeq(s, 1, Len(s))
    BY <2>1, ConcatAdjacentSubSeq
  <2>3. QED
    BY <2>2, SubSeqFull
<1>3. ASSUME NEW p \in Seq(S), NEW q \in Seq(S)
      PROVE  (a \o p) \o q = (a \o <<>>) \o (p \o q)
  <2>1. (a \o p) \o q = a \o (p \o q)
    OBVIOUS
  <2>2. a \o <<>> = a
    BY ConcatEmptySeq
  <2>3. QED
    BY <2>1, <2>2
<1>4. (a \o SubSeq(s, 1, n)) \o SubSeq(s, n + 1, Len(s))
         = (a \o <<>>) \o (SubSeq(s, 1, n) \o SubSeq(s, n + 1, Len(s)))
  BY <1>1, <1>3, Zenon
<1>5. QED
  BY <1>1, <1>2, <1>4, Zenon

\* What is left of the source when n bytes are taken
LEMMA Rest ==
    ASSUME NEW S, NEW s \in Seq(S), NEW n \in 1 .. Len(s)
    PROVE  Len(SubSeq(s, n + 1, Len(s))) = Len(s) - n
<1>1. Len(s) \in Nat /\ n \in Int /\ \A i \in n + 1 .. Len(s) : s[i] \in S
  BY LenProperties, ElementOfSeq
<1>2. QED
  BY <1>1, SubSeqProperties

\* The first byte of the socket goes to the receiver.
LEMMA Received ==
    ASSUME NEW S, NEW h \in Seq(S), NEW u \in Seq(S), u # <<>>
    PROVE  /\ Append(h, Head(u)) \in Seq(S)
           /\ Tail(u) \in Seq(S)
           /\ Len(Append(h, Head(u))) = Len(h) + 1
           /\ Append(h, Head(u)) \o Tail(u) = h \o u
<1>1. Head(u) \in S /\ Tail(u) \in Seq(S)
  BY HeadTailProperties
<1>2. Append(h, Head(u)) \in Seq(S) /\ Len(Append(h, Head(u))) = Len(h) + 1
  BY <1>1, AppendProperties
<1>3. Append(h, Head(u)) = h \o <<Head(u)>>
  BY <1>1, AppendIsConcat
<1>4. <<Head(u)>> \o Tail(u) = u
  <2>1. Len(u) \in Nat \ {0} /\ u \in Seq(S)
    BY EmptySeq
  <2>2. u = SubSeq(u, 1, Len(u)) /\ Tail(u) = SubSeq(u, 2, Len(u))
    BY SubSeqFull, TailIsSubSeq
  <2>3. 1 \in 1 .. Len(u) /\ Len(u) \in 1 .. Len(u)
    BY <2>1
  <2>4. SubSeq(u, 1, Len(u)) = <<u[1]>> \o SubSeq(u, 1 + 1, Len(u))
    BY <2>3, SubSeqRecursiveFirst
  <2>5. Head(u) = u[1]
    OBVIOUS
  <2>6. QED
    BY <2>2, <2>4, <2>5
<1>5. <<Head(u)>> \in Seq(S)
  BY <1>1
<1>6. (h \o <<Head(u)>>) \o Tail(u) = h \o (<<Head(u)>> \o Tail(u))
  BY <1>1, <1>5, ConcatAssociative
<1>7. QED
  BY <1>1, <1>2, <1>3, <1>4, <1>6

\* A byte is written at the end.
LEMMA Written ==
    ASSUME NEW S, NEW a \in Seq(S), NEW s \in Seq(S), NEW e \in S
    PROVE  Add(Join(a, s), e) = Join(a, Add(s, e))
<1>1. a \o s \in Seq(S) /\ <<e>> \in Seq(S)
  BY ConcatProperties
<1>2. Append(a \o s, e) = (a \o s) \o <<e>> /\ Append(s, e) = s \o <<e>>
  BY <1>1, AppendIsConcat
<1>3. (a \o s) \o <<e>> = a \o (s \o <<e>>)
  BY <1>1, ConcatAssociative
<1>4. QED
  BY <1>2, <1>3 DEF Join, Add

Leading(a, z) == Len(a) <= Len(z) /\ \A k \in 1 .. Len(a) : z[k] = a[k]

\* What comes first stays first.
LEMMA Leads ==
    ASSUME NEW S, NEW a \in Seq(S), NEW b \in Seq(S), NEW c \in Seq(S), NEW d \in Seq(S)
    PROVE  Leading(a, Join(Join(Join(a, b), c), d))
<1>1. /\ a \o b \in Seq(S)
      /\ Len(a) <= Len(a \o b)
      /\ \A k \in 1 .. Len(a) : (a \o b)[k] = a[k]
  BY ConcatProperties
<1>2. PICK x : x = a \o b
  OBVIOUS
<1>3. x \in Seq(S)
  BY <1>1, <1>2
<1>4. /\ x \o c \in Seq(S)
      /\ Len(x) <= Len(x \o c)
      /\ \A k \in 1 .. Len(x) : (x \o c)[k] = x[k]
  BY <1>3, ConcatProperties
<1>5. PICK y : y = x \o c
  OBVIOUS
<1>6. y \in Seq(S)
  BY <1>4, <1>5
<1>7. /\ Len(y) <= Len(y \o d)
      /\ \A k \in 1 .. Len(y) : (y \o d)[k] = y[k]
      /\ y \o d \in Seq(S)
  BY <1>6, ConcatProperties
<1>8. PICK z : z = y \o d
  OBVIOUS
<1>9. /\ Len(a) <= Len(x) /\ Len(x) <= Len(y) /\ Len(y) <= Len(z)
      /\ \A k \in 1 .. Len(a) : x[k] = a[k]
      /\ \A k \in 1 .. Len(x) : y[k] = x[k]
      /\ \A k \in 1 .. Len(y) : z[k] = y[k]
  BY <1>1, <1>2, <1>4, <1>5, <1>7, <1>8
<1>10. Len(a) \in Nat /\ Len(x) \in Nat /\ Len(y) \in Nat /\ Len(z) \in Nat
  BY <1>3, <1>6, <1>7, <1>8, LenProperties
<1>11. Len(a) <= Len(z) /\ \A k \in 1 .. Len(a) : z[k] = a[k]
  BY <1>9, <1>10
<1>12. QED
  BY <1>2, <1>5, <1>8, <1>11 DEF Leading, Join

-----------------------------------------------------------------------------
(***************************************************************************)
(* The invariant                                                           *)
(***************************************************************************)
LEMMA ShimInit == Init => ShimInv
<1> SUFFICES ASSUME Init PROVE ShimInv
  OBVIOUS
<1>1. <<>> \in Streams /\ Len(<<>>) = 0 /\ <<>> \o <<>> = <<>>
  BY EmptySeq, ConcatEmptySeq DEF Streams
<1>2. TypeOK
  <2>1. {eof, server} \subseteq BOOLEAN /\ fallback \in BOOLEAN
    BY Zenon DEF Init
  <2>2. buf \in [Pumps -> Streams] /\ \A p \in Pumps : Len(buf[p]) <= BufSize
    BY <1>1, ShimAssumption DEF Init
  <2>3. QED
    BY <1>1, <2>1, <2>2 DEF Init, TypeOK, Pumps
<1>3. BufInv /\ EndInv /\ NumberInv /\ FreshInv
  BY <1>1, ShimAssumption DEF Init, BufInv, EndInv, NumberInv, FreshInv, Pumps
<1>4. buf["stdin"] = <<>> /\ buf["stdout"] = <<>>
  BY DEF Init, Pumps
<1>5. UpInv
  BY <1>1, <1>4 DEF Init, UpInv
<1>6. DownInv
  BY <1>1, <1>4 DEF Init, DownInv
<1>7. QED
  BY <1>2, <1>3, <1>5, <1>6 DEF ShimInv

\* The streams, one by one
LEMMA ShimTypes ==
    ASSUME ShimInv
    PROVE  /\ typed \in Streams /\ stdin \in Streams /\ up \in Streams
           /\ written \in Streams /\ down \in Streams /\ shown \in Streams
           /\ heard \in Streams
           /\ buf["stdin"] \in Streams /\ buf["stdout"] \in Streams
BY DEF ShimInv, TypeOK, Pumps

\* Steps that move no byte
LEMMA ControlStep ==
    ASSUME ShimInv,
           \/ Connect \/ ConnectError \/ EndStdin \/ ReadError \/ SendError \/ EndRecv
           \/ RecvError \/ WriteError \/ EditorCloses \/ ServerCloses \/ UNCHANGED vars
    PROVE  ShimInv'
<1>1. /\ TypeOK /\ BufInv /\ EndInv /\ NumberInv /\ UpInv /\ DownInv /\ FreshInv
      /\ UNCHANGED <<buf, typed, stdin, up, written, down, shown, heard>>
  BY DEF ShimInv, Connect, ConnectError, EndStdin, ReadError, SendError, EndRecv, RecvError, WriteError, EditorCloses,
         ServerCloses, vars
<1>2. NumberInv' /\ UpInv'
  BY <1>1 DEF NumberInv, UpInv
<1>3. (sock' = "closed" <=> sock = "closed") /\ FreshInv'
  BY <1>1 DEF FreshInv, TypeOK, Pumps, Connect, ConnectError, EndStdin, ReadError, SendError, EndRecv,
     RecvError, WriteError, EditorCloses,
              ServerCloses, vars
<1>4. DownInv'
  BY <1>1, <1>3 DEF DownInv
<1>5. TypeOK'
  BY <1>1 DEF TypeOK, Pumps, Connect, ConnectError, EndStdin, ReadError, SendError, EndRecv, RecvError, WriteError,
              EditorCloses, ServerCloses, vars
<1>6. BufInv'
  <2>1. CASE Connect
    BY <1>1, <2>1 DEF Connect, BufInv, FreshInv, Pumps
  <2>2. CASE ~Connect
    BY <1>1, <2>2 DEF BufInv, TypeOK, Pumps, ConnectError, EndStdin, ReadError, SendError, EndRecv, RecvError, WriteError,
                      EditorCloses, ServerCloses, vars
  <2>3. QED
    BY <2>1, <2>2
<1>7. EndInv'
  <2>1. CASE EndRecv
    <3>1. shown = written
      <4>1. PICK lost \in Streams :
              /\ written = ((shown \o buf["stdout"]) \o down) \o lost
              /\ sock # "closed" => lost = <<>>
        BY <1>1 DEF DownInv
      <4>2. lost = <<>> /\ down = <<>> /\ buf["stdout"] = <<>>
        BY <1>1, <2>1, <4>1 DEF EndRecv, BufInv, Pumps
      <4>3. shown \o <<>> = shown
        BY ShimTypes, ConcatEmptySeq DEF Streams
      <4>4. QED
        BY <4>1, <4>2, <4>3
    <3>2. QED
      BY <1>1, <2>1, <3>1 DEF EndRecv, EndInv, TypeOK, Pumps
  <2>2. CASE ~EndRecv
    BY <1>1, <2>2 DEF EndInv, TypeOK, Pumps, Connect, ConnectError, EndStdin, ReadError, SendError,
                      RecvError, WriteError, EditorCloses, ServerCloses, vars
  <2>3. QED
    BY <2>1, <2>2
<1>8. QED
  BY <1>2, <1>3, <1>4, <1>5, <1>6, <1>7 DEF ShimInv

LEMMA CloseStep ==
    ASSUME ShimInv, Close
    PROVE  ShimInv'
<1>1. /\ TypeOK /\ BufInv /\ EndInv /\ NumberInv /\ UpInv /\ DownInv /\ FreshInv
      /\ main' = "returned" /\ sock' = "closed" /\ down' = <<>>
      /\ UNCHANGED <<fallback, pc, buf, typed, eof, stdin, up, written, shown, server, heard>>
  BY DEF ShimInv, Close
<1>2. TypeOK'
  BY <1>1, EmptySeq DEF TypeOK, Streams
<1>3. BufInv' /\ EndInv' /\ NumberInv' /\ UpInv' /\ FreshInv'
  BY <1>1 DEF BufInv, EndInv, NumberInv, UpInv, FreshInv
<1>4. DownInv'
  <2>1. PICK lost \in Streams : written = ((shown \o buf["stdout"]) \o down) \o lost
    BY <1>1 DEF DownInv
  <2>2. shown \o buf["stdout"] \in Streams
    BY ShimTypes, ConcatProperties DEF Streams
  <2>3. /\ down \o lost \in Streams
        /\ ((shown \o buf["stdout"]) \o down) \o lost
             = ((shown \o buf["stdout"]) \o <<>>) \o (down \o lost)
    <3>1. PICK a : a = shown \o buf["stdout"]
      OBVIOUS
    <3>2. a \in Streams /\ down \in Streams /\ lost \in Streams
      BY <2>2, <3>1, ShimTypes
    <3>3. (a \o down) \o lost = (a \o <<>>) \o (down \o lost)
      BY <3>2, Regroup DEF Streams
    <3>4. down \o lost \in Streams
      BY <3>2, ConcatProperties DEF Streams
    <3>5. QED
      BY <3>1, <3>3, <3>4
  <2>4. written' = ((shown' \o buf'["stdout"]) \o down') \o (down \o lost)
    BY <1>1, <2>1, <2>3
  <2>5. QED
    BY <1>1, <2>3, <2>4 DEF DownInv
<1>5. QED
  BY <1>2, <1>3, <1>4 DEF ShimInv

\* The first n bytes of a buffer go to the destination of its coroutine.
LEMMA Passed ==
    ASSUME TypeOK, NEW p \in Pumps, NEW d \in Streams, NEW e,
           NEW n \in 1 .. Len(buf[p]),
           e = d \o SubSeq(buf[p], 1, n),
           buf' = [buf EXCEPT ![p] = SubSeq(buf[p], n + 1, Len(buf[p]))]
    PROVE  /\ e \in Streams
           /\ e \o buf'[p] = d \o buf[p]
           /\ n = Len(buf[p]) => buf'[p] = <<>>
           /\ buf' \in [Pumps -> Streams]
           /\ \A q \in Pumps : Len(buf'[q]) <= BufSize
<1>1. PICK s : s = buf[p]
  OBVIOUS
<1>2. PICK rest : rest = SubSeq(s, n + 1, Len(s))
  OBVIOUS
<1>3. s \in Streams /\ Len(s) <= BufSize /\ Len(s) \in Nat /\ n \in 1 .. Len(s)
  BY <1>1, LenProperties DEF TypeOK, Streams
<1>4. /\ SubSeq(s, 1, n) \in Streams
      /\ rest \in Streams
      /\ Len(rest) = Len(s) - n
      /\ (d \o SubSeq(s, 1, n)) \o rest = (d \o <<>>) \o s
  <2>1. /\ SubSeq(s, 1, n) \in Streams
        /\ SubSeq(s, n + 1, Len(s)) \in Streams
        /\ (d \o SubSeq(s, 1, n)) \o SubSeq(s, n + 1, Len(s)) = (d \o <<>>) \o s
    BY <1>3, Taken, ZenonT(60) DEF Streams
  <2>2. Len(SubSeq(s, n + 1, Len(s))) = Len(s) - n
    BY <1>3, Rest DEF Streams
  <2>3. QED
    BY <1>2, <2>1, <2>2
<1>5. buf'[p] = rest /\ \A q \in Pumps \ {p} : buf'[q] = buf[q]
  BY <1>1, <1>2 DEF TypeOK
<1>6. e \in Streams
  BY <1>1, <1>4, ConcatProperties DEF Streams
<1>7. e \o buf'[p] = d \o buf[p]
  <2>1. d \o <<>> = d
    BY ConcatEmptySeq DEF Streams
  <2>2. QED
    BY <1>1, <1>4, <1>5, <2>1
<1>8. n = Len(buf[p]) => buf'[p] = <<>>
  BY <1>1, <1>3, <1>4, <1>5, EmptySeq DEF Streams
<1>9. buf' \in [Pumps -> Streams]
  BY <1>1, <1>2, <1>4 DEF TypeOK
<1>10. \A q \in Pumps : Len(buf'[q]) <= BufSize
  BY <1>3, <1>4, <1>5, ShimAssumption DEF TypeOK
<1>11. QED
  BY <1>6, <1>7, <1>8, <1>9, <1>10

LEMMA ReadStdinStep ==
    ASSUME ShimInv, ReadStdin
    PROVE  ShimInv'
<1>1. /\ TypeOK /\ BufInv /\ EndInv /\ NumberInv /\ UpInv /\ DownInv /\ FreshInv
      /\ pc["stdin"] = "read"
      /\ pc' = [pc EXCEPT !["stdin"] = "write"]
      /\ UNCHANGED <<main, fallback, typed, eof, up, written, down, shown, sock, server, heard>>
  BY DEF ShimInv, ReadStdin
<1>2. PICK n \in 1 .. BufSize :
        /\ n <= Len(stdin)
        /\ buf' = [buf EXCEPT !["stdin"] = SubSeq(stdin, 1, n)]
        /\ stdin' = SubSeq(stdin, n + 1, Len(stdin))
  BY DEF ReadStdin
<1>3. /\ buf'["stdin"] = SubSeq(stdin, 1, n) /\ buf'["stdout"] = buf["stdout"]
      /\ buf["stdin"] = <<>> /\ main # "connect"
  BY <1>1, <1>2 DEF TypeOK, BufInv, FreshInv, Pumps
<1>4. PICK a : a = heard \o up
  OBVIOUS
<1>5. a \in Streams
  BY <1>4, ShimTypes, ConcatProperties DEF Streams
<1>6. /\ buf'["stdin"] \in Streams /\ stdin' \in Streams
      /\ Len(buf'["stdin"]) = n
      /\ (a \o buf'["stdin"]) \o stdin' = (a \o <<>>) \o stdin
  <2>1. stdin \in Streams
    BY ShimTypes
  <2>2. n \in 1 .. Len(stdin)
    BY <1>2, <2>1, ShimAssumption DEF Streams
  <2>3. /\ SubSeq(stdin, 1, n) \in Streams
        /\ SubSeq(stdin, n + 1, Len(stdin)) \in Streams
        /\ Len(SubSeq(stdin, 1, n)) = n
        /\ (a \o SubSeq(stdin, 1, n)) \o SubSeq(stdin, n + 1, Len(stdin)) = (a \o <<>>) \o stdin
    BY <1>5, <2>1, <2>2, Taken, ZenonT(60) DEF Streams
  <2>4. QED
    BY <1>2, <1>3, <2>3
<1>7. TypeOK'
  BY <1>1, <1>2, <1>3, <1>6, ShimAssumption DEF TypeOK, Pumps
<1>8. UpInv'
  BY <1>1, <1>3, <1>4, <1>6 DEF UpInv
<1>9. BufInv' /\ EndInv' /\ FreshInv'
  BY <1>1, <1>3 DEF TypeOK, BufInv, EndInv, FreshInv, Pumps
<1>10. NumberInv' /\ DownInv'
  BY <1>1, <1>3 DEF NumberInv, DownInv
<1>11. QED
  BY <1>7, <1>8, <1>9, <1>10 DEF ShimInv

LEMMA SendToServerStep ==
    ASSUME ShimInv, SendToServer
    PROVE  ShimInv'
<1>1. /\ TypeOK /\ BufInv /\ EndInv /\ NumberInv /\ UpInv /\ DownInv /\ FreshInv
      /\ pc["stdin"] = "write" /\ sock = "open"
      /\ UNCHANGED <<main, fallback, typed, eof, stdin, written, down, shown, sock, server, heard>>
  BY DEF ShimInv, SendToServer
<1>2. PICK n \in 1 .. Len(buf["stdin"]) :
        /\ up' = up \o SubSeq(buf["stdin"], 1, n)
        /\ buf' = [buf EXCEPT !["stdin"] = SubSeq(buf["stdin"], n + 1, Len(buf["stdin"]))]
        /\ pc' = IF n = Len(buf["stdin"]) THEN [pc EXCEPT !["stdin"] = "read"] ELSE pc
  BY DEF SendToServer
<1>3. /\ heard \in Streams /\ up \in Streams
      /\ buf["stdin"] \in Streams
      /\ buf'["stdout"] = buf["stdout"]
      /\ main # "connect"
  BY <1>1, <1>2, ShimTypes DEF TypeOK, FreshInv, Pumps
<1>4. /\ up' \in Streams
      /\ up' \o buf'["stdin"] = up \o buf["stdin"]
      /\ n = Len(buf["stdin"]) => buf'["stdin"] = <<>>
      /\ buf' \in [Pumps -> Streams]
      /\ \A q \in Pumps : Len(buf'[q]) <= BufSize
  BY <1>1, <1>2, <1>3, Passed DEF Pumps
<1>5. (heard \o up') \o buf'["stdin"] = (heard \o up) \o buf["stdin"]
  <2>1. ASSUME NEW a \in Streams, NEW b \in Streams
        PROVE  (heard \o a) \o b = heard \o (a \o b)
    <3>1. heard \in Streams
      BY <1>3
    <3>2. QED
      BY <3>1, Assoc DEF Streams
  <2>2. buf'["stdin"] \in Streams
    BY <1>4 DEF Pumps
  <2>3. (heard \o up) \o buf["stdin"] = heard \o (up \o buf["stdin"])
    BY <1>3, <2>1
  <2>4. (heard \o up') \o buf'["stdin"] = heard \o (up' \o buf'["stdin"])
    BY <1>4, <2>1, <2>2
  <2>5. QED
    BY <1>4, <2>3, <2>4
<1>6. TypeOK'
  BY <1>1, <1>2, <1>4 DEF TypeOK, Pumps
<1>7. UpInv'
  BY <1>1, <1>5 DEF UpInv
<1>8. BufInv' /\ EndInv' /\ FreshInv'
  BY <1>1, <1>2, <1>3, <1>4 DEF TypeOK, BufInv, EndInv, FreshInv, Pumps
<1>9. NumberInv' /\ DownInv'
  BY <1>1, <1>3 DEF NumberInv, DownInv
<1>10. QED
  BY <1>6, <1>7, <1>8, <1>9 DEF ShimInv

LEMMA RecvFromServerStep ==
    ASSUME ShimInv, RecvFromServer
    PROVE  ShimInv'
<1>1. /\ TypeOK /\ BufInv /\ EndInv /\ NumberInv /\ UpInv /\ DownInv /\ FreshInv
      /\ pc["stdout"] = "read" /\ sock = "open"
      /\ pc' = [pc EXCEPT !["stdout"] = "write"]
      /\ UNCHANGED <<main, fallback, typed, eof, stdin, up, written, shown, sock, server, heard>>
  BY DEF ShimInv, RecvFromServer
<1>2. PICK n \in 1 .. BufSize :
        /\ n <= Len(down)
        /\ buf' = [buf EXCEPT !["stdout"] = SubSeq(down, 1, n)]
        /\ down' = SubSeq(down, n + 1, Len(down))
  BY DEF RecvFromServer
<1>3. /\ buf'["stdout"] = SubSeq(down, 1, n) /\ buf'["stdin"] = buf["stdin"]
      /\ buf["stdout"] = <<>> /\ main # "connect"
  BY <1>1, <1>2 DEF TypeOK, BufInv, FreshInv, Pumps
<1>4. shown \in Streams /\ down \in Streams
  BY ShimTypes
<1>5. /\ buf'["stdout"] \in Streams /\ down' \in Streams
      /\ Len(buf'["stdout"]) = n
      /\ (shown \o buf'["stdout"]) \o down' = (shown \o <<>>) \o down
  <2>1. n \in 1 .. Len(down)
    BY <1>2, <1>4, ShimAssumption DEF Streams
  <2>2. /\ SubSeq(down, 1, n) \in Streams
        /\ SubSeq(down, n + 1, Len(down)) \in Streams
        /\ Len(SubSeq(down, 1, n)) = n
        /\ (shown \o SubSeq(down, 1, n)) \o SubSeq(down, n + 1, Len(down)) = (shown \o <<>>) \o down
    BY <1>4, <2>1, Taken, ZenonT(60) DEF Streams
  <2>3. QED
    BY <1>2, <1>3, <2>2
<1>6. TypeOK'
  BY <1>1, <1>2, <1>3, <1>5, ShimAssumption DEF TypeOK, Pumps
<1>7. DownInv'
  BY <1>1, <1>3, <1>5 DEF DownInv
<1>8. BufInv' /\ EndInv' /\ FreshInv'
  BY <1>1, <1>3 DEF TypeOK, BufInv, EndInv, FreshInv, Pumps
<1>9. NumberInv' /\ UpInv'
  BY <1>1, <1>3 DEF NumberInv, UpInv
<1>10. QED
  BY <1>6, <1>7, <1>8, <1>9 DEF ShimInv

LEMMA WriteStdoutStep ==
    ASSUME ShimInv, WriteStdout
    PROVE  ShimInv'
<1>1. /\ TypeOK /\ BufInv /\ EndInv /\ NumberInv /\ UpInv /\ DownInv /\ FreshInv
      /\ pc["stdout"] = "write"
      /\ UNCHANGED <<main, fallback, typed, eof, stdin, up, written, down, sock, server, heard>>
  BY DEF ShimInv, WriteStdout
<1>2. PICK n \in 1 .. Len(buf["stdout"]) :
        /\ shown' = shown \o SubSeq(buf["stdout"], 1, n)
        /\ buf' = [buf EXCEPT !["stdout"] = SubSeq(buf["stdout"], n + 1, Len(buf["stdout"]))]
        /\ pc' = IF n = Len(buf["stdout"]) THEN [pc EXCEPT !["stdout"] = "read"] ELSE pc
  BY DEF WriteStdout
<1>3. shown \in Streams /\ buf'["stdin"] = buf["stdin"] /\ main # "connect"
  BY <1>1, <1>2, ShimTypes DEF TypeOK, FreshInv, Pumps
<1>4. /\ shown' \in Streams
      /\ shown' \o buf'["stdout"] = shown \o buf["stdout"]
      /\ n = Len(buf["stdout"]) => buf'["stdout"] = <<>>
      /\ buf' \in [Pumps -> Streams]
      /\ \A q \in Pumps : Len(buf'[q]) <= BufSize
  BY <1>1, <1>2, <1>3, Passed DEF Pumps
<1>5. TypeOK'
  BY <1>1, <1>2, <1>4 DEF TypeOK, Pumps
<1>6. DownInv'
  BY <1>1, <1>4 DEF DownInv
<1>7. BufInv' /\ EndInv' /\ FreshInv'
  BY <1>1, <1>2, <1>3, <1>4 DEF TypeOK, BufInv, EndInv, FreshInv, Pumps
<1>8. NumberInv' /\ UpInv'
  BY <1>1, <1>3 DEF NumberInv, UpInv
<1>9. QED
  BY <1>5, <1>6, <1>7, <1>8 DEF ShimInv

LEMMA EditorWritesStep ==
    ASSUME ShimInv, EditorWrites
    PROVE  ShimInv'
<1>1. /\ TypeOK /\ BufInv /\ EndInv /\ NumberInv /\ UpInv /\ DownInv /\ FreshInv
      /\ ~eof /\ Len(typed) < MaxBytes
      /\ typed' = Append(typed, Len(typed) + 1)
      /\ stdin' = Append(stdin, Len(typed) + 1)
      /\ UNCHANGED <<main, fallback, pc, buf, eof, up, written, down, shown, sock, server, heard>>
  BY DEF ShimInv, EditorWrites
<1>2. PICK e : e = Len(typed) + 1
  OBVIOUS
<1>3. typed \in Streams /\ stdin \in Streams /\ e \in 1 .. MaxBytes
  BY <1>1, <1>2, ShimTypes, ShimAssumption DEF Streams
<1>4. /\ typed' \in Streams /\ stdin' \in Streams /\ Len(typed') = Len(typed) + 1
  BY <1>1, <1>2, <1>3, AppendProperties DEF Streams
<1>5. UpInv'
  <2>1. PICK a : a = (heard \o up) \o buf["stdin"]
    OBVIOUS
  <2>2. a \in Streams
    <3>1. heard \o up \in Streams
      BY ShimTypes, ConcatProperties DEF Streams
    <3>2. QED
      BY <2>1, <3>1, ShimTypes, ConcatProperties DEF Streams
  <2>3. Append(a \o stdin, e) = a \o Append(stdin, e)
    <3>1. PICK S : S = 1 .. MaxBytes
      OBVIOUS
    <3>2. a \in Seq(S) /\ stdin \in Seq(S) /\ e \in S
      BY <1>3, <2>2, <3>1 DEF Streams
    <3>3. Add(Join(a, stdin), e) = Join(a, Add(stdin, e))
      BY <3>2, Written
    <3>4. QED
      BY <3>3 DEF Add, Join
  <2>4. typed = a \o stdin
    BY <1>1, <2>1 DEF UpInv
  <2>5. QED
    BY <1>1, <1>2, <2>1, <2>3, <2>4 DEF UpInv
<1>6. TypeOK'
  BY <1>1, <1>4 DEF TypeOK
<1>7. NumberInv'
  BY <1>1, <1>3, <1>4, ShimAssumption DEF NumberInv, Streams
<1>8. BufInv' /\ EndInv' /\ DownInv' /\ FreshInv'
  BY <1>1 DEF BufInv, EndInv, DownInv, FreshInv
<1>9. QED
  BY <1>5, <1>6, <1>7, <1>8 DEF ShimInv

LEMMA ServerReadsStep ==
    ASSUME ShimInv, ServerReads
    PROVE  ShimInv'
<1>1. /\ TypeOK /\ BufInv /\ EndInv /\ NumberInv /\ UpInv /\ DownInv /\ FreshInv
      /\ up # <<>>
      /\ heard' = Append(heard, Head(up))
      /\ up' = Tail(up)
      /\ UNCHANGED <<main, fallback, pc, buf, typed, eof, stdin, written, down, shown, sock, server>>
  BY DEF ShimInv, ServerReads
<1>2. heard \in Streams /\ up \in Streams
  BY ShimTypes
<1>3. /\ heard' \in Streams /\ up' \in Streams
      /\ Len(heard') = Len(heard) + 1
      /\ heard' \o up' = heard \o up
  <2>1. PICK S : S = 1 .. MaxBytes
    OBVIOUS
  <2>2. heard \in Seq(S) /\ up \in Seq(S)
    BY <1>2, <2>1 DEF Streams
  <2>3. /\ Append(heard, Head(up)) \in Seq(S)
        /\ Tail(up) \in Seq(S)
        /\ Len(Append(heard, Head(up))) = Len(heard) + 1
        /\ Append(heard, Head(up)) \o Tail(up) = heard \o up
    BY <1>1, <2>2, Received
  <2>4. QED
    BY <1>1, <2>1, <2>3 DEF Streams
<1>4. TypeOK'
  BY <1>1, <1>3 DEF TypeOK
<1>5. UpInv'
  BY <1>1, <1>3 DEF UpInv
<1>6. NumberInv'
  <2>1. Len(heard) \in Nat /\ Len(written) \in Nat
    BY ShimTypes, LenProperties DEF Streams
  <2>2. QED
    BY <1>1, <1>3, <2>1 DEF NumberInv
<1>7. BufInv' /\ EndInv' /\ DownInv' /\ FreshInv'
  BY <1>1 DEF BufInv, EndInv, DownInv, FreshInv
<1>8. QED
  BY <1>4, <1>5, <1>6, <1>7 DEF ShimInv

LEMMA ServerWritesStep ==
    ASSUME ShimInv, ServerWrites
    PROVE  ShimInv'
<1>1. /\ TypeOK /\ BufInv /\ EndInv /\ NumberInv /\ UpInv /\ DownInv /\ FreshInv
      /\ server /\ Len(written) < Len(heard)
      /\ written' = Append(written, Len(written) + 1)
      /\ down' = IF sock = "open" THEN Append(down, Len(written) + 1) ELSE down
      /\ UNCHANGED <<main, fallback, pc, buf, typed, eof, stdin, up, shown, sock, server, heard>>
  BY DEF ShimInv, ServerWrites
<1>2. /\ heard \in Streams /\ up \in Streams /\ stdin \in Streams /\ typed \in Streams
      /\ written \in Streams /\ down \in Streams /\ shown \in Streams
      /\ buf["stdin"] \in Streams /\ buf["stdout"] \in Streams
  BY ShimTypes
<1>3. PICK S : S = 1 .. MaxBytes
  OBVIOUS
<1>4. PICK e : e = Len(written) + 1
  OBVIOUS
<1>5. e \in S
  <2>1. PICK b : b = buf["stdin"]
    OBVIOUS
  <2>2. Leading(heard, Join(Join(Join(heard, up), b), stdin))
    BY <1>2, <1>3, <2>1, Leads DEF Streams
  <2>3. Len(heard) <= Len(typed)
    BY <1>1, <2>1, <2>2 DEF UpInv, Leading, Join
  <2>4. Len(heard) \in Nat /\ Len(written) \in Nat /\ Len(typed) \in Nat
    BY <1>2, LenProperties DEF Streams
  <2>5. Len(typed) <= MaxBytes
    BY <1>1 DEF NumberInv
  <2>6. QED
    BY <1>1, <1>3, <1>4, <2>3, <2>4, <2>5, ShimAssumption
<1>6. /\ written' \in Streams /\ down' \in Streams
      /\ Len(written') = Len(written) + 1
      /\ \A k \in 1 .. Len(written) : written'[k] = written[k]
      /\ written'[Len(written) + 1] = Len(written) + 1
  <2>1. written \in Seq(S) /\ down \in Seq(S)
    BY <1>2, <1>3 DEF Streams
  <2>2. /\ Append(written, e) \in Seq(S) /\ Append(down, e) \in Seq(S)
        /\ Len(Append(written, e)) = Len(written) + 1
        /\ \A k \in 1 .. Len(written) : Append(written, e)[k] = written[k]
        /\ Append(written, e)[Len(written) + 1] = e
    BY <1>5, <2>1, AppendProperties
  <2>3. QED
    BY <1>1, <1>3, <1>4, <2>1, <2>2 DEF Streams
<1>7. TypeOK'
  BY <1>1, <1>6 DEF TypeOK
<1>8. NumberInv'
  <2>1. Len(heard) \in Nat /\ Len(written) \in Nat
    BY <1>2, LenProperties DEF Streams
  <2>2. Len(typed') <= MaxBytes /\ Len(written') <= Len(heard')
    BY <1>1, <1>6, <2>1 DEF NumberInv
  <2>3. ASSUME NEW k \in 1 .. Len(written') PROVE written'[k] = k
    <3>1. k \in 1 .. Len(written) \/ k = Len(written) + 1
      BY <1>6, <2>1
    <3>2. QED
      BY <1>1, <1>6, <3>1 DEF NumberInv
  <2>4. QED
    BY <2>2, <2>3 DEF NumberInv
<1>9. DownInv'
  <2>1. PICK lost \in Streams :
          /\ written = ((shown \o buf["stdout"]) \o down) \o lost
          /\ sock # "closed" => lost = <<>>
    BY <1>1 DEF DownInv
  <2>2. PICK a : a = shown \o buf["stdout"]
    OBVIOUS
  <2>3. a \in Seq(S) /\ down \in Seq(S) /\ lost \in Seq(S)
    BY <1>2, <1>3, <2>2, ConcatProperties DEF Streams
  <2>4. CASE sock = "open"
    <3>1. Append(a \o down, e) = a \o Append(down, e)
      <4>1. Add(Join(a, down), e) = Join(a, Add(down, e))
        BY <1>5, <2>3, Written
      <4>2. QED
        BY <4>1 DEF Add, Join
    <3>2. a \o down \in Seq(S)
      BY <2>3, ConcatProperties
    <3>3. (a \o down) \o <<>> = a \o down
      BY <3>2, ConcatEmptySeq
    <3>4. a \o Append(down, e) \in Seq(S)
      <4>1. Append(down, e) \in Seq(S)
        BY <1>5, <2>3, AppendProperties
      <4>2. QED
        BY <2>3, <4>1, ConcatProperties
    <3>5. (a \o Append(down, e)) \o <<>> = a \o Append(down, e)
      BY <3>4, ConcatEmptySeq
    <3>6. lost = <<>>
      BY <2>1, <2>4
    <3>7. written' = ((shown' \o buf'["stdout"]) \o down') \o <<>>
      BY <1>1, <1>4, <2>1, <2>2, <2>4, <3>1, <3>3, <3>5, <3>6
    <3>8. QED
      BY <2>1, <3>6, <3>7 DEF DownInv
  <2>5. CASE sock = "closed"
    <3>1. PICK x : x = a \o down
      OBVIOUS
    <3>2. x \in Seq(S)
      BY <2>3, <3>1, ConcatProperties
    <3>3. Append(x \o lost, e) = x \o Append(lost, e)
      <4>1. Add(Join(x, lost), e) = Join(x, Add(lost, e))
        BY <1>5, <2>3, <3>2, Written
      <4>2. QED
        BY <4>1 DEF Add, Join
    <3>4. Append(lost, e) \in Streams
      BY <1>3, <1>5, <2>3, AppendProperties DEF Streams
    <3>5. written' = ((shown' \o buf'["stdout"]) \o down') \o Append(lost, e)
      BY <1>1, <1>4, <2>1, <2>2, <2>5, <3>1, <3>3
    <3>6. QED
      BY <1>1, <2>5, <3>4, <3>5 DEF DownInv
  <2>6. CASE sock = "none"
    <3>1. heard = <<>>
      BY <1>1, <2>6 DEF FreshInv
    <3>2. Len(heard) = 0
      BY <3>1, EmptySeq
    <3>3. Len(written) \in Nat
      BY <1>2, LenProperties DEF Streams
    <3>4. QED
      BY <1>1, <3>2, <3>3
  <2>7. QED
    BY <1>1, <2>4, <2>5, <2>6 DEF TypeOK
<1>10. BufInv' /\ EndInv' /\ UpInv' /\ FreshInv'
  BY <1>1 DEF BufInv, EndInv, UpInv, FreshInv
<1>11. QED
  BY <1>7, <1>8, <1>9, <1>10 DEF ShimInv

LEMMA ShimStep == ShimInv /\ [Next]_vars => ShimInv'
<1> SUFFICES ASSUME ShimInv, [Next]_vars PROVE ShimInv'
  OBVIOUS
<1>1. CASE \/ Connect \/ ConnectError \/ EndStdin \/ ReadError \/ SendError \/ EndRecv
           \/ RecvError \/ WriteError \/ EditorCloses \/ ServerCloses \/ UNCHANGED vars
  BY <1>1, ControlStep
<1>2. CASE Close
  BY <1>2, CloseStep
<1>3. CASE ReadStdin
  BY <1>3, ReadStdinStep
<1>4. CASE SendToServer
  BY <1>4, SendToServerStep
<1>5. CASE RecvFromServer
  BY <1>5, RecvFromServerStep
<1>6. CASE WriteStdout
  BY <1>6, WriteStdoutStep
<1>7. CASE EditorWrites
  BY <1>7, EditorWritesStep
<1>8. CASE ServerReads
  BY <1>8, ServerReadsStep
<1>9. CASE ServerWrites
  BY <1>9, ServerWritesStep
<1>10. QED
  BY <1>1, <1>2, <1>3, <1>4, <1>5, <1>6, <1>7, <1>8, <1>9 DEF Next, Forward

-----------------------------------------------------------------------------
\* The variables of a shim keep their types; no buffer holds more than BUF_SIZE.
THEOREM ShimTypeCorrect == Spec => []TypeOK
<1>1. ShimInv => TypeOK
  BY DEF ShimInv
<1>2. QED
  BY ShimInit, ShimStep, <1>1, PTL DEF Spec

\* The coroutine "stdin" of a shim repeats and reorders nothing, wherever it is
\* suspended and however much of a buffer each send takes, and loses nothing but the
\* rest of its buffer when it fails.
THEOREM UpKept == Spec => []UpInOrder
<1>1. ASSUME ShimInv PROVE UpInOrder
  <2>1. CASE pc["stdin"] = "done"
    <3>1. stdin = <<>> /\ buf["stdin"] = <<>>
      BY <1>1, <2>1 DEF ShimInv, EndInv, BufInv, Pumps
    <3>2. PICK a : a = heard \o up
      OBVIOUS
    <3>3. a \in Streams
      BY <1>1, <3>2, ShimTypes, ConcatProperties DEF Streams
    <3>4. a \o <<>> = a
      BY <3>3, ConcatEmptySeq DEF Streams
    <3>5. typed = a
      BY <1>1, <3>1, <3>2, <3>4 DEF ShimInv, UpInv
    <3>6. QED
      BY <1>1, <3>2, <3>5 DEF UpInOrder, ShimInv, UpInv
  <2>2. CASE pc["stdin"] # "done"
    BY <1>1, <2>2 DEF UpInOrder, ShimInv, UpInv
  <2>3. QED
    BY <2>1, <2>2
<1>2. QED
  BY ShimInit, ShimStep, <1>1, PTL DEF Spec

\* The editor gets a prefix of what the server wrote; nothing is missing as long as
\* the socket is open, nor once the coroutine "stdout" has met the end of it.
THEOREM DownKept == Spec => []DownInOrder
<1>1. ASSUME ShimInv PROVE DownInOrder
  <2>1. PICK lost \in Streams :
          /\ written = ((shown \o buf["stdout"]) \o down) \o lost
          /\ sock # "closed" => lost = <<>>
    BY <1>1 DEF ShimInv, DownInv
  <2>2. PICK b, S : b = buf["stdout"] /\ S = 1 .. MaxBytes
    OBVIOUS
  <2>3. /\ shown \in Seq(S) /\ b \in Seq(S) /\ down \in Seq(S) /\ lost \in Seq(S)
        /\ written \in Seq(S)
    BY <1>1, <2>1, <2>2, ShimTypes DEF Streams
  <2>4. Leading(shown, Join(Join(Join(shown, b), down), lost))
    BY <2>3, Leads
  <2>5. /\ Len(shown) <= Len(written)
        /\ \A k \in 1 .. Len(shown) : written[k] = shown[k]
    <3>1. written = Join(Join(Join(shown, b), down), lost)
      BY <2>1, <2>2 DEF Join
    <3>2. QED
      BY <2>4, <3>1 DEF Leading
  <2>6. \A k \in DOMAIN shown : shown[k] = k
    <3>1. DOMAIN shown = 1 .. Len(shown) /\ Len(shown) \in Nat /\ Len(written) \in Nat
      BY <2>3, LenProperties
    <3>2. \A k \in 1 .. Len(written) : written[k] = k
      BY <1>1 DEF ShimInv, NumberInv
    <3>3. QED
      BY <2>5, <3>1, <3>2
  <2>7. ASSUME sock = "open" PROVE written = (shown \o buf["stdout"]) \o down
    <3>1. PICK x : x = (shown \o b) \o down
      OBVIOUS
    <3>2. x \in Seq(S)
      <4>1. shown \o b \in Seq(S)
        BY <2>3, ConcatProperties
      <4>2. QED
        BY <2>3, <3>1, <4>1, ConcatProperties
    <3>3. x \o <<>> = x
      BY <3>2, ConcatEmptySeq
    <3>4. written = (shown \o buf["stdout"]) \o down
      BY <2>1, <2>2, <2>7, <3>1, <3>3
    <3>5. QED
      BY <3>4
  <2>8. QED
    BY <1>1, <2>5, <2>6, <2>7 DEF DownInOrder, ShimInv, EndInv
<1>2. QED
  BY ShimInit, ShimStep, <1>1, PTL DEF Spec
=============================================================================
