--------------------------- MODULE FramingProofs ---------------------------
(***************************************************************************)
(* Proofs about Framing: until two messages are written into each other,   *)
(* what is on its way is a row of whole frames, whatever the capacity of   *)
(* the buffer and whoever sends.                                           *)
(***************************************************************************)
EXTENDS Framing, TLAPS

\* What \o does, and when two sequences are equal
LEMMA Joined ==
  ASSUME NEW a \in Seq(Tokens), NEW b \in Seq(Tokens)
  PROVE  /\ a \o b \in Seq(Tokens)
         /\ Len(a \o b) = Len(a) + Len(b)
         /\ \A k \in 1 .. Len(a) : (a \o b)[k] = a[k]
         /\ \A k \in 1 .. Len(b) : (a \o b)[Len(a) + k] = b[k]
BY SMTT(60)

LEMMA Equal ==
  ASSUME NEW a \in Seq(Tokens), NEW b \in Seq(Tokens), Len(a) = Len(b),
         \A k \in 1 .. Len(a) : a[k] = b[k]
  PROVE  a = b
BY SMTT(60)

LEMMA JoinThree ==
  ASSUME NEW a \in Seq(Tokens), NEW b \in Seq(Tokens), NEW c \in Seq(Tokens)
  PROVE  (a \o b) \o c = a \o (b \o c)
BY SMTT(60)

\* The lines of the header of m, and all the tokens of its frame
HeaderLen(m) == IF m \in Extra THEN 3 ELSE 2
FrameLen(m) == HeaderLen(m) + Size[m]

LEMMA BodyBytesOf ==
  ASSUME NEW m \in Messages, NEW id \in 1 .. MaxSent
  PROVE  /\ Body(m, id) \in Seq(Tokens)
         /\ Len(Body(m, id)) = Size[m]
         /\ Size[m] \in Nat \ {0}
         /\ \A k \in 1 .. Size[m] : Body(m, id)[k] = [id |-> id, k |-> k]
<1>1. Size[m] \in Nat \ {0}
  BY FramingAssumption
<1>2. \A k \in 1 .. Size[m] : [id |-> id, k |-> k] \in Tokens
  BY <1>1 DEF Tokens, BodyBytes
<1> QED
  BY <1>1, <1>2 DEF Body

LEMMA FrameOf ==
  ASSUME NEW m \in Messages, NEW id \in 1 .. MaxSent
  PROVE  /\ Frame(m, id) \in Seq(Tokens)
         /\ Len(Frame(m, id)) = FrameLen(m)
         /\ m \in Extra => Frame(m, id)[1] = OtherLine
         /\ Frame(m, id)[HeaderLen(m) - 1] = LengthLine(Size[m])
         /\ Frame(m, id)[HeaderLen(m)] = EmptyLine
         /\ \A k \in 1 .. Size[m] :
              Frame(m, id)[HeaderLen(m) + k] = [id |-> id, k |-> k]
<1> DEFINE b == Body(m, id)
           h == IF m \in Extra THEN <<OtherLine>> ELSE <<>>
           l == <<LengthLine(Size[m]), EmptyLine>>
<1>1. b \in Seq(Tokens) /\ Len(b) = Size[m] /\ Size[m] \in Nat \ {0}
  BY BodyBytesOf
<1>2. \A k \in 1 .. Size[m] : b[k] = [id |-> id, k |-> k]
  BY BodyBytesOf
<1>3. LengthLine(Size[m]) \in Tokens /\ EmptyLine \in Tokens /\ OtherLine \in Tokens
  BY <1>1 DEF Tokens, Lines, LengthLine, EmptyLine, OtherLine
<1>4. /\ h \in Seq(Tokens)
      /\ Len(h) = HeaderLen(m) - 2
      /\ m \in Extra => h[1] = OtherLine
  BY <1>3 DEF HeaderLen
<1>5. /\ l \in Seq(Tokens)
      /\ Len(l) = 2
      /\ l[1] = LengthLine(Size[m])
      /\ l[2] = EmptyLine
  BY <1>3
<1>6. Frame(m, id) = h \o l \o b
  BY DEF Frame
<1>7. HeaderLen(m) \in {2, 3} /\ (m \in Extra => HeaderLen(m) = 3)
  BY DEF HeaderLen
<1> DEFINE q == h \o l
           f == q \o b
<1> HIDE DEF b, h, l
<1>8. /\ q \in Seq(Tokens)
      /\ Len(q) = HeaderLen(m)
      /\ m \in Extra => q[1] = h[1]
      /\ q[HeaderLen(m) - 1] = l[1]
      /\ q[HeaderLen(m)] = l[2]
  <2>1. /\ q \in Seq(Tokens)
        /\ Len(q) = Len(h) + Len(l)
        /\ \A k \in 1 .. Len(h) : q[k] = h[k]
        /\ \A k \in 1 .. Len(l) : q[Len(h) + k] = l[k]
    BY <1>4, <1>5, Joined
  <2> HIDE DEF q
  <2>2. Len(h) \in Nat /\ HeaderLen(m) - 1 = Len(h) + 1 /\ HeaderLen(m) = Len(h) + 2
    BY <1>4, <1>7
  <2>3. 1 \in 1 .. Len(l) /\ 2 \in 1 .. Len(l)
    BY <1>5
  <2>4. q[Len(h) + 1] = l[1] /\ q[Len(h) + 2] = l[2]
    BY <2>1, <2>3
  <2>5. m \in Extra => 1 \in 1 .. Len(h)
    BY <1>4, <1>7
  <2> QED
    BY <1>5, <2>1, <2>2, <2>4, <2>5
<1> HIDE DEF q
<1>9. /\ f \in Seq(Tokens)
      /\ Len(f) = HeaderLen(m) + Size[m]
      /\ \A k \in 1 .. HeaderLen(m) : f[k] = q[k]
      /\ \A k \in 1 .. Size[m] : f[HeaderLen(m) + k] = b[k]
  <2>1. q \in Seq(Tokens) /\ b \in Seq(Tokens)
    BY <1>1, <1>8
  <2>2. /\ f \in Seq(Tokens)
        /\ Len(f) = Len(q) + Len(b)
        /\ \A k \in 1 .. Len(q) : f[k] = q[k]
        /\ \A k \in 1 .. Len(b) : f[Len(q) + k] = b[k]
    BY <2>1, Joined, Zenon
  <2>3. Len(q) = HeaderLen(m) /\ Len(b) = Size[m]
    BY <1>1, <1>8
  <2> HIDE DEF f
  <2> QED
    BY <2>2, <2>3, Zenon
<1>10. Frame(m, id) = f
  BY <1>6 DEF q
<1> HIDE DEF f
<1> QED
  <2>1. /\ m \in Extra => 1 \in 1 .. HeaderLen(m)
        /\ HeaderLen(m) - 1 \in 1 .. HeaderLen(m)
        /\ HeaderLen(m) \in 1 .. HeaderLen(m)
    BY <1>7
  <2>2. /\ m \in Extra => f[1] = OtherLine
        /\ f[HeaderLen(m) - 1] = LengthLine(Size[m])
        /\ f[HeaderLen(m)] = EmptyLine
    BY <1>4, <1>5, <1>8, <1>9, <2>1
  <2>3. \A k \in 1 .. Size[m] : f[HeaderLen(m) + k] = [id |-> id, k |-> k]
    BY <1>2, <1>9
  <2> QED
    BY <1>9, <1>10, <2>2, <2>3 DEF FrameLen

-----------------------------------------------------------------------------
(***************************************************************************)
(* Types                                                                   *)
(***************************************************************************)
LEMMA SplitAgain ==
  ASSUME NEW s \in Seq(Tokens), NEW n \in Nat, n <= Len(s),
         NEW a \in Seq(Tokens), Len(a) = n,
         NEW b \in Seq(Tokens), Len(b) = Len(s) - n,
         \A k \in 1 .. n : a[k] = s[k],
         \A k \in 1 .. Len(s) - n : b[k] = s[n + k]
  PROVE  a \o b = s
<1>1. a \o b \in Seq(Tokens) /\ Len(a \o b) = Len(s)
  BY Joined
<1>2. \A k \in 1 .. Len(s) : (a \o b)[k] = s[k]
  <2> TAKE k \in 1 .. Len(s)
  <2>1. CASE k <= n
    BY <2>1
  <2>2. CASE k > n
    <3>1. (a \o b)[k] = b[k - n] /\ k - n \in 1 .. Len(s) - n
      BY <2>2
    <3>2. b[k - n] = s[n + (k - n)]
      BY <3>1
    <3> QED
      BY <3>1, <3>2
  <2> QED
    BY <2>1, <2>2
<1> QED
  BY <1>1, <1>2, Equal

\* What Put does with the tokens of one message
LEMMA PutTokens ==
  ASSUME TypeOK, NEW w \in Writers, NEW tokens \in Seq(Tokens), Put(w, tokens)
  PROVE  /\ out' \in Seq(Tokens)
         /\ Len(out') <= Capacity
         /\ Len(out) <= Len(out')
         /\ pending' \in [Writers -> Seq(Tokens)]
         /\ wpc' \in [Writers -> {"idle", "write", "flush"}]
         /\ out' \o pending'[w] = out \o tokens
         /\ \A v \in Writers : v # w => pending'[v] = pending[v] /\ wpc'[v] = wpc[v]
         /\ wpc'[w] = "write" \/ (wpc'[w] = "flush" /\ pending'[w] = <<>>)
<1> DEFINE room == Capacity - Len(out)
           n == IF Len(tokens) < room THEN Len(tokens) ELSE room
           a == SubSeq(tokens, 1, n)
           b == SubSeq(tokens, n + 1, Len(tokens))
<1>1. /\ out \in Seq(Tokens)
      /\ Len(out) <= Capacity
      /\ pending \in [Writers -> Seq(Tokens)]
      /\ wpc \in [Writers -> {"idle", "write", "flush"}]
      /\ Capacity \in Nat
  BY FramingAssumption DEF TypeOK
<1>2. /\ out' = out \o a
      /\ pending' = [pending EXCEPT ![w] = b]
      /\ wpc' = [wpc EXCEPT ![w] = IF n = Len(tokens) THEN "flush" ELSE "write"]
  BY DEF Put
<1>3. n \in Nat /\ n <= Len(tokens) /\ Len(out) + n <= Capacity
  BY <1>1
<1> HIDE DEF n
<1>4. /\ a \in Seq(Tokens) /\ Len(a) = n
      /\ b \in Seq(Tokens) /\ Len(b) = Len(tokens) - n
      /\ \A k \in 1 .. n : a[k] = tokens[k]
      /\ \A k \in 1 .. Len(tokens) - n : b[k] = tokens[n + k]
  BY <1>3
<1>5. n = Len(tokens) => b = <<>>
  BY <1>4
<1> HIDE DEF a, b
<1>6. a \o b = tokens
  BY <1>3, <1>4, SplitAgain
<1>7. (out \o a) \o b = out \o (a \o b)
  BY <1>1, <1>4, JoinThree
<1>8. /\ out \o a \in Seq(Tokens)
      /\ Len(out \o a) <= Capacity
      /\ Len(out) <= Len(out \o a)
  BY <1>1, <1>3, <1>4
<1>9. pending'[w] = b
  BY <1>1, <1>2
<1>10. out' \o pending'[w] = out \o tokens
  BY <1>2, <1>6, <1>7, <1>9
<1>11. pending' \in [Writers -> Seq(Tokens)]
  BY <1>1, <1>2, <1>4
<1>12. /\ wpc' \in [Writers -> {"idle", "write", "flush"}]
       /\ wpc'[w] = "write" \/ (wpc'[w] = "flush" /\ n = Len(tokens))
  BY <1>1, <1>2
<1> QED
  BY <1>1, <1>2, <1>5, <1>8, <1>9, <1>10, <1>11, <1>12

LEMMA InitType == Init => TypeOK
<1> SUFFICES ASSUME Init PROVE TypeOK
  OBVIOUS
<1>1. <<>> \in Seq(Tokens) /\ <<>> \in Seq(Messages) /\ <<>> \in Seq(1 .. MaxSent)
  OBVIOUS
<1>2. Len(<<>>) = 0 /\ 0 <= MaxSent /\ 0 <= Capacity /\ 0 \in Nat
  BY FramingAssumption
<1>3. /\ [w \in Writers |-> <<>>] \in [Writers -> Seq(Tokens)]
      /\ [w \in Writers |-> "idle"] \in [Writers -> {"idle", "write", "flush"}]
  BY <1>1
<1> QED
  BY <1>1, <1>2, <1>3 DEF Init, TypeOK

LEMMA SendType ==
  ASSUME TypeOK, NEW w \in Writers, Send(w)
  PROVE  TypeOK'
<1> USE FramingAssumption
<1>1. CASE \E m \in Messages : BeginSend(w, m)
  <2> PICK m \in Messages : BeginSend(w, m)
    BY <1>1
  <2>1. Len(sent) + 1 \in 1 .. MaxSent
    BY DEF BeginSend, TypeOK
  <2>2. Frame(m, Len(sent) + 1) \in Seq(Tokens)
    BY <2>1, FrameOf
  <2>3. Put(w, Frame(m, Len(sent) + 1))
    BY DEF BeginSend
  <2>4. torn' \in BOOLEAN
    BY DEF BeginSend
  <2> HIDE FramingAssumption
  <2>5. sent' \in Seq(Messages) /\ Len(sent') <= MaxSent
    BY <2>1 DEF BeginSend, TypeOK
  <2>6. UNCHANGED <<wire, open, rpc, length, body, received>>
    BY DEF BeginSend
  <2> QED
    BY <2>2, <2>3, <2>4, <2>5, <2>6, PutTokens DEF TypeOK
<1>2. CASE ResumeWrite(w)
  <2>1. pending[w] \in Seq(Tokens) /\ Put(w, pending[w])
    BY <1>2 DEF ResumeWrite, TypeOK
  <2>2. UNCHANGED <<sent, wire, open, rpc, length, body, received, torn>>
    BY <1>2 DEF ResumeWrite
  <2> QED
    BY <2>1, <2>2, PutTokens DEF TypeOK
<1>3. CASE EndFlush(w)
  BY <1>3 DEF EndFlush, TypeOK
<1>4. CASE SendError(w)
  BY <1>4 DEF SendError, TypeOK
<1> QED
  BY <1>1, <1>2, <1>3, <1>4 DEF Send

LEMMA ReceiveType ==
  ASSUME TypeOK, Receive
  PROVE  TypeOK'
<1>1. CASE RecvOther
  BY <1>1 DEF RecvOther, NextIsLine, TypeOK
<1>2. CASE RecvLength
  <2>1. Head(wire) \in Lines /\ Head(wire).line = "length"
    BY <1>2 DEF RecvLength, NextIsLine, IsLine
  <2>2. Head(wire).n \in Nat
    BY <2>1 DEF Lines, OtherLine, EmptyLine
  <2> QED
    BY <1>2, <2>2 DEF RecvLength, NextIsLine, TypeOK
<1>3. CASE RecvEmpty
  BY <1>3 DEF RecvEmpty, NextIsLine, TypeOK
<1>4. CASE RecvBody
  BY <1>4 DEF RecvBody, TypeOK
<1>5. CASE ParseMsg
  <2>1. PICK id \in Parsed : received' = Append(received, id)
    BY <1>5 DEF ParseMsg
  <2>2. id \in 1 .. Len(sent)
    BY DEF Parsed, TypeOK
  <2>3. received' \in Seq(1 .. MaxSent)
    BY <2>1, <2>2, FramingAssumption DEF TypeOK
  <2> QED
    BY <1>5, <2>3 DEF ParseMsg, TypeOK
<1>6. CASE BadJson
  BY <1>6 DEF BadJson, TypeOK
<1>7. CASE RecvError
  BY <1>7 DEF RecvError, TypeOK
<1> QED
  BY <1>1, <1>2, <1>3, <1>4, <1>5, <1>6, <1>7 DEF Receive

LEMMA NextType ==
  ASSUME TypeOK, [Next]_vars
  PROVE  TypeOK'
<1>1. CASE \E w \in Writers : Send(w)
  BY <1>1, SendType
<1>2. CASE Drain
  <2>1. Head(out) \in Tokens /\ Tail(out) \in Seq(Tokens) /\ Len(Tail(out)) <= Len(out)
    BY <1>2 DEF Drain, TypeOK
  <2>2. wire' \in Seq(Tokens) /\ out' \in Seq(Tokens) /\ Len(out') <= Capacity
    BY <1>2, <2>1, FramingAssumption DEF Drain, TypeOK
  <2> QED
    BY <1>2, <2>2 DEF Drain, TypeOK
<1>3. CASE Disconnect
  BY <1>3 DEF Disconnect, TypeOK
<1>4. CASE Receive
  BY <1>4, ReceiveType
<1>5. CASE UNCHANGED vars
  BY <1>5 DEF vars, TypeOK
<1> QED
  BY <1>1, <1>2, <1>3, <1>4, <1>5 DEF Next

\* Every variable of the connection keeps its type, and the output buffer never
\* holds more than its capacity, whatever the sizes of the messages.
THEOREM TypeCorrect == Spec => []TypeOK
<1>1. Init => TypeOK
  BY InitType
<1>2. TypeOK /\ [Next]_vars => TypeOK'
  BY NextType
<1> QED
  BY <1>1, <1>2, PTL DEF Spec

-----------------------------------------------------------------------------
(***************************************************************************)
(* A stream of whole frames.  Each of its tokens has a label: I[n] is the  *)
(* message it belongs to, by its number, and K[n] its place in the frame   *)
(* of that message.  The label behind the last is that of what comes next. *)
(***************************************************************************)
Follows(st, i, k, j, l) ==
    \/ k < FrameLen(st[i]) /\ j = i /\ l = k + 1
    \/ k = FrameLen(st[i]) /\ j = i + 1 /\ l = 1

Labelled(st, s, I, K) ==
    /\ I \in [1 .. Len(s) + 1 -> Nat]
    /\ K \in [1 .. Len(s) + 1 -> Nat]
    /\ \A n \in 1 .. Len(s) :
         /\ I[n] \in 1 .. Len(st)
         /\ K[n] \in 1 .. FrameLen(st[I[n]])
         /\ s[n] = Frame(st[I[n]], I[n])[K[n]]
         /\ Follows(st, I[n], K[n], I[n + 1], K[n + 1])

\* The labels from the second on, and the first n of them
Behind(L, s) == [n \in 1 .. Len(s) |-> L[n + 1]]
UpTo(L, s) == [n \in 1 .. Len(s) + 1 |-> L[n]]

LEMMA LabelsBehind ==
  ASSUME NEW st \in Seq(Messages), NEW s \in Seq(Tokens), s # <<>>,
         NEW I, NEW K, Labelled(st, s, I, K)
  PROVE  Labelled(st, Tail(s), Behind(I, s), Behind(K, s))
<1>1. /\ Tail(s) \in Seq(Tokens)
      /\ Len(Tail(s)) = Len(s) - 1
      /\ Len(s) \in Nat \ {0}
      /\ \A n \in 1 .. Len(s) - 1 : Tail(s)[n] = s[n + 1]
  OBVIOUS
<1> DEFINE T == Tail(s)
<1>2. /\ Len(T) + 1 = Len(s)
      /\ \A n \in 1 .. Len(T) : T[n] = s[n + 1] /\ n + 1 \in 1 .. Len(s)
      /\ \A n \in 1 .. Len(T) : n \in 1 .. Len(s) /\ n + 1 \in 1 .. Len(s)
      /\ \A n \in 1 .. Len(s) : n + 1 \in 1 .. Len(s) + 1
  BY <1>1
<1> HIDE DEF T
<1>3. /\ Behind(I, s) \in [1 .. Len(T) + 1 -> Nat]
      /\ Behind(K, s) \in [1 .. Len(T) + 1 -> Nat]
  BY <1>2 DEF Labelled, Behind
<1>4. ASSUME NEW n \in 1 .. Len(T)
      PROVE  /\ Behind(I, s)[n] = I[n + 1] /\ Behind(I, s)[n + 1] = I[n + 1 + 1]
             /\ Behind(K, s)[n] = K[n + 1] /\ Behind(K, s)[n + 1] = K[n + 1 + 1]
  BY <1>2 DEF Behind
<1>5. ASSUME NEW n \in 1 .. Len(T)
      PROVE  /\ I[n + 1] \in 1 .. Len(st)
             /\ K[n + 1] \in 1 .. FrameLen(st[I[n + 1]])
             /\ T[n] = Frame(st[I[n + 1]], I[n + 1])[K[n + 1]]
             /\ Follows(st, I[n + 1], K[n + 1], I[n + 1 + 1], K[n + 1 + 1])
  BY <1>2, Zenon DEF Labelled
<1>6. Labelled(st, T, Behind(I, s), Behind(K, s))
  BY <1>3, <1>4, <1>5, Zenon DEF Labelled
<1> QED
  BY <1>6 DEF T

LEMMA LabelsUpTo ==
  ASSUME NEW st \in Seq(Messages), NEW a \in Seq(Tokens), NEW b \in Seq(Tokens),
         NEW I, NEW K, Labelled(st, a \o b, I, K)
  PROVE  Labelled(st, a, UpTo(I, a), UpTo(K, a))
<1> DEFINE s == a \o b
<1>1. /\ Len(s) = Len(a) + Len(b)
      /\ \A n \in 1 .. Len(a) : s[n] = a[n]
      /\ Len(a) \in Nat /\ Len(b) \in Nat
  BY Joined
<1> HIDE DEF s
<1>2. /\ \A n \in 1 .. Len(a) : n \in 1 .. Len(s)
      /\ \A n \in 1 .. Len(a) : n \in 1 .. Len(a) + 1 /\ n + 1 \in 1 .. Len(a) + 1
      /\ \A n \in 1 .. Len(a) + 1 : n \in 1 .. Len(s) + 1
  BY <1>1
<1>3. Labelled(st, s, I, K)
  BY DEF s
<1>4. /\ UpTo(I, a) \in [1 .. Len(a) + 1 -> Nat]
      /\ UpTo(K, a) \in [1 .. Len(a) + 1 -> Nat]
  BY <1>2, <1>3 DEF Labelled, UpTo
<1>5. ASSUME NEW n \in 1 .. Len(a)
      PROVE  /\ UpTo(I, a)[n] = I[n] /\ UpTo(I, a)[n + 1] = I[n + 1]
             /\ UpTo(K, a)[n] = K[n] /\ UpTo(K, a)[n + 1] = K[n + 1]
  BY <1>2 DEF UpTo
<1>6. ASSUME NEW n \in 1 .. Len(a)
      PROVE  /\ I[n] \in 1 .. Len(st)
             /\ K[n] \in 1 .. FrameLen(st[I[n]])
             /\ a[n] = Frame(st[I[n]], I[n])[K[n]]
             /\ Follows(st, I[n], K[n], I[n + 1], K[n + 1])
  BY <1>1, <1>2, <1>3, Zenon DEF Labelled
<1> QED
  BY <1>4, <1>5, <1>6, Zenon DEF Labelled

\* One more message is sent: the labels that there are stay good.
LEMMA LabelsStay ==
  ASSUME NEW st \in Seq(Messages), NEW m \in Messages, NEW s \in Seq(Tokens),
         NEW I, NEW K, Labelled(st, s, I, K)
  PROVE  Labelled(Append(st, m), s, I, K)
<1> DEFINE u == Append(st, m)
<1>1. \A i \in 1 .. Len(st) : i \in 1 .. Len(u) /\ u[i] = st[i]
  OBVIOUS
<1> HIDE DEF u
<1>2. ASSUME NEW n \in 1 .. Len(s)
      PROVE  /\ I[n] \in 1 .. Len(u)
             /\ K[n] \in 1 .. FrameLen(u[I[n]])
             /\ s[n] = Frame(u[I[n]], I[n])[K[n]]
             /\ Follows(u, I[n], K[n], I[n + 1], K[n + 1])
  <2>1. I[n] \in 1 .. Len(u) /\ u[I[n]] = st[I[n]]
    BY <1>1 DEF Labelled
  <2>2. Follows(st, I[n], K[n], I[n + 1], K[n + 1])
    BY DEF Labelled
  <2>3. Follows(u, I[n], K[n], I[n + 1], K[n + 1])
    BY <2>1, <2>2 DEF Follows
  <2> QED
    BY <2>1, <2>3 DEF Labelled
<1>3. Labelled(u, s, I, K)
  BY <1>2, Zenon DEF Labelled
<1> QED
  BY <1>3 DEF u

\* The labels after frame f, that of message i, has been put behind s
LongerI(I, s, f, i) ==
    [n \in 1 .. Len(s) + Len(f) + 1 |->
       IF n <= Len(s) THEN I[n] ELSE IF n <= Len(s) + Len(f) THEN i ELSE i + 1]
LongerK(K, s, f) ==
    [n \in 1 .. Len(s) + Len(f) + 1 |->
       IF n <= Len(s) THEN K[n] ELSE IF n <= Len(s) + Len(f) THEN n - Len(s) ELSE 1]

LEMMA LabelsSend ==
  ASSUME NEW st \in Seq(Messages), NEW m \in Messages, Len(st) + 1 <= MaxSent,
         NEW s \in Seq(Tokens), NEW I, NEW K, Labelled(st, s, I, K),
         I[Len(s) + 1] = Len(st) + 1, K[Len(s) + 1] = 1,
         NEW f \in Seq(Tokens), f = Frame(m, Len(st) + 1), Len(f) = FrameLen(m)
  PROVE  LET I2 == LongerI(I, s, f, Len(st) + 1)
             K2 == LongerK(K, s, f)
         IN  /\ Labelled(Append(st, m), s \o f, I2, K2)
             /\ I2[1] = I[1] /\ K2[1] = K[1]
             /\ I2[Len(s \o f) + 1] = Len(st) + 2 /\ K2[Len(s \o f) + 1] = 1
<1> DEFINE u == Append(st, m)
           i == Len(st) + 1
           t == s \o f
           I2 == LongerI(I, s, f, i)
           K2 == LongerK(K, s, f)
<1>1. /\ Len(u) = i /\ u[i] = m /\ i \in Nat /\ i \in 1 .. i /\ i + 1 = Len(st) + 2
  OBVIOUS
<1>2. /\ t \in Seq(Tokens)
      /\ Len(t) = Len(s) + Len(f)
      /\ \A n \in 1 .. Len(s) : t[n] = s[n]
      /\ \A n \in 1 .. Len(f) : t[Len(s) + n] = f[n]
  BY Joined
<1>3. Len(s) \in Nat /\ Len(f) \in Nat
  OBVIOUS
<1>4. Labelled(u, s, I, K)
  BY LabelsStay
<1>5. Len(f) >= 1
  BY <1>3, BodyBytesOf, FrameOf, FramingAssumption DEF FrameLen, HeaderLen
<1>i. I[Len(s) + 1] = i
  OBVIOUS
<1>f. f = Frame(u[i], i) /\ Len(f) = FrameLen(u[i])
  BY <1>1
<1> HIDE DEF u, i, t
<1>6. /\ I2 \in [1 .. Len(t) + 1 -> Nat]
      /\ K2 \in [1 .. Len(t) + 1 -> Nat]
  <2>1. ASSUME NEW n \in 1 .. Len(s) + Len(f) + 1, n <= Len(s)
        PROVE  I[n] \in Nat /\ K[n] \in Nat
    BY <2>1, <1>3, <1>4 DEF Labelled
  <2>2. ASSUME NEW n \in 1 .. Len(s) + Len(f) + 1, ~(n <= Len(s))
        PROVE  n - Len(s) \in Nat
    BY <2>2, <1>3
  <2> QED
    BY <1>1, <1>2, <2>1, <2>2, SMTT(30) DEF LongerI, LongerK
<1>7. /\ \A n \in 1 .. Len(s) : I2[n] = I[n] /\ K2[n] = K[n]
      /\ \A n \in 1 .. Len(f) : I2[Len(s) + n] = i /\ K2[Len(s) + n] = n
      /\ I2[Len(t) + 1] = i + 1 /\ K2[Len(t) + 1] = 1
  BY <1>2, <1>3 DEF LongerI, LongerK
<1> HIDE DEF I2, K2
<1>8. \A n \in 1 .. Len(s) + 1 : I2[n] = I[n] /\ K2[n] = K[n]
  <2> TAKE n \in 1 .. Len(s) + 1
  <2>1. CASE n <= Len(s)
    BY <1>3, <1>7, <2>1
  <2>2. CASE n = Len(s) + 1
    BY <1>3, <1>5, <1>7, <1>i, <2>2
  <2> QED
    BY <1>3, <2>1, <2>2
<1>9. ASSUME NEW n \in 1 .. Len(t)
      PROVE  /\ I2[n] \in 1 .. Len(u)
             /\ K2[n] \in 1 .. FrameLen(u[I2[n]])
             /\ t[n] = Frame(u[I2[n]], I2[n])[K2[n]]
             /\ Follows(u, I2[n], K2[n], I2[n + 1], K2[n + 1])
  <2>1. CASE n <= Len(s)
    <3>1. /\ n \in 1 .. Len(s) /\ t[n] = s[n]
          /\ n \in 1 .. Len(s) + 1 /\ n + 1 \in 1 .. Len(s) + 1
      BY <1>2, <1>3, <2>1
    <3>2. /\ I2[n] = I[n] /\ I2[n + 1] = I[n + 1]
          /\ K2[n] = K[n] /\ K2[n + 1] = K[n + 1]
      BY <1>8, <3>1
    <3> QED
      BY <1>4, <3>1, <3>2, Zenon DEF Labelled
  <2>2. CASE n > Len(s)
    <3> DEFINE k == n - Len(s)
    <3>1. k \in 1 .. Len(f) /\ n = Len(s) + k
      BY <1>2, <1>3, <2>2
    <3>2. t[n] = f[k] /\ I2[n] = i /\ K2[n] = k
      BY <1>2, <1>7, <3>1
    <3> HIDE DEF k
    <3>3. Follows(u, i, k, I2[n + 1], K2[n + 1])
      <4>1. CASE k < Len(f)
        <5>1. k + 1 \in 1 .. Len(f) /\ n + 1 = Len(s) + (k + 1)
          BY <1>3, <3>1, <4>1
        <5>2. I2[n + 1] = i /\ K2[n + 1] = k + 1
          BY <1>7, <5>1
        <5> QED
          BY <1>f, <4>1, <5>2 DEF Follows
      <4>2. CASE k = Len(f)
        <5>1. n + 1 = Len(t) + 1
          BY <1>2, <1>3, <3>1, <4>2
        <5> QED
          BY <1>7, <1>f, <4>2, <5>1 DEF Follows
      <4> QED
        BY <1>3, <3>1, <4>1, <4>2
    <3> QED
      BY <1>1, <1>f, <3>1, <3>2, <3>3
  <2> QED
    BY <1>2, <1>3, <2>1, <2>2
<1>10. Labelled(u, t, I2, K2)
  BY <1>6, <1>9, Zenon DEF Labelled
<1>11. I2[1] = I[1] /\ K2[1] = K[1]
  BY <1>3, <1>8
<1>12. I2[Len(t) + 1] = Len(st) + 2 /\ K2[Len(t) + 1] = 1
  BY <1>1, <1>7
<1> QED
  BY <1>10, <1>11, <1>12 DEF u, t, i, I2, K2

-----------------------------------------------------------------------------
(***************************************************************************)
(* The inductive invariant                                                 *)
(***************************************************************************)
\* What the writer that is waiting for room has yet to put in the buffer
Rest(wp, pn) ==
    IF \E w \in Writers : wp[w] = "write"
      THEN pn[CHOOSE w \in Writers : wp[w] = "write"]
      ELSE <<>>

\* What is on its way.  When the connection has ended, the buffer stays behind.
Stream == IF open THEN wire \o (out \o Rest(wpc, pending)) ELSE wire

\* The receiver expects the k-th token of the i-th message: one before the end of
\* the header, the end of the header, one of the body or, when the body is there
\* and not yet parsed, the next message.
BeforeLength(i, k) ==
    /\ rpc = "header"
    /\ length = 0
    /\ i = Len(received) + 1
    /\ k = 1 \/ (k = 2 /\ i <= Len(sent) /\ sent[i] \in Extra)

BeforeEmpty(i, k) ==
    /\ rpc = "header"
    /\ i = Len(received) + 1
    /\ i <= Len(sent)
    /\ length = Size[sent[i]]
    /\ k = HeaderLen(sent[i])

InBody(r, i, k) ==
    /\ rpc = "body"
    /\ r = Len(received) + 1
    /\ r <= Len(sent)
    /\ length = Size[sent[r]]
    /\ Len(body) <= length
    /\ \A j \in 1 .. Len(body) : body[j] = [id |-> r, k |-> j]
    /\ \/ Len(body) < length /\ i = r /\ k = HeaderLen(sent[r]) + Len(body) + 1
       \/ Len(body) = length /\ i = r + 1 /\ k = 1

Expects(i, k) == BeforeLength(i, k) \/ BeforeEmpty(i, k) \/ InBody(Len(received) + 1, i, k)

WholeFrames ==
    \E I, K \in [1 .. Len(Stream) + 1 -> Nat] :
      /\ Labelled(sent, Stream, I, K)
      /\ Expects(I[1], K[1])
      /\ open => I[Len(Stream) + 1] = Len(sent) + 1 /\ K[Len(Stream) + 1] = 1

OneWrites ==
    /\ \A v, w \in Writers : wpc[v] = "write" /\ wpc[w] = "write" => v = w
    /\ \A w \in Writers : wpc[w] # "write" => pending[w] = <<>>

InOrder ==
    /\ Len(received) <= Len(sent)
    /\ \A k \in 1 .. Len(received) : received[k] = k

Orderly ==
    /\ OneWrites
    /\ InOrder
    /\ rpc = "failed" => ~open
    /\ rpc # "failed" => WholeFrames

FramingInv == ~torn => Orderly

LEMMA RestOf ==
  ASSUME NEW wp, NEW pn, NEW w \in Writers, wp[w] = "write",
         \A v \in Writers : wp[v] = "write" => v = w
  PROVE  Rest(wp, pn) = pn[w]
<1>1. (CHOOSE v \in Writers : wp[v] = "write") = w
  OBVIOUS
<1> QED
  BY <1>1 DEF Rest

LEMMA NoRest ==
  ASSUME NEW wp, NEW pn, \A v \in Writers : wp[v] # "write"
  PROVE  Rest(wp, pn) = <<>>
BY DEF Rest

LEMMA RestType ==
  ASSUME NEW wp, NEW pn \in [Writers -> Seq(Tokens)]
  PROVE  Rest(wp, pn) \in Seq(Tokens)
<1>1. CASE \E w \in Writers : wp[w] = "write"
  <2>1. (CHOOSE w \in Writers : wp[w] = "write") \in Writers
    BY <1>1
  <2> QED
    BY <1>1, <2>1 DEF Rest
<1>2. CASE ~\E w \in Writers : wp[w] = "write"
  <2>1. <<>> \in Seq(Tokens)
    OBVIOUS
  <2> QED
    BY <1>2, <2>1 DEF Rest
<1> QED
  BY <1>1, <1>2

LEMMA StreamType ==
  ASSUME TypeOK
  PROVE  /\ Rest(wpc, pending) \in Seq(Tokens)
         /\ out \o Rest(wpc, pending) \in Seq(Tokens)
         /\ Stream \in Seq(Tokens)
<1>1. /\ pending \in [Writers -> Seq(Tokens)]
      /\ out \in Seq(Tokens)
      /\ wire \in Seq(Tokens)
  BY DEF TypeOK
<1>2. Rest(wpc, pending) \in Seq(Tokens)
  BY <1>1, RestType
<1>3. out \o Rest(wpc, pending) \in Seq(Tokens)
  BY <1>1, <1>2, Joined
<1>4. wire \o (out \o Rest(wpc, pending)) \in Seq(Tokens)
  BY <1>1, <1>3, Joined
<1> QED
  BY <1>1, <1>2, <1>3, <1>4 DEF Stream

LEMMA TakeFirst ==
  ASSUME NEW a \in Seq(Tokens), NEW b \in Seq(Tokens), a # <<>>
  PROVE  /\ a \o b # <<>>
         /\ (a \o b)[1] = Head(a)
         /\ Tail(a \o b) = Tail(a) \o b
<1>1. Len(a) >= 1
  BY SMTT(30)
<1>2. a \o b \in Seq(Tokens) /\ Len(a \o b) = Len(a) + Len(b)
  BY SMTT(30)
<1>3. a \o b # <<>> /\ (a \o b)[1] = Head(a)
  BY <1>1, <1>2
<1>4. Tail(a) \o b \in Seq(Tokens) /\ Tail(a \o b) \in Seq(Tokens)
  BY <1>1, <1>2, <1>3
<1>5. Len(Tail(a) \o b) = Len(Tail(a \o b))
  BY <1>1, <1>2, <1>3
<1>6. \A k \in 1 .. Len(Tail(a \o b)) : Tail(a \o b)[k] = (Tail(a) \o b)[k]
  BY <1>1, <1>2, <1>3
<1> QED
  BY <1>3, <1>4, <1>5, <1>6, Equal

\* The receiver takes the token it expects, and then expects the next one.
LEMMA Taken ==
  ASSUME TypeOK, WholeFrames, wire # <<>>, wire' = Tail(wire),
         UNCHANGED <<sent, pending, wpc, out, open>>,
         \A i, k, j, l \in Nat :
           /\ i \in 1 .. Len(sent)
           /\ k \in 1 .. FrameLen(sent[i])
           /\ Head(wire) = Frame(sent[i], i)[k]
           /\ Expects(i, k)
           /\ Follows(sent, i, k, j, l)
           => Expects(j, l)'
  PROVE  WholeFrames'
<1> DEFINE R == out \o Rest(wpc, pending)
           S == Stream
<1>1. /\ wire \in Seq(Tokens)
      /\ R \in Seq(Tokens)
      /\ S \in Seq(Tokens)
      /\ sent \in Seq(Messages)
  BY StreamType DEF TypeOK
<1>2. S # <<>> /\ S[1] = Head(wire) /\ Stream' = Tail(S)
  <2>1. CASE open
    <3>1. S = wire \o R /\ Stream' = Tail(wire) \o R
      BY <2>1 DEF Stream
    <3> QED
      BY <1>1, <3>1, TakeFirst
  <2>2. CASE ~open
    <3>1. S = wire /\ Stream' = Tail(wire)
      BY <2>2 DEF Stream
    <3> QED
      BY <1>1, <3>1
  <2> QED
    BY <2>1, <2>2
<1>3. PICK I \in [1 .. Len(S) + 1 -> Nat], K \in [1 .. Len(S) + 1 -> Nat] :
        /\ Labelled(sent, S, I, K)
        /\ Expects(I[1], K[1])
        /\ open => I[Len(S) + 1] = Len(sent) + 1 /\ K[Len(S) + 1] = 1
  BY DEF WholeFrames
<1> HIDE DEF S
<1>j. PICK J, L : J = Behind(I, S) /\ L = Behind(K, S)
  OBVIOUS
<1>4. Labelled(sent, Tail(S), J, L)
  BY <1>1, <1>2, <1>3, <1>j, LabelsBehind
<1>5. Len(S) >= 1 /\ Len(Tail(S)) + 1 = Len(S) /\ Len(S) \in Nat
  BY <1>1, <1>2
<1>6. J[1] = I[2] /\ L[1] = K[2] /\ J[Len(S)] = I[Len(S) + 1] /\ L[Len(S)] = K[Len(S) + 1]
  BY <1>5, <1>j DEF Behind
<1>7. /\ I[1] \in Nat /\ K[1] \in Nat /\ I[2] \in Nat /\ K[2] \in Nat
      /\ I[1] \in 1 .. Len(sent)
      /\ K[1] \in 1 .. FrameLen(sent[I[1]])
      /\ S[1] = Frame(sent[I[1]], I[1])[K[1]]
      /\ Follows(sent, I[1], K[1], I[2], K[2])
  <2>1. 1 \in 1 .. Len(S) + 1 /\ 2 \in 1 .. Len(S) + 1 /\ 1 \in 1 .. Len(S) /\ 1 + 1 = 2
    BY <1>5
  <2>2. /\ I[1] \in 1 .. Len(sent)
        /\ K[1] \in 1 .. FrameLen(sent[I[1]])
        /\ S[1] = Frame(sent[I[1]], I[1])[K[1]]
        /\ Follows(sent, I[1], K[1], I[1 + 1], K[1 + 1])
    BY <1>3, <2>1, Zenon DEF Labelled
  <2> QED
    BY <1>3, <2>1, <2>2
<1>8. Expects(I[2], K[2])'
  BY <1>2, <1>3, <1>7
<1>9. J \in [1 .. Len(Tail(S)) + 1 -> Nat] /\ L \in [1 .. Len(Tail(S)) + 1 -> Nat]
  BY <1>4 DEF Labelled
<1>10. /\ Labelled(sent', Stream', J, L)
       /\ open' => J[Len(Stream') + 1] = Len(sent') + 1 /\ L[Len(Stream') + 1] = 1
  BY <1>2, <1>3, <1>4, <1>5, <1>6
<1>11. Expects(J[1], L[1])'
  BY <1>6, <1>8
<1> QED
  BY <1>2, <1>9, <1>10, <1>11 DEF WholeFrames

\* The token that is there is one that the receiver expects.
LEMMA FirstExpected ==
  ASSUME TypeOK, WholeFrames, wire # <<>>
  PROVE  \E i, k, j, l \in Nat :
           /\ i \in 1 .. Len(sent)
           /\ k \in 1 .. FrameLen(sent[i])
           /\ Head(wire) = Frame(sent[i], i)[k]
           /\ Expects(i, k)
           /\ Follows(sent, i, k, j, l)
<1> DEFINE R == out \o Rest(wpc, pending)
           S == Stream
<1>1. /\ wire \in Seq(Tokens)
      /\ R \in Seq(Tokens)
      /\ S \in Seq(Tokens)
  BY StreamType DEF TypeOK
<1>2. S # <<>> /\ S[1] = Head(wire)
  <2>1. CASE open
    <3>1. S = wire \o R
      BY <2>1 DEF Stream
    <3> QED
      BY <1>1, <3>1, TakeFirst
  <2>2. CASE ~open
    BY <1>1, <2>2 DEF Stream
  <2> QED
    BY <2>1, <2>2
<1>3. PICK I \in [1 .. Len(S) + 1 -> Nat], K \in [1 .. Len(S) + 1 -> Nat] :
        Labelled(sent, S, I, K) /\ Expects(I[1], K[1])
  BY DEF WholeFrames
<1> HIDE DEF S
<1>4. 1 \in 1 .. Len(S) + 1 /\ 2 \in 1 .. Len(S) + 1 /\ 1 \in 1 .. Len(S) /\ 1 + 1 = 2
  BY <1>1, <1>2
<1>5. /\ I[1] \in 1 .. Len(sent)
      /\ K[1] \in 1 .. FrameLen(sent[I[1]])
      /\ S[1] = Frame(sent[I[1]], I[1])[K[1]]
      /\ Follows(sent, I[1], K[1], I[1 + 1], K[1 + 1])
  BY <1>3, <1>4, Zenon DEF Labelled
<1>6. I[1] \in Nat /\ K[1] \in Nat /\ I[2] \in Nat /\ K[2] \in Nat
  BY <1>3, <1>4
<1> QED
  BY <1>2, <1>3, <1>4, <1>5, <1>6

\* Nothing of this changes while tokens move from a writer to the wire.
LEMMA Moved ==
  ASSUME WholeFrames, Stream' = Stream, open' = open,
         UNCHANGED <<sent, rpc, length, body, received>>
  PROVE  WholeFrames'
BY DEF WholeFrames, Expects, BeforeLength, BeforeEmpty, InBody

-----------------------------------------------------------------------------
(***************************************************************************)
(* The steps                                                               *)
(***************************************************************************)
LEMMA LineKinds ==
  /\ OtherLine.line = "other"
  /\ EmptyLine.line = "empty"
  /\ \A n \in Nat : LengthLine(n).line = "length" /\ LengthLine(n).n = n
BY DEF OtherLine, EmptyLine, LengthLine

\* What the receiver may expect in a header, and which token that is
LEMMA Expected ==
  ASSUME TypeOK, rpc = "header", NEW i \in 1 .. Len(sent), NEW k \in Nat, Expects(i, k)
  PROVE  /\ sent[i] \in Messages
         /\ i \in 1 .. MaxSent
         /\ HeaderLen(sent[i]) \in {2, 3}
         /\ Size[sent[i]] \in Nat \ {0}
         /\ i = Len(received) + 1
         /\ \/ /\ length = 0 /\ k = 1 /\ sent[i] \in Extra
               /\ Frame(sent[i], i)[k] = OtherLine
            \/ /\ length = 0 /\ k = HeaderLen(sent[i]) - 1
               /\ Frame(sent[i], i)[k] = LengthLine(Size[sent[i]])
            \/ /\ length = Size[sent[i]] /\ k = HeaderLen(sent[i])
               /\ Frame(sent[i], i)[k] = EmptyLine
<1>1. sent[i] \in Messages /\ i \in 1 .. MaxSent
  BY FramingAssumption DEF TypeOK
<1>2. Size[sent[i]] \in Nat \ {0}
  BY <1>1, FramingAssumption
<1>3. /\ sent[i] \in Extra => Frame(sent[i], i)[1] = OtherLine
      /\ Frame(sent[i], i)[HeaderLen(sent[i]) - 1] = LengthLine(Size[sent[i]])
      /\ Frame(sent[i], i)[HeaderLen(sent[i])] = EmptyLine
  BY <1>1, FrameOf
<1>4. HeaderLen(sent[i]) = IF sent[i] \in Extra THEN 3 ELSE 2
  BY DEF HeaderLen
<1>5. BeforeLength(i, k) \/ BeforeEmpty(i, k)
  BY DEF Expects, InBody
<1>6. CASE BeforeLength(i, k)
  <2>1. length = 0 /\ i = Len(received) + 1 /\ (k = 1 \/ (k = 2 /\ sent[i] \in Extra))
    BY <1>6 DEF BeforeLength
  <2>2. CASE sent[i] \in Extra /\ k = 1
    BY <1>1, <1>2, <1>3, <1>4, <2>1, <2>2
  <2>3. CASE sent[i] \in Extra /\ k = 2
    <3>1. k = HeaderLen(sent[i]) - 1
      BY <1>4, <2>3
    <3> QED
      BY <1>1, <1>2, <1>3, <1>4, <2>1, <3>1
  <2>4. CASE sent[i] \notin Extra
    <3>1. k = HeaderLen(sent[i]) - 1
      BY <1>4, <2>1, <2>4
    <3> QED
      BY <1>1, <1>2, <1>3, <1>4, <2>1, <3>1
  <2> QED
    BY <2>1, <2>2, <2>3, <2>4
<1>7. CASE BeforeEmpty(i, k)
  BY <1>1, <1>2, <1>3, <1>4, <1>7 DEF BeforeEmpty
<1> QED
  BY <1>5, <1>6, <1>7

LEMMA OtherStep ==
  ASSUME TypeOK, FramingInv, RecvOther
  PROVE  FramingInv'
<1> SUFFICES ASSUME ~torn' PROVE Orderly'
  BY DEF FramingInv
<1>1. Orderly /\ rpc = "header" /\ WholeFrames
  BY DEF FramingInv, RecvOther, NextIsLine, Orderly
<1>2. wire # <<>> /\ wire' = Tail(wire) /\ Head(wire).line = "other"
  BY DEF RecvOther, NextIsLine
<1>3. UNCHANGED <<sent, pending, wpc, out, open, rpc, length, body, received>>
  BY DEF RecvOther
<1>4. ASSUME NEW i \in Nat, NEW k \in Nat, NEW j \in Nat, NEW l \in Nat,
             i \in 1 .. Len(sent), k \in 1 .. FrameLen(sent[i]),
             Head(wire) = Frame(sent[i], i)[k], Expects(i, k), Follows(sent, i, k, j, l)
      PROVE  Expects(j, l)'
  <2>1. /\ length = 0 /\ k = 1 /\ sent[i] \in Extra
        /\ i = Len(received) + 1
        /\ Size[sent[i]] \in Nat \ {0}
    <3>1. Head(wire) = OtherLine \/ Head(wire) = EmptyLine
            \/ Head(wire) = LengthLine(Size[sent[i]])
      BY <1>1, <1>4, Expected
    <3> QED
      BY <1>1, <1>2, <1>4, <3>1, Expected, LineKinds
  <2>2. k < FrameLen(sent[i])
    BY <2>1 DEF FrameLen, HeaderLen
  <2>3. j = i /\ l = 2
    BY <2>1, <2>2, <1>4 DEF Follows
  <2> QED
    BY <1>1, <1>3, <1>4, <2>1, <2>3 DEF Expects, BeforeLength
<1>5. WholeFrames'
  BY <1>1, <1>2, <1>3, <1>4, Taken
<1> QED
  BY <1>1, <1>3, <1>5 DEF Orderly, OneWrites, InOrder

LEMMA LengthStep ==
  ASSUME TypeOK, FramingInv, RecvLength
  PROVE  FramingInv'
<1> SUFFICES ASSUME ~torn' PROVE Orderly'
  BY DEF FramingInv
<1>1. Orderly /\ rpc = "header" /\ WholeFrames
  BY DEF FramingInv, RecvLength, NextIsLine, Orderly
<1>2. /\ wire # <<>> /\ wire' = Tail(wire)
      /\ Head(wire).line = "length" /\ length' = Head(wire).n
  BY DEF RecvLength, NextIsLine
<1>3. UNCHANGED <<sent, pending, wpc, out, open, rpc, body, received>>
  BY DEF RecvLength
<1>4. ASSUME NEW i \in Nat, NEW k \in Nat, NEW j \in Nat, NEW l \in Nat,
             i \in 1 .. Len(sent), k \in 1 .. FrameLen(sent[i]),
             Head(wire) = Frame(sent[i], i)[k], Expects(i, k), Follows(sent, i, k, j, l)
      PROVE  Expects(j, l)'
  <2>1. /\ k = HeaderLen(sent[i]) - 1
        /\ Head(wire) = LengthLine(Size[sent[i]])
        /\ i = Len(received) + 1
        /\ Size[sent[i]] \in Nat \ {0}
        /\ HeaderLen(sent[i]) \in {2, 3}
    <3>1. Head(wire) = OtherLine \/ Head(wire) = EmptyLine
            \/ Head(wire) = LengthLine(Size[sent[i]])
      BY <1>1, <1>4, Expected
    <3> QED
      BY <1>1, <1>2, <1>4, <3>1, Expected, LineKinds
  <2>2. k < FrameLen(sent[i])
    BY <2>1 DEF FrameLen
  <2>3. j = i /\ l = HeaderLen(sent[i])
    BY <2>1, <2>2, <1>4 DEF Follows
  <2>4. length' = Size[sent[i]]
    BY <1>2, <2>1, LineKinds
  <2> QED
    BY <1>1, <1>3, <1>4, <2>1, <2>3, <2>4 DEF Expects, BeforeEmpty
<1>5. WholeFrames'
  BY <1>1, <1>2, <1>3, <1>4, Taken
<1> QED
  BY <1>1, <1>3, <1>5 DEF Orderly, OneWrites, InOrder

LEMMA EmptyStep ==
  ASSUME TypeOK, FramingInv, RecvEmpty
  PROVE  FramingInv'
<1> SUFFICES ASSUME ~torn' PROVE Orderly'
  BY DEF FramingInv
<1>1. Orderly /\ rpc = "header" /\ WholeFrames
  BY DEF FramingInv, RecvEmpty, NextIsLine, Orderly
<1>2. /\ wire # <<>> /\ wire' = Tail(wire)
      /\ Head(wire).line = "empty"
      /\ rpc' = IF length = 0 THEN "failed" ELSE "body"
      /\ body' = <<>>
  BY DEF RecvEmpty, NextIsLine
<1>3. UNCHANGED <<sent, pending, wpc, out, open, length, received>>
  BY DEF RecvEmpty
<1>4. ASSUME NEW i \in Nat, NEW k \in Nat, NEW j \in Nat, NEW l \in Nat,
             i \in 1 .. Len(sent), k \in 1 .. FrameLen(sent[i]),
             Head(wire) = Frame(sent[i], i)[k], Expects(i, k), Follows(sent, i, k, j, l)
      PROVE  Expects(j, l)' /\ rpc' = "body"
  <2>1. /\ k = HeaderLen(sent[i])
        /\ length = Size[sent[i]]
        /\ i = Len(received) + 1
        /\ Size[sent[i]] \in Nat \ {0}
        /\ HeaderLen(sent[i]) \in {2, 3}
    <3>1. Head(wire) = OtherLine \/ Head(wire) = EmptyLine
            \/ Head(wire) = LengthLine(Size[sent[i]])
      BY <1>1, <1>4, Expected
    <3> QED
      BY <1>1, <1>2, <1>4, <3>1, Expected, LineKinds
  <2>2. k < FrameLen(sent[i])
    BY <2>1 DEF FrameLen
  <2>3. j = i /\ l = HeaderLen(sent[i]) + 1
    BY <2>1, <2>2, <1>4 DEF Follows
  <2>4. rpc' = "body"
    BY <1>2, <2>1
  <2>5. Len(body') = 0
    BY <1>2
  <2>6. InBody(i, j, l)'
    BY <1>3, <1>4, <2>1, <2>3, <2>4, <2>5 DEF InBody
  <2> QED
    BY <1>3, <2>1, <2>4, <2>6 DEF Expects
<1>5. WholeFrames'
  BY <1>1, <1>2, <1>3, <1>4, Taken
<1>6. rpc' # "failed"
  BY <1>1, FirstExpected, <1>2, <1>4
<1> QED
  BY <1>1, <1>3, <1>5, <1>6 DEF Orderly, OneWrites, InOrder

LEMMA BodyStep ==
  ASSUME TypeOK, FramingInv, RecvBody
  PROVE  FramingInv'
<1> SUFFICES ASSUME ~torn' PROVE Orderly'
  BY DEF FramingInv
<1>1. Orderly /\ rpc = "body" /\ WholeFrames
  BY DEF FramingInv, RecvBody, Orderly
<1>2. /\ wire # <<>> /\ wire' = Tail(wire)
      /\ Len(body) < length
      /\ body' = Append(body, Head(wire))
  BY DEF RecvBody
<1>3. UNCHANGED <<sent, pending, wpc, out, open, rpc, length, received>>
  BY DEF RecvBody
<1>4. ASSUME NEW i \in Nat, NEW k \in Nat, NEW j \in Nat, NEW l \in Nat,
             i \in 1 .. Len(sent), k \in 1 .. FrameLen(sent[i]),
             Head(wire) = Frame(sent[i], i)[k], Expects(i, k), Follows(sent, i, k, j, l)
      PROVE  Expects(j, l)'
  <2> DEFINE r == Len(received) + 1
             b == Len(body)
             h == HeaderLen(sent[i])
  <2>1. InBody(r, i, k)
    BY <1>1, <1>4 DEF Expects, BeforeLength, BeforeEmpty
  <2>2. body \in Seq(Tokens) /\ b \in Nat
    BY DEF TypeOK
  <2>3. /\ i = r
        /\ length = Size[sent[i]]
        /\ k = h + b + 1
        /\ \A n \in 1 .. b : body[n] = [id |-> i, k |-> n]
    BY <1>2, <2>1, <2>2 DEF InBody
  <2>4. /\ sent[i] \in Messages
        /\ i \in 1 .. MaxSent
    BY <1>4, FramingAssumption DEF TypeOK
  <2>5. Size[sent[i]] \in Nat \ {0} /\ h \in {2, 3} /\ FrameLen(sent[i]) = h + Size[sent[i]]
    BY <2>4, FramingAssumption DEF HeaderLen, FrameLen
  <2>6. Head(wire) = [id |-> i, k |-> b + 1]
    <3>1. b + 1 \in 1 .. Size[sent[i]] /\ k = h + (b + 1)
      BY <1>2, <2>2, <2>3, <2>5
    <3>2. Frame(sent[i], i)[h + (b + 1)] = [id |-> i, k |-> b + 1]
      BY <2>4, <3>1, FrameOf
    <3> QED
      BY <1>4, <3>1, <3>2
  <2>7. /\ Len(body') = b + 1
        /\ \A n \in 1 .. b + 1 : body'[n] = [id |-> i, k |-> n]
    <3>1. Len(body') = b + 1 /\ \A n \in 1 .. b : body'[n] = body[n]
      BY <1>2, <2>2
    <3>2. body'[b + 1] = Head(wire)
      BY <1>2, <2>2
    <3>3. ASSUME NEW n \in 1 .. b + 1
          PROVE  body'[n] = [id |-> i, k |-> n]
      <4>1. n \in 1 .. b \/ n = b + 1
        BY <2>2
      <4> QED
        BY <2>3, <2>6, <3>1, <3>2, <4>1
    <3> QED
      BY <3>1, <3>3
  <2>8. \/ b + 1 < length /\ j = i /\ l = h + (b + 1) + 1
        \/ b + 1 = length /\ j = i + 1 /\ l = 1
    <3>1. \/ k < h + length /\ j = i /\ l = k + 1
          \/ k = h + length /\ j = i + 1 /\ l = 1
      BY <1>4, <2>3, <2>5 DEF Follows
    <3>2. length \in Nat /\ b < length /\ k = h + b + 1
      BY <1>2, <2>3 DEF TypeOK
    <3> HIDE DEF b, h
    <3> QED
      BY <2>2, <2>5, <3>1, <3>2
  <2>9. InBody(i, j, l)'
    BY <1>1, <1>2, <1>3, <1>4, <2>2, <2>3, <2>5, <2>7, <2>8, SMTT(30) DEF InBody
  <2> QED
    BY <1>3, <2>3, <2>9 DEF Expects
<1>5. WholeFrames'
  BY <1>1, <1>2, <1>3, <1>4, Taken
<1> QED
  BY <1>1, <1>3, <1>5 DEF Orderly, OneWrites, InOrder

\* A body that is complete is the next message's, and no other's.
LEMMA BodyComplete ==
  ASSUME TypeOK, Orderly, rpc = "body", Len(body) = length
  PROVE  /\ Parsed = {Len(received) + 1}
         /\ Len(received) + 1 <= Len(sent)
<1> DEFINE r == Len(received) + 1
<1>1. PICK i, k : InBody(r, i, k)
  BY DEF Orderly, WholeFrames, Expects, BeforeLength, BeforeEmpty
<1>2. /\ r \in 1 .. Len(sent)
      /\ length = Size[sent[r]]
      /\ \A n \in 1 .. Len(body) : body[n] = [id |-> r, k |-> n]
  BY <1>1 DEF InBody, TypeOK
<1>3. \A n \in 1 .. Len(sent) : sent[n] \in Messages /\ n \in 1 .. MaxSent
  BY FramingAssumption DEF TypeOK
<1>4. body \in Seq(Tokens)
  BY DEF TypeOK
<1>5. body = Body(sent[r], r)
  <2>1. /\ Body(sent[r], r) \in Seq(Tokens)
        /\ Len(Body(sent[r], r)) = Size[sent[r]]
        /\ \A n \in 1 .. Size[sent[r]] : Body(sent[r], r)[n] = [id |-> r, k |-> n]
    BY <1>2, <1>3, BodyBytesOf
  <2> DEFINE B == Body(sent[r], r)
  <2> HIDE DEF B, r
  <2>2. B \in Seq(Tokens) /\ Len(body) = Len(B)
    BY <1>2, <2>1 DEF B
  <2>3. \A n \in 1 .. Len(body) : body[n] = B[n]
    BY <1>2, <2>1, <2>2 DEF B
  <2>4. body = B
    BY <1>4, <2>2, <2>3, Equal
  <2> QED
    BY <2>4 DEF B
<1>6. ASSUME NEW n \in 1 .. Len(sent), body = Body(sent[n], n)
      PROVE  n = r
  <2>1. /\ Len(body) = Size[sent[n]]
        /\ Size[sent[n]] \in Nat \ {0}
        /\ \A x \in 1 .. Size[sent[n]] : body[x] = [id |-> n, k |-> x]
    BY <1>3, <1>6, BodyBytesOf
  <2>2. 1 \in 1 .. Size[sent[n]] /\ 1 \in 1 .. Len(body)
    BY <2>1
  <2>3. [id |-> n, k |-> 1] = [id |-> r, k |-> 1]
    BY <1>2, <2>1, <2>2
  <2> HIDE DEF r
  <2>4. [id |-> n, k |-> 1].id = [id |-> r, k |-> 1].id
    BY <2>3
  <2> QED
    BY <2>4
<1>7. DOMAIN sent = 1 .. Len(sent)
  BY DEF TypeOK
<1> HIDE DEF r
<1>8. Parsed = {r}
  BY <1>2, <1>5, <1>6, <1>7 DEF Parsed
<1> QED
  BY <1>2, <1>8 DEF r, TypeOK

LEMMA ParseStep ==
  ASSUME TypeOK, FramingInv, ParseMsg
  PROVE  FramingInv'
<1> SUFFICES ASSUME ~torn' PROVE Orderly'
  BY DEF FramingInv
<1> DEFINE r == Len(received) + 1
<1>1. Orderly /\ rpc = "body" /\ WholeFrames /\ Len(body) = length
  BY DEF FramingInv, ParseMsg, Orderly
<1>2. /\ received' = Append(received, r)
      /\ r <= Len(sent)
  BY <1>1, BodyComplete DEF ParseMsg
<1>3. UNCHANGED <<sent, pending, wpc, out, wire, open, body>> /\ rpc' = "header" /\ length' = 0
  BY DEF ParseMsg
<1>4. received \in Seq(1 .. MaxSent) /\ Len(sent) \in Nat
  BY DEF TypeOK
<1>5. InOrder'
  <2>1. Len(received') = r /\ \A k \in 1 .. Len(received) : received'[k] = received[k]
    BY <1>2, <1>4
  <2>2. received'[r] = r
    BY <1>2, <1>4
  <2>3. \A k \in 1 .. r : k \in 1 .. Len(received) \/ k = r
    BY <1>4
  <2>4. \A k \in 1 .. Len(received) : received[k] = k
    BY <1>1 DEF Orderly, InOrder
  <2> HIDE DEF r
  <2> QED
    BY <1>2, <1>3, <2>1, <2>2, <2>3, <2>4 DEF InOrder
<1>6. Stream' = Stream
  BY <1>3 DEF Stream
<1>7. ASSUME NEW i \in Nat, NEW k \in Nat, Expects(i, k)
      PROVE  Expects(i, k)'
  <2>1. i = r + 1 /\ k = 1
    <3>1. InBody(r, i, k)
      BY <1>1, <1>7 DEF Expects, BeforeLength, BeforeEmpty
    <3>2. ~(Len(body) < length)
      BY <1>1 DEF TypeOK
    <3> QED
      BY <3>1, <3>2 DEF InBody
  <2>2. Len(received') = r
    BY <1>2, <1>4
  <2> QED
    BY <1>3, <2>1, <2>2 DEF Expects, BeforeLength
<1>8. PICK I \in [1 .. Len(Stream) + 1 -> Nat], K \in [1 .. Len(Stream) + 1 -> Nat] :
        /\ Labelled(sent, Stream, I, K)
        /\ Expects(I[1], K[1])
        /\ open => I[Len(Stream) + 1] = Len(sent) + 1 /\ K[Len(Stream) + 1] = 1
  BY <1>1 DEF WholeFrames
<1>9. I[1] \in Nat /\ K[1] \in Nat
  <2>1. Len(Stream) \in Nat
    BY StreamType
  <2> QED
    BY <1>8, <2>1
<1>10. Expects(I[1], K[1])'
  BY <1>7, <1>8, <1>9
<1>11. WholeFrames'
  BY <1>3, <1>6, <1>8, <1>10 DEF WholeFrames
<1> QED
  BY <1>1, <1>3, <1>5, <1>11 DEF Orderly, OneWrites

LEMMA ReceiveStep ==
  ASSUME TypeOK, FramingInv, Receive
  PROVE  FramingInv'
<1>1. CASE RecvOther
  BY <1>1, OtherStep
<1>2. CASE RecvLength
  BY <1>2, LengthStep
<1>3. CASE RecvEmpty
  BY <1>3, EmptyStep
<1>4. CASE RecvBody
  BY <1>4, BodyStep
<1>5. CASE ParseMsg
  BY <1>5, ParseStep
<1>6. CASE BadJson
  <2> SUFFICES ASSUME ~torn' PROVE FALSE
    BY DEF FramingInv
  <2>1. Orderly /\ rpc = "body" /\ Len(body) = length /\ Parsed = {}
    BY <1>6 DEF BadJson, FramingInv
  <2> QED
    BY <2>1, BodyComplete
<1>7. CASE RecvError
  <2> SUFFICES ASSUME ~torn' PROVE Orderly'
    BY DEF FramingInv
  <2>1. Orderly
    BY <1>7 DEF RecvError, FramingInv
  <2> QED
    BY <1>7, <2>1 DEF RecvError, Orderly, OneWrites, InOrder
<1> QED
  BY <1>1, <1>2, <1>3, <1>4, <1>5, <1>6, <1>7 DEF Receive

\* A writer puts tokens into the buffer while no other is writing.
LEMMA AloneWrites ==
  ASSUME TypeOK, OneWrites, NEW w \in Writers, NEW tokens \in Seq(Tokens), Put(w, tokens),
         \A v \in Writers : v # w => wpc[v] # "write"
  PROVE  /\ OneWrites'
         /\ out' \o Rest(wpc', pending') = out \o tokens
<1>1. /\ out' \o pending'[w] = out \o tokens
      /\ \A v \in Writers : v # w => pending'[v] = pending[v] /\ wpc'[v] = wpc[v]
      /\ wpc'[w] = "write" \/ (wpc'[w] = "flush" /\ pending'[w] = <<>>)
  BY PutTokens
<1>2. \A v \in Writers : wpc'[v] = "write" => v = w
  BY <1>1
<1>3. OneWrites'
  <2>1. \A v \in Writers : wpc'[v] # "write" => pending'[v] = <<>>
    BY <1>1 DEF OneWrites
  <2>2. \A v, u \in Writers : wpc'[v] = "write" /\ wpc'[u] = "write" => v = u
    BY <1>2
  <2> QED
    BY <2>1, <2>2 DEF OneWrites
<1>4. Rest(wpc', pending') = pending'[w]
  <2>1. CASE wpc'[w] = "write"
    BY <1>2, <2>1, RestOf
  <2>2. CASE wpc'[w] # "write"
    <3>1. \A v \in Writers : wpc'[v] # "write"
      BY <1>2, <2>2
    <3>2. Rest(wpc', pending') = <<>>
      BY <3>1, NoRest
    <3> QED
      BY <1>1, <2>2, <3>2
  <2> QED
    BY <2>1, <2>2
<1> QED
  BY <1>1, <1>3, <1>4

LEMMA ResumeStep ==
  ASSUME TypeOK, FramingInv, NEW w \in Writers, ResumeWrite(w)
  PROVE  FramingInv'
<1> SUFFICES ASSUME ~torn' PROVE Orderly'
  BY DEF FramingInv
<1>1. Orderly /\ wpc[w] = "write" /\ Put(w, pending[w]) /\ pending[w] \in Seq(Tokens)
  BY DEF FramingInv, ResumeWrite, TypeOK
<1>2. UNCHANGED <<sent, wire, open, rpc, length, body, received>>
  BY DEF ResumeWrite
<1>3. \A v \in Writers : v # w => wpc[v] # "write"
  BY <1>1 DEF Orderly, OneWrites
<1>4. OneWrites' /\ out' \o Rest(wpc', pending') = out \o pending[w]
  BY <1>1, <1>3, AloneWrites DEF Orderly
<1>5. Rest(wpc, pending) = pending[w]
  BY <1>1, <1>3, RestOf
<1>6. Stream' = Stream
  BY <1>2, <1>4, <1>5 DEF Stream
<1>7. WholeFrames => WholeFrames'
  BY <1>2, <1>6, Moved
<1> QED
  BY <1>1, <1>2, <1>4, <1>7 DEF Orderly, InOrder

LEMMA FlushStep ==
  ASSUME TypeOK, FramingInv, NEW w \in Writers, EndFlush(w) \/ SendError(w)
  PROVE  FramingInv'
<1> SUFFICES ASSUME ~torn' PROVE Orderly'
  BY DEF FramingInv
<1>1. Orderly
  BY DEF FramingInv, EndFlush, SendError
<1>2. UNCHANGED <<sent, out, wire, open, rpc, length, body, received>>
  BY DEF EndFlush, SendError
<1>3. /\ wpc \in [Writers -> {"idle", "write", "flush"}]
      /\ pending \in [Writers -> Seq(Tokens)]
      /\ wpc' = [wpc EXCEPT ![w] = "idle"]
  BY DEF EndFlush, SendError, TypeOK
<1>4. OneWrites'
  <2>1. \/ pending' = pending /\ wpc[w] # "write"
        \/ pending' = [pending EXCEPT ![w] = <<>>]
    BY DEF EndFlush, SendError
  <2>2. \A v \in Writers : v # w => wpc'[v] = wpc[v] /\ pending'[v] = pending[v]
    BY <1>3, <2>1
  <2>3. wpc'[w] = "idle" /\ pending'[w] = <<>>
    BY <1>1, <1>3, <2>1 DEF Orderly, OneWrites
  <2> QED
    BY <1>1, <2>2, <2>3 DEF Orderly, OneWrites
<1>5. Stream' = Stream
  <2>1. CASE EndFlush(w)
    <3>1. wpc[w] = "flush" /\ pending' = pending
      BY <2>1 DEF EndFlush
    <3>2. Rest(wpc', pending') = Rest(wpc, pending)
      <4>1. \A v \in Writers : wpc'[v] = "write" <=> wpc[v] = "write"
        BY <1>3, <3>1
      <4>2. CASE \E v \in Writers : wpc[v] = "write"
        <5>1. PICK v \in Writers : wpc[v] = "write"
          BY <4>2
        <5>2. \A u \in Writers : wpc[u] = "write" => u = v
          BY <1>1, <5>1 DEF Orderly, OneWrites
        <5>3. Rest(wpc, pending) = pending[v]
          BY <5>1, <5>2, RestOf
        <5>4. wpc'[v] = "write" /\ \A u \in Writers : wpc'[u] = "write" => u = v
          BY <4>1, <5>1, <5>2
        <5>5. Rest(wpc', pending') = pending'[v]
          BY <5>4, RestOf
        <5> QED
          BY <3>1, <5>3, <5>5
      <4>3. CASE ~\E v \in Writers : wpc[v] = "write"
        BY <4>1, <4>3, NoRest
      <4> QED
        BY <4>2, <4>3
    <3> QED
      BY <1>2, <3>2 DEF Stream
  <2>2. CASE SendError(w)
    BY <1>2, <2>2 DEF Stream, SendError
  <2> QED
    BY <2>1, <2>2
<1>6. WholeFrames => WholeFrames'
  BY <1>2, <1>5, Moved
<1> QED
  BY <1>1, <1>2, <1>4, <1>6 DEF Orderly, InOrder

LEMMA DrainStep ==
  ASSUME TypeOK, FramingInv, Drain
  PROVE  FramingInv'
<1> SUFFICES ASSUME ~torn' PROVE Orderly'
  BY DEF FramingInv
<1>1. Orderly
  BY DEF FramingInv, Drain
<1>2. UNCHANGED <<sent, pending, wpc, open, rpc, length, body, received>>
  BY DEF Drain
<1>3. open /\ out # <<>> /\ wire' = Append(wire, Head(out)) /\ out' = Tail(out)
  BY DEF Drain
<1>4. /\ out \in Seq(Tokens) /\ wire \in Seq(Tokens)
      /\ Rest(wpc, pending) \in Seq(Tokens)
  BY StreamType DEF TypeOK
<1> DEFINE h == <<Head(out)>>
           t == Tail(out)
           R == Rest(wpc, pending)
<1>5. h \in Seq(Tokens) /\ t \in Seq(Tokens) /\ out = h \o t /\ wire' = wire \o h
  <2>1. Head(out) \in Tokens
    BY <1>3, <1>4
  <2>2. h \in Seq(Tokens) /\ t \in Seq(Tokens)
    BY <1>3, <1>4, <2>1
  <2>3. h \o t \in Seq(Tokens) /\ Len(h \o t) = Len(out)
    BY <1>3, <1>4, <2>1, <2>2
  <2>4. \A k \in 1 .. Len(out) : out[k] = (h \o t)[k]
    BY <1>3, <1>4, <2>1, <2>2
  <2>5. out = h \o t
    BY <1>4, <2>3, <2>4, Equal
  <2>6. wire' = wire \o h
    BY <1>3
  <2> QED
    BY <2>2, <2>5, <2>6
<1>6. Stream' = Stream
  <2>1. R \in Seq(Tokens)
    BY <1>4
  <2> HIDE DEF h, t, R
  <2>2. t \o R \in Seq(Tokens)
    BY <1>5, <2>1, Joined
  <2>3. (wire \o h) \o (t \o R) = wire \o (h \o (t \o R))
    BY <1>4, <1>5, <2>2, JoinThree, SMTT(30)
  <2>4. (h \o t) \o R = h \o (t \o R)
    BY <1>5, <2>1, JoinThree
  <2>5. Stream' = (wire \o h) \o (t \o R)
    BY <1>2, <1>3, <1>5 DEF Stream, t, R
  <2>6. Stream = wire \o ((h \o t) \o R)
    BY <1>3, <1>5 DEF Stream, R
  <2> QED
    BY <2>3, <2>4, <2>5, <2>6
<1>7. WholeFrames => WholeFrames'
  BY <1>2, <1>6, Moved
<1> QED
  BY <1>1, <1>2, <1>7 DEF Orderly, OneWrites, InOrder

LEMMA DisconnectStep ==
  ASSUME TypeOK, FramingInv, Disconnect
  PROVE  FramingInv'
<1> SUFFICES ASSUME ~torn' PROVE Orderly'
  BY DEF FramingInv
<1>1. Orderly
  BY DEF FramingInv, Disconnect
<1>2. UNCHANGED <<sent, pending, wpc, out, wire, rpc, length, body, received>>
  BY DEF Disconnect
<1>3. open /\ ~open'
  BY DEF Disconnect
<1>4. ASSUME WholeFrames PROVE WholeFrames'
  <2> DEFINE R == out \o Rest(wpc, pending)
  <2>1. wire \in Seq(Tokens) /\ R \in Seq(Tokens) /\ sent \in Seq(Messages)
    BY StreamType DEF TypeOK
  <2>2. Stream = wire \o R /\ Stream' = wire
    BY <1>2, <1>3 DEF Stream
  <2>3. PICK I, K : Labelled(sent, Stream, I, K) /\ Expects(I[1], K[1])
    BY <1>4 DEF WholeFrames
  <2>4. Labelled(sent, wire, UpTo(I, wire), UpTo(K, wire))
    BY <2>1, <2>2, <2>3, LabelsUpTo
  <2>5. PICK J, L : J = UpTo(I, wire) /\ L = UpTo(K, wire)
    OBVIOUS
  <2>6. J[1] = I[1] /\ L[1] = K[1]
    BY <2>1, <2>5 DEF UpTo
  <2>7. Labelled(sent', Stream', J, L)
    BY <1>2, <2>2, <2>4, <2>5
  <2>8. J \in [1 .. Len(Stream') + 1 -> Nat] /\ L \in [1 .. Len(Stream') + 1 -> Nat]
    BY <2>7 DEF Labelled
  <2>9. Expects(I[1], K[1])'
    BY <1>2, <2>3 DEF Expects, BeforeLength, BeforeEmpty, InBody
  <2>10. Expects(J[1], L[1])'
    BY <2>6, <2>9
  <2> QED
    BY <1>3, <2>7, <2>8, <2>10 DEF WholeFrames
<1> QED
  BY <1>1, <1>2, <1>3, <1>4 DEF Orderly, OneWrites, InOrder

\* Sending begins while no other writer writes: a whole frame is put behind what
\* is on its way.
LEMMA BeginStep ==
  ASSUME TypeOK, FramingInv, NEW w \in Writers, NEW m \in Messages, BeginSend(w, m)
  PROVE  FramingInv'
<1> SUFFICES ASSUME ~torn' PROVE Orderly'
  BY DEF FramingInv
<1> DEFINE id == Len(sent) + 1
           f == Frame(m, id)
<1>1. /\ Orderly
      /\ \A v \in Writers : wpc[v] # "write"
  BY DEF FramingInv, BeginSend
<1>2. /\ UNCHANGED <<wire, open, rpc, length, body, received>>
      /\ sent' = Append(sent, m)
      /\ Put(w, f)
  BY DEF BeginSend
<1>3. /\ sent \in Seq(Messages) /\ Len(sent) \in Nat
      /\ id \in 1 .. MaxSent /\ Len(sent) + 1 <= MaxSent
      /\ out \in Seq(Tokens) /\ wire \in Seq(Tokens)
  BY FramingAssumption DEF TypeOK, BeginSend
<1>4. f \in Seq(Tokens) /\ Len(f) = FrameLen(m)
  BY <1>3, FrameOf
<1>5. OneWrites' /\ out' \o Rest(wpc', pending') = out \o f
  BY <1>1, <1>2, <1>4, AloneWrites DEF Orderly
<1>6. /\ Len(sent') = id
      /\ \A i \in 1 .. Len(sent) : sent'[i] = sent[i]
  BY <1>2, <1>3
<1>7. InOrder'
  BY <1>1, <1>2, <1>3, <1>6 DEF Orderly, InOrder, TypeOK
<1>8. ASSUME NEW i \in Nat, NEW k \in Nat, Expects(i, k)
      PROVE  Expects(i, k)'
  <2>0. received \in Seq(1 .. MaxSent) /\ Len(received) + 1 \in 1 .. Len(received) + 1
    BY DEF TypeOK
  <2>1. CASE BeforeLength(i, k)
    <3>1. i <= Len(sent) => i \in 1 .. Len(sent)
      BY <1>3, <2>0, <2>1 DEF BeforeLength
    <3> QED
      BY <1>2, <1>3, <1>6, <2>1, <3>1 DEF Expects, BeforeLength
  <2>2. CASE BeforeEmpty(i, k)
    <3>1. i \in 1 .. Len(sent)
      BY <1>3, <2>0, <2>2 DEF BeforeEmpty
    <3>2. BeforeEmpty(i, k)'
      BY <1>2, <1>3, <1>6, <2>2, <3>1 DEF BeforeEmpty
    <3> QED
      BY <3>2 DEF Expects
  <2>3. CASE InBody(Len(received) + 1, i, k)
    <3>1. Len(received) + 1 \in 1 .. Len(sent)
      BY <1>3, <2>0, <2>3 DEF InBody
    <3>2. InBody(Len(received) + 1, i, k)'
      BY <1>2, <1>3, <1>6, <2>3, <3>1 DEF InBody
    <3> QED
      BY <3>2 DEF Expects
  <2> QED
    BY <1>8, <2>1, <2>2, <2>3 DEF Expects
<1>9. ASSUME WholeFrames PROVE WholeFrames'
  <2> DEFINE S == Stream
  <2>1. PICK I \in [1 .. Len(S) + 1 -> Nat], K \in [1 .. Len(S) + 1 -> Nat] :
          /\ Labelled(sent, S, I, K)
          /\ Expects(I[1], K[1])
          /\ open => I[Len(S) + 1] = id /\ K[Len(S) + 1] = 1
    BY <1>9 DEF WholeFrames
  <2>2. S \in Seq(Tokens) /\ Len(S) \in Nat
    BY StreamType
  <2>3. Expects(I[1], K[1])'
    <3>1. I[1] \in Nat /\ K[1] \in Nat
      BY <2>1, <2>2
    <3> QED
      BY <1>8, <2>1, <3>1
  <2>4. CASE ~open
    <3>1. S = wire /\ Stream' = wire
      BY <1>2, <2>4 DEF Stream
    <3>2. Labelled(sent', Stream', I, K)
      BY <1>2, <1>3, <2>1, <2>2, <3>1, LabelsStay
    <3> QED
      BY <1>2, <2>1, <2>3, <2>4, <3>1, <3>2 DEF WholeFrames
  <2>5. CASE open
    <3>1. S = wire \o out
      <4>1. Rest(wpc, pending) = <<>>
        BY <1>1, NoRest
      <4>2. out \o <<>> = out
        BY <1>3
      <4> QED
        BY <2>5, <4>1, <4>2 DEF Stream
    <3>2. Stream' = S \o f
      <4>1. Stream' = wire \o (out \o f)
        BY <1>2, <1>5, <2>5 DEF Stream
      <4> HIDE DEF f, S
      <4>2. (wire \o out) \o f = wire \o (out \o f)
        BY <1>3, <1>4, JoinThree
      <4> QED
        BY <3>1, <4>1, <4>2
    <3>3. I[Len(S) + 1] = Len(sent) + 1 /\ K[Len(S) + 1] = 1
      BY <2>1, <2>5
    <3>4. PICK J, L : J = LongerI(I, S, f, id) /\ L = LongerK(K, S, f)
      OBVIOUS
    <3>5. /\ Labelled(Append(sent, m), S \o f, J, L)
          /\ J[1] = I[1] /\ L[1] = K[1]
          /\ J[Len(S \o f) + 1] = Len(sent) + 2 /\ L[Len(S \o f) + 1] = 1
      <4> HIDE DEF S
      <4> QED
        BY <1>3, <1>4, <2>1, <2>2, <3>3, <3>4, LabelsSend, SMTT(30)
    <3> HIDE DEF S, f
    <3>6. Labelled(sent', Stream', J, L)
      BY <1>2, <3>2, <3>5
    <3>7. J[Len(Stream') + 1] = Len(sent') + 1 /\ L[Len(Stream') + 1] = 1
      BY <1>3, <1>6, <3>2, <3>5
    <3>8. Expects(J[1], L[1])'
      BY <2>3, <3>5
    <3>9. J \in [1 .. Len(Stream') + 1 -> Nat] /\ L \in [1 .. Len(Stream') + 1 -> Nat]
      BY <3>6 DEF Labelled
    <3> QED
      BY <3>6, <3>7, <3>8, <3>9 DEF WholeFrames
  <2> QED
    BY <2>4, <2>5
<1> QED
  BY <1>1, <1>2, <1>5, <1>7, <1>9 DEF Orderly

LEMMA FramingInit == Init => FramingInv
<1> SUFFICES ASSUME Init PROVE Orderly
  BY DEF FramingInv
<1>1. Stream = <<>>
  <2>1. Rest(wpc, pending) = <<>>
    BY NoRest DEF Init
  <2>2. <<>> \o (<<>> \o <<>>) = <<>>
    OBVIOUS
  <2> QED
    BY <2>1, <2>2 DEF Stream, Init
<1>2. PICK I : I = [n \in 1 .. 1 |-> 1]
  OBVIOUS
<1>3. /\ I \in [1 .. Len(Stream) + 1 -> Nat]
      /\ Len(Stream) = 0 /\ I[1] = 1
      /\ 1 .. Len(Stream) = {}
  BY <1>1, <1>2
<1>4. Labelled(sent, Stream, I, I)
  BY <1>3 DEF Labelled
<1>5. Len(received) = 0 /\ Len(sent) = 0
  BY DEF Init
<1>6. Expects(I[1], I[1])
  BY <1>3, <1>5 DEF Expects, BeforeLength, Init
<1>7. WholeFrames
  BY <1>3, <1>4, <1>5, <1>6 DEF WholeFrames
<1> QED
  BY <1>5, <1>7 DEF Orderly, OneWrites, InOrder, Init

LEMMA FramingNext ==
  ASSUME TypeOK, FramingInv, [Next]_vars
  PROVE  FramingInv'
<1>1. ASSUME NEW w \in Writers, Send(w)
      PROVE  FramingInv'
  BY <1>1, BeginStep, ResumeStep, FlushStep DEF Send
<1>2. CASE Drain
  BY <1>2, DrainStep
<1>3. CASE Disconnect
  BY <1>3, DisconnectStep
<1>4. CASE Receive
  BY <1>4, ReceiveStep
<1>5. CASE UNCHANGED vars
  <2> SUFFICES ASSUME ~torn' PROVE Orderly'
    BY DEF FramingInv
  <2>1. Orderly /\ UNCHANGED vars
    BY <1>5 DEF vars, FramingInv
  <2>2. Stream' = Stream
    BY <2>1 DEF Stream, vars
  <2>3. WholeFrames => WholeFrames'
    BY <2>1, <2>2, Moved DEF vars
  <2> QED
    BY <2>1, <2>3 DEF Orderly, OneWrites, InOrder, vars
<1> QED
  BY <1>1, <1>2, <1>3, <1>4, <1>5 DEF Next

LEMMA FramingInvariant == Spec => [](TypeOK /\ FramingInv)
<1>1. Init => TypeOK /\ FramingInv
  BY InitType, FramingInit
<1>2. TypeOK /\ FramingInv /\ [Next]_vars => TypeOK' /\ FramingInv'
  BY NextType, FramingNext
<1> QED
  BY <1>1, <1>2, PTL DEF Spec

\* The receiver gives up a connection only when it has ended or two messages were
\* written into each other: until then what arrives is a row of whole frames, for
\* a buffer of any capacity and any number of coroutines that send.
THEOREM FailureExplained == Spec => []FailsWithReason
<1>1. FramingInv => FailsWithReason
  BY DEF FramingInv, Orderly, FailsWithReason
<1> QED
  BY <1>1, FramingInvariant, PTL

-----------------------------------------------------------------------------
(***************************************************************************)
(* The connection implements the abstract channel.                         *)
(***************************************************************************)
LEMMA ChannelInit == Init => Promise!Init
<1> SUFFICES ASSUME Init PROVE Promise!Init
  OBVIOUS
<1>1. Len(sent) - Len(received) = 0 /\ 1 .. 0 = {}
  BY DEF Init
<1>2. Transit = <<>>
  BY <1>1 DEF Transit
<1> QED
  BY <1>2 DEF Init, Promise!Init

LEMMA ChannelStep ==
  ASSUME TypeOK, FramingInv, [Next]_vars
  PROVE  [Promise!Next]_(Promise!vars)
<1>1. CASE torn'
  <2>1. torn' = TRUE
    BY <1>1, NextType DEF TypeOK
  <2> QED
    BY <2>1 DEF Promise!Next, Promise!Break
<1>2. CASE ~torn'
  <2>1. /\ Orderly
        /\ torn' = torn
    <3>1. ~torn
      BY <1>2 DEF Next, Send, BeginSend, ResumeWrite, EndFlush, SendError, Drain,
                  Disconnect, Receive, RecvOther, RecvLength, RecvEmpty, RecvBody,
                  ParseMsg, BadJson, RecvError, vars
    <3> QED
      BY <1>2, <3>1, NextType DEF FramingInv, TypeOK
  <2>2. /\ sent \in Seq(Messages) /\ Len(sent) \in Nat
        /\ received \in Seq(1 .. MaxSent) /\ Len(received) \in Nat
        /\ Len(received) <= Len(sent)
    BY <2>1 DEF TypeOK, Orderly, InOrder
  <2> DEFINE n == Len(sent) - Len(received)
  <2>3. n \in Nat /\ Transit \in Seq(Nat) /\ Len(Transit) = n
        /\ \A k \in 1 .. n : Transit[k] = Len(received) + k
    BY <2>2 DEF Transit
  <2>4. CASE \E w \in Writers, m \in Messages : BeginSend(w, m)
    <3> PICK w \in Writers, m \in Messages : BeginSend(w, m)
      BY <2>4
    <3> DEFINE id == Len(sent) + 1
    <3>1. /\ sent' = Append(sent, m) /\ received' = received
          /\ Len(sent) < MaxSent
      BY DEF BeginSend
    <3>2. id \in 1 .. MaxSent /\ Len(sent') = id
      BY <2>2, <3>1, FramingAssumption
    <3>3. Transit' = [k \in 1 .. n + 1 |-> Len(received) + k]
      <4>1. Len(sent') - Len(received') = n + 1
        BY <2>2, <3>1, <3>2
      <4> QED
        BY <3>1, <4>1 DEF Transit
    <3>4. Transit' = Append(Transit, id)
      <4>1. Append(Transit, id) \in Seq(Nat) /\ Len(Append(Transit, id)) = n + 1
        BY <2>2, <2>3
      <4>2. Transit' \in Seq(Nat) /\ Len(Transit') = n + 1
        BY <2>2, <2>3, <3>3
      <4>3. \A k \in 1 .. n + 1 : Transit'[k] = Append(Transit, id)[k]
        <5>1. /\ \A k \in 1 .. n : Append(Transit, id)[k] = Transit[k]
              /\ Append(Transit, id)[n + 1] = id
          <6>1. Transit \in Seq(Nat) /\ Len(Transit) = n /\ id \in Nat
            BY <2>2, <2>3
          <6> HIDE DEF n, id
          <6> QED
            BY <6>1
        <5>2. \A k \in 1 .. n + 1 : Transit'[k] = Len(received) + k
          BY <3>3
        <5>3. id = Len(received) + (n + 1)
          BY <2>2
        <5> HIDE DEF n, id
        <5>4. \A k \in 1 .. n + 1 : k \in 1 .. n \/ k = n + 1
          BY <2>3
        <5> QED
          BY <2>3, <5>1, <5>2, <5>3, <5>4
      <4> HIDE DEF n, id
      <4> QED
        BY <4>1, <4>2, <4>3
    <3>5. Promise!Send(id)
      BY <2>1, <3>1, <3>4 DEF Promise!Send
    <3> QED
      BY <3>2, <3>5 DEF Promise!Next
  <2>5. CASE ParseMsg
    <3> DEFINE r == Len(received) + 1
    <3>1. received' = Append(received, r) /\ r <= Len(sent) /\ sent' = sent
      BY <2>1, <2>5, BodyComplete DEF ParseMsg
    <3>2. Transit # <<>> /\ Head(Transit) = r /\ n >= 1
      BY <2>2, <2>3, <3>1
    <3>3. Transit' = [k \in 1 .. n - 1 |-> r + k]
      <4>1. Len(received') = r
        BY <2>2, <3>1
      <4>2. Len(sent') - Len(received') = n - 1
        BY <2>2, <3>1, <4>1
      <4> QED
        BY <4>1, <4>2 DEF Transit
    <3>4. Transit' = Tail(Transit)
      <4>1. Tail(Transit) \in Seq(Nat) /\ Len(Tail(Transit)) = n - 1
        BY <2>3, <3>2
      <4>2. Transit' \in Seq(Nat) /\ Len(Transit') = n - 1
        BY <2>2, <2>3, <3>2, <3>3
      <4>3. \A k \in 1 .. n - 1 : Transit'[k] = Tail(Transit)[k]
        <5> TAKE k \in 1 .. n - 1
        <5>1. Transit'[k] = r + k
          BY <3>3
        <5>2. Tail(Transit)[k] = Transit[k + 1] /\ k + 1 \in 1 .. n
          BY <2>3, <3>2
        <5> QED
          BY <2>2, <2>3, <5>1, <5>2
      <4> HIDE DEF n, r
      <4> QED
        BY <4>1, <4>2, <4>3
    <3>5. Promise!Receive
      BY <2>1, <3>1, <3>2, <3>4 DEF Promise!Receive
    <3> QED
      BY <3>5 DEF Promise!Next
  <2>6. CASE UNCHANGED <<sent, received>>
    BY <2>1, <2>6 DEF Transit, Promise!vars
  <2>7. \/ \E w \in Writers, m \in Messages : BeginSend(w, m)
        \/ ParseMsg
        \/ UNCHANGED <<sent, received>>
    <3>1. CASE \E w \in Writers : Send(w)
      BY <3>1 DEF Send, ResumeWrite, EndFlush, SendError
    <3>2. CASE Receive
      <4>1. CASE BadJson
        BY <2>1, <4>1, BodyComplete DEF BadJson
      <4> QED
        BY <3>2, <4>1 DEF Receive, RecvOther, RecvLength, RecvEmpty, RecvBody, RecvError
    <3> QED
      BY <3>1, <3>2 DEF Next, Drain, Disconnect, vars
  <2> QED
    BY <2>4, <2>5, <2>6, <2>7
<1> QED
  BY <1>1, <1>2

\* The receiver gets the messages that were sent, whole, in order and each once, as
\* far as the connection lasts and until two are written into each other: however
\* the buffer splits them, wherever the writers wait, and for headers with other
\* lines than the length.
THEOREM ChannelKept == Spec => Implements
<1>1. Init => Promise!Init
  BY ChannelInit
<1>2. TypeOK /\ FramingInv /\ [Next]_vars => [Promise!Next]_(Promise!vars)
  BY ChannelStep
<1> QED
  BY <1>1, <1>2, FramingInvariant, PTL DEF Spec, Implements, Promise!Spec
-----------------------------------------------------------------------------
(***************************************************************************)
(* Messages written into each other.  Of each frame the receiver has taken *)
(* the first C[i] tokens and the first P[i] are in the stream or taken;    *)
(* those between are in the stream, in their order, and the rest is with   *)
(* the writer O says.  Token n of the stream is the K[n]-th of frame I[n]. *)
(***************************************************************************)
Ids == 1 .. MaxSent

Counts(st, C, P) ==
    \A i \in 1 .. Len(st) : C[i] <= P[i] /\ P[i] <= FrameLen(st[i])

Placed(st, s, C, P, I, K) ==
    \A n \in 1 .. Len(s) :
      /\ I[n] \in 1 .. Len(st)
      /\ K[n] \in Nat
      /\ C[I[n]] < K[n] /\ K[n] <= P[I[n]]
      /\ s[n] = Frame(st[I[n]], I[n])[K[n]]

Rising(s, I, K) ==
    \A m, n \in 1 .. Len(s) : m < n /\ I[m] = I[n] => K[m] < K[n]

Present(st, s, C, P, I, K) ==
    \A i \in 1 .. Len(st) : \A k \in Nat :
      C[i] < k /\ k <= P[i] => \E n \in 1 .. Len(s) : I[n] = i /\ K[n] = k

Kept(st, pn, P, O, w) ==
    pn[w] # <<>> =>
      /\ O[w] \in 1 .. Len(st)
      /\ P[O[w]] + Len(pn[w]) = FrameLen(st[O[w]])
      /\ \A k \in 1 .. Len(pn[w]) : pn[w][k] = Frame(st[O[w]], O[w])[P[O[w]] + k]

Owned(pn, O) ==
    \A v, w \in Writers : v # w /\ pn[v] # <<>> /\ pn[w] # <<>> => O[v] # O[w]

InOwnOrder(st, s, pn, C, P, O, I, K) ==
    /\ C \in [Ids -> Nat] /\ P \in [Ids -> Nat]
    /\ Counts(st, C, P)
    /\ Placed(st, s, C, P, I, K)
    /\ Rising(s, I, K)
    /\ Present(st, s, C, P, I, K)
    /\ \A w \in Writers : Kept(st, pn, P, O, w)
    /\ Owned(pn, O)

LEMMA FrameTokens ==
  ASSUME NEW st \in Seq(Messages), Len(st) <= MaxSent, NEW i \in 1 .. Len(st)
  PROVE  /\ i \in Ids /\ i \in Nat
         /\ st[i] \in Messages
         /\ HeaderLen(st[i]) \in {2, 3} /\ Size[st[i]] \in Nat \ {0}
         /\ FrameLen(st[i]) = HeaderLen(st[i]) + Size[st[i]]
         /\ FrameLen(st[i]) \in Nat
<1>1. i \in Nat /\ i <= Len(st) /\ Len(st) \in Nat /\ MaxSent \in Nat
  BY FramingAssumption
<1>2. i \in Ids /\ st[i] \in Messages
  BY <1>1 DEF Ids
<1>3. HeaderLen(st[i]) \in {2, 3} /\ Size[st[i]] \in Nat \ {0}
  BY <1>2, FramingAssumption DEF HeaderLen
<1> QED
  BY <1>1, <1>2, <1>3 DEF FrameLen

\* The first token of the stream is the next one of its frame.
LEMMA NextOfFrame ==
  ASSUME NEW st \in Seq(Messages), Len(st) <= MaxSent,
         NEW s \in Seq(Tokens), s # <<>>, NEW pn, NEW C, NEW P, NEW O, NEW I, NEW K,
         InOwnOrder(st, s, pn, C, P, O, I, K)
  PROVE  /\ I[1] \in 1 .. Len(st) /\ I[1] \in Ids /\ C[I[1]] \in Nat
         /\ K[1] = C[I[1]] + 1
         /\ K[1] \in 1 .. FrameLen(st[I[1]])
         /\ s[1] = Frame(st[I[1]], I[1])[K[1]]
<1> DEFINE i == I[1]
           k == K[1]
<1>1. Len(s) \in Nat /\ 1 \in 1 .. Len(s)
  OBVIOUS
<1>2. /\ i \in 1 .. Len(st) /\ k \in Nat /\ C[i] < k /\ k <= P[i]
      /\ s[1] = Frame(st[i], i)[k]
  BY <1>1 DEF InOwnOrder, Placed
<1>3. i \in Ids /\ FrameLen(st[i]) \in Nat
  BY <1>2, FrameTokens
<1>4. C[i] \in Nat /\ P[i] \in Nat /\ P[i] <= FrameLen(st[i])
  BY <1>2, <1>3 DEF InOwnOrder, Counts
<1>5. PICK n \in 1 .. Len(s) : I[n] = i /\ K[n] = C[i] + 1
  <2>1. PICK c \in Nat : c = C[i] + 1
    BY <1>4
  <2>2. C[i] < c /\ c <= P[i]
    BY <1>2, <1>4, <2>1
  <2>3. \E n \in 1 .. Len(s) : I[n] = i /\ K[n] = c
    BY <1>2, <2>2 DEF InOwnOrder, Present
  <2> QED
    BY <2>1, <2>3
<1>6. n = 1
  <2>1. ASSUME n # 1 PROVE FALSE
    <3>1. 1 < n
      BY <2>1
    <3>2. k < C[i] + 1
      BY <1>1, <1>5, <3>1 DEF InOwnOrder, Rising
    <3> QED
      BY <1>2, <1>4, <3>2
  <2> QED
    BY <2>1
<1> QED
  BY <1>2, <1>3, <1>4, <1>5, <1>6

Later(L, s) == [n \in 1 .. Len(s) - 1 |-> L[n + 1]]

LEMMA TakenInOrder ==
  ASSUME NEW st \in Seq(Messages), Len(st) <= MaxSent,
         NEW s \in Seq(Tokens), s # <<>>, NEW pn, NEW C, NEW P, NEW O, NEW I, NEW K,
         InOwnOrder(st, s, pn, C, P, O, I, K)
  PROVE  InOwnOrder(st, Tail(s), pn, [C EXCEPT ![I[1]] = @ + 1], P, O,
                    Later(I, s), Later(K, s))
<1> DEFINE T == Tail(s)
           J == Later(I, s)
           L == Later(K, s)
           D == [C EXCEPT ![I[1]] = @ + 1]
<1>1. /\ I[1] \in 1 .. Len(st) /\ I[1] \in Ids /\ C[I[1]] \in Nat
      /\ K[1] = C[I[1]] + 1
  BY NextOfFrame
<1>2. /\ Len(s) \in Nat /\ Len(s) >= 1 /\ Len(T) = Len(s) - 1 /\ Len(T) \in Nat
      /\ \A n \in 1 .. Len(T) : T[n] = s[n + 1] /\ n + 1 \in 1 .. Len(s)
  OBVIOUS
<1>3. \A n \in 1 .. Len(T) : J[n] = I[n + 1] /\ L[n] = K[n + 1]
  BY <1>2 DEF Later
<1>4. /\ D \in [Ids -> Nat]
      /\ D[I[1]] = C[I[1]] + 1
      /\ \A i \in Ids : i # I[1] => D[i] = C[i]
  BY <1>1 DEF InOwnOrder
<1>5. /\ 1 \in 1 .. Len(s)
      /\ \A i \in 1 .. Len(st) : C[i] \in Nat /\ P[i] \in Nat /\ i \in Ids
  BY <1>2, FrameTokens DEF InOwnOrder
<1> HIDE DEF T, J, L, D
<1>6. Counts(st, D, P)
  <2>1. C[I[1]] < K[1] /\ K[1] <= P[I[1]]
    BY <1>5 DEF InOwnOrder, Placed
  <2> QED
    BY <1>1, <1>4, <1>5, <2>1 DEF InOwnOrder, Counts
<1>7. Placed(st, T, D, P, J, L)
  <2> SUFFICES ASSUME NEW n \in 1 .. Len(T)
               PROVE  /\ J[n] \in 1 .. Len(st)
                      /\ L[n] \in Nat
                      /\ D[J[n]] < L[n] /\ L[n] <= P[J[n]]
                      /\ T[n] = Frame(st[J[n]], J[n])[L[n]]
    BY DEF Placed
  <2>1. /\ J[n] \in 1 .. Len(st) /\ L[n] \in Nat
        /\ C[J[n]] < L[n] /\ L[n] <= P[J[n]]
        /\ T[n] = Frame(st[J[n]], J[n])[L[n]]
    BY <1>2, <1>3 DEF InOwnOrder, Placed
  <2>2. D[J[n]] < L[n]
    <3>1. CASE J[n] = I[1]
      <4>1. K[1] < L[n]
        <5>1. n + 1 \in 1 .. Len(s) /\ 1 < n + 1 /\ I[1] = I[n + 1] /\ L[n] = K[n + 1]
          BY <1>2, <1>3, <3>1
        <5> QED
          BY <1>5, <5>1 DEF InOwnOrder, Rising
      <4> QED
        BY <1>1, <1>4, <3>1, <4>1
    <3>2. CASE J[n] # I[1]
      BY <1>4, <1>5, <2>1, <3>2
    <3> QED
      BY <3>1, <3>2
  <2> QED
    BY <2>1, <2>2
<1>8. Rising(T, J, L)
  <2> SUFFICES ASSUME NEW m \in 1 .. Len(T), NEW n \in 1 .. Len(T), m < n, J[m] = J[n]
               PROVE  L[m] < L[n]
    BY DEF Rising
  <2>1. m + 1 \in 1 .. Len(s) /\ n + 1 \in 1 .. Len(s) /\ m + 1 < n + 1
    BY <1>2
  <2> QED
    BY <1>3, <2>1 DEF InOwnOrder, Rising
<1>9. Present(st, T, D, P, J, L)
  <2> SUFFICES ASSUME NEW i \in 1 .. Len(st), NEW k \in Nat, D[i] < k, k <= P[i]
               PROVE  \E n \in 1 .. Len(T) : J[n] = i /\ L[n] = k
    BY DEF Present
  <2>1. C[i] < k /\ (i = I[1] => k # K[1])
    BY <1>1, <1>4, <1>5
  <2>2. PICK n \in 1 .. Len(s) : I[n] = i /\ K[n] = k
    BY <2>1 DEF InOwnOrder, Present
  <2>3. n # 1
    BY <2>1, <2>2
  <2>4. n - 1 \in 1 .. Len(T) /\ (n - 1) + 1 = n
    BY <1>2, <2>3
  <2>5. J[n - 1] = I[(n - 1) + 1] /\ L[n - 1] = K[(n - 1) + 1]
    BY <1>3, <2>4
  <2> QED
    BY <2>2, <2>4, <2>5
<1>10. InOwnOrder(st, T, pn, D, P, O, J, L)
  BY <1>4, <1>6, <1>7, <1>8, <1>9 DEF InOwnOrder
<1> QED
  BY <1>10 DEF T, J, L, D

\* a goes on after c with a part of e, and b is the rest.
Continues(a, b, c, e) ==
    /\ Len(b) + Len(a) = Len(c) + Len(e)
    /\ \A n \in 1 .. Len(c) : a[n] = c[n]
    /\ \A k \in 1 .. Len(a) - Len(c) : a[Len(c) + k] = e[k]
    /\ \A k \in 1 .. Len(b) : b[k] = e[(Len(a) - Len(c)) + k]

LEMMA SameJoin ==
  ASSUME NEW a \in Seq(Tokens), NEW b \in Seq(Tokens), NEW c \in Seq(Tokens),
         NEW e \in Seq(Tokens), a \o b = c \o e, Len(c) <= Len(a)
  PROVE  Continues(a, b, c, e)
<1>1. /\ Len(a \o b) = Len(a) + Len(b)
      /\ \A k \in 1 .. Len(a) : (a \o b)[k] = a[k]
      /\ \A k \in 1 .. Len(b) : (a \o b)[Len(a) + k] = b[k]
  BY Joined
<1>2. /\ Len(c \o e) = Len(c) + Len(e)
      /\ \A k \in 1 .. Len(c) : (c \o e)[k] = c[k]
      /\ \A k \in 1 .. Len(e) : (c \o e)[Len(c) + k] = e[k]
  BY Joined
<1> DEFINE s == a \o b
<1>3. /\ \A k \in 1 .. Len(a) : s[k] = a[k]
      /\ \A k \in 1 .. Len(b) : s[Len(a) + k] = b[k]
      /\ \A k \in 1 .. Len(c) : s[k] = c[k]
      /\ \A k \in 1 .. Len(e) : s[Len(c) + k] = e[k]
      /\ Len(a) + Len(b) = Len(c) + Len(e)
      /\ Len(a) \in Nat /\ Len(b) \in Nat /\ Len(c) \in Nat /\ Len(e) \in Nat
  BY <1>1, <1>2
<1> HIDE DEF s
<1>4. ASSUME NEW k \in 1 .. Len(a) - Len(c) PROVE a[Len(c) + k] = e[k]
  <2>1. k \in 1 .. Len(e) /\ Len(c) + k \in 1 .. Len(a)
    BY <1>3
  <2> QED
    BY <1>3, <2>1
<1>5. ASSUME NEW k \in 1 .. Len(b) PROVE b[k] = e[(Len(a) - Len(c)) + k]
  <2> DEFINE j == (Len(a) - Len(c)) + k
  <2>1. j \in 1 .. Len(e) /\ Len(c) + j = Len(a) + k
    BY <1>3
  <2> HIDE DEF j
  <2>2. s[Len(c) + j] = e[j] /\ s[Len(a) + k] = b[k]
    BY <1>3, <2>1
  <2>3. b[k] = e[j]
    BY <2>1, <2>2
  <2> QED
    BY <2>3 DEF j
<1>6. \A n \in 1 .. Len(c) : a[n] = c[n]
  BY <1>3
<1> QED
  BY <1>3, <1>4, <1>5, <1>6 DEF Continues

\* A writer puts some of what it has left behind the stream.
LEMMA PutInOrder ==
  ASSUME NEW st \in Seq(Messages), Len(st) <= MaxSent,
         NEW s \in Seq(Tokens), NEW t \in Seq(Tokens), NEW w \in Writers,
         NEW pn \in [Writers -> Seq(Tokens)], NEW qn \in [Writers -> Seq(Tokens)],
         NEW C, NEW P, NEW O, NEW I, NEW K, InOwnOrder(st, s, pn, C, P, O, I, K),
         t \o qn[w] = s \o pn[w], Len(s) <= Len(t),
         \A v \in Writers : v # w => qn[v] = pn[v]
  PROVE  \E Q, J, L : InOwnOrder(st, t, qn, C, Q, O, J, L)
<1>0. /\ pn[w] \in Seq(Tokens) /\ qn[w] \in Seq(Tokens)
      /\ Len(s) \in Nat /\ Len(t) \in Nat /\ Len(pn[w]) \in Nat /\ Len(qn[w]) \in Nat
  OBVIOUS
<1>1. /\ Len(qn[w]) + Len(t) = Len(s) + Len(pn[w])
      /\ \A n \in 1 .. Len(s) : t[n] = s[n]
      /\ \A k \in 1 .. Len(t) - Len(s) : t[Len(s) + k] = pn[w][k]
      /\ \A k \in 1 .. Len(qn[w]) : qn[w][k] = pn[w][(Len(t) - Len(s)) + k]
  <2>1. Continues(t, qn[w], s, pn[w])
    BY <1>0, SameJoin
  <2> QED
    BY <2>1 DEF Continues
<1>2. CASE pn[w] = <<>>
  <2>1. Len(pn[w]) = 0
    BY <1>2
  <2>2. Len(qn[w]) = 0 /\ Len(t) = Len(s)
    BY <1>0, <1>1, <2>1
  <2>3. t = s
    BY <1>1, <2>2, Equal
  <2>4. qn[w] = <<>>
    BY <1>0, <2>2
  <2>5. \A v \in Writers : qn[v] = pn[v]
    BY <1>2, <2>4
  <2>6. qn = pn
    BY <2>5
  <2> QED
    BY <2>3, <2>6
<1>3. CASE pn[w] # <<>>
  <2> DEFINE i == O[w]
             d == Len(t) - Len(s)
             Q == [P EXCEPT ![i] = @ + d]
             J == [n \in 1 .. Len(t) |-> IF n <= Len(s) THEN I[n] ELSE i]
             L == [n \in 1 .. Len(t) |-> IF n <= Len(s) THEN K[n] ELSE P[i] + (n - Len(s))]
  <2>1. /\ i \in 1 .. Len(st) /\ i \in Ids
        /\ FrameLen(st[i]) \in Nat
        /\ P[i] + Len(pn[w]) = FrameLen(st[i])
        /\ \A k \in 1 .. Len(pn[w]) : pn[w][k] = Frame(st[i], i)[P[i] + k]
    <3>1. Kept(st, pn, P, O, w)
      BY DEF InOwnOrder
    <3>2. i \in 1 .. Len(st)
      BY <1>3, <3>1 DEF Kept
    <3> QED
      BY <1>3, <3>1, <3>2, FrameTokens DEF Kept
  <2>2. d \in Nat /\ Len(t) = Len(s) + d /\ Len(qn[w]) + d = Len(pn[w])
    BY <1>0, <1>1
  <2>3. \A j \in 1 .. Len(st) : C[j] \in Nat /\ P[j] \in Nat /\ j \in Ids
    BY FrameTokens DEF InOwnOrder
  <2>4. /\ Q \in [Ids -> Nat]
        /\ Q[i] = P[i] + d
        /\ \A j \in Ids : j # i => Q[j] = P[j]
    <3>1. P \in [Ids -> Nat] /\ i \in Ids
      BY <2>1 DEF InOwnOrder
    <3>2. PICK p \in Nat : p = P[i] + d
      BY <2>2, <3>1
    <3>3. Q = [P EXCEPT ![i] = p]
      BY <3>2
    <3> HIDE DEF Q, i, d
    <3> QED
      BY <3>1, <3>2, <3>3
  <2>5. /\ \A n \in 1 .. Len(s) : n \in 1 .. Len(t) /\ J[n] = I[n] /\ L[n] = K[n]
        /\ \A n \in 1 .. Len(t) : n > Len(s) => J[n] = i /\ L[n] = P[i] + (n - Len(s))
        /\ \A n \in 1 .. Len(t) : n > Len(s) \/ n \in 1 .. Len(s)
    BY <1>0, <2>2
  <2> HIDE DEF i, d, Q, J, L
  <2>a. /\ P[i] \in Nat /\ Q[i] \in Nat /\ P[i] <= Q[i]
        /\ Q[i] + Len(qn[w]) = FrameLen(st[i]) /\ Q[i] <= FrameLen(st[i])
    <3>1. PICK p \in Nat : p = P[i]
      BY <2>1, <2>3
    <3>2. PICK f \in Nat : f = FrameLen(st[i])
      BY <2>1
    <3>3. p + Len(pn[w]) = f /\ Q[i] = p + d
      BY <2>1, <2>4, <3>1, <3>2
    <3>4. p + d \in Nat /\ p <= p + d /\ (p + d) + Len(qn[w]) = f /\ p + d <= f
      <4>1. PICK a \in Nat : a = Len(pn[w])
        BY <1>0
      <4>2. PICK b \in Nat : b = Len(qn[w])
        BY <1>0
      <4>3. PICK e \in Nat : e = d
        BY <2>2
      <4>4. p + a = f /\ b + e = a
        BY <2>2, <3>3, <4>1, <4>2, <4>3
      <4>5. p + e \in Nat /\ p <= p + e /\ (p + e) + b = f /\ p + e <= f
        BY <4>4
      <4> QED
        BY <4>2, <4>3, <4>5
    <3>5. PICK q \in Nat : q = p + d
      BY <3>4
    <3>6. p <= q /\ q + Len(qn[w]) = f /\ q <= f /\ Q[i] = q
      BY <3>3, <3>4, <3>5
    <3> QED
      BY <3>1, <3>2, <3>6, Zenon
  <2>b. \A j \in 1 .. Len(st) : P[j] <= Q[j] /\ P[j] \in Nat /\ Q[j] \in Nat
    <3>1. \A j \in 1 .. Len(st) : j = i \/ (P[j] = Q[j] /\ P[j] \in Nat)
      BY <2>3, <2>4
    <3>2. \A n \in Nat : n <= n
      OBVIOUS
    <3> QED
      BY <2>a, <3>1, <3>2
  <2>6. Counts(st, C, Q)
    <3> SUFFICES ASSUME NEW j \in 1 .. Len(st)
                 PROVE  C[j] <= Q[j] /\ Q[j] <= FrameLen(st[j])
      BY DEF Counts
    <3>1. C[j] <= P[j] /\ P[j] <= FrameLen(st[j])
      BY DEF InOwnOrder, Counts
    <3>2. CASE j = i
      <4>1. C[i] \in Nat /\ C[i] <= P[i] /\ P[i] \in Nat
        BY <2>1, <2>3, <3>1, <3>2
      <4>2. C[i] <= Q[i] /\ Q[i] <= FrameLen(st[i])
        <5>1. P[i] <= Q[i] /\ Q[i] \in Nat /\ Q[i] <= FrameLen(st[i])
          BY <2>a
        <5> QED
          BY <4>1, <5>1
      <4> QED
        BY <3>2, <4>2
    <3>3. CASE j # i
      BY <2>3, <2>4, <3>1, <3>3
    <3> QED
      BY <3>2, <3>3
  <2>7. Placed(st, t, C, Q, J, L)
    <3> SUFFICES ASSUME NEW n \in 1 .. Len(t)
                 PROVE  /\ J[n] \in 1 .. Len(st)
                        /\ L[n] \in Nat
                        /\ C[J[n]] < L[n] /\ L[n] <= Q[J[n]]
                        /\ t[n] = Frame(st[J[n]], J[n])[L[n]]
      BY DEF Placed
    <3>1. CASE n \in 1 .. Len(s)
      <4>1. /\ J[n] \in 1 .. Len(st) /\ L[n] \in Nat
            /\ C[J[n]] < L[n] /\ L[n] <= P[J[n]]
            /\ t[n] = Frame(st[J[n]], J[n])[L[n]]
        BY <1>1, <2>5, <3>1 DEF InOwnOrder, Placed
      <4>2. P[J[n]] <= Q[J[n]]
        BY <2>b, <4>1
      <4>3. P[J[n]] \in Nat /\ Q[J[n]] \in Nat
        BY <2>3, <2>4, <4>1
      <4>4. L[n] <= Q[J[n]]
        <5>1. PICK a, b, c : a = L[n] /\ b = P[J[n]] /\ c = Q[J[n]]
          OBVIOUS
        <5>2. a \in Nat /\ b \in Nat /\ c \in Nat /\ a <= b /\ b <= c
          BY <4>1, <4>2, <4>3, <5>1
        <5> QED
          BY <5>1, <5>2
      <4> QED
        BY <4>1, <4>4
    <3>2. CASE n > Len(s)
      <4> DEFINE k == n - Len(s)
      <4>1. /\ k \in 1 .. d /\ k \in 1 .. Len(pn[w]) /\ k \in 1 .. Len(t) - Len(s)
            /\ Len(s) + k = n
        BY <1>0, <2>2, <3>2
      <4>2. J[n] = i /\ L[n] = P[i] + k
        BY <2>5, <3>2
      <4>3. t[Len(s) + k] = pn[w][k]
        BY <1>1, <4>1
      <4>4. pn[w][k] = Frame(st[i], i)[P[i] + k]
        BY <2>1, <4>1
      <4>5. C[i] <= P[i]
        BY <2>1 DEF InOwnOrder, Counts
      <4> HIDE DEF k
      <4>6. C[i] < P[i] + k /\ P[i] + k <= Q[i] /\ P[i] + k \in Nat
        <5>1. C[i] \in Nat /\ Q[i] = P[i] + d /\ k \in 1 .. d
          BY <2>1, <2>3, <2>4, <4>1
        <5>2. \A a, b \in Nat : a <= b => a < b + k /\ b + k <= b + d /\ b + k \in Nat
          BY <2>2, <4>1
        <5> QED
          BY <2>a, <4>5, <5>1, <5>2
      <4> QED
        BY <2>1, <4>1, <4>2, <4>3, <4>4, <4>6
    <3> QED
      BY <2>5, <3>1, <3>2
  <2>8. Rising(t, J, L)
    <3> SUFFICES ASSUME NEW m \in 1 .. Len(t), NEW n \in 1 .. Len(t), m < n, J[m] = J[n]
                 PROVE  L[m] < L[n]
      BY DEF Rising
    <3>1. CASE n \in 1 .. Len(s)
      <4>1. m \in 1 .. Len(s)
        BY <1>0, <3>1
      <4> QED
        BY <2>5, <3>1, <4>1 DEF InOwnOrder, Rising
    <3>2. CASE n > Len(s) /\ m \in 1 .. Len(s)
      <4>1. J[n] = i /\ L[n] = P[i] + (n - Len(s)) /\ J[m] = I[m] /\ L[m] = K[m]
        BY <2>5, <3>2
      <4>2. K[m] \in Nat /\ K[m] <= P[i]
        BY <3>2, <4>1 DEF InOwnOrder, Placed
      <4>3. n - Len(s) > 0 /\ P[i] \in Nat /\ n - Len(s) \in Nat
        BY <1>0, <2>1, <2>3, <3>2
      <4> QED
        BY <4>1, <4>2, <4>3
    <3>3. CASE n > Len(s) /\ m > Len(s)
      <4>1. L[n] = P[i] + (n - Len(s)) /\ L[m] = P[i] + (m - Len(s)) /\ P[i] \in Nat
        BY <2>1, <2>3, <2>5, <3>3
      <4> QED
        BY <1>0, <4>1
    <3> QED
      BY <2>5, <3>1, <3>2, <3>3
  <2>9. Present(st, t, C, Q, J, L)
    <3> SUFFICES ASSUME NEW j \in 1 .. Len(st), NEW k \in Nat, C[j] < k, k <= Q[j]
                 PROVE  \E n \in 1 .. Len(t) : J[n] = j /\ L[n] = k
      BY DEF Present
    <3>1. CASE k <= P[j]
      <4>1. PICK n \in 1 .. Len(s) : I[n] = j /\ K[n] = k
        BY <3>1 DEF InOwnOrder, Present
      <4> QED
        BY <2>5, <4>1
    <3>2. CASE ~(k <= P[j])
      <4>1. j = i /\ P[i] < k /\ k <= P[i] + d /\ P[i] \in Nat
        BY <2>3, <2>4, <3>2
      <4> DEFINE n == Len(s) + (k - P[i])
      <4>2. /\ n \in 1 .. Len(t) /\ n > Len(s) /\ n - Len(s) = k - P[i]
            /\ P[i] + (k - P[i]) = k
        <5>1. \A p, a, b \in Nat : p < k /\ k <= p + d /\ b = a + d =>
                /\ a + (k - p) \in 1 .. b /\ a + (k - p) > a
                /\ (a + (k - p)) - a = k - p /\ p + (k - p) = k
          BY <2>2
        <5> QED
          BY <1>0, <2>2, <4>1, <5>1
      <4> HIDE DEF n
      <4>3. J[n] = i /\ L[n] = k
        BY <2>5, <4>2
      <4> QED
        BY <4>1, <4>2, <4>3
    <3> QED
      BY <3>1, <3>2
  <2>10. ASSUME NEW v \in Writers PROVE Kept(st, qn, Q, O, v)
    <3>1. CASE v # w
      <4> SUFFICES ASSUME qn[v] # <<>> PROVE Kept(st, qn, Q, O, v)
        BY DEF Kept
      <4>1. qn[v] = pn[v] /\ Kept(st, pn, P, O, v)
        BY <3>1 DEF InOwnOrder
      <4>2. O[v] # i /\ O[v] \in Ids
        <5>1. O[v] # i
          BY <1>3, <3>1, <4>1 DEF InOwnOrder, Owned, i
        <5> QED
          BY <2>3, <4>1, <5>1 DEF Kept
      <4>3. Q[O[v]] = P[O[v]]
        BY <2>4, <4>2
      <4> QED
        BY <4>1, <4>3 DEF Kept
    <3>2. CASE v = w
      <4>1. Q[i] + Len(qn[w]) = FrameLen(st[i])
        BY <2>a
      <4>2. ASSUME NEW k \in 1 .. Len(qn[w])
            PROVE  qn[w][k] = Frame(st[i], i)[Q[i] + k]
        <5>1. qn[w][k] = pn[w][d + k]
          BY <1>1 DEF d
        <5>2. d + k \in 1 .. Len(pn[w]) /\ Q[i] + k = P[i] + (d + k)
          <6>1. \A p, a, b \in Nat : b + d = a /\ k \in 1 .. b =>
                  d + k \in 1 .. a /\ (p + d) + k = p + (d + k)
            BY <2>2
          <6> QED
            BY <1>0, <2>1, <2>2, <2>4, <2>a, <6>1
        <5>3. pn[w][d + k] = Frame(st[i], i)[P[i] + (d + k)]
          BY <2>1, <5>2
        <5> QED
          BY <5>1, <5>2, <5>3
      <4>3. O[w] = i
        BY DEF i
      <4> QED
        BY <2>1, <3>2, <4>1, <4>2, <4>3 DEF Kept
    <3> QED
      BY <3>1, <3>2
  <2>11. Owned(qn, O)
    <3>1. \A v \in Writers : qn[v] # <<>> => pn[v] # <<>>
      BY <1>3
    <3> QED
      BY <3>1 DEF InOwnOrder, Owned
  <2>12. InOwnOrder(st, t, qn, C, Q, O, J, L)
    BY <2>4, <2>6, <2>7, <2>8, <2>9, <2>10, <2>11 DEF InOwnOrder
  <2> QED
    BY <2>12
<1> QED
  BY <1>2, <1>3

LEMMA ByteIsNoLine ==
  ASSUME NEW i, NEW j
  PROVE  ~IsLine([id |-> i, k |-> j])
BY DEF IsLine, Lines, OtherLine, EmptyLine

\* The kinds of a frame's tokens: the lines of its header, which end in the empty one,
\* then the bytes of its body
LEMMA KindsOfTokens ==
  ASSUME NEW m \in Messages, NEW id \in 1 .. MaxSent, NEW k \in 1 .. FrameLen(m)
  PROVE  /\ k <= HeaderLen(m) => IsLine(Frame(m, id)[k])
         /\ k < HeaderLen(m) => Frame(m, id)[k].line # "empty"
         /\ k = HeaderLen(m) => Frame(m, id)[k].line = "empty"
         /\ k > HeaderLen(m) => /\ Frame(m, id)[k] = [id |-> id, k |-> k - HeaderLen(m)]
                                /\ ~IsLine(Frame(m, id)[k])
<1> DEFINE f == Frame(m, id)
           h == HeaderLen(m)
<1>1. /\ m \in Extra => f[1] = OtherLine
      /\ f[h - 1] = LengthLine(Size[m])
      /\ f[h] = EmptyLine
      /\ \A j \in 1 .. Size[m] : f[h + j] = [id |-> id, k |-> j]
  BY FrameOf
<1>2. Size[m] \in Nat \ {0} /\ FrameLen(m) = h + Size[m] /\ k \in Nat /\ 1 <= k
  BY FramingAssumption DEF FrameLen, HeaderLen
<1>3. h = IF m \in Extra THEN 3 ELSE 2
  BY DEF HeaderLen
<1> HIDE DEF f, h
<1>4. CASE k > h
  <2>1. PICK j \in 1 .. Size[m] : j = k - h /\ k = h + j
    BY <1>2, <1>3, <1>4
  <2>2. f[k] = [id |-> id, k |-> j]
    BY <1>1, <2>1
  <2>3. ~IsLine(f[k])
    BY <2>2 DEF IsLine, Lines, OtherLine, EmptyLine
  <2> QED
    BY <1>2, <1>3, <1>4, <2>1, <2>2, <2>3 DEF f, h
<1>5. CASE k = h
  <2>1. IsLine(f[k]) /\ f[k].line = "empty"
    BY <1>1, <1>5 DEF IsLine, Lines, EmptyLine
  <2> QED
    BY <1>3, <1>5, <2>1 DEF f, h
<1>6. CASE k < h
  <2>1. k = h - 1 \/ (k = 1 /\ m \in Extra)
    BY <1>2, <1>3, <1>6
  <2>2. f[k] = LengthLine(Size[m]) \/ f[k] = OtherLine
    BY <1>1, <2>1
  <2>3. IsLine(f[k]) /\ f[k].line # "empty"
    BY <1>2, <2>2 DEF IsLine, Lines, LengthLine, OtherLine
  <2> QED
    BY <1>2, <1>3, <1>6, <2>3 DEF f, h
<1> QED
  BY <1>2, <1>3, <1>4, <1>5, <1>6

(***************************************************************************)
(* What the receiver makes of it: between messages it has taken of every   *)
(* frame a part of the header or all; in a body, it may have begun on that *)
(* of one frame and has no token of another.                               *)
(***************************************************************************)
Begun(st, C, i) == C[i] < HeaderLen(st[i]) \/ C[i] = FrameLen(st[i])

ReadingOf(st, C, b, x) ==
    /\ x \in 1 .. Len(st)
    /\ \A i \in 1 .. Len(st) : i # x => Begun(st, C, i)
    /\ C[x] = HeaderLen(st[x]) + Len(b)
    /\ \A n \in 1 .. Len(b) : b[n] = [id |-> x, k |-> n]

Reading(st, r, b, C) ==
    /\ r = "header" => \A i \in 1 .. Len(st) : Begun(st, C, i)
    /\ r = "body" => \/ \E n \in 1 .. Len(b) : IsLine(b[n])
                     \/ \E x : ReadingOf(st, C, b, x)

OnTheWay == wire \o out

InFrames ==
    /\ \E C, P, O, I, K :
         InOwnOrder(sent, OnTheWay, pending, C, P, O, I, K) /\ Reading(sent, rpc, body, C)
    /\ \A w \in Writers : wpc[w] # "write" => pending[w] = <<>>

LEMMA HeadOnTheWay ==
  ASSUME TypeOK
  PROVE  /\ OnTheWay \in Seq(Tokens)
         /\ wire # <<>> => /\ OnTheWay # <<>>
                          /\ OnTheWay[1] = Head(wire)
                          /\ Tail(OnTheWay) = Tail(wire) \o out
<1>1. wire \in Seq(Tokens) /\ out \in Seq(Tokens)
  BY DEF TypeOK
<1>2. OnTheWay \in Seq(Tokens)
  BY <1>1, Joined DEF OnTheWay
<1>3. ASSUME wire # <<>>
      PROVE  /\ OnTheWay # <<>>
             /\ OnTheWay[1] = Head(wire)
             /\ Tail(OnTheWay) = Tail(wire) \o out
  <2> DEFINE s == wire \o out
             t == Tail(wire) \o out
  <2>1. /\ s \in Seq(Tokens) /\ Len(s) = Len(wire) + Len(out)
        /\ \A k \in 1 .. Len(wire) : s[k] = wire[k]
        /\ \A k \in 1 .. Len(out) : s[Len(wire) + k] = out[k]
    BY <1>1, Joined
  <2>2. /\ Tail(wire) \in Seq(Tokens) /\ Len(Tail(wire)) = Len(wire) - 1
        /\ Len(wire) \in Nat \ {0} /\ Len(out) \in Nat /\ 1 \in 1 .. Len(wire)
        /\ \A k \in 1 .. Len(wire) - 1 : Tail(wire)[k] = wire[k + 1]
        /\ Head(wire) = wire[1]
    BY <1>1, <1>3
  <2>3. /\ t \in Seq(Tokens) /\ Len(t) = (Len(wire) - 1) + Len(out)
        /\ \A k \in 1 .. Len(wire) - 1 : t[k] = wire[k + 1]
        /\ \A k \in 1 .. Len(out) : t[(Len(wire) - 1) + k] = out[k]
    BY <1>1, <2>2, Joined
  <2> HIDE DEF s, t
  <2>4. s # <<>> /\ s[1] = Head(wire)
    BY <2>1, <2>2
  <2>5. /\ Tail(s) \in Seq(Tokens) /\ Len(Tail(s)) = Len(s) - 1
        /\ \A k \in 1 .. Len(s) - 1 : Tail(s)[k] = s[k + 1]
    BY <2>1, <2>4
  <2>6. \A k \in 1 .. Len(t) : Tail(s)[k] = t[k]
    <3> TAKE k \in 1 .. Len(t)
    <3>1. Tail(s)[k] = s[k + 1]
      BY <2>1, <2>2, <2>3, <2>5
    <3>2. CASE k \in 1 .. Len(wire) - 1
      <4>1. k + 1 \in 1 .. Len(wire)
        BY <2>2, <3>2
      <4>2. s[k + 1] = wire[k + 1] /\ t[k] = wire[k + 1]
        BY <2>1, <2>3, <3>2, <4>1
      <4> QED
        BY <3>1, <4>2
    <3>3. CASE k \notin 1 .. Len(wire) - 1
      <4>1. PICK j \in 1 .. Len(out) : k = (Len(wire) - 1) + j /\ k + 1 = Len(wire) + j
        <5>1. k - (Len(wire) - 1) \in 1 .. Len(out)
          BY <2>2, <2>3, <3>3
        <5>2. /\ k = (Len(wire) - 1) + (k - (Len(wire) - 1))
              /\ k + 1 = Len(wire) + (k - (Len(wire) - 1))
          BY <2>2, <2>3
        <5> QED
          BY <5>1, <5>2
      <4>2. s[Len(wire) + j] = out[j] /\ t[(Len(wire) - 1) + j] = out[j]
        BY <2>1, <2>3
      <4> QED
        BY <3>1, <4>1, <4>2
    <3> QED
      BY <3>2, <3>3
  <2>7. Tail(s) = t
    BY <2>1, <2>2, <2>3, <2>5, <2>6, Equal
  <2> QED
    BY <2>4, <2>7 DEF OnTheWay, s, t
<1> QED
  BY <1>2, <1>3

LEMMA HeadExpected ==
  ASSUME TypeOK, InFrames
  PROVE  HeaderWhereExpected
<1> SUFFICES ASSUME rpc = "header", wire # <<>> PROVE IsLine(Head(wire))
  BY DEF HeaderWhereExpected
<1>1. PICK C, P, O, I, K : /\ InOwnOrder(sent, OnTheWay, pending, C, P, O, I, K)
                           /\ Reading(sent, rpc, body, C)
  BY DEF InFrames
<1>2. OnTheWay \in Seq(Tokens) /\ OnTheWay # <<>> /\ OnTheWay[1] = Head(wire)
  BY HeadOnTheWay
<1>3. /\ I[1] \in 1 .. Len(sent) /\ C[I[1]] \in Nat /\ K[1] = C[I[1]] + 1
      /\ K[1] \in 1 .. FrameLen(sent[I[1]])
      /\ OnTheWay[1] = Frame(sent[I[1]], I[1])[K[1]]
  BY <1>1, <1>2, NextOfFrame DEF TypeOK
<1>4. /\ I[1] \in 1 .. MaxSent /\ sent[I[1]] \in Messages
      /\ HeaderLen(sent[I[1]]) \in {2, 3} /\ FrameLen(sent[I[1]]) \in Nat
  BY <1>3, FrameTokens DEF TypeOK, Ids
<1>5. Begun(sent, C, I[1])
  BY <1>1, <1>3 DEF Reading
<1>6. K[1] <= HeaderLen(sent[I[1]])
  BY <1>3, <1>4, <1>5 DEF Begun
<1> QED
  BY <1>2, <1>3, <1>4, <1>6, KindsOfTokens

-----------------------------------------------------------------------------
(***************************************************************************)
(* The steps of senders and of the connection                              *)
(***************************************************************************)
\* A writer has put some of what it has left behind what is on its way.
LEMMA PutOnTheWay ==
  ASSUME TypeOK, NEW w \in Writers, NEW tokens \in Seq(Tokens), Put(w, tokens),
         wire' = wire
  PROVE  /\ OnTheWay \in Seq(Tokens) /\ OnTheWay' \in Seq(Tokens)
         /\ Len(OnTheWay) <= Len(OnTheWay')
         /\ OnTheWay' \o pending'[w] = OnTheWay \o tokens
<1>1. wire \in Seq(Tokens) /\ out \in Seq(Tokens)
  BY DEF TypeOK
<1>2. /\ out' \in Seq(Tokens) /\ Len(out) <= Len(out')
      /\ pending' \in [Writers -> Seq(Tokens)] /\ pending'[w] \in Seq(Tokens)
      /\ out' \o pending'[w] = out \o tokens
  BY PutTokens
<1>3. OnTheWay = wire \o out /\ OnTheWay' = wire \o out'
  BY DEF OnTheWay
<1>4. /\ OnTheWay \in Seq(Tokens) /\ Len(OnTheWay) = Len(wire) + Len(out)
      /\ OnTheWay' \in Seq(Tokens) /\ Len(OnTheWay') = Len(wire) + Len(out')
  BY <1>1, <1>2, <1>3, Joined
<1>5. Len(OnTheWay) <= Len(OnTheWay')
  BY <1>1, <1>2, <1>4
<1>6. (wire \o out') \o pending'[w] = wire \o (out' \o pending'[w])
  <2>1. PICK o \in Seq(Tokens), q \in Seq(Tokens) : o = out' /\ q = pending'[w]
    BY <1>2
  <2>2. (wire \o o) \o q = wire \o (o \o q)
    BY <1>1, JoinThree, SMTT(30)
  <2> QED
    BY <2>1, <2>2, Zenon
<1>7. (wire \o out) \o tokens = wire \o (out \o tokens)
  BY <1>1, JoinThree, Zenon
<1> QED
  BY <1>2, <1>3, <1>4, <1>5, <1>6, <1>7

LEMMA PutAwaits ==
  ASSUME TypeOK, InFrames, NEW w \in Writers, NEW tokens \in Seq(Tokens), Put(w, tokens)
  PROVE  \A v \in Writers : wpc'[v] # "write" => pending'[v] = <<>>
BY PutTokens DEF InFrames

LEMMA ResumeInFrames ==
  ASSUME TypeOK, InFrames, NEW w \in Writers, ResumeWrite(w)
  PROVE  InFrames'
<1>1. /\ pending[w] \in Seq(Tokens) /\ Put(w, pending[w]) /\ wire' = wire
      /\ UNCHANGED <<sent, rpc, body>>
  BY DEF ResumeWrite, TypeOK
<1>2. /\ OnTheWay \in Seq(Tokens) /\ OnTheWay' \in Seq(Tokens)
      /\ Len(OnTheWay) <= Len(OnTheWay')
      /\ OnTheWay' \o pending'[w] = OnTheWay \o pending[w]
  BY <1>1, PutOnTheWay
<1>3. /\ pending' \in [Writers -> Seq(Tokens)]
      /\ \A v \in Writers : v # w => pending'[v] = pending[v]
  BY <1>1, PutTokens
<1>4. PICK C, P, O, I, K : /\ InOwnOrder(sent, OnTheWay, pending, C, P, O, I, K)
                           /\ Reading(sent, rpc, body, C)
  BY DEF InFrames
<1>5. \E Q, J, L : InOwnOrder(sent, OnTheWay', pending', C, Q, O, J, L)
  <2> DEFINE t == OnTheWay'
             qn == pending'
  <2>1. /\ t \in Seq(Tokens) /\ Len(OnTheWay) <= Len(t)
        /\ t \o qn[w] = OnTheWay \o pending[w]
        /\ qn \in [Writers -> Seq(Tokens)]
        /\ \A v \in Writers : v # w => qn[v] = pending[v]
    BY <1>2, <1>3
  <2> HIDE DEF t, qn
  <2>2. \E Q, J, L : InOwnOrder(sent, t, qn, C, Q, O, J, L)
    BY <1>2, <1>4, <2>1, PutInOrder DEF TypeOK
  <2> QED
    BY <2>2 DEF t, qn
<1>6. \A v \in Writers : wpc'[v] # "write" => pending'[v] = <<>>
  BY <1>1, PutAwaits
<1> QED
  BY <1>1, <1>4, <1>5, <1>6 DEF InFrames

\* Message id of w is yet to be put at all.
Joining(w, m, id, pn, pn2, C, D, P, Q, O, O2) ==
    /\ pn2 = [pn EXCEPT ![w] = Frame(m, id)]
    /\ D = [C EXCEPT ![id] = 0]
    /\ Q = [P EXCEPT ![id] = 0]
    /\ O2 = [v \in Writers |-> IF v = w THEN id ELSE O[v]]

LEMMA BeginInOrder ==
  ASSUME NEW st \in Seq(Messages), Len(st) < MaxSent, NEW m \in Messages,
         NEW s \in Seq(Tokens), NEW w \in Writers,
         NEW pn \in [Writers -> Seq(Tokens)], pn[w] = <<>>,
         NEW C, NEW P, NEW O, NEW I, NEW K, InOwnOrder(st, s, pn, C, P, O, I, K),
         NEW id, id = Len(st) + 1, NEW pn2, NEW D, NEW Q, NEW O2,
         Joining(w, m, id, pn, pn2, C, D, P, Q, O, O2)
  PROVE  InOwnOrder(Append(st, m), s, pn2, D, Q, O2, I, K)
<1> DEFINE st2 == Append(st, m)
           f == Frame(m, id)
<1>a. /\ pn2 = [pn EXCEPT ![w] = f]
      /\ D = [C EXCEPT ![id] = 0] /\ Q = [P EXCEPT ![id] = 0]
      /\ O2 = [v \in Writers |-> IF v = w THEN id ELSE O[v]]
  BY DEF Joining
<1>1. /\ id \in Ids /\ id \in Nat /\ Len(st) \in Nat /\ id \notin 1 .. Len(st)
      /\ Len(st) <= MaxSent /\ id \in 1 .. MaxSent
  BY FramingAssumption DEF Ids
<1>2. /\ st2 \in Seq(Messages) /\ Len(st2) = id /\ Len(st2) <= MaxSent
      /\ st2[id] = m
      /\ \A i \in 1 .. Len(st) : st2[i] = st[i] /\ i # id /\ i \in 1 .. Len(st2)
      /\ \A i \in 1 .. Len(st2) : i = id \/ i \in 1 .. Len(st)
      /\ id \in 1 .. Len(st2)
  BY <1>1, FramingAssumption
<1>3. /\ D \in [Ids -> Nat] /\ Q \in [Ids -> Nat]
      /\ D[id] = 0 /\ Q[id] = 0
      /\ \A i \in Ids : i # id => D[i] = C[i] /\ Q[i] = P[i]
  BY <1>a, <1>1 DEF InOwnOrder
<1>4. /\ f \in Seq(Tokens) /\ Len(f) = FrameLen(m) /\ FrameLen(m) \in Nat
  BY <1>1, <1>2, FrameOf, FrameTokens
<1>5. /\ pn2[w] = f
      /\ \A v \in Writers : v # w => pn2[v] = pn[v]
      /\ O2[w] = id
      /\ \A v \in Writers : v # w => O2[v] = O[v]
  BY <1>a, <1>4
<1>6. \A i \in 1 .. Len(st) : i \in Ids /\ D[i] = C[i] /\ Q[i] = P[i]
  BY <1>1, <1>2, <1>3, FrameTokens
<1> HIDE DEF st2, f
<1>7. Counts(st2, D, Q)
  <2> SUFFICES ASSUME NEW i \in 1 .. Len(st2)
               PROVE  D[i] <= Q[i] /\ Q[i] <= FrameLen(st2[i])
    BY DEF Counts
  <2>1. CASE i = id
    <3>1. 0 <= 0 /\ 0 <= FrameLen(m)
      BY <1>4
    <3> QED
      BY <1>2, <1>3, <2>1, <3>1
  <2>2. CASE i \in 1 .. Len(st)
    BY <1>2, <1>6, <2>2 DEF InOwnOrder, Counts
  <2> QED
    BY <1>2, <2>1, <2>2
<1>8. Placed(st2, s, D, Q, I, K)
  <2> SUFFICES ASSUME NEW n \in 1 .. Len(s)
               PROVE  /\ I[n] \in 1 .. Len(st2)
                      /\ K[n] \in Nat
                      /\ D[I[n]] < K[n] /\ K[n] <= Q[I[n]]
                      /\ s[n] = Frame(st2[I[n]], I[n])[K[n]]
    BY DEF Placed
  <2>1. /\ I[n] \in 1 .. Len(st) /\ K[n] \in Nat
        /\ C[I[n]] < K[n] /\ K[n] <= P[I[n]]
        /\ s[n] = Frame(st[I[n]], I[n])[K[n]]
    BY DEF InOwnOrder, Placed
  <2> QED
    BY <1>2, <1>6, <2>1
<1>9. Rising(s, I, K)
  BY DEF InOwnOrder
<1>10. Present(st2, s, D, Q, I, K)
  <2> SUFFICES ASSUME NEW i \in 1 .. Len(st2), NEW k \in Nat, D[i] < k, k <= Q[i]
               PROVE  \E n \in 1 .. Len(s) : I[n] = i /\ K[n] = k
    BY DEF Present
  <2>1. i # id
    BY <1>3
  <2>2. i \in 1 .. Len(st)
    BY <1>2, <2>1
  <2> QED
    BY <1>6, <2>2 DEF InOwnOrder, Present
<1>11. ASSUME NEW v \in Writers PROVE Kept(st2, pn2, Q, O2, v)
  <2>1. CASE v = w
    <3>1. Q[id] + Len(f) = FrameLen(m) /\ \A k \in 1 .. Len(f) : f[k] = f[Q[id] + k]
      BY <1>3, <1>4
    <3>2. f = Frame(st2[id], id)
      BY <1>2 DEF f
    <3> QED
      BY <1>2, <1>5, <2>1, <3>1, <3>2 DEF Kept
  <2>2. CASE v # w
    <3> SUFFICES ASSUME pn2[v] # <<>> PROVE Kept(st2, pn2, Q, O2, v)
      BY DEF Kept
    <3>1. Kept(st, pn, P, O, v) /\ pn2[v] = pn[v] /\ O2[v] = O[v]
      BY <1>5, <2>2 DEF InOwnOrder
    <3>2. O[v] \in 1 .. Len(st)
      BY <3>1 DEF Kept
    <3>3. /\ P[O[v]] + Len(pn[v]) = FrameLen(st[O[v]])
          /\ \A k \in 1 .. Len(pn[v]) : pn[v][k] = Frame(st[O[v]], O[v])[P[O[v]] + k]
      BY <3>1 DEF Kept
    <3>4. O[v] \in 1 .. Len(st2) /\ st2[O[v]] = st[O[v]] /\ Q[O[v]] = P[O[v]]
      BY <1>2, <1>6, <3>2
    <3> QED
      BY <3>1, <3>3, <3>4 DEF Kept
  <2> QED
    BY <2>1, <2>2
<1>12. Owned(pn2, O2)
  <2>1. \A v \in Writers : v # w /\ pn2[v] # <<>> => O2[v] # id
    <3> TAKE v \in Writers
    <3> HAVE v # w /\ pn2[v] # <<>>
    <3>1. Kept(st, pn, P, O, v) /\ pn2[v] = pn[v] /\ O2[v] = O[v]
      BY <1>5 DEF InOwnOrder
    <3> QED
      BY <1>1, <3>1 DEF Kept
  <2> QED
    BY <1>5, <2>1 DEF InOwnOrder, Owned
<1>13. InOwnOrder(st2, s, pn2, D, Q, O2, I, K)
  BY <1>3, <1>7, <1>8, <1>9, <1>10, <1>11, <1>12 DEF InOwnOrder
<1> QED
  BY <1>13 DEF st2

\* The receiver reads on as before if nobody's count in the old frames changes.
LEMMA ReadingKept ==
  ASSUME NEW st \in Seq(Messages), Len(st) < MaxSent, NEW m \in Messages,
         NEW C \in [Ids -> Nat], NEW r, NEW b, Reading(st, r, b, C),
         NEW id, id = Len(st) + 1
  PROVE  Reading(Append(st, m), r, b, [C EXCEPT ![id] = 0])
<1> DEFINE st2 == Append(st, m)
           D == [C EXCEPT ![id] = 0]
<1>1. /\ id \in Ids /\ id \in Nat /\ Len(st) \in Nat
      /\ st2[id] = m /\ Len(st2) = id
      /\ \A i \in 1 .. Len(st) : st2[i] = st[i] /\ i # id /\ i \in 1 .. Len(st2) /\ i \in Ids
      /\ \A i \in 1 .. Len(st2) : i = id \/ i \in 1 .. Len(st)
  BY FramingAssumption DEF Ids
<1>2. D[id] = 0 /\ \A i \in 1 .. Len(st) : D[i] = C[i]
  BY <1>1
<1> HIDE DEF st2, D
<1>3. Begun(st2, D, id)
  <2>1. 0 < HeaderLen(m)
    BY DEF HeaderLen
  <2> QED
    BY <1>1, <1>2, <2>1 DEF Begun
<1>4. \A i \in 1 .. Len(st) : Begun(st, C, i) => Begun(st2, D, i)
  BY <1>1, <1>2 DEF Begun
<1>5. r = "header" => \A i \in 1 .. Len(st2) : Begun(st2, D, i)
  BY <1>1, <1>3, <1>4 DEF Reading
<1>6. ASSUME NEW x, ReadingOf(st, C, b, x)
      PROVE  ReadingOf(st2, D, b, x)
  <2>1. x \in 1 .. Len(st2) /\ st2[x] = st[x] /\ D[x] = C[x]
    BY <1>1, <1>2, <1>6 DEF ReadingOf
  <2>2. \A i \in 1 .. Len(st2) : i # x => Begun(st2, D, i)
    BY <1>1, <1>3, <1>4, <1>6 DEF ReadingOf
  <2> QED
    BY <1>6, <2>1, <2>2 DEF ReadingOf
<1> QED
  BY <1>5, <1>6 DEF Reading, st2, D

LEMMA BeginInFrames ==
  ASSUME TypeOK, InFrames, NEW w \in Writers, NEW m \in Messages, BeginSend(w, m)
  PROVE  InFrames'
<1> DEFINE id == Len(sent) + 1
           f == Frame(m, id)
<1>1. /\ sent \in Seq(Messages) /\ Len(sent) < MaxSent /\ Len(sent) <= MaxSent
      /\ id \in 1 .. MaxSent
      /\ pending \in [Writers -> Seq(Tokens)] /\ pending[w] = <<>>
  BY FramingAssumption DEF BeginSend, TypeOK, InFrames
<1>a. id = Len(sent) + 1
  OBVIOUS
<1>2. /\ sent' = Append(sent, m) /\ Put(w, f)
      /\ UNCHANGED <<wire, rpc, body>>
  BY DEF BeginSend
<1>3. f \in Seq(Tokens)
  BY <1>1, FrameOf
<1> HIDE DEF f, id
<1>4. /\ OnTheWay \in Seq(Tokens) /\ OnTheWay' \in Seq(Tokens)
      /\ Len(OnTheWay) <= Len(OnTheWay')
      /\ OnTheWay' \o pending'[w] = OnTheWay \o f
  BY <1>2, <1>3, PutOnTheWay
<1>5. /\ pending' \in [Writers -> Seq(Tokens)]
      /\ \A v \in Writers : v # w => pending'[v] = pending[v]
  BY <1>2, <1>3, PutTokens
<1>6. PICK C, P, O, I, K : /\ InOwnOrder(sent, OnTheWay, pending, C, P, O, I, K)
                           /\ Reading(sent, rpc, body, C)
  BY DEF InFrames
<1> DEFINE st2 == Append(sent, m)
           pn2 == [pending EXCEPT ![w] = f]
           D == [C EXCEPT ![id] = 0]
           P2 == [P EXCEPT ![id] = 0]
           O2 == [v \in Writers |-> IF v = w THEN id ELSE O[v]]
<1>7. InOwnOrder(st2, OnTheWay, pn2, D, P2, O2, I, K)
  <2>1. Joining(w, m, id, pending, pn2, C, D, P, P2, O, O2)
    BY DEF f, Joining
  <2> HIDE DEF pn2, D, P2, O2
  <2> QED
    BY <1>1, <1>a, <1>4, <1>6, <2>1, BeginInOrder
<1>8. Reading(st2, rpc, body, D)
  <2>1. C \in [Ids -> Nat]
    BY <1>6 DEF InOwnOrder
  <2> QED
    BY <1>1, <1>a, <1>6, <2>1, ReadingKept
<1>9. /\ st2 \in Seq(Messages) /\ Len(st2) <= MaxSent
      /\ pn2 \in [Writers -> Seq(Tokens)] /\ pn2[w] = f
      /\ \A v \in Writers : v # w => pn2[v] = pending[v]
  <2>1. Append(sent, m) \in Seq(Messages) /\ Len(Append(sent, m)) = Len(sent) + 1
    BY <1>1
  <2>2. Len(sent) + 1 <= MaxSent
    BY <1>1, FramingAssumption DEF TypeOK
  <2> QED
    BY <1>1, <1>3, <2>1, <2>2
<1> DEFINE t == OnTheWay'
           qn == pending'
<1>10. /\ t \in Seq(Tokens) /\ qn \in [Writers -> Seq(Tokens)]
       /\ Len(OnTheWay) <= Len(t)
       /\ t \o qn[w] = OnTheWay \o pn2[w]
       /\ \A v \in Writers : v # w => qn[v] = pn2[v]
  BY <1>4, <1>5, <1>9
<1> HIDE DEF st2, pn2, D, P2, O2, t, qn
<1>11. \E Q, J, L : InOwnOrder(st2, t, qn, D, Q, O2, J, L)
  BY <1>4, <1>7, <1>9, <1>10, PutInOrder
<1>12. \E Q, J, L : InOwnOrder(sent', OnTheWay', pending', D, Q, O2, J, L)
  BY <1>2, <1>11 DEF st2, t, qn
<1>13. Reading(sent', rpc', body', D)
  BY <1>2, <1>8 DEF st2
<1>14. \A v \in Writers : wpc'[v] # "write" => pending'[v] = <<>>
  BY <1>2, <1>3, PutAwaits
<1> QED
  BY <1>12, <1>13, <1>14 DEF InFrames

\* A failed send drops what its writer has left.
LEMMA ErrorInFrames ==
  ASSUME TypeOK, InFrames, NEW w \in Writers, SendError(w)
  PROVE  InFrames'
<1>1. /\ pending \in [Writers -> Seq(Tokens)]
      /\ pending' = [pending EXCEPT ![w] = <<>>]
      /\ wpc \in [Writers -> {"idle", "write", "flush"}]
      /\ wpc' = [wpc EXCEPT ![w] = "idle"]
      /\ UNCHANGED <<sent, wire, out, rpc, body>>
  BY DEF SendError, TypeOK
<1>2. /\ pending'[w] = <<>>
      /\ \A v \in Writers : v # w => pending'[v] = pending[v] /\ wpc'[v] = wpc[v]
  BY <1>1
<1>3. PICK C, P, O, I, K : /\ InOwnOrder(sent, OnTheWay, pending, C, P, O, I, K)
                           /\ Reading(sent, rpc, body, C)
  BY DEF InFrames
<1>4. \A v \in Writers : Kept(sent, pending', P, O, v)
  BY <1>2, <1>3 DEF InOwnOrder, Kept
<1>5. Owned(pending', O)
  BY <1>2, <1>3 DEF InOwnOrder, Owned
<1>6. InOwnOrder(sent, OnTheWay, pending', C, P, O, I, K)
  BY <1>3, <1>4, <1>5 DEF InOwnOrder
<1>7. OnTheWay' = OnTheWay
  BY <1>1 DEF OnTheWay
<1>8. \A v \in Writers : wpc'[v] # "write" => pending'[v] = <<>>
  BY <1>2 DEF InFrames
<1> QED
  BY <1>1, <1>3, <1>6, <1>7, <1>8 DEF InFrames

LEMMA DrainInFrames ==
  ASSUME TypeOK, InFrames, Drain
  PROVE  InFrames'
<1>1. UNCHANGED <<sent, pending, wpc, rpc, body>>
  BY DEF Drain
<1>2. out # <<>> /\ wire' = Append(wire, Head(out)) /\ out' = Tail(out)
  BY DEF Drain
<1>3. out \in Seq(Tokens) /\ wire \in Seq(Tokens)
  BY DEF TypeOK
<1> DEFINE h == <<Head(out)>>
           t == Tail(out)
<1>4. h \in Seq(Tokens) /\ t \in Seq(Tokens) /\ out = h \o t /\ wire' = wire \o h
  <2>1. Head(out) \in Tokens
    BY <1>2, <1>3
  <2>2. h \in Seq(Tokens) /\ t \in Seq(Tokens)
    BY <1>2, <1>3, <2>1
  <2>3. h \o t \in Seq(Tokens) /\ Len(h \o t) = Len(out)
    BY <1>2, <1>3, <2>1, <2>2
  <2>4. \A k \in 1 .. Len(out) : out[k] = (h \o t)[k]
    BY <1>2, <1>3, <2>1, <2>2
  <2>5. out = h \o t
    BY <1>3, <2>3, <2>4, Equal
  <2> QED
    BY <1>2, <2>2, <2>5
<1> HIDE DEF h
<1>5. (wire \o h) \o t = wire \o (h \o t)
  BY <1>3, <1>4, JoinThree
<1>6. OnTheWay' = OnTheWay
  BY <1>2, <1>4, <1>5 DEF OnTheWay
<1> QED
  BY <1>1, <1>6 DEF InFrames

(***************************************************************************)
(* The steps of the receiver                                               *)
(***************************************************************************)
\* The receiver takes one token of one frame.
LEMMA TakeInFrames ==
  ASSUME TypeOK, InFrames, wire # <<>>, wire' = Tail(wire),
         UNCHANGED <<sent, pending, wpc, out>>,
         \A C, D, i, k :
           /\ C \in [Ids -> Nat] /\ D = [C EXCEPT ![i] = k]
           /\ i \in 1 .. Len(sent) /\ i \in Ids /\ k = C[i] + 1
           /\ k \in 1 .. FrameLen(sent[i]) /\ Head(wire) = Frame(sent[i], i)[k]
           /\ Reading(sent, rpc, body, C)
           => Reading(sent, rpc', body', D)
  PROVE  InFrames'
<1>1. PICK C, P, O, I, K : /\ InOwnOrder(sent, OnTheWay, pending, C, P, O, I, K)
                           /\ Reading(sent, rpc, body, C)
  BY DEF InFrames
<1>2. /\ OnTheWay \in Seq(Tokens) /\ OnTheWay # <<>> /\ OnTheWay[1] = Head(wire)
      /\ OnTheWay' = Tail(OnTheWay)
  BY HeadOnTheWay DEF OnTheWay
<1>3. /\ I[1] \in 1 .. Len(sent) /\ I[1] \in Ids /\ C[I[1]] \in Nat
      /\ K[1] = C[I[1]] + 1
      /\ K[1] \in 1 .. FrameLen(sent[I[1]])
      /\ OnTheWay[1] = Frame(sent[I[1]], I[1])[K[1]]
  BY <1>1, <1>2, NextOfFrame DEF TypeOK
<1> DEFINE D == [C EXCEPT ![I[1]] = C[I[1]] + 1]
<1>4. InOwnOrder(sent, Tail(OnTheWay), pending, D, P, O,
                 Later(I, OnTheWay), Later(K, OnTheWay))
  BY <1>1, <1>2, TakenInOrder DEF TypeOK
<1>5. Reading(sent, rpc', body', D)
  <2>1. C \in [Ids -> Nat]
    BY <1>1 DEF InOwnOrder
  <2>2. D = [C EXCEPT ![I[1]] = K[1]]
    BY <1>3
  <2> HIDE DEF D
  <2> QED
    BY <1>1, <1>2, <1>3, <2>1, <2>2
<1> HIDE DEF D
<1>6. \E C2, P2, O2, J, L :
        InOwnOrder(sent', OnTheWay', pending', C2, P2, O2, J, L) /\ Reading(sent', rpc', body', C2)
  BY <1>2, <1>4, <1>5
<1> QED
  BY <1>6 DEF InFrames

\* One more token of a frame
LEMMA OneMore ==
  ASSUME NEW C \in [Ids -> Nat], NEW D, NEW i \in Ids, NEW k, D = [C EXCEPT ![i] = k]
  PROVE  D[i] = k /\ \A j \in Ids : j # i => D[j] = C[j]
OBVIOUS

\* A line that does not end the header
LEMMA LineInFrames ==
  ASSUME TypeOK, InFrames, NextIsLine, Head(wire).line # "empty", wire' = Tail(wire),
         UNCHANGED <<sent, pending, wpc, out, rpc, body>>
  PROVE  InFrames'
<1>1. rpc = "header" /\ wire # <<>>
  BY DEF NextIsLine
<1>2. ASSUME NEW C \in [Ids -> Nat], NEW D, NEW i \in 1 .. Len(sent), NEW k,
             D = [C EXCEPT ![i] = k], i \in Ids, k = C[i] + 1,
             k \in 1 .. FrameLen(sent[i]), Head(wire) = Frame(sent[i], i)[k],
             Reading(sent, rpc, body, C)
      PROVE  Reading(sent, rpc', body', D)
  <2>1. D[i] = k /\ \A j \in 1 .. Len(sent) : j \in Ids /\ (j # i => D[j] = C[j])
    BY <1>2, OneMore, FrameTokens DEF TypeOK
  <2>2. /\ i \in 1 .. MaxSent /\ sent[i] \in Messages
        /\ HeaderLen(sent[i]) \in {2, 3} /\ FrameLen(sent[i]) \in Nat /\ C[i] \in Nat
    BY <1>2, FrameTokens DEF TypeOK, Ids
  <2>3. \A j \in 1 .. Len(sent) : Begun(sent, C, j)
    BY <1>1, <1>2 DEF Reading
  <2>4. k <= HeaderLen(sent[i])
    BY <1>2, <2>2, <2>3 DEF Begun
  <2>5. k # HeaderLen(sent[i])
    BY <1>2, <2>2, KindsOfTokens
  <2>6. k < HeaderLen(sent[i])
    BY <1>2, <2>2, <2>4, <2>5
  <2>7. \A j \in 1 .. Len(sent) : Begun(sent, D, j)
    BY <2>1, <2>3, <2>6 DEF Begun
  <2> QED
    BY <1>1, <2>7 DEF Reading
<1> QED
  BY <1>1, <1>2, TakeInFrames

LEMMA EmptyInFrames ==
  ASSUME TypeOK, InFrames, RecvEmpty
  PROVE  InFrames'
<1>1. /\ rpc = "header" /\ wire # <<>> /\ wire' = Tail(wire)
      /\ Head(wire).line = "empty" /\ IsLine(Head(wire))
      /\ rpc' \in {"failed", "body"} /\ body' = <<>>
      /\ UNCHANGED <<sent, pending, wpc, out>>
  BY DEF RecvEmpty, NextIsLine
<1>2. ASSUME NEW C \in [Ids -> Nat], NEW D, NEW i \in 1 .. Len(sent), NEW k,
             D = [C EXCEPT ![i] = k], i \in Ids, k = C[i] + 1,
             k \in 1 .. FrameLen(sent[i]), Head(wire) = Frame(sent[i], i)[k],
             Reading(sent, rpc, body, C)
      PROVE  Reading(sent, rpc', body', D)
  <2>1. D[i] = k /\ \A j \in 1 .. Len(sent) : j \in Ids /\ (j # i => D[j] = C[j])
    BY <1>2, OneMore, FrameTokens DEF TypeOK
  <2>2. /\ i \in 1 .. MaxSent /\ sent[i] \in Messages
        /\ HeaderLen(sent[i]) \in {2, 3} /\ FrameLen(sent[i]) \in Nat /\ C[i] \in Nat
    BY <1>2, FrameTokens DEF TypeOK, Ids
  <2>3. \A j \in 1 .. Len(sent) : Begun(sent, C, j)
    BY <1>1, <1>2 DEF Reading
  <2>4. k = HeaderLen(sent[i])
    <3>1. ~(k < HeaderLen(sent[i])) /\ ~(k > HeaderLen(sent[i]))
      BY <1>1, <1>2, <2>2, KindsOfTokens
    <3> QED
      BY <1>2, <2>2, <3>1
  <2>5. /\ Len(body') = 0 /\ D[i] = HeaderLen(sent[i]) + Len(body')
        /\ \A n \in 1 .. Len(body') : body'[n] = [id |-> i, k |-> n]
    BY <1>1, <2>1, <2>2, <2>4
  <2>6. \A j \in 1 .. Len(sent) : j # i => Begun(sent, D, j)
    BY <2>1, <2>3 DEF Begun
  <2>7. ReadingOf(sent, D, body', i)
    BY <2>5, <2>6 DEF ReadingOf
  <2> QED
    BY <1>1, <2>7 DEF Reading
<1> QED
  BY <1>1, <1>2, TakeInFrames

LEMMA BodyInFrames ==
  ASSUME TypeOK, InFrames, RecvBody
  PROVE  InFrames'
<1>1. /\ rpc = "body" /\ rpc' = "body" /\ wire # <<>> /\ wire' = Tail(wire)
      /\ body' = Append(body, Head(wire))
      /\ UNCHANGED <<sent, pending, wpc, out>>
      /\ body \in Seq(Tokens) /\ wire \in Seq(Tokens)
  BY DEF RecvBody, TypeOK
<1>2. /\ Len(body) \in Nat /\ Len(body') = Len(body) + 1
      /\ \A n \in 1 .. Len(body) : body'[n] = body[n] /\ n \in 1 .. Len(body')
      /\ body'[Len(body) + 1] = Head(wire) /\ Len(body) + 1 \in 1 .. Len(body')
      /\ \A n \in 1 .. Len(body') : n \in 1 .. Len(body) \/ n = Len(body) + 1
  BY <1>1
<1>3. ASSUME NEW C \in [Ids -> Nat], NEW D, NEW i \in 1 .. Len(sent), NEW k,
             D = [C EXCEPT ![i] = k], i \in Ids, k = C[i] + 1,
             k \in 1 .. FrameLen(sent[i]), Head(wire) = Frame(sent[i], i)[k],
             Reading(sent, rpc, body, C)
      PROVE  Reading(sent, rpc', body', D)
  <2>1. D[i] = k /\ \A j \in 1 .. Len(sent) : j \in Ids /\ (j # i => D[j] = C[j])
    BY <1>3, OneMore, FrameTokens DEF TypeOK
  <2>2. /\ i \in 1 .. MaxSent /\ sent[i] \in Messages
        /\ HeaderLen(sent[i]) \in {2, 3} /\ FrameLen(sent[i]) \in Nat /\ C[i] \in Nat
    BY <1>3, FrameTokens DEF TypeOK, Ids
  <2>3. CASE \E n \in 1 .. Len(body) : IsLine(body[n])
    BY <1>1, <1>2, <2>3 DEF Reading
  <2>4. CASE \E x : ReadingOf(sent, C, body, x)
    <3> PICK x : ReadingOf(sent, C, body, x)
      BY <2>4
    <3>1. CASE i = x
      <4>1. k = HeaderLen(sent[i]) + (Len(body) + 1) /\ k > HeaderLen(sent[i])
        BY <1>2, <1>3, <2>2, <3>1 DEF ReadingOf
      <4>2. k - HeaderLen(sent[i]) = Len(body) + 1
        BY <1>2, <2>2, <4>1
      <4>3. Head(wire) = [id |-> i, k |-> Len(body) + 1]
        BY <1>3, <2>2, <4>1, <4>2, KindsOfTokens
      <4>4. \A n \in 1 .. Len(body') : body'[n] = [id |-> x, k |-> n]
        BY <1>2, <3>1, <4>3 DEF ReadingOf
      <4>5. D[x] = HeaderLen(sent[x]) + Len(body')
        BY <1>2, <2>1, <3>1, <4>1
      <4>6. \A j \in 1 .. Len(sent) : j # x => Begun(sent, D, j)
        BY <2>1, <3>1 DEF ReadingOf, Begun
      <4>7. ReadingOf(sent, D, body', x)
        BY <3>1, <4>4, <4>5, <4>6 DEF ReadingOf
      <4> QED
        BY <1>1, <4>7 DEF Reading
    <3>2. CASE i # x
      <4>1. Begun(sent, C, i)
        BY <3>2 DEF ReadingOf
      <4>2. k <= HeaderLen(sent[i])
        BY <1>3, <2>2, <4>1 DEF Begun
      <4>3. IsLine(Head(wire))
        BY <1>3, <2>2, <4>2, KindsOfTokens
      <4> QED
        BY <1>1, <1>2, <4>3 DEF Reading
    <3> QED
      BY <3>1, <3>2
  <2> QED
    BY <1>1, <1>3, <2>3, <2>4 DEF Reading
<1> QED
  BY <1>1, <1>3, TakeInFrames

\* What is parsed is the whole body of one message: it is that frame's, and no other
\* has been begun beyond its header.
LEMMA ParseInFrames ==
  ASSUME TypeOK, InFrames, ParseMsg
  PROVE  InFrames'
<1>1. PICK id \in DOMAIN sent : body = Body(sent[id], id)
  BY DEF ParseMsg, Parsed
<1>2. /\ rpc = "body" /\ rpc' = "header"
      /\ UNCHANGED <<sent, pending, wpc, wire, out, body>>
  BY DEF ParseMsg
<1>a. sent \in Seq(Messages) /\ Len(sent) <= MaxSent /\ id \in 1 .. Len(sent)
  BY DEF TypeOK
<1>3. id \in 1 .. Len(sent) /\ id \in 1 .. MaxSent /\ sent[id] \in Messages
      /\ FrameLen(sent[id]) = HeaderLen(sent[id]) + Size[sent[id]]
  BY <1>a, FrameTokens DEF Ids
<1>4. /\ Len(body) = Size[sent[id]] /\ Size[sent[id]] \in Nat \ {0}
      /\ \A n \in 1 .. Size[sent[id]] : body[n] = [id |-> id, k |-> n]
  BY <1>1, <1>3, BodyBytesOf
<1>5. ~\E n \in 1 .. Len(body) : IsLine(body[n])
  <2> SUFFICES ASSUME NEW n \in 1 .. Len(body) PROVE ~IsLine(body[n])
    OBVIOUS
  <2>1. body[n] = [id |-> id, k |-> n]
    BY <1>4
  <2> QED
    BY <2>1, ByteIsNoLine
<1>6. PICK C, P, O, I, K : /\ InOwnOrder(sent, OnTheWay, pending, C, P, O, I, K)
                           /\ Reading(sent, rpc, body, C)
  BY DEF InFrames
<1>7. PICK x : ReadingOf(sent, C, body, x)
  BY <1>2, <1>5, <1>6 DEF Reading
<1>8. x = id
  <2>1. 1 \in 1 .. Len(body) /\ 1 \in 1 .. Size[sent[id]]
    BY <1>4
  <2>2. body[1] = [id |-> x, k |-> 1] /\ body[1] = [id |-> id, k |-> 1]
    BY <1>4, <1>7, <2>1 DEF ReadingOf
  <2>3. [id |-> x, k |-> 1].id = [id |-> id, k |-> 1].id
    BY <2>2
  <2> QED
    BY <2>3
<1>9. C[id] = FrameLen(sent[id])
  BY <1>3, <1>4, <1>7, <1>8 DEF ReadingOf
<1>10. \A i \in 1 .. Len(sent) : Begun(sent, C, i)
  BY <1>7, <1>8, <1>9 DEF ReadingOf, Begun
<1>11. Reading(sent', rpc', body', C)
  BY <1>2, <1>10 DEF Reading
<1>12. OnTheWay' = OnTheWay
  BY <1>2 DEF OnTheWay
<1> QED
  BY <1>2, <1>6, <1>11, <1>12 DEF InFrames

LEMMA InitInFrames == Init => InFrames
<1> SUFFICES ASSUME Init PROVE InFrames
  OBVIOUS
<1>1. /\ sent = <<>> /\ wire \o out = <<>> /\ pending = [w \in Writers |-> <<>>]
      /\ Len(sent) = 0 /\ Len(wire \o out) = 0
  BY DEF Init
<1>2. \A w \in Writers : pending[w] = <<>>
  BY <1>1
<1>3. \A n : n \notin 1 .. 0
  OBVIOUS
<1> DEFINE C == [i \in Ids |-> 0]
<1>4. C \in [Ids -> Nat]
  OBVIOUS
<1> HIDE DEF C
<1>5. Counts(sent, C, C) /\ Present(sent, OnTheWay, C, C, C, C)
  BY <1>1, <1>3 DEF Counts, Present
<1>6. Placed(sent, OnTheWay, C, C, C, C) /\ Rising(OnTheWay, C, C)
  BY <1>1, <1>3 DEF Placed, Rising, OnTheWay
<1>7. (\A w \in Writers : Kept(sent, pending, C, C, w)) /\ Owned(pending, C)
  BY <1>2 DEF Kept, Owned
<1>8. InOwnOrder(sent, OnTheWay, pending, C, C, C, C, C)
  BY <1>4, <1>5, <1>6, <1>7 DEF InOwnOrder
<1>9. Reading(sent, rpc, body, C)
  BY <1>1, <1>3 DEF Init, Reading
<1> QED
  BY <1>2, <1>8, <1>9 DEF InFrames

LEMMA NextInFrames ==
  ASSUME TypeOK, InFrames, [Next]_vars
  PROVE  InFrames'
<1>1. CASE \E w \in Writers : Send(w)
  <2> PICK w \in Writers : Send(w)
    BY <1>1
  <2>1. CASE EndFlush(w)
    <3>1. /\ wpc[w] = "flush" /\ wpc' = [wpc EXCEPT ![w] = "idle"]
          /\ UNCHANGED <<sent, pending, out, wire, rpc, body>>
      BY <2>1 DEF EndFlush
    <3>2. \A v \in Writers : wpc'[v] # "write" => pending'[v] = <<>>
      BY <3>1 DEF TypeOK, InFrames
    <3>3. OnTheWay' = OnTheWay
      BY <3>1 DEF OnTheWay
    <3> QED
      BY <3>1, <3>2, <3>3 DEF InFrames
  <2> QED
    BY <2>1, BeginInFrames, ResumeInFrames, ErrorInFrames DEF Send
<1>2. CASE Receive
  <2>1. CASE RecvOther
    <3>1. UNCHANGED <<sent, pending, wpc, out, rpc, body>>
      BY <2>1 DEF RecvOther
    <3> QED
      BY <2>1, <3>1, LineInFrames DEF RecvOther
  <2>2. CASE RecvLength
    <3>1. UNCHANGED <<sent, pending, wpc, out, rpc, body>>
      BY <2>2 DEF RecvLength
    <3> QED
      BY <2>2, <3>1, LineInFrames DEF RecvLength
  <2>3. CASE BadJson \/ RecvError
    <3>1. rpc' = "failed" /\ UNCHANGED <<sent, pending, wpc, out, wire, body>>
      BY <2>3 DEF BadJson, RecvError
    <3>2. \A C : Reading(sent', rpc', body', C)
      BY <3>1 DEF Reading
    <3>3. OnTheWay' = OnTheWay
      BY <3>1 DEF OnTheWay
    <3> QED
      BY <3>1, <3>2, <3>3 DEF InFrames
  <2> QED
    BY <1>2, <2>1, <2>2, <2>3, EmptyInFrames, BodyInFrames, ParseInFrames DEF Receive
<1>3. CASE UNCHANGED <<sent, pending, wpc, out, wire, rpc, body>>
  BY <1>3 DEF InFrames, OnTheWay
<1>4. CASE Drain
  BY <1>4, DrainInFrames
<1>5. CASE Disconnect \/ UNCHANGED vars
  BY <1>3, <1>5 DEF Disconnect, vars
<1> QED
  BY <1>1, <1>2, <1>4, <1>5 DEF Next

\* Where the receiver looks for a header line it finds one, also after two messages
\* were written into each other and after sends that failed half way: the tokens of
\* one frame stay in their order, so it cannot meet the bytes of a body whose header
\* it has not taken to the end, and a body with a strange token in it does not parse.
THEOREM HeadersFound == Spec => []HeaderWhereExpected
<1>1. Init => TypeOK /\ InFrames
  BY InitType, InitInFrames
<1>2. TypeOK /\ InFrames /\ [Next]_vars => TypeOK' /\ InFrames'
  BY NextType, NextInFrames
<1>3. TypeOK /\ InFrames => HeaderWhereExpected
  BY HeadExpected
<1> QED
  BY <1>1, <1>2, <1>3, PTL DEF Spec
=============================================================================
